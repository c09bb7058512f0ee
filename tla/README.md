# TLA+ verification of RK_LLM's host artifact pipeline

RK_LLM prepares, on a host, the files that a Rockchip RK1828 accelerator runs: it
bootstraps the vendor's dependencies, imports verified model files into the project,
and packages them. Its commands `generate` and `benchmark` run a backend (the one for
the board still reports itself unavailable). What can go wrong in this code in a way that
a unit test hardly reaches is in the order of its steps: several runs of the same command
on one project, exceptions, Ctrl-C and kills between two system calls, files and
directories that change between a check and a use, a power loss. This project models
those protocols in TLA+, checks them with TLC and proves with TLAPS every safety property that
the checks find to hold, and that each program implements an abstract specification.

## 1. The system

| component | source (`src/rk_llm/`) | state | operations | here |
|---|---|---|---|---|
| importer | `host/import_existing.py` | `artifacts/source_models`, `artifacts/work`, `import-record.json`; per run: descriptors, category, identities, statuses | `import_existing` | modelled |
| vendor package builder | `host/package_vendor_demo.py` | `artifacts/packages/<model>/<id>`; per run: commit, records, staging | `build_vendor_demo_package` | modelled |
| package validation | `artifacts/manifest.py` | none | `validate_package`, `canonical_payload`, `compute_package_id` | partly, as operators |
| dependency checkout | `host/bootstrap.py` | `.vendor/<repository>`: HEAD, index, files | `ensure_checkout`, the loop of `main` | modelled |
| runtime adoption | `host/bootstrap.py` | `.vendor/rknn3-runtime` | `adopt_runtime_files` | modelled |
| generation service | `generation/service.py` | the backend, loaded or not | `generate` | modelled |
| backends, probe | `backends/`, `platform/probe.py` | none | `capabilities`, `load`, `generate`, `shutdown` | partly: the protocol |
| benchmark writer | `metrics/benchmark.py` | the output file | `run_benchmark`, `_write_atomic` | modelled |
| command line | `cli.py` | exit status | `generate`, `benchmark`, `entrypoint` | partly |
| system metrics, manifests, configuration, types | `metrics/system.py`, `manifests/`, `config.py`, `types.py`, `errors.py` | none | parsing, validation | not modelled, see section 5 |
| native runner | `native/rknn3_qwen_runner` | - | - | not modelled: a placeholder |
| board transfer and activation | docs only | - | - | not modelled: no code |

How they interact: the importer fills `artifacts/work/<model>/install/<demo>`, which the
builder reads. The builder validates what it stages, and what it reuses, with
`validate_package`; so does the `package-validate` command. The backends look for a
package at `artifacts/deploy/current`. The components share nothing but the file system:
there is no lock, no server and no thread, and runs of one command are the concurrent
processes of the system. The docs tell the user to run the commands again after a
failure, so reruns are ordinary behaviour. Inside a command the service calls the
backend, and the backend's chunks come back through the callback that prints them.

What makes each component correct:

- *Importer.* A directory has a destination's name only if all its files verify. One run
  publishes a category; the others reuse it or fail. What a run reports stands. The
  record is backed by what it lists. A failed run takes back what it made and could
  identify, and nothing else. A killed run never blocks a rerun.
- *Package builder.* A directory that has a package id for a name holds the pinned bytes
  and the manifest that the id hashes, also after a power loss. It is never touched
  again. One run creates it; no staging with anything in it is left; a rerun succeeds.
- *Checkout.* A checkout that a run leaves behind is complete at the pin. Edits of a user
  are not lost (but in a clone that fails under another run). A run rejects a checkout only for a user's edits (it does not: finding 4).
- *Adoption.* A runtime directory that a run makes is whole from the instant it has the
  name; what was there before is kept; no temporary directory is left. A rerun after a
  kill succeeds.
- *Generation.* A backend that was loaded is shut down, whatever fails. The figures of a
  result are those of its chunks.
- *Benchmark writer and commands.* A reader sees a whole old or a whole new output, also
  after a power loss. Exit status 0 means that all was done.

## 2. Modules

| module | what it is |
|---|---|
| `ImportExisting` | the importer: state, actions, faults, competitors, properties |
| `ArtifactStore` | abstract specification: a store that provides each item once, and a record |
| `ImportRefinement` | the refinement mapping from `ImportExisting` to `ArtifactStore` |
| `MCImportExisting` | values of the constants for TLC, and the symmetry of runs |
| `ImportProofs` | proofs of the importer's type invariant, of `PublishedWhole` and of `OnePublisher` |
| `ImportStoreProofs` | inductive invariants and proofs of the importer's other safety properties and of its refinement |
| `VendorPackage` | the package builder: state, actions, faults, power loss, competitors, properties |
| `PackageStore` | abstract specification: a shelf with a place for each package id |
| `PackageRefinement` | the refinement mapping from `VendorPackage` to `PackageStore` |
| `MCVendorPackage` | the symmetry of builders |
| `PackageProofs` | inductive invariant and proofs of the builder's seven safety properties |
| `PackageRefinementProofs` | proof that `VendorPackage` implements `PackageStore` |
| `BootstrapRun` | what checkouts and adoption share: the runs of `main()` and how they end |
| `Checkout` | `ensure_checkout` for one pin after the other; git as an external actor |
| `RuntimeAdoption` | `adopt_runtime_files` |
| `Bootstrap` | the composition of both: `main()`, users' edits, the properties |
| `RuntimeSlot` | abstract specification: a slot that is filled once |
| `BootstrapRefinement` | the refinement mapping from `Bootstrap` to `RuntimeSlot` |
| `MCBootstrap` | the constraint of the run |
| `BootstrapProofs` | proof of the bootstrap's type invariant |
| `AdoptionProofs` | inductive invariant of the adoption, four properties, and that `Bootstrap` implements `RuntimeSlot` |
| `CheckoutProofs` | inductive invariant of the checkouts, and two properties |
| `CommandRun` | what the parts of a command share: its progress and the exception that propagates |
| `Generation` | `GenerationService.generate` over any backend |
| `OutputFile` | `_write_atomic`, on a file system that loses what is not synced |
| `Commands` | the composition: `generate` and `benchmark` from `main()` to the exit status |
| `OutputRegister` | abstract specification: a register with a copy on disk |
| `CommandsRefinement` | the refinement mapping from `Commands` to `OutputRegister` |
| `MCCommands` | the constraint of the run |
| `CommandsProofs` | inductive invariants of the commands, six properties, and that `Commands` implements `OutputRegister` |

`Mutant of X` in a comment marks an operator that changes `X` as a plausible bug would.
Nothing uses it; it is there to be put in the place of `X`, and every property of a run
that passes is violated by such a change.

### 2.1 ImportExisting

A run (`Importer`) is a process whose program counter `pc` stands at the points where
another process, an exception or a kill can matter; each action is the code between two
such points, with the checks that the code makes there.

| code | actions |
|---|---|
| `import_existing`, up to the loop | `Start` (workspace and sources), `OpenRoot` (`artifacts/`) |
| the loop over categories | `BeginCategory` |
| `_populate_category`, destination exists | `StatDest`, `OpenDest`, `VerifyDest` (one file a step), `Reuse` |
| `_populate_category`, staging | `Mkdtemp`, `Identify`, `CopyPin` (one file a step), `CheckParent`, `RenameNoreplace`, `PostCheck` |
| `_remove_owned_directory` | `FindOwned`, `OpenDoomed`, `PurgeFile` (one file a step), `Rmdir` |
| `_write_record` | `RecordTemp`, `IdentifyRecord`, `RecordReplace`, `RecordCheck` |
| `_unlink_owned_file` | `FindRecord`, `UnlinkTemp`, `UnlinkRecord` |
| the final checks | `FinalCheck` (one category a step), `FinalRecord` |
| `except BaseException` | `Raise` with `Handler`; `OpenFails` for the open after `mkdtemp`; `LeaveBehind` for an exception in a cleanup |

State. A path is modelled by what it names *now*, a descriptor by what it named when it
was opened. `root`, `gen` and `workspace` are the identities (device and inode) that
`artifacts/`, a destination's parent and the workspace have now; `rootFd`, `dirFd`,
`wsFd` are those a run holds. So "the descriptor is still what the path names"
(`_assert_directory_mapping`) is an equality. A category directory (`Tree`) is identified
by the run and category that made it; `tdir` and `tname` say where it is and under which
name, so that `os.stat(name, dir_fd)` is `At(dir, name)` and a search by identity
(`_matching_entry_name`) is `tname[cur]`. A file is absent, bad, good, or a hard link to
the source (`linked`), whose bytes change with the source's. `record` is the run whose
record `import-record.json` holds, per directory.

Faults, enabled by the constant `Faults`: an exception at any point of a run (`error`:
`OSError`, a full disk, Ctrl-C), an exception in a cleanup, which the code swallows
(`cleanup`), a kill (`crash`). An exception or kill during a copy may leave a partial
file. Other programs, enabled by `Moves`: `artifacts/`, a parent or the workspace is
renamed and made anew; a source file is edited or restored; a directory is put at a free
destination, or in the place of another that is renamed out of the way. These are the
cases that `tests/unit/test_import_existing.py` provokes one at a time with monkeypatches.

Abstractions.
- Checks that stand next to each other in the code, with no change of shared state
  between, are one action. The second and third look at a doomed directory in
  `_remove_owned_directory` are merged into the last of them, which is the one that
  `rmtree` relies on; likewise in `_unlink_owned_file`.
- `mkdtemp` and the successful open of the new directory are one step, and so are `mkstemp`
  and reading the file's name from the path. What comes next, the `fstat` that learns the
  identity, is a step of its own (`Identify`, `IdentifyRecord`): the cleanups go by
  identity, and a run that fails there (lines 644 and 997, and the handler of line 998,
  which unlinks nothing) is `astray`: its empty directory, or its temporary record, stays.
- Symlink components, `..`, the preflight of paths and model ids are left out: the paths
  of the model are real directories. Missing parents are made on opening and count as
  the identity that the path then names; the Demo's destination below `work/` is a
  location of its own (`Loc`) that is not nested in another.
- An identity is never used twice: an inode number that the kernel reuses is not
  modelled.
- `import_existing` does not sync what it publishes; a power loss is not modelled for it.

### 2.2 VendorPackage

| code | actions |
|---|---|
| `_project_state` | `CheckClean`, `ReadCommit` |
| `_verify_demo` | `TakeInventory`, `VerifyDemoFile` |
| `_elf_metadata`, `_file_record` | `RecordFile` |
| `lexists`, `_same_package` | `LookUp` |
| `mkdtemp`, `owns_staging = True` | `Mkdtemp`, `Own` |
| copy loop, manifest, `_fsync_tree`, `validate_package` | `CopyFile`, `WriteManifest`, `SyncTree`, `Validate` |
| `_publish_noreplace` and its handlers | `Publish`, `ReuseOrConflict` |
| `owns_staging = False`, fsync of the parent | `Disown`, `SyncParent` |
| `finally` with `_remove_owned_staging` | `FindStaging`, `PurgeFile`, `Rmdir`; `Handler` |

A package id stands for the payload that it hashes, `Payload`: the commit (and compiler)
and the digests of the files. The first 16 digits of SHA-256 are taken to be injective.
`created_at` is the run itself, and is left out of the comparison, as `canonical_payload`
does. A directory has the bytes it holds (`held`), the payload of its manifest
(`described`), and what is on disk: files synced one by one (`synced`), the entries of
its directories (`treeSynced`), and the name it is sure to keep (`firmName`), which only
an fsync of the parent gives. `PowerLoss` kills all runs; it may lose every byte and entry
that is not synced, and any name since the last sync of the parent. The parent itself
may or may not be on disk already (`parentFirm`): the code makes it with `mkdir` and
syncs none of its ancestors.

A `RecordFile` of a file that has changed since its verification may or may not pass the
ELF checks. The validation of a package is one step: its doc says that the caller
keeps the package stable meanwhile.
Faults are those of the importer, with a signal's exception (`interrupt`) apart from a
failing call (`error`): a signal can strike between a system call and the assignment
that notes its success. Other programs change, remove, add and restore files of the Demo
(`EditDemo`, at most `MaxEdits` edits of any kind), edit and commit the project, and put a
directory at a package's name. The `chmod` and the `lstat` of the new staging directory come before
the try statement: a call that fails there, or a signal, makes the run `astray`, and its staging,
which is empty, stays. `EditDemo` stands for the importer, too: whatever a run of
it publishes, rolls back or purges in the Demo's directory while a build is under way is
a sequence of such edits, file by file, which is more than the importer can do.

`PackageRefinement` maps the directories that have a package's name to the places of the
shelf, the valid ones among them to the sound ones, and the statuses to claims.

### 2.3 Bootstrap: Checkout and RuntimeAdoption

A run (`Run`) is one call of `main()`: the pins in turn, then the runtime. `pc` and `pos`
are its progress and the repository, or the pinned file, that it is at.

| code | actions |
|---|---|
| `ensure_checkout`: `lexists`, `git status` | `Inspect` |
| `git clone --no-checkout` | `CloneBegin`, `CloneEnd` |
| `git remote get-url`, `git fetch` | `CheckOrigin`, `Fetch` |
| `git checkout --detach` | `CheckoutBegin`, `CheckoutEnd` |
| `git rev-parse HEAD`, the next pin | `ReadHead` |
| a git command that fails, Ctrl-C | `CheckoutRaise`; a kill: `CheckoutCrash` |
| `adopt_runtime_files`: verification of the SDK | `VerifySource` (one file a step) |
| a destination that exists | `FindRuntime`, `ReverifyFile` |
| `mkdtemp`, copy, verification of the copies | `Mkdtemp`, `CopyPin`, `VerifyStaged` |
| the second `lexists`, `os.replace`, return | `CheckFree`, `Replace`, `ReturnAdopted` |
| `except BaseException`: `rmtree` | `Discard`, `PurgeFile`, `Rmdir`; `AdoptionRaise` with `Handler` |

Git is external, and modelled by what each command does to HEAD, to the index, to the
files and to `index.lock`; this was compared with what git does on a scratch repository,
unborn HEAD, interrupted clone and checkout of edited files included. A clone and a
checkout take two steps, so that another run sees them half done. `git status` prints
nothing exactly if HEAD, index and files agree, which an unborn HEAD without files
does. `os.replace` of a directory is `rename(2)`: it replaces an empty directory, and
fails on any other.

Abstractions. A kill strikes a run and its git command together. A fetch changes nothing
that the properties see. The URL rewriting of git's configuration (`insteadOf`) and the
optional seed workspace are left out. `mkdtemp` and the entry of the try statement are one
step: a Ctrl-C seen between them would leave an empty directory. A clone that fails removes its
whole directory, with what others have put there. `joined` is a history: the runs that
went on in a clone of each repository before it was made. Symlink checks and the syntax of paths are left out.

Users edit a checkout as soon as it has files (also between `git status` and `git checkout`, and in
the clone that a run is still making, once another has gone on in it) and take the edit back,
change and restore files of the SDK, and put a directory at the destination: an empty one, a
whole runtime with further files, or one that lacks pinned files.

`BootstrapRefinement` maps what stands at `.vendor/rknn3-runtime` to what fills the slot, an empty
directory to no filling, and the runs that have returned to the satisfied ones.

### 2.4 Commands: Generation and OutputFile

A command (`Command`) is a process that runs `generate`, or `benchmark` with
`NumRequests` requests; benchmarks write one output.

| code | actions |
|---|---|
| `main` up to the service | `Start` |
| `GenerationService.generate`: capabilities, load, the first reading of the clock | `Capabilities`, `Load`, `Begin` |
| the loop and its callback | `NextChunk`, `PrintChunk`, `EndStream` |
| the result, `finally: shutdown()` | `Finish` with `Measured`; `Shutdown` |
| `run_benchmark`: the loop over requests | `Return` with `AfterRecord` |
| `_write_atomic` | `Create`, `Name`, `Write`, `Sync`, `Replace`, `EndWrite` |
| its `except BaseException: unlink` | `Unlink`; `UnlinkFails` |
| the last print, `entrypoint`, the exit of the interpreter | `Report`, `Exit` with `Caught` |
| exceptions and Ctrl-C | `GenerationRaise` with `Unwind`, `OutputRaise` with `OnError`, `MainRaise` |

The backend is what the protocol of `backends/base.py` admits: any number of chunks with any
number of tokens, and a failure at any call. `MockBackend` is one of its behaviours;
`RKNN3Backend` reports itself unavailable whatever the probe finds, and is a backend of its
own in the model. The clock is monotonic, counts the microseconds that the result is rounded
to, may stand still and may start at 0. A rate is kept as the fraction it is the quotient of. The
text of a chunk is left out: a chunk counts as one piece. The locals of `generate` are
reset when it returns, and `log`, `due`, `escaped`, `suffered` and `replaced` are histories.
`suffered` tells a Ctrl-C between the making and the naming of the temporary file (`"unnamed"`)
from one anywhere else (`"interrupt"`). A duration that rounds to 0 though the clock advanced is
left out.

Standard output has a buffer and a reader that may leave (`BreakPipe`). `BrokenPipeError`
from a flushed print becomes status 141. A print that is not flushed is noticed only when
the interpreter exits, after `entrypoint` has chosen the status: the process then ends
with 120. A failing print of the summary on a full disk is counted as status 2.

A power loss (`PowerLoss`) ends all commands, undoes a rename that the directory has not
stored (`Writeback` stores it at any time), and tears files that were not synced.

`CommandsRefinement` maps the output to what a reader finds there (a file that is torn, or lacks a
record, to what no register holds) and the exit status of a benchmark to its fate.

## 3. What TLC checks

| run | instance | properties |
|---|---|---|
| `import_faults` | 2 runs, 2 categories, 1 file, 1 foreign directory; all faults; source edits, swaps | `TypeOK`, `PublishedWhole`, `OnePublisher` |
| `import_kills` | 3 runs, 2 categories; kills; 1 foreign directory at a free destination | `ReportedStands`, `RecordBacked`, `OnlyOwnTreesRemoved`, `RerunReuses`, `ImplementsStore` |
| `import_moves` | 1 run, copy and hardlink, 2 categories, 1 foreign directory; exceptions; every path renamed up to once | `FailedLeavesNothing`, `OnlyOwnTreesRemoved`, `SuccessVisible` |
| `import_live` | 2 runs, 2 categories; kills; fair | `RerunRecovers`, `SomeRunSucceeds` |
| `import_rerun_rollback` | 3 runs, 1 category; exceptions | `RerunReuses` is violated |
| `import_record_rollback` | 2 runs, 1 category; exceptions | `RecordKept` is violated |
| `import_record_mode` | 2 runs, 1 category, both modes; no fault | `RecordModeExplicit` is violated |
| `package_loss` | 2 builders, 1 file; all faults, 1 power loss; fair | `TypeOK`, `PublishedWhole`, `CreatedSurvives`, `RebuildSucceeds` |
| `package_race` | 2 builders, 1 file, 2 commits, 1 foreign directory; exceptions, kills; 2 edits of the Demo or the project | `PublishedWhole`, `ReportedStands`, `OneCreator`, `NoStagingLeft`, `PublishedStays`, `ImplementsStore` |
| `bootstrap` | 2 runs, 2 repositories, 2 files, 1 foreign directory; all faults; 1 edit; fair | `TypeOK`, `CheckoutExact`, `AdoptedWhole`, `AdoptionStands`, `NoTemporaryLeft`, `LocalWorkKept`, `ExistingKept`, `BootstrapSucceeds`, `ImplementsSlot` |
| `bootstrap_half_clone` | 2 runs, 1 repository; exceptions | `OnlyEditsRejected` is violated |
| `commands` | 2 commands, 2 requests, 2 chunks of up to 1 token, both backends; all faults, power loss; fair | `TypeOK`, `Released`, `MeasuredRight`, `OutputWhole`, `NoDebris`, `StatusTells`, `CommandSucceeds`, `ImplementsRegister` |

What the properties say is in the comment before each. Which faults a property is
checked under is part of what it says:

- `PublishedWhole` holds under every fault, for both programs.
- `ReportedStands`, `RecordBacked`, `RerunReuses` and `ImplementsStore` of the importer hold
  while runs fail by being killed or by losing a race, also when another program puts a directory
  at a free destination: if it verifies, it is provided, and reused. They do not hold with
  exceptions: see the findings.
- `OnlyOwnTreesRemoved` holds while no other program swaps the directory between the last
  look at its name and `rmtree`, which takes a name; the window is in the model
  (`FindOwned`, `OpenDoomed`, `Rmdir`) and `Moves` without `"swap"` keeps it shut.
- `SuccessVisible` speaks of categories whose parent is the record's, or was not renamed:
  the last thing a run checks is the record's parent, and a renamed parent of another
  category after its own check goes unseen.
- `FailedLeavesNothing` and `NoStagingLeft` need cleanups that are not interrupted, and say what
  stays of a run that is `astray`: the one thing it had just made, with nothing in it.
  `NoStagingLeft` is proved with signals, too.
- `RerunRecovers` is about kills: exceptions, and a kill in the rollback that they begin, are not
  in `import_live`.
- `package_race` has no signals and no power loss: a signal between the rename and
  `owns_staging = False` takes the published package back, and a power loss may undo the
  rename. `PublishedStays`, `ReportedStands` and the builder's `ImplementsStore` hold without them.
- `CheckoutExact` leaves out, for each repository, the runs that went on there in a clone that
  another was still making: `git status` finds nothing in it, and the clone, when it ends, may
  move HEAD behind such a run after it has gone on. It is about what all other runs leave, the one
  that made the clone included, whatever a joining run did in it: HEAD, index and files are at
  the pin, but for what a user has edited.
- `LocalWorkKept` has one exception, which it names: a clone that fails after another run had gone
  on in it takes the directory away, and with it what a user has edited there.
- `Released` allows for a `shutdown()` that raises, and for a Ctrl-C that the interpreter
  sees between `load()` and the try statement; `NoDebris` for one between the making of the
  temporary file and `temporary_path = ...`, and for none later.
- `StatusTells` asks of status 0 also that the reader of standard output was there to the last
  print: the interpreter's own flush at its exit is what makes it so.

Bounds. `MaxRoot`, `MaxGen`, `MaxWorkspace` bound renames: two identities suffice, as every
comparison is between what a run holds and what there is now. `NumForeign = 1` puts one
directory at every place and moment. Two runs exhibit every race for a name, and a third is what
observes the result of a race (`import_kills`, `import_rerun_rollback`). Two categories give
one that is finished while the other is under way, in different parents, one of them
the record's. One file suffices for importer and builder, because a partial directory
is one with an absent, bad or undeclared file, and the builder's Demo has a second one,
`SHA256SUMS`, that is verified and not packaged; the proofs of the builder are for any
number. `NumCommits = 2` gives two payloads. `MaxEdits = 2` lets the Demo change and be
restored, or the project be edited and committed, within one build; `MaxEdits = 1` of the
bootstrap is an edit at any moment, since taking it back is not counted. `MaxLoss = 1`:
after a loss, what remains is what an initial state with debris would have. `NumPins = 2`
and two repositories give loops that are left in their midst. `NumRequests = 2` gives a
benchmark with a record and another generation to come. `MaxChunks = 2`, `MaxTokens = 1` and
`MaxTick = 1` give no chunk, a first and a further one, chunks without tokens, and readings
of the clock that are equal or 0.

Constraints. Two runs leave out interleavings that tell nothing new.
- `PartsApart` of `MCBootstrap`: checkouts and adoption share no variable but the runs' own, and an
  adoption does the same whatever the checkouts are. While a run is in the midst of an adoption,
  no other is in the midst of its checkouts, and the checkouts are as they should be. The
  same instance without the constraint has 2.35 million states, and the properties hold there too.
- `DetailsAlone` of `MCCommands`: commands share only the output, and a generation does the same
  whatever other commands do. Generations with chunks, and closed pipes, are explored for a
  command while the others have not started; next to others that write the output, benchmarks have
  generations without chunks. `CommandsProofs` proves the safety properties without any constraint.

Fairness. `FairSpec` of the importer and of the builder assumes weak fairness of each run's own
steps: a run is a sequential process that the operating system schedules, and all its calls
return. `FairSpec` of `Bootstrap` and of `Commands` assumes weak fairness of all runs'
steps together: while one can go on, one does. This is weaker, and enough, since no run can go on
for ever. Faults, power loss, users and other programs are under no obligation.

### Findings

1. `import_rerun_rollback`: a rollback after the rename removes a category that another run
   has verified, reported as reused and returned with; a third run imports it again.
   `docs/host-setup.md` says that running the command again reports `reused`.
2. `import_record_rollback`: an exception after `os.replace` has installed the record makes
   the handler unlink `import-record.json`, and with it the only record of an earlier
   success. The unit test of the record's replacement keeps it, but fails one step earlier.
3. `import_record_mode`: a copy-mode run that reuses a hard-linked category records `copy`.
   The workflow design says that reuse by hard link is explicit in the output.
4. `bootstrap_half_clone`: a fetch that fails after `git clone --no-checkout` leaves a
   checkout without files; git status lists each as deleted, and every later run
   rejects the checkout as having uncommitted changes. The workflow design says that the
   bootstrap fetches and checks out the pin, and fails for uncommitted changes.

Further remarks, which contradict no document.
- A pipe that is closed when only the last, unflushed print is left makes the process end with
  status 120, not 141.
- A power loss may bring the previous output of a benchmark back after the command ended with
  status 0, since the directory is not synced after `os.replace`.
- When `fstat` of the new temporary record fails, `_write_record` closes it and does not unlink it;
  likewise an `fstat` that fails after `mkdtemp` leaves an empty directory.
- `chmod` and `lstat` of the builder's staging directory come before the try statement: when one
  fails, the empty directory stays among the packages.
- A clone that fails deletes what a user has edited in it, if another run had joined the clone
  and checked its files out.

## 4. What TLAPS proves

The theorems hold for all values of the constants that satisfy the modules' assumptions, which
say that counts are positive, that names differ and which options there are. TLC
evaluates the assumptions on each run. A hypothesis of a theorem beyond them is named below.

| theorem | says | hypotheses |
|---|---|---|
| `ImportProofs!TypeCorrect` | `TypeOK` of the importer | - |
| `ImportProofs!PublishedWholeAlways` | `PublishedWhole` of the importer | `LinksSafe`: no run links to sources that are edited |
| `ImportProofs!OnePublisherAlways` | `OnePublisher`, even where directories are swapped | `artifacts/` and the parents stay |
| `ImportStoreProofs!OnlyOwnTreesRemovedAlways` | `OnlyOwnTreesRemoved` | no swaps |
| `ImportStoreProofs!FailedLeavesNothingEver` | `FailedLeavesNothing` | also, no failing cleanup |
| `ImportStoreProofs!ImportedWholeAlways` | what a run reported as imported stands whole, whatever exceptions and kills follow | no swaps, `artifacts/` and the parents stay, `LinksSafe` |
| `ImportStoreProofs!ReportedStandsAlways`, `RecordBackedAlways`, `RerunReusesAlways` | the properties of these names | `Undisturbed`: also, no exceptions |
| `ImportStoreProofs!ImplementsStoreAlways` | the importer implements `ArtifactStore` | `Undisturbed` |
| `ImportStoreProofs!SuccessVisibleAlways` | `SuccessVisible` | no swaps; one run, or no exceptions |
| `PackageProofs!TypeCorrect`, `PublishedWholeAlways`, `CreatedSurvivesAlways` | `TypeOK`, `PublishedWhole`, `CreatedSurvives` of the builder | - |
| `PackageProofs!OneCreatorAlways` | `OneCreator` | no power loss |
| `PackageProofs!PublishedStaysAlways`, `ReportedStandsAlways` | `PublishedStays`, `ReportedStands` | no power loss, no signal |
| `PackageProofs!NoStagingLeftEver` | `NoStagingLeft`, with signals | no power loss, no failing cleanup |
| `PackageRefinementProofs!ImplementsStoreAlways` | the builder implements `PackageStore` | no power loss, no signal |
| `BootstrapProofs!TypeCorrect` | `TypeOK` of the bootstrap | - |
| `CheckoutProofs!CheckoutExactAlways`, `LocalWorkKeptAlways` | `CheckoutExact`, `LocalWorkKept` | - |
| `AdoptionProofs!AdoptedWholeAlways`, `AdoptionStandsAlways`, `NoTemporaryLeftEver`, `ExistingKeptAlways` | the properties of these names | - |
| `AdoptionProofs!ImplementsSlotAlways` | `Bootstrap` implements `RuntimeSlot` | - |
| `CommandsProofs!TypeCorrect`, `ReleasedAlways`, `MeasuredRightAlways`, `OutputWholeAlways`, `NoDebrisEver`, `StatusTellsAlways` | `TypeOK`, `Released`, `MeasuredRight`, `OutputWhole`, `NoDebris`, `StatusTells` | - |
| `CommandsProofs!ImplementsRegisterAlways` | `Commands` implements `OutputRegister` | - |

The arguments.

- *Importer.* `TypeOK` contains, besides the ranges, what a run holds at each location
  (`HoldsOK`); that makes it inductive by itself. `PublishedWhole` is not inductive: whether
  the directory that a rename publishes is whole depends on how far its run's copy loop has
  come. `PublishInv` adds to `TypeOK` that no file is a link where sources are edited (`CopiesOnly`),
  and that no source ever differs where they are not (`SourcesKept`); runs put only declared
  files in their directories (`OwnEntries`); a run's directory has no other run's temporary
  name (`OwnNames`); before the rename, the files up to the loop's position hold bytes that verify for ever, `Lasting`
  (`StagedGood`); so do those of published directories (`PublishedGood`); and a run opens
  a directory for removal at most once, so that one being removed stays exempt
  (`VictimKept`). The hypothesis is needed: a hard link's bytes are the source's.
- *One run imports a category.* `OneInv` speaks of names, since with swaps the directory that a
  run published may be anywhere. From its rename on, a run *publishes* a category: for good once
  it has reported it, else until its rollback ends or finds its directory elsewhere (`Publishes`).
  While one does, some directory has the destination's name, and nobody else publishes
  (`OneForEach`): the rename needs a free name, swaps and placings leave none that was taken free,
  and a rollback that empties it is that of the only publisher. For the last point, a run's
  directory has no other destination's name (`RunNames`), what a run removes is at its own
  category's (`Engaged`), and it has reported nothing that it has not finished (`NotReached`).
- *What the importer takes back.* `OwnInv`: a name holds one directory (`NamesUnique`), and a
  run's directory has its temporary name or a destination's (`NamesInRange`); while a run stages or
  removes, its current directory is its own, under the descriptor that it holds (`OwnDirectory`);
  reports follow the loop, each with a directory of that category (`ReportsInOrder`); what a run
  made it reported, works on, or left by a kill or a failed cleanup (`OwnAccounted`,
  `TempAccounted`), or had just made when it failed; and what a run has not begun to fill is empty
  (`NotFilled`), which is why only that stays of a run that is `astray`. `PlaceInv` adds that paths stay (`PathsFixed`), that a run works where they lead
  (`AtHome`), that what it reported imported is there (`ImportedStands`), and that a rollback
  opens only what is unreported (`VictimUnreported`). With `PublishedWhole` it follows that an
  imported category stands whole through every later exception: only a reused one may be taken
  back, by the run that made it (finding 1).
- *What the importer keeps, and its refinement.* `StoreInv` adds what the absence of exceptions
  gives: a run removes only what still has a temporary name (`OnlyStagedRemoved`) and never unlinks
  a record (`RecordKeptBy`), so that reports stand (`ReportStands`), and all categories are
  reported by a run that has come to the record (`ReportsComplete`). What a run reuses may be
  another program's: what it has verified of it, and what was reported, holds bytes that last
  (`Verified`), so that a whole directory under a destination's name is one whose files last
  (`WholeByFiles`). A step that gives a whole directory a destination's name provides that
  category, from its maker (`ProvidingNext`; the store's `Outsider` is any other program), one that
  installs the record finds all of them provided, one that ends a run is its outcome
  (`OutcomeStep`), and every other stutters, moves of the workspace and edits of sources included.
- *What a run that succeeds has seen.* `VisibleInv` adds to `OwnInv` that what the final loop has
  passed was at its path then (`FinalSeen`). Identities of a parent only grow, and the last check
  fixes the one of the record's parent; so what was seen below it is below it still. Another run
  may take back what this one has seen; without exceptions it does so only when the check after its
  rename fails, so that no path leads there any more (`RemovesMoved`, `MovedAway`), and a run that
  succeeds does not speak of it. With exceptions it may do so anywhere (finding 1).
- *Builder.* `PackageInv` is the types and, for each run, where it is in its loops and under which
  name (`Placed`), what it has staged and synced (`Staged`), that a package stays whole and on
  disk, with a firm name, until its run takes it back (`Published`), and that a run reports a new
  package only when its name is firm (`Created`). What a step of a run leaves alone of the
  others (`Untouched`) is proved once, and power loss has lemmas of its own. For
  `NoStagingLeft`, `Known` adds to it at which locations a run may have staging, and that staging is
  empty before the try statement. `KeptInv` adds
  that a run removes only staging (`Taking`) and only cleans up after its report (`Reporting`).
- *The builder's refinement.* A step that gives a directory a package's name is a rename
  (`Publish`) or another program's; a step that changes a status is a claim (`Create`, `Reuse`)
  of something sound; every other step leaves shelf and claims alone, by `StepKeeps`.
- *Checkouts.* `CheckoutInv`: one run at a time clones a repository (`OneCloner`); where a run has
  arrived, nobody clones any more, unless that run went on in a half-made clone
  (`NoneCloning`); and where a run that did not has switched the checkout, HEAD, index and files are
  at the pin (`SwitchedExact`). For `LocalWorkKept`, `EditsInv` adds that a clone under way has no
  files unless another run went on in it (`BareClone`): so one that fails removes no edit but
  then, and the other commands keep edited files.
- *Adoption.* `AdoptionInv`: a run's directory has the name that its progress says, and a
  temporary one stays only after a failed cleanup or a kill (`OwnName`); its files are pinned up to
  the position of the verifying loop, and then all (`OwnFiles`); and so are those of a runtime
  that a run has found (`FoundWhole`). A step changes the slot only by `Replace`, which finds it
  free or empty, or by a user, who finds the same; `Rmdir` and `PurgeFile` touch what has a
  temporary name.
- *Commands.* `CommandInv` ties locations to exceptions (`Unwinding`), to the backend
  (`Releasing`), to chunks that must be printed (`Printing`), to records, the temporary file and
  what is on disk (`Recording`, `Replacing`, `Cleaning`), and the status to all of it (`Truthful`); an
  output that is a command's is one that it replaced (`OutputReplaced`). `Cleaning` ties a temporary file
  that stays to the two faults that `NoDebris` names. `MeasureInv` adds what
  the locals of `generate` are at each point of the loop (`Measuring`). Sums over a sequence
  cannot be computed by the provers; that a number is the sum of the chunks' tokens is said by a
  function of partial sums (`TokensOf`), which a further chunk extends. For the register, what
  may be the output is whole, in memory and on disk, so that what a reader finds there names its
  writer; only `Replace` sets it, and a power loss takes it back to `stored`.

Only model-checked: the liveness properties (`RerunRecovers`, `SomeRunSucceeds`,
`RebuildSucceeds`, `BootstrapSucceeds`, `CommandSucceeds`), which are out of the prover's reach.
The hypotheses of the importer's theorems are needed: below a new `artifacts/` a second run imports
a category again, a swap takes away what stands, an edit of a source changes what is linked to
it, and an exception makes a run take back what others have found (finding 1). `ImportedWhole` is
stated in `ImportStoreProofs`, and no run of section 3 checks it.

## 5. Not modelled

- `metrics/system.py` parses the text of files in `/proc` and `/sys`, and keeps nothing.
- `manifests/loader.py`, `config.py` and `types.py` turn a YAML document into immutable
  records, or fail before anything else has happened. What they admit is in the models'
  assumptions and constants (`NumPins`, `NumRepositories`, `NumFiles`, `NumRequests`).
- `platform/probe.py` reads the board's file system; its outcome is overridden by
  `RKNN3Backend`, which always reports itself unavailable.
- `artifacts/manifest.py` is modelled as far as it decides what a package is: which files it holds,
  what it describes, and what its id hashes. JSON schema and path syntax are left out.
- `doctor` and `package-validate` print what they find, and change nothing.
- The native runner is a placeholder, and transfer to the board and activation are documented only.

## 6. Plan

What is left is a module that composes importer and builder over one Demo directory, in the place of
`EditDemo`. It would show no new fault, as `EditDemo` does to the Demo all that an importer can do
and more, but it would show for which runs of the importer a build succeeds.
