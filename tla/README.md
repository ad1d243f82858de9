# Formal model of IAA_benchmarking

TLA+ specifications, TLC configurations and TLAPS proofs for the benchmarks of
Intel's In-Memory Analytics Accelerator (IAA) in this repository. Paths below
are relative to the repository root; the C++ code is under `src/`.

```
tlc -workers 2 -config MCQplParallel.cfg MCQplParallel     # model-check one run
tlapm QplParallelProofs.tla                                # check one proof module
```

`PROJECT.json` lists every run with its properties, the source lines behind
every definition (`map`), the hazards the properties are aimed at, and for each
property one plausible bug (`mutants`, the definitions with the suffix `Bug`)
that makes it fail.

## 1. The system

The program measures compression and decompression with the Intel Query
Processing Library (QPL). `src/main.cc` loads the data, then registers Google
Benchmark lambdas which run one after the other in one thread. The accelerator
is the only other actor: it executes asynchronously submitted jobs.

| Component | State | Operations | Interacts with |
|---|---|---|---|
| Multi-engine jobs, `src/multi_engine/qpl_parallel.h` | job buffers, Huffman table, completion flags, the vectors of `compressed_buff` | `init_qpl`, `create_static_huffman_tables` (`src/util.h`), `compress`, `decompress`, `free_qpl` | submits to and polls the accelerator |
| Multi-engine benchmarks, `src/multi_engine/benchmark.h` | chunk plan, vectors, `decompressed_buff`, `decompression_size`, the row's message and counters | `BM_MultipleEngine_Compress`, `BM_MultipleEngine_DeCompress` | calls the jobs; Google Benchmark runs the timed loop |
| Single-engine jobs, `src/single_engine/qpl_compress_decompress.h` | one job, `*dst_size`, table, last bit offset | `init_qpl`, tables, `compress`, `decompress`, `free_qpl` | QPL, synchronously |
| Single-engine benchmarks, `src/single_engine/benchmark.h` | `compressed_size`, buffers, tables, message, counters | four lambdas (blocking and canned) | calls the single-engine and the canned jobs |
| Canned compression, `src/single_engine/qpl_canned.h` | one job executed repeatedly, its flags and pointers | `compress` in three modes, `decompress` | QPL, synchronously |
| Full system, `src/full_system/benchmark_full_system.h` | a file of compressed data, page cache, descriptor, mapping | `prepare_compressed_files`, `BM_FullSystem` in four modes | kernel, single-engine jobs; rows share the file |
| Page faults, `src/single_engine/benchmark_page_faults.h` | file, page cache, mapping, translations | `remmap_memory_through_file`, one lambda, four scenarios | kernel, single-engine jobs |
| Data, `src/util.h` | byte counts, the loaded corpus | `compute_entropy`, `load_corpus_dataset`, `init_rand_memory` | files |
| Registration, `src/main.cc` | the registered set | `register_benchmarks_*`, `main` | all of the above |
| Accelerator configuration, `configure_iaa_user.sh` | devices, engines, work queues | disable, configure, enable | `accel-config` |
| `plot_benchmark.py`, machine and container scripts | none that lasts | drawing, installing, extracting | `results.csv` |

### What is hard

* **Asynchrony.** The engines complete jobs in any order while one thread polls
  them round robin, counting in bytes (`std::reduce` over `vector<uint8_t>`).
* **Abandoned jobs.** Every error returns -1 at once. Jobs submitted before it
  keep running, on job objects that are freed on return and buffers the caller
  reuses in the next iteration: `SkipWithMessage` does not end a timed loop.
* **Variables that are input and output.** Vectors shrink to the size of the
  image and are offered as output space again; so is `compressed_size`.
* **State that outlives a row.** Page cache, file mappings and descriptors
  decide what the next row measures.
* **Boundaries.** The remainder chunk, more jobs than bytes, the last full
  chunk of a canned stream, rounding a file up to pages, counters of one byte.
* **Errors that must not look like measurements.** A row is believed unless it
  carries a message (`README.md:66`).
* **Everything at once.** All files are loaded, all compressed files written and
  all rows registered before the command line is read; what fails there must not
  leave a run on part of the data.
* **Commands nobody checks.** The configuration script goes on after any of its
  commands has failed, over what earlier runs of it have left.

### What makes each component correct

* *Jobs (multi-engine).* 0 means every chunk is complete and nothing is in
  flight; an error is never swallowed; regions do not overlap; buffers in flight
  are not touched; the shrunken vectors suffice; the call returns.
* *Benchmarks (multi- and single-engine).* In a row without a message every call of
  every iteration returned 0, what the last iteration left reproduces the source,
  nothing is left running and the ratio means something; a message names the first
  thing that went wrong.
* *Canned compression.* One stream: a FIRST, a LAST, no gap, no overlap, and a
  loop that ends. A row in which `decompress` reads a table that is not there is
  marked, in the mode that needs one.
* *Full system.* A row leaves no descriptor and no mapping; an unmarked disk row
  timed a read and was served by the disk; the file is inside its buffer and made of pages.
* *Page faults.* Each scenario measures the faults its name says; a failed
  mapping never becomes a measurement.
* *Data.* The entropy in a benchmark's name is that of the data.
* *Registration.* All or nothing; every row gets the bytes its name says; the
  selected rows run, and are not starved of descriptors by the rows before them.
* *Configuration.* After a run that shows no error, the devices its arguments ask for
  are enabled with the mode, engines and queues asked for; after any run, no others are
  on but those it failed to disable.

## 2. The modules

| Module | Models |
|---|---|
| `ChunkBatch` | abstract: what a call of `multi_engine::compress/decompress` promises |
| `QplParallel` | one such call, every QPL call in it, and the accelerator |
| `MCQplParallel` | chunk and image sizes for TLC |
| `BenchRow` | abstract: what a row promises the reader of `results.csv` |
| `MultiEngineBench` | both multi-engine lambdas, built on `ChunkBatch` |
| `SingleEngineBench` | both blocking single-engine lambdas with their calls inlined |
| `CannedChunks` | one call of the canned `compress` |
| `CannedBench` | both canned lambdas, each compress a run of `CannedChunks` |
| `FullSystem` | preparing the file, rows in four modes |
| `PageFaults` | both page-fault lambdas in four scenarios |
| `ByteHistogram` | the counts behind `compute_entropy` |
| `Registration`, `MCRegistration` | the process: loading, preparing, registering, running |
| `ConfigureIaa`, `MCConfigureIaa` | runs of `configure_iaa_user.sh` |
| `QplParallelProofs`, `MultiEngineBenchProofs`, `SingleEngineBenchProofs`, `CannedProofs`, `FullSystemProofs`, `PageFaultsProofs`, `RegistrationProofs` (also for `ByteHistogram`), `ConfigureIaaProofs` | the inductive invariants and the theorems |

Composition. `QplParallel` instantiates `ChunkBatch` under a refinement mapping
and implements it; `MultiEngineBench` instantiates the same `ChunkBatch` for
each call it makes. So the benchmark is checked against everything the call may
do, and the call is shown to do nothing else. `CannedBench` extends
`CannedChunks` and conjoins its actions, so a row is checked over the steps of
its calls. Four row modules (`MultiEngineBench`, `SingleEngineBench`,
`CannedBench`, `PageFaults`) implement `BenchRow`. `FullSystem` does not, which
is the finding of `full_system_grep`; it does if the failures of `dd` and
`open`, after which a row returns without a message, are left out of its
history. `Registration` reduces each row to the descriptors it takes and keeps,
which `RowCleansUp` and `OneDescriptorPerRun` establish for the rows themselves.

### ChunkBatch and QplParallel

`ChunkBatch` has a phase and two sets of chunks: handed to the accelerator, and
done. It may succeed only when all are done; it may fail at any time, and then
what is handed stays handed.

`QplParallel` has one action per step of the thread. `pc` names the place:

| `pc` | Code | Actions |
|---|---|---|
| `job_size`, `init` | `init_qpl` | `GetJobSize`, `InitJob`, `InitDone` |
| `table` | `create_static_huffman_tables`, canned compress only | `CreateTable`, `GatherStatistics`, `PopulateTable` |
| `submit` | the submit loop | `SubmitJob`, `SubmitRefused`, `SubmitDone` |
| `wait` | the test of `while (std::reduce(...) != thread_count)` | `WaitAgain`, `WaitDone` |
| `poll` | the `for` inside it | `PollSkip`, `PollReap`, `PollFailed`, `PollEnd` |
| `fini` | `free_qpl`, compress only | `FiniJob`, `FiniDone` |
| `ok`, `failed` | `return 0`, `return -1` | |

`Dispatch`, `FinishCompress`, `FinishDecompress` and `Abort` are the
accelerator; they interleave with the thread and go on after it has returned.
A submission is refused when `WQSize` descriptors are queued; `Engines` jobs run
at a time. The initial states are all states in which an earlier call can leave
the vectors: reserved or trimmed size, with or without an image. `faulty` is a
parameter of the call: may QPL and the device fail for reasons of their own, or
only for those the state gives them?

Mapping: `phase` is `pc` (`running` until it returns), `handed` the jobs queued
or running, `done` the jobs that ended well.

### BenchRow

A row runs and is reported. While it runs, things may fail, and the row may be
marked with one that has; the first message stays. It is reported without a
message only if nothing failed, and with "Data missmatch." only if every call
returned 0. It is deliberately silent about when a failure is marked: the lambdas
mark some of them an action later than they occur.

### MultiEngineBench

`Iterate`, `LoopEnd` and `Return` follow the lambda and the rule of Google
Benchmark that a row skipped before its loop runs no iteration, while one skipped
in its loop goes on. When a call fails its handed chunks become `stray`: they may
end at any later moment and leave anything in their buffer (`StrayEnds`). The
compressor runs with `QPL_FLAG_OMIT_VERIFY`, so `Finish` may leave a wrong image.
The first message of a row stays.

### SingleEngineBench

The same lambdas for one job. A call is synchronous, so its steps are inlined
(`InitQpl`, `CreateTables`, `Execute...`, `FiniQpl`); what matters is the
variables the calls share: `compressed_size`, the table and the last bit offset
of the Huffman-only mode, uninitialised until a compress succeeds. `CompLen` is the
length of the image when the compressor works; since nobody verifies an image, one that
is wrong may have any length that fits, and `compressed_size` takes it (`silent` records
that one came out). A failed execution has produced any number of bytes
(`SizeAfterFailure`). The Huffman-only mode is one of the lambdas' modes, but `main.cc`
does not register it.

### CannedChunks

`CompressChunk` is one round of the `while` with the order of its assignments;
`piece`, `runs` and `closed` record what the job was given.

### CannedBench

`place` is where the lambda stands, `pc` where the compress in progress does.
`StartCompress` resets what the call's locals are and keeps the table, which the
lambda owns: it starts as garbage, is ready after a compress in `kCanned` and
destroyed after one whose table could not be made. `Decompress` is one action: its
two effects, the output and the status, are all the row can see of it, and its
failure may come before or after the output is written. Reading a table that is
not ready gives either result. An execution on an empty source fails, since twice
nothing is no room for a stream; the chunked modes execute nothing.

### FullSystem

Rows follow each other on one file: `DropCache`, `Open`, `Advise`, `Map`,
`ReadBefore`, `TimedRead` or `TimedDecompress`, `LoopEnd`, `Err` (the label
`err`), `Report`. Each row runs any number of iterations up to `Iterations`, the one of
`README.md:58` included. The cache is one bit; dropping it (`Dropped`) has no effect
while a mapping is in place, which is what the kernel does with `oflag=nocache`.

### PageFaults

A run of a lambda is `Begin`, the compress of `DeCompress` (`CompressFirst`), the five
steps of `remmap_memory_through_file` (`CreateFile`, `WriteFile`, `DropCache`,
`OpenFile`, `MapFile`; each may give up and return nullptr), `FetchSource`,
`FetchDestination`, the loop and the verification. The pages of a buffer are one value,
the layer where its translations stop: no page-table entry, a page-table entry, or a
translation held by the accelerator. Runs share the page cache, in which `O_TRUNC`, the
write, the drop, `MAP_POPULATE` and every fault put or remove the file, and the
descriptors, of which there are `MaxFds`. `first` records the fault the first timed call
met on its input and on its output. The kernel is taken to keep the pages of a file it
was not told to drop, and to drop those it was (nothing maps them by then). `fsync` has
no action: it is part of `WriteFile`, and the `fdatasync` of `dd` repeats it.

### Registration

`pc` follows `main`: `load` (`load_corpus_dataset`, three times), `register` (the
loop over `source_buffs`), `prepare` (one compressed file and four rows per read
size), `run`. `LOG(FATAL)`, an exception and reading `front()` of an empty vector
end in `fatal`; the two assertions are not there in the Release build
(`CMakeLists.txt:4`). The rows of nested loops are one set of records, whose fields
are what the loops vary; a group carries the arguments its lambda captured. The
order in which a directory or a map is read is any order. `fds` counts the
descriptors beyond the standard ones: one per file read, at most one per call of a
page-fault row, none from other rows; a full-system row needs one and is `starved`
without. `limit` is the limit of the process, any value up to `MaxFds`.

### ConfigureIaa

One action per `accel-config` command, in the loops of the script; `pc` is the loop.
`Attempt` gives a command its results: it fails if the state does not allow it, and
otherwise only if fewer than `MaxFaults` have failed without a reason, in all runs
together. What the state allows is the external part: a device in use cannot be
configured, an unconfigured one cannot be enabled, and disabling a device turns its
queues off and may or may not forget its configuration. `errors` remembers a failure
after the line "Enabling Accelerators", the ones `README.md:16` tells the user to look
for. Runs follow each other, so a run meets whatever earlier ones have left. The
properties do not ask about the bounds the script computes but about `Requested`, the
devices its arguments name according to the usage (`configure_iaa_user.sh:6`) and
`README.md:17`. `EnablePrs` can only add an error: `lspci -vvv | grep 0cfe` may print
any of the devices or none, so the line "PRS enabled on all devices!" says nothing.

### ByteHistogram

One action per byte counted. `CountMod` is 256 in the program.

## 3. The runs

| Run | Shows | Bounds and why they suffice |
|---|---|---|
| `qpl_parallel` | the safety properties of a call, with and without faults, that it returns, and that it implements `ChunkBatch` | 3 jobs, 2 engines, queue of 2, `ByteMod` 4: a queued, a running and a finished job at once, a refused submission, and a byte sum one short of wrapping |
| `multi_engine_bench` | what a row with and without a message says; every byte is processed once; `BenchRow` | 7 bytes in 3 chunks, the last one larger; 2 iterations: a stray of one call meets the next one |
| `single_engine_bench` | the same for one engine; only a silently wrong image makes the offered space too small | 3 iterations: a failed or wrong compress meets two more; the image is longer than the source, wrong ones have any length up to the offer |
| `canned_bench` | one well-formed stream per call; a table that is not ready is noticed; the row ends; `BenchRow` | every source of 0 to 7 bytes in chunks of 3: empty, shorter than a chunk, whole chunks, a remainder; 2 iterations: a call meets the table and the size another left |
| `full_system` | rows clean up; disk rows are cold; honest after open | 3 rows in any modes: the file is cached by its preparation and by the rows before; 1 or 2 iterations: a disk row that stays unmarked and one whose second read comes back short; a file of one or two pages |
| `page_faults` | an unmarked row met the faults its scenario is named after; rows can be believed; one descriptor per run | 3 runs of either lambda in any scenario with 2 descriptors: the third finds none left; 2 iterations: a first call and one after it |
| `byte_histogram` | counts are right modulo their width | memories of up to 6 bytes, width 4: a count wraps |
| `registration` | all or nothing; rows get their data; enough descriptors; the selected rows run | two corpora with a file of the same name, two files where one is expected, two read sizes; any limit up to 22, where 4 files and 16 page-fault calls need 21 |
| `configure_iaa` | no visible error means configured; nothing else is left on | 2 devices of 2 engines and 2 queues, 1 to 3 engines asked for, a selection for each branch of the parsing, devices that do not exist included; 2 runs: one meets what the other left; 2 spurious failures, in any places |

The README runs the program with one iteration per repetition (`README.md:58`); the
code allows any number, and the bounds take two or three, since what one iteration
leaves to the next is where the hazards are. The type invariants of the
other modules, `CannedBench!BlameIsRight`, and `ImplementsRow` of `SingleEngineBench`,
`PageFaults` and `FullSystem` are proved (section 4) and not run again.

`Faulty` lets every call of a library or the kernel report an error of its own;
with `FALSE` only the errors the state causes remain. Deadlock is not checked
where the modelled function simply returns; every cfg that says so says why.

### Runs that end in a counterexample

Three runs state what a document or comment says and show the code doing
something else.

* `single_engine_reserved`: `src/single_engine/qpl_compress_decompress.h:79`
  says that `dst_size` must contain the reserved size. From the second timed
  iteration on the benchmark passes the length of the previous image.
  (`OfferedSpaceFits` shows that it suffices unless an image came out wrong and
  shorter without an error.)
* `full_system_grep`: `README.md:66` says that `grep false` finds every failed
  row. A row that cannot drop the cache or open the file returns without a message.
* `byte_histogram_shannon`: `src/util.h:97` says "Compute Shannon entropy".
  Counts are kept in `uint8_t`, so they are not frequencies once a byte occurs
  256 times.

### Fairness

`QplParallel!Fairness` is weak fairness of the thread (it busy-waits and never
blocks), of dispatch and of completion for each chunk. That the device takes what
is queued and ends what it began, well or badly, is the contract of asynchronous
jobs the code relies on: its wait loop has no timeout, so without it `Terminates`
is false. Fairness per chunk matches engines that serve their queues in turn.

`CannedBench!FairRowSpec` and `Registration!FairSpec` are weak fairness of the one
thread there is: it calls QPL, the kernel and Google Benchmark synchronously and
never waits for anything else. `RowEnds` then rests on the arithmetic of the chunk
loop, `SelectedRowsRun` on the loops of `main`. The other modules have no liveness
property: each of their loops counts an argument down.

## 4. What is proved

For every value of the constants that satisfies the named assumptions (any number
of jobs of a call, engines, queue size, chunk sizes, iterations, and any width of a byte):

| Theorem | Establishes |
|---|---|
| `QplParallelProofs!TypeCorrect`, `Invariance` | `TypeOK`, the inductive invariant |
| `SuccessIsSound` | `SuccessIsComplete`: 0 means all jobs reaped, all images in place and, for a compress, all jobs finalised |
| `RegionsDisjoint` | `NoOverlap`: no two regions meet, and each is inside its buffer |
| `SizeReported` | `DecompressedSize`: `*decompression_size` is the sum of the chunks, in whichever order they end |
| `SpaceKept` | `ReserveSuffices` |
| `NoSpuriousFailure` | `FailsOnlyWhenFull`, if `JobCount # 0` |
| `TablesHandled` | `TableHygiene` |
| `StatusSound` | `StatusIsFaithful`, if `thread_count` is not a multiple of 2^8 (`JobCount # 0`) |
| `BuffersUntouched` | `BuffersStable` |
| `Refinement` | `Spec => ImplementsBatch`: the detailed call implements `ChunkBatch` |
| `MultiEngineBenchProofs!TypeCorrect`, `UnflaggedSound`, `BlameSound`, `SharedFlagged` | the type invariant and the row properties |
| `MultiEngineBenchProofs!ChunksTile`, `BytesDone` | the plan covers every byte exactly once, for every size and 1 to 255 jobs (also more jobs than bytes), so a call that returns 0 has processed each byte once (`EveryByteOnce`) |
| `RowRefinement` in `MultiEngineBenchProofs`, `SingleEngineBenchProofs`, `CannedProofs`, `PageFaultsProofs` | a row implements `BenchRow` |
| `CannedProofs!TypeCorrect`, `StreamComplete`, `StreamSequential` | the stream properties of a call, for every source and chunk size |
| `CannedProofs!RowTypeCorrect`, `RowSound`, `BadTablesFlagged`, `BlameSound`, `RowStreamComplete`, `RowStreamSequential` | the row properties, and the stream properties for every call of a row |
| `CannedProofs!RowProgress` | every step of a row lowers a natural number, which `RowEnds` rests on |
| `SingleEngineBenchProofs!TypeCorrect`, `UnflaggedSound`, `OfferFits`, `BlameSound` | the row properties for one engine, and `OfferedSpaceFits` for every length of the right image, also one the buffer does not hold, and of wrong ones |
| `FullSystemProofs!TypeCorrect`, `RowsCleanUp`, `DiskRowsCold`, `FileInBuffer`, `OpenedHonest` | all properties of the full-system rows, for every file and page size, and any number of rows and iterations |
| `FullSystemProofs!RowRefinement` | rows implement `BenchRow` but for the failures of `dd` and `open` (`ImplementsRow`) |
| `PageFaultsProofs!TypeCorrect`, `Measured`, `Sound`, `BlameIsSilent`, `DescriptorsBounded` | all properties of the page-fault rows, for any number of runs, iterations and descriptors |
| `ConfigureIaaProofs!TypeCorrect`, `QuietRun`, `OthersOff` | both properties of the script, for any machine, arguments (compared with what they are documented to mean), number of runs and failing commands |
| `RegistrationProofs!TypeCorrect`, `CompleteOrNothing`, `DataMatchesRows`, `DescriptorsSuffice` | `TypeOK`, `AllOrNothing`, `RowsGetTheirData`, `DescriptorBudget`: for any files, read sizes, filters, repetitions, descriptor limit and failures |
| `RegistrationProofs!DoneRanSelected`, `ProcessProgress` | a process that ends without being aborted has run exactly the selected rows, and every step lowers a natural number: what `SelectedRowsRun` rests on |
| `RegistrationProofs!CountTypeCorrect`, `CountsRight`, `SmallMemoryIsExact` | counts are right modulo their width for every memory; below 256 bytes the probabilities are exact |

The inductive invariants (`IInv`, `RowIInv`) and their named parts are at the head of
the proof modules.

Assumptions: `ConstantsAssumption` (at least one chunk; an image is at most twice
its chunk, which is what the benchmarks reserve), `BenchAssumption` (1 to 255 jobs: the
plan counts them in a `uint8_t`, `src/multi_engine/benchmark.h:30`, and never ends from
256 on; `main.cc` asks for at most 26), `CannedAssumption` (positive chunk size),
`CannedBenchAssumption` (at least one iteration), `SingleAssumption` (the source and its
right image are not empty; that image has the same length every time, not necessarily
one the reserved space holds), `FullSystemAssumption`
(twice the source is a whole number of pages, as for every size `main.cc` registers),
`PageFaultAssumption` (at least one iteration), `ConfigureAssumption` (at least one work
queue per device; selections are not empty), `RegistrationAssumption` (a directory holds
finitely many files; no read size is registered twice, as in `main.cc`, where two groups
would otherwise have the same names), `HistogramAssumption`.

*QplParallel.* `SuccessIsComplete` is not inductive: that every job ended well when the
call returns 0 depends on what the flags meant while it polled. `IInv` adds `DoneInv` (a
flag is set only for a submitted job that ended well and whose vector has been trimmed),
`SubmittedInv` (which jobs the accelerator has, by place in the code), `LiveInv`,
`RegionInv` (submitted regions end before the next offset), `FaultInv` and `TableInv`.
The one fact that is not bookkeeping is the lemma `AllReapedMeansAll`: since only jobs
below `JobCount = thread_count % 2^8` can be reaped, a byte sum equal to `thread_count`
is reached only when every chunk has been. With 256 jobs or more the sum can never be
equal and the call cannot return 0; that is why the theorem needs no bound on
`ThreadCount` (no caller asks for as many). The steps of the accelerator are a lemma of their own (`DeviceSteps`).
`SizeReported` has an invariant of its own, `SumInv`, in which every sum is the number
of bytes in a set of chunks: the offset counts those of the jobs submitted, the sum
those of the jobs reaped, and each is added once (`BytesAdd`). `NoSpuriousFailure` needs
a second invariant, `QuietInv`, and the lemma `QueuesSuffice`: only jobs below the
cursor can be queued, so a full queue means that `WQSize` jobs have been submitted.

*MultiEngineBench.* `IInv` ties the message to the history (`RowInv`: a failed
function implies a message, a stray implies a failure), and says for rows without a
failure what has been established by which place (`DataInv`).

*CannedProofs.* `LoopInv`: what was fed and what is left make up the source, and
`it_cnt * chunk_size` is where the next piece begins as long as `chunk_size` has not
shrunk. For a row, `CallInv` says that a call past its initialisation has a table if it
needs one, and `DataInv` what holds of table, size, image and output in a row in which no
call has failed; the steps of a compress are one lemma (`CompressStepKeeps`), for which
the invariant of the call is reused, those of the lambda another. `Work` counts the steps
left: a chunk takes at least one byte of the source, since `chunk_size` is not 0, and an
iteration one from `iter`.

*SingleEngineBench.* `SpaceInv` says that `compressed_size` never leaves the buffer and,
as long as no image came out wrong, still has room for the right one, whatever failed
before. `DataInv` is the counterpart of the one above: in a row in which no call has
failed the ratio is that of the last image, right or wrong, and the output is the source
exactly if that image is right; the table and the bit offset are set before a decompress
reads them.

*FullSystem.* `HeldInv` gives the descriptor and the mapping held at each place;
`CacheInv` says that nothing is cached while the row's offset is still 0, and that the
loop of a disk row has timed one cold read exactly if the offset is no longer 0, which
together with the missing rewind makes every warm read a short read; `ErrorInv` says that an error
is marked, except a failed `mmap` that the next step is bound to trip over. `AlignedFits`
is the arithmetic of rounding up to pages. For the refinement, `MarkInv` adds that a
message has exactly one cause (`Marking`), and that only a failed `posix_fadvise` of
`DecompressFromFile` is marked while the row goes on, which then never enters its loop.

*PageFaults.* `CacheInv` follows the file in and out of the page cache up to the first
timed call and `LayerInv` the translations of both buffers; `RowInv` says that the only
failures without a message are a remap not yet checked and a failed `mmap`, which the
first timed call is bound to trip over; `FdInv` counts the descriptor a run still owes.

*ConfigureIaa.* A run that shows no error is one in which each command of the enable loop
did what it is for. `LoopInv` says where the loops are; `DeviceInv` what has been done to
the device being configured, by the place in the loops, with exactly the queues asked for
so far on (`QueuesOn`); `BehindInv` that the devices behind the loop (`Chosen`) are configured; `ExtraInv` that
what is on without being among them is what this run failed to disable. Unseen errors of
the disable loop do no harm because a device that is still on makes the first command on
it fail, which is seen. `BoundInv` keeps the bounds of the loop those of the arguments, and
`LoopIsRequested` relates them to what the arguments are documented to mean: the loop
visits only devices that are asked for, and all of them unless it also visits a number
that is no device (a range that starts at an even number), which fails and is seen.

*Registration.* `LoadInv` says that the vector returned by `load_corpus_dataset` holds the
files of the directory read so far; `TableInv` that `source_buffs` has every file of the
directories before it, under its own name (keys with the directory in them are what keeps
files of one name apart); `GroupInv` that `registered` has the four groups of every file
the loop has come to, then one group per read size in their order, and that no two share
a row; `DiskInv` that a compressed file still holds the image its group was told of, since
the names of different read sizes differ. `FailInv` carries "nothing has failed" through
every place but `fatal`. `RunInv` identifies the rows that have run with the groups before
`row`, and `FdInv` bounds the descriptors by the files loaded plus the calls of the
page-fault rows in `ran`; a full-system group is disjoint from those before it, so nothing
is counted twice. `Work` counts the steps from each place to the end.

*ByteHistogram.* `IncrementMod` (adding one before or after the reduction is the same) and
the library's facts on the cardinality of finite sets.

Only model-checked: liveness, which is out of the prover's reach. Of `RowEnds` and
`SelectedRowsRun` it is that the thread is never stuck before the end, and fairness; that
no step can be repeated for ever is proved (`RowProgress`, `ProcessProgress`), and so is
what holds at the end (`DoneRanSelected`). `Terminates` needs fairness of the accelerator
in an essential way, since the thread may poll any number of times, and is left to TLC
altogether. The counterexamples of section 3 are TLC's.

## 5. Not modelled

* `init_rand_memory` (no benchmark calls it), the logarithms of the entropy, time and
  cycle counters, log messages.
* `kModeStatic` of the single-engine functions: `main.cc` never registers it, and no
  caller has the table it needs.
* What an earlier timed iteration leaves in the buffers and the next one overwrites: only
  the last state is compared with the source (`src/multi_engine/benchmark.h:105`), so
  a wrong image in between goes unseen, in the program as in the models.
* Jobs of one row that still run when the next row begins: each row has its own buffers,
  and the models of the benchmarks end with the row.
* A crash on a garbage table pointer: reading a table that is not ready gives any result,
  but the process goes on.
* The multi-job use of one table, bit patterns and checksums: data inside QPL.
* Two leaks the code has on every path, so that no property could tell one version from
  another: the Huffman table of `compress` (`src/multi_engine/qpl_parallel.h:97`) and
  the jobs of `decompress` (line 195).
* A wiki file shorter than the read sizes (`src/main.cc:145`): a file stands for its
  bytes, and the one of the data set is larger than all of them.
* The page request service: `setpci` is run for whatever lines of `lspci -vvv` contain the
  device number, possibly none, and the script prints "PRS enabled on all devices!"
  regardless (`configure_iaa_user.sh:66-70`); no property is about it.
* Sizes, priorities, thresholds and names of work queues, and what the driver does with a
  group that still has the engines of an earlier run (`configure_iaa_user.sh:96`): it
  decides whether a run with fewer engines gets more. `QuietMeansConfigured` therefore
  asks for at least the engines of the argument.
* `plot_benchmark.py` and the scripts that install, extract, run the container and the
  benchmarks: straight-line scripts without state of their own.

## 6. Plan

Every safety invariant, action property and refinement that a run checks is also a
theorem. What would say more:

1. Measures like `Work` for `MultiEngineBench`, `SingleEngineBench`, `FullSystem`,
   `PageFaults` and `ConfigureIaa`: their loops count an argument down, and what is worth
   proving is that no failure path re-enters one.
2. For `QplParallel`, a measure of the accelerator's steps and of the thread's between two
   polls, so that `Terminates` rests on fairness only where the thread waits.
3. `Registration` over the refined rows: that what `RunGroup` says of descriptors is what
   `PageFaults` and `FullSystem` do.
