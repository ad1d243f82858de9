----------------------------- MODULE Registration -----------------------------
(***************************************************************************)
(* The process as a whole (src/main.cc): load_corpus_dataset reads every   *)
(* file of three directories, main registers the rows of each file and     *)
(* those of the full-system benchmark, for which it writes one compressed  *)
(* file per read size, and only then Google Benchmark runs the rows the    *)
(* filter selects, in the order of registration.                           *)
(*                                                                         *)
(* A file stands for its size, entropy and bytes.  The rows a group of     *)
(* nested loops registers are one set: they differ in their parameters     *)
(* only.  Inside, they are SingleEngineBench, CannedBench,                 *)
(* MultiEngineBench, PageFaults and FullSystem; what remains of them here  *)
(* are the descriptors they take and keep.                                 *)
(***************************************************************************)
EXTENDS Integers, Sequences, FiniteSets, SequencesExt

CONSTANTS
  Files,         \* of each dataset, the names of its files
  ReadSizes,     \* the read sizes of the full-system benchmark, in order
  Jobs,          \* numbers of jobs of the multi-engine benchmarks
  Filters,       \* sets of benchmarks --benchmark_filter may select
  Repetitions,   \* --benchmark_repetitions
  MaxFds,        \* bound: largest limit of descriptors tried
  Faulty         \* may a call fail of its own?

Paths == {"silesia_tmp", "snapshots_tmp", "wiki_tmp"}

ASSUME RegistrationAssumption ==
  /\ \A path \in Paths : IsFiniteSet(Files[path])
  /\ ReadSizes \in Seq(Nat)
  /\ \A a, b \in DOMAIN ReadSizes : ReadSizes[a] = ReadSizes[b] => a = b
  /\ Repetitions \in Nat \ {0}
  /\ MaxFds \in Nat
  /\ Faulty \in BOOLEAN

VARIABLES
  pc,            \* "load", "register", "prepare", "run", "done", or "fatal"
                 \* when LOG(FATAL), an exception or a fault ended the process
  present,       \* directories that exist
  path,          \* directory being loaded
  todo,          \* its files that have not been read
  dataset,       \* its files that have, a vector
  source_buffs,  \* what each benchmark_name stands for
  unregistered,  \* names the registration loop has not come to
  registered,    \* groups of rows, each with the arguments they were given
  disk,          \* image in each compressed file
  row,           \* registered group to run next
  chosen,        \* benchmarks the filter selects
  limit, fds,    \* descriptors the process may open, and has open
  failed,        \* history: what failed before the first row
  ran,           \* history: rows that have run
  starved        \* history: full-system rows that could not open their file

input == <<present, chosen, limit>>
loading == <<path, todo, dataset>>
tables == <<source_buffs, unregistered, registered>>
running == <<row, ran, starved>>
vars == <<pc, input, loading, tables, disk, running, fds, failed>>

Outcome == IF Faulty THEN {"good", "bad"} ELSE {"good"}

File(p) == {p} \X Files[p]

\* filename = dataset_path + "/" + filename, the name of a benchmark.
KeyBug(file) == <<"silesia_tmp", file[2]>>
Key(file) == file

Bm == {"SingleEngineBlocking_Compress", "SingleEngineBlocking_DeCompress",
       "SingleEngineBlocking_Compress_Canned", "SingleEngineBlocking_DeCompress_Canned",
       "MultipleEngine_Compress", "MultipleEngine_DeCompress",
       "SingleEngineMinorPageFault_Compress", "SingleEngineMinorPageFault_DeCompress",
       "FullSystem"}

\* The rows of #1 to #5: the fields are what tells their names apart.
Blocking(name) ==
  [bm : {"SingleEngineBlocking_Compress", "SingleEngineBlocking_DeCompress"}, name : {name},
   mode : {"Fixed", "Dynamic"}, path : {"software", "hardware"}]
Canned(name) ==
  [bm : {"SingleEngineBlocking_Compress_Canned", "SingleEngineBlocking_DeCompress_Canned"},
   name : {name}, mode : {"Continious", "Naive", "Canned"}]
MultipleEngine(name) ==
  [bm : {"MultipleEngine_Compress", "MultipleEngine_DeCompress"}, name : {name},
   mode : {"ParallelFixed", "ParallelDynamic", "ParallelCanned"}, jobs : Jobs]
PageFault(name) ==
  [bm : {"SingleEngineMinorPageFault_Compress", "SingleEngineMinorPageFault_DeCompress"},
   name : {name}, pfscenario : {"MajorPageFaults", "MinorPageFaults", "AtsMiss", "NoFaults"}]
FullSystem(read_size) ==
  [bm : {"FullSystem"}, size : {read_size},
   mode : {"DiskRead", "DiskReadIODirect", "Decompress", "DecompressFromFile"}]

Group(rows, args) == [rows |-> rows, args |-> args]

\* compressed_filenames[read_size]
Filename(read_size) == <<"compressfile", read_size>>

\* prepare_compressed_files closes its descriptor.
PreparedFdsBug == fds + 1
PreparedFds == fds

Init ==
  /\ pc = "load"
  /\ present \in SUBSET Paths
  /\ path = "silesia_tmp"
  /\ todo = File("silesia_tmp")
  /\ dataset = <<>>
  /\ source_buffs = <<>>
  /\ unregistered = {} /\ registered = <<>>
  /\ disk = <<>>
  /\ row = 1
  /\ chosen \in Filters
  /\ limit \in 0 .. MaxFds /\ fds = 0
  /\ failed = {} /\ ran = {} /\ starved = {}

-------------------------------------------------------------------------------
(* load_corpus_dataset *)

\* LOG(FATAL), an exception or a fault.
AbortBug(what) == UNCHANGED pc /\ failed' = failed \union {what}
Abort(what) ==
  /\ pc' = "fatal"
  /\ failed' = failed \union {what}

\* directory_iterator throws; the assertion before it is compiled out.
NoDirectory ==
  /\ pc = "load" /\ path \notin present
  /\ Abort("directory")
  /\ UNCHANGED <<input, loading, tables, disk, running, fds>>

\* open, lseek, read; the descriptor is not closed.
LoadFile ==
  /\ pc = "load" /\ path \in present
  /\ \E file \in todo, opens \in Outcome, reads \in Outcome :
       IF opens = "bad" \/ fds >= limit
         THEN /\ Abort("open")
              /\ UNCHANGED <<todo, dataset, fds>>
         ELSE /\ fds' = fds + 1
              /\ IF reads = "bad"
                   THEN Abort("read") /\ UNCHANGED <<todo, dataset>>
                   ELSE /\ todo' = todo \ {file}
                        /\ dataset' = Append(dataset, file)
                        /\ UNCHANGED <<pc, failed>>
  /\ UNCHANGED <<input, path, tables, disk, running>>

\* The loops of main that fill source_buffs from a dataset.
Merge(buffs, files) ==
  [key \in DOMAIN buffs \union {Key(f) : f \in files} |->
     IF \E f \in files : Key(f) = key THEN CHOOSE f \in files : Key(f) = key ELSE buffs[key]]

\* load_corpus_dataset returns one of the first two datasets.
Loaded ==
  /\ pc = "load" /\ path \in present /\ todo = {}
  /\ path # "wiki_tmp"
  /\ source_buffs' = Merge(source_buffs, ToSet(dataset))
  /\ IF path = "silesia_tmp"
       THEN /\ path' = "snapshots_tmp" /\ todo' = File("snapshots_tmp") /\ dataset' = <<>>
            /\ UNCHANGED <<pc, unregistered>>
       ELSE /\ pc' = "register" /\ unregistered' = DOMAIN source_buffs'
            /\ UNCHANGED loading
  /\ UNCHANGED <<input, registered, disk, running, fds, failed>>

-------------------------------------------------------------------------------
(* register_benchmarks_with_corpus_datasets *)

GroupsBug(name) ==
  << Group(Blocking(name), source_buffs[name]), Group(Canned(name), source_buffs[name]),
     Group(MultipleEngine(name), source_buffs[name]) >>
Groups(name) ==
  << Group(Blocking(name), source_buffs[name]), Group(Canned(name), source_buffs[name]),
     Group(MultipleEngine(name), source_buffs[name]),
     Group(PageFault(name), source_buffs[name]) >>

\* The loop over source_buffs, in the order of its keys.
Register ==
  /\ pc = "register"
  /\ \E name \in unregistered :
       /\ registered' = registered \o Groups(name)
       /\ unregistered' = unregistered \ {name}
  /\ UNCHANGED <<pc, input, loading, source_buffs, disk, running, fds, failed>>

\* The third dataset is loaded after the rows of the first two are registered.
LoadWiki ==
  /\ pc = "register" /\ unregistered = {}
  /\ pc' = "load"
  /\ path' = "wiki_tmp" /\ todo' = File("wiki_tmp") /\ dataset' = <<>>
  /\ UNCHANGED <<input, tables, disk, running, fds, failed>>

\* front() of the vector: with no file the process faults, and with more than
\* one the first is taken; the assertion is compiled out.
LoadedWiki ==
  /\ pc = "load" /\ path \in present /\ todo = {}
  /\ path = "wiki_tmp"
  /\ IF dataset = <<>> THEN Abort("wiki") ELSE pc' = "prepare" /\ UNCHANGED failed
  /\ UNCHANGED <<input, loading, tables, disk, running, fds>>

\* The full-system groups are those after the four of every file.
Prepared == Len(registered) - 4 * Cardinality(DOMAIN source_buffs)

MorePrepareBug == Prepared + 1 < Len(ReadSizes)
MorePrepare == Prepared < Len(ReadSizes)

\* prepare_compressed_files for the next read size, and its four rows.
Prepare ==
  /\ pc = "prepare" /\ MorePrepare
  /\ LET read_size == ReadSizes[Prepared + 1]
         compressed == <<Head(dataset), read_size>>
     IN \E good \in Outcome :
          IF good = "bad" \/ fds >= limit
            THEN /\ Abort("prepare")
                 /\ UNCHANGED <<registered, disk, fds>>
            ELSE /\ disk' = [f \in DOMAIN disk \union {Filename(read_size)} |->
                               IF f = Filename(read_size) THEN compressed ELSE disk[f]]
                 /\ registered' =
                      Append(registered, Group(FullSystem(read_size),
                                               <<Filename(read_size), compressed>>))
                 /\ fds' = PreparedFds
                 /\ UNCHANGED <<pc, failed>>
  /\ UNCHANGED <<input, loading, source_buffs, unregistered, running>>

\* benchmark::Initialize reads the filter only now.
Initialize ==
  /\ pc = "prepare" /\ ~MorePrepare
  /\ pc' = "run"
  /\ UNCHANGED <<input, loading, tables, disk, running, fds, failed>>

-------------------------------------------------------------------------------
(* benchmark::RunSpecifiedBenchmarks *)

Selected(rows) == {r \in rows : r.bm \in chosen}
Calls(rows) == Repetitions * Cardinality(Selected(rows))

\* A call of a page-fault row keeps at most one descriptor; the other rows
\* keep none, and a full-system row needs one.
RunGroup ==
  /\ pc = "run" /\ row <= Len(registered)
  /\ LET rows == registered[row].rows
         keep == IF \E r \in rows : "pfscenario" \in DOMAIN r THEN Calls(rows) ELSE 0
     IN /\ ran' = ran \union Selected(rows)
        /\ fds' \in {n \in fds .. fds + keep : n <= limit}
        /\ starved' = starved \union (IF fds < limit THEN {} ELSE
                        {r \in Selected(rows) : r.bm = "FullSystem"})
  /\ row' = row + 1
  /\ UNCHANGED <<pc, input, loading, tables, disk, failed>>

Shutdown ==
  /\ pc = "run" /\ row > Len(registered)
  /\ pc' = "done"
  /\ UNCHANGED <<input, loading, tables, disk, running, fds, failed>>

Next ==
  \/ NoDirectory \/ LoadFile \/ Loaded \/ Register \/ LoadWiki \/ LoadedWiki
  \/ Prepare \/ Initialize \/ RunGroup \/ Shutdown

Spec == Init /\ [][Next]_vars

\* One process that nothing blocks for ever.
FairSpec == Spec /\ WF_vars(Next)

-------------------------------------------------------------------------------
(* Properties *)

Corpus == File("silesia_tmp") \union File("snapshots_tmp")

TypeOK ==
  /\ pc \in {"load", "register", "prepare", "run", "done", "fatal"}
  /\ present \subseteq Paths /\ path \in Paths
  /\ todo \subseteq File(path) /\ ToSet(dataset) \subseteq File(path)
  /\ DOMAIN source_buffs \subseteq Corpus
  /\ \A name \in DOMAIN source_buffs : source_buffs[name] \in Corpus
  /\ unregistered \subseteq DOMAIN source_buffs
  /\ \A g \in ToSet(registered) : \A r \in g.rows : r.bm \in Bm
  /\ Prepared \in 0 .. Len(ReadSizes) \/ pc \in {"load", "register", "fatal"}
  /\ row \in 1 .. Len(registered) + 1
  /\ limit \in 0 .. MaxFds /\ fds \in 0 .. limit
  /\ failed \subseteq {"directory", "open", "read", "wiki", "prepare"}
  /\ starved \subseteq ran

Started == pc \in {"run", "done"}

(* Rows run on complete inputs or not at all: when the first row starts no *)
(* directory was missing, no file failed to open or to read, and no        *)
(* compressed file failed to be written, even if the filter selects no row *)
(* that would have used it.                                                *)
AllOrNothing ==
  Started \/ ran # {} => failed = {} /\ present = Paths

(* When rows run, each gets the data its name says.  Every file of the two *)
(* corpora is measured under a name of its own and on its own bytes,       *)
(* though two directories may hold files with one name; each full-system   *)
(* group finds, under the name it was given long before, the image of its  *)
(* own read size and of the length it was told, all made from one file;    *)
(* and no two groups have a row in common.                                 *)
RowsGetTheirData ==
  Started =>
    /\ \A f \in Corpus :
         {Group(rows, f) : rows \in {Blocking(f), Canned(f), MultipleEngine(f), PageFault(f)}}
           \subseteq ToSet(registered)
    /\ \A g \in ToSet(registered) : \A r \in g.rows :
         r.bm = "FullSystem" =>
           disk[g.args[1]] = g.args[2] /\ g.args[2] = <<Head(dataset), r.size>>
    /\ \A a, b \in DOMAIN registered :
         a # b => registered[a].rows \intersect registered[b].rows = {}

(* Descriptors are never the reason a full-system row is lost if the limit *)
(* exceeds the files read plus the calls of page-fault rows, which run     *)
(* first: the files prepared in between keep nothing.                      *)
DescriptorBudget ==
  LET leaks == {r \in ran : "pfscenario" \in DOMAIN r}
      files == Cardinality(UNION {File(p) : p \in Paths})
  IN limit > files + Repetitions * Cardinality(leaks) => starved = {}

\* The rows of every file and every read size.
EveryRow ==
  (UNION {Blocking(f) \union Canned(f) \union MultipleEngine(f) \union PageFault(f) : f \in Corpus})
    \union (UNION {FullSystem(n) : n \in ToSet(ReadSizes)})

(* The process ends, and if it was not aborted it has run exactly the      *)
(* selected rows of every file and every read size.                        *)
SelectedRowsRun == <>(pc = "fatal" \/ (pc = "done" /\ ran = Selected(EveryRow)))
===============================================================================
