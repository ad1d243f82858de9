------------------------------ MODULE PageFaults ------------------------------
(***************************************************************************)
(* The page-fault benchmarks (src/single_engine/benchmark_page_faults.h):  *)
(* runs of the two lambdas, one after the other, in any of the four      *)
(* scenarios.  Each moves the input of the accelerator into a mapping of a *)
(* file, so that the first timed access to it meets the fault the scenario *)
(* is named after.                                                       *)
(*                                                                       *)
(* Pages are abstracted to the layers an access goes through: the page   *)
(* cache, the page table, and the translations the accelerator holds (ATS) *)
(* of each of its two buffers.  The kernel and single_engine::compress and *)
(* decompress (SingleEngineBench) are external here.                     *)
(***************************************************************************)
EXTENDS Integers

CONSTANTS
  Iterations,   \* iterations Google Benchmark asks of the timed loop
  Runs,         \* bound: runs of the lambdas
  MaxFds,       \* descriptors the process may have of these files
  Faulty        \* may system calls and QPL calls fail of their own?

ASSUME PageFaultAssumption ==
  /\ Iterations \in Nat \ {0}
  /\ Runs \in Nat
  /\ MaxFds \in Nat
  /\ Faulty \in BOOLEAN

VARIABLES
  pc,           \* where the lambda is; "idle" between runs
  runs,         \* runs begun
  kind,         \* "Compress" or "DeCompress"
  scenario,     \* PageFaultScenario
  iter,         \* iterations left
  msg,          \* message of the row: "none", what failed, or "mismatch"
  failed,       \* history: what failed in this run
  cached,       \* kinds whose file is in the page cache
  fds,          \* open descriptors of the files
  ptr,          \* new_source_buff, new_compressed_buff: "null", "MAP_FAILED", "mapped"
  layer,        \* of each buffer, where translations stop: "none" (no page
                \* table entry), "table" (no ATS translation), "ats"
  compressed_size,   \* "reserved", or "image" when a compress has set it
  image,        \* the compressed data: "none", "good" or "bad"
  output,       \* decompressed_buff: "source" when it equals it, or "other"
  dsize,        \* decompression_size: "zero", "source_size" or "other"
  ratio,        \* compressed_size behind "Compression Ratio", or "zero"
  first         \* history: the faults of the first timed call on each buffer,
                \* or "unknown"

data == <<compressed_size, image, output, dsize, ratio>>
row == <<kind, scenario, msg, failed>>
vars == <<pc, runs, row, iter, cached, fds, ptr, layer, data, first>>

Scenario == {"kMajorPageFaults", "kMinorPageFaults", "kAtsMiss", "kNoFaults"}
Outcome == IF Faulty THEN {"good", "bad"} ELSE {"good"}

Skipped(old, new) == IF old = "none" THEN new ELSE old

\* What failed is kept, and what the code says about it.
Fails(what) == failed' = failed \union {what}
FlagsBug(what) == UNCHANGED msg
Flags(what) == msg' = Skipped(msg, what)

\* Google Benchmark ends the loop when it has run all iterations.
More == iter > 0

\* The arguments drop_cache and prefault of each scenario.
drop_cacheBug == FALSE
drop_cache == scenario = "kMajorPageFaults"
prefault == scenario \in {"kAtsMiss", "kNoFaults"}

\* close(fd) before the file is opened again.
ClosedBug == fds
Closed == fds - 1

Buffers(x) == [src |-> x, dst |-> x]

\* The fault an access to a buffer meets; the file's pages may be cached.
Fault(l, pages) ==
  CASE l = "ats" -> "none"
    [] l = "table" -> "ats"
    [] OTHER -> IF pages THEN "minor" ELSE "major"

Init ==
  /\ pc = "idle"
  /\ runs = 0
  /\ kind = "Compress" /\ scenario = "kMajorPageFaults"
  /\ iter = 0
  /\ msg = "none" /\ failed = {}
  /\ cached \in SUBSET {"Compress", "DeCompress"}   \* files of an earlier process
  /\ fds = 0
  /\ ptr = "null"
  /\ layer = Buffers("none")
  /\ compressed_size = "reserved" /\ image = "none"
  /\ output = "other" /\ dsize = "zero" /\ ratio = "zero"
  /\ first = Buffers("unknown")

-------------------------------------------------------------------------------

Begin ==
  /\ pc = "idle"
  /\ runs < Runs
  /\ runs' = runs + 1
  /\ kind' \in {"Compress", "DeCompress"} /\ scenario' \in Scenario
  /\ iter' = Iterations
  /\ msg' = "none" /\ failed' = {}
  /\ ptr' = "null"
  /\ layer' = Buffers("none")
  /\ compressed_size' = "reserved" /\ image' = "none"
  /\ output' = "other" /\ dsize' = "zero" /\ ratio' = "zero"
  /\ first' = Buffers("unknown")
  /\ pc' = IF kind' = "Compress" THEN "create" ELSE "compress"
  /\ UNCHANGED <<cached, fds>>

\* single_engine::compress: OMIT_VERIFY lets a wrong image pass, and a failed
\* free_qpl comes after the size is written.
Compress ==
  \E good \in Outcome :
    /\ \/ image' \in Outcome /\ compressed_size' = "image"
       \/ good = "bad" /\ image' \in {image, "bad"} /\ UNCHANGED compressed_size
    /\ IF good = "good" THEN UNCHANGED <<msg, failed>>
                        ELSE Fails("compress") /\ Flags("compress")

\* DeCompress compresses first, and goes on whatever comes of it.
CompressFirst ==
  /\ pc = "compress"
  /\ pc' = "create"
  /\ Compress
  /\ ratio' = compressed_size'
  /\ UNCHANGED <<runs, kind, scenario, iter, cached, fds, ptr, layer, output,
                 dsize, first>>

-------------------------------------------------------------------------------
(* remmap_memory_through_file; every failure returns nullptr. *)

GiveUp == pc' = "fetch_src" /\ Fails("remmap") /\ UNCHANGED <<kind, scenario, msg>>

CreateFile ==
  /\ pc = "create"
  /\ \/ /\ fds < MaxFds
        /\ fds' = fds + 1
        /\ cached' = cached \ {kind}         \* O_TRUNC
        /\ pc' = "write"
        /\ UNCHANGED row
     \/ /\ Faulty \/ fds = MaxFds
        /\ GiveUp
        /\ UNCHANGED <<fds, cached>>
  /\ UNCHANGED <<runs, iter, ptr, layer, data, first>>

\* write, fsync (its result is not looked at) and close.
WriteFile ==
  /\ pc = "write"
  /\ cached' = cached \union {kind}
  /\ \E good \in Outcome :
       IF good = "good"
         THEN /\ fds' = Closed
              /\ pc' = IF drop_cache THEN "drop" ELSE "open"
              /\ UNCHANGED row
         ELSE /\ GiveUp                      \* without a close
              /\ UNCHANGED fds
  /\ UNCHANGED <<runs, iter, ptr, layer, data, first>>

\* dd with oflag=nocache, after an fdatasync; no mapping holds the pages.
DropCache ==
  /\ pc = "drop"
  /\ \E good \in Outcome :
       IF good = "good"
         THEN cached' = cached \ {kind} /\ pc' = "open" /\ UNCHANGED row
         ELSE cached' \in {cached, cached \ {kind}} /\ GiveUp
  /\ UNCHANGED <<runs, iter, fds, ptr, layer, data, first>>

OpenFile ==
  /\ pc = "open"
  /\ \/ /\ fds < MaxFds
        /\ fds' = fds + 1
        /\ pc' = "map"
        /\ UNCHANGED row
     \/ /\ Faulty \/ fds = MaxFds
        /\ GiveUp
        /\ UNCHANGED fds
  /\ UNCHANGED <<runs, iter, cached, ptr, layer, data, first>>

\* MAP_POPULATE reads the file and fills the page table.  The descriptor is
\* never closed; MAP_FAILED is not nullptr.
MapFile ==
  /\ pc = "map"
  /\ pc' = "fetch_src"
  /\ \E good \in Outcome :
       IF good = "good"
         THEN /\ ptr' = "mapped"
              /\ layer' = [layer EXCEPT !.src = IF prefault THEN "table" ELSE "none"]
              /\ cached' = IF prefault THEN cached \union {kind} ELSE cached
              /\ UNCHANGED row
         ELSE /\ ptr' = "MAP_FAILED"
              /\ Fails("mmap")
              /\ UNCHANGED <<layer, cached, kind, scenario, msg>>
  /\ UNCHANGED <<runs, iter, fds, data, first>>

-------------------------------------------------------------------------------
(* Back in the lambda *)

\* iaa_translation_fetch of kNoFaults, which runs before the check for
\* nullptr, and that check, which does not see MAP_FAILED.
FetchSource ==
  /\ pc = "fetch_src"
  /\ pc' = "fetch_dst"
  /\ \E good \in Outcome :
       LET tried == scenario = "kNoFaults"
           fetched == good = "good" /\ ptr = "mapped"
           told == IF tried /\ ~fetched THEN Skipped(msg, "prefetch") ELSE msg
       IN /\ msg' = IF ptr = "null" THEN Skipped(told, "remmap") ELSE told
          /\ failed' = IF tried /\ ~fetched THEN failed \union {"prefetch"} ELSE failed
          /\ layer' = IF tried /\ fetched THEN [layer EXCEPT !.src = "ats"] ELSE layer
  /\ UNCHANGED <<runs, kind, scenario, iter, cached, fds, ptr, data, first>>

\* memset in kAtsMiss and kNoFaults, and the fetch of kNoFaults.  No
\* iteration runs in a row that is skipped before its loop.
FetchDestination ==
  /\ pc = "fetch_dst"
  /\ pc' = "loop"
  /\ \E good \in Outcome :
       /\ layer' = [layer EXCEPT !.dst =
            CASE scenario = "kAtsMiss" -> "table"
              [] scenario = "kNoFaults" -> IF good = "good" THEN "ats" ELSE "table"
              [] OTHER -> "none"]
       /\ IF scenario = "kNoFaults" /\ good = "bad"
            THEN Fails("prefetch") /\ Flags("prefetch")
            ELSE UNCHANGED <<msg, failed>>
  /\ iter' = IF msg' = "none" THEN iter ELSE 0
  /\ UNCHANGED <<runs, kind, scenario, cached, fds, ptr, data, first>>

\* A decompress that gets to write decompression_size.
Inflate ==
  /\ image # "none"
  /\ IF image = "good" /\ compressed_size = "image"
       THEN dsize' = "source_size" /\ output' = "source"
       ELSE dsize' \in {"source_size", "other"} /\ output' = "other"

\* single_engine::decompress of the image at the address given.
Decompress(address) ==
  \/ address = "mapped" /\ Inflate /\ UNCHANGED <<msg, failed>>
  \/ /\ Faulty \/ address # "mapped" \/ image # "good"
     /\ \/ address = "mapped" /\ Inflate
        \/ output' \in {output, "other"} /\ UNCHANGED dsize
     /\ Fails("decompress") /\ Flags("decompress")

\* A call on MAP_FAILED fails.  The pages a call has touched stay.
TimedCall ==
  /\ pc = "loop"
  /\ More
  /\ iter' = iter - 1
  /\ first' = IF first = Buffers("unknown")
                THEN [src |-> Fault(layer.src, kind \in cached),
                      dst |-> Fault(layer.dst, TRUE)]
                ELSE first
  /\ IF kind = "Compress"
       THEN /\ IF ptr = "mapped"
                 THEN Compress
                 ELSE /\ Fails("compress") /\ Flags("compress")
                      /\ UNCHANGED <<image, compressed_size>>
            /\ UNCHANGED <<output, dsize>>
       ELSE /\ Decompress(ptr)
            /\ UNCHANGED <<image, compressed_size>>
  /\ IF ptr = "mapped"
       THEN layer' = Buffers("ats") /\ cached' = cached \union {kind}
       ELSE UNCHANGED <<layer, cached>>
  /\ UNCHANGED <<pc, runs, kind, scenario, fds, ptr, ratio>>

LoopEnd ==
  /\ pc = "loop"
  /\ ~More
  /\ IF kind = "Compress"
       THEN pc' = "decompress" /\ ratio' = compressed_size
       ELSE pc' = "verify" /\ UNCHANGED ratio
  /\ UNCHANGED <<runs, row, iter, cached, fds, ptr, layer, compressed_size, image,
                 output, dsize, first>>

\* Compress verifies from compressed_buff, which is not in the file.
DecompressLast ==
  /\ pc = "decompress"
  /\ pc' = "verify"
  /\ Decompress("mapped")
  /\ UNCHANGED <<runs, kind, scenario, iter, cached, fds, ptr, layer,
                 compressed_size, image, ratio, first>>

\* decompression_size != source_size || memcmp(...) != 0
MismatchBug == dsize # "source_size"
Mismatch == dsize # "source_size" \/ output # "source"

\* The end of the lambda unmaps its buffers.
Verify ==
  /\ pc = "verify"
  /\ pc' = "idle"
  /\ msg' = IF Mismatch THEN Skipped(msg, "mismatch") ELSE msg
  /\ UNCHANGED <<runs, kind, scenario, iter, failed, cached, fds, ptr, layer, data,
                 first>>

Next ==
  \/ Begin \/ CompressFirst
  \/ CreateFile \/ WriteFile \/ DropCache \/ OpenFile \/ MapFile
  \/ FetchSource \/ FetchDestination
  \/ TimedCall \/ LoopEnd \/ DecompressLast \/ Verify

Spec == Init /\ [][Next]_vars

-------------------------------------------------------------------------------
(* Properties *)

Finished == pc = "idle" /\ runs > 0

TypeOK ==
  /\ pc \in {"idle", "compress", "create", "write", "drop", "open", "map",
             "fetch_src", "fetch_dst", "loop", "decompress", "verify"}
  /\ runs \in 0 .. Runs
  /\ kind \in {"Compress", "DeCompress"} /\ scenario \in Scenario
  /\ iter \in 0 .. Iterations
  /\ msg \in {"none", "compress", "remmap", "prefetch", "decompress", "mismatch"}
  /\ failed \subseteq {"compress", "remmap", "mmap", "prefetch", "decompress"}
  /\ cached \subseteq {"Compress", "DeCompress"}
  /\ fds \in 0 .. MaxFds
  /\ ptr \in {"null", "MAP_FAILED", "mapped"}
  /\ layer \in [src : {"none", "table", "ats"}, dst : {"none", "table", "ats"}]
  /\ compressed_size \in {"reserved", "image"}
  /\ image \in {"none", "good", "bad"}
  /\ output \in {"source", "other"}
  /\ dsize \in {"zero", "source_size", "other"}
  /\ ratio \in {"zero", "reserved", "image"}
  /\ first \in [src : {"unknown", "none", "ats", "minor", "major"},
               dst : {"unknown", "none", "ats", "minor", "major"}]

\* The faults each scenario is named after, on the input and the output.
Named ==
  CASE scenario = "kMajorPageFaults" -> [src |-> "major", dst |-> "minor"]
    [] scenario = "kMinorPageFaults" -> Buffers("minor")
    [] scenario = "kAtsMiss" -> Buffers("ats")
    [] OTHER -> Buffers("none")

(* In a row without a message the first timed call met exactly the faults  *)
(* the scenario is named after: whatever earlier runs and scenarios left *)
(* in the page cache under the same file name, and although a failed mmap  *)
(* passes the check for nullptr.                                         *)
ScenarioIsMeasured == Finished /\ msg = "none" => first = Named

(* A row without a message can be believed: the file was written, dropped  *)
(* and mapped, every call returned 0, the source was reproduced, and the *)
(* ratio is that of an image.                                            *)
UnflaggedIsSound ==
  Finished /\ msg = "none" =>
    failed = {} /\ output = "source" /\ dsize = "source_size" /\ ratio = "image"

(* A row that blames the data is one in which nothing else went wrong: the *)
(* compressor silently made a bad image.                                 *)
MismatchIsSilent == msg = "mismatch" => failed = {} /\ image = "bad"

(* A run leaves at most one descriptor of its file open, on whichever path *)
(* it ends; so it takes as many runs as there are descriptors until no   *)
(* file can be opened, and from then on the rows say so.                 *)
OneDescriptorPerRun == fds <= runs

-------------------------------------------------------------------------------
(* The runs keep the promise of BenchRow: an error of the remapping is in   *)
(* the message of the row by the time it is reported, although the check *)
(* for it comes late and does not see MAP_FAILED.                        *)
Row == INSTANCE BenchRow WITH
  Function <- {"compress", "remmap", "mmap", "prefetch", "decompress"},
  phase <- IF pc = "idle" THEN "reported" ELSE "running"

ImplementsRow == Row!Spec
===============================================================================
