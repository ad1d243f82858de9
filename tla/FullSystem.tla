------------------------------ MODULE FullSystem ------------------------------
(***************************************************************************)
(* The full-system benchmark (src/full_system/benchmark_full_system.h):    *)
(* one compressed file is prepared while the benchmarks are registered,    *)
(* then rows in any of the four modes read or decompress it, one after the *)
(* other, sharing the file and the page cache.                             *)
(*                                                                         *)
(* The kernel (files, mappings, page cache) and single_engine::compress    *)
(* and decompress are external here: they succeed, or fail when Faulty.    *)
(* Sizes are in units in which a page is PageSize.                         *)
(***************************************************************************)
EXTENDS Integers

CONSTANTS
  src_size,     \* bytes compressed into the file
  PageSize,     \* 4096
  Iterations,   \* bound: iterations Google Benchmark asks of a timed loop
  Rows,         \* bound: rows run on the file
  Faulty        \* may system calls and QPL calls fail?

\* Twice every read_size main registers is a number of whole pages.
ASSUME FullSystemAssumption ==
  /\ PageSize \in Nat \ {0}
  /\ src_size \in Nat \ {0}
  /\ 2 * src_size % PageSize = 0
  /\ Iterations \in Nat \ {0}
  /\ Rows \in Nat
  /\ Faulty \in BOOLEAN

VARIABLES
  pc,          \* where the program is; "idle" between rows, "fatal" is LOG(FATAL)
  rows,        \* rows begun
  mode,        \* FullSystemMode of the row
  iter,        \* iterations left
  compressed,  \* compressed_size
  file_size,   \* size of the file
  cache,       \* "warm" when the page cache holds the file, or "cold"
  maps,        \* shared mappings of the file that are still in place
  fds,         \* open descriptors of the file
  offset,      \* file offset of the row's descriptor
  mem_buff,    \* "null", "anonymous", "file" or "MAP_FAILED"
  msg,         \* "skipped" when the row has a message, or "none"
  decompression_size,   \* "expected" or "other"
  failed,      \* history: what failed in the row
  timed        \* history: page cache seen by the row's timed iterations

row == <<mode, iter, offset, mem_buff, msg, decompression_size, failed, timed>>
prepared == <<compressed, file_size>>
system == <<cache, maps, fds>>
vars == <<pc, rows, row, prepared, system>>

Mode == {"DiskRead", "DiskReadIODirect", "Decompress", "DecompressFromFile"}
Outcome == IF Faulty THEN BOOLEAN ELSE {TRUE}

\* (compressed_size + 4095) & ~4095
AlignedBug(n) == n
Aligned(n) == ((n + PageSize - 1) \div PageSize) * PageSize

\* `dd oflag=nocache' evicts the pages of the file that no mapping holds.
DroppedBug == cache
Dropped == IF maps > 0 THEN cache ELSE "cold"

\* munmap(mem_buff, source_size) at err: undoes a mapping of the file.
UnmappedBug == maps
Unmapped == IF mem_buff = "file" THEN maps - 1 ELSE maps

\* close(fd) at err.
Closed == fds - 1

\* `state.SkipWithMessage(...); goto err;' after a bad read.
ReadFlagged == "skipped"

\* `res == -1 || res != source_size'
ShortRead(res) == res # file_size

Init ==
  /\ pc = "prepare"
  /\ rows = 0
  /\ mode \in Mode
  /\ iter = 0
  /\ compressed = 0 /\ file_size = 0
  /\ cache = "cold" /\ maps = 0 /\ fds = 0
  /\ offset = 0
  /\ mem_buff = "null"
  /\ msg = "none"
  /\ decompression_size = "other"
  /\ failed = {}
  /\ timed = {}

-------------------------------------------------------------------------------

\* prepare_compressed_files: compress, open, write; main gives up otherwise.
Prepare ==
  /\ pc = "prepare"
  /\ \E good \in Outcome :
       IF good
         THEN /\ compressed' \in 1 .. 2 * src_size
              /\ file_size' = Aligned(compressed')
              /\ cache' = "warm"
              /\ pc' = "idle"
         ELSE /\ pc' = "fatal"
              /\ UNCHANGED <<compressed, file_size, cache>>
  /\ UNCHANGED <<rows, row, maps, fds>>

\* A row begins, for one iteration with --benchmark_min_time=1x (README.md:58)
\* and for more without it: counters, then the page cache is dropped.
DropCache ==
  /\ pc = "idle"
  /\ rows < Rows
  /\ rows' = rows + 1
  /\ mode' \in Mode
  /\ iter' \in 1 .. Iterations
  /\ offset' = 0
  /\ mem_buff' = "null"
  /\ msg' = "none"
  /\ decompression_size' = "other"
  /\ timed' = {}
  /\ \E good \in Outcome :
       IF good
         THEN /\ cache' = Dropped
              /\ failed' = {}
              /\ pc' = "open"
         ELSE /\ failed' = {"dd"}
              /\ pc' = "returned"
              /\ UNCHANGED cache
  /\ UNCHANGED <<prepared, maps, fds>>

Open ==
  /\ pc = "open"
  /\ \E good \in Outcome :
       IF good
         THEN fds' = fds + 1 /\ pc' = "advise" /\ UNCHANGED failed
         ELSE pc' = "returned" /\ failed' = failed \union {"open"} /\ UNCHANGED fds
  /\ UNCHANGED <<rows, mode, iter, offset, mem_buff, msg, decompression_size, timed,
                 prepared, cache, maps>>

\* posix_fadvise: a failure is flagged and the row goes on.
Advise ==
  /\ pc = "advise"
  /\ pc' = "map"
  /\ IF mode = "DecompressFromFile"
       THEN \E good \in Outcome :
              IF good THEN UNCHANGED <<msg, failed>>
                      ELSE msg' = "skipped" /\ failed' = failed \union {"posix_fadvise"}
       ELSE UNCHANGED <<msg, failed>>
  /\ UNCHANGED <<rows, mode, iter, offset, mem_buff, decompression_size, timed, prepared,
                 system>>

\* mmap; its result is not compared with MAP_FAILED.
Map ==
  /\ pc = "map"
  /\ pc' = IF mode = "Decompress" THEN "read" ELSE "loop"
  /\ \E good \in Outcome :
       /\ mem_buff' = IF ~good THEN "MAP_FAILED"
                      ELSE IF mode = "DecompressFromFile" THEN "file" ELSE "anonymous"
       /\ failed' = IF good THEN failed ELSE failed \union {"mmap"}
       /\ maps' = IF good /\ mode = "DecompressFromFile" THEN maps + 1 ELSE maps
  \* No iteration runs in a row that is skipped before its loop.
  /\ iter' = IF msg = "none" THEN iter ELSE 0
  /\ UNCHANGED <<rows, mode, offset, msg, decompression_size, timed, prepared, cache, fds>>

\* read(fd, mem_buff, source_size) from the current offset; O_DIRECT wants
\* whole pages.
Read(next) ==
  /\ \E good \in Outcome :
       LET ok == /\ good
                 /\ mem_buff # "MAP_FAILED"
                 /\ mode = "DiskReadIODirect" => file_size % PageSize = 0
           res == IF ok THEN file_size - offset ELSE -1
       IN /\ offset' = IF ok THEN offset + res ELSE offset
          /\ IF ShortRead(res)
               THEN /\ msg' = ReadFlagged
                    /\ failed' = failed \union {"read"}
                    /\ pc' = "err"
               ELSE /\ pc' = next
                    /\ UNCHANGED <<msg, failed>>
  /\ cache' = IF mode = "DiskReadIODirect" THEN cache ELSE "warm"

\* kBenchmarkDecompress reads the file before the timed loop.
ReadBefore ==
  /\ pc = "read"
  /\ Read("loop")
  /\ UNCHANGED <<rows, mode, iter, mem_buff, decompression_size, timed, prepared, maps, fds>>

Saw == IF mode = "DiskReadIODirect" THEN "cold" ELSE cache

TimedRead ==
  /\ pc = "loop" /\ mode \in {"DiskRead", "DiskReadIODirect"}
  /\ iter > 0
  /\ iter' = iter - 1
  /\ Read("loop")
  /\ timed' = timed \union {Saw}
  /\ UNCHANGED <<rows, mode, mem_buff, decompression_size, prepared, maps, fds>>

\* Decompressing from the mapped file faults its pages in.
TimedDecompress ==
  /\ pc = "loop" /\ mode \in {"Decompress", "DecompressFromFile"}
  /\ iter > 0
  /\ iter' = iter - 1
  /\ \E good \in Outcome :
       IF good /\ mem_buff # "MAP_FAILED"
         THEN /\ decompression_size' \in
                  {"expected"} \union (IF Faulty THEN {"other"} ELSE {})
             /\ UNCHANGED <<pc, msg, failed>>
         ELSE /\ pc' = "err" /\ msg' = "skipped"
              /\ failed' = failed \union {"decompress"}
              /\ UNCHANGED decompression_size
  /\ IF mode = "DecompressFromFile"
       THEN timed' = timed \union {Saw} 
            /\ cache' = IF mem_buff = "file" THEN "warm" ELSE cache
       ELSE UNCHANGED <<timed, cache>>
  /\ UNCHANGED <<rows, mode, offset, mem_buff, prepared, maps, fds>>

\* `if (decompression_size != decompression_expected_size)'
SizeFlaggedBug == msg
SizeFlagged == IF decompression_size = "expected" THEN msg ELSE "skipped"

LoopEnd ==
  /\ pc = "loop"
  /\ iter = 0
  /\ pc' = "err"
  /\ msg' = IF mode \in {"Decompress", "DecompressFromFile"} THEN SizeFlagged ELSE msg
  /\ UNCHANGED <<rows, mode, iter, offset, mem_buff, decompression_size, failed, timed,
                 prepared, system>>

Err ==
  /\ pc = "err"
  /\ maps' = Unmapped
  /\ fds' = Closed
  /\ pc' = "returned"
  /\ UNCHANGED <<rows, row, prepared, cache>>

\* Google Benchmark writes the row and goes on to the next.
Report ==
  /\ pc = "returned"
  /\ pc' = "idle"
  /\ UNCHANGED <<rows, row, prepared, system>>

Next ==
  \/ Prepare \/ DropCache \/ Open \/ Advise \/ Map \/ ReadBefore
  \/ TimedRead \/ TimedDecompress \/ LoopEnd \/ Err \/ Report

Spec == Init /\ [][Next]_vars

-------------------------------------------------------------------------------
(* Properties *)

TypeOK ==
  /\ pc \in {"prepare", "fatal", "idle", "open", "advise", "map", "read", "loop",
             "err", "returned"}
  /\ rows \in 0 .. Rows
  /\ mode \in Mode
  /\ iter \in 0 .. Iterations
  /\ compressed \in 0 .. 2 * src_size
  /\ file_size \in 0 .. 2 * src_size
  /\ cache \in {"cold", "warm"}
  /\ maps \in 0 .. 1 /\ fds \in 0 .. 1
  /\ offset \in 0 .. file_size
  /\ mem_buff \in {"null", "anonymous", "file", "MAP_FAILED"}
  /\ msg \in {"none", "skipped"} /\ decompression_size \in {"expected", "other"}
  /\ failed \subseteq {"dd", "open", "posix_fadvise", "mmap", "read", "decompress"}
  /\ timed \subseteq {"cold", "warm"}

(* Rows of different modes share the file, so each must leave the system   *)
(* as it found it: when a row has returned, on whatever path, none of its  *)
(* descriptors and mappings is left to pin the pages the next row drops.   *)
RowCleansUp ==
  pc \in {"idle", "returned"} => fds = 0 /\ maps = 0

(* An unmarked disk row that opened its file measured the disk: it timed a *)
(* read, and none was served from the page cache, although the preparation *)
(* of the file and the rows before it leave the file cached and the cache  *)
(* is dropped once per row.  (A second iteration starts at the end of the  *)
(* file, reads nothing and marks the row.)                                 *)
DiskRowsAreCold ==
     /\ pc = "returned" /\ failed \intersect {"dd", "open"} = {} /\ msg = "none"
     /\ mode \in {"DiskRead", "DiskReadIODirect"}
  => timed = {"cold"}

(* The file written from compressed_buff stays inside it (no over-read     *)
(* past 2 * src_size), holds the whole image, and is made of whole pages,  *)
(* which the O_DIRECT rows need.                                           *)
FileFits ==
  file_size > 0 =>
    /\ compressed <= file_size /\ file_size <= 2 * src_size
    /\ file_size % PageSize = 0

(* Once the file is open, an error on any path to the end of the row marks *)
(* it, and so does a last decompression of the wrong size (the output is   *)
(* not compared with the source).                                          *)
OpenedRowIsHonest ==
  pc = "returned" /\ failed \intersect {"dd", "open"} = {} /\ msg = "none" =>
    /\ failed = {}
    /\ mode \in {"Decompress", "DecompressFromFile"} => decompression_size = "expected"

(* "`cat results.csv | grep false` will return any skipped/failed          *)
(* benchmark" (README.md:66): a row that failed carries a message.         *)
GrepFindsFailures ==
  pc = "returned" /\ failed # {} => msg = "skipped"

\* SkipWithMessage is called for one of these, or after the loop for a size
\* that is not the expected one, for which no call is to blame.
Marking == failed \intersect {"posix_fadvise", "read", "decompress"}
RowMsg ==
  IF msg = "none" \/ (Marking = {} /\ pc # "idle") THEN "none"
  ELSE IF Marking = {} THEN "mismatch" ELSE CHOOSE f \in Marking : TRUE

(* Rows keep the promise of BenchRow but for the two calls that return     *)
(* without a message: whatever else fails, mmap included, the row has one  *)
(* when it is reported, the first one stays, and none is given for nothing.*)
Row == INSTANCE BenchRow WITH
  Function <- {"posix_fadvise", "mmap", "read", "decompress"},
  phase <- IF pc \in {"prepare", "fatal", "idle"} THEN "reported" ELSE "running",
  failed <- failed \ {"dd", "open"},
  msg <- RowMsg

ImplementsRow == Row!Spec
===============================================================================
