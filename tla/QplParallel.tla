----------------------------- MODULE QplParallel ------------------------------
(***************************************************************************)
(* One call of multi_engine::compress or multi_engine::decompress          *)
(* (src/multi_engine/qpl_parallel.h) running against the accelerator.      *)
(*                                                                         *)
(* The CPU thread initialises one QPL job per chunk, submits the jobs one  *)
(* after the other, then polls them round robin until all are reaped.      *)
(* Meanwhile the accelerator takes submitted jobs from its work queues,    *)
(* runs them on its engines and completes them in any order.  Every QPL    *)
(* call may report an error when faulty is TRUE; the code then returns -1  *)
(* from where it stands, and jobs it has already submitted keep running.   *)
(*                                                                         *)
(* Bytes are abstracted to lengths and to whether a buffer holds the right *)
(* contents.  The QPL library and the hardware are external: they are      *)
(* modelled from the way this file uses them.                              *)
(***************************************************************************)
EXTENDS Integers, FiniteSets

CONSTANTS
  ThreadCount,   \* thread_count: the number of chunks in compressed_buff
  ByteMod,       \* where uint8_t wraps (256 in the program)
  ChunkSize,     \* the second component of each element of compressed_buff
  CompLen,       \* bytes the compressor produces for each chunk
  WQSize,        \* descriptors the work queues hold before they refuse more
  Engines        \* engines that run jobs at the same time

Chunk == 0 .. ThreadCount - 1

\* init_qpl takes the number of jobs as a uint8_t.
JobCount == ThreadCount % ByteMod

\* BM_MultipleEngine_* reserve twice the chunk "to allow increase in
\* compressed data" (multi_engine/benchmark.h); incompressible data grows by
\* less than that.
ASSUME ConstantsAssumption ==
  /\ ThreadCount \in Nat \ {0}
  /\ ByteMod \in Nat \ {0}
  /\ ChunkSize \in [Chunk -> Nat]
  /\ CompLen \in [Chunk -> Nat]
  /\ \A c \in Chunk : CompLen[c] <= 2 * ChunkSize[c]
  /\ WQSize \in Nat
  /\ Engines \in Nat \ {0}

VARIABLES
  pc,        \* where the CPU thread is; "ok" is return 0, "failed" return -1
  op,        \* which of the two functions was called
  mode,      \* CompressionMode
  faulty,    \* may QPL calls and jobs fail for reasons of their own?
  live,      \* jobs initialised by qpl_init_job and not yet finalised
  table,     \* huffman_table of the canned mode
  k,         \* cursor of the loop the thread is in
  offst,     \* src_offst, dst_offst
  from,      \* offset in the contiguous buffer given to each submitted job
  cmpl,      \* cmpl[i] = 1
  size,      \* size() of each vector of compressed_buff
  total,     \* decompress_size
  actual,    \* *dst_actual_size, 0 when the caller passes it in
  faults,    \* history: QPL calls that reported an error in this call
  dev,       \* what the accelerator does with each job
  out,       \* total_out of each job
  packed,    \* chunks whose vector holds the compressed image of the chunk
  plain      \* chunks whose destination region holds the original bytes

thread == <<pc, live, table, k, offst, from, cmpl, size, total, actual, faults>>
device == <<dev, out, packed, plain>>
call == <<op, mode, faulty>>
vars == <<thread, device, call>>

-------------------------------------------------------------------------------
(* Helpers *)

Outcome == IF faulty THEN BOOLEAN ELSE {TRUE}

Queued  == {c \in Chunk : dev[c] = "queued"}
Running == {c \in Chunk : dev[c] = "running"}
InFlight == Queued \union Running

\* The library call `name' returned QPL_STS_OK iff good.
Reported(name, good) ==
  faults' = IF good THEN faults ELSE faults \union {name}

\* A "Bug" suffix names a plausible wrong version of the definition after it;
\* PROJECT.json lists the property that finds each one.

\* `if (status != QPL_STS_OK) return -1;' and otherwise on to `next'.
CheckedBug(good, next) == next
Checked(good, next) == IF good THEN next ELSE "failed"

\* The status qpl_check_job reports: QPL_STS_BEING_PROCESSED, QPL_STS_OK, or
\* (neither) an error.
BeingProcessedBug(c) == dev[c] = "running"
BeingProcessed(c) == dev[c] \in {"queued", "running"}
SucceededBug(c) == dev[c] # "bad"
Succeeded(c) == dev[c] = "ok"

\* std::reduce over a vector<uint8_t> adds up in a uint8_t.
AllReapedBug == cmpl # {}
AllReapedNarrowBug == Cardinality(cmpl) % (ByteMod - 1) = ThreadCount
AllReaped == Cardinality(cmpl) % ByteMod = ThreadCount

\* The `if (cmpl[i] == 0)' of the poll loops.
ReapedBug(c) == FALSE
Reaped(c) == c \in cmpl

\* src_offst += in_chunk_size, dst_offst += decompress_chunk_size.
NextOffstBug(c) == offst
NextOffst(c) == offst + ChunkSize[c]

\* The init loop: i < threads.
MoreToInit == live < JobCount

NeedsTable == op = "compress" /\ mode = "kParallelCanned"

\* compress frees its jobs, decompress returns without.
AfterWait == IF op = "compress" THEN "fini" ELSE "ok"

\* qpl_huffman_table_destroy on the error paths of create_static_huffman_tables.
DestroyedBug == table
Destroyed == "none"

-------------------------------------------------------------------------------
(* A call begins with buffers in any state an earlier call can leave: each *)
(* vector has its reserved or its final size, and may or may not hold a    *)
(* compressed image (an earlier compress may have failed half way).        *)

Init ==
  /\ pc = "job_size"
  /\ op \in {"compress", "decompress"}
  /\ mode \in {"kParallelFixed", "kParallelDynamic", "kParallelCanned"}
  /\ op = "decompress" => mode = "kParallelFixed"   \* decompress has no mode
  /\ faulty \in BOOLEAN
  /\ live = 0
  /\ table = "none"
  /\ k = 0
  /\ offst = 0
  /\ from = [c \in Chunk |-> 0]
  /\ cmpl = {}
  /\ \E reserved \in SUBSET Chunk :
       size = [c \in Chunk |-> IF c \in reserved THEN 2 * ChunkSize[c]
                                                 ELSE CompLen[c]]
  /\ total = 0
  /\ actual = 0
  /\ faults = {}
  /\ dev = [c \in Chunk |-> "idle"]
  /\ out = [c \in Chunk |-> 0]
  /\ packed \in SUBSET Chunk
  /\ plain = {}

-------------------------------------------------------------------------------
(* init_qpl *)

GetJobSize ==
  /\ pc = "job_size"
  /\ \E good \in Outcome :
       /\ Reported("qpl_get_job_size", good)
       /\ pc' = Checked(good, "init")
  /\ UNCHANGED <<live, table, k, offst, from, cmpl, size, total, actual,
                 device, call>>

InitJob ==
  /\ pc = "init"
  /\ MoreToInit
  /\ \E good \in Outcome :
       /\ Reported("qpl_init_job", good)
       /\ pc' = Checked(good, "init")
       /\ live' = IF good THEN live + 1 ELSE live
  /\ UNCHANGED <<table, k, offst, from, cmpl, size, total, actual,
                 device, call>>

\* job_buffers.empty() when the truncated job count is zero.
InitDone ==
  /\ pc = "init"
  /\ live = JobCount
  /\ pc' = IF JobCount = 0 THEN "failed"
           ELSE IF NeedsTable THEN "table" ELSE "submit"
  /\ UNCHANGED <<live, table, k, offst, from, cmpl, size, total, actual, faults,
                 device, call>>

-------------------------------------------------------------------------------
(* create_static_huffman_tables *)

CreateTable ==
  /\ pc = "table"
  /\ table = "none"
  /\ \E good \in Outcome :
       /\ Reported("qpl_deflate_huffman_table_create", good)
       /\ pc' = Checked(good, "table")
       /\ table' = IF good THEN "created" ELSE table
  /\ UNCHANGED <<live, k, offst, from, cmpl, size, total, actual,
                 device, call>>

GatherStatistics ==
  /\ pc = "table"
  /\ table = "created"
  /\ \E good \in Outcome :
       /\ Reported("qpl_gather_deflate_statistics", good)
       /\ pc' = Checked(good, "table")
       /\ table' = IF good THEN "gathered" ELSE Destroyed
  /\ UNCHANGED <<live, k, offst, from, cmpl, size, total, actual,
                 device, call>>

PopulateTable ==
  /\ pc = "table"
  /\ table = "gathered"
  /\ \E good \in Outcome :
       /\ Reported("qpl_huffman_table_init_with_histogram", good)
       /\ pc' = Checked(good, "submit")
       /\ table' = IF good THEN "ready" ELSE Destroyed
  /\ UNCHANGED <<live, k, offst, from, cmpl, size, total, actual,
                 device, call>>

-------------------------------------------------------------------------------
(* The submit loop *)

SubmitJob ==
  /\ pc = "submit"
  /\ k < JobCount
  /\ Cardinality(Queued) < WQSize
  /\ dev' = [dev EXCEPT ![k] = "queued"]
  /\ from' = [from EXCEPT ![k] = offst]
  /\ offst' = NextOffst(k)
  /\ k' = k + 1
  /\ UNCHANGED <<pc, live, table, cmpl, size, total, actual, faults,
                 out, packed, plain, call>>

\* qpl_submit_job fails: the queues are full, or for a reason of its own.
SubmitRefused ==
  /\ pc = "submit"
  /\ k < JobCount
  /\ faulty \/ Cardinality(Queued) >= WQSize
  /\ Reported("qpl_submit_job", FALSE)
  /\ pc' = Checked(FALSE, "submit")
  /\ UNCHANGED <<live, table, k, offst, from, cmpl, size, total, actual,
                 device, call>>

SubmitDone ==
  /\ pc = "submit"
  /\ k = JobCount
  /\ pc' = "wait"
  /\ UNCHANGED <<live, table, k, offst, from, cmpl, size, total, actual, faults,
                 device, call>>

-------------------------------------------------------------------------------
(* The wait loop: "wait" is the test of the while, "poll" the for inside. *)

WaitAgain ==
  /\ pc = "wait"
  /\ ~AllReaped
  /\ pc' = "poll"
  /\ k' = 0
  /\ UNCHANGED <<live, table, offst, from, cmpl, size, total, actual, faults,
                 device, call>>

WaitDone ==
  /\ pc = "wait"
  /\ AllReaped
  /\ pc' = AfterWait
  /\ k' = 0
  /\ actual' = IF op = "decompress" THEN total ELSE actual
  /\ UNCHANGED <<live, table, offst, from, cmpl, size, total, faults,
                 device, call>>

PollSkip ==
  /\ pc = "poll"
  /\ k < JobCount
  /\ Reaped(k) \/ BeingProcessed(k)
  /\ k' = k + 1
  /\ UNCHANGED <<pc, live, table, offst, from, cmpl, size, total, actual, faults,
                 device, call>>

PollFailed ==
  /\ pc = "poll"
  /\ k < JobCount
  /\ ~Reaped(k) /\ ~BeingProcessed(k) /\ ~Succeeded(k)
  /\ Reported("qpl_check_job", dev[k] # "bad")
  /\ pc' = Checked(FALSE, "poll")
  /\ UNCHANGED <<live, table, k, offst, from, cmpl, size, total, actual,
                 device, call>>

PollReap ==
  /\ pc = "poll"
  /\ k < JobCount
  /\ ~Reaped(k) /\ Succeeded(k)
  /\ cmpl' = cmpl \union {k}
  /\ size' = IF op = "compress" THEN [size EXCEPT ![k] = out[k]] ELSE size
  /\ total' = IF op = "decompress" THEN total + out[k] ELSE total
  /\ k' = k + 1
  /\ UNCHANGED <<pc, live, table, offst, from, actual, faults, device, call>>

PollEnd ==
  /\ pc = "poll"
  /\ k = JobCount
  /\ pc' = "wait"
  /\ UNCHANGED <<live, table, k, offst, from, cmpl, size, total, actual, faults,
                 device, call>>

-------------------------------------------------------------------------------
(* free_qpl: the first job that cannot be finalised ends the loop. *)

FiniJob ==
  /\ pc = "fini"
  /\ k < JobCount
  /\ \E good \in Outcome :
       /\ Reported("qpl_fini_job", good)
       /\ pc' = Checked(good, "fini")
       /\ live' = IF good THEN live - 1 ELSE live
       /\ k' = IF good THEN k + 1 ELSE k
  /\ UNCHANGED <<table, offst, from, cmpl, size, total, actual,
                 device, call>>

FiniDone ==
  /\ pc = "fini"
  /\ k = JobCount
  /\ pc' = "ok"
  /\ UNCHANGED <<live, table, k, offst, from, cmpl, size, total, actual, faults,
                 device, call>>

-------------------------------------------------------------------------------
(* The accelerator.  It is not told when the thread gives up: jobs in      *)
(* flight when the call returns -1 go on to completion.                    *)

Dispatch(c) ==
  /\ dev[c] = "queued"
  /\ Cardinality(Running) < Engines
  /\ dev' = [dev EXCEPT ![c] = "running"]
  /\ packed' = IF op = "compress" THEN packed \ {c} ELSE packed
  /\ UNCHANGED <<thread, out, plain, call>>

\* The output fits, so the image is written and its length is total_out.
FinishCompress(c) ==
  /\ op = "compress"
  /\ dev[c] = "running"
  /\ CompLen[c] <= size[c]
  /\ dev' = [dev EXCEPT ![c] = "ok"]
  /\ out' = [out EXCEPT ![c] = CompLen[c]]
  /\ packed' = packed \union {c}
  /\ UNCHANGED <<thread, plain, call>>

\* A valid image yields the chunk; anything else may inflate to something.
FinishDecompress(c) ==
  /\ op = "decompress"
  /\ dev[c] = "running"
  /\ dev' = [dev EXCEPT ![c] = "ok"]
  /\ IF c \in packed
       THEN /\ out' = [out EXCEPT ![c] = ChunkSize[c]]
            /\ plain' = plain \union {c}
       ELSE /\ \E n \in 0 .. ChunkSize[c] : out' = [out EXCEPT ![c] = n]
            /\ UNCHANGED plain
  /\ UNCHANGED <<thread, packed, call>>

Abort(c) ==
  /\ dev[c] = "running"
  /\ \/ faulty
     \/ op = "compress" /\ CompLen[c] > size[c]
     \/ op = "decompress" /\ c \notin packed
  /\ dev' = [dev EXCEPT ![c] = "bad"]
  /\ UNCHANGED <<thread, out, packed, plain, call>>

Complete(c) == FinishCompress(c) \/ FinishDecompress(c) \/ Abort(c)

-------------------------------------------------------------------------------

Init_qpl == GetJobSize \/ InitJob \/ InitDone
HuffmanTables == CreateTable \/ GatherStatistics \/ PopulateTable
Submit == SubmitJob \/ SubmitRefused \/ SubmitDone
Wait == WaitAgain \/ WaitDone \/ PollSkip \/ PollFailed \/ PollReap \/ PollEnd
Free_qpl == FiniJob \/ FiniDone

Thread == Init_qpl \/ HuffmanTables \/ Submit \/ Wait \/ Free_qpl
Accelerator == \E c \in Chunk : Dispatch(c) \/ Complete(c)

Next == Thread \/ Accelerator

Spec == Init /\ [][Next]_vars

(* The thread runs, the accelerator takes what is queued and completes     *)
(* what it has begun.                                                      *)
Fairness ==
  /\ WF_vars(Thread)
  /\ \A c \in Chunk : WF_vars(Dispatch(c)) /\ WF_vars(Complete(c))

FairSpec == Spec /\ Fairness

-------------------------------------------------------------------------------
(* Properties *)

Call == {"qpl_get_job_size", "qpl_init_job", "qpl_deflate_huffman_table_create",
         "qpl_gather_deflate_statistics", "qpl_huffman_table_init_with_histogram",
         "qpl_submit_job", "qpl_check_job", "qpl_fini_job"}

TableCall == {"qpl_deflate_huffman_table_create", "qpl_gather_deflate_statistics",
              "qpl_huffman_table_init_with_histogram"}

TypeOK ==
  /\ pc \in {"job_size", "init", "table", "submit", "wait", "poll", "fini",
             "ok", "failed"}
  /\ op \in {"compress", "decompress"}
  /\ mode \in {"kParallelFixed", "kParallelDynamic", "kParallelCanned"}
  /\ faulty \in BOOLEAN
  /\ live \in 0 .. JobCount
  /\ table \in {"none", "created", "gathered", "ready"}
  /\ k \in 0 .. JobCount
  /\ offst \in Nat
  /\ from \in [Chunk -> Nat]
  /\ cmpl \in SUBSET Chunk
  /\ size \in [Chunk -> Nat]
  /\ total \in Nat
  /\ actual \in Nat
  /\ faults \in SUBSET Call
  /\ dev \in [Chunk -> {"idle", "queued", "running", "ok", "bad"}]
  /\ out \in [Chunk -> Nat]
  /\ packed \in SUBSET Chunk
  /\ plain \in SUBSET Chunk

(* A call that returns 0 has waited for every job: whatever the order in   *)
(* which the engines completed them, none is in flight any more when the   *)
(* job buffers are destroyed on return, each vector of a compress holds    *)
(* its image and is trimmed to it, and each region of a decompress holds   *)
(* the original bytes if its vector held an image.  It rests on the loop   *)
(* `while (std::reduce(...) != thread_count)', whose sum is a uint8_t.  A  *)
(* compress has finalised its jobs as well; decompress has no free_qpl.    *)
SuccessIsComplete ==
  pc = "ok" =>
    /\ op = "compress" => live = 0
    /\ \A c \in Chunk :
         /\ dev[c] = "ok"
         /\ op = "compress" => c \in packed /\ size[c] = CompLen[c]
         /\ op = "decompress" /\ c \in packed => c \in plain

\* The bytes of a set of chunks; those of all are mem_size of the benchmarks.
Bytes(S) == UNION {{c} \X (1 .. ChunkSize[c]) : c \in S}
MemSize == Cardinality(Bytes(Chunk))

(* The regions of the contiguous buffer given to two submitted jobs never  *)
(* overlap and never leave the buffer, so the engines of a decompress do   *)
(* not write each other's bytes or what is behind (dst_offst advances by   *)
(* the chunk just submitted).                                              *)
NoOverlap ==
  \A i \in Chunk : dev[i] # "idle" =>
    /\ from[i] + ChunkSize[i] <= MemSize
    /\ \A j \in Chunk : i # j /\ dev[j] # "idle" =>
         \/ from[i] + ChunkSize[i] <= from[j]
         \/ from[j] + ChunkSize[j] <= from[i]

(* The status a caller sees agrees with the library: no error any QPL call *)
(* reports is swallowed on the way to `return 0', and -1 is returned for   *)
(* no other reason than an error.                                          *)
StatusIsFaithful ==
  /\ pc = "ok" => faults = {}
  /\ pc = "failed" => faults # {}

(* Each error path of create_static_huffman_tables destroys the table it   *)
(* had created, and no canned job reaches the accelerator before its table *)
(* is populated.                                                           *)
TableHygiene ==
  /\ pc = "failed" /\ faults \intersect TableCall # {} => table = "none"
  /\ NeedsTable /\ (\E c \in Chunk : dev[c] # "idle") => table = "ready"

(* compress shrinks each vector to total_out, and the next iteration of    *)
(* the benchmark offers that shrunken vector as the output space.  It is   *)
(* never too small for the image of its chunk, however the call ends.      *)
ReserveSuffices ==
  \A c \in Chunk : CompLen[c] <= size[c]

(* While the accelerator holds a job, the thread does not resize its       *)
(* vector or move its region.                                              *)
BuffersStable ==
  [][\A c \in InFlight : size'[c] = size[c] /\ from'[c] = from[c]]_vars

(* A busy-polling call returns whatever the engines do, as long as every   *)
(* job is eventually completed, well or badly.                             *)
Terminates == <>(pc \in {"ok", "failed"})

(* decompress adds total_out of each job exactly once: with all vectors    *)
(* valid, a call that returns 0 reports the size of the whole source, the  *)
(* number the benchmark compares with mem_size; a call that returns -1     *)
(* leaves the caller's variable as it was.                                 *)
DecompressedSize ==
  op = "decompress" =>
    /\ pc = "ok" /\ packed = Chunk => actual = MemSize
    /\ pc = "failed" => actual = 0

(* With no fault of the library or the hardware, a call on valid inputs    *)
(* fails for one reason only: the queues refused a job, and no job before  *)
(* the WQSize-th is refused, however slowly the engines empty them.        *)
FailsOnlyWhenFull ==
  ~faulty /\ pc = "failed" =>
    \/ faults = {"qpl_submit_job"} /\ k >= WQSize
    \/ op = "decompress" /\ packed # Chunk

-------------------------------------------------------------------------------
(* The call implements the promise of ChunkBatch.                          *)
Batch == INSTANCE ChunkBatch WITH
  phase <- IF pc \in {"ok", "failed"} THEN pc ELSE "running",
  handed <- InFlight,
  done <- {c \in Chunk : dev[c] = "ok"}

ImplementsBatch == Batch!Spec
===============================================================================
