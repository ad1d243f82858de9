--------------------------- MODULE MultiEngineBench ---------------------------
(***************************************************************************)
(* The two multi-engine benchmarks (src/multi_engine/benchmark.h): one run *)
(* of the lambda, from the chunk plan to the counters.                   *)
(*                                                                       *)
(*   Compress    compress in the timed loop, then decompress to verify   *)
(*   DeCompress  compress once, then decompress in the timed loop        *)
(*                                                                       *)
(* Each call of multi_engine::compress or decompress is a ChunkBatch,    *)
(* which QplParallel implements.  A call that fails leaves its jobs with *)
(* the accelerator: here they become stray, and go on writing buffers that *)
(* the benchmark hands to its next call.  The compressor runs with       *)
(* QPL_FLAG_OMIT_VERIFY, so an image may be wrong without an error.      *)
(***************************************************************************)
EXTENDS Integers, FiniteSets

CONSTANTS
  mem_size, job_n,   \* the arguments of the benchmark
  Iterations,        \* iterations Google Benchmark asks of the timed loop
  Faulty             \* may calls fail and images be wrong?

\* The plan counts with `uint8_t i' up to `int job_n': it never ends from 256
\* jobs on, whatever job_n.  main asks for at most 26.
CountableJobs == 1 .. 255

Chunk == 0 .. job_n - 1

ASSUME BenchAssumption ==
  /\ mem_size \in Nat
  /\ job_n \in CountableJobs
  /\ Iterations \in Nat \ {0}
  /\ Faulty \in BOOLEAN

VARIABLES
  kind,      \* which of the two benchmarks
  pc,        \* "loop", the call in progress, "verify" or "finished"
  iter,      \* iterations left
  msg,       \* the message of the row: "none", the function that "failed to",
             \* or "mismatch"
  failed,    \* history: functions that returned -1
  phase, handed, done,   \* the call in progress (ChunkBatch)
  stray,     \* <<function, chunk>> still running for a call that failed
  trimmed,   \* chunks whose vector was resized to total_out
  packed,    \* chunks whose vector holds a valid image
  plain,     \* chunks whose part of decompressed_buff equals the source
  dsize,     \* decompression_size: "zero", "mem_size" or "other"
  ratio      \* what "Compression Ratio" was computed from

buffers == <<trimmed, packed, plain, dsize>>
row == <<msg, failed, ratio>>
vars == <<kind, pc, iter, phase, handed, done, stray, buffers, row>>

Call == INSTANCE ChunkBatch

-------------------------------------------------------------------------------
(* The plan: job_n chunks of the same size, the last one takes the rest. *)

ChunkSizeBug(m, n, c) == m \div n
ChunkSize(m, n, c) == m \div n + (IF c = n - 1 THEN m % n ELSE 0)

\* Where compress starts chunk c: the sizes of the chunks before it add up.
SrcOffst(m, n, c) == c * (m \div n)

-------------------------------------------------------------------------------

\* Google Benchmark ends the loop when it has run all iterations.
More == iter > 0

\* SkipWithMessage: the first message stays.
Skipped(old, new) == IF old = "none" THEN new ELSE old

\* The `if (compress(...)) state.SkipWithMessage(...)' around each call.
FlaggedBug(function) == IF function = "compress" THEN msg ELSE Skipped(msg, function)
Flagged(function) == Skipped(msg, function)

Timed == IF kind = "Compress" THEN "compress" ELSE "decompress"

InCall == pc \in {"compress", "decompress"}

Begin(function) ==
  /\ pc' = function
  /\ phase' = "running"
  /\ handed' = {}
  /\ done' = {}

Init ==
  /\ kind \in {"Compress", "DeCompress"}
  /\ pc = IF kind = "Compress" THEN "loop" ELSE "compress"
  /\ iter = Iterations
  /\ msg = "none"
  /\ failed = {}
  /\ Call!Init
  /\ stray = {}
  /\ trimmed = {}
  /\ packed = {}
  /\ plain = {}
  /\ dsize = "zero"
  /\ ratio = "zero"

\* The ratio divides mem_size by the sizes of all the vectors.
Ratio == ratio' = IF trimmed = Chunk THEN "images" ELSE "reserved"

-------------------------------------------------------------------------------
(* The timed loop: SkipWithMessage inside it does not end it.            *)

Iterate ==
  /\ pc = "loop"
  /\ More
  /\ iter' = iter - 1
  /\ Begin(Timed)
  /\ UNCHANGED <<kind, stray, buffers, row>>

LoopEnd ==
  /\ pc = "loop"
  /\ ~More
  /\ IF kind = "Compress"
       THEN Begin("decompress") /\ Ratio
       ELSE pc' = "verify" /\ UNCHANGED <<phase, handed, done, ratio>>
  /\ UNCHANGED <<kind, iter, stray, buffers, msg, failed>>

-------------------------------------------------------------------------------
(* A call, and what it does to the buffers.                              *)

Hand(c) ==
  /\ InCall
  /\ Call!Hand(c)
  /\ UNCHANGED <<kind, pc, iter, stray, buffers, row>>

Finish(c) ==
  /\ InCall
  /\ Call!Finish(c)
  /\ IF pc = "compress"
       THEN /\ packed' \in {packed \union {c}} \union
                           (IF Faulty THEN {packed \ {c}} ELSE {})
            /\ UNCHANGED plain
       ELSE /\ plain' \in IF c \in packed THEN {plain \union {c}}
                                          ELSE {plain, plain \ {c}}
            /\ UNCHANGED packed
  /\ UNCHANGED <<kind, pc, iter, stray, trimmed, dsize, row>>

Drop(c) ==
  /\ InCall
  /\ Faulty
  /\ Call!Drop(c)
  /\ UNCHANGED <<kind, pc, iter, stray, buffers, row>>

Succeed ==
  /\ InCall
  /\ Call!Succeed
  /\ IF pc = "compress"
       THEN trimmed' = Chunk /\ UNCHANGED dsize
       ELSE /\ dsize' \in {"mem_size"} \union
                 (IF packed = Chunk /\ failed = {} THEN {} ELSE {"other"})
            /\ UNCHANGED trimmed
  /\ UNCHANGED <<kind, pc, iter, stray, packed, plain, row>>

\* A failed compress has trimmed the vectors it reaped; a failed decompress
\* leaves decompression_size alone.
Fail ==
  /\ InCall
  /\ Faulty
  /\ Call!Fail
  /\ IF pc = "compress"
       THEN \E reaped \in SUBSET done : trimmed' = trimmed \union reaped
       ELSE UNCHANGED trimmed
  /\ UNCHANGED <<kind, pc, iter, stray, packed, plain, dsize, row>>

\* Back in the benchmark.  Google Benchmark runs no iteration of a row that
\* is skipped before its loop.
Return ==
  /\ InCall
  /\ phase \in {"ok", "failed"}
  /\ stray' = stray \union {<<pc, c>> : c \in handed}
  /\ handed' = {}
  /\ IF phase = "failed"
       THEN failed' = failed \union {pc} /\ msg' = Flagged(pc)
       ELSE UNCHANGED <<failed, msg>>
  /\ IF pc = Timed
       THEN pc' = "loop" /\ UNCHANGED <<iter, ratio>>
       ELSE IF pc = "compress"
              THEN pc' = "loop" /\ Ratio /\ iter' = IF msg' = "none" THEN iter ELSE 0
              ELSE pc' = "verify" /\ UNCHANGED <<iter, ratio>>
  /\ UNCHANGED <<kind, phase, done, buffers>>

\* A job nobody waits for ends.  Its job object is freed memory, so what it
\* leaves in its buffer, if it writes it at all, is not known.
StrayEnds(function, c) ==
  /\ <<function, c>> \in stray
  /\ stray' = stray \ {<<function, c>>}
  /\ IF function = "compress"
       THEN packed' \in {packed, packed \ {c}, packed \union {c}} /\ UNCHANGED plain
       ELSE plain' \in {plain, plain \ {c}, plain \union {c}} /\ UNCHANGED packed
  /\ UNCHANGED <<kind, pc, iter, phase, handed, done, trimmed, dsize, row>>

\* decompression_size != mem_size || memcmp(...) != 0
MismatchBug == dsize # "mem_size"
Mismatch == dsize # "mem_size" \/ plain # Chunk

Verify ==
  /\ pc = "verify"
  /\ pc' = "finished"
  /\ msg' = IF Mismatch THEN Skipped(msg, "mismatch") ELSE msg
  /\ UNCHANGED <<kind, iter, phase, handed, done, stray, buffers, failed, ratio>>

Next ==
  \/ Iterate \/ LoopEnd
  \/ \E c \in Chunk : Hand(c) \/ Finish(c) \/ Drop(c)
  \/ Succeed \/ Fail \/ Return
  \/ \E function \in {"compress", "decompress"}, c \in Chunk : StrayEnds(function, c)
  \/ Verify

Spec == Init /\ [][Next]_vars

-------------------------------------------------------------------------------
(* Properties *)

TypeOK ==
  /\ kind \in {"Compress", "DeCompress"}
  /\ pc \in {"loop", "compress", "decompress", "verify", "finished"}
  /\ iter \in 0 .. Iterations
  /\ msg \in {"none", "compress", "decompress", "mismatch"}
  /\ failed \subseteq {"compress", "decompress"}
  /\ Call!TypeOK
  /\ stray \subseteq {"compress", "decompress"} \X Chunk
  /\ trimmed \subseteq Chunk /\ packed \subseteq Chunk /\ plain \subseteq Chunk
  /\ dsize \in {"zero", "mem_size", "other"}
  /\ ratio \in {"zero", "images", "reserved"}

(* A row without a message can be believed: every call of every iteration  *)
(* returned 0, no job outlives the buffers the lambda is about to free,  *)
(* the source was reproduced, and the ratio was computed from images     *)
(* rather than from reserved space.                                      *)
UnflaggedIsSound ==
  pc = "finished" /\ msg = "none" =>
    /\ failed = {}
    /\ stray = {}
    /\ plain = Chunk /\ dsize = "mem_size"
    /\ ratio = "images"

(* The message of a row names the first thing that went wrong.  A mismatch *)
(* is blamed only on data: all calls returned 0, and a silent error of the *)
(* compressor left a bad image.  A failure to decompress is not reported *)
(* when a compress had failed before it.                                 *)
BlameIsRight ==
  /\ msg = "mismatch" => failed = {} /\ packed # Chunk
  /\ msg = "decompress" => "compress" \notin failed
  /\ msg = "compress" => "compress" \in failed

(* Buffers that an abandoned job may still write are handed out again only *)
(* in a row that is already marked as skipped.                           *)
SharedBufferIsFlagged ==
  (\E function \in {"compress", "decompress"}, c \in handed :
     <<function, c>> \in stray) => msg # "none"

\* Every byte of a source of m bytes is in exactly one of the given chunks.
TiledBy(chunks, m, n) ==
  \A b \in 0 .. m - 1 :
    \E c \in chunks :
      /\ SrcOffst(m, n, c) <= b /\ b < SrcOffst(m, n, c) + ChunkSize(m, n, c)
      /\ \A d \in chunks :
           SrcOffst(m, n, d) <= b /\ b < SrcOffst(m, n, d) + ChunkSize(m, n, d) => d = c

(* When a call returns 0 the engines have processed every byte of the    *)
(* source, and none twice: the chunks of the plan tile it, the remainder *)
(* of mem_size / job_n included, and all of them are done.               *)
EveryByteOnce == phase = "ok" => TiledBy(done, mem_size, job_n)

-------------------------------------------------------------------------------
(* The benchmark keeps the promise of BenchRow: whatever its calls and the  *)
(* jobs they abandon do, the first failure is blamed, at once and for good. *)
Row == INSTANCE BenchRow WITH
  Function <- {"compress", "decompress"},
  phase <- IF pc = "finished" THEN "reported" ELSE "running"

ImplementsRow == Row!Spec
===============================================================================
