------------------------------ MODULE CannedBench -----------------------------
(***************************************************************************)
(* The canned benchmarks (src/single_engine/benchmark.h): one run of       *)
(* BM_SingleEngineBlocking_CompressCanned or _DeCompressCanned.  Each call *)
(* of single_engine_canned::compress is a run of CannedChunks, each call   *)
(* of single_engine_canned::decompress one action.                         *)
(*                                                                         *)
(* The calls of a row share the table, which nothing sets unless the mode  *)
(* is kCanned and which decompress is given all the same, and              *)
(* compressed_size, the space offered and the length returned.             *)
(***************************************************************************)
EXTENDS CannedChunks

CONSTANT Iterations   \* iterations Google Benchmark asks of the timed loop

ASSUME CannedBenchAssumption == Iterations \in Nat \ {0}

VARIABLES
  kind,             \* "Compress" or "DeCompress"
  place,            \* "loop", the call in progress, "verify" or "finished"
  iter,             \* iterations left
  msg,              \* "none", the function that "failed to", or "mismatch"
  failed,           \* history: functions that returned -1
  compressed_size,  \* "reserved", "image", or "nothing" when it is 0
  image,            \* compressed_buff: "none", "good" or "bad"
  output,           \* "source" when decompression_size and decompressed_buff match it
  misused,          \* history: decompress was given a table that is not ready
  ratio             \* compressed_size behind "Compression Ratio"

lambda == <<kind, place, iter, msg, failed, ratio>>
buffers == <<compressed_size, image, output, misused>>
rowVars == <<vars, lambda, buffers>>

Timed == IF kind = "Compress" THEN "compress" ELSE "decompress"

\* Google Benchmark ends the loop when it has run all iterations.
More == iter > 0

\* SkipWithMessage around a call: the first message stays.
Skipped(old, new) == IF old = "none" THEN new ELSE old
FlaggedBug(function) == IF function = "compress" THEN msg ELSE Skipped(msg, function)
Flagged(function) == Skipped(msg, function)

\* *dst_size = job->total_out
WrittenSize == IF runs = 0 THEN "nothing" ELSE "image"

RowInit ==
  /\ Init
  /\ table = "garbage"
  /\ kind \in {"Compress", "DeCompress"}
  /\ place = IF kind = "Compress" THEN "loop" ELSE "compress"
  /\ iter = Iterations
  /\ msg = "none" /\ failed = {}
  /\ compressed_size = "reserved" /\ image = "none"
  /\ output = IF src_size = 0 THEN "source" ELSE "other"
  /\ misused = "no"
  /\ ratio = "zero"

-------------------------------------------------------------------------------
(* The calls *)

\* A compress begins, on the table the one before it left.
StartCompress ==
  /\ pc' = "init" /\ job' = "none"
  /\ chunk_size' = ChunkArg /\ src_bytes_left' = src_size /\ it_cnt' = 0
  /\ flags' = {"FIRST"}
  /\ piece' = <<0, 0>> /\ runs' = 0 /\ closed' = FALSE
  /\ UNCHANGED <<mode, src_size, table>>

\* The stream in compressed_buff after an execution; verification is omitted.
Stream ==
  IF pc' = "failed" THEN {image, "bad"}
  ELSE IF closed' /\ piece'[2] = src_size
    THEN {"good"} \union (IF Faulty THEN {"bad"} ELSE {})
    ELSE {"bad"}

\* Twice an empty source is no room for any stream.
CompressStep ==
  /\ place = "compress"
  /\ Next
  /\ runs' # runs /\ src_size = 0 => pc' = "failed"
  /\ image' \in IF runs' = runs THEN {image} ELSE Stream
  /\ compressed_size' = IF pc = "fini" THEN WrittenSize ELSE compressed_size
  /\ UNCHANGED <<lambda, output, misused>>

\* What a decompress makes of compressed_buff.  An image can be read; what a
\* table that was never set or has been destroyed does to it is undefined.
Decoded ==
  IF src_size = 0 THEN {"source"}
  ELSE IF image # "good" \/ compressed_size # "image" THEN {"other"}
  ELSE IF table = "ready" THEN {"source"} ELSE {"source", "other"}

\* It may fail before decompression_size is written, or in free_qpl after it.
Decompress ==
  /\ place = "decompress"
  /\ misused' = IF table = "ready" THEN misused ELSE "yes"
  /\ \/ output' \in Decoded /\ UNCHANGED <<failed, msg>>
     \/ /\ Faulty \/ image # "good" \/ table # "ready"
        /\ output' \in {output, "other"} \union Decoded
        /\ failed' = failed \union {"decompress"}
        /\ msg' = Flagged("decompress")
  /\ place' = IF kind = "Compress" THEN "verify" ELSE "loop"
  /\ UNCHANGED <<vars, kind, iter, ratio, compressed_size, image>>

-------------------------------------------------------------------------------
(* The lambda *)

Iterate ==
  /\ place = "loop"
  /\ More
  /\ iter' = iter - 1
  /\ place' = Timed
  /\ IF kind = "Compress" THEN StartCompress ELSE UNCHANGED vars
  /\ UNCHANGED <<kind, msg, failed, ratio, buffers>>

\* Compress has its counter and its verification after the loop.
LoopEnd ==
  /\ place = "loop"
  /\ ~More
  /\ IF kind = "Compress"
       THEN place' = "decompress" /\ ratio' = compressed_size
       ELSE place' = "verify" /\ UNCHANGED ratio
  /\ UNCHANGED <<vars, kind, iter, msg, failed, buffers>>

\* Google Benchmark runs no iteration of a row skipped before its loop.
Return ==
  /\ place = "compress"
  /\ pc \in {"ok", "failed"}
  /\ IF pc = "failed"
       THEN failed' = failed \union {"compress"} /\ msg' = Flagged("compress")
       ELSE UNCHANGED <<failed, msg>>
  /\ place' = "loop"
  /\ IF kind = "DeCompress"
       THEN ratio' = compressed_size /\ iter' = IF msg' = "none" THEN iter ELSE 0
       ELSE UNCHANGED <<ratio, iter>>
  /\ UNCHANGED <<vars, kind, buffers>>

\* decompression_size != source_size || memcmp(...) != 0
MismatchBug == FALSE
Mismatch == output # "source"

Verify ==
  /\ place = "verify"
  /\ place' = "finished"
  /\ msg' = IF Mismatch THEN Skipped(msg, "mismatch") ELSE msg
  /\ UNCHANGED <<vars, kind, iter, failed, ratio, buffers>>

RowNext ==
  CompressStep \/ Decompress \/ Iterate \/ LoopEnd \/ Return \/ Verify

RowSpec == RowInit /\ [][RowNext]_rowVars

\* One thread that never blocks: the calls are synchronous.
FairRowSpec == RowSpec /\ WF_rowVars(RowNext)

-------------------------------------------------------------------------------
(* Properties *)

RowTypeOK ==
  /\ TypeOK
  /\ kind \in {"Compress", "DeCompress"}
  /\ place \in {"loop", "compress", "decompress", "verify", "finished"}
  /\ iter \in 0 .. Iterations
  /\ msg \in {"none", "compress", "decompress", "mismatch"}
  /\ failed \subseteq {"compress", "decompress"}
  /\ compressed_size \in {"reserved", "image", "nothing"}
  /\ image \in {"none", "good", "bad"}
  /\ output \in {"source", "other"}
  /\ misused \in {"no", "yes"}
  /\ ratio \in {"zero", "reserved", "image", "nothing"}

(* A row without a message can be believed: every call returned 0, the     *)
(* stream of a source that is not empty was complete and was read back to  *)
(* the source, and the ratio is that of the stream.  An empty source goes  *)
(* through the chunked modes without an execution and without an error;    *)
(* its row, and no other, can be told by a ratio of nothing.               *)
UnflaggedIsSound ==
  place = "finished" /\ msg = "none" =>
    /\ failed = {} /\ output = "source"
    /\ src_size > 0 => image = "good"
    /\ ratio = IF src_size > 0 THEN "image" ELSE "nothing"

(* huffman_tables is never initialised by the lambdas.  In the mode that   *)
(* needs it, a decompress given a table that was not created, or that a    *)
(* failed compress has destroyed, is in a row that is already marked.      *)
BadTableIsFlagged == mode = "kCanned" /\ misused = "yes" => msg # "none"

(* The message of a row names the first thing that went wrong; a mismatch  *)
(* is blamed only on a silently bad image or on a table that was not set.  *)
BlameIsRight ==
  /\ msg = "mismatch" => failed = {} /\ (image = "bad" \/ mode # "kCanned")
  /\ msg = "decompress" => "compress" \notin failed
  /\ msg = "compress" => "compress" \in failed

(* The row ends: the chunk loop reaches the end of every source.           *)
RowEnds == <>(place = "finished")

-------------------------------------------------------------------------------
(* The row keeps the promise of BenchRow, although what decompress makes   *)
(* of a table that was never set is undefined.                             *)
Row == INSTANCE BenchRow WITH
  Function <- {"compress", "decompress"},
  phase <- IF place = "finished" THEN "reported" ELSE "running"

ImplementsRow == Row!Spec
===============================================================================
