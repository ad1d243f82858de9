--------------------------- MODULE SingleEngineBench --------------------------
(***************************************************************************)
(* The single-engine benchmarks (src/single_engine/benchmark.h): one run *)
(* of BM_SingleEngineBlocking_Compress or _DeCompress, with every library  *)
(* call that single_engine::compress and decompress make                 *)
(* (src/single_engine/qpl_compress_decompress.h).                        *)
(*                                                                       *)
(* The calls of one run share variables of the lambda: compressed_size,  *)
(* which is the space offered to a compress and the length it returns,   *)
(* the Huffman table and last_bit_offset.  kModeStatic is left out: it   *)
(* needs a table from the caller, and main never passes one.             *)
(***************************************************************************)
EXTENDS Integers

CONSTANTS
  source_size,    \* bytes of the source
  CompLen,        \* bytes of its image when the compressor works
  Iterations,     \* iterations Google Benchmark asks of the timed loop
  Faulty          \* may library calls fail and images be wrong?

\* "allocate initial space to fit even when compression increases data"
Reserved == 2 * source_size

ASSUME SingleAssumption ==
  /\ source_size \in Nat \ {0}
  /\ CompLen \in Nat \ {0}
  /\ Iterations \in Nat \ {0}
  /\ Faulty \in BOOLEAN

VARIABLES
  kind,             \* "Compress" or "DeCompress"
  mode,             \* CompressionMode
  pc,               \* "loop", the call in progress, "verify" or "finished"
  step,             \* of the call: "init", "table", "execute", "fini", "ok", "failed"
  iter,             \* iterations left
  msg,              \* "none", the function that "failed to", or "mismatch"
  failed,           \* history: functions that returned -1
  compressed_size,
  c_table,          \* huffman_table of the lambda: "null" or "created"
  last_bit_offset,  \* "garbage" until a compress sets it
  image,            \* compressed_buff: "none", "good" or "bad"
  output,           \* decompressed_buff: "source" when it equals it, or "other"
  dsize,            \* decompression_size
  silent,           \* history: an image came out wrong with QPL_STS_OK
  lost,             \* jobs initialised and never finalised
  unset,            \* history: variables a decompress read before they were set
  ratio             \* compressed_size behind "Compression Ratio"

buffers == <<compressed_size, image, silent, output, dsize>>
huffman == <<c_table, last_bit_offset, unset>>
row == <<kind, mode, iter, msg, failed, ratio>>
vars == <<row, pc, step, buffers, huffman, lost>>

Function == {"compress", "decompress"}
Outcome == IF Faulty THEN BOOLEAN ELSE {TRUE}
InCall == pc \in Function
Timed == IF kind = "Compress" THEN "compress" ELSE "decompress"

-------------------------------------------------------------------------------

\* compress writes *dst_size = job->total_out only below its test of the status.
SizeAfterFailureBug(total_out) == total_out
SizeAfterFailure(total_out) == compressed_size

\* SkipWithMessage: the first message stays.
Skipped(old, new) == IF old = "none" THEN new ELSE old

\* SkipWithMessage("Failed to compress.") or ("Failed to decompress.").
FlaggedBug(function) == IF function = "compress" THEN msg ELSE Skipped(msg, function)
Flagged(function) == Skipped(msg, function)

\* free_qpl, whose failure is a failure of the call.
AfterFiniBug(good) == "ok"
AfterFini(good) == IF good THEN "ok" ELSE "failed"

\* `if (mode == kModeHuffmanOnly) *last_bit_offset = job->last_bit_offset;'
Offset == IF mode = "kModeHuffmanOnly" THEN "set" ELSE last_bit_offset

\* A decompress in kModeHuffmanOnly reads last_bit_offset.
WithOffset == IF mode = "kModeHuffmanOnly" /\ last_bit_offset = "garbage"
              THEN unset \union {"offset"} ELSE unset

\* Google Benchmark ends the loop when it has run all iterations.
More == iter > 0

Begin(function) == pc' = function /\ step' = "init"

Init ==
  /\ kind \in {"Compress", "DeCompress"}
  /\ mode \in {"kModeFixed", "kModeDynamic", "kModeHuffmanOnly"}
  /\ pc = IF kind = "Compress" THEN "loop" ELSE "compress"
  /\ step = "init"
  /\ iter = Iterations
  /\ msg = "none"
  /\ failed = {}
  /\ compressed_size = Reserved
  /\ c_table = "null"
  /\ last_bit_offset = "garbage"
  /\ image = "none" /\ silent = FALSE
  /\ output = "other"
  /\ dsize = 0
  /\ lost = 0
  /\ unset = {}
  /\ ratio = 0

-------------------------------------------------------------------------------
(* One call *)

InitQpl ==
  /\ InCall /\ step = "init"
  /\ \E good \in Outcome :
       step' = IF ~good THEN "failed"
               ELSE IF mode = "kModeHuffmanOnly" THEN "table" ELSE "execute"
  /\ UNCHANGED <<row, pc, buffers, huffman, lost>>

\* decompress also fills its table from the compressor's.
CreateTables ==
  /\ InCall /\ step = "table"
  /\ \E good \in Outcome :
       /\ step' = IF good THEN "execute" ELSE "failed"
       /\ lost' = IF good THEN lost ELSE lost + 1
       /\ c_table' = IF good /\ pc = "compress" THEN "created" ELSE c_table
  /\ unset' = IF pc = "decompress" /\ c_table = "null" THEN unset \union {"table"}
              ELSE unset
  /\ UNCHANGED <<row, pc, buffers, last_bit_offset>>

\* qpl_execute_job fails, for want of space or for a reason of its own, after
\* any number of bytes.
ExecuteFails ==
  /\ InCall /\ step = "execute"
  /\ \/ Faulty
     \/ pc = "compress" /\ CompLen > compressed_size
     \/ pc = "decompress" /\ image # "good"
  /\ step' = "failed"
  /\ lost' = lost + 1
  /\ \E total_out \in 0 .. compressed_size :
       compressed_size' = IF pc = "compress" THEN SizeAfterFailure(total_out) ELSE compressed_size
  /\ image' \in IF pc = "compress" THEN {image, "bad"} ELSE {image}
  /\ output' \in IF pc = "decompress" THEN {output, "other"} ELSE {output}
  /\ unset' = IF pc = "decompress" THEN WithOffset ELSE unset
  /\ UNCHANGED <<row, pc, silent, dsize, c_table, last_bit_offset>>

\* With QPL_FLAG_OMIT_VERIFY nobody looks at the image: a wrong one may have any
\* length that fits.
ExecuteCompress ==
  /\ pc = "compress" /\ step = "execute"
  /\ step' = "fini"
  /\ compressed_size' \in 1 .. compressed_size
  /\ \/ compressed_size' = CompLen /\ image' = "good" /\ UNCHANGED silent
     \/ Faulty /\ image' = "bad" /\ silent' = TRUE
  /\ last_bit_offset' = Offset
  /\ UNCHANGED <<row, pc, output, dsize, c_table, unset, lost>>

\* A bad image may inflate to something else of some length.
ExecuteDecompress ==
  /\ pc = "decompress" /\ step = "execute"
  /\ step' = "fini"
  /\ unset' = WithOffset
  /\ IF image = "good" /\ compressed_size = CompLen /\ unset' = {}
       THEN dsize' = source_size /\ output' = "source"
       ELSE dsize' \in 0 .. source_size /\ output' = "other"
  /\ UNCHANGED <<row, pc, compressed_size, image, silent, c_table, last_bit_offset, lost>>

FiniQpl ==
  /\ InCall /\ step = "fini"
  /\ \E good \in Outcome :
       /\ step' = AfterFini(good)
       /\ lost' = IF good THEN lost ELSE lost + 1
  /\ UNCHANGED <<row, pc, buffers, huffman>>

-------------------------------------------------------------------------------
(* The lambda *)

Iterate ==
  /\ pc = "loop"
  /\ More
  /\ iter' = iter - 1
  /\ Begin(Timed)
  /\ UNCHANGED <<kind, mode, msg, failed, ratio, buffers, huffman, lost>>

\* Compress has its counter and its verification after the loop.
LoopEnd ==
  /\ pc = "loop"
  /\ ~More
  /\ IF kind = "Compress"
       THEN Begin("decompress") /\ ratio' = compressed_size
       ELSE pc' = "verify" /\ UNCHANGED <<step, ratio>>
  /\ UNCHANGED <<kind, mode, iter, msg, failed, buffers, huffman, lost>>

\* Google Benchmark runs no iteration of a row skipped before its loop.
Return ==
  /\ InCall
  /\ step \in {"ok", "failed"}
  /\ IF step = "failed"
       THEN failed' = failed \union {pc} /\ msg' = Flagged(pc)
       ELSE UNCHANGED <<failed, msg>>
  /\ pc' = IF pc = Timed \/ pc = "compress" THEN "loop" ELSE "verify"
  /\ IF pc = "compress" /\ kind = "DeCompress"
       THEN ratio' = compressed_size /\ iter' = IF msg' = "none" THEN iter ELSE 0
       ELSE UNCHANGED <<ratio, iter>>
  /\ UNCHANGED <<kind, mode, step, buffers, huffman, lost>>

Verify ==
  /\ pc = "verify"
  /\ pc' = "finished"
  /\ msg' = IF dsize # source_size \/ output # "source" THEN Skipped(msg, "mismatch") ELSE msg
  /\ UNCHANGED <<kind, mode, iter, failed, ratio, step, buffers, huffman, lost>>

Next ==
  \/ InitQpl \/ CreateTables \/ ExecuteFails \/ ExecuteCompress
  \/ ExecuteDecompress \/ FiniQpl
  \/ Iterate \/ LoopEnd \/ Return \/ Verify

Spec == Init /\ [][Next]_vars

-------------------------------------------------------------------------------
(* Properties *)

TypeOK ==
  /\ kind \in {"Compress", "DeCompress"}
  /\ mode \in {"kModeFixed", "kModeDynamic", "kModeHuffmanOnly"}
  /\ pc \in {"loop", "compress", "decompress", "verify", "finished"}
  /\ step \in {"init", "table", "execute", "fini", "ok", "failed"}
  /\ iter \in 0 .. Iterations
  /\ msg \in {"none", "compress", "decompress", "mismatch"}
  /\ failed \subseteq {"compress", "decompress"}
  /\ compressed_size \in Nat
  /\ c_table \in {"null", "created"}
  /\ last_bit_offset \in {"garbage", "set"}
  /\ image \in {"none", "good", "bad"} /\ silent \in BOOLEAN
  /\ output \in {"source", "other"}
  /\ dsize \in 0 .. source_size
  /\ lost \in Nat
  /\ unset \subseteq {"table", "offset"}
  /\ ratio \in Nat

(* A row without a message can be believed: every call returned 0 and    *)
(* finalised its job, none decoded with an uninitialised offset or table,  *)
(* the source was reproduced, and the ratio is that of its image.        *)
UnflaggedIsSound ==
  pc = "finished" /\ msg = "none" =>
    /\ failed = {} /\ lost = 0 /\ unset = {}
    /\ output = "source" /\ dsize = source_size
    /\ ratio = CompLen

(* compressed_size is overwritten with the length of an image and then     *)
(* offered as the space for the next: the offer stays inside the buffer,   *)
(* and an image the buffer can hold fits it at every call, after any       *)
(* failed calls, unless a silently wrong shorter image came out before.    *)
OfferedSpaceFits ==
  pc = "compress" /\ step = "execute" =>
    /\ compressed_size <= Reserved
    /\ CompLen <= Reserved /\ ~silent => CompLen <= compressed_size

(* The message names the first thing that went wrong: a mismatch is blamed *)
(* only on a silently wrong image.                                       *)
BlameIsRight ==
  /\ msg = "mismatch" => failed = {} /\ image = "bad"
  /\ msg = "decompress" => "compress" \notin failed
  /\ msg = "compress" => "compress" \in failed

(* "dst_size must contain the reserved size of the destination"          *)
(* (qpl_compress_decompress.h:79), at every call of compress.            *)
ReservedSizePassed ==
  pc = "compress" /\ step = "init" => compressed_size = Reserved

-------------------------------------------------------------------------------
(* The benchmark keeps the promise of BenchRow, although its calls fail at  *)
(* any of their steps and its loop goes on after a failure.              *)
Row == INSTANCE BenchRow WITH
  Function <- {"compress", "decompress"},
  phase <- IF pc = "finished" THEN "reported" ELSE "running"

ImplementsRow == Row!Spec
===============================================================================
