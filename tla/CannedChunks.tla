----------------------------- MODULE CannedChunks -----------------------------
(***************************************************************************)
(* single_engine_canned::compress (src/single_engine/qpl_canned.h): one    *)
(* job, executed once for the whole source (kContinious) or once per chunk *)
(* of it (kNaive, kCanned), its output growing in one destination.         *)
(*                                                                         *)
(* The stream the job writes is well formed if the first execution, and    *)
(* only that one, carries QPL_FLAG_FIRST, the last one QPL_FLAG_LAST, and  *)
(* the pieces follow each other without gap or overlap.                    *)
(***************************************************************************)
EXTENDS Integers

CONSTANTS
  ChunkArg,       \* the argument chunk_size: 4 kB in the benchmarks
  MaxSize,        \* bound: bytes of the largest source
  Faulty          \* may QPL calls fail?

ASSUME CannedAssumption ==
  /\ ChunkArg \in Nat \ {0}
  /\ MaxSize \in Nat
  /\ Faulty \in BOOLEAN

VARIABLES
  pc,             \* "init", "table", "loop", "fini", "ok" or "failed"
  mode,           \* CompressionMode
  job,            \* the QPL job: "none", "live" or "finished"
  src_size,       \* bytes of the source
  table,          \* *huffman_table: "garbage" until the caller's is created
  chunk_size, src_bytes_left, it_cnt,
  flags,          \* job->flags, FIRST and LAST
  piece,          \* history: <<begin, end>> of the last piece executed
  runs,           \* history: executions of the job so far
  closed          \* history: the stream has been ended by LAST

vars == <<pc, mode, src_size, job, table, chunk_size, src_bytes_left, it_cnt, flags,
          piece, runs, closed>>

Outcome == IF Faulty THEN BOOLEAN ELSE {TRUE}

\* `if (chunk_size >= src_bytes_left)'
IsLastBug == chunk_size > src_bytes_left
IsLast == chunk_size >= src_bytes_left

\* `job->flags &= ~QPL_FLAG_FIRST' after the first execution.
AfterFirst(fl) == fl \ {"FIRST"}

\* chunk_size = src_bytes_left for the last chunk.
ShrunkBug == chunk_size
Shrunk == src_bytes_left

\* next_in_ptr = src + it_cnt * chunk_size, before chunk_size shrinks to what
\* is left.
BeginBug == it_cnt * chunk_size'
Begin == it_cnt * chunk_size

AfterInit == IF mode = "kCanned" THEN "table" ELSE "loop"

Init ==
  /\ pc = "init"
  /\ mode \in {"kContinious", "kNaive", "kCanned"}
  /\ job = "none"
  /\ table \in {"garbage", "ready", "destroyed"}   \* as an earlier call left it
  /\ src_size \in 0 .. MaxSize
  /\ chunk_size = ChunkArg
  /\ src_bytes_left = src_size
  /\ it_cnt = 0
  /\ flags = {"FIRST"}
  /\ piece = <<0, 0>>
  /\ runs = 0
  /\ closed = FALSE

\* init_qpl
InitQpl ==
  /\ pc = "init"
  /\ \E good \in Outcome :
       /\ job' = IF good THEN "live" ELSE job
       /\ pc' = IF good THEN AfterInit ELSE "failed"
  /\ UNCHANGED <<mode, src_size, table, chunk_size, src_bytes_left, it_cnt, flags, piece,
                 runs, closed>>

\* create_static_huffman_tables, which destroys what it created when it fails.
CreateTables ==
  /\ pc = "table"
  /\ \E good \in Outcome :
       /\ table' = IF good THEN "ready" ELSE "destroyed"
       /\ pc' = IF good THEN "loop" ELSE "failed"
  /\ UNCHANGED <<mode, src_size, job, chunk_size, src_bytes_left, it_cnt, flags, piece,
                 runs, closed>>

\* qpl_execute_job on the bytes from begin to end.
Execute(begin, end, with, next) ==
  /\ piece' = <<begin, end>>
  /\ runs' = runs + 1
  /\ closed' = ("LAST" \in with)
  /\ \E good \in Outcome : pc' = IF good THEN next ELSE "failed"

CompressAll ==
  /\ pc = "loop" /\ mode = "kContinious"
  /\ flags' = flags \union {"LAST"}
  /\ Execute(0, src_size, flags', "fini")
  /\ UNCHANGED <<mode, src_size, job, table, chunk_size, src_bytes_left, it_cnt>>

CompressChunk ==
  /\ pc = "loop" /\ mode # "kContinious"
  /\ src_bytes_left > 0
  /\ chunk_size' = IF IsLast THEN Shrunk ELSE chunk_size
  /\ src_bytes_left' = src_bytes_left - chunk_size'
  /\ LET with == flags \union (IF IsLast THEN {"LAST"} ELSE {})
     IN /\ Execute(Begin, Begin + chunk_size', with, "loop")
        /\ flags' = IF pc' = "loop" THEN AfterFirst(with) ELSE with
  /\ it_cnt' = IF pc' = "loop" THEN it_cnt + 1 ELSE it_cnt
  /\ UNCHANGED <<mode, src_size, job, table>>

ChunksDone ==
  /\ pc = "loop" /\ mode # "kContinious"
  /\ src_bytes_left = 0
  /\ pc' = "fini"
  /\ UNCHANGED <<mode, src_size, job, table, chunk_size, src_bytes_left, it_cnt, flags,
                 piece, runs, closed>>

\* *dst_size = job->total_out, then free_qpl.
FiniQpl ==
  /\ pc = "fini"
  /\ \E good \in Outcome :
       /\ job' = IF good THEN "finished" ELSE job
       /\ pc' = IF good THEN "ok" ELSE "failed"
  /\ UNCHANGED <<mode, src_size, table, chunk_size, src_bytes_left, it_cnt, flags, piece,
                 runs, closed>>

Next ==
  InitQpl \/ CreateTables \/ CompressAll \/ CompressChunk \/ ChunksDone \/ FiniQpl

Spec == Init /\ [][Next]_vars

-------------------------------------------------------------------------------
(* Properties *)

TypeOK ==
  /\ pc \in {"init", "table", "loop", "fini", "ok", "failed"}
  /\ mode \in {"kContinious", "kNaive", "kCanned"}
  /\ src_size \in 0 .. MaxSize
  /\ job \in {"none", "live", "finished"}
  /\ table \in {"garbage", "ready", "destroyed"}
  /\ chunk_size \in Nat \ {0}
  /\ src_bytes_left \in 0 .. src_size   \* a size_t that does not wrap
  /\ it_cnt \in Nat
  /\ flags \subseteq {"FIRST", "LAST"}
  /\ piece \in Nat \X Nat
  /\ runs \in Nat
  /\ closed \in BOOLEAN

(* Every execution of the job continues where the one before it stopped,   *)
(* begins the stream if and only if it is the first, and comes before the  *)
(* stream is closed.                                                       *)
StreamIsSequential ==
  [][runs' > runs =>
       /\ piece'[1] = piece[2]
       /\ "FIRST" \in flags <=> runs = 0
       /\ ~closed]_vars

(* A compress that returns 0 has fed the whole source, stopped exactly at  *)
(* its end, and closed the stream with LAST, also when the last chunk is a *)
(* full one (`chunk_size >= src_bytes_left').                              *)
StreamIsComplete ==
  pc \in {"fini", "ok"} /\ src_size > 0 => piece[2] = src_size /\ closed
===============================================================================
