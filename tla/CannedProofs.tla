----------------------------- MODULE CannedProofs -----------------------------
(***************************************************************************)
(* Proofs about CannedChunks, for every source and every chunk size, and   *)
(* about CannedBench, whose compress calls they are, for every number of   *)
(* iterations.                                                             *)
(***************************************************************************)
EXTENDS CannedBench, TLAPS

-------------------------------------------------------------------------------
(* The inductive invariant.                                                *)

\* Before the first execution nothing has been fed.
FreshInv ==
  pc \in {"init", "table"} \/ (pc = "loop" /\ mode = "kContinious") =>
    /\ runs = 0 /\ piece = <<0, 0>> /\ ~closed /\ flags = {"FIRST"}
    /\ chunk_size = ChunkArg /\ src_bytes_left = src_size /\ it_cnt = 0

\* Between two chunks what was fed and what is left make up the source.
LoopInv ==
  pc = "loop" /\ mode # "kContinious" =>
    /\ piece[2] = src_size - src_bytes_left
    /\ "FIRST" \in flags <=> runs = 0
    /\ src_bytes_left > 0 =>
         /\ chunk_size = ChunkArg /\ it_cnt * ChunkArg = piece[2]
         /\ ~closed /\ "LAST" \notin flags
    /\ src_bytes_left = 0 /\ src_size > 0 => closed

IInv == TypeOK /\ FreshInv /\ LoopInv /\ StreamIsComplete

-------------------------------------------------------------------------------

(* One chunk of the loop feeds the bytes that follow those fed so far.     *)
LEMMA ChunkStep ==
  ASSUME IInv, CompressChunk
  PROVE  /\ chunk_size' \in Nat \ {0}
         /\ src_bytes_left' \in 0 .. src_size
         /\ src_bytes_left' = src_bytes_left - chunk_size'
         /\ piece' = <<src_size - src_bytes_left, src_size - src_bytes_left'>>
         /\ IF IsLast THEN src_bytes_left' = 0
                      ELSE chunk_size' = ChunkArg /\ src_bytes_left' > 0
<1> USE CannedAssumption DEF IInv, TypeOK, LoopInv, CompressChunk, IsLast, Shrunk
<1>1. /\ src_bytes_left \in Nat \ {0} /\ src_size \in Nat
      /\ chunk_size = ChunkArg /\ it_cnt * ChunkArg = src_size - src_bytes_left
  OBVIOUS
<1>2. /\ chunk_size' = IF IsLast THEN src_bytes_left ELSE chunk_size
      /\ src_bytes_left' = src_bytes_left - chunk_size'
  OBVIOUS
<1>3. piece' = <<it_cnt * chunk_size, it_cnt * chunk_size + chunk_size'>>
  BY DEF Execute, Begin
<1>4. /\ chunk_size' \in Nat \ {0}
      /\ src_bytes_left' \in 0 .. src_size
      /\ IF IsLast THEN src_bytes_left' = 0
                   ELSE chunk_size' = ChunkArg /\ src_bytes_left' > 0
  BY <1>1, <1>2
<1>5. src_size - src_bytes_left + chunk_size' = src_size - src_bytes_left'
  BY <1>1, <1>2, <1>4
<1> QED
  BY <1>1, <1>2, <1>3, <1>4, <1>5

(* Every step preserves the inductive invariant. *)
LEMMA Preservation ==
  ASSUME IInv, [Next]_vars PROVE IInv'
<1> USE CannedAssumption
<1> USE DEF IInv, TypeOK, FreshInv, LoopInv, StreamIsComplete
<1>1. CASE InitQpl
  BY <1>1 DEF InitQpl, AfterInit
<1>2. CASE CreateTables
  BY <1>2 DEF CreateTables
<1>3. CASE CompressAll
  <2>1. piece' = <<0, src_size>> /\ closed' /\ runs' = runs + 1
    BY <1>3 DEF CompressAll, Execute
  <2>2. piece' \in Nat \X Nat /\ runs' \in Nat /\ piece'[2] = src_size
    BY <2>1
  <2> QED
    BY <1>3, <2>1, <2>2 DEF CompressAll, Execute
<1>4. CASE CompressChunk
  <2>1. /\ piece' \in Nat \X Nat /\ runs' = runs + 1 /\ runs' \in Nat
        /\ pc' \in {"loop", "failed"} /\ mode' = mode /\ src_size' = src_size
        /\ UNCHANGED <<job, table>>
    BY <1>4, ChunkStep DEF CompressChunk, Execute
  <2>2. /\ flags' \subseteq {"FIRST", "LAST"}
        /\ pc' = "loop" => "FIRST" \notin flags'
        /\ closed' \in BOOLEAN
        /\ IsLast => closed'
        /\ it_cnt' \in Nat
    <3>1. flags \subseteq {"FIRST", "LAST"} /\ it_cnt \in Nat
      OBVIOUS
    <3> DEFINE with == flags \union (IF IsLast THEN {"LAST"} ELSE {})
    <3>2. /\ closed' = ("LAST" \in with)
          /\ flags' = IF pc' = "loop" THEN with \ {"FIRST"} ELSE with
      BY <1>4 DEF CompressChunk, Execute, AfterFirst
    <3>3. it_cnt' = IF pc' = "loop" THEN it_cnt + 1 ELSE it_cnt
      BY <1>4 DEF CompressChunk
    <3>4. IsLast => "LAST" \in with
      OBVIOUS
    <3> HIDE DEF with
    <3>5. closed' = ("LAST" \in with)
      BY <3>2
    <3>6. closed' \in BOOLEAN
      BY <3>5
    <3>7. IsLast => closed'
      BY <3>4, <3>5, Zenon
    <3>8. flags' \subseteq {"FIRST", "LAST"} /\ (pc' = "loop" => "FIRST" \notin flags')
      BY <3>1, <3>2 DEF with
    <3> QED
      BY <3>1, <3>3, <3>6, <3>7, <3>8
  <2>3. ASSUME pc' = "loop", src_bytes_left' > 0
        PROVE  /\ it_cnt' * ChunkArg = piece'[2] /\ chunk_size' = ChunkArg
               /\ ~closed' /\ "LAST" \notin flags'
    <3>1. ~IsLast /\ it_cnt' = it_cnt + 1 /\ it_cnt * ChunkArg = src_size - src_bytes_left
      BY <1>4, <2>3, ChunkStep DEF CompressChunk
    <3>2. chunk_size' = ChunkArg /\ piece'[2] = src_size - src_bytes_left + ChunkArg
      BY <1>4, <3>1, ChunkStep
    <3>3. (it_cnt + 1) * ChunkArg = it_cnt * ChunkArg + ChunkArg
      OBVIOUS
    <3>4. "LAST" \notin flags
      BY <1>4 DEF CompressChunk
    <3> QED
      BY <1>4, <3>1, <3>2, <3>3, <3>4 DEF CompressChunk, Execute, AfterFirst
  <2>4. pc' = "loop" => pc = "loop" /\ mode # "kContinious"
    BY <1>4 DEF CompressChunk
  <2> QED
    BY <1>4, <2>1, <2>2, <2>3, <2>4, ChunkStep
<1>5. CASE ChunksDone
  BY <1>5 DEF ChunksDone
<1>6. CASE FiniQpl
  BY <1>6 DEF FiniQpl
<1>7. CASE UNCHANGED vars
  BY <1>7 DEF vars
<1> QED
  BY <1>1, <1>2, <1>3, <1>4, <1>5, <1>6, <1>7 DEF Next

(* A call begins in the inductive invariant. *)
LEMMA InitialInv == Init => IInv
<1> SUFFICES ASSUME Init PROVE IInv
  OBVIOUS
<1>1. src_size \in 0 .. MaxSize /\ src_bytes_left \in 0 .. src_size
  BY CannedAssumption DEF Init
<1>2. TypeOK
  <2>1. piece \in Nat \X Nat
    BY DEF Init
  <2>2. flags \subseteq {"FIRST", "LAST"} /\ closed \in BOOLEAN
    BY DEF Init
  <2>3. chunk_size \in Nat \ {0} /\ it_cnt \in Nat /\ runs \in Nat
    BY CannedAssumption DEF Init
  <2>4. /\ pc = "init" /\ mode \in {"kContinious", "kNaive", "kCanned"}
        /\ job = "none" /\ table \in {"garbage", "ready", "destroyed"}
    BY DEF Init
  <2> QED
    BY <1>1, <2>1, <2>2, <2>3, <2>4 DEF TypeOK
<1>3. FreshInv /\ LoopInv /\ StreamIsComplete
  BY DEF Init, FreshInv, LoopInv, StreamIsComplete
<1> QED
  BY <1>2, <1>3 DEF IInv

(* The inductive invariant holds in every reachable state. *)
THEOREM Invariance == Spec => []IInv
<1> QED
  BY InitialInv, Preservation, PTL DEF Spec

(* Every variable keeps its type: src_bytes_left never wraps. *)
THEOREM TypeCorrect == Spec => []TypeOK
<1>1. IInv => TypeOK
  BY DEF IInv
<1> QED
  BY <1>1, Invariance, PTL

(* A successful compress has fed the source to its end and closed the      *)
(* stream.                                                                 *)
THEOREM StreamComplete == Spec => []StreamIsComplete
<1>1. IInv => StreamIsComplete
  BY DEF IInv
<1> QED
  BY <1>1, Invariance, PTL

\* What StreamIsSequential asks of a step.
Sequential ==
  runs' > runs => /\ piece'[1] = piece[2]
                  /\ "FIRST" \in flags <=> runs = 0
                  /\ ~closed

(* Every execution continues the stream where the one before it stopped.   *)
LEMMA StepIsSequential ==
  ASSUME IInv, [Next]_vars PROVE [Sequential]_vars
<1> SUFFICES ASSUME Next, runs' > runs
             PROVE  piece'[1] = piece[2] /\ ("FIRST" \in flags <=> runs = 0) /\ ~closed
  BY DEF Sequential
<1>1. CASE CompressAll
  BY <1>1 DEF CompressAll, Execute, IInv, FreshInv
<1>2. CASE CompressChunk
  <2>1. src_bytes_left > 0 /\ pc = "loop" /\ mode # "kContinious"
    BY <1>2 DEF CompressChunk
  <2>2. piece[2] = src_size - src_bytes_left /\ ("FIRST" \in flags <=> runs = 0) /\ ~closed
    BY <2>1 DEF IInv, LoopInv
  <2> QED
    BY <1>2, <2>2, ChunkStep
<1>3. CASE InitQpl \/ CreateTables \/ ChunksDone \/ FiniQpl
  BY <1>3 DEF InitQpl, CreateTables, ChunksDone, FiniQpl, IInv, TypeOK
<1> QED
  BY <1>1, <1>2, <1>3 DEF Next

(* Pieces follow each other, begun once and closed last. *)
THEOREM StreamSequential == Spec => StreamIsSequential
<1>1. IInv /\ [Next]_vars => [Sequential]_vars
  BY StepIsSequential
<1> QED
  BY <1>1, Invariance, PTL DEF Spec, StreamIsSequential, Sequential

-------------------------------------------------------------------------------
(* The inductive invariant of a row: that of the call in progress, and:    *)

\* A compress has returned since the lambda began; so has a decompress.
Compressed ==
  \/ place \in {"decompress", "verify", "finished"}
  \/ place = "loop" /\ (kind = "DeCompress" \/ iter < Iterations)
  \/ place = "compress" /\ pc = "ok"
Decompressed ==
  \/ place \in {"verify", "finished"}
  \/ place = "loop" /\ kind = "DeCompress" /\ iter < Iterations

PlaceInv ==
  /\ place = "compress" /\ kind = "Compress" => iter < Iterations
  /\ place = "decompress" /\ kind = "DeCompress" => iter < Iterations
  /\ place = "compress" /\ kind = "DeCompress" => iter = Iterations

\* A call that reaches its end has executed its job unless there was nothing
\* to compress, and has made its table if it needs one.
CallInv ==
  /\ runs = 0 => piece = <<0, 0>>
  /\ src_size = 0 /\ pc \in {"loop", "fini", "ok"} => runs = 0
  /\ place = "compress" =>
       /\ pc \in {"loop", "fini", "ok"} /\ mode = "kCanned" => table = "ready"
       /\ pc \in {"loop", "fini", "ok"} /\ runs # 0 => image # "none"

RowInv ==
  /\ failed # {} => msg # "none"
  /\ msg # "none" /\ failed = {} => place = "finished" /\ msg = "mismatch"
  /\ msg = "decompress" => "decompress" \in failed
  /\ place = "compress" \/ (place = "loop" /\ kind = "Compress") => "decompress" \notin failed

\* What the calls share, in a row in which none of them has failed.
DataInv ==
  failed = {} =>
    /\ Compressed =>
         /\ compressed_size = IF src_size = 0 THEN "nothing" ELSE "image"
         /\ src_size # 0 => image # "none"
         /\ mode = "kCanned" => table = "ready"
    /\ place \in {"decompress", "verify", "finished"} \/ (place = "loop" /\ kind = "DeCompress") =>
         ratio = compressed_size
    /\ mode = "kCanned" => misused = "no"
    /\ Decompressed =>
         /\ output = "source" /\ src_size # 0 => image = "good"
         /\ output = "other" => image = "bad" \/ mode # "kCanned"

RowIInv ==
  /\ RowTypeOK /\ IInv
  /\ PlaceInv /\ CallInv /\ RowInv /\ DataInv
  /\ UnflaggedIsSound /\ BlameIsRight

(* The steps of a compress keep the invariant of the row.                  *)
LEMMA CompressStepKeeps ==
  ASSUME RowIInv, CompressStep
  PROVE  RowIInv'
<1> USE CannedAssumption, CannedBenchAssumption
<1>1. IInv' /\ [Next]_vars
  BY Preservation DEF RowIInv, CompressStep
<1>2. UNCHANGED <<lambda, output, misused>> /\ place = "compress"
  BY DEF CompressStep
<1>3. /\ mode' = mode /\ src_size' = src_size /\ src_size \in Nat
      /\ mode \in {"kContinious", "kNaive", "kCanned"}
      /\ runs \in Nat
  BY DEF RowIInv, RowTypeOK, TypeOK, CompressStep, Next, InitQpl, CreateTables,
     CompressAll, CompressChunk, ChunksDone, FiniQpl
<1>4. compressed_size' = IF pc = "fini" THEN WrittenSize ELSE compressed_size
  BY DEF CompressStep
<1>5. /\ image' \in {"none", "good", "bad"}
      /\ compressed_size' \in {"reserved", "image", "nothing"}
      /\ runs' # runs => image' # "none" \/ pc' = "failed"
      /\ runs' = runs => image' = image
  BY DEF CompressStep, Stream, WrittenSize, RowIInv, RowTypeOK
<1>6. RowTypeOK'
  BY <1>1, <1>2, <1>5 DEF RowIInv, RowTypeOK, lambda, IInv
<1>7. PlaceInv' /\ RowInv'
  BY <1>2 DEF RowIInv, PlaceInv, RowInv, lambda
<1>8. CallInv'
  <2> USE DEF RowIInv, CallInv
  <2>1. CASE InitQpl
    BY <1>2, <1>3, <1>5, <2>1 DEF InitQpl, AfterInit, IInv, FreshInv, lambda
  <2>2. CASE CreateTables
    BY <1>2, <1>3, <1>5, <2>2 DEF CreateTables, IInv, FreshInv, lambda
  <2>3. CASE CompressAll
    <3>1. runs' = runs + 1 /\ pc' \in {"fini", "failed"} /\ UNCHANGED table
      BY <2>3 DEF CompressAll, Execute
    <3>2. src_size = 0 => pc' = "failed"
      BY <1>3, <3>1 DEF CompressStep
    <3> QED
      BY <1>2, <1>3, <1>5, <2>3, <3>1, <3>2 DEF CompressAll, lambda
  <2>4. CASE CompressChunk
    <3>1. runs' = runs + 1 /\ pc' \in {"loop", "failed"} /\ UNCHANGED table
      BY <2>4 DEF CompressChunk, Execute
    <3>2. src_size # 0
      BY <2>4 DEF CompressChunk, IInv, TypeOK
    <3> QED
      BY <1>2, <1>3, <1>5, <2>4, <3>1, <3>2 DEF CompressChunk, lambda
  <2>5. CASE ChunksDone
    BY <1>2, <1>3, <1>5, <2>5 DEF ChunksDone, lambda
  <2>6. CASE FiniQpl
    BY <1>2, <1>3, <1>5, <2>6 DEF FiniQpl, lambda
  <2> QED
    BY <2>1, <2>2, <2>3, <2>4, <2>5, <2>6 DEF CompressStep, Next
<1>9. DataInv'
  <2>1. ASSUME failed = {}, pc' = "ok"
        PROVE  /\ compressed_size' = IF src_size = 0 THEN "nothing" ELSE "image"
               /\ src_size # 0 => image' # "none"
               /\ mode = "kCanned" => table' = "ready"
    <3>1. FiniQpl /\ pc = "fini"
      BY <2>1 DEF CompressStep, Next, InitQpl, AfterInit, CreateTables, CompressAll,
         CompressChunk, Execute, ChunksDone, FiniQpl
    <3>2. runs' = runs /\ UNCHANGED table /\ image' = image
      BY <1>5, <3>1 DEF FiniQpl
    <3>3. src_size # 0 => runs # 0
      BY <1>3, <3>1 DEF RowIInv, IInv, StreamIsComplete, CallInv
    <3>4. src_size = 0 => runs = 0
      BY <3>1 DEF RowIInv, CallInv
    <3>5. mode = "kCanned" => table = "ready"
      BY <1>2, <3>1 DEF RowIInv, CallInv
    <3> QED
      BY <1>2, <1>4, <3>1, <3>2, <3>3, <3>4, <3>5 DEF WrittenSize, RowIInv, CallInv
  <2>2. ~Decompressed' /\ ~Decompressed
    BY <1>2 DEF Decompressed, lambda
  <2>3. Compressed' => pc' = "ok"
    BY <1>2 DEF Compressed, lambda
  <2> QED
    BY <1>2, <1>3, <2>1, <2>2, <2>3 DEF DataInv, RowIInv, lambda
<1>10. UnflaggedIsSound' /\ BlameIsRight'
  BY <1>2 DEF UnflaggedIsSound, BlameIsRight, RowIInv, RowInv, lambda
<1> QED
  BY <1>1, <1>6, <1>7, <1>8, <1>9, <1>10 DEF RowIInv

(* A compress begins in the inductive invariant of CannedChunks.           *)
LEMMA FreshCall ==
  ASSUME RowTypeOK, StartCompress
  PROVE  IInv'
<1> USE CannedAssumption DEF RowTypeOK, TypeOK, StartCompress
<1>1. (piece \in Nat \X Nat)' /\ (flags \subseteq {"FIRST", "LAST"})'
  OBVIOUS
<1>2. (chunk_size \in Nat \ {0} /\ src_bytes_left \in 0 .. src_size)'
  OBVIOUS
<1>3. TypeOK'
  BY <1>1, <1>2
<1>4. (FreshInv /\ LoopInv /\ StreamIsComplete)'
  BY DEF FreshInv, LoopInv, StreamIsComplete
<1> QED
  BY <1>3, <1>4 DEF IInv

(* The steps of the lambda and the decompress keep the invariant.          *)
LEMMA LambdaKeeps ==
  ASSUME RowIInv, Decompress \/ Iterate \/ LoopEnd \/ Return \/ Verify
  PROVE  RowIInv'
<1> USE CannedAssumption, CannedBenchAssumption
<1> USE DEF RowIInv, PlaceInv, CallInv, RowInv, DataInv, Compressed, Decompressed,
      Timed, UnflaggedIsSound, BlameIsRight, lambda, buffers
<1>1. ASSUME UNCHANGED vars PROVE IInv' /\ TypeOK'
  BY <1>1, Preservation DEF IInv
<1>2. CASE Decompress
  <2>1. RowTypeOK'
    BY <1>1, <1>2 DEF Decompress, Decoded, Flagged, Skipped, RowTypeOK
  <2>2. UNCHANGED vars
    BY <1>2 DEF Decompress
  <2>3. PlaceInv' /\ CallInv'
    BY <1>2 DEF Decompress, vars, RowTypeOK
  <2>4. RowInv' /\ BlameIsRight'
    BY <1>2 DEF Decompress, Flagged, Skipped, RowTypeOK, vars
  <2>5. DataInv'
    <3>1. CASE failed' # {}
      BY <3>1
    <3>2. CASE failed' = {}
      <4>1. failed = {} /\ output' \in Decoded /\ UNCHANGED msg
        BY <1>2, <3>2 DEF Decompress
      <4> QED
        BY <1>2, <4>1 DEF Decompress, Decoded, vars, RowTypeOK
    <3> QED
      BY <3>1, <3>2
  <2>6. UnflaggedIsSound'
    BY <1>2 DEF Decompress
  <2> QED
    BY <1>1, <2>1, <2>2, <2>3, <2>4, <2>5, <2>6
<1>3. CASE Iterate
  <2>1. CASE kind = "Compress"
    <3>1. IInv' /\ StartCompress
      BY <1>3, <2>1, FreshCall DEF Iterate
    <3>2. RowTypeOK'
      BY <1>3, <2>1, <3>1 DEF Iterate, More, RowTypeOK, IInv
    <3> QED
      BY <1>3, <2>1, <3>1, <3>2 DEF Iterate, More, RowTypeOK, StartCompress
  <2>2. CASE kind # "Compress"
    <3>1. UNCHANGED vars /\ IInv' /\ TypeOK'
      BY <1>1, <1>3, <2>2 DEF Iterate
    <3>2. RowTypeOK'
      BY <1>3, <2>2, <3>1 DEF Iterate, More, RowTypeOK
    <3>3. PlaceInv' /\ CallInv' /\ RowInv'
      BY <1>3, <2>2, <3>1 DEF Iterate, More, RowTypeOK, vars
    <3>4. DataInv'
      BY <1>3, <2>2, <3>1 DEF Iterate, More, RowTypeOK, vars
    <3>5. UnflaggedIsSound' /\ BlameIsRight'
      BY <1>3, <2>2, <3>1 DEF Iterate, RowTypeOK, vars
    <3> QED
      BY <3>1, <3>2, <3>3, <3>4, <3>5
  <2> QED
    BY <2>1, <2>2
<1>4. CASE LoopEnd
  BY <1>1, <1>4 DEF LoopEnd, More, RowTypeOK, vars
<1>5. CASE Return
  <2>1. CASE pc = "ok"
    <3>1. UNCHANGED <<vars, failed, msg>> /\ IInv' /\ TypeOK'
      BY <1>1, <1>5, <2>1 DEF Return
    <3>2. RowTypeOK'
      BY <1>5, <3>1 DEF Return, RowTypeOK
    <3>3. PlaceInv' /\ CallInv' /\ RowInv'
      BY <1>5, <3>1 DEF Return, RowTypeOK, vars
    <3>4. DataInv'
      BY <1>5, <2>1, <3>1 DEF Return, RowTypeOK, vars
    <3>5. UnflaggedIsSound' /\ BlameIsRight'
      BY <1>5, <3>1 DEF Return, RowTypeOK, vars
    <3> QED
      BY <3>1, <3>2, <3>3, <3>4, <3>5
  <2>2. CASE pc = "failed"
    <3>1. UNCHANGED vars /\ IInv' /\ TypeOK'
      BY <1>1, <1>5 DEF Return
    <3>2. failed' = failed \union {"compress"} /\ msg' = IF msg = "none" THEN "compress" ELSE msg
      BY <1>5, <2>2 DEF Return, Flagged, Skipped
    <3>3. RowTypeOK'
      BY <1>5, <3>1, <3>2 DEF Return, RowTypeOK
    <3>4. PlaceInv' /\ CallInv' /\ RowInv'
      BY <1>5, <3>1, <3>2 DEF Return, RowTypeOK, vars
    <3>5. failed' # {} /\ msg' # "none" /\ place' = "loop"
      BY <1>5, <3>2 DEF Return
    <3>6. BlameIsRight'
      BY <1>5, <3>1, <3>2 DEF Return, RowTypeOK, vars
    <3> QED
      BY <3>1, <3>3, <3>4, <3>5, <3>6
  <2> QED
    BY <1>5, <2>1, <2>2 DEF Return
<1>6. CASE Verify
  <2>1. UNCHANGED <<vars, kind, iter, failed, ratio, buffers>> /\ IInv' /\ TypeOK'
    BY <1>1, <1>6 DEF Verify
  <2>2. msg' = IF output # "source" /\ msg = "none" THEN "mismatch" ELSE msg
    BY <1>6 DEF Verify, Mismatch, Skipped
  <2>3. RowTypeOK' /\ PlaceInv' /\ CallInv' /\ RowInv' /\ DataInv' /\ BlameIsRight'
    BY <1>6, <2>1, <2>2 DEF Verify, RowTypeOK, vars
  <2>4. UnflaggedIsSound'
    <3>1. src_size \in Nat
      BY DEF RowTypeOK, TypeOK
    <3> QED
      BY <1>6, <2>1, <2>2, <3>1 DEF Verify, RowTypeOK, vars
  <2> QED
    BY <2>1, <2>3, <2>4
<1> QED
  BY <1>2, <1>3, <1>4, <1>5, <1>6

(* The invariant of the row holds in every reachable state.                *)
THEOREM RowInvariance == RowSpec => []RowIInv
<1>1. RowInit => RowIInv
  <2> SUFFICES ASSUME RowInit PROVE RowIInv
    OBVIOUS
  <2>1. IInv
    BY InitialInv DEF RowInit
  <2>2. RowTypeOK
    BY <2>1, CannedBenchAssumption DEF RowInit, RowTypeOK, IInv
  <2>3. PlaceInv /\ RowInv /\ UnflaggedIsSound /\ BlameIsRight
    BY CannedBenchAssumption
    DEF RowInit, PlaceInv, RowInv, UnflaggedIsSound, BlameIsRight
  <2>4. CallInv /\ DataInv
    BY CannedBenchAssumption
    DEF RowInit, Init, CallInv, DataInv, Compressed, Decompressed
  <2> QED
    BY <2>1, <2>2, <2>3, <2>4 DEF RowIInv
<1>2. RowIInv /\ [RowNext]_rowVars => RowIInv'
  <2>1. ASSUME RowIInv, UNCHANGED rowVars PROVE RowIInv'
    <3>1. IInv' /\ TypeOK'
      BY <2>1, Preservation DEF RowIInv, rowVars, IInv
    <3> QED
      BY <2>1, <3>1
      DEF rowVars, vars, lambda, buffers, RowIInv, RowTypeOK, PlaceInv, CallInv, RowInv,
          DataInv, Compressed, Decompressed, UnflaggedIsSound, BlameIsRight
  <2> QED
    BY <2>1, CompressStepKeeps, LambdaKeeps DEF RowNext
<1> QED
  BY <1>1, <1>2, PTL DEF RowSpec

(* Every variable of a row keeps its type.                                 *)
THEOREM RowTypeCorrect == RowSpec => []RowTypeOK
<1>1. RowIInv => RowTypeOK
  BY DEF RowIInv
<1> QED
  BY <1>1, RowInvariance, PTL

(* A row without a message ran only calls that succeeded and reproduced    *)
(* its source from a complete stream.                                      *)
THEOREM RowSound == RowSpec => []UnflaggedIsSound
<1>1. RowIInv => UnflaggedIsSound
  BY DEF RowIInv
<1> QED
  BY <1>1, RowInvariance, PTL

(* A table that is not ready reaches a decompress of the canned mode only  *)
(* in a row that is already marked.                                        *)
THEOREM BadTablesFlagged == RowSpec => []BadTableIsFlagged
<1>1. RowIInv => BadTableIsFlagged
  BY DEF RowIInv, RowInv, DataInv, BadTableIsFlagged, RowTypeOK
<1> QED
  BY <1>1, RowInvariance, PTL

(* Every stream a row compresses is fed to its end and closed when its     *)
(* call returns 0.                                                         *)
THEOREM RowStreamComplete == RowSpec => []StreamIsComplete
<1>1. RowIInv => StreamIsComplete
  BY DEF RowIInv, IInv
<1> QED
  BY <1>1, RowInvariance, PTL

(* The pieces of every stream a row compresses follow each other, also when *)
(* the stream before it was abandoned half way.                            *)
THEOREM RowStreamSequential == RowSpec => StreamIsSequential
<1>1. RowIInv /\ [RowNext]_rowVars => [Sequential]_vars
  <2> SUFFICES ASSUME RowIInv, [RowNext]_rowVars PROVE [Sequential]_vars
    OBVIOUS
  <2>1. CASE CompressStep
    BY <2>1, StepIsSequential DEF CompressStep, RowIInv
  <2>2. CASE Iterate
    <3>1. UNCHANGED vars \/ runs' = 0
      BY <2>2 DEF Iterate, StartCompress
    <3>2. runs \in Nat
      BY DEF RowIInv, RowTypeOK, TypeOK
    <3> QED
      BY <3>1, <3>2 DEF Sequential
  <2>3. CASE Decompress \/ LoopEnd \/ Return \/ Verify \/ UNCHANGED rowVars
    BY <2>3 DEF Decompress, LoopEnd, Return, Verify, rowVars
  <2> QED
    BY <2>1, <2>2, <2>3 DEF RowNext
<1> QED
  BY <1>1, RowInvariance, PTL DEF RowSpec, StreamIsSequential, Sequential

(* The message of a row names the first thing that went wrong.             *)
THEOREM BlameSound == RowSpec => []BlameIsRight
<1>1. RowIInv => BlameIsRight
  BY DEF RowIInv
<1> QED
  BY <1>1, RowInvariance, PTL

(* The row keeps the promise of BenchRow.                                  *)
THEOREM RowRefinement == RowSpec => ImplementsRow
<1>1. RowInit => Row!Init
  BY DEF RowInit, Row!Init
<1>2. ASSUME RowIInv, CompressStep \/ Iterate \/ LoopEnd PROVE UNCHANGED Row!rowVars
  BY <1>2 DEF CompressStep, Iterate, LoopEnd, Timed, lambda, Row!rowVars
<1>3. ASSUME RowIInv, Decompress \/ Return PROVE Row!Next
  <2>1. place # "finished" /\ place' # "finished"
    BY <1>3 DEF Decompress, Return
  <2>2. /\ failed \subseteq failed' /\ failed' \subseteq {"compress", "decompress"}
        /\ msg' = msg \/ (msg = "none" /\ msg' \in failed')
    BY <1>3 DEF Decompress, Return, Flagged, Skipped, RowIInv, RowTypeOK
  <2> QED
    BY <2>1, <2>2 DEF Row!Next, Row!Step
<1>4. ASSUME RowIInv, Verify PROVE Row!Next
  <2>1. place = "verify" /\ place' = "finished" /\ failed' = failed
    BY <1>4 DEF Verify
  <2>2. \/ failed = {} /\ msg = "none" /\ msg' \in {"none", "mismatch"}
        \/ failed # {} /\ msg # "none" /\ msg' = msg
    BY <1>4, <2>1 DEF Verify, Skipped, RowIInv, RowInv
  <2> QED
    BY <2>1, <2>2 DEF Row!Next, Row!Report
<1>5. UNCHANGED rowVars => UNCHANGED Row!rowVars
  BY DEF rowVars, lambda, Row!rowVars
<1>6. RowIInv /\ [RowNext]_rowVars => [Row!Next]_(Row!rowVars)
  BY <1>2, <1>3, <1>4, <1>5 DEF RowNext
<1> QED
  BY <1>1, <1>6, RowInvariance, PTL DEF RowSpec, ImplementsRow, Row!Spec

-------------------------------------------------------------------------------
(* The steps a row can still take.                                         *)

\* In the call in progress: initialisation, table, chunks, end.
CallWork ==
  CASE pc = "init" -> src_size + 5
    [] pc = "table" -> src_size + 4
    [] pc = "loop" -> src_bytes_left + 3
    [] pc = "fini" -> 2
    [] OTHER -> 1

\* In the row: an iteration is a call and the return from it.
PlaceWork ==
  CASE place = "compress" -> CallWork + 3
    [] place = "loop" -> 3
    [] place = "decompress" -> IF kind = "Compress" THEN 2 ELSE 4
    [] place = "verify" -> 1
    [] OTHER -> 0
Work == iter * (src_size + 6) + PlaceWork

(* A step of a call takes one away, a chunk at least one byte.             *)
LEMMA CallProgress ==
  ASSUME IInv, Next
  PROVE  CallWork' \in Nat /\ CallWork' < CallWork
<1> USE DEF CallWork
<1>1. src_size \in Nat /\ src_bytes_left \in Nat
  BY CannedAssumption DEF IInv, TypeOK
<1>2. CASE InitQpl
  <2>1. pc = "init" /\ pc' \in {"table", "loop", "failed"} /\ src_bytes_left = src_size
        /\ UNCHANGED <<src_size, src_bytes_left>>
    BY <1>2 DEF InitQpl, AfterInit, IInv, FreshInv
  <2> QED
    BY <1>1, <2>1
<1>3. CASE CreateTables
  <2>1. pc = "table" /\ pc' \in {"loop", "failed"} /\ src_bytes_left = src_size
        /\ UNCHANGED <<src_size, src_bytes_left>>
    BY <1>3 DEF CreateTables, IInv, FreshInv
  <2> QED
    BY <1>1, <2>1
<1>4. CASE CompressAll
  BY <1>1, <1>4 DEF CompressAll, Execute
<1>5. CASE CompressChunk
  <2>1. /\ pc = "loop" /\ pc' \in {"loop", "failed"}
        /\ src_bytes_left' \in Nat /\ src_bytes_left' < src_bytes_left
    <3>1. pc = "loop" /\ pc' \in {"loop", "failed"}
      BY <1>5 DEF CompressChunk, Execute
    <3> QED
      BY <1>1, <1>5, <3>1, ChunkStep
  <2> QED
    BY <1>1, <2>1
<1>6. CASE ChunksDone \/ FiniQpl
  BY <1>1, <1>6 DEF ChunksDone, FiniQpl
<1> QED
  BY <1>2, <1>3, <1>4, <1>5, <1>6 DEF Next

(* What RowEnds rests on: every step of a row lowers a natural number, so  *)
(* neither the chunk loop of any source and chunk size nor the timed loop  *)
(* goes on for ever, whatever calls fail.                                  *)
THEOREM RowProgress == RowSpec => [](Work \in Nat) /\ [][Work' < Work]_rowVars
<1> DEFINE Rest(n) == n * (src_size + 6)
<1>1. ASSUME RowIInv
      PROVE  /\ src_size \in Nat /\ iter \in Nat /\ CallWork \in 1 .. src_size + 5
             /\ PlaceWork \in Nat /\ Work \in Nat
  <2>1. src_size \in Nat /\ iter \in Nat /\ src_bytes_left \in 0 .. src_size
    BY <1>1, CannedAssumption, CannedBenchAssumption DEF RowIInv, RowTypeOK, TypeOK
  <2>2. CallWork \in 1 .. src_size + 5
    BY <2>1 DEF CallWork
  <2>3. PlaceWork \in Nat
    BY <2>1, <2>2 DEF PlaceWork
  <2>4. iter * (src_size + 6) \in Nat
    BY <2>1
  <2> QED
    BY <2>1, <2>2, <2>3, <2>4 DEF Work
<1>2. ASSUME RowIInv, RowNext PROVE Work' < Work
  <2>1. /\ src_size \in Nat /\ iter \in Nat /\ CallWork \in 1 .. src_size + 5
        /\ PlaceWork \in Nat /\ Rest(iter) \in Nat
    BY <1>1, <1>2
  <2>2. ASSUME iter' = iter, src_size' = src_size, PlaceWork' \in Nat, PlaceWork' < PlaceWork
        PROVE  Work' < Work
    <3>1. Rest(iter)' = Rest(iter)
      BY <2>2
    <3> HIDE DEF Rest
    <3>2. Work' = Rest(iter) + PlaceWork' /\ Work = Rest(iter) + PlaceWork
      BY <3>1 DEF Work, Rest
    <3> QED
      BY <2>1, <2>2, <3>2
  <2>3. CASE CompressStep
    <3>1. /\ iter' = iter /\ src_size' = src_size
          /\ place = "compress" /\ place' = "compress"
      BY <2>3 DEF CompressStep, lambda, Next, InitQpl, CreateTables, CompressAll,
         CompressChunk, ChunksDone, FiniQpl
    <3>2. CallWork' \in Nat /\ CallWork' < CallWork
      BY <1>2, <2>3, CallProgress DEF CompressStep, RowIInv
    <3> QED
      BY <2>1, <2>2, <3>1, <3>2 DEF PlaceWork
  <2>4. CASE Decompress
    BY <2>2, <2>4 DEF Decompress, vars, PlaceWork
  <2>5. CASE Iterate
    <3>1. /\ place = "loop" /\ iter # 0 /\ iter' = iter - 1 /\ src_size' = src_size
          /\ place' = Timed /\ kind' = kind
          /\ kind = "Compress" => pc' = "init"
      BY <1>1, <1>2, <2>5 DEF Iterate, More, StartCompress, vars
    <3>2. PlaceWork = 3 /\ PlaceWork' \in Nat /\ PlaceWork' <= src_size + 8
      <4>1. PlaceWork = 3
        BY <3>1 DEF PlaceWork
      <4>2. CASE kind = "Compress"
        <5>1. place' = "compress" /\ CallWork' = src_size + 5
          BY <3>1, <4>2 DEF Timed, CallWork
        <5>2. PlaceWork' = src_size + 5 + 3
          BY <5>1 DEF PlaceWork
        <5> QED
          BY <2>1, <4>1, <5>2
      <4>3. CASE kind # "Compress"
        <5>1. PlaceWork' = 4
          BY <3>1, <4>3 DEF Timed, PlaceWork
        <5> QED
          BY <2>1, <4>1, <5>1
      <4> QED
        BY <4>2, <4>3
    <3>3. Rest(iter) = Rest(iter - 1) + src_size + 6 /\ Rest(iter - 1) \in Nat
      <4>1. iter - 1 \in Nat
        BY <2>1, <3>1
      <4> QED
        BY <2>1, <4>1
    <3>4. Rest(iter)' = Rest(iter - 1)
      BY <3>1
    <3> HIDE DEF Rest
    <3>5. Work' = Rest(iter - 1) + PlaceWork' /\ Work = Rest(iter) + PlaceWork
      BY <3>4 DEF Work, Rest
    <3> QED
      BY <2>1, <3>2, <3>3, <3>5
  <2>6. CASE LoopEnd
    BY <2>2, <2>6 DEF LoopEnd, vars, PlaceWork
  <2>7. CASE Return
    <3>1. /\ iter' \in {iter, 0} /\ src_size' = src_size
          /\ place = "compress" /\ place' = "loop"
      BY <2>7 DEF Return, vars
    <3>2. PlaceWork' = 3 /\ PlaceWork > 3
      BY <2>1, <3>1 DEF PlaceWork
    <3>3. CASE iter' = iter
      BY <2>1, <2>2, <3>1, <3>2, <3>3
    <3>4. CASE iter' = 0
      <4>1. Work' = 3
        BY <2>1, <3>1, <3>2, <3>4 DEF Work
      <4> HIDE DEF Rest
      <4>2. Work = Rest(iter) + PlaceWork
        BY DEF Work, Rest
      <4> QED
        BY <2>1, <3>2, <4>1, <4>2
    <3> QED
      BY <3>1, <3>3, <3>4
  <2>8. CASE Verify
    BY <2>2, <2>8 DEF Verify, vars, PlaceWork
  <2> QED
    BY <1>2, <2>3, <2>4, <2>5, <2>6, <2>7, <2>8 DEF RowNext
<1>3. RowIInv => Work \in Nat
  BY <1>1
<1>4. RowIInv /\ [RowNext]_rowVars => [Work' < Work]_rowVars
  BY <1>2
<1> QED
  BY <1>3, <1>4, RowInvariance, PTL DEF RowSpec
===============================================================================
