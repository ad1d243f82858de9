------------------------ MODULE SingleEngineBenchProofs -----------------------
(***************************************************************************)
(* Proofs about SingleEngineBench, for every source size, length of the    *)
(* image and number of iterations.                                         *)
(***************************************************************************)
EXTENDS SingleEngineBench, TLAPS

-------------------------------------------------------------------------------
(* The inductive invariant.                                                *)

\* A compress has produced an image since the lambda began; a decompress has
\* been given it.
Compressed ==
  \/ pc \in {"decompress", "verify", "finished"}
  \/ pc = "loop" /\ (kind = "DeCompress" \/ iter < Iterations)
  \/ pc = "compress" /\ step \in {"fini", "ok"}
Decompressed ==
  \/ pc \in {"verify", "finished"}
  \/ pc = "loop" /\ kind = "DeCompress" /\ iter < Iterations
  \/ pc = "decompress" /\ step \in {"fini", "ok"}

PlaceInv ==
  /\ pc = Timed => iter < Iterations
  /\ pc = "compress" /\ kind = "DeCompress" => iter = Iterations
  /\ InCall /\ step = "table" => mode = "kModeHuffmanOnly"

\* Only a silently wrong image leaves less than the good one needs.
SpaceInv ==
  /\ compressed_size <= Reserved
  /\ CompLen <= Reserved /\ ~silent => CompLen <= compressed_size

RowInv ==
  /\ failed # {} => msg # "none"
  /\ msg # "none" /\ failed = {} => pc = "finished" /\ msg = "mismatch"
  /\ msg = "decompress" => "decompress" \in failed
  /\ pc = "compress" \/ (pc = "loop" /\ kind = "Compress") => "decompress" \notin failed
  /\ lost # 0 /\ failed = {} => InCall /\ step = "failed"

\* The variables the calls share, in a row in which no call has failed.
DataInv ==
  failed = {} =>
    /\ mode = "kModeHuffmanOnly" /\ (Compressed \/ (pc = "compress" /\ step = "execute")) =>
         c_table = "created"
    /\ Compressed =>
         /\ image # "none"
         /\ image = "good" => compressed_size = CompLen
         /\ mode = "kModeHuffmanOnly" => last_bit_offset = "set"
    /\ Decompressed /\ image = "good" => output = "source" /\ dsize = source_size
    /\ Decompressed /\ output = "source" => image = "good"
    /\ pc \in {"decompress", "verify", "finished"} \/ (pc = "loop" /\ kind = "DeCompress") =>
         ratio = compressed_size
    /\ unset = {}

IInv ==
  /\ TypeOK /\ PlaceInv /\ SpaceInv /\ RowInv /\ DataInv
  /\ UnflaggedIsSound /\ BlameIsRight

-------------------------------------------------------------------------------

(* Every step of the lambda and of its calls preserves the inductive       *)
(* invariant.                                                              *)
LEMMA Preservation ==
  ASSUME IInv, [Next]_vars PROVE IInv'
<1> USE SingleAssumption
<1> USE DEF IInv, TypeOK, PlaceInv, SpaceInv, RowInv, DataInv, Compressed,
      Decompressed, InCall, Timed, Function, Reserved, UnflaggedIsSound,
      BlameIsRight, buffers, huffman, row
<1>1. CASE InitQpl
  BY <1>1 DEF InitQpl
<1>2. CASE CreateTables
  BY <1>2 DEF CreateTables
<1>3. CASE ExecuteFails
  BY <1>3 DEF ExecuteFails, WithOffset, SizeAfterFailure
<1>4. CASE ExecuteCompress
  <2>1. /\ pc = "compress" /\ pc' = "compress" /\ step = "execute" /\ step' = "fini"
        /\ UNCHANGED <<row, output, dsize, c_table, unset, lost>>
        /\ compressed_size' \in 1 .. compressed_size
        /\ last_bit_offset' = IF mode = "kModeHuffmanOnly" THEN "set" ELSE last_bit_offset
    BY <1>4 DEF ExecuteCompress, Offset
  <2>2. \/ compressed_size' = CompLen /\ image' = "good" /\ silent' = silent
        \/ image' = "bad" /\ silent' = TRUE
    BY <1>4 DEF ExecuteCompress
  <2>3. TypeOK'
    <3>1. silent' \in BOOLEAN /\ image' \in {"none", "good", "bad"}
      BY <2>2
    <3> QED
      BY <2>1, <3>1
  <2>4. PlaceInv' /\ RowInv'
    BY <2>1
  <2>5. SpaceInv'
    BY <2>1, <2>2
  <2>6. DataInv'
    BY <2>1, <2>2
  <2>7. UnflaggedIsSound' /\ BlameIsRight'
    BY <2>1
  <2> QED
    BY <2>3, <2>4, <2>5, <2>6, <2>7
<1>5. CASE ExecuteDecompress
  BY <1>5 DEF ExecuteDecompress, WithOffset
<1>6. CASE FiniQpl
  BY <1>6 DEF FiniQpl, AfterFini
<1>7. CASE Iterate
  BY <1>7 DEF Iterate, More, Begin
<1>8. CASE LoopEnd
  BY <1>8 DEF LoopEnd, More, Begin
<1>9. CASE Return
  <2>1. CASE step = "ok"
    <3>1. UNCHANGED <<failed, msg>>
      BY <1>9, <2>1 DEF Return
    <3>2. CASE pc = Timed
      <4>1. pc' = "loop" /\ UNCHANGED <<kind, mode, iter, step, ratio, buffers, huffman, lost>>
        BY <1>9, <2>1, <3>2 DEF Return
      <4>2. TypeOK' /\ PlaceInv' /\ SpaceInv' /\ RowInv'
        BY <1>9, <2>1, <3>1, <3>2, <4>1 DEF Return
      <4>3. DataInv'
        <5>1. CASE kind = "Compress"
          BY <2>1, <3>1, <3>2, <4>1, <5>1
        <5>2. CASE kind = "DeCompress"
          BY <2>1, <3>1, <3>2, <4>1, <5>2
        <5> QED
          BY <5>1, <5>2
      <4>4. BlameIsRight' /\ UnflaggedIsSound'
        BY <3>1, <3>2, <4>1
      <4> QED
        BY <4>2, <4>3, <4>4
    <3>3. CASE pc = "compress" /\ kind = "DeCompress"
      BY <1>9, <2>1, <3>1, <3>3 DEF Return
    <3>4. CASE pc = "decompress" /\ kind = "Compress"
      BY <1>9, <2>1, <3>1, <3>4 DEF Return
    <3> QED
      BY <1>9, <3>2, <3>3, <3>4 DEF Return
  <2>2. CASE step = "failed"
    <3>1. failed' = failed \union {pc} /\ msg' = IF msg = "none" THEN pc ELSE msg
      BY <1>9, <2>2 DEF Return, Flagged, Skipped
    <3>2. msg' \notin {"none", "mismatch"} /\ failed' # {}
      BY <1>9, <3>1 DEF Return
    <3>3. TypeOK' /\ PlaceInv' /\ SpaceInv'
      BY <1>9, <2>2, <3>1, <3>2 DEF Return
    <3>4. RowInv' /\ BlameIsRight'
      BY <1>9, <2>2, <3>1, <3>2 DEF Return
    <3>5. DataInv' /\ UnflaggedIsSound'
      BY <3>2
    <3> QED
      BY <3>3, <3>4, <3>5
  <2> QED
    BY <1>9, <2>1, <2>2 DEF Return
<1>10. CASE Verify
  <2>1. TypeOK' /\ PlaceInv' /\ SpaceInv' /\ RowInv' /\ DataInv'
    BY <1>10 DEF Verify, Skipped
  <2>2. BlameIsRight'
    BY <1>10 DEF Verify, Skipped
  <2>3. UnflaggedIsSound'
    <3>1. SUFFICES ASSUME msg' = "none" PROVE UnflaggedIsSound'
      OBVIOUS
    <3>2. msg = "none" /\ dsize = source_size /\ output = "source"
      BY <1>10, <3>1 DEF Verify, Skipped
    <3>3. failed = {} /\ lost = 0
      BY <1>10, <3>2 DEF Verify
    <3>4. ratio = CompLen /\ unset = {}
      <4>1. Compressed /\ Decompressed /\ pc = "verify" /\ UNCHANGED <<ratio, unset>>
        BY <1>10 DEF Verify
      <4>2. compressed_size = CompLen /\ ratio = compressed_size /\ unset = {}
        BY <3>2, <3>3, <4>1
      <4> QED
        BY <4>2
    <3>5. UNCHANGED <<dsize, output, failed, lost, ratio, unset>>
      BY <1>10 DEF Verify
    <3> QED
      BY <3>2, <3>3, <3>4, <3>5
  <2> QED
    BY <2>1, <2>2, <2>3
<1>11. CASE UNCHANGED vars
  BY <1>11 DEF vars
<1> QED
  BY <1>1, <1>2, <1>3, <1>4, <1>5, <1>6, <1>7, <1>8, <1>9, <1>10, <1>11 DEF Next

(* The inductive invariant holds in every state. *)
THEOREM Invariance == Spec => []IInv
<1>1. Init => IInv
  <2> SUFFICES ASSUME Init PROVE IInv
    OBVIOUS
  <2> USE SingleAssumption DEF Init, Reserved, InCall, Timed, Function
  <2>1. TypeOK
    <3>1. silent \in BOOLEAN
      OBVIOUS
    <3>2. compressed_size \in Nat /\ dsize \in 0 .. source_size /\ iter \in 0 .. Iterations
      OBVIOUS
    <3> QED
      BY <3>1, <3>2 DEF TypeOK
  <2>2. PlaceInv /\ SpaceInv /\ RowInv
    BY DEF PlaceInv, SpaceInv, RowInv
  <2>3. DataInv
    BY DEF DataInv, Compressed, Decompressed
  <2>4. UnflaggedIsSound /\ BlameIsRight
    BY DEF UnflaggedIsSound, BlameIsRight
  <2> QED
    BY <2>1, <2>2, <2>3, <2>4 DEF IInv
<1>2. IInv /\ [Next]_vars => IInv'
  BY Preservation
<1> QED
  BY <1>1, <1>2, PTL DEF Spec

(* A row without a message ran only calls that succeeded, on variables     *)
(* that were set, and reproduced its source.                               *)
THEOREM UnflaggedSound == Spec => []UnflaggedIsSound
<1>1. IInv => UnflaggedIsSound
  BY DEF IInv
<1> QED
  BY <1>1, Invariance, PTL

(* Each compress is offered the length the previous image had.  For any    *)
(* source, any length of its image and any wrong ones, and any calls that  *)
(* failed before, the offer stays inside the buffer, and only a silently   *)
(* wrong image can have made it too small for an image the buffer holds.   *)
THEOREM OfferFits == Spec => []OfferedSpaceFits
<1>1. IInv => OfferedSpaceFits
  BY DEF IInv, SpaceInv, OfferedSpaceFits
<1> QED
  BY <1>1, Invariance, PTL

(* The message of a row names the first thing that went wrong. *)
THEOREM BlameSound == Spec => []BlameIsRight
<1>1. IInv => BlameIsRight
  BY DEF IInv
<1> QED
  BY <1>1, Invariance, PTL

(* Every variable keeps its type. *)
THEOREM TypeCorrect == Spec => []TypeOK
<1>1. IInv => TypeOK
  BY DEF IInv
<1> QED
  BY <1>1, Invariance, PTL

(* The row keeps the promise of BenchRow: a call that returns -1 is in the  *)
(* message or behind an earlier one, and only Verify reports the row.      *)
THEOREM RowRefinement == Spec => ImplementsRow
<1>1. Init => Row!Init
  BY DEF Init, Row!Init
<1>2. ASSUME IInv, \/ InitQpl \/ CreateTables \/ ExecuteFails \/ ExecuteCompress
                    \/ ExecuteDecompress \/ FiniQpl \/ Iterate \/ LoopEnd
      PROVE  UNCHANGED Row!rowVars
  BY <1>2 DEF InitQpl, CreateTables, ExecuteFails, ExecuteCompress, ExecuteDecompress,
     FiniQpl, Iterate, LoopEnd, Begin, Timed, InCall, Function, row, Row!rowVars
<1>3. ASSUME IInv, Return PROVE Row!Next
  <2>1. pc # "finished" /\ pc' # "finished" /\ pc \in {"compress", "decompress"}
    BY <1>3 DEF Return, InCall, Function, Timed
  <2>2. /\ failed \subseteq failed' /\ failed' \subseteq {"compress", "decompress"}
        /\ msg' = msg \/ (msg = "none" /\ msg' \in failed')
    BY <1>3, <2>1 DEF Return, Flagged, Skipped, IInv, TypeOK
  <2> QED
    BY <2>1, <2>2 DEF Row!Next, Row!Step
<1>4. ASSUME IInv, Verify PROVE Row!Next
  <2>1. pc = "verify" /\ pc' = "finished" /\ failed' = failed
    BY <1>4 DEF Verify
  <2>2. \/ failed = {} /\ msg = "none" /\ msg' \in {"none", "mismatch"}
        \/ failed # {} /\ msg # "none" /\ msg' = msg
    BY <1>4, <2>1 DEF Verify, Skipped, IInv, RowInv
  <2> QED
    BY <2>1, <2>2 DEF Row!Next, Row!Report
<1>5. UNCHANGED vars => UNCHANGED Row!rowVars
  BY DEF vars, row, Row!rowVars
<1>6. IInv /\ [Next]_vars => [Row!Next]_(Row!rowVars)
  BY <1>2, <1>3, <1>4, <1>5 DEF Next
<1> QED
  BY <1>1, <1>6, Invariance, PTL DEF Spec, ImplementsRow, Row!Spec
===============================================================================
