------------------------ MODULE MultiEngineBenchProofs ------------------------
(***************************************************************************)
(* Proofs about MultiEngineBench, for every source size, 1 to 255 jobs,    *)
(* and any number of iterations.                                           *)
(***************************************************************************)
EXTENDS MultiEngineBench, TLAPS

-------------------------------------------------------------------------------
(* The inductive invariant.                                                *)

\* A compress has returned 0 since the lambda began; so has a decompress.
Compressed ==
  \/ pc \in {"decompress", "verify", "finished"}
  \/ pc = "loop" /\ (kind = "DeCompress" \/ iter < Iterations)
  \/ pc = "compress" /\ phase = "ok"
Decompressed ==
  \/ pc \in {"verify", "finished"}
  \/ pc = "loop" /\ kind = "DeCompress" /\ iter < Iterations
  \/ pc = "decompress" /\ phase = "ok"

PlaceInv ==
  /\ pc = "compress" /\ kind = "Compress" => iter < Iterations
  /\ pc = "decompress" /\ kind = "DeCompress" => iter < Iterations
  /\ pc = "compress" /\ kind = "DeCompress" => iter = Iterations

CallInv ==
  /\ ~InCall => handed = {}
  /\ handed \intersect done = {}
  /\ Call!SuccessIsQuiescent

RowInv ==
  /\ failed # {} => msg # "none"
  /\ msg # "none" /\ failed = {} => pc = "finished" /\ msg = "mismatch"
  /\ msg = "decompress" => "decompress" \in failed
  /\ pc = "compress" \/ (pc = "loop" /\ kind = "Compress") => "decompress" \notin failed
  /\ stray # {} => failed # {}

DataInv ==
  failed = {} =>
    /\ Compressed => trimmed = Chunk
    /\ pc \in {"verify", "finished"} => ratio = "images"
    /\ kind = "DeCompress" /\ pc # "compress" => ratio = "images"
    /\ kind = "Compress" /\ pc = "decompress" => ratio = "images"
    /\ packed = Chunk => (pc = "decompress" => done \subseteq plain)
    /\ packed = Chunk => (Decompressed => plain = Chunk /\ dsize = "mem_size")

IInv ==
  /\ TypeOK /\ PlaceInv /\ CallInv /\ RowInv /\ DataInv
  /\ UnflaggedIsSound /\ BlameIsRight

-------------------------------------------------------------------------------

(* Every step of the benchmark, of the call in progress or of a stray job  *)
(* preserves the inductive invariant.                                      *)
LEMMA Preservation ==
  ASSUME IInv, [Next]_vars PROVE IInv'
<1> USE BenchAssumption
<1> USE DEF IInv, TypeOK, PlaceInv, CallInv, RowInv, DataInv, Compressed,
      Decompressed, InCall, UnflaggedIsSound, BlameIsRight,
      Call!TypeOK, Call!SuccessIsQuiescent, buffers, row
<1>1. CASE Iterate
  BY <1>1 DEF Iterate, More, Begin, Timed
<1>2. CASE LoopEnd
  BY <1>2 DEF LoopEnd, More, Begin, Ratio
<1>3. ASSUME NEW c \in Chunk, Hand(c) PROVE IInv'
  BY <1>3 DEF Hand, Call!Hand
<1>4. ASSUME NEW c \in Chunk, Finish(c) PROVE IInv'
  BY <1>4 DEF Finish, Call!Finish
<1>5. ASSUME NEW c \in Chunk, Drop(c) PROVE IInv'
  BY <1>5 DEF Drop, Call!Drop
<1>6. CASE Succeed
  BY <1>6 DEF Succeed, Call!Succeed
<1>7. CASE Fail
  BY <1>7 DEF Fail, Call!Fail
<1>8. CASE Return
  <2>1. CASE phase = "ok"
    <3>1. UNCHANGED <<failed, msg, stray>> /\ done = Chunk
      BY <1>8, <2>1 DEF Return
    <3>2. TypeOK' /\ PlaceInv' /\ CallInv'
      BY <1>8, <2>1, <3>1 DEF Return, Timed, Ratio
    <3>3. RowInv' /\ BlameIsRight' /\ UnflaggedIsSound'
      BY <1>8, <2>1, <3>1 DEF Return, Timed, Ratio
    <3>4. DataInv'
      BY <1>8, <2>1, <3>1 DEF Return, Timed, Ratio
    <3> QED
      BY <3>2, <3>3, <3>4
  <2>2. CASE phase = "failed"
    <3>1. failed' = failed \union {pc} /\ msg' = IF msg = "none" THEN pc ELSE msg
      BY <1>8, <2>2 DEF Return, Flagged, Skipped
    <3>2. msg' # "mismatch" /\ msg' # "none" /\ failed' # {}
      BY <1>8, <3>1 DEF Return
    <3>3. TypeOK'
      BY <1>8, <2>2, <3>1 DEF Return, Timed, Ratio
    <3>4. PlaceInv' /\ CallInv'
      BY <1>8, <2>2, <3>1, <3>2 DEF Return, Timed, Ratio
    <3>5. RowInv' /\ BlameIsRight'
      BY <1>8, <2>2, <3>1, <3>2 DEF Return, Timed, Ratio
    <3>6. DataInv' /\ UnflaggedIsSound'
      BY <3>2
    <3> QED
      BY <3>3, <3>4, <3>5, <3>6
  <2> QED
    BY <1>8, <2>1, <2>2 DEF Return
<1>9. ASSUME NEW function \in {"compress", "decompress"}, NEW c \in Chunk,
             StrayEnds(function, c)
      PROVE  IInv'
  <2>1. failed # {} /\ msg \notin {"none", "mismatch"}
    BY <1>9 DEF StrayEnds
  <2>2. TypeOK'
    BY <1>9 DEF StrayEnds
  <2>3. PlaceInv' /\ CallInv' /\ RowInv' /\ DataInv' /\ UnflaggedIsSound' /\ BlameIsRight'
    BY <1>9, <2>1 DEF StrayEnds
  <2> QED
    BY <2>2, <2>3
<1>10. CASE Verify
  BY <1>10 DEF Verify, Mismatch, Skipped
<1>11. CASE UNCHANGED vars
  BY <1>11 DEF vars
<1> QED
  BY <1>1, <1>2, <1>3, <1>4, <1>5, <1>6, <1>7, <1>8, <1>9, <1>10, <1>11 DEF Next

(* The inductive invariant holds in every reachable state. *)
THEOREM Invariance == Spec => []IInv
<1>1. Init => IInv
  BY BenchAssumption
  DEF Init, IInv, TypeOK, PlaceInv, CallInv, RowInv, DataInv, Compressed,
      Decompressed, InCall, UnflaggedIsSound, BlameIsRight,
      Call!Init, Call!TypeOK, Call!SuccessIsQuiescent
<1>2. IInv /\ [Next]_vars => IInv'
  BY Preservation
<1> QED
  BY <1>1, <1>2, PTL DEF Spec

(* Whatever fails, an unmarked row is one in which nothing did. *)
THEOREM UnflaggedSound == Spec => []UnflaggedIsSound
<1>1. IInv => UnflaggedIsSound
  BY DEF IInv
<1> QED
  BY <1>1, Invariance, PTL

(* A marked row names the first failure, and "Data missmatch." only a bad  *)
(* image.                                                                  *)
THEOREM BlameSound == Spec => []BlameIsRight
<1>1. IInv => BlameIsRight
  BY DEF IInv, RowInv
<1> QED
  BY <1>1, Invariance, PTL

(* Buffers shared with a stray job belong to marked rows only.             *)
THEOREM SharedFlagged == Spec => []SharedBufferIsFlagged
<1>1. IInv => SharedBufferIsFlagged
  BY DEF IInv, RowInv, SharedBufferIsFlagged
<1> QED
  BY <1>1, Invariance, PTL

(* Every variable keeps its type. *)
THEOREM TypeCorrect == Spec => []TypeOK
<1>1. IInv => TypeOK
  BY DEF IInv
<1> QED
  BY <1>1, Invariance, PTL

-------------------------------------------------------------------------------

(* Multiplication by a natural number is monotonic. *)
LEMMA TimesMonotonic ==
  ASSUME NEW x \in Nat, NEW y \in Nat, NEW q \in Nat, x <= y
  PROVE  x * q <= y * q
<1>1. PICK z \in Nat : y = x + z
  <2>1. y - x \in Nat /\ y = x + (y - x)
    OBVIOUS
  <2> QED
    BY <2>1
<1>2. y * q = x * q + z * q
  BY <1>1
<1>3. z * q \in Nat /\ x * q \in Nat
  OBVIOUS
<1> QED
  BY <1>2, <1>3

(* The chunks tile the source, for every size and every number of jobs the *)
(* loop of the plan can count to (255, from benchmark.h:30): nothing of it *)
(* is left out and nothing is compressed twice.                            *)
THEOREM ChunksTile ==
  ASSUME NEW m \in Nat, NEW n \in CountableJobs
  PROVE  TiledBy(0 .. n - 1, m, n)
<1> DEFINE q == m \div n
           r == m % n
           Last == n - 1
           In(b, c) == SrcOffst(m, n, c) <= b /\ b < SrcOffst(m, n, c) + ChunkSize(m, n, c)
<1>0. n \in Nat \ {0}
  BY DEF CountableJobs
<1>1. q \in Nat /\ r \in Nat /\ m = n * q + r
  BY <1>0
<1> HIDE DEF q, r
<1>2. Last \in Nat /\ n * q = Last * q + q
  BY <1>0, <1>1
<1>3. ASSUME NEW b \in Nat, NEW c \in 0 .. Last
      PROVE  In(b, c) <=> c * q <= b /\ b < c * q + q + (IF c = Last THEN r ELSE 0)
  <2>1. SrcOffst(m, n, c) = c * q
    BY DEF SrcOffst, q
  <2>2. ChunkSize(m, n, c) = q + (IF c = Last THEN r ELSE 0)
    BY DEF ChunkSize, q, r
  <2>3. c * q \in Nat
    BY <1>1, <1>2
  <2> QED
    BY <1>1, <2>1, <2>2, <2>3
<1>4. ASSUME NEW b \in 0 .. m - 1
      PROVE  \E c \in 0 .. Last : In(b, c)
  <2>1. b \in Nat /\ b < Last * q + q + r
    BY <1>1, <1>2
  <2>2. CASE Last * q <= b
    BY <1>2, <1>3, <2>1, <2>2
  <2>3. CASE b < Last * q
    <3>1. q # 0
      BY <1>2, <2>1, <2>3
    <3> DEFINE c == b \div q
    <3>2. c \in Nat /\ c * q <= b /\ b < c * q + q
      BY <1>1, <2>1, <3>1
    <3> HIDE DEF c
    <3>3. c < Last
      <4>1. SUFFICES ASSUME Last <= c PROVE FALSE
        BY <1>2, <3>2
      <4>2. Last * q <= c * q
        BY <1>1, <1>2, <3>2, <4>1, TimesMonotonic
      <4> QED
        BY <1>1, <1>2, <2>1, <2>3, <3>2, <4>2
    <3>4. c \in 0 .. Last
      BY <1>2, <3>2, <3>3
    <3> QED
      BY <1>1, <1>3, <2>1, <3>2, <3>3, <3>4
  <2> QED
    BY <1>1, <1>2, <2>1, <2>2, <2>3
<1>5. ASSUME NEW b \in Nat, NEW c \in 0 .. Last, NEW d \in 0 .. Last,
             In(b, c), In(b, d), c < d
      PROVE  FALSE
  <2>1. b < c * q + q /\ d * q <= b
    BY <1>1, <1>2, <1>3, <1>5
  <2>2. (c + 1) * q <= d * q
    BY <1>1, <1>2, <1>5, TimesMonotonic
  <2>3. (c + 1) * q = c * q + q
    BY <1>1, <1>2
  <2>4. c * q \in Nat /\ d * q \in Nat
    BY <1>1, <1>2
  <2> QED
    BY <1>1, <2>1, <2>2, <2>3, <2>4
<1>6. ASSUME NEW b \in Nat, NEW c \in 0 .. Last, NEW d \in 0 .. Last,
             In(b, c), In(b, d)
      PROVE  d = c
  <2>1. c \in Int /\ d \in Int
    BY <1>2
  <2>2. ~(c < d) /\ ~(d < c)
    BY <1>5, <1>6
  <2> QED
    BY <2>1, <2>2
<1>7. \A b \in 0 .. m - 1 : b \in Nat
  BY <1>1
<1> HIDE DEF In
<1>8. \A b \in 0 .. m - 1 : \E c \in 0 .. Last :
        In(b, c) /\ \A d \in 0 .. Last : In(b, d) => d = c
  BY <1>4, <1>6, <1>7
<1> QED
  BY <1>8 DEF TiledBy, In

(* A call that returns 0 has processed every byte of the source once: all  *)
(* chunks of the plan are done, and they tile the source.                  *)
THEOREM BytesDone == Spec => []EveryByteOnce
<1>1. IInv => EveryByteOnce
  <2>1. TiledBy(Chunk, mem_size, job_n)
    BY ChunksTile, BenchAssumption DEF Chunk
  <2> QED
    BY <2>1 DEF IInv, CallInv, Call!SuccessIsQuiescent, EveryByteOnce
<1> QED
  BY <1>1, Invariance, PTL

(* The row keeps the promise of BenchRow: a call that returns -1 is in the  *)
(* message or behind an earlier one, and only Verify reports the row.      *)
THEOREM RowRefinement == Spec => ImplementsRow
<1>1. Init => Row!Init
  BY DEF Init, Row!Init
<1>2. ASSUME IInv,
             \/ Iterate \/ LoopEnd \/ Succeed \/ Fail
             \/ \E c \in Chunk : Hand(c) \/ Finish(c) \/ Drop(c)
             \/ \E function \in {"compress", "decompress"}, c \in Chunk :
                  StrayEnds(function, c)
      PROVE  UNCHANGED Row!rowVars
  BY <1>2 DEF Iterate, LoopEnd, Succeed, Fail, Hand, Finish, Drop, StrayEnds, Begin,
     Timed, InCall, row, Row!rowVars
<1>3. ASSUME IInv, Return PROVE Row!Next
  <2>1. pc # "finished" /\ pc' # "finished" /\ pc \in {"compress", "decompress"}
    BY <1>3 DEF Return, InCall, Timed
  <2>2. /\ failed \subseteq failed' /\ failed' \subseteq {"compress", "decompress"}
        /\ msg' = msg \/ (msg = "none" /\ msg' \in failed')
    BY <1>3, <2>1 DEF Return, Flagged, Skipped, IInv, TypeOK
  <2> QED
    BY <2>1, <2>2 DEF Row!Next, Row!Step
<1>4. ASSUME IInv, Verify PROVE Row!Next
  <2>1. pc = "verify" /\ pc' = "finished" /\ failed' = failed
    BY <1>4 DEF Verify
  <2>2. \/ failed = {} /\ msg = "none" /\ msg' \in {"none", "mismatch"}
        \/ failed # {} /\ msg # "none" /\ msg' = msg
    BY <1>4, <2>1 DEF Verify, Skipped, IInv, RowInv
  <2> QED
    BY <2>1, <2>2 DEF Row!Next, Row!Report
<1>5. UNCHANGED vars => UNCHANGED Row!rowVars
  BY DEF vars, row, Row!rowVars
<1>6. IInv /\ [Next]_vars => [Row!Next]_(Row!rowVars)
  BY <1>2, <1>3, <1>4, <1>5 DEF Next
<1> QED
  BY <1>1, <1>6, Invariance, PTL DEF Spec, ImplementsRow, Row!Spec
===============================================================================
