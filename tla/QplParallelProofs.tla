-------------------------- MODULE QplParallelProofs ---------------------------
(***************************************************************************)
(* Proofs about QplParallel, for every number of jobs, every chunking,     *)
(* every queue size and every width of the accumulator.                    *)
(***************************************************************************)
EXTENDS QplParallel, FiniteSetTheorems, TLAPS

USE DEF call

-------------------------------------------------------------------------------
(* The inductive invariant.                                                *)

LiveInv ==
  /\ pc \in {"table", "submit", "wait", "poll"} => live = JobCount
  /\ pc = "fini" => live = JobCount - k /\ op = "compress"
  /\ pc = "ok" /\ op = "compress" => live = 0

DoneInv ==
  /\ \A c \in cmpl :
       /\ c < JobCount
       /\ dev[c] = "ok"
       /\ op = "compress" => size[c] = CompLen[c]
  /\ \A c \in Chunk : dev[c] = "ok" =>
       /\ op = "compress" => c \in packed /\ out[c] = CompLen[c]
       /\ op = "decompress" /\ c \in packed => c \in plain
  /\ pc \in {"fini", "ok"} => cmpl = Chunk

SubmittedInv ==
  /\ pc \in {"job_size", "init", "table"} =>
       k = 0 /\ \A c \in Chunk : dev[c] = "idle"
  /\ pc = "submit" => \A c \in Chunk : dev[c] # "idle" <=> c < k
  /\ pc \in {"wait", "poll"} =>
       \A c \in Chunk : c < JobCount => dev[c] # "idle"

RegionInv == \A c \in Chunk : dev[c] # "idle" => from[c] + ChunkSize[c] <= offst

Disjoint ==
  \A i, j \in Chunk : i # j /\ dev[i] # "idle" /\ dev[j] # "idle" =>
    from[i] + ChunkSize[i] <= from[j] \/ from[j] + ChunkSize[j] <= from[i]

FaultInv ==
  /\ pc # "failed" => faults = {}
  /\ pc = "failed" /\ JobCount # 0 => faults # {}

TableInv ==
  NeedsTable /\ pc \in {"submit", "wait", "poll", "fini", "ok"} => table = "ready"

IInv ==
  /\ TypeOK
  /\ LiveInv
  /\ DoneInv
  /\ SubmittedInv
  /\ RegionInv /\ Disjoint
  /\ FaultInv
  /\ TableInv /\ TableHygiene
  /\ ReserveSuffices

-------------------------------------------------------------------------------

(* The number of jobs, a uint8_t, wraps: it is never more than the number  *)
(* of chunks and always less than 2^8.                                     *)
LEMMA JobCountBounds ==
  /\ JobCount \in Nat
  /\ JobCount < ByteMod
  /\ JobCount <= ThreadCount
  /\ \A c \in 0 .. JobCount - 1 : c \in Chunk
  /\ \A c \in Chunk : c \in Nat
<1>1. ThreadCount \in Nat /\ ByteMod \in Nat \ {0}
  BY ConstantsAssumption
<1>2. JobCount \in Nat /\ JobCount < ByteMod /\ JobCount <= ThreadCount
  BY <1>1 DEF JobCount
<1> QED
  BY <1>1, <1>2 DEF Chunk

(* The test of the wait loop is sound: the uint8_t sum of the completion   *)
(* flags equals thread_count only when every chunk has been reaped.        *)
LEMMA AllReapedMeansAll ==
  ASSUME cmpl \in SUBSET (0 .. JobCount - 1), AllReaped
  PROVE  cmpl = Chunk
<1> DEFINE Job == 0 .. JobCount - 1
<1>1. ThreadCount \in Nat /\ ByteMod \in Nat \ {0}
  BY ConstantsAssumption
<1>2. IsFiniteSet(Job) /\ Cardinality(Job) = JobCount
  <2>1. 0 \in Int /\ JobCount - 1 \in Int
    BY JobCountBounds
  <2>2. /\ IsFiniteSet(Job)
        /\ Cardinality(Job) = IF 0 > JobCount - 1 THEN 0 ELSE (JobCount - 1) - 0 + 1
    BY <2>1, FS_Interval
  <2> QED
    BY <2>2, JobCountBounds
<1>3. /\ IsFiniteSet(cmpl)
      /\ Cardinality(cmpl) <= JobCount
      /\ JobCount = Cardinality(cmpl) => Job = cmpl
  BY <1>2, FS_Subset
<1>4. Cardinality(cmpl) \in Nat
  BY <1>3, FS_CardinalityType
<1> HIDE DEF Job
<1>5. Cardinality(cmpl) % ByteMod = Cardinality(cmpl)
  <2> DEFINE n == Cardinality(cmpl)
  <2>1. n \in Nat /\ n < ByteMod
    BY <1>3, <1>4, JobCountBounds, <1>1
  <2> HIDE DEF n
  <2>2. n % ByteMod = n
    BY <2>1, <1>1
  <2> QED
    BY <2>2 DEF n
<1>6. Cardinality(cmpl) = ThreadCount
  BY <1>5 DEF AllReaped
<1>7. JobCount = ThreadCount
  BY <1>1, <1>3, <1>4, <1>6, JobCountBounds
<1> QED
  BY <1>3, <1>6, <1>7 DEF Job, Chunk

-------------------------------------------------------------------------------

(* Every step of the thread or of the accelerator preserves the inductive  *)
(* invariant.                                                              *)
LEMMA Preservation ==
  ASSUME IInv, [Next]_vars PROVE IInv'
<1> USE ConstantsAssumption, JobCountBounds
<1> USE DEF IInv, TypeOK, LiveInv, DoneInv, SubmittedInv, RegionInv, FaultInv,
      TableInv, TableHygiene, ReserveSuffices, Disjoint, NeedsTable, Call,
      TableCall
<1>1. CASE GetJobSize
  BY <1>1 DEF GetJobSize, Reported, Checked, Outcome, device
<1>2. CASE InitJob
  BY <1>2 DEF InitJob, Reported, Checked, Outcome, MoreToInit, device
<1>3. CASE InitDone
  BY <1>3 DEF InitDone, device
<1>4. CASE CreateTable
  BY <1>4 DEF CreateTable, Reported, Checked, Outcome, device
<1>5. CASE GatherStatistics
  BY <1>5 DEF GatherStatistics, Reported, Checked, Outcome, Destroyed, device
<1>6. CASE PopulateTable
  BY <1>6 DEF PopulateTable, Reported, Checked, Outcome, Destroyed, device
<1>7. CASE SubmitJob
  <2>1. k \in Nat /\ k \in Chunk /\ dev[k] = "idle" /\ k + 1 \in 0 .. JobCount
    BY <1>7 DEF SubmitJob
  <2>2. /\ dev'[k] = "queued"
        /\ from'[k] = offst
        /\ offst' = offst + ChunkSize[k]
        /\ k' = k + 1
        /\ \A c \in Chunk \ {k} : dev'[c] = dev[c] /\ from'[c] = from[c]
    BY <1>7, <2>1 DEF SubmitJob, NextOffst
  <2>3. TypeOK' /\ LiveInv' /\ DoneInv' /\ FaultInv'
    BY <1>7, <2>1 DEF SubmitJob, NextOffst
  <2>4. SubmittedInv'
    <3>1. pc = "submit" /\ pc' = "submit"
      BY <1>7 DEF SubmitJob
    <3>2. ASSUME NEW c \in Chunk PROVE dev'[c] # "idle" <=> c < k + 1
      BY <2>1, <2>2, <3>1, <3>2
    <3> QED
      BY <2>2, <3>1, <3>2
  <2>5. RegionInv' /\ Disjoint'
    BY <1>7, <2>1, <2>2
  <2>6. TableInv' /\ TableHygiene' /\ ReserveSuffices'
    BY <1>7 DEF SubmitJob
  <2> QED
    BY <2>3, <2>4, <2>5, <2>6
<1>8. CASE SubmitRefused
  BY <1>8 DEF SubmitRefused, Reported, Checked, device
<1>9. CASE SubmitDone
  BY <1>9 DEF SubmitDone, device
<1>10. CASE WaitAgain
  BY <1>10 DEF WaitAgain, device
<1>11. CASE WaitDone
  <2>1. cmpl \in SUBSET (0 .. JobCount - 1)
    BY DEF Chunk
  <2>2. cmpl = Chunk
    BY <1>11, <2>1, AllReapedMeansAll DEF WaitDone
  <2> QED
    BY <1>11, <2>2 DEF WaitDone, AfterWait, device
<1>12. CASE PollSkip
  BY <1>12 DEF PollSkip, device
<1>13. CASE PollFailed
  BY <1>13 DEF PollFailed, Reported, Checked, Succeeded, BeingProcessed, device
<1>14. CASE PollReap
  BY <1>14 DEF PollReap, Succeeded, device
<1>15. CASE PollEnd
  BY <1>15 DEF PollEnd, device
<1>16. CASE FiniJob
  BY <1>16 DEF FiniJob, Reported, Checked, Outcome, device
<1>17. CASE FiniDone
  BY <1>17 DEF FiniDone, device
<1>18. ASSUME NEW c \in Chunk, Dispatch(c) PROVE IInv'
  BY <1>18 DEF Dispatch, thread
<1>19. ASSUME NEW c \in Chunk, FinishCompress(c) PROVE IInv'
  BY <1>19 DEF FinishCompress, thread
<1>20. ASSUME NEW c \in Chunk, FinishDecompress(c) PROVE IInv'
  BY <1>20 DEF FinishDecompress, thread
<1>21. ASSUME NEW c \in Chunk, Abort(c) PROVE IInv'
  BY <1>21 DEF Abort, thread
<1>22. CASE UNCHANGED vars
  BY <1>22 DEF vars, thread, device
<1> QED
  BY <1>1, <1>2, <1>3, <1>4, <1>5, <1>6, <1>7, <1>8, <1>9, <1>10, <1>11, <1>12, <1>13, <1>14, <1>15, <1>16, <1>17, <1>18, <1>19, <1>20, <1>21, <1>22
  DEF Next, Thread, Accelerator, Init_qpl, HuffmanTables, Submit, Wait,
      Free_qpl, Complete

(* The inductive invariant holds in every reachable state. *)
THEOREM Invariance == Spec => []IInv
<1>1. Init => IInv
  <2> USE ConstantsAssumption, JobCountBounds
  <2> SUFFICES ASSUME Init PROVE IInv
    OBVIOUS
  <2>1. size \in [Chunk -> Nat] /\ ReserveSuffices
    BY DEF Init, ReserveSuffices
  <2> QED
    BY <2>1 DEF Init, IInv, TypeOK, LiveInv, DoneInv, SubmittedInv, RegionInv,
      Disjoint, FaultInv, TableInv, TableHygiene, NeedsTable
<1>2. IInv /\ [Next]_vars => IInv'
  BY Preservation
<1> QED
  BY <1>1, <1>2, PTL DEF Spec

-------------------------------------------------------------------------------

(* Every variable keeps its type; in particular the cursor never leaves    *)
(* the vectors it indexes and the count of live jobs never goes negative.  *)
THEOREM TypeCorrect == Spec => []TypeOK
<1>1. IInv => TypeOK
  BY DEF IInv
<1> QED
  BY <1>1, Invariance, PTL

(* A call that returns 0 has waited for every chunk, whatever the width of *)
(* the accumulator that counts them.                                       *)
THEOREM SuccessIsSound == Spec => []SuccessIsComplete
<1>1. IInv => SuccessIsComplete
  BY DEF IInv, LiveInv, DoneInv, SuccessIsComplete
<1> QED
  BY <1>1, Invariance, PTL

(* The vectors stay large enough for the next iteration.                   *)
THEOREM SpaceKept == Spec => []ReserveSuffices
<1>1. IInv => ReserveSuffices
  BY DEF IInv
<1> QED
  BY <1>1, Invariance, PTL

(* Failed table creation leaves no table, and no canned job runs without.  *)
THEOREM TablesHandled == Spec => []TableHygiene
<1>1. IInv => TableHygiene
  BY DEF IInv
<1> QED
  BY <1>1, Invariance, PTL

(* As long as thread_count is not a multiple of 2^8, the result is -1 if   *)
(* and only if some QPL call reported an error.                            *)
THEOREM StatusSound ==
  ASSUME JobCount # 0
  PROVE  Spec => []StatusIsFaithful
<1>1. IInv => StatusIsFaithful
  BY DEF IInv, FaultInv, StatusIsFaithful
<1> QED
  BY <1>1, Invariance, PTL

-------------------------------------------------------------------------------
(* Sums over chunks, counted as bytes.                                     *)

(* A set of chunks has finitely many bytes, and not more than all chunks.  *)
LEMMA BytesFinite ==
  ASSUME NEW S \in SUBSET Chunk
  PROVE  /\ IsFiniteSet(Bytes(S))
         /\ Cardinality(Bytes(S)) \in Nat
         /\ MemSize \in Nat
         /\ Cardinality(Bytes(S)) <= MemSize
<1> DEFINE BytesOf == [c \in Chunk |-> {c} \X (1 .. ChunkSize[c])]
           All == {{c} \X (1 .. ChunkSize[c]) : c \in Chunk}
<1>1. IsFiniteSet(Chunk)
  <2>1. 0 \in Int /\ ThreadCount - 1 \in Int
    BY ConstantsAssumption
  <2> QED
    BY <2>1, FS_Interval DEF Chunk
<1>2. IsFiniteSet(All)
  <2>1. BytesOf \in Surjection(Chunk, All)
    BY DEF Surjection
  <2> HIDE DEF BytesOf, All
  <2> QED
    BY <1>1, <2>1, FS_Surjection
<1>3. ASSUME NEW c \in Chunk
      PROVE  IsFiniteSet({c} \X (1 .. ChunkSize[c]))
  <2>1. 1 \in Int /\ ChunkSize[c] \in Int
    BY ConstantsAssumption
  <2>2. IsFiniteSet(1 .. ChunkSize[c]) /\ IsFiniteSet({c})
    BY <2>1, FS_Interval, FS_Singleton
  <2> QED
    BY <2>2, FS_Product
<1>4. IsFiniteSet(Bytes(Chunk))
  <2>1. \A T \in All : IsFiniteSet(T)
    BY <1>3
  <2>2. Bytes(Chunk) = UNION All
    BY DEF Bytes
  <2> HIDE DEF All
  <2> QED
    BY <1>2, <2>1, <2>2, FS_UNION
<1>5. Bytes(S) \in SUBSET Bytes(Chunk)
  BY DEF Bytes
<1>6. IsFiniteSet(Bytes(S)) /\ Cardinality(Bytes(S)) <= MemSize
  BY <1>4, <1>5, FS_Subset DEF MemSize
<1> QED
  BY <1>4, <1>6, FS_CardinalityType DEF MemSize

(* One more chunk adds its size. *)
LEMMA BytesAdd ==
  ASSUME NEW S \in SUBSET Chunk, NEW c \in Chunk \ S
  PROVE  Cardinality(Bytes(S \union {c})) = Cardinality(Bytes(S)) + ChunkSize[c]
<1> DEFINE New == {c} \X (1 .. ChunkSize[c])
<1>1. ChunkSize[c] \in Nat
  BY ConstantsAssumption
<1>2. IsFiniteSet(New) /\ Cardinality(New) = ChunkSize[c]
  <2>1. 1 \in Int /\ ChunkSize[c] \in Int
    BY <1>1
  <2>2. /\ IsFiniteSet(1 .. ChunkSize[c])
        /\ Cardinality(1 .. ChunkSize[c]) = IF 1 > ChunkSize[c] THEN 0 ELSE ChunkSize[c] - 1 + 1
    BY <2>1, FS_Interval
  <2>3. Cardinality(1 .. ChunkSize[c]) = ChunkSize[c]
    BY <1>1, <2>2
  <2>4. IsFiniteSet({c}) /\ Cardinality({c}) = 1
    BY FS_Singleton
  <2>5. /\ IsFiniteSet({c} \X (1 .. ChunkSize[c]))
        /\ Cardinality({c} \X (1 .. ChunkSize[c]))
             = Cardinality({c}) * Cardinality(1 .. ChunkSize[c])
    BY <2>2, <2>4, FS_Product
  <2> QED
    BY <1>1, <2>3, <2>4, <2>5
<1>3. Bytes(S \union {c}) = Bytes(S) \union New
  BY DEF Bytes
<1>4. Bytes(S) \intersect New = {}
  BY DEF Bytes
<1>5. IsFiniteSet(Bytes(S)) /\ Cardinality(Bytes(S)) \in Nat
  BY BytesFinite
<1> HIDE DEF New
<1>6. Cardinality(Bytes(S) \union New)
        = Cardinality(Bytes(S)) + Cardinality(New) - Cardinality(Bytes(S) \intersect New)
  BY <1>2, <1>5, FS_Union
<1>7. Cardinality(Bytes(S) \intersect New) = 0
  BY <1>4, FS_EmptySet
<1>8. Cardinality(Bytes(S) \union New) = Cardinality(Bytes(S)) + ChunkSize[c]
  BY <1>1, <1>2, <1>5, <1>6, <1>7
<1> QED
  BY <1>3, <1>8

\* What the offset, the sum and the caller's variable amount to.
Submitted == {c \in Chunk : dev[c] # "idle"}
SumInv ==
  /\ offst = Cardinality(Bytes(Submitted))
  /\ op = "decompress" /\ packed = Chunk =>
       /\ \A c \in Chunk : dev[c] = "ok" => out[c] = ChunkSize[c]
       /\ total = Cardinality(Bytes(cmpl))
       /\ pc = "ok" => actual = total
  /\ op = "decompress" /\ pc # "ok" => actual = 0

(* The offset grows with each submission by the chunk submitted, the sum   *)
(* with each reaping by the chunk reaped.                                  *)
LEMMA SumKeeps ==
  ASSUME IInv, SumInv, [Next]_vars
  PROVE  SumInv'
<1> USE ConstantsAssumption, JobCountBounds DEF IInv, TypeOK
<1>1. CASE SubmitJob
  <2>1. k \in Chunk /\ dev[k] = "idle"
    BY <1>1 DEF SubmitJob, SubmittedInv
  <2>2. Submitted \in SUBSET Chunk /\ k \in Chunk \ Submitted
    BY <2>1 DEF Submitted
  <2>3. Submitted' = Submitted \union {k}
    BY <1>1, <2>1 DEF SubmitJob, Submitted
  <2>4. Cardinality(Bytes(Submitted \union {k})) = offst + ChunkSize[k]
    BY <2>2, BytesAdd DEF SumInv
  <2>5. offst' = Cardinality(Bytes(Submitted)')
    BY <1>1, <2>3, <2>4 DEF SubmitJob, NextOffst, Bytes
  <2>6. \A c \in Chunk : dev'[c] = "ok" => dev[c] = "ok"
    BY <1>1 DEF SubmitJob
  <2> QED
    BY <1>1, <2>5, <2>6 DEF SumInv, SubmitJob, Bytes, call
<1>2. CASE PollReap
  <2>1. k \in Chunk \ cmpl /\ dev[k] = "ok"
    BY <1>2 DEF PollReap, Reaped, Succeeded
  <2>2. Cardinality(Bytes(cmpl \union {k})) = Cardinality(Bytes(cmpl)) + ChunkSize[k]
    BY <2>1, BytesAdd
  <2> QED
    BY <1>2, <2>1, <2>2 DEF SumInv, PollReap, Submitted, Bytes, device, call
<1>3. CASE WaitDone
  BY <1>3 DEF SumInv, WaitDone, AfterWait, Submitted, Bytes, device, call
<1>4. ASSUME NEW c \in Chunk, Dispatch(c) \/ Complete(c)
      PROVE  SumInv'
  <2>1. Submitted' = Submitted
    BY <1>4 DEF Submitted, Dispatch, Complete, FinishCompress, FinishDecompress, Abort
  <2>2. Bytes(Submitted)' = Bytes(Submitted) /\ Bytes(cmpl)' = Bytes(cmpl)
    BY <1>4, <2>1 DEF Bytes, Dispatch, Complete, FinishCompress, FinishDecompress, Abort, thread
  <2>3. CASE op = "compress"
    BY <1>4, <2>2, <2>3 DEF SumInv, Dispatch, Complete, FinishCompress, FinishDecompress, Abort,
                            thread
  <2>4. CASE op = "decompress" /\ FinishDecompress(c)
    <3>1. packed' = packed
      BY <2>4 DEF FinishDecompress
    <3>2. packed = Chunk => out' = [out EXCEPT ![c] = ChunkSize[c]]
      BY <2>4 DEF FinishDecompress
    <3> QED
      BY <2>2, <2>4, <3>1, <3>2 DEF SumInv, FinishDecompress, thread
  <2>5. CASE op = "decompress" /\ (Dispatch(c) \/ Abort(c))
    BY <2>2, <2>5 DEF SumInv, Dispatch, Abort, thread
  <2> QED
    BY <1>4, <2>3, <2>4, <2>5 DEF Complete, FinishCompress
<1>5. CASE /\ UNCHANGED <<op, packed, dev, out, offst, total, cmpl, actual>>
           /\ pc' = "ok" => pc = "ok" \/ op = "compress"
           /\ pc = "ok" => pc' = "ok"
  BY <1>5 DEF SumInv, Submitted, Bytes
<1>6. CASE UNCHANGED vars
  BY <1>5, <1>6 DEF vars, thread, device, call
<1>7. CASE Free_qpl
  BY <1>5, <1>7 DEF LiveInv, Free_qpl, FiniJob, FiniDone, Checked, device, call
<1>8. CASE Init_qpl \/ HuffmanTables \/ SubmitRefused \/ SubmitDone \/ WaitAgain
           \/ PollSkip \/ PollFailed \/ PollEnd
  BY <1>5, <1>8 DEF Init_qpl, HuffmanTables, GetJobSize, InitJob, InitDone, CreateTable,
       GatherStatistics, PopulateTable, SubmitRefused, SubmitDone, WaitAgain, PollSkip,
       PollFailed, PollEnd, Checked, device, call
<1> QED
  BY <1>1, <1>2, <1>3, <1>4, <1>6, <1>7, <1>8
  DEF Next, Thread, Accelerator, Submit, Wait

(* The offset, the sum and the result are what they should be. *)
LEMMA SumInvariance == Spec => []SumInv
<1>1. Init => SumInv
  <2>1. Bytes({}) = {} /\ Cardinality({}) = 0
    BY FS_EmptySet DEF Bytes
  <2> SUFFICES ASSUME Init PROVE SumInv
    OBVIOUS
  <2>2. Submitted = {}
    BY DEF Init, Submitted
  <2> QED
    BY <2>1, <2>2 DEF Init, SumInv
<1>2. IInv /\ SumInv /\ [Next]_vars => SumInv'
  BY SumKeeps
<1> QED
  BY <1>1, <1>2, Invariance, PTL DEF Spec

(* Submitted jobs own disjoint regions inside the contiguous buffer.       *)
THEOREM RegionsDisjoint == Spec => []NoOverlap
<1>1. IInv /\ SumInv => NoOverlap
  <2> SUFFICES ASSUME IInv, SumInv, NEW i \in Chunk, dev[i] # "idle"
               PROVE  from[i] + ChunkSize[i] <= MemSize
    BY DEF NoOverlap, IInv, Disjoint
  <2>1. Submitted \in SUBSET Chunk
    BY DEF Submitted
  <2>2. offst <= MemSize /\ MemSize \in Nat
    BY <2>1, BytesFinite DEF SumInv
  <2> QED
    BY <2>2, ConstantsAssumption DEF IInv, TypeOK, RegionInv
<1> QED
  BY <1>1, Invariance, SumInvariance, PTL

(* However the completions are interleaved with the polls, a decompress    *)
(* that returns 0 reports the size of the whole source.                    *)
THEOREM SizeReported == Spec => []DecompressedSize
<1>1. IInv /\ SumInv => DecompressedSize
  BY DEF IInv, DoneInv, SumInv, DecompressedSize, MemSize
<1> QED
  BY <1>1, Invariance, SumInvariance, PTL

\* Calls that are asked nothing impossible have one reason to fail.
Feasible == ~faulty /\ (op = "decompress" => packed = Chunk)
QuietInv == Feasible => /\ pc = "failed" => faults = {"qpl_submit_job"} /\ k >= WQSize
                        /\ \A c \in Chunk : dev[c] # "bad"

(* The queues never hold more jobs than were submitted before, however     *)
(* slowly the engines empty them.                                          *)
LEMMA QueuesSuffice ==
  ASSUME IInv, pc = "submit", k < JobCount, Cardinality(Queued) >= WQSize
  PROVE  k >= WQSize
<1> USE ConstantsAssumption, JobCountBounds
<1>1. k \in Nat
  BY DEF IInv, TypeOK
<1>2. Queued \subseteq 0 .. k - 1
  BY DEF IInv, SubmittedInv, TypeOK, Queued, Chunk
<1>3. IsFiniteSet(0 .. k - 1) /\ Cardinality(0 .. k - 1) = k
  <2>1. 0 \in Int /\ k - 1 \in Int
    BY <1>1
  <2>2. /\ IsFiniteSet(0 .. k - 1)
        /\ Cardinality(0 .. k - 1) = IF 0 > k - 1 THEN 0 ELSE (k - 1) - 0 + 1
    BY <2>1, FS_Interval
  <2> QED
    BY <1>1, <2>2
<1>4. IsFiniteSet(Queued) /\ Cardinality(Queued) <= k
  BY <1>2, <1>3, FS_Subset
<1>5. Cardinality(Queued) \in Nat
  BY <1>4, FS_CardinalityType
<1> QED
  BY <1>1, <1>4, <1>5

(* No step of a feasible call fails, except where a queue is full.         *)
LEMMA QuietKeeps ==
  ASSUME JobCount # 0, IInv, QuietInv, [Next]_vars
  PROVE  QuietInv'
<1> SUFFICES ASSUME Feasible'
             PROVE  /\ pc' = "failed" => faults' = {"qpl_submit_job"} /\ k' >= WQSize
                    /\ \A c \in Chunk : dev'[c] # "bad"
  BY DEF QuietInv, Feasible
<1> USE ConstantsAssumption, JobCountBounds DEF Feasible, Outcome, Checked, device, thread
<1>0. UNCHANGED faulty /\ UNCHANGED op /\ (op = "decompress" => UNCHANGED packed)
  BY DEF Next, Thread, Accelerator, Init_qpl, HuffmanTables, Submit, Wait, Free_qpl, Complete,
         GetJobSize, InitJob, InitDone, CreateTable, GatherStatistics, PopulateTable, SubmitJob,
         SubmitRefused, SubmitDone, WaitAgain, WaitDone, PollSkip, PollFailed, PollReap, PollEnd,
         FiniJob, FiniDone, Dispatch, FinishCompress, FinishDecompress, Abort, vars
<1>1. Feasible
  BY <1>0, Zenon
<1>2. /\ pc = "failed" => faults = {"qpl_submit_job"} /\ k >= WQSize
      /\ \A c \in Chunk : dev[c] # "bad"
  BY <1>1 DEF QuietInv
<1>3. CASE Init_qpl \/ HuffmanTables
  BY <1>1, <1>2, <1>3 DEF Init_qpl, HuffmanTables, GetJobSize, InitJob, InitDone, CreateTable,
                          GatherStatistics, PopulateTable
<1>4. CASE Submit
  <2>1. CASE SubmitJob
    BY <1>2, <2>1 DEF SubmitJob, IInv, TypeOK
  <2>2. CASE SubmitRefused
    <3>1. faults = {}
      BY <2>2 DEF SubmitRefused, IInv, FaultInv
    <3>2. k >= WQSize
      BY <1>1, <2>2, QueuesSuffice DEF SubmitRefused
    <3> QED
      BY <1>2, <2>2, <3>1, <3>2 DEF SubmitRefused, Reported
  <2>3. CASE SubmitDone
    BY <1>2, <2>3 DEF SubmitDone
  <2> QED
    BY <1>4, <2>1, <2>2, <2>3 DEF Submit
<1>5. CASE Wait
  <2>1. CASE PollFailed
    <3>1. k \in Chunk /\ dev[k] \in {"idle", "bad"}
      BY <2>1 DEF PollFailed, BeingProcessed, Succeeded, IInv, TypeOK
    <3>2. dev[k] # "idle"
      BY <2>1, <3>1 DEF PollFailed, IInv, SubmittedInv
    <3> QED
      BY <1>2, <3>1, <3>2
  <2> QED
    BY <1>2, <1>5, <2>1 DEF Wait, WaitAgain, WaitDone, AfterWait, PollSkip, PollReap, PollEnd
<1>6. CASE Free_qpl
  BY <1>1, <1>2, <1>6 DEF Free_qpl, FiniJob, FiniDone
<1>7. CASE Accelerator
  <2> PICK c \in Chunk : Dispatch(c) \/ Complete(c)
    BY <1>7 DEF Accelerator
  <2>1. ~Abort(c)
    BY <1>1 DEF Abort, IInv, ReserveSuffices, TypeOK
  <2> QED
    BY <1>2, <2>1 DEF Complete, Dispatch, FinishCompress, FinishDecompress, IInv, TypeOK
<1>8. CASE UNCHANGED vars
  BY <1>2, <1>8 DEF vars
<1> QED
  BY <1>3, <1>4, <1>5, <1>6, <1>7, <1>8 DEF Next, Thread

(* Without faults, and as long as thread_count is not a multiple of 2^8, a *)
(* call on valid inputs fails only because a queue is full, and never      *)
(* before its WQSize-th job.                                               *)
THEOREM NoSpuriousFailure ==
  ASSUME JobCount # 0
  PROVE  Spec => []FailsOnlyWhenFull
<1>1. Init => QuietInv
  BY DEF Init, QuietInv
<1>2. IInv /\ QuietInv /\ [Next]_vars => QuietInv'
  BY QuietKeeps
<1>3. QuietInv => FailsOnlyWhenFull
  BY DEF QuietInv, Feasible, FailsOnlyWhenFull
<1> QED
  BY <1>1, <1>2, <1>3, Invariance, PTL DEF Spec

(* The thread leaves the buffers of jobs in flight alone.                  *)
THEOREM BuffersUntouched == Spec => BuffersStable
<1> DEFINE Stable == \A c \in InFlight : size'[c] = size[c] /\ from'[c] = from[c]
<1>1. IInv /\ [Next]_vars => [Stable]_vars
  <2> SUFFICES ASSUME IInv, Next, NEW c \in InFlight
               PROVE  size'[c] = size[c] /\ from'[c] = from[c]
    OBVIOUS
  <2> USE DEF IInv, TypeOK, InFlight, Queued, Running
  <2>1. CASE SubmitJob
    <3>1. dev[k] = "idle"
      BY <2>1, JobCountBounds DEF SubmitJob, SubmittedInv
    <3> QED
      BY <2>1, <3>1 DEF SubmitJob
  <2>2. CASE PollReap
    BY <2>2 DEF PollReap, Succeeded
  <2>3. CASE UNCHANGED <<size, from>>
    BY <2>3
  <2> QED
    BY <2>1, <2>2, <2>3 DEF Next, Thread, Accelerator, Init_qpl, HuffmanTables,
      Submit, Wait, Free_qpl, Complete, GetJobSize, InitJob, InitDone,
      CreateTable, GatherStatistics, PopulateTable, SubmitRefused, SubmitDone,
      WaitAgain, WaitDone, PollSkip, PollFailed, PollEnd, FiniJob, FiniDone,
      Dispatch, FinishCompress, FinishDecompress, Abort, thread
<1> QED
  BY <1>1, Invariance, PTL DEF Spec, BuffersStable

-------------------------------------------------------------------------------

(* A return is final: no step follows it in the thread. *)
LEMMA ReturnIsFinal ==
  ASSUME [Next]_vars, pc \in {"ok", "failed"} PROVE pc' = pc
<1> QED
  BY DEF Next, vars, Thread, Accelerator, Init_qpl, HuffmanTables,
    Submit, Wait, Free_qpl, Complete, GetJobSize, InitJob, InitDone,
    CreateTable, GatherStatistics, PopulateTable, SubmitJob, SubmitRefused,
    SubmitDone, WaitAgain, WaitDone, PollSkip, PollFailed, PollReap, PollEnd,
    FiniJob, FiniDone, Dispatch, FinishCompress, FinishDecompress, Abort,
    thread, device

(* Only submissions and the accelerator change what the device holds. *)
LEMMA DeviceSteps ==
  ASSUME [Next]_vars
  PROVE  \/ SubmitJob
         \/ \E c \in Chunk : Dispatch(c) \/ FinishCompress(c) \/ FinishDecompress(c)
                             \/ Abort(c)
         \/ UNCHANGED dev
<1> QED
  BY DEF Next, vars, Thread, Accelerator, Init_qpl, HuffmanTables,
    Submit, Wait, Free_qpl, Complete, GetJobSize, InitJob, InitDone,
    CreateTable, GatherStatistics, PopulateTable, SubmitRefused,
    SubmitDone, WaitAgain, WaitDone, PollSkip, PollFailed, PollReap, PollEnd,
    FiniJob, FiniDone, device

(* The call implements ChunkBatch: submitting hands a chunk over, the      *)
(* accelerator's completions finish or drop it, and the two returns are    *)
(* the batch's verdict; everything else stutters.                          *)
THEOREM Refinement == Spec => ImplementsBatch
<1> DEFINE phase == IF pc \in {"ok", "failed"} THEN pc ELSE "running"
           done == {c \in Chunk : dev[c] = "ok"}
<1>1. Init => Batch!Init
  BY DEF Init, Batch!Init, InFlight, Queued, Running
<1>2. IInv /\ [Next]_vars => [Batch!Next]_(Batch!batchVars)
  <2> SUFFICES ASSUME IInv, [Next]_vars
               PROVE  [Batch!Next]_(Batch!batchVars)
    OBVIOUS
  <2> USE DEF IInv, TypeOK, InFlight, Queued, Running
  <2>1. CASE SubmitJob
    <3>1. k \in Chunk /\ dev[k] = "idle"
      BY <2>1, JobCountBounds DEF SubmitJob, SubmittedInv
    <3>2. ASSUME NEW c \in Chunk, c = k
          PROVE  Batch!Next
      <4>1. phase = "running" /\ phase' = phase
        BY <2>1 DEF SubmitJob
      <4>2. /\ c \notin InFlight \union done
            /\ InFlight' = InFlight \union {c} /\ done' = done
        BY <2>1, <3>1, <3>2 DEF SubmitJob
      <4>3. Batch!Hand(c)
        BY <4>1, <4>2 DEF Batch!Hand
      <4> QED
        BY <4>3 DEF Batch!Next
    <3> QED
      BY <3>1, <3>2
  <2>2. ASSUME NEW c \in Chunk, FinishCompress(c) \/ FinishDecompress(c)
        PROVE  Batch!Next
    <3>1. phase' = phase /\ c \in InFlight
      BY <2>2 DEF FinishCompress, FinishDecompress, thread
    <3>2. InFlight' = InFlight \ {c} /\ done' = done \union {c}
      BY <2>2 DEF FinishCompress, FinishDecompress
    <3>3. Batch!Finish(c)
      BY <3>1, <3>2 DEF Batch!Finish
    <3> QED
      BY <3>3 DEF Batch!Next
  <2>3. ASSUME NEW c \in Chunk, Abort(c)
        PROVE  Batch!Next
    <3>1. phase' = phase /\ c \in InFlight
      BY <2>3 DEF Abort, thread
    <3>2. InFlight' = InFlight \ {c} /\ done' = done
      BY <2>3 DEF Abort
    <3>3. Batch!Drop(c)
      BY <3>1, <3>2 DEF Batch!Drop
    <3> QED
      BY <3>3 DEF Batch!Next
  <2>4. ASSUME NEW c \in Chunk, Dispatch(c)
        PROVE  UNCHANGED Batch!batchVars
    <3>1. phase' = phase /\ InFlight' = InFlight /\ done' = done
      BY <2>4 DEF Dispatch, thread
    <3> QED
      BY <3>1 DEF Batch!batchVars
  <2>5. CASE UNCHANGED dev
    <3>1. UNCHANGED <<InFlight, done>>
      BY <2>5
    <3>2. phase' = phase \/ (phase = "running" /\ phase' \in {"ok", "failed"})
      BY ReturnIsFinal, Preservation
    <3>3. phase' = "ok" /\ phase # "ok" => done = Chunk
      <4>1. IInv'
        BY Preservation
      <4> QED
        BY <2>5, <4>1 DEF DoneInv
    <3> QED
      BY <3>1, <3>2, <3>3 DEF Batch!Next, Batch!Succeed, Batch!Fail, Batch!batchVars
  <2> QED
    BY <2>1, <2>2, <2>3, <2>4, <2>5, DeviceSteps
<1> QED
  BY <1>1, <1>2, Invariance, PTL DEF Spec, ImplementsBatch, Batch!Spec
===============================================================================
