--------------------------- MODULE PageFaultsProofs ---------------------------
(***************************************************************************)
(* Proofs about PageFaults, for any number of runs, iterations and         *)
(* descriptors.                                                            *)
(***************************************************************************)
EXTENDS PageFaults, TLAPS

-------------------------------------------------------------------------------
(* The inductive invariant.                                                *)

InRemmap == pc \in {"create", "write", "drop", "open", "map"}
BeforeLoop == InRemmap \/ pc \in {"compress", "fetch_src", "fetch_dst"}
NoCall == pc = "loop" /\ iter = Iterations
SomeCalls == pc = "loop" /\ iter < Iterations
AfterLoop == pc \in {"decompress", "verify"} \/ Finished

PlaceInv ==
  /\ pc # "idle" => runs > 0
  /\ BeforeLoop => iter = Iterations /\ first = Buffers("unknown")
  /\ NoCall => first = Buffers("unknown")
  /\ pc = "compress" => kind = "DeCompress"
  /\ pc = "decompress" => kind = "Compress"
  /\ pc = "compress" \/ InRemmap => ptr = "null" /\ layer = Buffers("none")

FdInv ==
  /\ IF pc \in {"compress", "create", "drop", "open"} THEN fds < runs ELSE fds <= runs
  /\ pc \in {"write", "map"} => fds > 0

\* The page cache while the file is remapped, and the mapping that results.
CacheInv ==
  /\ pc = "drop" => scenario = "kMajorPageFaults"
  /\ pc \in {"open", "map"} => (kind \in cached <=> scenario # "kMajorPageFaults")
  /\ (ptr = "mapped" /\ (pc \in {"fetch_src", "fetch_dst"} \/ NoCall)) =>
       /\ scenario = "kMajorPageFaults" => kind \notin cached
       /\ scenario = "kMinorPageFaults" => kind \in cached

\* The two buffers on the way to the loop, in a row without a message.
LayerInv ==
  msg = "none" /\ ptr = "mapped" =>
    /\ pc = "fetch_src" => layer.src = IF prefault THEN "table" ELSE "none"
    /\ pc = "fetch_dst" \/ NoCall =>
         layer.src = CASE scenario = "kAtsMiss" -> "table"
                       [] scenario = "kNoFaults" -> "ats"
                       [] OTHER -> "none"
    /\ NoCall =>
         layer.dst = CASE scenario = "kAtsMiss" -> "table"
                       [] scenario = "kNoFaults" -> "ats"
                       [] OTHER -> "none"

\* What failed and has no message yet.
RowInv ==
  /\ msg = "none" =>
       \/ failed = {}
       \/ failed = {"remmap"} /\ pc = "fetch_src" /\ ptr = "null"
       \/ /\ failed = {"mmap"} /\ ptr = "MAP_FAILED"
          /\ pc \in {"fetch_src", "fetch_dst"} \/ NoCall
  /\ msg # "none" /\ failed = {} => pc = "idle" /\ msg = "mismatch"
  /\ pc \in {"fetch_src", "fetch_dst", "loop"} /\ failed = {} => ptr = "mapped"
  /\ SomeCalls \/ AfterLoop => (msg = "none" => first = Named)

\* The data of a row in which nothing has failed.
DataInv ==
  failed = {} =>
    /\ (kind = "DeCompress" /\ pc \notin {"idle", "compress"})
         \/ (kind = "Compress" /\ SomeCalls)
         \/ AfterLoop =>
         compressed_size = "image" /\ image # "none"
    /\ (kind = "DeCompress" /\ pc # "compress" /\ runs > 0) \/ AfterLoop => ratio = "image"
    /\ image = "good" /\ ((kind = "DeCompress" /\ SomeCalls)
                          \/ pc = "verify" \/ Finished) =>
         output = "source" /\ dsize = "source_size"

IInv ==
  /\ TypeOK /\ PlaceInv /\ FdInv /\ CacheInv /\ LayerInv /\ RowInv /\ DataInv
  /\ UnflaggedIsSound /\ MismatchIsSilent

-------------------------------------------------------------------------------

(* A run begins with nothing measured and nothing failed.                  *)
LEMMA BeginKeeps ==
  ASSUME IInv, Begin
  PROVE  IInv'
<1> USE PageFaultAssumption
    DEF IInv, TypeOK, Scenario, Buffers, Begin, row, data
<1>1. TypeOK'
  OBVIOUS
<1>2. (PlaceInv /\ FdInv /\ CacheInv)'
  BY DEF PlaceInv, FdInv, CacheInv, InRemmap, BeforeLoop, NoCall, SomeCalls, AfterLoop, Finished
<1>3. (LayerInv /\ RowInv)'
  BY DEF PlaceInv, CacheInv, LayerInv, RowInv, Named, Fault, prefault,
         InRemmap, BeforeLoop, NoCall, SomeCalls, AfterLoop, Finished
<1>4. DataInv'
  BY DEF PlaceInv, RowInv, DataInv, InRemmap, BeforeLoop, NoCall, SomeCalls, AfterLoop, Finished
<1>5. (UnflaggedIsSound /\ MismatchIsSilent)'
  BY DEF PlaceInv, RowInv, DataInv, UnflaggedIsSound, MismatchIsSilent, Mismatch,
         InRemmap, BeforeLoop, NoCall, SomeCalls, AfterLoop, Finished
<1> QED
  BY <1>1, <1>2, <1>3, <1>4, <1>5

(* The compress before the loop of DeCompress.                             *)
LEMMA CompressFirstKeeps ==
  ASSUME IInv, CompressFirst
  PROVE  IInv'
<1> USE PageFaultAssumption
    DEF IInv, TypeOK, Scenario, Buffers, CompressFirst, row, data, Compress, Outcome, Fails, Flags, Skipped
<1>1. TypeOK'
  <2>1. /\ failed' \subseteq {"compress", "remmap", "mmap", "prefetch", "decompress"}
        /\ cached' \subseteq {"Compress", "DeCompress"}
    OBVIOUS
  <2>2. fds' \in 0 .. MaxFds
    BY DEF FdInv
  <2>3. msg' \in {"none", "compress", "remmap", "prefetch", "decompress", "mismatch"}
    OBVIOUS
  <2> QED
    BY <2>1, <2>2, <2>3
<1>2. (PlaceInv /\ FdInv /\ CacheInv)'
  BY DEF PlaceInv, FdInv, CacheInv, InRemmap, BeforeLoop, NoCall, SomeCalls, AfterLoop, Finished
<1>3. (LayerInv /\ RowInv)'
  BY DEF PlaceInv, CacheInv, LayerInv, RowInv, Named, Fault, prefault,
         InRemmap, BeforeLoop, NoCall, SomeCalls, AfterLoop, Finished
<1>4. DataInv'
  BY DEF PlaceInv, RowInv, DataInv, InRemmap, BeforeLoop, NoCall, SomeCalls, AfterLoop, Finished
<1>5. (UnflaggedIsSound /\ MismatchIsSilent)'
  BY DEF PlaceInv, RowInv, DataInv, UnflaggedIsSound, MismatchIsSilent, Mismatch,
         InRemmap, BeforeLoop, NoCall, SomeCalls, AfterLoop, Finished
<1> QED
  BY <1>1, <1>2, <1>3, <1>4, <1>5

(* Remapping begins with an empty file.                                    *)
LEMMA CreateFileKeeps ==
  ASSUME IInv, CreateFile
  PROVE  IInv'
<1> USE PageFaultAssumption
    DEF IInv, TypeOK, Scenario, Buffers, CreateFile, row, data, GiveUp, Outcome, Fails, Flags, Skipped
<1>1. TypeOK'
  <2>1. /\ failed' \subseteq {"compress", "remmap", "mmap", "prefetch", "decompress"}
        /\ cached' \subseteq {"Compress", "DeCompress"}
    OBVIOUS
  <2>2. fds' \in 0 .. MaxFds
    BY DEF FdInv
  <2>3. msg' \in {"none", "compress", "remmap", "prefetch", "decompress", "mismatch"}
    OBVIOUS
  <2> QED
    BY <2>1, <2>2, <2>3
<1>2. (PlaceInv /\ FdInv /\ CacheInv)'
  BY DEF PlaceInv, FdInv, CacheInv, InRemmap, BeforeLoop, NoCall, SomeCalls, AfterLoop, Finished
<1>3. (LayerInv /\ RowInv)'
  BY DEF PlaceInv, CacheInv, LayerInv, RowInv, Named, Fault, prefault,
         InRemmap, BeforeLoop, NoCall, SomeCalls, AfterLoop, Finished
<1>4. DataInv'
  BY DEF PlaceInv, RowInv, DataInv, InRemmap, BeforeLoop, NoCall, SomeCalls, AfterLoop, Finished
<1>5. (UnflaggedIsSound /\ MismatchIsSilent)'
  BY DEF PlaceInv, RowInv, DataInv, UnflaggedIsSound, MismatchIsSilent, Mismatch,
         InRemmap, BeforeLoop, NoCall, SomeCalls, AfterLoop, Finished
<1> QED
  BY <1>1, <1>2, <1>3, <1>4, <1>5

(* The file is written and closed, or its descriptor is lost.              *)
LEMMA WriteFileKeeps ==
  ASSUME IInv, WriteFile
  PROVE  IInv'
<1> USE PageFaultAssumption
    DEF IInv, TypeOK, Scenario, Buffers, WriteFile, row, data, GiveUp, Closed, drop_cache, Outcome, Fails, Flags, Skipped
<1>1. TypeOK'
  <2>1. /\ failed' \subseteq {"compress", "remmap", "mmap", "prefetch", "decompress"}
        /\ cached' \subseteq {"Compress", "DeCompress"}
    OBVIOUS
  <2>2. fds' \in 0 .. MaxFds
    BY DEF FdInv
  <2>3. msg' \in {"none", "compress", "remmap", "prefetch", "decompress", "mismatch"}
    OBVIOUS
  <2> QED
    BY <2>1, <2>2, <2>3
<1>2. (PlaceInv /\ FdInv /\ CacheInv)'
  BY DEF PlaceInv, FdInv, CacheInv, InRemmap, BeforeLoop, NoCall, SomeCalls, AfterLoop, Finished
<1>3. (LayerInv /\ RowInv)'
  BY DEF PlaceInv, CacheInv, LayerInv, RowInv, Named, Fault, prefault,
         InRemmap, BeforeLoop, NoCall, SomeCalls, AfterLoop, Finished
<1>4. DataInv'
  BY DEF PlaceInv, RowInv, DataInv, InRemmap, BeforeLoop, NoCall, SomeCalls, AfterLoop, Finished
<1>5. (UnflaggedIsSound /\ MismatchIsSilent)'
  BY DEF PlaceInv, RowInv, DataInv, UnflaggedIsSound, MismatchIsSilent, Mismatch,
         InRemmap, BeforeLoop, NoCall, SomeCalls, AfterLoop, Finished
<1> QED
  BY <1>1, <1>2, <1>3, <1>4, <1>5

(* After the drop the file is not in the page cache.                       *)
LEMMA DropCacheKeeps ==
  ASSUME IInv, DropCache
  PROVE  IInv'
<1> USE PageFaultAssumption
    DEF IInv, TypeOK, Scenario, Buffers, DropCache, row, data, GiveUp, Outcome, Fails, Flags, Skipped
<1>1. TypeOK'
  <2>1. /\ failed' \subseteq {"compress", "remmap", "mmap", "prefetch", "decompress"}
        /\ cached' \subseteq {"Compress", "DeCompress"}
    OBVIOUS
  <2>2. fds' \in 0 .. MaxFds
    BY DEF FdInv
  <2>3. msg' \in {"none", "compress", "remmap", "prefetch", "decompress", "mismatch"}
    OBVIOUS
  <2> QED
    BY <2>1, <2>2, <2>3
<1>2. (PlaceInv /\ FdInv /\ CacheInv)'
  BY DEF PlaceInv, FdInv, CacheInv, InRemmap, BeforeLoop, NoCall, SomeCalls, AfterLoop, Finished
<1>3. (LayerInv /\ RowInv)'
  BY DEF PlaceInv, CacheInv, LayerInv, RowInv, Named, Fault, prefault,
         InRemmap, BeforeLoop, NoCall, SomeCalls, AfterLoop, Finished
<1>4. DataInv'
  BY DEF PlaceInv, RowInv, DataInv, InRemmap, BeforeLoop, NoCall, SomeCalls, AfterLoop, Finished
<1>5. (UnflaggedIsSound /\ MismatchIsSilent)'
  BY DEF PlaceInv, RowInv, DataInv, UnflaggedIsSound, MismatchIsSilent, Mismatch,
         InRemmap, BeforeLoop, NoCall, SomeCalls, AfterLoop, Finished
<1> QED
  BY <1>1, <1>2, <1>3, <1>4, <1>5

(* The descriptor opened here is the one the run keeps.                    *)
LEMMA OpenFileKeeps ==
  ASSUME IInv, OpenFile
  PROVE  IInv'
<1> USE PageFaultAssumption
    DEF IInv, TypeOK, Scenario, Buffers, OpenFile, row, data, GiveUp, Outcome, Fails, Flags, Skipped
<1>1. TypeOK'
  <2>1. /\ failed' \subseteq {"compress", "remmap", "mmap", "prefetch", "decompress"}
        /\ cached' \subseteq {"Compress", "DeCompress"}
    OBVIOUS
  <2>2. fds' \in 0 .. MaxFds
    BY DEF FdInv
  <2>3. msg' \in {"none", "compress", "remmap", "prefetch", "decompress", "mismatch"}
    OBVIOUS
  <2> QED
    BY <2>1, <2>2, <2>3
<1>2. (PlaceInv /\ FdInv /\ CacheInv)'
  BY DEF PlaceInv, FdInv, CacheInv, InRemmap, BeforeLoop, NoCall, SomeCalls, AfterLoop, Finished
<1>3. (LayerInv /\ RowInv)'
  BY DEF PlaceInv, CacheInv, LayerInv, RowInv, Named, Fault, prefault,
         InRemmap, BeforeLoop, NoCall, SomeCalls, AfterLoop, Finished
<1>4. DataInv'
  BY DEF PlaceInv, RowInv, DataInv, InRemmap, BeforeLoop, NoCall, SomeCalls, AfterLoop, Finished
<1>5. (UnflaggedIsSound /\ MismatchIsSilent)'
  BY DEF PlaceInv, RowInv, DataInv, UnflaggedIsSound, MismatchIsSilent, Mismatch,
         InRemmap, BeforeLoop, NoCall, SomeCalls, AfterLoop, Finished
<1> QED
  BY <1>1, <1>2, <1>3, <1>4, <1>5

(* The mapping is populated in the scenarios that say so.                  *)
LEMMA MapFileKeeps ==
  ASSUME IInv, MapFile
  PROVE  IInv'
<1> USE PageFaultAssumption
    DEF IInv, TypeOK, Scenario, Buffers, MapFile, row, data, Outcome, prefault, Fails, Flags, Skipped
<1>1. TypeOK'
  OBVIOUS
<1>2. (PlaceInv /\ FdInv /\ CacheInv)'
  BY DEF PlaceInv, FdInv, CacheInv, InRemmap, BeforeLoop, NoCall, SomeCalls, AfterLoop, Finished
<1>3. (LayerInv /\ RowInv)'
  BY DEF PlaceInv, CacheInv, LayerInv, RowInv, Named, Fault, prefault,
         InRemmap, BeforeLoop, NoCall, SomeCalls, AfterLoop, Finished
<1>4. DataInv'
  BY DEF PlaceInv, RowInv, DataInv, InRemmap, BeforeLoop, NoCall, SomeCalls, AfterLoop, Finished
<1>5. (UnflaggedIsSound /\ MismatchIsSilent)'
  BY DEF PlaceInv, RowInv, DataInv, UnflaggedIsSound, MismatchIsSilent, Mismatch,
         InRemmap, BeforeLoop, NoCall, SomeCalls, AfterLoop, Finished
<1> QED
  BY <1>1, <1>2, <1>3, <1>4, <1>5

(* A row without a mapping is flagged before the loop.                     *)
LEMMA FetchSourceKeeps ==
  ASSUME IInv, FetchSource
  PROVE  IInv'
<1> USE PageFaultAssumption
    DEF IInv, TypeOK, Scenario, Buffers, FetchSource, row, data, Outcome, prefault, Fails, Flags, Skipped
<1>1. TypeOK'
  OBVIOUS
<1>2. (PlaceInv /\ FdInv /\ CacheInv)'
  BY DEF PlaceInv, FdInv, CacheInv, InRemmap, BeforeLoop, NoCall, SomeCalls, AfterLoop, Finished
<1>3. (LayerInv /\ RowInv)'
  BY DEF PlaceInv, CacheInv, LayerInv, RowInv, Named, Fault, prefault,
         InRemmap, BeforeLoop, NoCall, SomeCalls, AfterLoop, Finished
<1>4. DataInv'
  BY DEF PlaceInv, RowInv, DataInv, InRemmap, BeforeLoop, NoCall, SomeCalls, AfterLoop, Finished
<1>5. (UnflaggedIsSound /\ MismatchIsSilent)'
  BY DEF PlaceInv, RowInv, DataInv, UnflaggedIsSound, MismatchIsSilent, Mismatch,
         InRemmap, BeforeLoop, NoCall, SomeCalls, AfterLoop, Finished
<1> QED
  BY <1>1, <1>2, <1>3, <1>4, <1>5

(* The row reaches its loop with both buffers where the scenario wants them. *)
LEMMA FetchDestinationKeeps ==
  ASSUME IInv, FetchDestination
  PROVE  IInv'
<1> USE PageFaultAssumption
    DEF IInv, TypeOK, Scenario, Buffers, FetchDestination, row, data, Outcome, Fails, Flags, Skipped
<1>1. TypeOK'
  <2>1. /\ failed' \subseteq {"compress", "remmap", "mmap", "prefetch", "decompress"}
        /\ cached' \subseteq {"Compress", "DeCompress"}
    OBVIOUS
  <2>2. fds' \in 0 .. MaxFds
    BY DEF FdInv
  <2>3. msg' \in {"none", "compress", "remmap", "prefetch", "decompress", "mismatch"}
    OBVIOUS
  <2> QED
    BY <2>1, <2>2, <2>3
<1>2. (PlaceInv /\ FdInv /\ CacheInv)'
  BY DEF PlaceInv, FdInv, CacheInv, InRemmap, BeforeLoop, NoCall, SomeCalls, AfterLoop, Finished
<1>3. (LayerInv /\ RowInv)'
  BY DEF PlaceInv, CacheInv, LayerInv, RowInv, Named, Fault, prefault,
         InRemmap, BeforeLoop, NoCall, SomeCalls, AfterLoop, Finished
<1>4. DataInv'
  BY DEF PlaceInv, RowInv, DataInv, InRemmap, BeforeLoop, NoCall, SomeCalls, AfterLoop, Finished
<1>5. (UnflaggedIsSound /\ MismatchIsSilent)'
  BY DEF PlaceInv, RowInv, DataInv, UnflaggedIsSound, MismatchIsSilent, Mismatch,
         InRemmap, BeforeLoop, NoCall, SomeCalls, AfterLoop, Finished
<1> QED
  BY <1>1, <1>2, <1>3, <1>4, <1>5

(* The first timed call meets the faults of the scenario, or is flagged.   *)
LEMMA TimedCallKeeps ==
  ASSUME IInv, TimedCall
  PROVE  IInv'
<1> USE PageFaultAssumption
    DEF IInv, TypeOK, Scenario, Buffers, TimedCall, row, data, Compress, Decompress, Inflate, Outcome, More, Fault, Fails, Flags, Skipped
<1>1. TypeOK'
  <2>1. /\ failed' \subseteq {"compress", "remmap", "mmap", "prefetch", "decompress"}
        /\ cached' \subseteq {"Compress", "DeCompress"}
    OBVIOUS
  <2>2. fds' \in 0 .. MaxFds
    BY DEF FdInv
  <2>3. msg' \in {"none", "compress", "remmap", "prefetch", "decompress", "mismatch"}
    OBVIOUS
  <2> QED
    BY <2>1, <2>2, <2>3
<1>2. (PlaceInv /\ FdInv /\ CacheInv)'
  BY DEF PlaceInv, FdInv, CacheInv, InRemmap, BeforeLoop, NoCall, SomeCalls, AfterLoop, Finished
<1>3. (LayerInv /\ RowInv)'
  BY DEF PlaceInv, CacheInv, LayerInv, RowInv, Named, Fault, prefault,
         InRemmap, BeforeLoop, NoCall, SomeCalls, AfterLoop, Finished
<1>4. DataInv'
  BY DEF PlaceInv, RowInv, DataInv, InRemmap, BeforeLoop, NoCall, SomeCalls, AfterLoop, Finished
<1>5. (UnflaggedIsSound /\ MismatchIsSilent)'
  BY DEF PlaceInv, RowInv, DataInv, UnflaggedIsSound, MismatchIsSilent, Mismatch,
         InRemmap, BeforeLoop, NoCall, SomeCalls, AfterLoop, Finished
<1> QED
  BY <1>1, <1>2, <1>3, <1>4, <1>5

(* A loop without a message has run all its iterations.                    *)
LEMMA LoopEndKeeps ==
  ASSUME IInv, LoopEnd
  PROVE  IInv'
<1> USE PageFaultAssumption
    DEF IInv, TypeOK, Scenario, Buffers, LoopEnd, row, data, More, Outcome
<1>1. TypeOK'
  <2>1. /\ failed' \subseteq {"compress", "remmap", "mmap", "prefetch", "decompress"}
        /\ cached' \subseteq {"Compress", "DeCompress"}
    OBVIOUS
  <2>2. fds' \in 0 .. MaxFds
    BY DEF FdInv
  <2>3. msg' \in {"none", "compress", "remmap", "prefetch", "decompress", "mismatch"}
    OBVIOUS
  <2> QED
    BY <2>1, <2>2, <2>3
<1>2. (PlaceInv /\ FdInv /\ CacheInv)'
  BY DEF PlaceInv, FdInv, CacheInv, InRemmap, BeforeLoop, NoCall, SomeCalls, AfterLoop, Finished
<1>3. (LayerInv /\ RowInv)'
  BY DEF PlaceInv, CacheInv, LayerInv, RowInv, Named, Fault, prefault,
         InRemmap, BeforeLoop, NoCall, SomeCalls, AfterLoop, Finished
<1>4. DataInv'
  BY DEF PlaceInv, RowInv, DataInv, InRemmap, BeforeLoop, NoCall, SomeCalls, AfterLoop, Finished
<1>5. (UnflaggedIsSound /\ MismatchIsSilent)'
  BY DEF PlaceInv, RowInv, DataInv, UnflaggedIsSound, MismatchIsSilent, Mismatch,
         InRemmap, BeforeLoop, NoCall, SomeCalls, AfterLoop, Finished
<1> QED
  BY <1>1, <1>2, <1>3, <1>4, <1>5

(* The decompress after the loop of Compress.                              *)
LEMMA DecompressLastKeeps ==
  ASSUME IInv, DecompressLast
  PROVE  IInv'
<1> USE PageFaultAssumption
    DEF IInv, TypeOK, Scenario, Buffers, DecompressLast, row, data, Decompress, Inflate, Outcome, Fails, Flags, Skipped
<1>1. TypeOK'
  <2>1. /\ failed' \subseteq {"compress", "remmap", "mmap", "prefetch", "decompress"}
        /\ cached' \subseteq {"Compress", "DeCompress"}
    OBVIOUS
  <2>2. fds' \in 0 .. MaxFds
    BY DEF FdInv
  <2>3. msg' \in {"none", "compress", "remmap", "prefetch", "decompress", "mismatch"}
    OBVIOUS
  <2> QED
    BY <2>1, <2>2, <2>3
<1>2. (PlaceInv /\ FdInv /\ CacheInv)'
  BY DEF PlaceInv, FdInv, CacheInv, InRemmap, BeforeLoop, NoCall, SomeCalls, AfterLoop, Finished
<1>3. (LayerInv /\ RowInv)'
  BY DEF PlaceInv, CacheInv, LayerInv, RowInv, Named, Fault, prefault,
         InRemmap, BeforeLoop, NoCall, SomeCalls, AfterLoop, Finished
<1>4. DataInv'
  BY DEF PlaceInv, RowInv, DataInv, InRemmap, BeforeLoop, NoCall, SomeCalls, AfterLoop, Finished
<1>5. (UnflaggedIsSound /\ MismatchIsSilent)'
  BY DEF PlaceInv, RowInv, DataInv, UnflaggedIsSound, MismatchIsSilent, Mismatch,
         InRemmap, BeforeLoop, NoCall, SomeCalls, AfterLoop, Finished
<1> QED
  BY <1>1, <1>2, <1>3, <1>4, <1>5

(* The verdict on a row.                                                   *)
LEMMA VerifyKeeps ==
  ASSUME IInv, Verify
  PROVE  IInv'
<1> USE PageFaultAssumption
    DEF IInv, TypeOK, Scenario, Buffers, Verify, row, data, Mismatch, Outcome, Fails, Flags, Skipped
<1>1. TypeOK'
  OBVIOUS
<1>2. (PlaceInv /\ FdInv /\ CacheInv)'
  BY DEF PlaceInv, FdInv, CacheInv, InRemmap, BeforeLoop, NoCall, SomeCalls, AfterLoop, Finished
<1>3. (LayerInv /\ RowInv)'
  BY DEF PlaceInv, CacheInv, LayerInv, RowInv, Named, Fault, prefault,
         InRemmap, BeforeLoop, NoCall, SomeCalls, AfterLoop, Finished
<1>4. DataInv'
  BY DEF PlaceInv, RowInv, DataInv, InRemmap, BeforeLoop, NoCall, SomeCalls, AfterLoop, Finished
<1>5. (UnflaggedIsSound /\ MismatchIsSilent)'
  BY DEF PlaceInv, RowInv, DataInv, UnflaggedIsSound, MismatchIsSilent, Mismatch,
         InRemmap, BeforeLoop, NoCall, SomeCalls, AfterLoop, Finished
<1> QED
  BY <1>1, <1>2, <1>3, <1>4, <1>5

(* The inductive invariant. *)
THEOREM Invariant == Spec => []IInv
<1>1. Init => IInv
  BY PageFaultAssumption
     DEF Init, IInv, TypeOK, Scenario, Buffers, PlaceInv, FdInv, CacheInv, LayerInv,
         RowInv, DataInv, UnflaggedIsSound, MismatchIsSilent, InRemmap, BeforeLoop, NoCall, SomeCalls, AfterLoop, Finished
<1>2. IInv /\ [Next]_vars => IInv'
  <2> SUFFICES ASSUME IInv, [Next]_vars
               PROVE  IInv'
    OBVIOUS
  <2>1. CASE Begin
    BY <2>1, BeginKeeps
  <2>2. CASE CompressFirst
    BY <2>2, CompressFirstKeeps
  <2>3. CASE CreateFile
    BY <2>3, CreateFileKeeps
  <2>4. CASE WriteFile
    BY <2>4, WriteFileKeeps
  <2>5. CASE DropCache
    BY <2>5, DropCacheKeeps
  <2>6. CASE OpenFile
    BY <2>6, OpenFileKeeps
  <2>7. CASE MapFile
    BY <2>7, MapFileKeeps
  <2>8. CASE FetchSource
    BY <2>8, FetchSourceKeeps
  <2>9. CASE FetchDestination
    BY <2>9, FetchDestinationKeeps
  <2>10. CASE TimedCall
    BY <2>10, TimedCallKeeps
  <2>11. CASE LoopEnd
    BY <2>11, LoopEndKeeps
  <2>12. CASE DecompressLast
    BY <2>12, DecompressLastKeeps
  <2>13. CASE Verify
    BY <2>13, VerifyKeeps
  <2>14. CASE UNCHANGED vars
    BY <2>14
       DEF vars, row, data, IInv, TypeOK, PlaceInv, FdInv, CacheInv, LayerInv, RowInv,
           DataInv, UnflaggedIsSound, MismatchIsSilent, Named, prefault,
           InRemmap, BeforeLoop, NoCall, SomeCalls, AfterLoop, Finished
  <2> QED
    BY <2>1, <2>2, <2>3, <2>4, <2>5, <2>6, <2>7, <2>8, <2>9, <2>10, <2>11, <2>12, <2>13, <2>14 DEF Next
<1> QED
  BY <1>1, <1>2, PTL DEF Spec

(* Every variable keeps its type. *)
THEOREM TypeCorrect == Spec => []TypeOK
<1>1. IInv => TypeOK
  BY DEF IInv
<1> QED
  BY <1>1, Invariant, PTL

(* In a row without a message the first timed call met the faults the      *)
(* scenario is named after, whatever runs came before.                     *)
THEOREM Measured == Spec => []ScenarioIsMeasured
<1>1. IInv => ScenarioIsMeasured
  BY DEF IInv, RowInv, ScenarioIsMeasured, AfterLoop
<1> QED
  BY <1>1, Invariant, PTL

(* A row without a message can be believed. *)
THEOREM Sound == Spec => []UnflaggedIsSound
<1>1. IInv => UnflaggedIsSound
  BY DEF IInv
<1> QED
  BY <1>1, Invariant, PTL

(* "Data missmatch." is only ever said of an image that came out wrong     *)
(* without a failure.                                                      *)
THEOREM BlameIsSilent == Spec => []MismatchIsSilent
<1>1. IInv => MismatchIsSilent
  BY DEF IInv
<1> QED
  BY <1>1, Invariant, PTL

(* A run leaves at most one descriptor open. *)
THEOREM DescriptorsBounded == Spec => []OneDescriptorPerRun
<1>1. IInv => OneDescriptorPerRun
  BY PageFaultAssumption DEF IInv, TypeOK, FdInv, OneDescriptorPerRun
<1> QED
  BY <1>1, Invariant, PTL

(* Runs keep the promise of BenchRow: what fails is in the message when    *)
(* the run is reported, and a message never names what did not fail.       *)
THEOREM RowRefinement == Spec => ImplementsRow
<1> DEFINE F == {"compress", "remmap", "mmap", "prefetch", "decompress"}
           Marks == /\ failed \subseteq failed' /\ failed' \subseteq F
                    /\ msg' = msg \/ (msg = "none" /\ msg' \in failed')
<1>1. Init => Row!Init
  BY DEF Init, Row!Init
<1>2. ASSUME IInv, Begin PROVE Row!Next
  <2>1. pc = "idle" /\ pc' # "idle" /\ failed' = {} /\ msg' = "none"
    BY <1>2 DEF Begin
  <2> QED
    BY <2>1 DEF Row!Next, Row!Begin
<1>3. ASSUME IInv, pc # "idle", pc' # "idle", Marks PROVE Row!Next
  BY <1>3 DEF Row!Next, Row!Step
<1>4. ASSUME IInv, CreateFile \/ WriteFile \/ DropCache \/ OpenFile \/ MapFile
      PROVE  pc # "idle" /\ pc' # "idle" /\ Marks
  BY <1>4 DEF CreateFile, WriteFile, DropCache, OpenFile, MapFile, GiveUp, Fails, row,
     IInv, TypeOK
<1>5. ASSUME IInv, CompressFirst \/ DecompressLast \/ TimedCall
      PROVE  pc # "idle" /\ pc' # "idle" /\ Marks
  BY <1>5 DEF CompressFirst, DecompressLast, TimedCall, Compress, Decompress, Fails,
     Flags, Skipped, IInv, TypeOK
<1>6. ASSUME IInv, FetchSource PROVE pc # "idle" /\ pc' # "idle" /\ Marks
  <2>1. ptr = "null" /\ msg = "none" => "remmap" \in failed
    BY <1>6 DEF FetchSource, IInv, RowInv
  <2> QED
    BY <1>6, <2>1 DEF FetchSource, Skipped, IInv, TypeOK
<1>7. ASSUME IInv, FetchDestination PROVE pc # "idle" /\ pc' # "idle" /\ Marks
  BY <1>7 DEF FetchDestination, Fails, Flags, Skipped, IInv, TypeOK
<1>8. ASSUME IInv, LoopEnd PROVE pc # "idle" /\ pc' # "idle" /\ Marks
  BY <1>8 DEF LoopEnd, row, IInv, TypeOK
<1>9. ASSUME IInv, Verify PROVE Row!Next
  <2>1. pc = "verify" /\ pc' = "idle" /\ failed' = failed
    BY <1>9 DEF Verify
  <2>2. \/ failed = {} /\ msg = "none" /\ msg' \in {"none", "mismatch"}
        \/ failed # {} /\ msg # "none" /\ msg' = msg
    BY <1>9, <2>1 DEF Verify, Skipped, IInv, RowInv, NoCall
  <2> QED
    BY <2>1, <2>2 DEF Row!Next, Row!Report
<1>10. UNCHANGED vars => UNCHANGED Row!rowVars
  BY DEF vars, row, Row!rowVars
<1> HIDE DEF Marks
<1>11. IInv /\ [Next]_vars => [Row!Next]_(Row!rowVars)
  BY <1>2, <1>3, <1>4, <1>5, <1>6, <1>7, <1>8, <1>9, <1>10 DEF Next
<1> QED
  BY <1>1, <1>11, Invariant, PTL DEF Spec, ImplementsRow, Row!Spec
===============================================================================
