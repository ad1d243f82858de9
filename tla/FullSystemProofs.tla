--------------------------- MODULE FullSystemProofs ---------------------------
(***************************************************************************)
(* Proofs about FullSystem, for every size of source and page, and any     *)
(* number of rows and iterations.                                          *)
(***************************************************************************)
EXTENDS FullSystem, TLAPS

-------------------------------------------------------------------------------
(* The inductive invariant.                                                *)

Disk == {"DiskRead", "DiskReadIODirect"}

\* The file is prepared before any row, and rows do not change it.
FileInv ==
  /\ pc = "prepare" => offset = 0
  /\ pc \notin {"prepare", "fatal"} => file_size > 0
  /\ offset \in {0, file_size}

\* The descriptor and the mapping a row holds at each place.
HeldInv ==
  /\ fds = IF pc \in {"advise", "map", "read", "loop", "err"} THEN 1 ELSE 0
  /\ maps = IF pc \in {"loop", "err"} /\ mem_buff = "file" THEN 1 ELSE 0
  /\ pc \in {"open", "advise", "map"} => mem_buff = "null"
  /\ pc = "read" => mode = "Decompress" /\ mem_buff # "file"
  /\ mem_buff = "file" => mode = "DecompressFromFile"

\* A row that dropped the cache and opened the file.
Opened == "dd" \notin failed /\ "open" \notin failed

\* Nothing is cached before the first read of a row, which there is, and a second
\* one is marked.
CacheInv ==
  /\ pc \in {"open", "advise", "map"} => offset = 0 /\ cache = "cold"
  /\ pc = "loop" /\ mode \in Disk /\ offset = 0 => cache = "cold"
  /\ pc = "loop" /\ mode \in Disk =>
       /\ timed = IF offset = 0 THEN {} ELSE {"cold"}
       /\ offset = 0 => iter > 0
  /\ pc \in {"err", "returned"} /\ mode \in Disk /\ Opened /\ msg = "none" => timed = {"cold"}

\* An error is marked, or a mapping that failed is about to be used.
ErrorInv ==
  /\ pc \in {"open", "advise", "map", "read", "loop"} => Opened
  /\ pc \in {"open", "advise", "map"} => iter > 0 /\ timed = {}
  /\ pc \in {"open", "advise", "map"} /\ mode \in Disk => msg = "none"
  /\ pc = "read" /\ msg = "none" => iter > 0
  /\ pc \in {"open", "advise", "map", "read", "loop", "err", "returned"} /\ msg = "none" =>
       /\ failed \subseteq {"dd", "open", "mmap"}
       /\ "mmap" \in failed =>
            /\ mem_buff = "MAP_FAILED"
            /\ pc = "read" \/ (pc = "loop" /\ iter > 0)
  /\ pc \in {"err", "returned"} /\ msg = "none" /\ Opened /\ mode \notin Disk =>
       decompression_size = "expected"

IInv ==
  /\ TypeOK /\ FileInv /\ HeldInv /\ CacheInv /\ ErrorInv /\ FileFits

-------------------------------------------------------------------------------

(* Multiplication by a natural number is monotonic. *)
LEMMA TimesMonotonic ==
  ASSUME NEW x \in Nat, NEW y \in Nat, NEW q \in Nat, x <= y
  PROVE  x * q <= y * q
<1>1. PICK z \in Nat : y = x + z
  <2>1. y - x \in Nat /\ y = x + (y - x)
    OBVIOUS
  <2> QED
    BY <2>1
<1>2. y * q = x * q + z * q
  BY <1>1
<1>3. z * q \in Nat /\ x * q \in Nat
  OBVIOUS
<1> QED
  BY <1>2, <1>3

(* A multiple of y leaves no rest. *)
LEMMA MultipleOf ==
  ASSUME NEW x \in Nat, NEW y \in Nat \ {0}
  PROVE  x * y \in Nat /\ (x * y) % y = 0
<1> DEFINE d == (x * y) \div y
           m == (x * y) % y
<1>1. x * y \in Nat
  OBVIOUS
<1>2. d \in Nat /\ m \in 0 .. y - 1 /\ x * y = d * y + m
  BY <1>1
<1> HIDE DEF d, m
<1>3. d * y \in Nat
  BY <1>2
<1>4. ~(d + 1 <= x)
  <2>1. SUFFICES ASSUME d + 1 <= x PROVE FALSE
    OBVIOUS
  <2>2. (d + 1) * y <= x * y /\ (d + 1) * y = d * y + y
    BY <1>2, <2>1, TimesMonotonic
  <2> QED
    BY <1>1, <1>2, <1>3, <2>2
<1>5. ~(x + 1 <= d)
  <2>1. SUFFICES ASSUME x + 1 <= d PROVE FALSE
    OBVIOUS
  <2>2. (x + 1) * y <= d * y /\ (x + 1) * y = x * y + y
    BY <1>2, <2>1, TimesMonotonic
  <2> QED
    BY <1>1, <1>2, <1>3, <2>2
<1>6. d = x
  BY <1>2, <1>4, <1>5
<1>7. m = 0
  BY <1>1, <1>2, <1>6
<1> QED
  BY <1>1, <1>7 DEF m

(* The size of the file is the size of the image rounded up to pages; it   *)
(* does not exceed the buffer the image is in.                             *)
LEMMA AlignedFits ==
  ASSUME NEW n \in 1 .. 2 * src_size
  PROVE  /\ Aligned(n) \in n .. 2 * src_size
         /\ Aligned(n) % PageSize = 0
<1> USE FullSystemAssumption
<1> DEFINE P == PageSize
           q == (n + P - 1) \div P
           r == (n + P - 1) % P
           t == (2 * src_size) \div P
<1>1. /\ q \in Nat /\ r \in 0 .. P - 1 /\ n + P - 1 = q * P + r
      /\ t \in Nat /\ 2 * src_size = t * P
      /\ n \in Nat /\ P \in Nat \ {0} /\ n <= 2 * src_size
  OBVIOUS
<1>2. Aligned(n) = q * P
  BY DEF Aligned
<1> HIDE DEF q, r, t
<1>3. q * P \in Nat /\ (q * P) % P = 0
  BY <1>1, MultipleOf
<1>4. n <= q * P
  BY <1>1, <1>3
<1>5. q <= t
  <2>1. SUFFICES ASSUME t + 1 <= q PROVE FALSE
    BY <1>1
  <2>2. (t + 1) * P <= q * P
    BY <1>1, <2>1, TimesMonotonic
  <2>3. (t + 1) * P = t * P + P
    BY <1>1
  <2>4. t * P \in Nat
    BY <1>1
  <2> QED
    BY <1>1, <1>3, <2>2, <2>3, <2>4
<1>6. q * P <= t * P
  BY <1>1, <1>5, TimesMonotonic
<1> QED
  BY <1>1, <1>2, <1>3, <1>4, <1>6

(* A read either goes through, from the start to the end of the file, or   *)
(* marks the row and ends it.                                              *)
LEMMA ReadStep ==
  ASSUME IInv, pc \in {"read", "loop"}, Read("loop")
  PROVE  /\ pc' \in {"loop", "err"}
         /\ offset' \in {0, file_size} /\ offset' \in 0 .. file_size
         /\ pc' = "loop" => /\ UNCHANGED <<msg, failed>>
                            /\ mem_buff # "MAP_FAILED"
                            /\ offset = 0 /\ offset' = file_size
         /\ pc' = "err" => /\ msg' = "skipped"
                           /\ failed' = failed \union {"read"}
         /\ cache' \in {"cold", "warm"}
<1> USE DEF Read, ReadFlagged, ShortRead
<1> QED
  BY FullSystemAssumption DEF IInv, TypeOK, FileInv

(* Every step preserves the inductive invariant. *)
LEMMA Preservation ==
  ASSUME IInv, [Next]_vars PROVE IInv'
<1> USE FullSystemAssumption
<1> USE DEF IInv, TypeOK, FileInv, HeldInv, CacheInv, ErrorInv, FileFits,
      Opened, Disk, Mode, Outcome, row, prepared, system
<1>1. CASE Prepare
  <2>1. CASE pc' = "fatal"
    BY <1>1, <2>1 DEF Prepare
  <2>2. CASE pc' = "idle"
    <3>1. compressed' \in 1 .. 2 * src_size /\ file_size' = Aligned(compressed')
      BY <1>1, <2>2 DEF Prepare
    <3>2. file_size' \in compressed' .. 2 * src_size /\ file_size' % PageSize = 0
      BY <3>1, AlignedFits
    <3>3. file_size' \in 0 .. 2 * src_size /\ file_size' > 0 /\ compressed' <= file_size'
      BY <3>1, <3>2
    <3>4. offset = 0
      BY <1>1 DEF Prepare
    <3> QED
      BY <1>1, <2>2, <3>1, <3>2, <3>3, <3>4 DEF Prepare
  <2> QED
    BY <1>1, <2>1, <2>2 DEF Prepare
<1>2. CASE DropCache
  BY <1>2 DEF DropCache, Dropped
<1>3. CASE Open
  <2>1. CASE pc' = "advise"
    <3>1. fds' = 1 /\ UNCHANGED <<failed, maps, mode, iter, offset, mem_buff, msg>>
      BY <1>3, <2>1 DEF Open
    <3>2. HeldInv' /\ CacheInv' /\ FileInv'
      BY <1>3, <2>1, <3>1 DEF Open
    <3>3. ErrorInv' /\ FileFits'
      BY <1>3, <2>1, <3>1 DEF Open
    <3>4. TypeOK'
      BY <1>3, <2>1, <3>1 DEF Open
    <3> QED
      BY <3>2, <3>3, <3>4
  <2>2. CASE pc' = "returned"
    <3>1. failed' = failed \union {"open"} /\ UNCHANGED <<fds, maps, mode, iter, offset, mem_buff, msg>>
      BY <1>3, <2>2 DEF Open
    <3>2. failed' \subseteq {"dd", "open", "posix_fadvise", "mmap", "read", "decompress"}
      BY <3>1
    <3>3. msg = "none" => failed' \subseteq {"dd", "open"}
      BY <1>3, <3>1 DEF Open
    <3> QED
      BY <1>3, <2>2, <3>1, <3>2, <3>3 DEF Open
  <2> QED
    BY <1>3, <2>1, <2>2 DEF Open
<1>4. CASE Advise
  <2>1. CASE failed' = failed
    BY <1>4, <2>1 DEF Advise
  <2>2. CASE failed' = failed \union {"posix_fadvise"} /\ msg' = "skipped"
    BY <1>4, <2>2 DEF Advise
  <2> QED
    BY <1>4, <2>1, <2>2 DEF Advise
<1>5. CASE Map
  <2>1. TypeOK'
    BY <1>5 DEF Map
  <2>2. FileInv' /\ FileFits'
    BY <1>5 DEF Map
  <2>3. HeldInv'
    BY <1>5 DEF Map
  <2>4. CacheInv'
    BY <1>5 DEF Map
  <2>5. ErrorInv'
    BY <1>5 DEF Map
  <2> QED
    BY <2>1, <2>2, <2>3, <2>4, <2>5
<1>6. CASE ReadBefore
  <2>1. CASE pc' = "loop"
    BY <1>6, <2>1, ReadStep DEF ReadBefore
  <2>2. CASE pc' = "err"
    BY <1>6, <2>2, ReadStep DEF ReadBefore
  <2> QED
    BY <1>6, <2>1, <2>2, ReadStep DEF ReadBefore
<1>7. CASE TimedRead
  <2>1. CASE pc' = "loop"
    <3>1. TypeOK'
      <4>1. timed' \subseteq {"cold", "warm"}
        BY <1>7, <2>1, ReadStep DEF TimedRead, Saw
      <4>2. failed' \subseteq {"dd", "open", "posix_fadvise", "mmap", "read", "decompress"}
        BY <1>7, <2>1, ReadStep DEF TimedRead, Saw
      <4>3. iter' \in 0 .. Iterations /\ offset' \in 0 .. file_size'
        BY <1>7, <2>1, ReadStep DEF TimedRead, Saw
      <4> QED
        BY <1>7, <2>1, ReadStep, <4>1, <4>2, <4>3 DEF TimedRead, Saw
    <3>2. FileInv' /\ FileFits' /\ HeldInv'
      BY <1>7, <2>1, ReadStep DEF TimedRead, Saw
    <3>3. CacheInv'
      <4>1. offset = 0 /\ offset' = file_size /\ file_size > 0 /\ pc' = "loop"
        BY <1>7, <2>1, ReadStep DEF TimedRead
      <4>2. timed = {} /\ timed' = timed \union {Saw} /\ Saw = "cold"
        BY <1>7, <4>1 DEF TimedRead, Saw
      <4> QED
        BY <4>1, <4>2
    <3>4. ErrorInv'
      BY <1>7, <2>1, ReadStep DEF TimedRead, Saw
    <3> QED
      BY <3>1, <3>2, <3>3, <3>4
  <2>2. CASE pc' = "err"
    <3>1. TypeOK'
      <4>1. timed' \subseteq {"cold", "warm"}
        BY <1>7, <2>2, ReadStep DEF TimedRead, Saw
      <4>2. failed' \subseteq {"dd", "open", "posix_fadvise", "mmap", "read", "decompress"}
        BY <1>7, <2>2, ReadStep DEF TimedRead, Saw
      <4>3. iter' \in 0 .. Iterations /\ offset' \in 0 .. file_size'
        BY <1>7, <2>2, ReadStep DEF TimedRead, Saw
      <4> QED
        BY <1>7, <2>2, ReadStep, <4>1, <4>2, <4>3 DEF TimedRead, Saw
    <3>2. FileInv' /\ FileFits' /\ HeldInv'
      BY <1>7, <2>2, ReadStep DEF TimedRead, Saw
    <3>3. CacheInv'
      BY <1>7, <2>2, ReadStep DEF TimedRead, Saw
    <3>4. ErrorInv'
      BY <1>7, <2>2, ReadStep DEF TimedRead, Saw
    <3> QED
      BY <3>1, <3>2, <3>3, <3>4
  <2> QED
    BY <1>7, <2>1, <2>2, ReadStep DEF TimedRead
<1>8. CASE TimedDecompress
  <2>1. timed' \subseteq {"cold", "warm"} /\ cache' \in {"cold", "warm"} /\ mode' = mode
    BY <1>8 DEF TimedDecompress, Saw
  <2>2. CASE pc' = "loop"
    <3>1. TypeOK'
      <4>1. timed' \subseteq {"cold", "warm"}
        BY <1>8, <2>1, <2>2 DEF TimedDecompress
      <4>2. failed' \subseteq {"dd", "open", "posix_fadvise", "mmap", "read", "decompress"}
        BY <1>8, <2>1, <2>2 DEF TimedDecompress
      <4>3. iter' \in 0 .. Iterations /\ offset' \in 0 .. file_size'
        BY <1>8, <2>1, <2>2 DEF TimedDecompress
      <4> QED
        BY <1>8, <2>1, <2>2, <4>1, <4>2, <4>3 DEF TimedDecompress
    <3>2. FileInv' /\ FileFits' /\ HeldInv'
      BY <1>8, <2>1, <2>2 DEF TimedDecompress
    <3>3. CacheInv'
      BY <1>8, <2>1, <2>2 DEF TimedDecompress
    <3>4. ErrorInv'
      BY <1>8, <2>1, <2>2 DEF TimedDecompress
    <3> QED
      BY <3>1, <3>2, <3>3, <3>4
  <2>3. CASE pc' = "err"
    <3>1. TypeOK'
      <4>1. timed' \subseteq {"cold", "warm"}
        BY <1>8, <2>1, <2>3 DEF TimedDecompress
      <4>2. failed' \subseteq {"dd", "open", "posix_fadvise", "mmap", "read", "decompress"}
        BY <1>8, <2>1, <2>3 DEF TimedDecompress
      <4>3. iter' \in 0 .. Iterations /\ offset' \in 0 .. file_size'
        BY <1>8, <2>1, <2>3 DEF TimedDecompress
      <4> QED
        BY <1>8, <2>1, <2>3, <4>1, <4>2, <4>3 DEF TimedDecompress
    <3>2. FileInv' /\ FileFits' /\ HeldInv'
      BY <1>8, <2>1, <2>3 DEF TimedDecompress
    <3>3. CacheInv'
      BY <1>8, <2>1, <2>3 DEF TimedDecompress
    <3>4. ErrorInv'
      BY <1>8, <2>1, <2>3 DEF TimedDecompress
    <3> QED
      BY <3>1, <3>2, <3>3, <3>4
  <2> QED
    BY <1>8, <2>2, <2>3 DEF TimedDecompress
<1>9. CASE LoopEnd
  BY <1>9 DEF LoopEnd, SizeFlagged
<1>10. CASE Err
  BY <1>10 DEF Err, Unmapped, Closed
<1>11. CASE Report
  BY <1>11 DEF Report
<1>12. CASE UNCHANGED vars
  BY <1>12 DEF vars
<1> QED
  BY <1>1, <1>2, <1>3, <1>4, <1>5, <1>6, <1>7, <1>8, <1>9, <1>10, <1>11, <1>12
  DEF Next

(* The inductive invariant holds in every state. *)
THEOREM Invariance == Spec => []IInv
<1>1. Init => IInv
  BY FullSystemAssumption
  DEF Init, IInv, TypeOK, FileInv, HeldInv, CacheInv, ErrorInv, FileFits, Opened, Disk, Mode
<1>2. IInv /\ [Next]_vars => IInv'
  BY Preservation
<1> QED
  BY <1>1, <1>2, PTL DEF Spec

(* Every variable keeps its type. *)
THEOREM TypeCorrect == Spec => []TypeOK
<1>1. IInv => TypeOK
  BY DEF IInv
<1> QED
  BY <1>1, Invariance, PTL

(* No row leaves a descriptor or a mapping behind, on whatever path it     *)
(* returns.                                                                *)
THEOREM RowsCleanUp == Spec => []RowCleansUp
<1>1. IInv => RowCleansUp
  BY DEF IInv, HeldInv, RowCleansUp
<1> QED
  BY <1>1, Invariance, PTL

(* For any number of iterations and rows, an unmarked disk row that opened *)
(* its file has timed a read, and none from the page cache.                *)
THEOREM DiskRowsCold == Spec => []DiskRowsAreCold
<1>1. IInv => DiskRowsAreCold
  BY DEF IInv, CacheInv, Opened, Disk, DiskRowsAreCold
<1> QED
  BY <1>1, Invariance, PTL

(* The file stays inside the buffer it is written from, and consists of    *)
(* whole pages.                                                            *)
THEOREM FileInBuffer == Spec => []FileFits
<1>1. IInv => FileFits
  BY DEF IInv
<1> QED
  BY <1>1, Invariance, PTL

(* A row that has opened its file marks every error. *)
THEOREM OpenedHonest == Spec => []OpenedRowIsHonest
<1>1. IInv => OpenedRowIsHonest
  BY DEF IInv, TypeOK, ErrorInv, Opened, Disk, OpenedRowIsHonest
<1> QED
  BY <1>1, Invariance, PTL

-------------------------------------------------------------------------------
(* Rows as BenchRow.                                                       *)

\* A message comes from one failed call, after which the loop does not run, or
\* from the comparison after a loop in which nothing has failed.
MarkInv ==
  /\ pc \in {"prepare", "fatal"} => msg = "none" /\ failed = {}
  /\ pc \in {"open", "advise", "map", "read", "loop"} /\ msg = "skipped" =>
       /\ mode = "DecompressFromFile" /\ pc \in {"map", "loop"} /\ Marking # {}
       /\ pc = "loop" => iter = 0
  /\ pc \in {"err", "returned"} /\ msg = "skipped" /\ Marking = {} => failed = {}

(* A message keeps its one cause. *)
LEMMA MarkKeeps ==
  ASSUME IInv, MarkInv, [Next]_vars PROVE MarkInv'
<1> USE FullSystemAssumption DEF MarkInv, Marking, row, prepared, system
<1>1. CASE Prepare \/ DropCache \/ Open \/ Advise
  BY <1>1 DEF Prepare, DropCache, Open, Advise, IInv, TypeOK, ErrorInv
<1>2. CASE Map
  BY <1>2 DEF Map, IInv, TypeOK
<1>3. CASE ReadBefore
  BY <1>3, ReadStep DEF ReadBefore
<1>4. CASE TimedRead
  BY <1>4, ReadStep DEF TimedRead, IInv, TypeOK
<1>5. CASE TimedDecompress
  BY <1>5 DEF TimedDecompress, IInv, TypeOK
<1>6. CASE LoopEnd
  <2>1. msg = "none" => failed = {}
    BY <1>6 DEF LoopEnd, IInv, TypeOK, ErrorInv, Opened
  <2> QED
    BY <1>6, <2>1 DEF LoopEnd, IInv, TypeOK
<1>7. CASE Err \/ Report \/ UNCHANGED vars
  BY <1>7 DEF Err, Report, vars
<1> QED
  BY <1>1, <1>2, <1>3, <1>4, <1>5, <1>6, <1>7 DEF Next

(* The rows implement BenchRow as far as they have opened their file.      *)
THEOREM RowRefinement == Spec => ImplementsRow
<1> DEFINE Off == {"prepare", "fatal", "idle"}
           F == {"posix_fadvise", "mmap", "read", "decompress"}
           hidden == {"dd", "open"}
           Marks == /\ failed \subseteq failed' /\ failed' \subseteq F \union hidden
                    /\ RowMsg' = RowMsg \/ (RowMsg = "none" /\ RowMsg' \in Marking')
<1>1. Init => Row!Init /\ MarkInv
  BY DEF Init, Row!Init, RowMsg, MarkInv
<1>2. Marking \subseteq F \ hidden /\ Marking \subseteq failed
  BY DEF Marking
<1>3. Marking' \subseteq failed' \ hidden
  BY DEF Marking
<1>4. ASSUME pc \notin Off, pc' \notin Off, Marks PROVE Row!Next
  BY <1>3, <1>4 DEF Row!Next, Row!Step
<1>5. ASSUME IInv, MarkInv, Prepare PROVE UNCHANGED Row!rowVars
  <2>1. pc \in Off /\ pc' \in Off /\ msg' = msg /\ failed' = failed /\ msg = "none"
    BY <1>5 DEF Prepare, row, MarkInv
  <2> QED
    BY <2>1 DEF Row!rowVars, RowMsg
<1>6. ASSUME DropCache PROVE Row!Next
  <2>1. pc \in Off /\ pc' \notin Off /\ msg' = "none" /\ failed' \subseteq hidden
    BY <1>6 DEF DropCache
  <2>2. RowMsg' = "none"
    BY <2>1 DEF RowMsg
  <2> QED
    BY <2>1, <2>2 DEF Row!Next, Row!Begin
<1>7. ASSUME IInv, MarkInv, Open \/ Advise \/ Map PROVE pc \notin Off /\ pc' \notin Off /\ Marks
  BY <1>7 DEF Open, Advise, Map, RowMsg, Marking, MarkInv, IInv, TypeOK
<1>8. ASSUME IInv, MarkInv, ReadBefore \/ TimedRead \/ TimedDecompress
      PROVE  pc \notin Off /\ pc' \notin Off /\ Marks
  <2>1. CASE ReadBefore \/ TimedRead
    <3>1. pc \notin Off /\ msg = "none" /\ pc' \in {"loop", "err"}
      BY <1>8, <2>1, ReadStep DEF ReadBefore, TimedRead, MarkInv, IInv, TypeOK
    <3>2. \/ msg' = msg /\ failed' = failed
          \/ msg' = "skipped" /\ failed' = failed \union {"read"}
      BY <1>8, <2>1, ReadStep DEF ReadBefore, TimedRead
    <3>3. failed' \subseteq F \union hidden
      BY <1>8, <3>2 DEF IInv, TypeOK
    <3>4. RowMsg = "none" /\ (RowMsg' = "none" \/ RowMsg' \in Marking')
      BY <3>1, <3>2 DEF RowMsg, Marking
    <3> QED
      BY <3>1, <3>2, <3>3, <3>4
  <2>2. CASE TimedDecompress
    <3>1. pc \notin Off /\ msg = "none" /\ pc' \in {"loop", "err"}
      BY <1>8, <2>2 DEF TimedDecompress, MarkInv, IInv, TypeOK
    <3>2. \/ msg' = msg /\ failed' = failed
          \/ msg' = "skipped" /\ failed' = failed \union {"decompress"}
      BY <1>8, <2>2 DEF TimedDecompress
    <3>3. failed' \subseteq F \union hidden
      BY <1>8, <3>2 DEF IInv, TypeOK
    <3>4. RowMsg = "none" /\ (RowMsg' = "none" \/ RowMsg' \in Marking')
      BY <3>1, <3>2 DEF RowMsg, Marking
    <3> QED
      BY <3>1, <3>2, <3>3, <3>4
  <2> QED
    BY <1>8, <2>1, <2>2
<1>9. ASSUME IInv, MarkInv, LoopEnd \/ Err PROVE pc \notin Off /\ pc' \notin Off /\ Marks
  <2>1. pc \notin Off /\ pc' \notin Off /\ failed' = failed /\ Marking' = Marking
    BY <1>9 DEF LoopEnd, Err, row, Marking
  <2>2. RowMsg' = RowMsg
    <3>1. CASE msg' = msg
      BY <2>1, <3>1 DEF RowMsg
    <3>2. CASE msg' # msg
      <4>1. LoopEnd /\ msg = "none"
        BY <1>9, <3>2 DEF LoopEnd, SizeFlagged, Err, row, IInv, TypeOK
      <4>2. failed = {}
        BY <1>9, <4>1, FullSystemAssumption DEF LoopEnd, IInv, ErrorInv, Opened, TypeOK
      <4>3. Marking' = {} /\ Marking = {}
        BY <2>1, <4>2 DEF Marking
      <4> QED
        BY <2>1, <4>1, <4>3 DEF RowMsg
    <3> QED
      BY <3>1, <3>2
  <2> QED
    BY <1>9, <2>1, <2>2 DEF IInv, TypeOK
<1>10. ASSUME IInv, MarkInv, Report PROVE Row!Next
  <2>1. pc = "returned" /\ pc' = "idle" /\ msg' = msg /\ failed' = failed /\ Marking' = Marking
    BY <1>10 DEF Report, row, Marking
  <2>2. CASE msg = "none"
    <3>1. failed \subseteq hidden
      BY <1>10, <2>1, <2>2 DEF IInv, ErrorInv
    <3>2. RowMsg = "none" /\ RowMsg' = "none"
      BY <2>1, <2>2 DEF RowMsg
    <3> QED
      BY <2>1, <3>1, <3>2 DEF Row!Next, Row!Report
  <2>3. CASE msg = "skipped" /\ Marking = {}
    <3>1. failed = {}
      BY <1>10, <2>1, <2>3 DEF MarkInv
    <3>2. RowMsg = "none" /\ RowMsg' = "mismatch"
      BY <2>1, <2>3 DEF RowMsg
    <3> QED
      BY <2>1, <3>1, <3>2 DEF Row!Next, Row!Report
  <2>4. CASE msg = "skipped" /\ Marking # {}
    <3>1. RowMsg' = RowMsg /\ RowMsg \in Marking
      BY <2>1, <2>4 DEF RowMsg
    <3>2. RowMsg # "none" /\ failed \ hidden # {}
      BY <1>2, <3>1
    <3> QED
      BY <2>1, <3>1, <3>2 DEF Row!Next, Row!Report
  <2> QED
    BY <1>10, <2>2, <2>3, <2>4 DEF IInv, TypeOK
<1>11. UNCHANGED vars => UNCHANGED Row!rowVars
  BY DEF vars, row, Row!rowVars, RowMsg, Marking
<1> HIDE DEF Marks, Off
<1>12. IInv /\ MarkInv /\ [Next]_vars => [Row!Next]_(Row!rowVars)
  BY <1>4, <1>5, <1>6, <1>7, <1>8, <1>9, <1>10, <1>11 DEF Next
<1>13. IInv /\ MarkInv /\ [Next]_vars => MarkInv'
  BY MarkKeeps
<1> QED
  BY <1>1, <1>12, <1>13, Invariance, PTL DEF Spec, ImplementsRow, Row!Spec
===============================================================================
