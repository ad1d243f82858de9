-------------------------- MODULE RegistrationProofs --------------------------
(***************************************************************************)
(* Proofs about Registration, for any files, read sizes, filters, limits   *)
(* and failures, and about ByteHistogram, whose counts become the entropy  *)
(* in the names of the rows.                                               *)
(***************************************************************************)
EXTENDS Registration, ByteHistogram, SequenceTheorems, FiniteSetTheorems, TLAPS

-------------------------------------------------------------------------------
(* The inductive invariant.                                                *)

FileGroups(f) == {Group(Blocking(f), f), Group(Canned(f), f),
                  Group(MultipleEngine(f), f), Group(PageFault(f), f)}
PreparedGroup(n, wiki) == Group(FullSystem(n), <<Filename(n), <<wiki, n>>>>)

Sizes == ToSet(ReadSizes)
SomeGroup == (UNION {FileGroups(f) : f \in Corpus})
               \union {PreparedGroup(n, wiki) : n \in Sizes, wiki \in File("wiki_tmp")}

\* What has been read of the directory being loaded.
LoadInv ==
  /\ dataset \in Seq(File(path))
  /\ ToSet(dataset) = File(path) \ todo
  /\ pc \in {"register", "prepare", "run", "done"} => todo = {}
  /\ pc = "register" => path = "snapshots_tmp"
  /\ pc \in {"prepare", "run", "done"} => path = "wiki_tmp" /\ dataset # <<>>

\* source_buffs holds the files of the directories loaded before, each under
\* a name of its own.
Merged ==
  IF path = "silesia_tmp" THEN {}
  ELSE IF path = "snapshots_tmp" /\ pc # "register" THEN File("silesia_tmp") ELSE Corpus

TableInv ==
  /\ DOMAIN source_buffs = Merged
  /\ \A name \in Merged : source_buffs[name] = name
  /\ unregistered \subseteq Merged
  /\ path = "wiki_tmp" => unregistered = {}

\* Four groups for each file the loop has come to, then one for each file
\* prepared.
Named == IF pc = "register" \/ path = "wiki_tmp" THEN Corpus \ unregistered ELSE {}
FileRows == 4 * Cardinality(Named)

GroupInv ==
  /\ registered \in Seq(SomeGroup)
  /\ Len(registered) \in FileRows .. FileRows + Len(ReadSizes)
  /\ {registered[n] : n \in 1 .. FileRows} = UNION {FileGroups(f) : f \in Named}
  /\ \A n \in FileRows + 1 .. Len(registered) :
       registered[n] = PreparedGroup(ReadSizes[n - FileRows], Head(dataset))
  /\ \A n1, n2 \in 1 .. Len(registered) :
       n1 # n2 => registered[n1].rows \intersect registered[n2].rows = {}
  /\ pc \in {"load", "register"} => Len(registered) = FileRows
  /\ pc \in {"run", "done"} => Len(registered) = FileRows + Len(ReadSizes)

\* Each prepared file still holds what it was prepared with.
DiskInv ==
  \A n \in FileRows + 1 .. Len(registered) :
    LET read_size == ReadSizes[n - FileRows]
    IN /\ Filename(read_size) \in DOMAIN disk
       /\ disk[Filename(read_size)] = <<Head(dataset), read_size>>

\* Nothing has failed where the process has not stopped, and the directories
\* it has been through are there.
FailInv ==
  /\ pc # "fatal" => failed = {}
  /\ path # "silesia_tmp" \/ pc = "register" => "silesia_tmp" \in present
  /\ path = "wiki_tmp" \/ pc = "register" => "snapshots_tmp" \in present
  /\ pc \in {"prepare", "run", "done"} => "wiki_tmp" \in present

\* Rows run in the order of registration, those the filter selects.
RunInv ==
  /\ pc \notin {"run", "done"} => row = 1 /\ starved = {}
  /\ pc = "done" => row = Len(registered) + 1
  /\ ran = Selected(UNION {registered[n].rows : n \in 1 .. row - 1})

\* Descriptors go to files that were loaded and calls of page-fault rows.
LoadedFiles ==
  (IF path # "silesia_tmp" THEN File("silesia_tmp") ELSE {})
    \union (IF path = "wiki_tmp" THEN File("snapshots_tmp") ELSE {})
    \union (File(path) \ todo)
AllFiles == UNION {File(p) : p \in Paths}
Leaks == {r \in ran : "pfscenario" \in DOMAIN r}

FdInv ==
  /\ pc # "fatal" =>
       fds <= Cardinality(LoadedFiles) + Repetitions * Cardinality(Leaks)
  /\ DescriptorBudget

IInv ==
  /\ TypeOK /\ LoadInv /\ TableInv /\ GroupInv /\ DiskInv /\ FailInv /\ RunInv /\ FdInv

-------------------------------------------------------------------------------
(* The rows of a group.                                                    *)

(* What the rows of each kind of group are called. *)
LEMMA RowNames ==
  ASSUME NEW f, NEW n
  PROVE  /\ \A r \in Blocking(f) :
              /\ r.bm \in {"SingleEngineBlocking_Compress", "SingleEngineBlocking_DeCompress"}
              /\ r.name = f /\ DOMAIN r = {"bm", "name", "mode", "path"}
         /\ \A r \in Canned(f) :
              /\ r.bm \in {"SingleEngineBlocking_Compress_Canned",
                           "SingleEngineBlocking_DeCompress_Canned"}
              /\ r.name = f /\ DOMAIN r = {"bm", "name", "mode"}
         /\ \A r \in MultipleEngine(f) :
              /\ r.bm \in {"MultipleEngine_Compress", "MultipleEngine_DeCompress"}
              /\ r.name = f /\ DOMAIN r = {"bm", "name", "mode", "jobs"}
         /\ \A r \in PageFault(f) :
              /\ r.bm \in {"SingleEngineMinorPageFault_Compress",
                           "SingleEngineMinorPageFault_DeCompress"}
              /\ r.name = f /\ DOMAIN r = {"bm", "name", "pfscenario"}
         /\ \A r \in FullSystem(n) :
              r.bm = "FullSystem" /\ r.size = n /\ DOMAIN r = {"bm", "size", "mode"}
<1>1. ASSUME NEW r \in Blocking(f)
      PROVE  /\ r.bm \in {"SingleEngineBlocking_Compress", "SingleEngineBlocking_DeCompress"}
             /\ r.name = f /\ DOMAIN r = {"bm", "name", "mode", "path"}
  BY <1>1 DEF Blocking
<1>2. ASSUME NEW r \in Canned(f)
      PROVE  /\ r.bm \in {"SingleEngineBlocking_Compress_Canned",
                          "SingleEngineBlocking_DeCompress_Canned"}
             /\ r.name = f /\ DOMAIN r = {"bm", "name", "mode"}
  BY <1>2 DEF Canned
<1>3. ASSUME NEW r \in MultipleEngine(f)
      PROVE  /\ r.bm \in {"MultipleEngine_Compress", "MultipleEngine_DeCompress"}
             /\ r.name = f /\ DOMAIN r = {"bm", "name", "mode", "jobs"}
  BY <1>3 DEF MultipleEngine
<1>4. ASSUME NEW r \in PageFault(f)
      PROVE  /\ r.bm \in {"SingleEngineMinorPageFault_Compress",
                          "SingleEngineMinorPageFault_DeCompress"}
             /\ r.name = f /\ DOMAIN r = {"bm", "name", "pfscenario"}
  BY <1>4 DEF PageFault
<1>5. ASSUME NEW r \in FullSystem(n)
      PROVE  r.bm = "FullSystem" /\ r.size = n /\ DOMAIN r = {"bm", "size", "mode"}
  BY <1>5 DEF FullSystem
<1> QED
  BY <1>1, <1>2, <1>3, <1>4, <1>5

(* Groups of different files, of one file, and of the full system have no  *)
(* row in common.                                                          *)
LEMMA GroupsApart ==
  ASSUME NEW f1, NEW f2, NEW n1, NEW n2
  PROVE  /\ f1 # f2 => \A g \in FileGroups(f1), h \in FileGroups(f2) :
                         g.rows \intersect h.rows = {}
         /\ Blocking(f1) \intersect Canned(f1) = {}
         /\ Blocking(f1) \intersect MultipleEngine(f1) = {}
         /\ Blocking(f1) \intersect PageFault(f1) = {}
         /\ Canned(f1) \intersect MultipleEngine(f1) = {}
         /\ Canned(f1) \intersect PageFault(f1) = {}
         /\ MultipleEngine(f1) \intersect PageFault(f1) = {}
         /\ \A g \in FileGroups(f1) : g.rows \intersect FullSystem(n1) = {}
         /\ n1 # n2 => FullSystem(n1) \intersect FullSystem(n2) = {}
<1>1. \A g \in FileGroups(f1) : \A r \in g.rows : r.name = f1 /\ r.bm # "FullSystem"
  BY RowNames DEF FileGroups, Group
<1>2. \A g \in FileGroups(f2) : \A r \in g.rows : r.name = f2 /\ r.bm # "FullSystem"
  BY RowNames DEF FileGroups, Group
<1>3. \A r \in FullSystem(n1) : r.bm = "FullSystem" /\ r.size = n1
  BY RowNames
<1>4. \A r \in FullSystem(n2) : r.bm = "FullSystem" /\ r.size = n2
  BY RowNames
<1> QED
  BY <1>1, <1>2, <1>3, <1>4, RowNames

(* A page-fault group has finitely many rows. *)
LEMMA PageFaultFinite ==
  ASSUME NEW f
  PROVE  IsFiniteSet(PageFault(f))
<1> DEFINE A == {"SingleEngineMinorPageFault_Compress", "SingleEngineMinorPageFault_DeCompress"}
           B == {"MajorPageFaults", "MinorPageFaults", "AtsMiss", "NoFaults"}
           F == [z \in A \X B |-> [bm |-> z[1], name |-> f, pfscenario |-> z[2]]]
<1>1. IsFiniteSet(A) /\ IsFiniteSet(B)
  <2>1. \A x : IsFiniteSet({x})
    BY FS_Singleton
  <2>2. \A S, x : IsFiniteSet(S) => IsFiniteSet(S \union {x})
    BY FS_AddElement
  <2>3. ASSUME NEW x, NEW y PROVE IsFiniteSet({x, y})
    <3>1. {x, y} = {x} \union {y}
      OBVIOUS
    <3>2. IsFiniteSet({x} \union {y})
      BY <2>1, <2>2, Zenon
    <3> QED
      BY <3>1, <3>2, Zenon
  <2>4. ASSUME NEW x, NEW y, NEW z, NEW u PROVE IsFiniteSet({x, y, z, u})
    <3>1. {x, y, z, u} = ({x, y} \union {z}) \union {u}
      OBVIOUS
    <3>2. IsFiniteSet(({x, y} \union {z}) \union {u})
      BY <2>2, <2>3, Zenon
    <3> QED
      BY <3>1, <3>2, Zenon
  <2> QED
    BY <2>3, <2>4, Zenon
<1>2. F \in Surjection(A \X B, PageFault(f))
  <2>1. F \in [A \X B -> PageFault(f)]
    BY DEF PageFault
  <2>2. ASSUME NEW r \in PageFault(f)
        PROVE  \E z \in A \X B : F[z] = r
    <3>1. r.bm \in A /\ r.pfscenario \in B
      BY <2>2 DEF PageFault
    <3>2. r = [bm |-> r.bm, name |-> f, pfscenario |-> r.pfscenario]
      BY <2>2 DEF PageFault
    <3>3. <<r.bm, r.pfscenario>> \in A \X B
      BY <3>1
    <3>4. F[<<r.bm, r.pfscenario>>] = r
      BY <3>2, <3>3
    <3> QED
      BY <3>3, <3>4
  <2> QED
    BY <2>1, <2>2 DEF Surjection
<1> HIDE DEF A, B, F
<1>3. IsFiniteSet(A \X B)
  BY <1>1, FS_Product
<1> QED
  BY <1>2, <1>3, FS_Surjection

-------------------------------------------------------------------------------
(* Files, descriptors and sequences.                                       *)

(* There are finitely many files, those of a directory are of no other,    *)
(* and those that have been loaded are some of them.                       *)
LEMMA FilesFinite ==
  /\ \A p \in Paths : IsFiniteSet(File(p)) /\ File(p) \subseteq AllFiles
  /\ \A p, q : p # q => File(p) \intersect File(q) = {}
  /\ IsFiniteSet(AllFiles) /\ Cardinality(AllFiles) \in Nat
  /\ IsFiniteSet(Corpus) /\ Corpus \subseteq AllFiles
<1>1. ASSUME NEW p \in Paths
      PROVE  IsFiniteSet(File(p))
  <2>1. IsFiniteSet({p}) /\ IsFiniteSet(Files[p])
    BY FS_Singleton, RegistrationAssumption
  <2> QED
    BY <2>1, FS_Product DEF File
<1>2. \A S, T : IsFiniteSet(S) /\ IsFiniteSet(T) => IsFiniteSet(S \union T)
  BY FS_Union
<1>3. Corpus = File("silesia_tmp") \union File("snapshots_tmp")
  BY DEF Corpus
<1>4. AllFiles = Corpus \union File("wiki_tmp")
  BY DEF Corpus, AllFiles, Paths
<1>5. "silesia_tmp" \in Paths /\ "snapshots_tmp" \in Paths /\ "wiki_tmp" \in Paths
  BY DEF Paths
<1>6. IsFiniteSet(Corpus)
  BY <1>1, <1>2, <1>3, <1>5, Zenon
<1>7. IsFiniteSet(AllFiles)
  BY <1>1, <1>2, <1>4, <1>5, <1>6, Zenon
<1>8. Cardinality(AllFiles) \in Nat
  BY <1>7, FS_CardinalityType
<1>9. \A p, q : p # q => File(p) \intersect File(q) = {}
  BY DEF File
<1> QED
  BY <1>1, <1>4, <1>6, <1>7, <1>8, <1>9 DEF AllFiles

(* So are the rows that may have kept a descriptor. *)
LEMMA LeaksFinite ==
  ASSUME IInv
  PROVE  /\ IsFiniteSet(Leaks) /\ Cardinality(Leaks) \in Nat
         /\ IsFiniteSet(LoadedFiles) /\ Cardinality(LoadedFiles) \in Nat
         /\ Cardinality(LoadedFiles) <= Cardinality(AllFiles)
<1> DEFINE Of == [f \in Corpus |-> PageFault(f)]
           All == {PageFault(f) : f \in Corpus}
<1>1. IsFiniteSet(UNION All)
  <2>1. Of \in Surjection(Corpus, All)
    BY DEF Surjection
  <2>2. \A T \in All : IsFiniteSet(T)
    BY PageFaultFinite
  <2> HIDE DEF Of, All
  <2>3. IsFiniteSet(All)
    BY <2>1, FilesFinite, FS_Surjection
  <2> QED
    BY <2>2, <2>3, FS_UNION
<1>2. Leaks \subseteq UNION All
  <2> SUFFICES ASSUME NEW r \in ran, "pfscenario" \in DOMAIN r
               PROVE  \E f \in Corpus : r \in PageFault(f)
    BY DEF Leaks
  <2>1. row \in Nat /\ row <= Len(registered) + 1 /\ Len(registered) \in Nat
    BY LenProperties DEF IInv, TypeOK, GroupInv
  <2>2. PICK n \in 1 .. row - 1 : r \in registered[n].rows
    BY DEF IInv, RunInv, Selected
  <2>3. n \in 1 .. Len(registered)
    BY <2>1, <2>2
  <2>4. registered[n] \in SomeGroup
    BY <2>3, ElementOfSeq DEF IInv, GroupInv
  <2>5. CASE \E k \in Sizes, wiki \in File("wiki_tmp") : registered[n] = PreparedGroup(k, wiki)
    BY <2>2, <2>5, RowNames DEF PreparedGroup, Group
  <2>6. CASE \E f \in Corpus : registered[n] \in FileGroups(f)
    BY <2>2, <2>6, RowNames DEF FileGroups, Group
  <2> QED
    BY <2>4, <2>5, <2>6 DEF SomeGroup
<1>3. LoadedFiles \subseteq AllFiles
  BY DEF LoadedFiles, AllFiles, IInv, TypeOK, Paths
<1> HIDE DEF Of, All
<1>4. IsFiniteSet(Leaks)
  BY <1>1, <1>2, FS_Subset
<1>5. IsFiniteSet(LoadedFiles) /\ Cardinality(LoadedFiles) <= Cardinality(AllFiles)
  BY <1>3, FilesFinite, FS_Subset
<1> QED
  BY <1>4, <1>5, FS_CardinalityType

(* Appending to a vector adds to what it holds. *)
LEMMA AppendToSet ==
  ASSUME NEW S, NEW s \in Seq(S), NEW e \in S
  PROVE  /\ ToSet(Append(s, e)) = ToSet(s) \union {e}
         /\ s # <<>> => Head(Append(s, e)) = Head(s)
<1>1. /\ Append(s, e) \in Seq(S)
      /\ Len(Append(s, e)) = Len(s) + 1
      /\ \A n \in 1 .. Len(s) : Append(s, e)[n] = s[n]
      /\ Append(s, e)[Len(s) + 1] = e
  BY AppendProperties
<1>2. Len(s) \in Nat /\ DOMAIN s = 1 .. Len(s) /\ DOMAIN Append(s, e) = 1 .. Len(s) + 1
  BY <1>1, LenProperties
<1>3. ToSet(Append(s, e)) = ToSet(s) \union {e}
  BY <1>1, <1>2 DEF ToSet
<1> QED
  BY <1>1, <1>2, <1>3

(* An empty vector holds nothing. *)
LEMMA EmptyToSet == ToSet(<<>>) = {} /\ DOMAIN <<>> = {}
BY DEF ToSet

-------------------------------------------------------------------------------
(* The steps of the process.                                               *)

(* Where nothing is registered, the groups are as they were. *)
LEMMA GroupsStay ==
  ASSUME IInv, Named' = Named, UNCHANGED <<registered, disk>>,
         dataset' = dataset \/ Len(registered) = FileRows,
         pc' \in {"load", "register"} => Len(registered) = FileRows,
         pc' \in {"run", "done"} => Len(registered) = FileRows + Len(ReadSizes)
  PROVE  GroupInv' /\ DiskInv' /\ Len(registered) \in Nat /\ FileRows \in Nat
<1>1. FileRows' = FileRows
  BY DEF FileRows
<1>2. Len(registered) \in Nat
  BY LenProperties DEF IInv, GroupInv
<1>3. IsFiniteSet(Named)
  BY FilesFinite, FS_Subset, FS_EmptySet DEF Named
<1>4. FileRows \in Nat
  BY <1>3, FS_CardinalityType DEF FileRows
<1>5. GroupInv'
  BY <1>1, <1>2, <1>4 DEF IInv, GroupInv
<1>6. DiskInv'
  <2>1. CASE dataset' = dataset
    BY <1>1, <2>1 DEF IInv, DiskInv, Filename
  <2>2. CASE Len(registered) = FileRows
    <3>1. FileRows' + 1 .. Len(registered') = {}
      BY <1>1, <1>2, <1>4, <2>2
    <3> QED
      BY <3>1 DEF DiskInv
  <2> QED
    BY <2>1, <2>2
<1> QED
  BY <1>2, <1>4, <1>5, <1>6

(* A failure before the rows run stops the process where it is.            *)
LEMMA AbortKeeps ==
  ASSUME IInv, pc \in {"load", "prepare"}, pc' = "fatal",
         UNCHANGED <<input, loading, tables, disk, running>>,
         fds' \in 0 .. limit,
         failed' \subseteq {"directory", "open", "read", "wiki", "prepare"}
  PROVE  IInv'
<1> USE DEF input, loading, tables, running
<1>1. Named' = Named /\ Merged' = Merged
  BY DEF Named, Merged
<1>2. TypeOK'
  BY DEF IInv, TypeOK, Prepared
<1>3. LoadInv' /\ TableInv' /\ FailInv'
  BY <1>1 DEF IInv, LoadInv, TableInv, FailInv
<1>4. GroupInv' /\ DiskInv'
  BY <1>1, GroupsStay
<1>5. RunInv'
  BY DEF IInv, RunInv, Selected
<1>6. FdInv'
  BY <1>5 DEF RunInv, FdInv, DescriptorBudget
<1> QED
  BY <1>2, <1>3, <1>4, <1>5, <1>6 DEF IInv

(* One more file: it was not counted among those that are loaded.          *)
LEMMA LoadFileKeeps ==
  ASSUME IInv, LoadFile PROVE IInv'
<1>1. PICK file \in todo, opens \in Outcome, reads \in Outcome :
        /\ opens = "bad" \/ fds >= limit =>
             /\ Abort("open") /\ UNCHANGED <<todo, dataset, fds>>
        /\ ~(opens = "bad" \/ fds >= limit) =>
             /\ fds' = fds + 1
             /\ reads = "bad" => Abort("read") /\ UNCHANGED <<todo, dataset>>
             /\ reads # "bad" => /\ todo' = todo \ {file}
                                 /\ dataset' = Append(dataset, file)
                                 /\ UNCHANGED <<pc, failed>>
  BY DEF LoadFile
<1>2. /\ pc = "load" /\ path \in present
      /\ UNCHANGED <<input, path, tables, disk, running>>
  BY DEF LoadFile
<1>3. fds \in Nat /\ limit \in Nat /\ fds <= limit
  BY RegistrationAssumption DEF IInv, TypeOK
<1>4. CASE opens = "bad" \/ fds >= limit
  BY <1>1, <1>2, <1>3, <1>4, AbortKeeps DEF Abort, loading, IInv, TypeOK
<1>5. CASE ~(opens = "bad" \/ fds >= limit) /\ reads = "bad"
  <2>1. fds' \in 0 .. limit
    BY <1>1, <1>3, <1>5
  <2> QED
    BY <1>1, <1>2, <1>5, <2>1, AbortKeeps DEF Abort, loading, IInv, TypeOK
<1>6. CASE ~(opens = "bad" \/ fds >= limit) /\ reads # "bad"
  <2> USE DEF input, tables, running
  <2>1. /\ fds' = fds + 1 /\ fds' \in 0 .. limit
        /\ todo' = todo \ {file} /\ dataset' = Append(dataset, file)
        /\ pc' = "load" /\ UNCHANGED <<failed, path>>
    BY <1>1, <1>2, <1>3, <1>6
  <2>2. file \in File(path) /\ dataset \in Seq(File(path))
    BY DEF IInv, TypeOK, LoadInv
  <2>3. dataset' \in Seq(File(path)) /\ ToSet(dataset') = ToSet(dataset) \union {file}
    BY <2>1, <2>2, AppendToSet, AppendProperties
  <2>4. Named' = Named /\ Merged' = Merged
    BY <1>2, <2>1 DEF Named, Merged
  <2>5. TypeOK'
    BY <1>2, <2>1, <2>2, <2>3 DEF IInv, TypeOK, Prepared
  <2>6. LoadInv'
    BY <1>2, <2>1, <2>2, <2>3 DEF IInv, TypeOK, LoadInv
  <2>7. TableInv' /\ FailInv' /\ RunInv'
    BY <1>2, <2>1, <2>4 DEF IInv, TableInv, FailInv, RunInv, Selected
  <2>8. GroupInv' /\ DiskInv'
    <3>1. Len(registered) = FileRows
      BY <1>2 DEF IInv, GroupInv
    <3> QED
      BY <1>2, <2>1, <2>4, <3>1, GroupsStay
  <2>9. FdInv'
    <3>1. LoadedFiles' = LoadedFiles \union {file} /\ file \notin LoadedFiles
      BY <2>1, <2>2, FilesFinite DEF LoadedFiles
    <3>2. Cardinality(LoadedFiles') = Cardinality(LoadedFiles) + 1
      BY <3>1, LeaksFinite, FS_AddElement
    <3>3. Leaks' = Leaks
      BY <1>2 DEF Leaks
    <3>4. Repetitions * Cardinality(Leaks) \in Nat
      BY LeaksFinite, RegistrationAssumption
    <3>5. fds <= Cardinality(LoadedFiles) + Repetitions * Cardinality(Leaks)
      BY <1>2 DEF IInv, FdInv
    <3>6. DescriptorBudget'
      BY <2>1, <2>7 DEF RunInv, DescriptorBudget
    <3>7. fds' <= Cardinality(LoadedFiles') + Repetitions * Cardinality(Leaks')
      BY <1>3, <2>1, <3>2, <3>3, <3>4, <3>5, LeaksFinite
    <3> QED
      BY <3>6, <3>7 DEF FdInv
  <2> QED
    BY <2>5, <2>6, <2>7, <2>8, <2>9 DEF IInv
<1> QED
  BY <1>4, <1>5, <1>6

(* A directory has been loaded: each of its files gets a name of its own.  *)
LEMMA LoadedKeeps ==
  ASSUME IInv, Loaded PROVE IInv'
<1> USE DEF input, running
<1>1. /\ pc = "load" /\ path \in present /\ todo = {}
      /\ path \in {"silesia_tmp", "snapshots_tmp"}
      /\ source_buffs' = Merge(source_buffs, ToSet(dataset))
      /\ UNCHANGED <<input, registered, disk, running, fds, failed>>
  BY DEF Loaded, IInv, TypeOK, Paths
<1>2. ToSet(dataset) = File(path) /\ DOMAIN source_buffs = Merged
  BY <1>1 DEF IInv, LoadInv, TableInv
<1>3. /\ DOMAIN source_buffs' = Merged \union File(path)
      /\ \A name \in Merged \union File(path) : source_buffs'[name] = name
  <2>1. \A name \in Merged : source_buffs[name] = name
    BY DEF IInv, TableInv
  <2>2. DOMAIN source_buffs' = Merged \union File(path)
    BY <1>1, <1>2 DEF Merge, Key
  <2>3. ASSUME NEW name \in Merged \union File(path)
        PROVE  source_buffs'[name] = name
    <3>1. CASE name \in File(path)
      BY <1>1, <1>2, <3>1 DEF Merge, Key
    <3>2. CASE name \notin File(path)
      BY <1>1, <1>2, <2>1, <3>2 DEF Merge, Key
    <3> QED
      BY <3>1, <3>2
  <2> QED
    BY <2>2, <2>3
<1>4. Named = {} /\ Len(registered) = FileRows
  BY <1>1 DEF Named, IInv, GroupInv
<1>5. CASE path = "silesia_tmp"
  <2>1. /\ path' = "snapshots_tmp" /\ todo' = File("snapshots_tmp") /\ dataset' = <<>>
        /\ pc' = "load" /\ unregistered' = unregistered
    BY <1>1, <1>5 DEF Loaded
  <2>2. Merged' = Merged \union File(path) /\ Named' = Named
    BY <1>1, <1>4, <1>5, <2>1 DEF Merged, Named
  <2>3. /\ TypeOK' /\ LoadInv' /\ TableInv' /\ FailInv' /\ RunInv'
    <3>1. dataset' \in Seq(File(path)') /\ ToSet(dataset') = {}
      BY <2>1, EmptySeq, EmptyToSet
    <3>2. "snapshots_tmp" \in Paths /\ File("silesia_tmp") \subseteq Corpus
      BY DEF Paths, Corpus
    <3>3. TypeOK'
      BY <1>1, <1>2, <1>3, <1>5, <2>1, <2>2, <3>1, <3>2 DEF IInv, TypeOK, Merged, TableInv
    <3>4. LoadInv'
      BY <1>1, <2>1, <3>1 DEF LoadInv
    <3>5. TableInv'
      BY <1>1, <1>2, <1>3, <1>5, <2>1, <2>2 DEF IInv, TableInv
    <3>6. FailInv' /\ RunInv'
      BY <1>1, <1>5, <2>1 DEF IInv, FailInv, RunInv, Selected
    <3> QED
      BY <3>3, <3>4, <3>5, <3>6
  <2>4. GroupInv' /\ DiskInv'
    BY <1>1, <1>4, <2>1, <2>2, GroupsStay
  <2>5. FdInv'
    <3>1. LoadedFiles' = LoadedFiles
      BY <1>1, <1>5, <2>1 DEF LoadedFiles
    <3> QED
      BY <1>1, <2>1, <2>3, <3>1 DEF RunInv, IInv, FdInv, DescriptorBudget, Leaks
  <2> QED
    BY <2>3, <2>4, <2>5 DEF IInv
<1>6. CASE path = "snapshots_tmp"
  <2>1. /\ pc' = "register" /\ unregistered' = DOMAIN source_buffs' /\ UNCHANGED loading
    BY <1>1, <1>6 DEF Loaded
  <2>2. Merged \union File(path) = Corpus /\ Merged' = Corpus /\ unregistered' = Corpus
    BY <1>1, <1>3, <1>6, <2>1 DEF Merged, Corpus, loading
  <2>3. Named' = Named
    BY <1>4, <2>1, <2>2 DEF Named
  <2> USE DEF loading
  <2>4. TypeOK'
    BY <1>1, <1>2, <1>3, <2>1, <2>2 DEF IInv, TypeOK
  <2>5. LoadInv' /\ FailInv' /\ RunInv'
    BY <1>1, <1>6, <2>1 DEF IInv, LoadInv, FailInv, RunInv, Selected
  <2>6. TableInv'
    BY <1>3, <1>6, <2>1, <2>2 DEF TableInv
  <2>7. GroupInv' /\ DiskInv'
    BY <1>1, <1>4, <2>1, <2>3, GroupsStay
  <2>8. FdInv'
    <3>1. LoadedFiles' = LoadedFiles /\ Leaks' = Leaks
      BY <1>1, <2>1 DEF LoadedFiles, Leaks
    <3> QED
      BY <1>1, <2>1, <2>5, <3>1 DEF RunInv, IInv, FdInv, DescriptorBudget
  <2> QED
    BY <2>4, <2>5, <2>6, <2>7, <2>8 DEF IInv
<1> QED
  BY <1>1, <1>5, <1>6

(* The third directory starts with the names of the first two.             *)
LEMMA LoadWikiKeeps ==
  ASSUME IInv, LoadWiki PROVE IInv'
<1> USE DEF input, tables, running
<1>1. /\ pc = "register" /\ unregistered = {} /\ path = "snapshots_tmp" /\ todo = {}
      /\ pc' = "load" /\ path' = "wiki_tmp" /\ todo' = File("wiki_tmp") /\ dataset' = <<>>
      /\ UNCHANGED <<input, tables, disk, running, fds, failed>>
  BY DEF LoadWiki, IInv, LoadInv
<1>2. Named' = Named /\ Merged' = Merged
  BY <1>1 DEF Named, Merged
<1>3. dataset' \in Seq(File(path)') /\ ToSet(dataset') = {}
  BY <1>1, EmptySeq, EmptyToSet
<1>4. TypeOK'
  BY <1>1, <1>3 DEF IInv, TypeOK, Paths
<1>5. LoadInv'
  BY <1>1, <1>3 DEF LoadInv
<1>6. TableInv' /\ FailInv' /\ RunInv'
  BY <1>1, <1>2 DEF IInv, TableInv, FailInv, RunInv, Selected
<1>7. GroupInv' /\ DiskInv'
  BY <1>1, <1>2, GroupsStay DEF IInv, GroupInv
<1>8. FdInv'
  <2>1. LoadedFiles' = LoadedFiles /\ Leaks' = Leaks
    BY <1>1 DEF LoadedFiles, Leaks
  <2> QED
    BY <1>1, <1>6, <2>1 DEF RunInv, IInv, FdInv, DescriptorBudget
<1> QED
  BY <1>4, <1>5, <1>6, <1>7, <1>8 DEF IInv

(* Turns of the program that change neither tables nor files.              *)
LEMMA TurnKeeps ==
  ASSUME IInv, UNCHANGED <<input, loading, tables, disk, running, fds, failed>>,
         \/ pc = "load" /\ pc' = "prepare" /\ path = "wiki_tmp" /\ path \in present
            /\ todo = {} /\ dataset # <<>>
         \/ pc = "prepare" /\ pc' = "run" /\ ~MorePrepare
         \/ pc = "run" /\ pc' = "done" /\ row > Len(registered)
         \/ pc' = pc
  PROVE  IInv'
<1> USE DEF input, loading, tables, running
<1>1. Named' = Named /\ Merged' = Merged
  BY DEF Named, Merged, IInv, LoadInv
<1>2. pc = "prepare" => Prepared = Len(registered) - FileRows
  BY DEF Prepared, FileRows, Named, Merged, IInv, LoadInv, TableInv
<1>3. Len(registered) \in Nat /\ Len(ReadSizes) \in Nat /\ FileRows \in Nat
  <2>1. IsFiniteSet(Named)
    BY FilesFinite, FS_Subset, FS_EmptySet DEF Named
  <2> QED
    BY <2>1, FS_CardinalityType, LenProperties, RegistrationAssumption
    DEF FileRows, IInv, GroupInv
<1>4. Prepared \in 0 .. Len(ReadSizes) \/ pc \in {"load", "register", "fatal"}
  BY DEF IInv, TypeOK
<1>5. TypeOK'
  <2>1. ASSUME pc = "load", pc' = "prepare" PROVE Prepared = 0
    <3>1. path = "wiki_tmp"
      BY <2>1
    <3>2. DOMAIN source_buffs = Named
      BY <2>1, <3>1 DEF Named, Merged, IInv, TableInv
    <3>3. Len(registered) = FileRows
      BY <2>1 DEF IInv, GroupInv
    <3> QED
      BY <1>3, <3>2, <3>3 DEF Prepared, FileRows
  <2> QED
    BY <1>3, <1>4, <2>1 DEF IInv, TypeOK, Prepared
<1>6. LoadInv' /\ TableInv' /\ FailInv'
  BY <1>1 DEF IInv, LoadInv, TableInv, FailInv
<1>7. GroupInv' /\ DiskInv'
  <2>1. pc' = "run" /\ pc = "prepare" => Len(registered) = FileRows + Len(ReadSizes)
    BY <1>2, <1>3, <1>4 DEF MorePrepare
  <2>2. pc \in {"load", "register"} => Len(registered) = FileRows
    BY DEF IInv, GroupInv
  <2>3. pc \in {"run", "done"} => Len(registered) = FileRows + Len(ReadSizes)
    BY DEF IInv, GroupInv
  <2> QED
    BY <1>1, <2>1, <2>2, <2>3, GroupsStay
<1>8. RunInv'
  BY <1>3 DEF IInv, RunInv, Selected, TypeOK
<1>9. FdInv'
  BY DEF IInv, FdInv, DescriptorBudget, LoadedFiles, Leaks
<1> QED
  BY <1>5, <1>6, <1>7, <1>8, <1>9 DEF IInv

(* The loop registers four groups for a file it has not come to.           *)
LEMMA RegisterKeeps ==
  ASSUME IInv, Register PROVE IInv'
<1> USE DEF input, loading, running
<1>1. PICK name \in unregistered :
        /\ registered' = registered \o Groups(name)
        /\ unregistered' = unregistered \ {name}
  BY DEF Register
<1>2. /\ pc = "register" /\ path = "snapshots_tmp" /\ todo = {}
      /\ UNCHANGED <<pc, input, loading, source_buffs, disk, running, fds, failed>>
  BY DEF Register, IInv, LoadInv
<1>3. Merged = Corpus /\ Merged' = Corpus /\ name \in Corpus /\ source_buffs[name] = name
  BY <1>1, <1>2 DEF Merged, IInv, TableInv
<1>4. Named' = Named \union {name} /\ name \notin Named
  BY <1>1, <1>2, <1>3 DEF Named
<1>5. IsFiniteSet(Named) /\ Cardinality(Named) \in Nat
  BY FilesFinite, FS_Subset, FS_EmptySet, FS_CardinalityType DEF Named
<1>6. FileRows' = FileRows + 4 /\ FileRows \in Nat
  <2>1. Cardinality(Named') = Cardinality(Named) + 1
    BY <1>4, <1>5, FS_AddElement
  <2> QED
    BY <1>5, <2>1 DEF FileRows
<1>7. Len(registered) = FileRows /\ registered \in Seq(SomeGroup) /\ Len(ReadSizes) \in Nat
  BY <1>2, LenProperties, RegistrationAssumption DEF IInv, GroupInv
<1> DEFINE four == Groups(name)
<1>8. /\ four = << Group(Blocking(name), name), Group(Canned(name), name),
                   Group(MultipleEngine(name), name), Group(PageFault(name), name) >>
      /\ Len(four) = 4 /\ \A n \in 1 .. 4 : four[n] \in FileGroups(name)
      /\ \A n \in 1 .. 4 : four[n] \in SomeGroup
      /\ FileGroups(name) = {four[n] : n \in 1 .. 4}
  <2>1. /\ four = << Group(Blocking(name), name), Group(Canned(name), name),
                     Group(MultipleEngine(name), name), Group(PageFault(name), name) >>
        /\ Len(four) = 4
    BY <1>3 DEF Groups
  <2>2. \A n \in 1 .. 4 : n = 1 \/ n = 2 \/ n = 3 \/ n = 4
    OBVIOUS
  <2>3. /\ four[1] = Group(Blocking(name), name) /\ four[2] = Group(Canned(name), name)
        /\ four[3] = Group(MultipleEngine(name), name) /\ four[4] = Group(PageFault(name), name)
    BY <2>1
  <2> HIDE DEF four
  <2>4. \A n \in 1 .. 4 : four[n] \in FileGroups(name)
    BY <2>2, <2>3 DEF FileGroups
  <2>5. FileGroups(name) = {four[n] : n \in 1 .. 4}
    BY <2>2, <2>3 DEF FileGroups
  <2>6. FileGroups(name) \subseteq SomeGroup
    BY <1>3 DEF SomeGroup
  <2> QED
    BY <2>1, <2>4, <2>5, <2>6
<1>9. four \in Seq(SomeGroup)
  BY <1>8
<1> HIDE DEF four
<1>10. /\ registered' \in Seq(SomeGroup) /\ Len(registered') = FileRows + 4
       /\ \A n \in 1 .. FileRows : registered'[n] = registered[n]
       /\ \A n \in 1 .. 4 : registered'[FileRows + n] = four[n]
  <2>1. registered' = registered \o four
    BY <1>1 DEF four
  <2>2. /\ registered \o four \in Seq(SomeGroup)
        /\ Len(registered \o four) = FileRows + 4
        /\ \A n \in 1 .. FileRows + 4 : (registered \o four)[n] =
             IF n <= FileRows THEN registered[n] ELSE four[n - FileRows]
    BY <1>7, <1>8, <1>9, ConcatProperties
  <2>3. \A n \in 1 .. FileRows : (registered \o four)[n] = registered[n]
    BY <1>6, <2>2
  <2>4. ASSUME NEW n \in 1 .. 4 PROVE (registered \o four)[FileRows + n] = four[n]
    <3>1. FileRows + n \in 1 .. FileRows + 4 /\ ~(FileRows + n <= FileRows)
          /\ (FileRows + n) - FileRows = n
      BY <1>6
    <3> QED
      BY <2>2, <3>1
  <2> QED
    BY <2>1, <2>2, <2>3, <2>4
<1>11. \A n \in 1 .. FileRows + 4 :
         n \in 1 .. FileRows \/ \E k \in 1 .. 4 : n = FileRows + k
  <2> SUFFICES ASSUME NEW n \in 1 .. FileRows + 4, n \notin 1 .. FileRows
               PROVE  n - FileRows \in 1 .. 4 /\ n = FileRows + (n - FileRows)
    OBVIOUS
  <2> QED
    BY <1>6
<1>12. {registered'[n] : n \in 1 .. FileRows + 4} = UNION {FileGroups(f) : f \in Named'}
  <2>1. {registered'[n] : n \in 1 .. FileRows + 4}
          = {registered[n] : n \in 1 .. FileRows} \union {four[n] : n \in 1 .. 4}
    <3>1. ASSUME NEW n \in 1 .. FileRows + 4
          PROVE  registered'[n] \in {registered[k] : k \in 1 .. FileRows}
                                      \union {four[k] : k \in 1 .. 4}
      BY <1>10, <1>11
    <3>2. ASSUME NEW n \in 1 .. FileRows
          PROVE  registered[n] \in {registered'[k] : k \in 1 .. FileRows + 4}
      <4>1. n \in 1 .. FileRows + 4
        BY <1>6
      <4> QED
        BY <1>10, <4>1
    <3>3. ASSUME NEW n \in 1 .. 4
          PROVE  four[n] \in {registered'[k] : k \in 1 .. FileRows + 4}
      <4>1. FileRows + n \in 1 .. FileRows + 4
        BY <1>6
      <4> QED
        BY <1>10, <4>1
    <3> QED
      BY <3>1, <3>2, <3>3
  <2>2. {registered[n] : n \in 1 .. FileRows} = UNION {FileGroups(f) : f \in Named}
    BY DEF IInv, GroupInv
  <2>3. UNION {FileGroups(f) : f \in Named \union {name}}
          = (UNION {FileGroups(f) : f \in Named}) \union FileGroups(name)
    OBVIOUS
  <2> QED
    BY <1>4, <1>8, <2>1, <2>2, <2>3
<1>13. ASSUME NEW n1 \in 1 .. FileRows + 4, NEW n2 \in 1 .. FileRows + 4, n1 # n2
       PROVE  registered'[n1].rows \intersect registered'[n2].rows = {}
  <2>1. ASSUME NEW n \in 1 .. FileRows, NEW k \in 1 .. 4
        PROVE  registered[n].rows \intersect four[k].rows = {}
    <3>1. PICK f \in Named : registered[n] \in FileGroups(f)
      <4>1. {registered[m] : m \in 1 .. FileRows} = UNION {FileGroups(f) : f \in Named}
        BY DEF IInv, GroupInv
      <4>2. registered[n] \in {registered[m] : m \in 1 .. FileRows}
        BY <2>1
      <4>3. registered[n] \in UNION {FileGroups(f) : f \in Named}
        BY <4>1, <4>2, Zenon
      <4> QED
        BY <4>3
    <3>2. f # name /\ four[k] \in FileGroups(name)
      BY <1>4, <1>8
    <3> QED
      BY <3>1, <3>2, GroupsApart
  <2>2. ASSUME NEW k1 \in 1 .. 4, NEW k2 \in 1 .. 4, k1 # k2
        PROVE  four[k1].rows \intersect four[k2].rows = {}
    <3>1. /\ four[1].rows = Blocking(name) /\ four[2].rows = Canned(name)
          /\ four[3].rows = MultipleEngine(name) /\ four[4].rows = PageFault(name)
      BY <1>8 DEF Group
    <3>2. /\ Blocking(name) \intersect Canned(name) = {}
          /\ Blocking(name) \intersect MultipleEngine(name) = {}
          /\ Blocking(name) \intersect PageFault(name) = {}
          /\ Canned(name) \intersect MultipleEngine(name) = {}
          /\ Canned(name) \intersect PageFault(name) = {}
          /\ MultipleEngine(name) \intersect PageFault(name) = {}
      BY GroupsApart
    <3>3. /\ k1 = 1 \/ k1 = 2 \/ k1 = 3 \/ k1 = 4
          /\ k2 = 1 \/ k2 = 2 \/ k2 = 3 \/ k2 = 4
      OBVIOUS
    <3> QED
      BY <2>2, <3>1, <3>2, <3>3
  <2>3. CASE n1 \in 1 .. FileRows /\ n2 \in 1 .. FileRows
    BY <1>7, <1>10, <1>13, <2>3 DEF IInv, GroupInv
  <2>4. CASE n1 \in 1 .. FileRows /\ n2 \notin 1 .. FileRows
    BY <1>10, <1>11, <2>1, <2>4
  <2>5. CASE n1 \notin 1 .. FileRows /\ n2 \in 1 .. FileRows
    BY <1>10, <1>11, <2>1, <2>5
  <2>6. CASE n1 \notin 1 .. FileRows /\ n2 \notin 1 .. FileRows
    BY <1>10, <1>11, <1>13, <2>2, <2>6
  <2> QED
    BY <2>3, <2>4, <2>5, <2>6
<1>14. GroupInv' /\ DiskInv'
  <2>1. FileRows' + 1 .. Len(registered)' = {}
    BY <1>6, <1>10
  <2>2. Len(registered)' = FileRows' /\ FileRows' = FileRows + 4
    BY <1>6, <1>10
  <2>3. /\ registered' \in Seq(SomeGroup)
        /\ Len(registered)' \in FileRows' .. FileRows' + Len(ReadSizes)
        /\ Len(registered)' = FileRows'
    BY <1>6, <1>7, <1>10, <2>2
  <2>4. {registered'[n] : n \in 1 .. FileRows'} = UNION {FileGroups(f) : f \in Named'}
    BY <1>12, <2>2, Zenon
  <2>5. \A n1, n2 \in 1 .. Len(registered)' :
          n1 # n2 => registered'[n1].rows \intersect registered'[n2].rows = {}
    BY <1>13, <2>2
  <2>6. \A n \in FileRows' + 1 .. Len(registered)' :
          registered'[n] = PreparedGroup(ReadSizes[n - FileRows'], Head(dataset'))
    BY <2>1
  <2>7. GroupInv'
    BY <1>2, <2>3, <2>4, <2>5, <2>6 DEF GroupInv, SomeGroup, FileGroups
  <2> QED
    BY <2>1, <2>7 DEF DiskInv
<1>15. TypeOK'
  <2>1. row \in 1 .. Len(registered') + 1
    BY <1>6, <1>7, <1>10 DEF IInv, TypeOK
  <2>2. \A g \in ToSet(registered') : \A r \in g.rows : r.bm \in Bm
    <3>1. ASSUME NEW n \in 1 .. FileRows + 4
          PROVE  \A r \in registered'[n].rows : r.bm \in Bm
      <4>1. PICK f : registered'[n] \in FileGroups(f)
        BY <1>12
      <4> QED
        BY <4>1, RowNames DEF FileGroups, Group, Bm
    <3>2. DOMAIN registered' = 1 .. FileRows + 4
      BY <1>10, LenProperties
    <3> QED
      BY <3>1, <3>2 DEF ToSet
  <2> QED
    BY <1>1, <1>2, <2>1, <2>2 DEF IInv, TypeOK
<1>16. LoadInv' /\ FailInv'
  BY <1>2 DEF IInv, LoadInv, FailInv
<1>17. TableInv'
  BY <1>1, <1>2, <1>3 DEF IInv, TableInv
<1>18. RunInv'
  <2>1. row = 1 /\ 1 .. row - 1 = {}
    BY <1>2 DEF IInv, RunInv
  <2> QED
    BY <1>2, <2>1 DEF IInv, RunInv, Selected
<1>19. FdInv'
  BY <1>2 DEF IInv, FdInv, DescriptorBudget, LoadedFiles, Leaks
<1> QED
  BY <1>14, <1>15, <1>16, <1>17, <1>18, <1>19 DEF IInv

(* A file is prepared for a read size of its own.                          *)
LEMMA PrepareKeeps ==
  ASSUME IInv, Prepare PROVE IInv'
<1> DEFINE k == Prepared + 1
           read_size == ReadSizes[k]
           wiki == Head(dataset)
<1>1. /\ pc = "prepare" /\ Prepared < Len(ReadSizes)
      /\ UNCHANGED <<input, loading, source_buffs, unregistered, running>>
  BY DEF Prepare, MorePrepare
<1>2. PICK good \in Outcome :
        /\ good = "bad" \/ fds >= limit =>
             Abort("prepare") /\ UNCHANGED <<registered, disk, fds>>
        /\ ~(good = "bad" \/ fds >= limit) =>
             /\ disk' = [f \in DOMAIN disk \union {Filename(read_size)} |->
                           IF f = Filename(read_size) THEN <<wiki, read_size>> ELSE disk[f]]
             /\ registered' = Append(registered, PreparedGroup(read_size, wiki))
             /\ fds' = fds
             /\ UNCHANGED <<pc, failed>>
  BY DEF Prepare, PreparedGroup, PreparedFds
<1>3. fds \in 0 .. limit
  BY DEF IInv, TypeOK
<1>4. CASE good = "bad" \/ fds >= limit
  BY <1>1, <1>2, <1>3, <1>4, AbortKeeps DEF Abort, tables, IInv, TypeOK
<1>5. CASE ~(good = "bad" \/ fds >= limit)
  <2>1. /\ disk' = [f \in DOMAIN disk \union {Filename(read_size)} |->
                      IF f = Filename(read_size) THEN <<wiki, read_size>> ELSE disk[f]]
        /\ registered' = Append(registered, PreparedGroup(read_size, wiki))
        /\ fds' = fds /\ UNCHANGED <<pc, failed>>
    BY <1>2, <1>5
  <2> USE DEF input, loading, running
  <2>2. /\ path = "wiki_tmp" /\ unregistered = {} /\ Named = Corpus /\ Named' = Corpus
        /\ Merged = Corpus /\ Merged' = Corpus
    BY <1>1, <2>1 DEF IInv, LoadInv, TableInv, Named, Merged
  <2>3. FileRows' = FileRows /\ FileRows \in Nat /\ Prepared = Len(registered) - FileRows
    BY <1>1, <2>2, FilesFinite, FS_CardinalityType DEF FileRows, Prepared, IInv, TableInv
  <2>4. /\ registered \in Seq(SomeGroup) /\ Len(registered) \in Nat /\ Len(ReadSizes) \in Nat
        /\ Prepared \in 0 .. Len(ReadSizes)
    BY <1>1, LenProperties, RegistrationAssumption DEF IInv, GroupInv, TypeOK
  <2>5. k \in 1 .. Len(ReadSizes) /\ Len(registered) = FileRows + k - 1
    BY <1>1, <2>3, <2>4
  <2>6. Prepared' = Len(registered') - FileRows
    BY <1>1, <2>2, <2>3 DEF Prepared, FileRows, IInv, TableInv
  <2> HIDE DEF k
  <2>7. /\ read_size \in Sizes
        /\ \A n \in 1 .. Len(ReadSizes) : n # k => ReadSizes[n] # read_size
    <3>1. DOMAIN ReadSizes = 1 .. Len(ReadSizes)
      BY LenProperties, RegistrationAssumption
    <3> QED
      BY <2>5, <3>1, RegistrationAssumption DEF Sizes, ToSet
  <2>8. wiki \in File("wiki_tmp")
    BY <1>1, <2>2 DEF IInv, LoadInv
  <2> HIDE DEF read_size, wiki
  <2> DEFINE g == PreparedGroup(read_size, wiki)
  <2>9. g \in SomeGroup
    BY <2>7, <2>8 DEF SomeGroup
  <2> HIDE DEF g
  <2>10. /\ registered' \in Seq(SomeGroup) /\ Len(registered') = FileRows + k
         /\ \A n \in 1 .. FileRows + k - 1 : registered'[n] = registered[n]
         /\ registered'[FileRows + k] = g
    <3>1. registered' = Append(registered, g)
      BY <2>1 DEF g
    <3>2. /\ Append(registered, g) \in Seq(SomeGroup)
          /\ Len(Append(registered, g)) = Len(registered) + 1
          /\ \A n \in 1 .. Len(registered) : Append(registered, g)[n] = registered[n]
          /\ Append(registered, g)[Len(registered) + 1] = g
      BY <2>4, <2>9, AppendProperties
    <3>3. Len(registered) + 1 = FileRows + k
      BY <2>3, <2>5
    <3> QED
      BY <2>5, <3>1, <3>2, <3>3
  <2>11. /\ \A n \in FileRows + 1 .. FileRows + k - 1 :
              registered[n] = PreparedGroup(ReadSizes[n - FileRows], wiki)
         /\ {registered[n] : n \in 1 .. FileRows} = UNION {FileGroups(f) : f \in Corpus}
         /\ \A n1, n2 \in 1 .. FileRows + k - 1 :
              n1 # n2 => registered[n1].rows \intersect registered[n2].rows = {}
    BY <2>2, <2>5 DEF IInv, GroupInv, wiki
  <2>12. \A n \in 1 .. FileRows + k :
           n \in 1 .. FileRows + k - 1 \/ n = FileRows + k
    BY <2>3, <2>5
  <2>13. \A n \in 1 .. FileRows + k - 1 :
           \/ n \in 1 .. FileRows
           \/ n \in FileRows + 1 .. FileRows + k - 1 /\ n - FileRows \in 1 .. Len(ReadSizes)
              /\ n - FileRows # k
    BY <2>3, <2>5
  <2>14. ASSUME NEW n \in FileRows + 1 .. FileRows + k
         PROVE  registered'[n] = PreparedGroup(ReadSizes[n - FileRows], wiki)
    <3>1. CASE n = FileRows + k
      <4>1. n - FileRows = k
        BY <2>3, <2>5, <3>1
      <4> QED
        BY <2>10, <3>1, <4>1 DEF g, read_size
    <3>2. CASE n # FileRows + k
      <4>1. n \in 1 .. FileRows + k - 1 /\ n \in FileRows + 1 .. FileRows + k - 1
        BY <2>3, <2>5, <2>14, <3>2
      <4> QED
        BY <2>10, <2>11, <4>1
    <3> QED
      BY <3>1, <3>2
  <2>15. ASSUME NEW n \in 1 .. FileRows + k - 1
         PROVE  registered[n].rows \intersect g.rows = {}
    <3>1. g.rows = FullSystem(read_size)
      BY DEF g, PreparedGroup, Group
    <3>2. CASE n \in 1 .. FileRows
      <4>1. registered[n] \in {registered[m] : m \in 1 .. FileRows}
        BY <3>2
      <4>2. registered[n] \in UNION {FileGroups(f) : f \in Corpus}
        BY <2>11, <4>1, Zenon
      <4>3. PICK f \in Corpus : registered[n] \in FileGroups(f)
        BY <4>2
      <4> QED
        BY <3>1, <4>3, GroupsApart
    <3>3. CASE n \notin 1 .. FileRows
      <4>1. /\ n \in FileRows + 1 .. FileRows + k - 1
            /\ n - FileRows \in 1 .. Len(ReadSizes) /\ n - FileRows # k
        BY <2>13, <3>3
      <4>2. registered[n] = PreparedGroup(ReadSizes[n - FileRows], wiki)
            /\ ReadSizes[n - FileRows] # read_size
        BY <2>7, <2>11, <4>1
      <4>3. registered[n].rows = FullSystem(ReadSizes[n - FileRows])
        BY <4>2 DEF PreparedGroup, Group
      <4> QED
        BY <3>1, <4>2, <4>3, GroupsApart
    <3> QED
      BY <3>2, <3>3
  <2>16. GroupInv'
    <3>1. Len(registered)' = FileRows' + k /\ FileRows' = FileRows
      BY <2>3, <2>10
    <3>2. /\ registered' \in Seq(SomeGroup)
          /\ Len(registered)' \in FileRows' .. FileRows' + Len(ReadSizes)
      BY <2>3, <2>5, <2>10, <3>1
    <3>3. {registered'[n] : n \in 1 .. FileRows'} = UNION {FileGroups(f) : f \in Named'}
      <4>1. \A n \in 1 .. FileRows : registered'[n] = registered[n]
        BY <2>3, <2>5, <2>10
      <4>2. {registered'[n] : n \in 1 .. FileRows} = {registered[n] : n \in 1 .. FileRows}
        BY <4>1
      <4> QED
        BY <2>2, <2>11, <3>1, <4>2, Zenon
    <3>4. \A n \in FileRows' + 1 .. Len(registered)' :
            registered'[n] = PreparedGroup(ReadSizes[n - FileRows'], Head(dataset'))
      BY <1>1, <2>14, <3>1 DEF wiki
    <3>5. \A n1, n2 \in 1 .. Len(registered)' :
            n1 # n2 => registered'[n1].rows \intersect registered'[n2].rows = {}
      BY <2>10, <2>11, <2>12, <2>15, <3>1
    <3>6. pc' = "prepare"
      BY <1>1, <2>1
    <3> QED
      BY <3>2, <3>3, <3>4, <3>5, <3>6, Zenon DEF GroupInv
  <2>17. DiskInv'
    <3> SUFFICES ASSUME NEW n \in FileRows + 1 .. FileRows + k
                 PROVE  /\ Filename(ReadSizes[n - FileRows]) \in DOMAIN disk'
                        /\ disk'[Filename(ReadSizes[n - FileRows])]
                             = <<wiki, ReadSizes[n - FileRows]>>
      BY <1>1, <2>3, <2>10 DEF DiskInv, wiki
    <3>1. CASE n = FileRows + k
      <4>1. ReadSizes[n - FileRows] = read_size
        BY <2>3, <2>5, <3>1 DEF read_size
      <4> QED
        BY <2>1, <4>1
    <3>2. CASE n # FileRows + k
      <4>1. n \in 1 .. FileRows + k - 1 /\ n \in FileRows + 1 .. FileRows + k - 1
        BY <2>3, <2>5, <3>2
      <4>2. n - FileRows \in 1 .. Len(ReadSizes) /\ n - FileRows # k
        BY <2>3, <2>5, <4>1
      <4>3. ReadSizes[n - FileRows] # read_size
        BY <2>7, <4>2
      <4>4. Filename(ReadSizes[n - FileRows]) # Filename(read_size)
        BY <4>3 DEF Filename
      <4>5. /\ Filename(ReadSizes[n - FileRows]) \in DOMAIN disk
            /\ disk[Filename(ReadSizes[n - FileRows])] = <<wiki, ReadSizes[n - FileRows]>>
        BY <2>5, <4>1 DEF IInv, DiskInv, wiki
      <4> QED
        BY <2>1, <4>4, <4>5
    <3> QED
      BY <3>1, <3>2
  <2>18. TypeOK'
    <3>1. ToSet(registered') = ToSet(registered) \union {g}
      BY <2>1, <2>4, <2>9, AppendToSet DEF g
    <3>2. \A r \in g.rows : r.bm \in Bm
      BY RowNames DEF g, PreparedGroup, Group, Bm
    <3>3. Prepared' \in 0 .. Len(ReadSizes)
      BY <2>3, <2>5, <2>6, <2>10
    <3>4. row = 1 /\ Len(registered') \in Nat
      BY <1>1, <2>3, <2>5, <2>10 DEF IInv, RunInv
    <3> QED
      BY <1>1, <2>1, <3>1, <3>2, <3>3, <3>4 DEF IInv, TypeOK
  <2>19. LoadInv' /\ TableInv' /\ FailInv'
    BY <1>1, <2>1, <2>2 DEF IInv, LoadInv, TableInv, FailInv
  <2>20. RunInv'
    <3>1. row = 1 /\ 1 .. row - 1 = {}
      BY <1>1 DEF IInv, RunInv
    <3> QED
      BY <1>1, <2>1, <3>1 DEF IInv, RunInv, Selected
  <2>21. FdInv'
    BY <1>1, <2>1 DEF IInv, FdInv, DescriptorBudget, LoadedFiles, Leaks
  <2> QED
    BY <2>16, <2>17, <2>18, <2>19, <2>20, <2>21 DEF IInv
<1> QED
  BY <1>4, <1>5

(* A group runs: a page-fault row may keep a descriptor in each of its     *)
(* calls, and it has not run before.                                       *)
LEMMA RunGroupKeeps ==
  ASSUME IInv, RunGroup PROVE IInv'
<1> DEFINE rows == registered[row].rows
           new == Selected(rows)
           faulting == \E r \in rows : "pfscenario" \in DOMAIN r
<1>1. /\ pc = "run" /\ row <= Len(registered)
      /\ ran' = ran \union new
      /\ fds' >= fds /\ fds' \in Nat /\ fds' <= limit
      /\ fds' <= fds + IF faulting THEN Repetitions * Cardinality(new) ELSE 0
      /\ starved' = starved \union (IF fds < limit THEN {} ELSE {r \in new : r.bm = "FullSystem"})
      /\ row' = row + 1
      /\ UNCHANGED <<pc, input, loading, tables, disk, failed>>
  <2>1. fds \in Nat
    BY RegistrationAssumption DEF IInv, TypeOK
  <2> QED
    BY <2>1 DEF RunGroup, Calls
<1> USE DEF input, loading, tables
<1>2. Len(registered) \in Nat /\ row \in 1 .. Len(registered) /\ fds \in Nat /\ limit \in Nat
      /\ Repetitions \in Nat
  BY <1>1, LenProperties, RegistrationAssumption DEF IInv, TypeOK, GroupInv
<1>3. 1 .. row' - 1 = (1 .. row - 1) \union {row}
  BY <1>1, <1>2
<1>4. Named' = Named /\ Merged' = Merged
  BY <1>1 DEF Named, Merged
<1>5. ran = Selected(UNION {registered[n].rows : n \in 1 .. row - 1})
  BY DEF IInv, RunInv
<1>6. ran' = Selected(UNION {registered'[n].rows : n \in 1 .. row' - 1})
  <2>1. (UNION {registered'[n].rows : n \in 1 .. row' - 1})
          = (UNION {registered[n].rows : n \in 1 .. row - 1}) \union rows
    BY <1>1, <1>3
  <2> QED
    BY <1>1, <1>5, <2>1 DEF Selected
<1>7. new \intersect ran = {}
  <2> SUFFICES ASSUME NEW n \in 1 .. row - 1
               PROVE  registered[n].rows \intersect rows = {}
    BY <1>5 DEF Selected
  <2>1. n \in 1 .. Len(registered) /\ n # row
    BY <1>2
  <2> QED
    BY <1>2, <2>1 DEF IInv, GroupInv
<1>8. \/ /\ \E f : rows = PageFault(f)
         /\ \A r \in rows : "pfscenario" \in DOMAIN r
      \/ \A r \in rows : "pfscenario" \notin DOMAIN r
  <2>1. registered[row] \in SomeGroup
    BY <1>2, ElementOfSeq DEF IInv, GroupInv
  <2>2. CASE \E n \in Sizes, wiki \in File("wiki_tmp") : registered[row] = PreparedGroup(n, wiki)
    BY <2>2, RowNames DEF PreparedGroup, Group
  <2>3. CASE \E f \in Corpus : registered[row] \in FileGroups(f)
    <3>1. PICK f : registered[row] \in FileGroups(f)
      BY <2>3
    <3>2. \/ rows = Blocking(f) \/ rows = Canned(f)
          \/ rows = MultipleEngine(f) \/ rows = PageFault(f)
      BY <3>1 DEF FileGroups, Group
    <3> HIDE DEF rows
    <3> QED
      BY <3>2, RowNames
  <2> QED
    BY <2>1, <2>2, <2>3 DEF SomeGroup
<1> HIDE DEF rows
<1>9. PICK kept \in Nat : /\ Cardinality(Leaks') = Cardinality(Leaks) + kept
                          /\ fds' <= fds + Repetitions * kept
  <2>1. CASE \A r \in rows : "pfscenario" \notin DOMAIN r
    <3>1. Leaks' = Leaks
      BY <1>1, <2>1 DEF Leaks, Selected
    <3> QED
      BY <1>1, <1>2, <2>1, <3>1, LeaksFinite
  <2>2. CASE /\ \E f : rows = PageFault(f)
             /\ \A r \in rows : "pfscenario" \in DOMAIN r
    <3>1. IsFiniteSet(new)
      BY <2>2, PageFaultFinite, FS_Subset DEF Selected
    <3>2. Leaks' = Leaks \union new /\ Leaks \intersect new = {}
      BY <1>1, <1>7, <2>2 DEF Leaks, Selected
    <3> HIDE DEF new
    <3>3. Cardinality(Leaks \union new) = Cardinality(Leaks) + Cardinality(new)
      <4>1. Cardinality(Leaks \intersect new) = 0
        BY <3>2, FS_EmptySet
      <4>2. IsFiniteSet(Leaks)
        BY LeaksFinite
      <4>3. Cardinality(Leaks \union new)
              = Cardinality(Leaks) + Cardinality(new) - Cardinality(Leaks \intersect new)
        BY <3>1, <4>2, FS_Union, Zenon
      <4>4. Cardinality(Leaks) \in Nat /\ Cardinality(new) \in Nat
        BY <3>1, <4>2, FS_CardinalityType
      <4> QED
        BY <4>1, <4>3, <4>4
    <3>4. Cardinality(new) \in Nat
      BY <3>1, FS_CardinalityType
    <3>5. CASE faulting
      BY <1>1, <3>2, <3>3, <3>4, <3>5
    <3>6. CASE ~faulting
      <4>1. new = {}
        BY <2>2, <3>6 DEF new, Selected
      <4>2. Cardinality(new) = 0
        BY <4>1, FS_EmptySet
      <4> QED
        BY <1>1, <1>2, <3>2, <3>3, <3>6, <4>2
    <3> QED
      BY <3>5, <3>6
  <2> QED
    BY <1>8, <2>1, <2>2
<1> HIDE DEF new, faulting
<1>10. /\ Cardinality(Leaks) \in Nat /\ Repetitions * kept \in Nat
       /\ Repetitions * Cardinality(Leaks') = Repetitions * Cardinality(Leaks) + Repetitions * kept
  BY <1>2, <1>9, LeaksFinite
<1>11. FdInv'
  <2>1. LoadedFiles' = LoadedFiles
    BY <1>1 DEF LoadedFiles
  <2>2. fds <= Cardinality(LoadedFiles) + Repetitions * Cardinality(Leaks)
    BY <1>1 DEF IInv, FdInv
  <2>3. /\ Repetitions * Cardinality(Leaks) \in Nat /\ Cardinality(LoadedFiles) \in Nat
        /\ Cardinality(LoadedFiles) <= Cardinality(AllFiles) /\ Cardinality(AllFiles) \in Nat
    BY <1>2, LeaksFinite, FilesFinite
  <2>4. fds' <= Cardinality(LoadedFiles') + Repetitions * Cardinality(Leaks')
    BY <1>1, <1>2, <1>9, <1>10, <2>1, <2>2, <2>3
  <2>5. ASSUME limit' > Cardinality(AllFiles) + Repetitions * Cardinality(Leaks')
        PROVE  starved' = {}
    <3>1. limit > Cardinality(AllFiles) + Repetitions * Cardinality(Leaks) /\ fds < limit
      <4> DEFINE total == Cardinality(AllFiles)
                 loaded == Cardinality(LoadedFiles)
                 before == Repetitions * Cardinality(Leaks)
                 more == Repetitions * kept
      <4>1. limit > total + (before + more)
        BY <1>1, <1>10, <2>5
      <4>2. /\ before \in Nat /\ more \in Nat /\ loaded \in Nat /\ total \in Nat
            /\ loaded <= total /\ fds <= loaded + before
        BY <1>10, <2>2, <2>3
      <4> HIDE DEF total, loaded, before, more
      <4>3. limit > total + before /\ fds < limit
        BY <1>2, <4>1, <4>2
      <4> QED
        BY <4>3 DEF total, before
    <3>2. starved = {}
      BY <3>1 DEF IInv, FdInv, DescriptorBudget, Leaks, AllFiles
    <3> QED
      BY <1>1, <3>1, <3>2
  <2> QED
    BY <2>4, <2>5 DEF FdInv, DescriptorBudget, Leaks, AllFiles
<1>12. TypeOK'
  <2>1. row' \in 1 .. Len(registered') + 1
    BY <1>1, <1>2
  <2>2. starved' \subseteq ran'
    BY <1>1 DEF IInv, TypeOK
  <2> QED
    BY <1>1, <1>2, <2>1, <2>2 DEF IInv, TypeOK, Prepared
<1>13. LoadInv' /\ TableInv' /\ FailInv'
  BY <1>1, <1>4 DEF IInv, LoadInv, TableInv, FailInv
<1>14. GroupInv' /\ DiskInv'
  <2>1. Len(registered) = FileRows + Len(ReadSizes)
    BY <1>1 DEF IInv, GroupInv
  <2> QED
    BY <1>1, <1>4, <2>1, GroupsStay
<1>15. RunInv'
  BY <1>1, <1>6 DEF RunInv, Selected
<1> QED
  BY <1>11, <1>12, <1>13, <1>14, <1>15 DEF IInv

-------------------------------------------------------------------------------
(* The invariant holds in every behaviour.                                 *)

(* It holds when the process starts. *)
LEMMA Initial == Init => IInv
<1> SUFFICES ASSUME Init PROVE IInv
  OBVIOUS
<1>1. /\ pc = "load" /\ path = "silesia_tmp" /\ todo = File("silesia_tmp") /\ dataset = <<>>
      /\ present \subseteq Paths /\ source_buffs = <<>> /\ unregistered = {} /\ registered = <<>>
      /\ disk = <<>> /\ row = 1 /\ limit \in 0 .. MaxFds /\ fds = 0
      /\ failed = {} /\ ran = {} /\ starved = {}
  BY DEF Init
<1>2. Named = {} /\ Merged = {} /\ LoadedFiles = {} /\ Leaks = {}
  BY <1>1 DEF Named, Merged, LoadedFiles, Leaks
<1>3. Len(registered) = 0 /\ FileRows = 0 /\ Len(ReadSizes) \in Nat
  BY <1>1, <1>2, FS_EmptySet, LenProperties, RegistrationAssumption DEF FileRows
<1>4. DOMAIN source_buffs = {} /\ ToSet(dataset) = {} /\ ToSet(registered) = {}
  BY <1>1, EmptyToSet
<1>5. TypeOK
  BY <1>1, <1>3, <1>4, RegistrationAssumption DEF TypeOK, Paths
<1>6. LoadInv /\ TableInv /\ FailInv
  BY <1>1, <1>2, <1>4, EmptySeq DEF LoadInv, TableInv, FailInv
<1>7. GroupInv
  <2>1. 1 .. FileRows = {} /\ FileRows + 1 .. Len(registered) = {} /\ 1 .. Len(registered) = {}
    BY <1>3
  <2>2. registered \in Seq(SomeGroup) /\ Len(registered) \in FileRows .. FileRows + Len(ReadSizes)
    BY <1>1, <1>3, EmptySeq
  <2> QED
    BY <1>1, <1>2, <1>3, <2>1, <2>2 DEF GroupInv
<1>8. DiskInv
  <2>1. FileRows + 1 .. Len(registered) = {}
    BY <1>3
  <2> QED
    BY <2>1 DEF DiskInv
<1>9. RunInv
  <2>1. 1 .. row - 1 = {}
    BY <1>1
  <2> QED
    BY <1>1, <2>1 DEF RunInv, Selected
<1>10. FdInv
  <2>1. Cardinality(LoadedFiles) = 0 /\ Cardinality(Leaks) = 0
    BY <1>2, FS_EmptySet
  <2>2. fds <= Cardinality(LoadedFiles) + Repetitions * Cardinality(Leaks)
    BY <1>1, <2>1, RegistrationAssumption
  <2> QED
    BY <1>1, <2>2 DEF FdInv, DescriptorBudget
<1> QED
  BY <1>5, <1>6, <1>7, <1>8, <1>9, <1>10 DEF IInv

(* Every step of the process keeps it. *)
LEMMA Preservation == IInv /\ [Next]_vars => IInv'
<1> SUFFICES ASSUME IInv, [Next]_vars PROVE IInv'
  OBVIOUS
<1>1. fds \in 0 .. limit /\ failed \subseteq {"directory", "open", "read", "wiki", "prepare"}
  BY DEF IInv, TypeOK
<1>2. CASE NoDirectory
  BY <1>1, <1>2, AbortKeeps DEF NoDirectory, Abort
<1>3. CASE LoadedWiki
  <2>1. CASE dataset = <<>>
    BY <1>1, <1>3, <2>1, AbortKeeps DEF LoadedWiki, Abort
  <2>2. CASE dataset # <<>>
    BY <1>3, <2>2, TurnKeeps DEF LoadedWiki
  <2> QED
    BY <2>1, <2>2
<1>4. CASE Initialize
  BY <1>4, TurnKeeps DEF Initialize
<1>5. CASE Shutdown
  BY <1>5, TurnKeeps DEF Shutdown
<1>6. CASE UNCHANGED vars
  BY <1>6, TurnKeeps DEF vars
<1> QED
  BY <1>2, <1>3, <1>4, <1>5, <1>6, LoadFileKeeps, LoadedKeeps, RegisterKeeps, LoadWikiKeeps,
     PrepareKeeps, RunGroupKeeps DEF Next

(* The strengthening of the properties below is an invariant. *)
THEOREM Invariance == Spec => []IInv
BY Initial, Preservation, PTL DEF Spec

(* TypeOK for any corpus: no file of one directory is taken for another's, *)
(* and the index of prepare_compressed_files stays within read_sizes.      *)
THEOREM TypeCorrect == Spec => []TypeOK
<1>1. IInv => TypeOK
  BY DEF IInv
<1> QED
  BY <1>1, Invariance, PTL

(* No row starts after a failure of load_corpus_dataset or of              *)
(* prepare_compressed_files, whichever rows the filter selects.            *)
THEOREM CompleteOrNothing == Spec => []AllOrNothing
<1>1. IInv => AllOrNothing
  <2> SUFFICES ASSUME IInv, Started \/ ran # {} PROVE failed = {} /\ present = Paths
    BY DEF AllOrNothing
  <2>1. Started
    <3>1. ASSUME ~Started PROVE ran = {}
      <4>1. row = 1 /\ 1 .. row - 1 = {}
        BY <3>1 DEF IInv, RunInv, Started
      <4> QED
        BY <4>1 DEF IInv, RunInv, Selected
    <3> QED
      BY <3>1
  <2>2. pc \in {"run", "done"} /\ path = "wiki_tmp" /\ present \subseteq Paths
    BY <2>1 DEF Started, IInv, LoadInv, TypeOK
  <2> QED
    BY <2>2 DEF IInv, FailInv, Paths
<1> QED
  BY <1>1, Invariance, PTL

(* When the rows run, every name is bound, every group is registered.      *)
LEMMA WhenStarted ==
  ASSUME IInv, Started
  PROVE  /\ path = "wiki_tmp" /\ Named = Corpus /\ FileRows \in Nat /\ Len(ReadSizes) \in Nat
         /\ Len(registered) = FileRows + Len(ReadSizes)
         /\ DOMAIN registered = 1 .. Len(registered)
         /\ {registered[n] : n \in 1 .. FileRows} = UNION {FileGroups(f) : f \in Corpus}
         /\ \A n \in 1 .. FileRows : \E f \in Corpus : registered[n] \in FileGroups(f)
         /\ \A k \in 1 .. Len(ReadSizes) :
              /\ registered[FileRows + k] = PreparedGroup(ReadSizes[k], Head(dataset))
              /\ disk[Filename(ReadSizes[k])] = <<Head(dataset), ReadSizes[k]>>
         /\ \A n \in 1 .. Len(registered) :
              n \in 1 .. FileRows \/ \E k \in 1 .. Len(ReadSizes) : n = FileRows + k
<1>1. pc \in {"run", "done"} /\ path = "wiki_tmp" /\ Named = Corpus
  BY DEF Started, IInv, LoadInv, TableInv, Named
<1>2. FileRows \in Nat /\ Len(ReadSizes) \in Nat
  BY <1>1, FilesFinite, FS_CardinalityType, LenProperties, RegistrationAssumption DEF FileRows
<1>3. Len(registered) = FileRows + Len(ReadSizes) /\ DOMAIN registered = 1 .. Len(registered)
  BY <1>1, LenProperties DEF IInv, GroupInv
<1>4. {registered[n] : n \in 1 .. FileRows} = UNION {FileGroups(f) : f \in Corpus}
  BY <1>1 DEF IInv, GroupInv
<1>5. ASSUME NEW n \in 1 .. FileRows PROVE \E f \in Corpus : registered[n] \in FileGroups(f)
  <2>1. registered[n] \in {registered[m] : m \in 1 .. FileRows}
    BY <1>5
  <2>2. registered[n] \in UNION {FileGroups(f) : f \in Corpus}
    BY <1>4, <2>1, Zenon
  <2> QED
    BY <2>2
<1>6. ASSUME NEW k \in 1 .. Len(ReadSizes)
      PROVE  /\ registered[FileRows + k] = PreparedGroup(ReadSizes[k], Head(dataset))
             /\ disk[Filename(ReadSizes[k])] = <<Head(dataset), ReadSizes[k]>>
  <2>1. FileRows + k \in FileRows + 1 .. Len(registered) /\ (FileRows + k) - FileRows = k
    BY <1>2, <1>3
  <2>2. registered[FileRows + k] = PreparedGroup(ReadSizes[k], Head(dataset))
    BY <2>1 DEF IInv, GroupInv
  <2>3. disk[Filename(ReadSizes[k])] = <<Head(dataset), ReadSizes[k]>>
    BY <2>1 DEF IInv, DiskInv
  <2> QED
    BY <2>2, <2>3
<1>7. ASSUME NEW n \in 1 .. Len(registered), n \notin 1 .. FileRows
      PROVE  n - FileRows \in 1 .. Len(ReadSizes) /\ n = FileRows + (n - FileRows)
  BY <1>2, <1>3, <1>7
<1> QED
  BY <1>1, <1>2, <1>3, <1>4, <1>5, <1>6, <1>7

(* A row is measured on the bytes of the file in its name, or on the image *)
(* prepared for its own read size, however the directories' files are      *)
(* named and however many read sizes there are.                            *)
THEOREM DataMatchesRows == Spec => []RowsGetTheirData
<1>1. IInv => RowsGetTheirData
  <2> SUFFICES ASSUME IInv, Started PROVE RowsGetTheirData
    BY DEF RowsGetTheirData
  <2>1. ASSUME NEW f \in Corpus
        PROVE  {Group(rows, f) : rows \in {Blocking(f), Canned(f), MultipleEngine(f), PageFault(f)}}
                 \subseteq ToSet(registered)
    <3>1. FileGroups(f) \subseteq {registered[n] : n \in 1 .. FileRows}
      BY WhenStarted
    <3>2. 1 .. FileRows \subseteq DOMAIN registered
      BY WhenStarted
    <3> QED
      BY <3>1, <3>2 DEF FileGroups, ToSet
  <2>2. ASSUME NEW g \in ToSet(registered), NEW r \in g.rows, r.bm = "FullSystem"
        PROVE  disk[g.args[1]] = g.args[2] /\ g.args[2] = <<Head(dataset), r.size>>
    <3>1. PICK n \in 1 .. Len(registered) : g = registered[n]
      BY WhenStarted DEF ToSet
    <3>2. ASSUME NEW f \in Corpus PROVE registered[n] \notin FileGroups(f)
      BY <2>2, <3>1, RowNames DEF FileGroups, Group
    <3>3. PICK k \in 1 .. Len(ReadSizes) : n = FileRows + k
      BY <3>1, <3>2, WhenStarted
    <3>4. g = PreparedGroup(ReadSizes[k], Head(dataset))
      BY <3>1, <3>3, WhenStarted
    <3>5. r.size = ReadSizes[k]
      BY <2>2, <3>4, RowNames DEF PreparedGroup, Group
    <3>6. g.args[1] = Filename(ReadSizes[k]) /\ g.args[2] = <<Head(dataset), ReadSizes[k]>>
      BY <3>4 DEF PreparedGroup, Group
    <3> QED
      BY <3>5, <3>6, WhenStarted
  <2>3. \A a, b \in DOMAIN registered :
          a # b => registered[a].rows \intersect registered[b].rows = {}
    BY WhenStarted DEF IInv, GroupInv
  <2> QED
    BY <2>1, <2>2, <2>3 DEF RowsGetTheirData
<1> QED
  BY <1>1, Invariance, PTL

(* The files read and the calls of the page-fault rows account for every   *)
(* descriptor that is not closed.                                          *)
THEOREM DescriptorsSuffice == Spec => []DescriptorBudget
<1>1. IInv => DescriptorBudget
  BY DEF IInv, FdInv
<1> QED
  BY <1>1, Invariance, PTL

(* A process that reaches Shutdown has run what SelectedRowsRun says: the  *)
(* rows the filter selects, of every file and every read size, and no      *)
(* other.                                                                  *)
THEOREM DoneRanSelected == Spec => [](pc = "done" => ran = Selected(EveryRow))
<1>1. IInv => (pc = "done" => ran = Selected(EveryRow))
  <2> SUFFICES ASSUME IInv, pc = "done" PROVE ran = Selected(EveryRow)
    OBVIOUS
  <2>1. Started
    BY DEF Started
  <2>2. Len(registered) \in Nat /\ (Len(registered) + 1) - 1 = Len(registered)
    BY <2>1, WhenStarted
  <2>3. ran = Selected(UNION {registered[n].rows : n \in 1 .. Len(registered)})
    BY <2>2 DEF IInv, RunInv
  <2>4. ASSUME NEW n \in 1 .. Len(registered) PROVE registered[n].rows \subseteq EveryRow
    <3>1. CASE \E f \in Corpus : registered[n] \in FileGroups(f)
      BY <3>1 DEF FileGroups, Group, EveryRow
    <3>2. CASE \E k \in 1 .. Len(ReadSizes) : n = FileRows + k
      <4>1. PICK k \in 1 .. Len(ReadSizes) : n = FileRows + k
        BY <3>2
      <4>2. registered[n].rows = FullSystem(ReadSizes[k])
        <5>1. registered[n] = PreparedGroup(ReadSizes[k], Head(dataset))
          BY <2>1, <4>1, WhenStarted
        <5> QED
          BY <5>1 DEF PreparedGroup, Group
      <4>3. ReadSizes[k] \in ToSet(ReadSizes)
        BY LenProperties, RegistrationAssumption DEF ToSet
      <4> QED
        BY <4>2, <4>3 DEF EveryRow
    <3> QED
      BY <2>1, <3>1, <3>2, WhenStarted
  <2>5. ASSUME NEW r \in EveryRow
        PROVE  \E n \in 1 .. Len(registered) : r \in registered[n].rows
    <3>1. CASE \E f \in Corpus : r \in Blocking(f) \union Canned(f)
                                         \union MultipleEngine(f) \union PageFault(f)
      <4>1. PICK f \in Corpus : r \in Blocking(f) \union Canned(f)
                                     \union MultipleEngine(f) \union PageFault(f)
        BY <3>1
      <4>2. PICK g \in FileGroups(f) : r \in g.rows
        BY <4>1 DEF FileGroups, Group
      <4>3. g \in {registered[n] : n \in 1 .. FileRows}
        BY <2>1, <4>2, WhenStarted
      <4>4. 1 .. FileRows \subseteq 1 .. Len(registered)
        BY <2>1, WhenStarted
      <4> QED
        BY <4>2, <4>3, <4>4
    <3>2. CASE \E n \in ToSet(ReadSizes) : r \in FullSystem(n)
      <4>1. PICK k \in 1 .. Len(ReadSizes) : r \in FullSystem(ReadSizes[k])
        BY <3>2, LenProperties, RegistrationAssumption DEF ToSet
      <4>2. FileRows + k \in 1 .. Len(registered)
        BY <2>1, WhenStarted
      <4>3. registered[FileRows + k].rows = FullSystem(ReadSizes[k])
        <5>1. registered[FileRows + k] = PreparedGroup(ReadSizes[k], Head(dataset))
          BY <2>1, WhenStarted
        <5> QED
          BY <5>1 DEF PreparedGroup, Group
      <4> QED
        BY <4>1, <4>2, <4>3
    <3> QED
      BY <2>5, <3>1, <3>2 DEF EveryRow
  <2>6. UNION {registered[n].rows : n \in 1 .. Len(registered)} = EveryRow
    BY <2>4, <2>5
  <2> QED
    BY <2>3, <2>6, Zenon
<1> QED
  BY <1>1, Invariance, PTL

-------------------------------------------------------------------------------
(* The steps the process can still take.                                   *)

\* A loop over a set takes one step for each member and one to end.
Left(S) == Cardinality(S) + 1

\* From each stage to the end, when all goes well.
RunWork == 4 * Cardinality(Corpus) + Len(ReadSizes) + 1
PrepareWork == Len(ReadSizes) + 1 + RunWork
RegisterWork == Left(Corpus) + Left(File("wiki_tmp")) + PrepareWork

Work ==
  CASE pc = "load" /\ path = "silesia_tmp" ->
         Left(todo) + Left(File("snapshots_tmp")) + RegisterWork
    [] pc = "load" /\ path = "snapshots_tmp" -> Left(todo) + RegisterWork
    [] pc = "register" -> Left(unregistered) + Left(File("wiki_tmp")) + PrepareWork
    [] pc = "load" /\ path = "wiki_tmp" -> Left(todo) + PrepareWork
    [] pc = "prepare" -> Len(ReadSizes) - Prepared + 1 + RunWork
    [] pc = "run" -> Len(registered) - row + 2
    [] OTHER -> 0

(* The bounds of the loops. *)
LEMMA WorkBounds ==
  ASSUME IInv
  PROVE  /\ \A S \in {todo, unregistered, Corpus, File("snapshots_tmp"), File("wiki_tmp")} :
              IsFiniteSet(S) /\ Left(S) \in Nat \ {0}
         /\ Len(ReadSizes) \in Nat /\ RunWork \in Nat \ {0} /\ PrepareWork \in Nat \ {0}
         /\ RegisterWork \in Nat \ {0}
         /\ pc = "prepare" =>
              /\ Prepared \in 0 .. Len(ReadSizes)
              /\ Prepared = Len(registered) - 4 * Cardinality(Corpus)
         /\ pc = "run" => /\ Len(registered) = 4 * Cardinality(Corpus) + Len(ReadSizes)
                          /\ row \in 1 .. Len(registered) + 1
         /\ Len(registered) \in Nat /\ Cardinality(Corpus) \in Nat
<1>1. IsFiniteSet(todo)
  BY FilesFinite, FS_Subset DEF IInv, TypeOK
<1>2. IsFiniteSet(unregistered)
  <2>1. unregistered \subseteq Corpus
    BY DEF IInv, TypeOK
  <2> QED
    BY <2>1, FilesFinite, FS_Subset
<1>3. /\ IsFiniteSet(Corpus) /\ IsFiniteSet(File("snapshots_tmp"))
      /\ IsFiniteSet(File("wiki_tmp"))
  BY FilesFinite DEF Paths
<1>4. ASSUME NEW S, IsFiniteSet(S) PROVE Left(S) \in Nat \ {0} /\ Cardinality(S) \in Nat
  BY <1>4, FS_CardinalityType DEF Left
<1>5. Len(ReadSizes) \in Nat /\ Len(registered) \in Nat
  BY LenProperties, RegistrationAssumption DEF IInv, GroupInv
<1>6. RunWork \in Nat \ {0} /\ PrepareWork \in Nat \ {0} /\ Cardinality(Corpus) \in Nat
  BY <1>3, <1>4, <1>5 DEF RunWork, PrepareWork
<1>7. RegisterWork \in Nat \ {0}
  <2>1. Left(Corpus) \in Nat \ {0} /\ Left(File("wiki_tmp")) \in Nat \ {0}
    BY <1>3, <1>4
  <2> HIDE DEF PrepareWork
  <2> QED
    BY <1>6, <2>1 DEF RegisterWork
<1>8. pc = "prepare" => /\ Prepared \in 0 .. Len(ReadSizes)
                        /\ Prepared = Len(registered) - 4 * Cardinality(Corpus)
  BY DEF IInv, TypeOK, LoadInv, TableInv, Merged, Prepared
<1>9. pc = "run" => /\ Len(registered) = 4 * Cardinality(Corpus) + Len(ReadSizes)
                    /\ row \in 1 .. Len(registered) + 1
  BY WhenStarted DEF Started, FileRows, IInv, TypeOK
<1> QED
  BY <1>1, <1>2, <1>3, <1>4, <1>5, <1>6, <1>7, <1>8, <1>9

(* A member less, a step less. *)
LEMMA LeftWithout ==
  ASSUME NEW S, NEW e \in S, IsFiniteSet(S)
  PROVE  Left(S \ {e}) = Left(S) - 1
<1>1. Cardinality(S \ {e}) = Cardinality(S) - 1 /\ Cardinality(S) \in Nat
  BY FS_RemoveElement, FS_CardinalityType
<1> QED
  BY <1>1 DEF Left

(* What SelectedRowsRun rests on: every step lowers a natural number, so   *)
(* no loop of the process goes on for ever, for any corpus and read sizes. *)
THEOREM ProcessProgress == Spec => [](Work \in Nat) /\ [][Work' < Work]_vars
<1>1. ASSUME IInv PROVE Work \in Nat /\ (pc \notin {"done", "fatal"} => Work > 0)
  <2>1. /\ path \in {"silesia_tmp", "snapshots_tmp", "wiki_tmp"}
        /\ pc \in {"load", "register", "prepare", "run", "done", "fatal"}
    BY <1>1 DEF IInv, TypeOK, Paths
  <2>2. /\ Left(todo) \in Nat \ {0} /\ Left(unregistered) \in Nat \ {0}
        /\ Left(File("snapshots_tmp")) \in Nat \ {0} /\ Left(File("wiki_tmp")) \in Nat \ {0}
        /\ PrepareWork \in Nat \ {0} /\ RegisterWork \in Nat \ {0}
    BY <1>1, WorkBounds
  <2>3. CASE pc = "load"
    <3>1. CASE path = "silesia_tmp"
      BY <2>2, <2>3, <3>1 DEF Work
    <3>2. CASE path = "snapshots_tmp"
      BY <2>2, <2>3, <3>2 DEF Work
    <3>3. CASE path = "wiki_tmp"
      BY <2>2, <2>3, <3>3 DEF Work
    <3> QED
      BY <2>1, <3>1, <3>2, <3>3
  <2>4. CASE pc = "register"
    BY <2>2, <2>4 DEF Work
  <2>5. CASE pc = "prepare"
    <3>1. Prepared \in 0 .. Len(ReadSizes) /\ Len(ReadSizes) \in Nat /\ RunWork \in Nat \ {0}
      BY <1>1, <2>5, WorkBounds
    <3>2. Work = Len(ReadSizes) - Prepared + 1 + RunWork
      BY <2>5 DEF Work
    <3> QED
      BY <2>5, <3>1, <3>2
  <2>6. CASE pc = "run"
    <3>1. row \in 1 .. Len(registered) + 1 /\ Len(registered) \in Nat
      BY <1>1, <2>6, WorkBounds
    <3>2. Work = Len(registered) - row + 2
      BY <2>6 DEF Work
    <3> QED
      BY <2>6, <3>1, <3>2
  <2>7. CASE pc \in {"done", "fatal"}
    BY <2>7 DEF Work
  <2> QED
    BY <2>1, <2>3, <2>4, <2>5, <2>6, <2>7
<1>2. ASSUME IInv, Next PROVE Work' < Work
  <2>1. Work \in Nat /\ (pc \notin {"done", "fatal"} => Work > 0)
    BY <1>1, <1>2
  <2>2. ASSUME pc \in {"load", "prepare"}, pc' = "fatal" PROVE Work' < Work
    BY <2>1, <2>2 DEF Work
  <2>3. /\ path \in {"silesia_tmp", "snapshots_tmp", "wiki_tmp"}
        /\ Left(todo) \in Nat \ {0} /\ Left(unregistered) \in Nat \ {0}
        /\ Left(File("snapshots_tmp")) \in Nat \ {0} /\ Left(File("wiki_tmp")) \in Nat \ {0}
        /\ Left(Corpus) \in Nat \ {0}
        /\ PrepareWork \in Nat \ {0} /\ RegisterWork \in Nat \ {0} /\ RunWork \in Nat \ {0}
        /\ Len(ReadSizes) \in Nat
    BY <1>2, WorkBounds DEF IInv, TypeOK, Paths
  <2>4. CASE NoDirectory
    BY <2>2, <2>4 DEF NoDirectory, Abort
  <2>5. CASE LoadFile
    <3>1. pc = "load" /\ path' = path
      BY <2>5 DEF LoadFile
    <3>2. pc' = "fatal" \/ (pc' = "load" /\ \E file \in todo : todo' = todo \ {file})
      BY <2>5, <3>1 DEF LoadFile, Abort
    <3>3. CASE pc' = "load" /\ \E file \in todo : todo' = todo \ {file}
      <4>1. Left(todo') = Left(todo) - 1
        BY <1>2, <3>3, LeftWithout, WorkBounds
      <4>2. CASE path = "silesia_tmp"
        BY <2>3, <3>1, <3>3, <4>1, <4>2 DEF Work
      <4>3. CASE path = "snapshots_tmp"
        BY <2>3, <3>1, <3>3, <4>1, <4>3 DEF Work
      <4>4. CASE path = "wiki_tmp"
        BY <2>3, <3>1, <3>3, <4>1, <4>4 DEF Work
      <4> QED
        BY <2>3, <4>2, <4>3, <4>4
    <3> QED
      BY <2>2, <3>1, <3>2, <3>3
  <2>6. CASE Loaded
    <3>1. CASE path = "silesia_tmp"
      <4>1. pc = "load" /\ pc' = "load" /\ path' = "snapshots_tmp" /\ todo' = File("snapshots_tmp")
        BY <2>6, <3>1 DEF Loaded
      <4> QED
        BY <2>3, <3>1, <4>1 DEF Work
    <3>2. CASE path = "snapshots_tmp"
      <4>1. pc = "load" /\ pc' = "register" /\ unregistered' = DOMAIN source_buffs'
        BY <2>6, <3>2 DEF Loaded
      <4>2. IInv'
        BY <1>2, <2>6, LoadedKeeps
      <4>3. unregistered' = Corpus
        BY <4>1, <4>2 DEF IInv, TableInv, Merged, LoadInv
      <4>4. RegisterWork = Left(Corpus) + Left(File("wiki_tmp")) + PrepareWork
        BY DEF RegisterWork
      <4> QED
        BY <2>3, <3>2, <4>1, <4>3, <4>4 DEF Work
    <3> QED
      BY <2>3, <2>6, <3>1, <3>2 DEF Loaded
  <2>7. CASE Register
    <3>1. /\ pc = "register" /\ pc' = "register"
          /\ \E name \in unregistered : unregistered' = unregistered \ {name}
      BY <2>7 DEF Register
    <3>2. Left(unregistered') = Left(unregistered) - 1
      BY <1>2, <3>1, LeftWithout, WorkBounds
    <3> QED
      BY <2>3, <3>1, <3>2 DEF Work
  <2>8. CASE LoadWiki
    BY <2>3, <2>8 DEF LoadWiki, Work
  <2>9. CASE LoadedWiki
    <3>1. CASE dataset = <<>>
      BY <2>2, <2>9, <3>1 DEF LoadedWiki, Abort
    <3>2. CASE dataset # <<>>
      <4>1. /\ pc = "load" /\ path = "wiki_tmp" /\ pc' = "prepare"
            /\ UNCHANGED <<registered, source_buffs>>
        BY <2>9, <3>2 DEF LoadedWiki, tables
      <4>2. IInv'
        BY <1>2, <2>9, <3>2, Preservation DEF Next
      <4>3. Prepared' \in 0 .. Len(ReadSizes)
        BY <4>1, <4>2 DEF IInv, TypeOK
      <4>4. PrepareWork = Len(ReadSizes) + 1 + RunWork
        BY DEF PrepareWork
      <4> QED
        BY <2>3, <4>1, <4>3, <4>4 DEF Work
    <3> QED
      BY <3>1, <3>2
  <2>10. CASE Prepare
    <3>1. pc = "prepare"
      BY <2>10 DEF Prepare
    <3>2. CASE pc' = "prepare"
      <4>1. PICK e : registered' = Append(registered, e)
        BY <2>10, <3>2 DEF Prepare, Abort
      <4>2. Len(registered') = Len(registered) + 1
        BY <4>1, AppendProperties DEF IInv, GroupInv
      <4>3. UNCHANGED source_buffs
        BY <2>10 DEF Prepare
      <4>4. Prepared' = Prepared + 1 /\ Prepared \in Nat
        <5>1. /\ Prepared \in 0 .. Len(ReadSizes) /\ Len(registered) \in Nat
              /\ Prepared = Len(registered) - 4 * Cardinality(Corpus)
              /\ Cardinality(Corpus) \in Nat
          BY <1>2, <3>1, WorkBounds
        <5>2. DOMAIN source_buffs = Corpus
          BY <1>2, <3>1 DEF IInv, TableInv, Merged, LoadInv
        <5>3. Prepared' = Len(registered') - 4 * Cardinality(Corpus)
          BY <4>3, <5>2 DEF Prepared
        <5> QED
          BY <2>3, <4>2, <5>1, <5>3
      <4> QED
        BY <2>3, <3>1, <3>2, <4>4 DEF Work
    <3> QED
      BY <2>2, <2>10, <3>1, <3>2 DEF Prepare, Abort
  <2>11. CASE Initialize
    <3>1. /\ pc = "prepare" /\ pc' = "run" /\ ~(Prepared < Len(ReadSizes))
          /\ UNCHANGED <<registered, row>>
      BY <2>11 DEF Initialize, MorePrepare, tables, running
    <3>2. Prepared \in 0 .. Len(ReadSizes) /\ row = 1
          /\ Prepared = Len(registered) - 4 * Cardinality(Corpus)
          /\ Cardinality(Corpus) \in Nat /\ Len(registered) \in Nat
      BY <1>2, <3>1, WorkBounds DEF IInv, RunInv
    <3>3. Work = Len(ReadSizes) - Prepared + 1 + RunWork
      BY <3>1 DEF Work
    <3>4. Work' = Len(registered) - row + 2
      BY <3>1 DEF Work
    <3>5. RunWork = 4 * Cardinality(Corpus) + Len(ReadSizes) + 1
      BY DEF RunWork
    <3>6. Prepared \in Int /\ Len(ReadSizes) \in Int /\ Prepared = Len(ReadSizes)
      BY <2>3, <3>1, <3>2
    <3>7. Work = 1 + RunWork /\ RunWork \in Int
      BY <2>3, <3>3, <3>6
    <3>8. Work' = Len(registered) + 1
      BY <3>2, <3>4
    <3>9. RunWork = Len(registered) + 1
      BY <3>2, <3>5, <3>6
    <3> QED
      BY <3>2, <3>7, <3>8, <3>9
  <2>12. CASE RunGroup
    <3>1. pc = "run" /\ pc' = "run" /\ row' = row + 1 /\ UNCHANGED registered
      BY <2>12 DEF RunGroup, tables
    <3>2. row \in 1 .. Len(registered) + 1 /\ Len(registered) \in Nat
      BY <1>2, <3>1, WorkBounds
    <3> QED
      BY <3>1, <3>2 DEF Work
  <2>13. CASE Shutdown
    BY <2>1, <2>13 DEF Shutdown, Work
  <2> QED
    BY <1>2, <2>4, <2>5, <2>6, <2>7, <2>8, <2>9, <2>10, <2>11, <2>12, <2>13 DEF Next
<1>3. IInv => Work \in Nat
  BY <1>1
<1>4. IInv /\ [Next]_vars => [Work' < Work]_vars
  BY <1>2
<1> QED
  BY <1>3, <1>4, Invariance, PTL DEF Spec

-------------------------------------------------------------------------------
(* ByteHistogram: the counts of the bytes of a file, for every memory and  *)
(* every width of a count.                                                 *)

(* Adding one before or after the reduction gives the same count. *)
LEMMA IncrementMod ==
  ASSUME NEW n \in Nat, NEW w \in Nat \ {0}
  PROVE  ((n % w) + 1) % w = (n + 1) % w
<1> DEFINE d == n \div w
           m == n % w
           e == (n + 1) \div w
           l == (n + 1) % w
<1>1. /\ d \in Nat /\ m \in 0 .. w - 1 /\ n = d * w + m
      /\ e \in Nat /\ l \in 0 .. w - 1 /\ n + 1 = e * w + l
  OBVIOUS
<1>2. (m + 1) % w = IF m + 1 = w THEN 0 ELSE m + 1
  BY <1>1
<1> HIDE DEF d, m, e, l
<1>3. e * w \in Nat /\ d * w \in Nat
  BY <1>1
<1>4. l = IF m + 1 = w THEN 0 ELSE m + 1
  <2>1. ASSUME NEW x \in Nat, NEW y \in Nat, x + 1 <= y
        PROVE  x * w + w <= y * w /\ x * w \in Nat /\ y * w \in Nat
    <3>1. PICK z \in Nat : y = x + 1 + z
      <4>1. y - (x + 1) \in Nat /\ y = x + 1 + (y - (x + 1))
        BY <2>1
      <4> QED
        BY <4>1
    <3>2. y * w = x * w + w + z * w
      BY <3>1
    <3>3. z * w \in Nat /\ x * w \in Nat /\ y * w \in Nat
      OBVIOUS
    <3> QED
      BY <3>2, <3>3
  <2>2. CASE e = d
    BY <1>1, <1>3, <2>2
  <2>3. CASE e + 1 <= d
    BY <1>1, <1>3, <2>1, <2>3
  <2>4. CASE d + 1 <= e
    <3>1. d * w + w <= e * w
      BY <1>1, <2>1, <2>4
    <3>2. m + 1 = w /\ l = 0
      BY <1>1, <1>3, <3>1
    <3> QED
      BY <3>2
  <2> QED
    BY <1>1, <2>2, <2>3, <2>4
<1> QED
  BY <1>2, <1>4 DEF m, l

CountIInv == CountTypeOK /\ CountsModulo

(* Counting one more byte adds one to the count of its value, in the       *)
(* memory as in the histogram, and nothing to the others.                  *)
LEMMA CountPreservation ==
  ASSUME CountIInv, [CountNext]_countVars PROVE CountIInv'
<1> USE HistogramAssumption DEF CountIInv, CountTypeOK
<1>1. CASE CountByte
  <2> USE DEF CountByte, Incremented
  <2>1. CountTypeOK'
    BY <1>1
  <2>2. ASSUME NEW b \in Byte
        PROVE  probablilities'[b] = Cardinality(Occurrences(b)') % CountMod
    <3>1. Occurrences(b) \subseteq 0 .. i - 1 /\ i \notin Occurrences(b)
      BY DEF Occurrences
    <3>2. IsFiniteSet(Occurrences(b))
      <4>1. 0 \in Int /\ i - 1 \in Int
        OBVIOUS
      <4>2. IsFiniteSet(0 .. i - 1)
        BY ONLY <4>1, FS_Interval
      <4> QED
        BY ONLY <3>1, <4>2, FS_Subset
    <3>3. Cardinality(Occurrences(b)) \in Nat
      BY <3>2, FS_CardinalityType
    <3>4. CASE mem[i] = b
      <4>1. Occurrences(b)' = Occurrences(b) \union {i}
        BY <1>1, <3>4 DEF Occurrences
      <4>2. Cardinality(Occurrences(b)') = Cardinality(Occurrences(b)) + 1
        BY <3>1, <3>2, <4>1, FS_AddElement
      <4>3. probablilities'[b] = ((Cardinality(Occurrences(b)) % CountMod) + 1) % CountMod
        BY <1>1, <3>4 DEF CountsModulo
      <4> QED
        BY <3>3, <4>2, <4>3, IncrementMod
    <3>5. CASE mem[i] # b
      <4>1. Occurrences(b)' = Occurrences(b)
        BY <1>1, <3>5 DEF Occurrences
      <4>2. probablilities'[b] = probablilities[b]
        BY <1>1, <3>5
      <4> QED
        BY <4>1, <4>2 DEF CountsModulo
    <3> QED
      BY <3>4, <3>5
  <2> QED
    BY <2>1, <2>2 DEF CountsModulo
<1>2. CASE CountDone
  BY <1>2 DEF CountDone, CountsModulo, Occurrences
<1>3. CASE UNCHANGED countVars
  BY <1>3 DEF countVars, CountsModulo, Occurrences
<1> QED
  BY <1>1, <1>2, <1>3 DEF CountNext

(* At every point of the loop each count is right modulo its width, and    *)
(* has its type.                                                           *)
THEOREM CountsRight == CountSpec => [](CountTypeOK /\ CountsModulo)
<1>1. CountInit => CountIInv
  <2> SUFFICES ASSUME CountInit PROVE CountTypeOK /\ CountsModulo
    BY DEF CountIInv
  <2>1. CountTypeOK
    BY HistogramAssumption DEF CountInit, CountTypeOK
  <2>2. \A b \in Byte : Occurrences(b) = {}
    BY DEF CountInit, Occurrences
  <2>3. 0 % CountMod = 0
    BY HistogramAssumption
  <2> QED
    BY <2>1, <2>2, <2>3, FS_EmptySet DEF CountInit, CountsModulo
<1>2. CountIInv /\ [CountNext]_countVars => CountIInv'
  BY CountPreservation
<1> QED
  BY <1>1, <1>2, PTL DEF CountSpec, CountIInv

(* The counts stay below their width, and the loop inside the memory.      *)
THEOREM CountTypeCorrect == CountSpec => []CountTypeOK
BY CountsRight, PTL

(* A memory smaller than the width of a count (256 bytes in the program)   *)
(* gets the frequencies of Shannon's entropy.                              *)
THEOREM SmallMemoryIsExact ==
  CountSpec => [](size < CountMod => ShannonProbabilities)
<1>1. CountTypeOK /\ CountsModulo => (size < CountMod => ShannonProbabilities)
  <2> SUFFICES ASSUME CountTypeOK, CountsModulo, size < CountMod, NEW b \in Byte
               PROVE  probablilities[b] = Cardinality(Occurrences(b))
    BY DEF ShannonProbabilities
  <2>1. 0 \in Int /\ i - 1 \in Int /\ i \in Nat /\ i <= size
    BY HistogramAssumption DEF CountTypeOK
  <2>2. IsFiniteSet(0 .. i - 1) /\ Cardinality(0 .. i - 1) = i
    BY <2>1, FS_Interval
  <2>3. Occurrences(b) \subseteq 0 .. i - 1
    BY DEF Occurrences
  <2>4. IsFiniteSet(Occurrences(b)) /\ Cardinality(Occurrences(b)) <= i
    BY <2>2, <2>3, FS_Subset
  <2>5. Cardinality(Occurrences(b)) \in Nat
    BY <2>4, FS_CardinalityType
  <2>6. size \in Nat /\ Cardinality(Occurrences(b)) < CountMod
    BY <2>1, <2>4, <2>5, HistogramAssumption DEF CountTypeOK
  <2>7. Cardinality(Occurrences(b)) % CountMod = Cardinality(Occurrences(b))
    BY <2>5, <2>6, HistogramAssumption
  <2> QED
    BY <2>7 DEF CountsModulo
<1> QED
  BY <1>1, CountsRight, PTL
===============================================================================
