---------------------------- MODULE MCRegistration ----------------------------
(***************************************************************************)
(* Two corpora that share a file name, a third directory with more files   *)
(* than the one that is expected, and the filters of the README.           *)
(***************************************************************************)
EXTENDS Registration

MCFiles == [p \in Paths |-> IF p = "wiki_tmp" THEN {"w", "x"} ELSE {"a"}]
MCReadSizes == <<32, 64>>
MCFilters == {Bm, {"FullSystem"}, Bm \ {"FullSystem", "MultipleEngine_Compress",
                                        "MultipleEngine_DeCompress"}}
===============================================================================
