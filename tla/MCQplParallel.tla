----------------------------- MODULE MCQplParallel ----------------------------
(* Instances of QplParallel for TLC: uneven chunks, the last one larger by  *)
(* the remainder as BM_MultipleEngine_* make them; the last one expands.    *)
EXTENDS QplParallel

MCChunkSize == [c \in Chunk |-> IF c = ThreadCount - 1 THEN 3 ELSE 2]
MCCompLen == [c \in Chunk |-> IF c = ThreadCount - 1 THEN 4 ELSE 1]
===============================================================================
