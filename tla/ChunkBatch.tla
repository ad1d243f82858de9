------------------------------ MODULE ChunkBatch ------------------------------
(***************************************************************************)
(* What one call of multi_engine::compress or multi_engine::decompress     *)
(* (qpl_parallel.h) promises its caller, whatever the engines do.          *)
(*                                                                         *)
(* The call hands chunks to the accelerator; the accelerator finishes or   *)
(* drops them at its own pace.  The call may report success only when      *)
(* every chunk is finished.  It may report failure at any time, and it     *)
(* does not recall what it handed out: chunks still held by the            *)
(* accelerator may be finished after the caller has seen the failure.      *)
(***************************************************************************)

CONSTANT Chunk      \* the chunks of the batch

VARIABLES
  phase,            \* "running", then "ok" (return 0) or "failed" (return -1)
  handed,           \* chunks the accelerator holds and may still write to
  done              \* chunks it has finished

batchVars == <<phase, handed, done>>

Init ==
  /\ phase = "running"
  /\ handed = {}
  /\ done = {}

Hand(c) ==
  /\ phase = "running"
  /\ c \notin handed \union done
  /\ handed' = handed \union {c}
  /\ UNCHANGED <<phase, done>>

Finish(c) ==
  /\ c \in handed
  /\ handed' = handed \ {c}
  /\ done' = done \union {c}
  /\ UNCHANGED phase

Drop(c) ==
  /\ c \in handed
  /\ handed' = handed \ {c}
  /\ UNCHANGED <<phase, done>>

Succeed ==
  /\ phase = "running"
  /\ done = Chunk
  /\ phase' = "ok"
  /\ UNCHANGED <<handed, done>>

Fail ==
  /\ phase = "running"
  /\ phase' = "failed"
  /\ UNCHANGED <<handed, done>>

Next ==
  \/ \E c \in Chunk : Hand(c) \/ Finish(c) \/ Drop(c)
  \/ Succeed
  \/ Fail

Spec == Init /\ [][Next]_batchVars

-------------------------------------------------------------------------------

TypeOK ==
  /\ phase \in {"running", "ok", "failed"}
  /\ handed \in SUBSET Chunk
  /\ done \in SUBSET Chunk

(* A batch that reported success is complete and quiescent: every chunk is *)
(* finished and the accelerator holds none of them any more, so the caller *)
(* may read, resize or free the buffers.                                   *)
SuccessIsQuiescent ==
  phase = "ok" => done = Chunk /\ handed = {}
===============================================================================
