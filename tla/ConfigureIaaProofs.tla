-------------------------- MODULE ConfigureIaaProofs --------------------------
(***************************************************************************)
(* Proofs about ConfigureIaa, for any number of devices, engines, queues,  *)
(* runs and failing commands.                                              *)
(***************************************************************************)
EXTENDS ConfigureIaa, TLAPS

-------------------------------------------------------------------------------
(* The inductive invariant.                                                *)

Enabling == pc \in {"engine", "wq", "queue"}
Entered == Enabling \/ (pc = "done" /\ runs > 0)

\* The devices the enable loop goes through.
Chosen == {d \in start .. end - 1 : (d - start) % step = 0}

\* The bounds of the enable loop are those of the arguments.
BoundInv ==
  /\ Entered => start = Start /\ end = End
  /\ runs = 0 => enabled = {}

\* Where the loops are.
LoopInv ==
  /\ pc # "done" => runs > 0
  /\ pc = "disable" => i % step = 1 /\ j <= max_wqs
  /\ Enabling => i >= start /\ (i - start) % step = 0
  /\ pc \in {"wq", "queue"} => i < end
  /\ pc \in {"engine", "queue"} => j <= engine_number
  /\ pc = "wq" => j <= max_wqs
  /\ pc = "done" => i >= end

\* What is enabled while devices are disabled, and afterwards.
ExtraInv ==
  /\ pc = "disable" => \A d \in enabled : d < i => d \in stuck
  /\ pc # "disable" => enabled \subseteq Chosen \union stuck

\* The queues below n, and no other, are on.
QueuesOn(d, n) == \A q \in Int : <<d, q>> \in on <=> q \in 0 .. n - 1
EnginesIn(d, n) == \A e \in Int : e \in 0 .. n - 1 => e \in grouped[d]
ModesSet(d, n) == \A q \in Wq : q < n => wq[d][q] = mode

\* The device the loop is at, in a run that has shown no error.
DeviceInv ==
  errors = "none" =>
    /\ pc = "engine" /\ i < end /\ j > 0 => i \in Device /\ EnginesIn(i, j)
    /\ pc = "wq" => EnginesIn(i, engine_number)
    /\ pc = "wq" /\ j > 0 => i \in Device /\ ModesSet(i, j)
    /\ pc = "queue" =>
         /\ i \in enabled
         /\ EnginesIn(i, engine_number)
         /\ ModesSet(i, max_wqs)
         /\ QueuesOn(i, j)

\* The devices it has left behind.
BehindInv ==
  errors = "none" /\ Entered =>
    \A d \in Chosen : d < i =>
      /\ d \in enabled
      /\ EnginesIn(d, engine_number)
      /\ ModesSet(d, max_wqs)
      /\ QueuesOn(d, engine_number)

IInv == TypeOK /\ LoopInv /\ BoundInv /\ ExtraInv /\ DeviceInv /\ BehindInv

-------------------------------------------------------------------------------
(* What the assumption on the constants says of devices.                   *)
LEMMA DeviceFacts ==
  /\ \A d \in Device : d \in Nat /\ d >= first /\ d % step = 1 /\ d < step * num_iax
  /\ num_iax \in Nat /\ max_wqs \in Nat /\ Engines \subseteq Nat
  /\ Runs \in Nat /\ MaxFaults \in Nat
  /\ Selections \subseteq (Seq(Nat) \ {<<>>})
BY ConfigureAssumption DEF Device, step, first

(* A run begins with nothing enabled by it and no error.                   *)
LEMMA BeginKeeps ==
  ASSUME IInv, Begin
  PROVE  IInv'
<1> USE DeviceFacts DEF IInv, Begin, args, system, first, step, Attempt, Seen, MoreWqs, MoreQueues, MoreToDisable, Wq
<1>1. TypeOK'
  <2>1. /\ pc' \in {"disable", "engine", "wq", "queue", "done"} /\ runs' \in 0 .. Runs
        /\ device_num' \in Seq(Nat) \ {<<>>} /\ mode' \in {"shared", "dedicated"}
        /\ engine_number' \in Nat
        /\ start' \in Nat /\ end' \in Nat /\ i' \in Nat
        /\ j' \in Nat /\ (j' <= max_wqs \/ j' <= engine_number')
        /\ errors' \in {"none", "shown"} /\ faults' \in 0 .. MaxFaults
    BY DEF TypeOK, LoopInv
  <2>2. stuck' \subseteq Device
    BY DEF TypeOK
  <2>3. grouped' \in [Device -> SUBSET Engine]
    BY DEF TypeOK
  <2>4. wq' \in [Device -> [Wq -> {"none", "shared", "dedicated"}]]
    BY DEF TypeOK
  <2>5. enabled' \subseteq Device /\ on' \subseteq enabled' \X Wq
    BY DEF TypeOK
  <2> QED
    BY <2>1, <2>2, <2>3, <2>4, <2>5 DEF TypeOK
<1>2. LoopInv'
  BY DEF TypeOK, LoopInv, Enabling
<1>3. ExtraInv'
  BY DEF TypeOK, LoopInv, ExtraInv, Chosen
<1>4. DeviceInv'
  BY DEF TypeOK, LoopInv, DeviceInv, EnginesIn, ModesSet, QueuesOn, Enabling
<1>5. BehindInv'
  BY DEF TypeOK, LoopInv, DeviceInv, BehindInv, EnginesIn, ModesSet, QueuesOn, Enabling, Entered, Chosen
<1>6. BoundInv'
  BY DEF TypeOK, LoopInv, BoundInv, Entered, Enabling, Start, Last, End, All
<1> QED
  BY <1>1, <1>2, <1>3, <1>4, <1>5, <1>6

(* Disabling a queue enables nothing.                                      *)
LEMMA DisableWqKeeps ==
  ASSUME IInv, DisableWq
  PROVE  IInv'
<1> USE DeviceFacts DEF IInv, DisableWq, args, system, first, step, Attempt, Seen, MoreWqs, MoreQueues, MoreToDisable, Wq
<1>1. TypeOK'
  <2>1. /\ pc' \in {"disable", "engine", "wq", "queue", "done"} /\ runs' \in 0 .. Runs
        /\ device_num' \in Seq(Nat) \ {<<>>} /\ mode' \in {"shared", "dedicated"}
        /\ engine_number' \in Nat
        /\ start' \in Nat /\ end' \in Nat /\ i' \in Nat
        /\ j' \in Nat /\ (j' <= max_wqs \/ j' <= engine_number')
        /\ errors' \in {"none", "shown"} /\ faults' \in 0 .. MaxFaults
    BY DEF TypeOK, LoopInv
  <2>2. stuck' \subseteq Device
    BY DEF TypeOK
  <2>3. grouped' \in [Device -> SUBSET Engine]
    BY DEF TypeOK
  <2>4. wq' \in [Device -> [Wq -> {"none", "shared", "dedicated"}]]
    BY DEF TypeOK
  <2>5. enabled' \subseteq Device /\ on' \subseteq enabled' \X Wq
    BY DEF TypeOK
  <2> QED
    BY <2>1, <2>2, <2>3, <2>4, <2>5 DEF TypeOK
<1>2. LoopInv'
  BY DEF TypeOK, LoopInv, Enabling
<1>3. ExtraInv'
  BY DEF TypeOK, LoopInv, ExtraInv, Chosen
<1>4. DeviceInv'
  BY DEF TypeOK, LoopInv, DeviceInv, EnginesIn, ModesSet, QueuesOn, Enabling
<1>5. BehindInv'
  BY DEF TypeOK, LoopInv, DeviceInv, BehindInv, EnginesIn, ModesSet, QueuesOn, Enabling, Entered, Chosen
<1>6. BoundInv'
  BY DEF TypeOK, LoopInv, BoundInv, Entered, Enabling, Start, Last, End, All
<1> QED
  BY <1>1, <1>2, <1>3, <1>4, <1>5, <1>6

(* A device that cannot be disabled is remembered as stuck.                *)
LEMMA DisableDeviceKeeps ==
  ASSUME IInv, DisableDevice
  PROVE  IInv'
<1> USE DeviceFacts DEF IInv, DisableDevice, args, system, first, step, Attempt, Seen, MoreWqs, MoreQueues, MoreToDisable, Wq
<1>1. TypeOK'
  <2>1. /\ pc' \in {"disable", "engine", "wq", "queue", "done"} /\ runs' \in 0 .. Runs
        /\ device_num' \in Seq(Nat) \ {<<>>} /\ mode' \in {"shared", "dedicated"}
        /\ engine_number' \in Nat
        /\ start' \in Nat /\ end' \in Nat /\ i' \in Nat
        /\ j' \in Nat /\ (j' <= max_wqs \/ j' <= engine_number')
        /\ errors' \in {"none", "shown"} /\ faults' \in 0 .. MaxFaults
    BY DEF TypeOK, LoopInv
  <2>2. stuck' \subseteq Device
    BY DEF TypeOK
  <2>3. grouped' \in [Device -> SUBSET Engine]
    BY DEF TypeOK
  <2>4. wq' \in [Device -> [Wq -> {"none", "shared", "dedicated"}]]
    <3>1. wq' \in {wq, [wq EXCEPT ![i] = [q \in Wq |-> "none"]]}
      OBVIOUS
    <3>2. [q \in Wq |-> "none"] \in [Wq -> {"none", "shared", "dedicated"}]
      OBVIOUS
    <3>3. wq \in [Device -> [Wq -> {"none", "shared", "dedicated"}]]
      BY DEF TypeOK
    <3> HIDE DEF Wq
    <3> QED
      BY <3>1, <3>2, <3>3
  <2>5. enabled' \subseteq Device /\ on' \subseteq enabled' \X Wq
    BY DEF TypeOK
  <2> QED
    BY <2>1, <2>2, <2>3, <2>4, <2>5 DEF TypeOK
<1>2. LoopInv'
  BY DEF TypeOK, LoopInv, Enabling
<1>3. ExtraInv'
  <2>1. ASSUME NEW d \in Device, d < i + 2
        PROVE  d < i \/ d = i
    <3>1. d \in Int /\ i \in Int /\ d % 2 = 1 /\ i % 2 = 1
      BY DEF TypeOK, LoopInv
    <3>2. d # i + 1
      BY <3>1
    <3> QED
      BY <2>1, <3>1, <3>2
  <2>2. enabled' \subseteq enabled /\ stuck \subseteq stuck' /\ pc' = "disable" /\ i' = i + 2
    OBVIOUS
  <2>3. i \in enabled' => i \in stuck'
    BY DEF TypeOK
  <2> QED
    BY <2>1, <2>2, <2>3 DEF TypeOK, ExtraInv
<1>4. DeviceInv'
  BY DEF TypeOK, LoopInv, DeviceInv, EnginesIn, ModesSet, QueuesOn, Enabling
<1>5. BehindInv'
  BY DEF TypeOK, LoopInv, DeviceInv, BehindInv, EnginesIn, ModesSet, QueuesOn, Enabling, Entered, Chosen
<1>6. BoundInv'
  BY DEF TypeOK, LoopInv, BoundInv, Entered, Enabling, Start, Last, End, All
<1> QED
  BY <1>1, <1>2, <1>3, <1>4, <1>5, <1>6

(* The enable loop begins before the first chosen device.                  *)
LEMMA EnablePrsKeeps ==
  ASSUME IInv, EnablePrs
  PROVE  IInv'
<1> USE DeviceFacts DEF IInv, EnablePrs, args, system, first, step, Attempt, Seen, MoreWqs, MoreQueues, MoreToDisable, Wq
<1>1. TypeOK'
  <2>0. Start \in Nat /\ End \in Nat
    BY DEF TypeOK, Start, Last, End
  <2>1. /\ pc' \in {"disable", "engine", "wq", "queue", "done"} /\ runs' \in 0 .. Runs
        /\ device_num' \in Seq(Nat) \ {<<>>} /\ mode' \in {"shared", "dedicated"}
        /\ engine_number' \in Nat
        /\ start' \in Nat /\ end' \in Nat /\ i' \in Nat
        /\ j' \in Nat /\ (j' <= max_wqs \/ j' <= engine_number')
        /\ errors' \in {"none", "shown"} /\ faults' \in 0 .. MaxFaults
    BY <2>0 DEF TypeOK, LoopInv
  <2>2. stuck' \subseteq Device
    BY DEF TypeOK
  <2>3. grouped' \in [Device -> SUBSET Engine]
    BY DEF TypeOK
  <2>4. wq' \in [Device -> [Wq -> {"none", "shared", "dedicated"}]]
    BY DEF TypeOK
  <2>5. enabled' \subseteq Device /\ on' \subseteq enabled' \X Wq
    BY DEF TypeOK
  <2> QED
    BY <2>1, <2>2, <2>3, <2>4, <2>5 DEF TypeOK
<1>2. LoopInv'
  BY <1>1 DEF TypeOK, LoopInv, Enabling
<1>3. ExtraInv'
  <2>1. \A d \in enabled : d < i
    BY DEF TypeOK
  <2>2. enabled \subseteq stuck
    BY <2>1 DEF ExtraInv
  <2> QED
    BY <2>2 DEF ExtraInv
<1>4. DeviceInv'
  BY DEF TypeOK, LoopInv, DeviceInv, EnginesIn, ModesSet, QueuesOn, Enabling
<1>5. BehindInv'
  <2>1. \A d \in Chosen' : ~(d < i')
    BY <1>1 DEF Chosen, TypeOK
  <2> QED
    BY <2>1 DEF BehindInv
<1>6. BoundInv'
  BY DEF TypeOK, LoopInv, BoundInv, Entered, Enabling, Start, Last, End, All
<1> QED
  BY <1>1, <1>2, <1>3, <1>4, <1>5, <1>6

(* An engine joins the group, or an error is seen.                         *)
LEMMA ConfigEngineKeeps ==
  ASSUME IInv, ConfigEngine
  PROVE  IInv'
<1> USE DeviceFacts DEF IInv, ConfigEngine, args, system, first, step, Attempt, Seen, MoreWqs, MoreQueues, MoreToDisable, Wq
<1>1. TypeOK'
  <2>1. /\ pc' \in {"disable", "engine", "wq", "queue", "done"} /\ runs' \in 0 .. Runs
        /\ device_num' \in Seq(Nat) \ {<<>>} /\ mode' \in {"shared", "dedicated"}
        /\ engine_number' \in Nat
        /\ start' \in Nat /\ end' \in Nat /\ i' \in Nat
        /\ j' \in Nat /\ (j' <= max_wqs \/ j' <= engine_number')
        /\ errors' \in {"none", "shown"} /\ faults' \in 0 .. MaxFaults
    BY DEF TypeOK, LoopInv
  <2>2. stuck' \subseteq Device
    BY DEF TypeOK
  <2>3. grouped' \in [Device -> SUBSET Engine]
    BY DEF TypeOK
  <2>4. wq' \in [Device -> [Wq -> {"none", "shared", "dedicated"}]]
    BY DEF TypeOK
  <2>5. enabled' \subseteq Device /\ on' \subseteq enabled' \X Wq
    BY DEF TypeOK
  <2> QED
    BY <2>1, <2>2, <2>3, <2>4, <2>5 DEF TypeOK
<1>2. LoopInv'
  BY DEF TypeOK, LoopInv, Enabling
<1>3. ExtraInv'
  BY DEF TypeOK, LoopInv, ExtraInv, Chosen
<1>4. DeviceInv'
  BY DEF TypeOK, LoopInv, DeviceInv, EnginesIn, ModesSet, QueuesOn, Enabling
<1>5. BehindInv'
  BY DEF TypeOK, LoopInv, DeviceInv, BehindInv, EnginesIn, ModesSet, QueuesOn, Enabling, Entered, Chosen
<1>6. BoundInv'
  BY DEF TypeOK, LoopInv, BoundInv, Entered, Enabling, Start, Last, End, All
<1> QED
  BY <1>1, <1>2, <1>3, <1>4, <1>5, <1>6

(* All engines asked for are in the group.                                 *)
LEMMA EnginesDoneKeeps ==
  ASSUME IInv, EnginesDone
  PROVE  IInv'
<1> USE DeviceFacts DEF IInv, EnginesDone, args, system, first, step, Attempt, Seen, MoreWqs, MoreQueues, MoreToDisable, Wq
<1>1. TypeOK'
  BY DEF TypeOK, LoopInv
<1>2. LoopInv'
  BY DEF TypeOK, LoopInv, Enabling
<1>3. ExtraInv'
  BY DEF TypeOK, LoopInv, ExtraInv, Chosen
<1>4. DeviceInv'
  BY DEF TypeOK, LoopInv, DeviceInv, EnginesIn, ModesSet, QueuesOn, Enabling
<1>5. BehindInv'
  BY DEF TypeOK, LoopInv, DeviceInv, BehindInv, EnginesIn, ModesSet, QueuesOn, Enabling, Entered, Chosen
<1>6. BoundInv'
  BY DEF TypeOK, LoopInv, BoundInv, Entered, Enabling, Start, Last, End, All
<1> QED
  BY <1>1, <1>2, <1>3, <1>4, <1>5, <1>6

(* A queue gets its mode, or an error is seen.                             *)
LEMMA ConfigWqKeeps ==
  ASSUME IInv, ConfigWq
  PROVE  IInv'
<1> USE DeviceFacts DEF IInv, ConfigWq, args, system, first, step, Attempt, Seen, MoreWqs, MoreQueues, MoreToDisable, Wq
<1>1. TypeOK'
  <2>1. /\ pc' \in {"disable", "engine", "wq", "queue", "done"} /\ runs' \in 0 .. Runs
        /\ device_num' \in Seq(Nat) \ {<<>>} /\ mode' \in {"shared", "dedicated"}
        /\ engine_number' \in Nat
        /\ start' \in Nat /\ end' \in Nat /\ i' \in Nat
        /\ j' \in Nat /\ (j' <= max_wqs \/ j' <= engine_number')
        /\ errors' \in {"none", "shown"} /\ faults' \in 0 .. MaxFaults
    BY DEF TypeOK, LoopInv
  <2>2. stuck' \subseteq Device
    BY DEF TypeOK
  <2>3. grouped' \in [Device -> SUBSET Engine]
    BY DEF TypeOK
  <2>4. wq' \in [Device -> [Wq -> {"none", "shared", "dedicated"}]]
    BY DEF TypeOK
  <2>5. enabled' \subseteq Device /\ on' \subseteq enabled' \X Wq
    BY DEF TypeOK
  <2> QED
    BY <2>1, <2>2, <2>3, <2>4, <2>5 DEF TypeOK
<1>2. LoopInv'
  BY DEF TypeOK, LoopInv, Enabling
<1>3. ExtraInv'
  BY DEF TypeOK, LoopInv, ExtraInv, Chosen
<1>4. DeviceInv'
  BY DEF TypeOK, LoopInv, DeviceInv, EnginesIn, ModesSet, QueuesOn, Enabling
<1>5. BehindInv'
  BY DEF TypeOK, LoopInv, DeviceInv, BehindInv, EnginesIn, ModesSet, QueuesOn, Enabling, Entered, Chosen
<1>6. BoundInv'
  BY DEF TypeOK, LoopInv, BoundInv, Entered, Enabling, Start, Last, End, All
<1> QED
  BY <1>1, <1>2, <1>3, <1>4, <1>5, <1>6

(* A device that is enabled has no queue on yet.                           *)
LEMMA EnableDeviceKeeps ==
  ASSUME IInv, EnableDevice
  PROVE  IInv'
<1> USE DeviceFacts DEF IInv, EnableDevice, args, system, first, step, Attempt, Seen, MoreWqs, MoreQueues, MoreToDisable, Wq
<1>1. TypeOK'
  <2>1. /\ pc' \in {"disable", "engine", "wq", "queue", "done"} /\ runs' \in 0 .. Runs
        /\ device_num' \in Seq(Nat) \ {<<>>} /\ mode' \in {"shared", "dedicated"}
        /\ engine_number' \in Nat
        /\ start' \in Nat /\ end' \in Nat /\ i' \in Nat
        /\ j' \in Nat /\ (j' <= max_wqs \/ j' <= engine_number')
        /\ errors' \in {"none", "shown"} /\ faults' \in 0 .. MaxFaults
    BY DEF TypeOK, LoopInv
  <2>2. stuck' \subseteq Device
    BY DEF TypeOK
  <2>3. grouped' \in [Device -> SUBSET Engine]
    BY DEF TypeOK
  <2>4. wq' \in [Device -> [Wq -> {"none", "shared", "dedicated"}]]
    BY DEF TypeOK
  <2>5. enabled' \subseteq Device /\ on' \subseteq enabled' \X Wq
    BY DEF TypeOK
  <2> QED
    BY <2>1, <2>2, <2>3, <2>4, <2>5 DEF TypeOK
<1>2. LoopInv'
  BY DEF TypeOK, LoopInv, Enabling
<1>3. ExtraInv'
  <2>1. i \in Chosen
    BY DEF TypeOK, LoopInv, Chosen, Enabling
  <2>2. Chosen' = Chosen /\ enabled' \subseteq enabled \union {i}
    BY DEF Chosen
  <2> QED
    BY <2>1, <2>2 DEF ExtraInv
<1>4. DeviceInv'
  BY DEF TypeOK, LoopInv, DeviceInv, EnginesIn, ModesSet, QueuesOn, Enabling
<1>5. BehindInv'
  BY DEF TypeOK, LoopInv, DeviceInv, BehindInv, EnginesIn, ModesSet, QueuesOn, Enabling, Entered, Chosen
<1>6. BoundInv'
  BY DEF TypeOK, LoopInv, BoundInv, Entered, Enabling, Start, Last, End, All
<1> QED
  BY <1>1, <1>2, <1>3, <1>4, <1>5, <1>6

(* One more queue is on, or an error is seen.                              *)
LEMMA EnableWqKeeps ==
  ASSUME IInv, EnableWq
  PROVE  IInv'
<1> USE DeviceFacts DEF IInv, EnableWq, args, system, first, step, Attempt, Seen, MoreWqs, MoreQueues, MoreToDisable, Wq
<1>1. TypeOK'
  <2>1. /\ pc' \in {"disable", "engine", "wq", "queue", "done"} /\ runs' \in 0 .. Runs
        /\ device_num' \in Seq(Nat) \ {<<>>} /\ mode' \in {"shared", "dedicated"}
        /\ engine_number' \in Nat
        /\ start' \in Nat /\ end' \in Nat /\ i' \in Nat
        /\ j' \in Nat /\ (j' <= max_wqs \/ j' <= engine_number')
        /\ errors' \in {"none", "shown"} /\ faults' \in 0 .. MaxFaults
    BY DEF TypeOK, LoopInv
  <2>2. stuck' \subseteq Device
    BY DEF TypeOK
  <2>3. grouped' \in [Device -> SUBSET Engine]
    BY DEF TypeOK
  <2>4. wq' \in [Device -> [Wq -> {"none", "shared", "dedicated"}]]
    BY DEF TypeOK
  <2>5. enabled' \subseteq Device /\ on' \subseteq enabled' \X Wq
    BY DEF TypeOK
  <2> QED
    BY <2>1, <2>2, <2>3, <2>4, <2>5 DEF TypeOK
<1>2. LoopInv'
  BY DEF TypeOK, LoopInv, Enabling
<1>3. ExtraInv'
  BY DEF TypeOK, LoopInv, ExtraInv, Chosen
<1>4. DeviceInv'
  BY DEF TypeOK, LoopInv, DeviceInv, EnginesIn, ModesSet, QueuesOn, Enabling
<1>5. BehindInv'
  BY DEF TypeOK, LoopInv, DeviceInv, BehindInv, EnginesIn, ModesSet, QueuesOn, Enabling, Entered, Chosen
<1>6. BoundInv'
  BY DEF TypeOK, LoopInv, BoundInv, Entered, Enabling, Start, Last, End, All
<1> QED
  BY <1>1, <1>2, <1>3, <1>4, <1>5, <1>6

(* The device left behind is configured.                                   *)
LEMMA NextDeviceKeeps ==
  ASSUME IInv, NextDevice
  PROVE  IInv'
<1> USE DeviceFacts DEF IInv, NextDevice, args, system, first, step, Attempt, Seen, MoreWqs, MoreQueues, MoreToDisable, Wq
<1>1. TypeOK'
  BY DEF TypeOK, LoopInv
<1>2. LoopInv'
  BY DEF TypeOK, LoopInv, Enabling
<1>3. ExtraInv'
  BY DEF TypeOK, LoopInv, ExtraInv, Chosen
<1>4. DeviceInv'
  BY DEF TypeOK, LoopInv, DeviceInv, EnginesIn, ModesSet, QueuesOn, Enabling
<1>5. BehindInv'
  <2>1. ASSUME NEW d \in Chosen, d < i + 2
        PROVE  d < i \/ d = i
    <3>1. /\ d \in Int /\ i \in Int /\ start \in Int
          /\ (d - start) % 2 = 0 /\ (i - start) % 2 = 0
      BY DEF TypeOK, LoopInv, Enabling, Chosen
    <3>2. d # i + 1
      BY <3>1
    <3> QED
      BY <2>1, <3>1, <3>2
  <2>2. j = engine_number
    BY DEF TypeOK, LoopInv
  <2>3. errors = "none" =>
          \A d \in Chosen : d < i + 2 =>
            /\ d \in enabled
            /\ EnginesIn(d, engine_number)
            /\ ModesSet(d, max_wqs)
            /\ QueuesOn(d, engine_number)
    BY <2>1, <2>2 DEF BehindInv, DeviceInv, Enabling, Entered
  <2>4. Chosen' = Chosen
    BY DEF Chosen
  <2> QED
    BY <2>3, <2>4 DEF BehindInv, EnginesIn, ModesSet, QueuesOn
<1>6. BoundInv'
  BY DEF TypeOK, LoopInv, BoundInv, Entered, Enabling, Start, Last, End, All
<1> QED
  BY <1>1, <1>2, <1>3, <1>4, <1>5, <1>6

(* All chosen devices are behind.                                          *)
LEMMA FinishKeeps ==
  ASSUME IInv, Finish
  PROVE  IInv'
<1> USE DeviceFacts DEF IInv, Finish, args, system, first, step, Attempt, Seen, MoreWqs, MoreQueues, MoreToDisable, Wq
<1>1. TypeOK'
  BY DEF TypeOK, LoopInv
<1>2. LoopInv'
  BY DEF TypeOK, LoopInv, Enabling
<1>3. ExtraInv'
  BY DEF TypeOK, LoopInv, ExtraInv, Chosen
<1>4. DeviceInv'
  BY DEF TypeOK, LoopInv, DeviceInv, EnginesIn, ModesSet, QueuesOn, Enabling
<1>5. BehindInv'
  BY DEF TypeOK, LoopInv, DeviceInv, BehindInv, EnginesIn, ModesSet, QueuesOn, Enabling, Entered, Chosen
<1>6. BoundInv'
  BY DEF TypeOK, LoopInv, BoundInv, Entered, Enabling, Start, Last, End, All
<1> QED
  BY <1>1, <1>2, <1>3, <1>4, <1>5, <1>6

(* IInv holds in every reachable state: the order of the commands, and    *)
(* what a command that fails leaves behind.                                *)
THEOREM Invariance == Spec => []IInv
<1>1. Init => IInv
  <2> SUFFICES ASSUME Init
               PROVE  IInv
    OBVIOUS
  <2> USE DeviceFacts DEF Init, IInv, first, step
  <2>1. TypeOK
    BY DEF TypeOK, Wq
  <2>2. Chosen = {}
    BY DEF Chosen
  <2> QED
    BY <2>1, <2>2 DEF LoopInv, BoundInv, ExtraInv, DeviceInv, BehindInv, Enabling, Entered
<1>2. IInv /\ [Next]_vars => IInv'
  <2> SUFFICES ASSUME IInv, [Next]_vars
               PROVE  IInv'
    OBVIOUS
  <2>1. CASE UNCHANGED vars
    BY <2>1 DEF IInv, vars, args, system, TypeOK, LoopInv, BoundInv, ExtraInv, DeviceInv,
                BehindInv, Enabling, Entered, Chosen, EnginesIn, ModesSet, QueuesOn, Start,
                Last, End, All
  <2> QED
    BY <2>1, BeginKeeps, DisableWqKeeps, DisableDeviceKeeps, EnablePrsKeeps, ConfigEngineKeeps,
       EnginesDoneKeeps, ConfigWqKeeps, EnableDeviceKeeps, EnableWqKeeps, NextDeviceKeeps,
       FinishKeeps DEF Next
<1> QED
  BY <1>1, <1>2, PTL DEF Spec

(* Types, and no queue is on at a device that is off.                      *)
THEOREM TypeCorrect == Spec => []TypeOK
<1>1. IInv => TypeOK
  BY DEF IInv
<1> QED
  BY <1>1, Invariance, PTL

(* From an odd number, steps of two reach the odd numbers.                 *)
LEMMA OddSteps ==
  ASSUME NEW a \in Int, NEW d \in Int, a % 2 = 1
  PROVE  (d - a) % 2 = 0 <=> d % 2 = 1
OBVIOUS

(* The loop goes through devices only if it goes through exactly those the *)
(* arguments ask for; any device it goes through is asked for.             *)
LEMMA LoopIsRequested ==
  ASSUME IInv, Entered
  PROVE  /\ Chosen \subseteq Device => Requested = Chosen
         /\ Chosen \intersect Device \subseteq Requested
<1> USE DeviceFacts DEF first, step
<1>1. start = Start /\ end = End
  BY DEF IInv, BoundInv
<1>2. CASE All
  <2>1. Requested = Device /\ start = 1 /\ end = 2 * num_iax
    BY <1>1, <1>2 DEF Requested, All, Start, End
  <2>2. Chosen = Device
    <3>1. ASSUME NEW d \in Int
          PROVE  (d - 1) % 2 = 0 <=> d % 2 = 1
      OBVIOUS
    <3>2. ASSUME NEW d \in Int, d % 2 = 1, d <= 2 * num_iax
          PROVE  d <= 2 * num_iax - 1
      BY <3>2
    <3> QED
      BY <2>1, <3>1, <3>2 DEF Chosen, Device
  <2> QED
    BY <2>1, <2>2
<1>3. CASE ~All /\ Len(device_num) = 1
  <2>1. /\ device_num[1] \in Nat
        /\ Requested = {device_num[1]}
        /\ start = device_num[1] /\ end = device_num[1] + 1
    BY <1>1, <1>3 DEF Requested, All, Start, Last, End, IInv, TypeOK
  <2>2. Chosen = {device_num[1]}
    BY <2>1 DEF Chosen
  <2> QED
    BY <2>1, <2>2
<1>4. CASE ~All /\ Len(device_num) # 1
  <2>1. /\ Len(device_num) > 1 /\ device_num[1] \in Nat /\ device_num[2] \in Nat
        /\ start = device_num[1] /\ end = device_num[2] + 1
        /\ Requested = {d \in start .. end - 1 : d % 2 = 1}
    <3>1. Len(device_num) > 1 /\ device_num[1] \in Nat /\ device_num[2] \in Nat
      <4>1. device_num \in Seq(Nat) /\ device_num # <<>>
        BY DEF IInv, TypeOK
      <4>2. Len(device_num) \in Nat /\ Len(device_num) # 0
        BY <4>1
      <4>3. Len(device_num) > 1
        BY <4>2, <1>4
      <4> QED
        BY <4>1, <4>3
    <3> QED
      BY <1>1, <1>4, <3>1 DEF Requested, All, Start, Last, End
  <2>2. Chosen \intersect Device \subseteq Requested
    BY <2>1 DEF Chosen
  <2>3. ASSUME Chosen \subseteq Device
        PROVE  Requested = Chosen
    <3>1. CASE start >= end
      BY <2>1, <3>1 DEF Chosen
    <3>2. CASE start < end
      <4>1. start \in Chosen
        BY <2>1, <3>2 DEF Chosen
      <4>2. start % 2 = 1
        BY <4>1, <2>3
      <4>3. ASSUME NEW d \in Int
            PROVE  (d - start) % 2 = 0 <=> d % 2 = 1
        <5>1. start \in Int
          BY <2>1
        <5> HIDE DeviceFacts
        <5> QED
          BY <5>1, <4>2, OddSteps
      <4>4. \A d \in start .. end - 1 : d \in Int
        BY <2>1
      <4> QED
        BY <2>1, <4>3, <4>4 DEF Chosen
    <3> QED
      BY <2>1, <3>1, <3>2
  <2> QED
    BY <2>2, <2>3
<1> QED
  BY <1>2, <1>3, <1>4

(* A run of the script that shows no error after "Enabling Accelerators"   *)
(* leaves the devices its arguments ask for as asked for, whatever ran     *)
(* before it and whatever failed in the disable loop.                      *)
THEOREM QuietRun == Spec => []QuietMeansConfigured
<1>1. IInv => QuietMeansConfigured
  <2> SUFFICES ASSUME IInv, Quiet
               PROVE  Requested \subseteq Device /\ \A d \in Requested : Configured(d)
    BY DEF QuietMeansConfigured
  <2>1. ASSUME NEW d \in Chosen
        PROVE  d \in Device /\ Configured(d)
    <3>1. d < i /\ d \in Int
      BY DEF IInv, TypeOK, LoopInv, Quiet, Chosen
    <3>2. /\ d \in enabled /\ EnginesIn(d, engine_number)
          /\ ModesSet(d, max_wqs) /\ QueuesOn(d, engine_number)
      BY <3>1 DEF IInv, BehindInv, Quiet, Entered
    <3>3. 0 .. engine_number - 1 \subseteq grouped[d]
      BY <3>2 DEF EnginesIn, IInv, TypeOK
    <3>4. \A q \in Wq : wq[d][q] = mode
      BY <3>2, DeviceFacts DEF ModesSet, Wq
    <3>5. {q \in Wq : <<d, q>> \in on} = 0 .. engine_number - 1
      BY <3>2, DeviceFacts DEF QueuesOn, Wq, IInv, TypeOK
    <3> QED
      BY <3>2, <3>3, <3>4, <3>5 DEF Configured, IInv, TypeOK
  <2>2. Requested = Chosen
    BY <2>1, LoopIsRequested DEF Quiet, Entered
  <2> QED
    BY <2>1, <2>2
<1> QED
  BY <1>1, Invariance, PTL

(* A device of an earlier run that this run's arguments do not ask for is  *)
(* off, unless the run's own disable-device command failed.                *)
THEOREM OthersOff == Spec => []OthersAreOff
<1>1. IInv => OthersAreOff
  <2> SUFFICES ASSUME IInv, pc = "done"
               PROVE  enabled \subseteq Requested \union stuck
    BY DEF OthersAreOff
  <2>1. CASE runs = 0
    BY <2>1 DEF IInv, BoundInv
  <2>2. CASE runs # 0
    <3>1. Entered
      BY <2>2, DeviceFacts DEF Entered, IInv, TypeOK
    <3>2. enabled \subseteq Device /\ enabled \subseteq Chosen \union stuck
      BY DEF IInv, TypeOK, ExtraInv
    <3> QED
      BY <3>1, <3>2, LoopIsRequested
  <2> QED
    BY <2>1, <2>2
<1> QED
  BY <1>1, Invariance, PTL
===============================================================================
