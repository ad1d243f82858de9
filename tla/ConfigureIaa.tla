----------------------------- MODULE ConfigureIaa -----------------------------
(***************************************************************************)
(* configure_iaa_user.sh: runs of the script, one after the other, with    *)
(* any arguments.  Each run disables all devices and then configures and   *)
(* enables the ones its argument selects, one accel-config command at a    *)
(* time.  No command is checked: one that fails prints an error, and the   *)
(* script goes on.                                                         *)
(*                                                                         *)
(* accel-config and the driver are external: a device or queue that is in  *)
(* use cannot be configured, one that is not configured cannot be enabled, *)
(* and disabling a device turns its queues off and may or may not clear    *)
(* its configuration.  Sizes, priorities and names of queues and the page  *)
(* request service of the devices are left out.                            *)
(***************************************************************************)
EXTENDS Integers, Sequences, FiniteSets

CONSTANTS
  num_iax,       \* IAA instances in the system: iax1, iax3, iax5, ...
  max_engines,   \* engines of a device
  max_wqs,       \* work queues of a device
  Selections,    \* second arguments tried: <<n>> or <<first, last>>
  Engines,       \* fourth arguments tried
  Runs,          \* bound: runs of the script
  MaxFaults      \* bound: commands that fail for a reason of their own

ASSUME ConfigureAssumption ==
  /\ num_iax \in Nat /\ max_engines \in Nat /\ max_wqs \in Nat \ {0}
  /\ Selections \subseteq (Seq(Nat) \ {<<>>})
  /\ Engines \subseteq Nat
  /\ Runs \in Nat /\ MaxFaults \in Nat

VARIABLES
  pc,            \* the loop of the script, or "done" between runs
  runs,          \* runs begun
  device_num, mode, engine_number,   \* the arguments
  start, end,    \* the devices of the enable loop
  i, j,          \* loop variables
  errors,        \* "shown" if a command has failed after "Enabling Accelerators"
  faults,        \* commands that failed for a reason of their own
  enabled,       \* devices that are enabled
  grouped,       \* engines of each device that are in a group
  wq,            \* mode each queue of each device is configured with, or "none"
  on,            \* <<device, queue>> that are enabled
  stuck          \* history: devices this run failed to disable

args == <<device_num, mode, engine_number>>
system == <<enabled, grouped, wq, on>>
vars == <<pc, runs, args, start, end, i, j, errors, faults, system, stuck>>

first == 1
step == 2

Device == {d \in first .. step * num_iax : d % step = 1}
Engine == 0 .. max_engines - 1
Wq == 0 .. max_wqs - 1

\* The test of `device_num == num_iax' and the two bounds it leads to.
All == device_num = <<num_iax>>
Start == IF All THEN first ELSE device_num[1]
Last == IF Len(device_num) > 1 THEN device_num[2] ELSE device_num[1]
EndBug == IF All THEN step * num_iax ELSE Last
End == IF All THEN step * num_iax ELSE Last + 1

Init ==
  /\ pc = "done" /\ runs = 0
  /\ device_num = <<num_iax>> /\ mode = "shared" /\ engine_number = 0
  /\ start = first /\ end = first /\ i = first /\ j = 0
  /\ errors = "none" /\ faults = 0
  /\ enabled = {} /\ on = {} /\ stuck = {}
  /\ grouped = [d \in Device |-> {}]
  /\ wq = [d \in Device |-> [q \in Wq |-> "none"]]

Begin ==
  /\ pc = "done"
  /\ runs < Runs
  /\ runs' = runs + 1
  /\ device_num' \in Selections /\ mode' \in {"shared", "dedicated"}
  /\ engine_number' \in Engines
  /\ pc' = "disable" /\ i' = first /\ j' = 0
  /\ errors' = "none" /\ stuck' = {}
  /\ UNCHANGED <<start, end, faults, system>>

\* What a command can come to: done, refused, or failed of its own.
Attempt(possible, result) ==
  \/ result = "done" /\ possible /\ UNCHANGED faults
  \/ result = "failed" /\ ~possible /\ UNCHANGED faults
  \/ result = "failed" /\ possible /\ faults < MaxFaults /\ faults' = faults + 1

\* A command that fails after the line "Enabling Accelerators" is seen.
Seen(result) == errors' = IF result = "failed" THEN "shown" ELSE errors

\* The conditions of the loops over queues and over devices.
MoreWqs == j < max_wqs
MoreQueues == j < engine_number
MoreToDisableBug == i < num_iax
MoreToDisable == i < step * num_iax

-------------------------------------------------------------------------------
(* The disable loop: its errors are expected.                              *)

DisableWq ==
  /\ pc = "disable" /\ MoreToDisable /\ MoreWqs
  /\ \E result \in {"done", "failed"} :
       /\ Attempt(<<i, j>> \in on, result)
       /\ on' = IF result = "done" THEN on \ {<<i, j>>} ELSE on
  /\ j' = j + 1
  /\ UNCHANGED <<pc, runs, args, start, end, i, errors, enabled, grouped, wq, stuck>>

DisableDevice ==
  /\ pc = "disable" /\ MoreToDisable /\ ~MoreWqs
  /\ \E result \in {"done", "failed"} :
       /\ Attempt(i \in enabled, result)
       /\ IF result = "done"
            THEN /\ enabled' = enabled \ {i}
                 /\ on' = {q \in on : q[1] # i}
                 /\ \/ UNCHANGED <<grouped, wq>>
                    \/ /\ grouped' = [grouped EXCEPT ![i] = {}]
                       /\ wq' = [wq EXCEPT ![i] = [q \in Wq |-> "none"]]
            ELSE UNCHANGED <<enabled, on, grouped, wq>>
       /\ stuck' = IF result = "failed" /\ i \in enabled THEN stuck \union {i} ELSE stuck
  /\ i' = i + step /\ j' = 0
  /\ UNCHANGED <<pc, runs, args, start, end, errors>>

-------------------------------------------------------------------------------
(* The line "Enabling Accelerators" is printed; errors count from here.    *)

\* setpci on the devices that `lspci -vvv | grep 0cfe' prints: any of them, or
\* none, without an error.  What it sets is left out; one failure stands for
\* any number of them.
EnablePrs ==
  /\ pc = "disable" /\ ~MoreToDisable
  /\ \E result \in {"done", "failed"} : Attempt(TRUE, result) /\ Seen(result)
  /\ start' = Start /\ end' = End
  /\ i' = Start /\ j' = 0
  /\ pc' = "engine"
  /\ UNCHANGED <<runs, args, enabled, grouped, wq, on, stuck>>

ConfigEngine ==
  /\ pc = "engine" /\ i < end /\ j < engine_number
  /\ \E result \in {"done", "failed"} :
       /\ Attempt(i \in Device /\ i \notin enabled /\ j \in Engine, result)
       /\ Seen(result)
       /\ grouped' = IF result = "done" THEN [grouped EXCEPT ![i] = @ \union {j}] ELSE grouped
  /\ j' = j + 1
  /\ UNCHANGED <<pc, runs, args, start, end, i, enabled, wq, on, stuck>>

EnginesDone ==
  /\ pc = "engine" /\ i < end /\ j >= engine_number
  /\ pc' = "wq" /\ j' = 0
  /\ UNCHANGED <<runs, args, start, end, i, errors, faults, system, stuck>>

ConfigWq ==
  /\ pc = "wq" /\ MoreWqs
  /\ \E result \in {"done", "failed"} :
       /\ Attempt(i \in Device /\ i \notin enabled, result)
       /\ Seen(result)
       /\ wq' = IF result = "done" THEN [wq EXCEPT ![i][j] = mode] ELSE wq
  /\ j' = j + 1
  /\ UNCHANGED <<pc, runs, args, start, end, i, enabled, grouped, on, stuck>>

\* A device can be enabled if some engine can serve some queue.
Usable(d) == grouped[d] # {} /\ \E q \in Wq : wq[d][q] # "none"

EnableDevice ==
  /\ pc = "wq" /\ ~MoreWqs
  /\ \E result \in {"done", "failed"} :
       /\ Attempt(i \in Device /\ i \notin enabled /\ Usable(i), result)
       /\ Seen(result)
       /\ enabled' = IF result = "done" THEN enabled \union {i} ELSE enabled
  /\ pc' = "queue" /\ j' = 0
  /\ UNCHANGED <<runs, args, start, end, i, grouped, wq, on, stuck>>

\* One queue is enabled for each engine.
EnableWq ==
  /\ pc = "queue" /\ MoreQueues
  /\ \E result \in {"done", "failed"} :
       /\ Attempt(i \in enabled /\ j \in Wq /\ <<i, j>> \notin on /\ wq[i][j] # "none", result)
       /\ Seen(result)
       /\ on' = IF result = "done" THEN on \union {<<i, j>>} ELSE on
  /\ j' = j + 1
  /\ UNCHANGED <<pc, runs, args, start, end, i, enabled, grouped, wq, stuck>>

NextDevice ==
  /\ pc = "queue" /\ ~MoreQueues
  /\ i' = i + step /\ j' = 0
  /\ pc' = "engine"
  /\ UNCHANGED <<runs, args, start, end, errors, faults, system, stuck>>

Finish ==
  /\ pc = "engine" /\ i >= end
  /\ pc' = "done"
  /\ UNCHANGED <<runs, args, start, end, i, j, errors, faults, system, stuck>>

Next ==
  \/ Begin \/ DisableWq \/ DisableDevice \/ EnablePrs
  \/ ConfigEngine \/ EnginesDone \/ ConfigWq \/ EnableDevice \/ EnableWq
  \/ NextDevice \/ Finish

Spec == Init /\ [][Next]_vars

-------------------------------------------------------------------------------
(* Properties *)

TypeOK ==
  /\ pc \in {"disable", "engine", "wq", "queue", "done"}
  /\ runs \in 0 .. Runs
  /\ device_num \in Seq(Nat) \ {<<>>} /\ mode \in {"shared", "dedicated"}
  /\ engine_number \in Nat
  /\ start \in Nat /\ end \in Nat /\ i \in Nat
  /\ j \in Nat /\ (j <= max_wqs \/ j <= engine_number)
  /\ errors \in {"none", "shown"}
  /\ faults \in 0 .. MaxFaults
  /\ enabled \subseteq Device /\ stuck \subseteq Device
  /\ grouped \in [Device -> SUBSET Engine]
  /\ wq \in [Device -> [Wq -> {"none", "shared", "dedicated"}]]
  /\ on \subseteq enabled \X Wq

\* The devices the arguments ask for, as documented: "device number OR start and
\* end device number" (configure_iaa_user.sh:6), devices having the odd numbers,
\* or the number of all devices (README.md:17).
Requested ==
  IF device_num = <<num_iax>> THEN Device
  ELSE IF Len(device_num) = 1 THEN {device_num[1]}
  ELSE {d \in device_num[1] .. device_num[2] : d % step = 1}

Configured(d) ==
  /\ d \in enabled
  /\ 0 .. engine_number - 1 \subseteq grouped[d]
  /\ \A q \in Wq : wq[d][q] = mode
  /\ {q \in Wq : <<d, q>> \in on} = 0 .. engine_number - 1

Quiet == pc = "done" /\ runs > 0 /\ errors = "none"

(* "make sure the script does NOT show errors after the line 'Enabling     *)
(* Accelerators'" (README.md:16) is enough: after a run that shows none,   *)
(* every device the arguments ask for exists and is enabled with the mode, *)
(* engines and queues asked for, and no queue of an earlier run is left on *)
(* it, whatever earlier runs and unseen errors of the disable loop left.   *)
QuietMeansConfigured ==
  Quiet => Requested \subseteq Device /\ \A d \in Requested : Configured(d)

(* After any run, with or without errors, a device that was not asked for  *)
(* is on only if this run has failed to disable it.                        *)
OthersAreOff == pc = "done" => enabled \subseteq Requested \union stuck
===============================================================================
