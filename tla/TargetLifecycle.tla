--------------------------- MODULE TargetLifecycle --------------------------
(***************************************************************************)
(* What the output manager promises about each target, whatever OBS, the   *)
(* network and the timers do: a target has at most one output, and once    *)
(* that output is closing the target is neither running nor started again  *)
(* before the output has been released.                                    *)
(***************************************************************************)
CONSTANT Ids

VARIABLE phase

Phases == {"absent", "idle", "running", "closing"}

Init == phase \in [Ids -> {"absent", "idle"}]

Appear(t) == phase[t] = "absent" /\ phase' = [phase EXCEPT ![t] = "idle"]
Start(t)  == phase[t] = "idle" /\ phase' = [phase EXCEPT ![t] = "running"]
Close(t)  == phase[t] = "running" /\ phase' = [phase EXCEPT ![t] = "closing"]
Finish(t) == phase[t] \in {"running", "closing"} /\ phase' = [phase EXCEPT ![t] = "idle"]
Leave(t)  == phase[t] \in {"idle", "closing"} /\ phase' = [phase EXCEPT ![t] = "absent"]

\* A profile or scene collection change, or the unload, ends any outputs at once.
Reset == \E ended \in SUBSET Ids :
           \E after \in [ended -> {"absent", "idle"}] :
             phase' = [t \in Ids |-> IF t \in ended THEN after[t] ELSE phase[t]]

Next == \/ \E t \in Ids : Appear(t) \/ Start(t) \/ Close(t) \/ Finish(t) \/ Leave(t)
        \/ Reset

Spec == Init /\ [][Next]_phase

=============================================================================
