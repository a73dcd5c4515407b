---------------------------- MODULE RunLifecycle ----------------------------
(***************************************************************************)
(* What the exbash tool promises about a run, seen from outside: a run is  *)
(* started once under an id of its own, its process is left alone, killed  *)
(* or ends by itself, and the run is forgotten only after one of the last  *)
(* two.  A forgotten run never comes back.  ExbashRun implements this.     *)
(***************************************************************************)
CONSTANT Runs

VARIABLE phase   \* Runs -> Phases

Phases == {"unborn", "running", "doomed", "exited", "forgotten"}

Init == phase = [r \in Runs |-> "unborn"]

Start(r) == /\ phase[r] = "unborn"
            /\ phase' = [phase EXCEPT ![r] = "running"]

\* A kill reached the live process.
Kill(r) == /\ phase[r] = "running"
           /\ phase' = [phase EXCEPT ![r] = "doomed"]

Exit(r) == /\ phase[r] \in {"running", "doomed"}
           /\ phase' = [phase EXCEPT ![r] = "exited"]

Forget(r) == /\ phase[r] \in {"doomed", "exited"}
             /\ phase' = [phase EXCEPT ![r] = "forgotten"]

Next == \E r \in Runs : Start(r) \/ Kill(r) \/ Exit(r) \/ Forget(r)

Spec == Init /\ [][Next]_phase

\* A killed process does not outlive its signal for ever.
FairSpec == /\ Spec
            /\ \A r \in Runs : WF_phase(phase[r] = "doomed" /\ Exit(r))
=============================================================================
