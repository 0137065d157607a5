-------------------------- MODULE TargetLifecycle --------------------------
(***************************************************************************)
(* What the store promises about the shells behind the targets, without    *)
(* locks, goroutines or maps: a shell is started for a target that has     *)
(* none, then serves it or is abandoned; a shell that serves leaves once,  *)
(* and a shell that left is disposed of.  No shell is ever lost.           *)
(***************************************************************************)
EXTENDS Naturals

CONSTANTS Targets, Attempts, None

VARIABLES
    current,    \* the attempt that starts or serves each target, or None
    stage       \* how far each attempt has got

lifecycleVars == <<current, stage>>

Stages == {"unborn", "starting", "serving", "leaving", "over"}

LifecycleInit ==
    /\ current = [t \in Targets |-> None]
    /\ stage = [a \in Attempts |-> "unborn"]

Begin(t, a) ==
    /\ current[t] = None
    /\ stage[a] = "unborn"
    /\ current' = [current EXCEPT ![t] = a]
    /\ stage' = [stage EXCEPT ![a] = "starting"]

Serve(t, a) ==
    /\ current[t] = a
    /\ stage[a] = "starting"
    /\ stage' = [stage EXCEPT ![a] = "serving"]
    /\ UNCHANGED current

\* The start failed, or was canceled and its shell closed.
Abandon(t, a) ==
    /\ current[t] = a
    /\ stage[a] = "starting"
    /\ current' = [current EXCEPT ![t] = None]
    /\ stage' = [stage EXCEPT ![a] = "over"]

\* Some serving shells are taken out of service together.
Leave(T) ==
    /\ \A t \in T : current[t] # None /\ stage[current[t]] = "serving"
    /\ current' = [t \in Targets |-> IF t \in T THEN None ELSE current[t]]
    /\ stage' = [a \in Attempts |->
                    IF \E t \in T : current[t] = a THEN "leaving" ELSE stage[a]]

Finish(a) ==
    /\ stage[a] = "leaving"
    /\ stage' = [stage EXCEPT ![a] = "over"]
    /\ UNCHANGED current

LifecycleNext ==
    \/ \E t \in Targets, a \in Attempts :
          Begin(t, a) \/ Serve(t, a) \/ Abandon(t, a)
    \/ \E T \in SUBSET Targets : Leave(T)
    \/ \E a \in Attempts : Finish(a)

LifecycleFairness ==
    /\ \A a \in Attempts : WF_lifecycleVars(Finish(a))
    /\ \A t \in Targets, a \in Attempts :
          WF_lifecycleVars(Serve(t, a) \/ Abandon(t, a))

LifecycleSafety == LifecycleInit /\ [][LifecycleNext]_lifecycleVars

LifecycleSpec == LifecycleSafety /\ LifecycleFairness

=============================================================================
