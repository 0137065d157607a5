---------------------------- MODULE ShellOutput ----------------------------
(***************************************************************************)
(* The three readers of a shell's output: the transcript, which observe    *)
(* writes to before the output is broadcast, the collector of a run, and   *)
(* the stream of a follower.  None of them sees the others, so a behaviour *)
(* is that of one of them, and the other two rest.                         *)
(***************************************************************************)
EXTENDS RunCollector, OutputStream, Transcript

VARIABLE reader

vars == <<reader, collectorVars, streamVars, transcriptVars>>

\* All inputs for the reader whose behaviour this is, and any one for the others.
For(r, inputs) == IF reader = r THEN inputs ELSE {CHOOSE i \in inputs : TRUE}

Init ==
    /\ reader \in {"run", "follower", "transcript"}
    /\ CollectorInit(For("run", Shells))
    /\ StreamInit(For("follower", Prints))
    /\ TranscriptInit

Run ==
    reader = "run" /\ CollectorNext /\ UNCHANGED <<reader, streamVars, transcriptVars>>
Follow ==
    reader = "follower" /\ StreamNext /\ UNCHANGED <<reader, collectorVars, transcriptVars>>
Observe ==
    reader = "transcript" /\ TranscriptNext /\ UNCHANGED <<reader, collectorVars, streamVars>>

Next == Run \/ Follow \/ Observe

Spec == Init /\ [][Next]_vars
=============================================================================
