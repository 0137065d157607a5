--------------------------- MODULE ServiceContract ---------------------------
(***************************************************************************)
(* What the service, src/internal/server/service.go, promises to the       *)
(* daemon that owns it: operations are admitted until StopAdmission        *)
(* returns, and only an operation puts targets into the store, which none  *)
(* does after that.  Service implements it, and Daemon takes its steps     *)
(* where it calls the service.                                             *)
(***************************************************************************)
CONSTANT Operations     \* the goroutines that may be inside an operation

VARIABLES
    admitting,      \* operations are admitted
    operating,      \* the operations under way
    empty           \* the store has no target (Service.Empty)

vars == <<admitting, operating, empty>>

Init ==
    /\ admitting = TRUE
    /\ operating = {}
    /\ empty = TRUE

\* beginOperation
Admit(o) ==
    /\ admitting
    /\ operating' = operating \cup {o}
    /\ UNCHANGED <<admitting, empty>>

\* operations.Done
Finish(o) ==
    /\ operating' = operating \ {o}
    /\ UNCHANGED <<admitting, empty>>

\* StopAdmission
Stop ==
    /\ admitting' = FALSE
    /\ UNCHANGED <<operating, empty>>

\* An operation's start succeeds.
Populate ==
    /\ admitting
    /\ operating # {}
    /\ empty' = FALSE
    /\ UNCHANGED <<admitting, operating>>

\* The last target goes: a kill, CloseAll, the sweep, or its shell exited.
Vacate ==
    /\ empty' = TRUE
    /\ UNCHANGED <<admitting, operating>>

Next == (\E o \in Operations : Admit(o) \/ Finish(o)) \/ Stop \/ Populate \/ Vacate

Spec == Init /\ [][Next]_vars

=============================================================================
