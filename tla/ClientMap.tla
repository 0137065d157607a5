------------------------------ MODULE ClientMap ------------------------------
(***************************************************************************)
(* What the client registry, src/internal/remote/registry.go, promises to  *)
(* the servers that use it: one map of clients, in which a mutation changes*)
(* one client at one moment, whatever crashes; and which may be set back   *)
(* only by a power failure, and never behind what was promised.            *)
(* Registry implements it.                                                 *)
(***************************************************************************)
EXTENDS Naturals

CONSTANTS
    Names,      \* client names
    None        \* no record

VARIABLES
    view,       \* the clients that requests are authenticated against
    stable,     \* those that a power failure may bring back
    newest,     \* the newest token that was drawn for a mutation that is over
    promised    \* the records that were reported to a caller with a nil error

vars == <<view, stable, newest, promised>>

Init ==
    /\ view = [n \in Names |-> None]
    /\ stable = view
    /\ newest = 0
    /\ promised = {}

\* A registration with a new password, its tokens drawn at time t.
New(owner, status, t) ==
    [owner |-> owner, digest |-> t, generation |-> 1, status |-> status, updatedAt |-> t]

\* The life of a client's record: what may follow record c at time t.
Successors(c, t) ==
    IF c = None \/ c.status = "revoked"
      THEN {New(t, "pending", t), New(t, "active", t)}
    ELSE IF c.status = "pending"
      THEN {New(c.owner, "pending", t), [c EXCEPT !.status = "active", !.updatedAt = t]}
    ELSE {[c EXCEPT !.digest = t, !.generation = @ + 1, !.updatedAt = t],
          [c EXCEPT !.status = "revoked", !.updatedAt = t]}

\* A mutation takes effect: for one client, and with tokens newer than all.  It
\* may be made stable by then, and only then is it promised.
Change(n) ==
    /\ newest' = newest + 1
    /\ \E c \in Successors(view[n], newest + 1) :
          /\ view' = [view EXCEPT ![n] = c]
          /\ \/ UNCHANGED <<stable, promised>>
             \/ /\ stable' = view'
                /\ promised' \in {promised, promised \cup {[name |-> n, record |-> c]}}

\* Mutations fail without effect, and those that had effect become stable.
Settle ==
    /\ newest' \in {newest, newest + 1}
    /\ stable' \in {stable, view}
    /\ UNCHANGED <<view, promised>>

\* The power fails: changes that were not promised may be lost.
Lose ==
    /\ newest' \in {newest, newest + 1}
    /\ view' = stable
    /\ UNCHANGED <<stable, promised>>

Next == (\E n \in Names : Change(n)) \/ Settle \/ Lose

Spec == Init /\ [][Next]_vars

=============================================================================
