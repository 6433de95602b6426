---------------------------- MODULE PowerPromise ----------------------------
(***************************************************************************)
(* What the power component promises to those who use the NPU: a client    *)
(* that was let in has power until it leaves.  Power may be on without a   *)
(* client, and a client may be refused, which is no step here.  The        *)
(* promise is kept until a caller breaks the protocol; then it is off.     *)
(***************************************************************************)
CONSTANT Clients

VARIABLES
    users,               \* the clients that were let in
    powered,             \* the NPU has power
    kept                 \* no caller has broken the protocol

vars == <<users, powered, kept>>

Init == users = {} /\ powered = FALSE /\ kept = TRUE

Enter(c) == users' = users \cup {c} /\ powered' = TRUE /\ UNCHANGED kept

Leave(c) ==
    /\ c \in users
    /\ users' = users \ {c}
    /\ powered' \in BOOLEAN
    /\ users' # {} => powered'
    /\ UNCHANGED kept

\* The delayed power-off, probe's own use, a failed attempt.
Switch == users = {} /\ powered' = ~powered /\ UNCHANGED <<users, kept>>

\* The driver is unbound: no client is left.
Remove == users' = {} /\ powered' = FALSE /\ UNCHANGED kept

Breach == kept' = FALSE /\ users' \subseteq Clients /\ powered' \in BOOLEAN

Next ==
    \/ kept /\ \E c \in Clients : Enter(c) \/ Leave(c)
    \/ kept /\ (Switch \/ Remove)
    \/ Breach

Spec == Init /\ [][Next]_vars
=============================================================================
