----------------------------- MODULE OrderBook -----------------------------
(***************************************************************************)
(* What the storage payments (FsMgr) promise about the orders of a payer   *)
(* at a provider: they are numbered as they are added, and end one after   *)
(* the other, each once, never before it was added or before its time.     *)
(* RoleMgr takes the orders of a group in this form.                       *)
(***************************************************************************)
EXTENDS Naturals, Sequences

CONSTANTS
    Payer, Provider,
    Terms       \* Terms[f][p][n + 1]: terms of order n of f at p

VARIABLES
    now,        \* clock
    added,      \* added[f][p]: number of orders added
    ended       \* ended[f][p]: number of orders ended

Init ==
    /\ now = 0
    /\ added = [f \in Payer |-> [p \in Provider |-> 0]]
    /\ ended = [f \in Payer |-> [p \in Provider |-> 0]]

Pass ==
    /\ now' > now
    /\ UNCHANGED <<added, ended>>

AddNext(f, p) ==
    /\ added[f][p] < Len(Terms[f][p])
    /\ added' = [added EXCEPT ![f][p] = @ + 1]
    /\ UNCHANGED <<now, ended>>

EndNext(f, p) ==
    /\ ended[f][p] < added[f][p]
    /\ Terms[f][p][ended[f][p] + 1].end <= now
    /\ ended' = [ended EXCEPT ![f][p] = @ + 1]
    /\ UNCHANGED <<now, added>>

Next ==
    \/ Pass
    \/ \E f \in Payer, p \in Provider : AddNext(f, p) \/ EndNext(f, p)

Spec == Init /\ [][Next]_<<now, added, ended>>
=============================================================================
