----------------------------- MODULE NonceOrder -----------------------------
(***************************************************************************)
(* What the node promises for the signed calls of an account: it runs them *)
(* one by one, each under a higher number than any it has run before, so   *)
(* no signed call takes effect twice.  A restart of the node forgets all   *)
(* accounts at once.                                                       *)
(***************************************************************************)
EXTENDS Integers

CONSTANT Account

VARIABLES
    last,   \* last[a]: number of the last call of a that was run, or -1
    runs    \* runs[a]: how many calls of a were run

vars == <<last, runs>>

Init ==
    /\ last = [a \in Account |-> -1]
    /\ runs = [a \in Account |-> 0]

Run(a) ==
    /\ last'[a] > last[a]
    /\ last' = [last EXCEPT ![a] = last'[a]]
    /\ runs' = [runs EXCEPT ![a] = @ + 1]

Restart ==
    /\ last' = [a \in Account |-> -1]
    /\ runs' = [a \in Account |-> 0]

Next == Restart \/ \E a \in Account : Run(a)

Spec == Init /\ [][Next]_vars
=============================================================================
