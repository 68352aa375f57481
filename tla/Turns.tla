------------------------------- MODULE Turns -------------------------------
(***************************************************************************)
(* What the printing exercises of OS/ promise (lab11.c, lab13.c, lab14.c,  *)
(* lab14,2.c, lab16.c): Parties take turns in a ring, First begins, and    *)
(* each of them prints Lines lines.  How a turn is passed on (a chain of   *)
(* mutexes, a condition variable, a ring of semaphores) is left to the     *)
(* modules that implement this one.                                        *)
(***************************************************************************)
EXTENDS Integers

CONSTANTS
    N,       \* how many parties print, 0 .. N - 1 in the order of the ring
    First,   \* the party that begins
    Lines    \* how many lines each of them prints

VARIABLES
    printed  \* how many lines each party has printed

Parties == 0 .. N - 1

\* Where party p stands in a round.
Place(p) == (p + N - First) % N

Init == printed = [p \in Parties |-> 0]

\* It is p's turn when all before it in the round are a line ahead of it and
\* all behind it are level with it.
Turn(p) ==
    \A q \in Parties :
        printed[q] = printed[p] + (IF Place(q) < Place(p) THEN 1 ELSE 0)

PrintLine(p) ==
    /\ printed[p] < Lines
    /\ Turn(p)
    /\ printed' = [printed EXCEPT ![p] = @ + 1]

Next == \E p \in Parties : PrintLine(p)

Spec == Init /\ [][Next]_printed

=============================================================================
