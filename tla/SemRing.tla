------------------------------ MODULE SemRing ------------------------------
(***************************************************************************)
(* The semaphore rings of OS/lab14.c (two threads), OS/lab14,2.c (three    *)
(* threads) and OS/lab16.c (two processes): party s waits on semaphore s,  *)
(* prints a line and posts semaphore s + 1 of the ring.  The last          *)
(* semaphore starts at one, so its party begins.  One party destroys       *)
(* semaphores 0 and 1 when it is through (threadFunction of lab14.c:61,    *)
(* threadFunction2 of lab14,2.c:68); on Linux sem_destroy leaves the       *)
(* semaphore as it is, and the model only notes who uses it afterwards.    *)
(* The main thread, which prints too, creates the others first and gives   *)
(* up when that fails; lab16.c forks instead.                              *)
(***************************************************************************)
EXTENDS Integers

CONSTANTS
    N,          \* SEMAPHORE_COUNT, two or more
    Main,       \* the step of the main thread, below N
    Destroyer,  \* the step of the party that destroys the semaphores, or N
    Lines       \* NUMBER_OF_LINES

VARIABLES
    sem,        \* the value of each semaphore
    destroyed,  \* the semaphores destroyed so far
    pc,         \* "new", "wait", "print", "post", "end" of each party
    printed,    \* lines printed by each party
    misused     \* history: who waited on or posted a destroyed semaphore

vars == <<sem, destroyed, pc, printed, misused>>

Parties == 0 .. N - 1
Up(s) == (s + 1) % N

\* semInit
FirstValue(s) == IF s = N - 1 THEN 1 ELSE 0

Init ==
    /\ sem = [s \in Parties |-> FirstValue(s)]
    /\ destroyed = {}
    /\ pc = [s \in Parties |-> "new"]
    /\ printed = [s \in Parties |-> 0]
    /\ misused = {}

\* The program is over: a creation failed and main returned.
Exited == \E s \in Parties : pc[s] = "exit"

\* The next thread main creates, or main itself when all others are there.
IsNext(s) ==
    \A t \in Parties \ {s, Main} : (t < s \/ s = Main) => pc[t] # "new"

\* A created thread starts its loop; main does so last.
Creates(s) ==
    /\ pc[s] = "new" /\ ~Exited
    /\ IsNext(s)
    /\ pc' = [pc EXCEPT ![s] = IF Lines = 0 THEN "end" ELSE "wait"]
    /\ UNCHANGED <<sem, destroyed, printed, misused>>

\* pthread_create fails: main destroys the semaphores and returns, which ends
\* the threads it has created; none of those can have had its turn.
CreateFails ==
    /\ pc[Main] = "new" /\ ~Exited
    /\ \E t \in Parties \ {Main} : pc[t] = "new"
    /\ destroyed' = IF Destroyer < N THEN {0, 1} ELSE {}
    /\ pc' = [s \in Parties |-> "exit"]
    /\ UNCHANGED <<sem, printed, misused>>

Uses(s, p) == misused' = IF s \in destroyed THEN misused \union {p} ELSE misused

Raised(s) == sem[s] > 0

\* sem_wait
Waits(s) ==
    /\ pc[s] = "wait" /\ Raised(s)
    /\ sem' = [sem EXCEPT ![s] = @ - 1]
    /\ pc' = [pc EXCEPT ![s] = "print"]
    /\ Uses(s, s)
    /\ UNCHANGED <<destroyed, printed>>

Prints(s) ==
    /\ pc[s] = "print"
    /\ printed' = [printed EXCEPT ![s] = @ + 1]
    /\ pc' = [pc EXCEPT ![s] = "post"]
    /\ UNCHANGED <<sem, destroyed, misused>>

PostsTo(s) == Up(s)

LinesOf(s) == Lines

\* sem_post and the next round of the loop
Posts(s) ==
    /\ pc[s] = "post"
    /\ sem' = [sem EXCEPT ![PostsTo(s)] = @ + 1]
    /\ pc' = [pc EXCEPT ![s] = IF printed[s] < LinesOf(s) THEN "wait" ELSE "end"]
    /\ Uses(PostsTo(s), s)
    /\ UNCHANGED <<destroyed, printed>>

\* Mutant: the semaphores are destroyed a round early.
MayDestroy_Early == Destroyer < N /\ printed[Destroyer] >= Lines - 1

MayDestroy == Destroyer < N /\ pc[Destroyer] = "end"

\* destroyParameters
Destroys ==
    /\ MayDestroy /\ destroyed = {}
    /\ destroyed' = {0, 1}
    /\ UNCHANGED <<sem, pc, printed, misused>>

Party(s) == Waits(s) \/ Prints(s) \/ Posts(s)

Next ==
    \/ \E s \in Parties : Creates(s) \/ Party(s)
    \/ CreateFails \/ Destroys

Spec == Init /\ [][Next]_vars

-----------------------------------------------------------------------------
(* Properties. *)

TypeOK ==
    /\ sem \in [Parties -> Nat]
    /\ destroyed \in {{}, {0, 1}}
    /\ pc \in [Parties -> {"new", "wait", "print", "post", "end", "exit"}]
    /\ printed \in [Parties -> Nat]
    /\ misused \subseteq Parties

\* There is one turn in the ring: a semaphore holds it, or the party that
\* waited last (printLines).
Holders == {s \in Parties : pc[s] \in {"print", "post"}}
Unclaimed == {s \in Parties : sem[s] > 0}
OneTurn ==
    ~Exited => /\ \E h \in Parties : {Holders, Unclaimed} = {{}, {h}}
               /\ \A s \in Unclaimed : sem[s] = 1

\* Lines come out in the order of the ring, beginning with the party whose
\* semaphore starts at one.
Ring == INSTANCE Turns WITH First <- N - 1
InTurn == Ring!Spec

\* lab14,2.c's Child2 destroys semaphores the others still use, but only for
\* their last wait or post: no earlier line depends on a destroyed semaphore.
MisusedLastOnly == misused # {} => \A s \in Parties : printed[s] >= Lines - 1

\* The turn is with one party h, whose semaphore is raised or who waited on it
\* and has not posted the next one.  Those before it in the round are a line
\* ahead of those behind it (printLines).
Ahead(q, h) == IF Ring!Place(q) < Ring!Place(h) THEN 1 ELSE 0
HasTurn(h) ==
    /\ sem[h] = IF pc[h] \in {"print", "post"} THEN 0 ELSE 1
    /\ \A q \in Parties \ {h} :
           /\ pc[q] \notin {"print", "post"} /\ sem[q] = 0
           /\ printed[q] + (IF pc[h] = "post" THEN 1 ELSE 0) = printed[h] + Ahead(q, h)
Passing == ~Exited => \E h \in Parties : HasTurn(h)

\* Who waits has lines left to print, and who is through has not (printLines).
Rounds ==
    \A p \in Parties :
        /\ pc[p] = "new" => printed[p] = 0
        /\ pc[p] \in {"wait", "print"} => printed[p] < Lines
        /\ pc[p] = "post" => printed[p] > 0 /\ printed[p] <= Lines
        /\ pc[p] = "end" => printed[p] = Lines

\* The threads are created in their order, main's own loop last (main).
InOrder ==
    ~Exited => \A s \in Parties \ {Main}, t \in Parties :
        pc[s] = "new" /\ (t > s \/ t = Main) => pc[t] = "new"

\* Only who is through destroys, and a program that gave up used nothing.
Destruction ==
    /\ destroyed # {} /\ ~Exited => Destroyer < N /\ pc[Destroyer] = "end"
    /\ misused # {} => destroyed # {} /\ ~Exited
    /\ Exited => \A p \in Parties : pc[p] = "exit"

\* Types, the one turn that makes the order of the lines, and a destruction
\* that no earlier line depends on.
Inv ==
    /\ TypeOK /\ OneTurn /\ MisusedLastOnly
    /\ Passing /\ Rounds /\ InOrder /\ Destruction

=============================================================================
