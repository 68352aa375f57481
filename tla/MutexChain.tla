---------------------------- MODULE MutexChain ----------------------------
(***************************************************************************)
(* OS/lab11.c: two threads pass a chain of Mutexes error-checking mutexes, *)
(* each taking the next one before it gives up the one it has, and print a *)
(* line whenever they stand on mutex 0.  The main thread begins on mutex   *)
(* 0; it polls the last mutex with trylock until the child has it, so that *)
(* the child is behind it in the chain.  When it has printed its lines it  *)
(* destroys the mutexes, which the child may still be walking.             *)
(* On Linux destroying a mutex that is held fails and changes nothing; any *)
(* use of a destroyed one returns an error, which the code prints before   *)
(* it goes on.                                                             *)
(***************************************************************************)
EXTENDS Integers

CONSTANTS
    Mutexes,  \* NUMBER_OF_MUTEXES, two or more
    Lines     \* NUMBER_OF_LINES

VARIABLES
    owner,      \* who holds each mutex: a thread, or None
    destroyed,  \* the mutexes destroyed so far
    pc,         \* where each thread is
    cur,        \* currentMutex of each thread
    i,          \* the loop counter of each thread
    printed,    \* lines printed by each thread
    errors      \* history: the threads that were told of an error

vars == <<owner, destroyed, pc, cur, i, printed, errors>>

Main == 0
Child == 1
Threads == {Main, Child}
None == 2
Chain == 0 .. Mutexes - 1
Last == Mutexes - 1                       \* SECOND_MUTEX
NextMutex(m) == (m + 1) % Mutexes

Steps == Mutexes * Lines

StepsOf(t) == Steps

\* Where the loop of printLines goes on.
AtTop(t, m, k) ==
    CASE k = StepsOf(t) -> IF t = Main THEN "giveup" ELSE "end"
      [] k < StepsOf(t) /\ m = 0 -> "print"
      [] OTHER -> "lock"

FirstOwner(m) == IF m = 0 THEN Main ELSE None

Init ==
    /\ owner = [m \in Chain |-> FirstOwner(m)]
    /\ destroyed = {}
    /\ pc = [t \in Threads |-> IF t = Main THEN "create" ELSE "new"]
    /\ cur = [t \in Threads |-> IF t = Main THEN 0 ELSE Last]
    /\ i = [t \in Threads |-> 0]
    /\ printed = [t \in Threads |-> 0]
    /\ errors = {}

Goto(t, l) == pc' = [pc EXCEPT ![t] = l]

\* What pthread_mutex_lock, _trylock and _unlock report to thread t.
LockFails(t, m) == m \in destroyed \/ owner[m] = t
UnlockFails(t, m) == m \in destroyed \/ owner[m] # t

\* lockMutex: it waits for another owner; an error is printed, no more.
Lock(t, m) ==
    \/ /\ LockFails(t, m)
       /\ errors' = errors \union {t}
       /\ UNCHANGED owner
    \/ /\ ~LockFails(t, m) /\ owner[m] = None
       /\ owner' = [owner EXCEPT ![m] = t]
       /\ UNCHANGED errors

Unlock(t, m) ==
    /\ errors' = IF UnlockFails(t, m) THEN errors \union {t} ELSE errors
    /\ owner' = IF UnlockFails(t, m) THEN owner ELSE [owner EXCEPT ![m] = None]

-----------------------------------------------------------------------------
(* main *)

AfterCreate == "try"

Create ==
    /\ pc[Main] = "create"
    /\ pc' = [pc EXCEPT ![Main] = AfterCreate, ![Child] = "first"]
    /\ UNCHANGED <<owner, destroyed, cur, i, printed, errors>>

\* pthread_create fails: main gives up, and destroys the mutexes as it leaves.
CreateFails ==
    /\ pc[Main] = "create"
    /\ Goto(Main, "giveup")
    /\ UNCHANGED <<owner, destroyed, cur, i, printed, errors>>

\* Mutant: main polls the mutex after its own.
Polled_Next == 1

Polled == Last

\* The polling loop: it ends when the child holds the last mutex.
Try ==
    /\ pc[Main] = "try"
    /\ IF owner[Polled] = None
         THEN /\ owner' = [owner EXCEPT ![Polled] = Main]
              /\ Goto(Main, "untry")
         ELSE /\ Goto(Main, AtTop(Main, 0, 0))
              /\ UNCHANGED owner
    /\ UNCHANGED <<destroyed, cur, i, printed, errors>>

Untry ==
    /\ pc[Main] = "untry"
    /\ Unlock(Main, Polled)
    /\ Goto(Main, "try")
    /\ UNCHANGED <<destroyed, cur, i, printed>>

Leave ==
    /\ pc[Main] = "giveup"
    /\ Unlock(Main, cur[Main])
    /\ Goto(Main, "destroy")
    /\ i' = [i EXCEPT ![Main] = 0]
    /\ UNCHANGED <<destroyed, cur, printed>>

\* destroyParameters: i is its loop counter now.
Destroy ==
    /\ pc[Main] = "destroy"
    /\ destroyed' = IF owner[i[Main]] = None THEN destroyed \union {i[Main]} ELSE destroyed
    /\ i' = [i EXCEPT ![Main] = @ + 1]
    /\ Goto(Main, IF i[Main] = Last THEN "end" ELSE "destroy")
    /\ UNCHANGED <<owner, cur, printed, errors>>

-----------------------------------------------------------------------------
(* secondPrint and printLines *)

\* The child takes the last mutex.
First ==
    /\ pc[Child] = "first"
    /\ Lock(Child, Last)
    /\ Goto(Child, AtTop(Child, Last, 0))
    /\ UNCHANGED <<destroyed, cur, i, printed>>

PrintLine(t) ==
    /\ pc[t] = "print"
    /\ printed' = [printed EXCEPT ![t] = @ + 1]
    /\ Goto(t, "lock")
    /\ UNCHANGED <<owner, destroyed, cur, i, errors>>

LockNext(t) ==
    /\ pc[t] = "lock"
    /\ Lock(t, NextMutex(cur[t]))
    /\ Goto(t, "unlock")
    /\ UNCHANGED <<destroyed, cur, i, printed>>

UnlockCurrent(t) ==
    /\ pc[t] = "unlock"
    /\ Unlock(t, cur[t])
    /\ cur' = [cur EXCEPT ![t] = NextMutex(@)]
    /\ i' = [i EXCEPT ![t] = @ + 1]
    /\ Goto(t, AtTop(t, NextMutex(cur[t]), i[t] + 1))
    /\ UNCHANGED <<destroyed, printed>>

Loop(t) == PrintLine(t) \/ LockNext(t) \/ UnlockCurrent(t)

MainStep == Create \/ Try \/ Untry \/ Leave \/ Destroy

Next == MainStep \/ CreateFails \/ First \/ \E t \in Threads : Loop(t)

Spec == Init /\ [][Next]_vars

-----------------------------------------------------------------------------
(* Properties. *)

\* The variables have their types.
TypeOK ==
    /\ owner \in [Chain -> Threads \union {None}]
    /\ destroyed \subseteq Chain
    /\ pc \in [Threads -> {"create", "new", "try", "untry", "first", "print", "lock",
                           "unlock", "giveup", "destroy", "end"}]
    /\ cur \in [Threads -> Chain]
    /\ i \in [Threads -> 0 .. Steps]
    /\ printed \in [Threads -> 0 .. Lines]
    /\ errors \subseteq Threads

\* The lines come out in turns, the parent's first (printLines, main).
Alternation == INSTANCE Turns WITH N <- 2, First <- Main
InTurn == Alternation!Spec

\* No call on a mutex fails before main destroys the mutexes, and none of
\* main's ever does (lockMutex, unlockMutex, pthread_mutex_trylock).
ErrorsOnlyAtTheEnd == errors # {} => destroyed # {} /\ Main \notin errors

\* Main destroys the mutexes while the child still walks them, but only on
\* the steps the child makes after its last line (main, destroyParameters).
DestroyedAfterLastLine ==
    destroyed # {} /\ pc[Child] # "new" => \A t \in Threads : printed[t] = Lines

\* Before any of them is destroyed the mutexes a thread holds are the one it
\* stands on and the next one, when it is about to step (printLines, main).
Out(t) == pc[t] \in {"new", "first", "destroy"} \/ (t = Main /\ pc[t] = "end")
Holds(t) ==
    {m \in Chain : /\ ~Out(t)
                  /\ \/ m = cur[t]
                     \/ m = NextMutex(cur[t]) /\ pc[t] = "unlock"
                     \/ m = Last /\ pc[t] = "untry"}
Held == destroyed = {} => \A t \in Threads, m \in Chain : owner[m] = t <=> m \in Holds(t)

\* How far a thread has walked, counted from the first mutex 0: a row of
\* mutexes for each line it has printed.
Pos(t) == IF t = Main THEN i[t] ELSE i[t] - 1
Row(t) == IF pc[t] \in {"create", "try", "untry", "print", "giveup"} THEN printed[t]
                                                                   ELSE printed[t] - 1
Walking(t) == pc[t] \in {"print", "lock", "unlock"}
InRow ==
    \A t \in Threads :
        /\ ~(t = Main /\ pc[t] \in {"destroy", "end"}) =>
               Pos(t) = Mutexes * Row(t) + cur[t]
        /\ pc[t] \in {"create", "try", "untry", "print", "giveup"} => cur[t] = 0
        /\ Walking(t) => i[t] < Steps

\* The child follows main in the chain and neither laps the other.
Front(t) == IF pc[t] = "unlock" THEN Pos(t) + 1 ELSE Pos(t)
Started == pc[Child] \in {"print", "lock", "unlock", "end"}
Apart ==
    Started /\ pc[Main] \notin {"destroy", "end"} =>
        Front(Child) < Pos(Main) /\ Front(Main) < Pos(Child) + Mutexes

\* Where the threads are: main waits for the child to have begun, and gives up
\* when it has done its steps or could not create it (main).
Phases ==
    /\ pc[Main] \in {"create", "try", "untry"} => i[Main] = 0 /\ printed[Main] = 0
    /\ pc[Main] \notin {"first", "new"}
    /\ pc[Child] \in {"new", "first"} => i[Child] = 0 /\ cur[Child] = Last /\ printed[Child] = 0
    /\ pc[Child] \notin {"create", "try", "untry", "giveup", "destroy"}
    /\ pc[Child] = "end" => i[Child] = Steps
    /\ pc[Main] = "create" => pc[Child] = "new"
    /\ pc[Child] = "first" => pc[Main] \in {"try", "untry"}
    /\ pc[Child] = "new" => pc[Main] \in {"create", "giveup", "destroy", "end"}
    /\ Walking(Main) => Started
    /\ Started /\ pc[Main] \in {"giveup", "destroy", "end"} => printed[Main] = Lines
    /\ Started /\ pc[Main] \in {"destroy", "end"} =>
           Pos(Child) > Mutexes * (Lines - 1) /\ pc[Child] # "print"
    /\ pc[Main] = "destroy" => i[Main] <= Last
    /\ destroyed # {} => pc[Main] \in {"destroy", "end"}

\* Types, and what main may rely on when it destroys the mutexes.
Inv ==
    /\ TypeOK /\ ErrorsOnlyAtTheEnd /\ DestroyedAfterLastLine
    /\ Held /\ InRow /\ Apart /\ Phases

=============================================================================
