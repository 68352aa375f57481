----------------------------- MODULE CondTurn -----------------------------
(***************************************************************************)
(* OS/lab13.c: the main thread and its child print in turns that a mutex,  *)
(* a condition variable and the variable owner pass on.  The condition     *)
(* variable may wake its waiter without a signal.  The child destroys the  *)
(* mutex and the condition variable after its last line.                   *)
(***************************************************************************)
EXTENDS Integers

CONSTANTS Lines     \* NUMBER_OF_LINES

VARIABLES
    mutex,      \* the thread that holds it, or None
    owner,      \* whose turn it is
    pc,         \* where each thread is
    printed,    \* lines printed by each thread
    destroyed,  \* whether the mutex and the condition variable are destroyed
    misused     \* history: the threads that used them afterwards

vars == <<mutex, owner, pc, printed, destroyed, misused>>

Parent == 0             \* PARENT_OWNER
Child == 1              \* CHILD_OWNER
Threads == {Parent, Child}
None == 2

\* Where the loop of printLines goes on; the child destroys when it is through.
AtTop(t, k) == IF k < Lines THEN "lock" ELSE IF t = Child THEN "destroy" ELSE "end"

Init ==
    /\ mutex = None
    /\ owner = Parent
    /\ pc = [t \in Threads |-> IF t = Parent THEN "create" ELSE "new"]
    /\ printed = [t \in Threads |-> 0]
    /\ destroyed = FALSE
    /\ misused = {}

Goto(t, l) == pc' = [pc EXCEPT ![t] = l]
Uses(t) == misused' = IF destroyed THEN misused \union {t} ELSE misused

Create ==
    /\ pc[Parent] = "create"
    /\ pc' = [t \in Threads |-> AtTop(t, 0)]
    /\ UNCHANGED <<mutex, owner, printed, destroyed, misused>>

\* pthread_create fails: unlockMutex is refused, for main holds nothing, and
\* main destroys the mutex and the condition variable and returns.
CreateFails ==
    /\ pc[Parent] = "create"
    /\ Goto(Parent, "end")
    /\ destroyed' = TRUE
    /\ UNCHANGED <<mutex, owner, printed, misused>>

-----------------------------------------------------------------------------
(* printLines *)

\* Mutant: a thread that was woken does not look at owner again.
AfterLock_If(t) == IF pc[t] = "woken" THEN "print" ELSE "test"

AfterLock(t) == "test"

\* What a thread does when it has printed.
Order == <<"signal", "unlock">>

After(t, l) == IF l = Order[1] THEN Order[2] ELSE AtTop(t, printed[t])

\* lockMutex, and the mutex taken again on the way out of pthread_cond_wait.
Lock(t) ==
    /\ pc[t] \in {"lock", "woken"}
    /\ mutex = None
    /\ mutex' = t
    /\ Goto(t, AfterLock(t))
    /\ Uses(t)
    /\ UNCHANGED <<owner, printed, destroyed>>

\* pthread_cond_wait: the mutex is given up and the thread waits, in one step.
Wait(t) ==
    /\ pc[t] = "test" /\ owner # t
    /\ mutex' = None
    /\ Goto(t, "wait")
    /\ Uses(t)
    /\ UNCHANGED <<owner, printed, destroyed>>

\* The condition variable wakes a waiter that nobody signalled.
SpuriousWakeup(t) ==
    /\ pc[t] = "wait"
    /\ Goto(t, "woken")
    /\ UNCHANGED <<mutex, owner, printed, destroyed, misused>>

NextOwner == (owner + 1) % 2

Test(t) ==
    /\ pc[t] = "test" /\ owner = t
    /\ Goto(t, "print")
    /\ UNCHANGED <<mutex, owner, printed, destroyed, misused>>

PrintLine(t) ==
    /\ pc[t] = "print"
    /\ printed' = [printed EXCEPT ![t] = @ + 1]
    /\ owner' = NextOwner
    /\ Goto(t, Order[1])
    /\ UNCHANGED <<mutex, destroyed, misused>>

Signalled(u) == pc[u] = "wait"

Signal(t) ==
    /\ pc[t] = "signal"
    /\ pc' = [u \in Threads |-> IF u = t THEN After(t, "signal")
                                ELSE IF Signalled(u) THEN "woken" ELSE pc[u]]
    /\ Uses(t)
    /\ UNCHANGED <<mutex, owner, printed, destroyed>>

Unlock(t) ==
    /\ pc[t] = "unlock"
    /\ mutex' = None
    /\ Goto(t, After(t, "unlock"))
    /\ Uses(t)
    /\ UNCHANGED <<owner, printed, destroyed>>

-----------------------------------------------------------------------------

\* destroyParameters
Destroy ==
    /\ pc[Child] = "destroy"
    /\ destroyed' = TRUE
    /\ Goto(Child, "end")
    /\ UNCHANGED <<mutex, owner, printed, misused>>

Step(t) == Wait(t) \/ Test(t) \/ PrintLine(t) \/ Signal(t) \/ Unlock(t)

Next ==
    \/ Create \/ CreateFails \/ Destroy
    \/ \E t \in Threads : Lock(t) \/ Step(t) \/ SpuriousWakeup(t)

Spec == Init /\ [][Next]_vars

-----------------------------------------------------------------------------
(* Properties. *)

\* The variables have their types.
TypeOK ==
    /\ mutex \in Threads \union {None}
    /\ owner \in Threads
    /\ pc \in [Threads -> {"create", "new", "lock", "test", "wait", "woken", "print",
                           "signal", "unlock", "destroy", "end"}]
    /\ printed \in [Threads -> 0 .. Lines]
    /\ destroyed \in BOOLEAN
    /\ misused \subseteq Threads

\* The lines come out in turns, the parent's first, whatever wakes the
\* waiting thread (printLines).
Alternation == INSTANCE Turns WITH N <- 2, First <- Parent
InTurn == Alternation!Spec

\* The child destroys the mutex and the condition variable when nobody needs
\* them any more: the parent unlocks before the child's last line
\* (secondPrint, and the order of signal and unlock in printLines).
DestroyedUnneeded == misused = {}

\* Nobody waits for a signal that has been sent already: while it is the turn
\* of a thread that waits unsignalled, the other is still in its round.
NoLostWakeup ==
    \A t \in Threads :
        pc[t] = "wait" /\ owner = t =>
            \E u \in Threads \ {t} : pc[u] \in {"signal", "unlock"}

\* The mutex is with the thread that is between lockMutex and unlockMutex, and
\* who prints is the owner of the turn (printLines).
Inside == {"test", "print", "signal", "unlock"}
Exclusive ==
    \A t \in Threads :
        /\ mutex = t <=> pc[t] \in Inside
        /\ pc[t] = "print" => owner = t
        /\ pc[t] \in {"signal", "unlock"} => owner # t

\* A waiter whose turn it is will be woken by the signal that is to come.
SignalToCome ==
    \A t, u \in Threads : t # u /\ pc[t] = "wait" /\ owner = t => pc[u] = "signal"

\* The parent is a line ahead when it is the child's turn.
Level == printed[Parent] = printed[Child] + (IF owner = Parent THEN 0 ELSE 1)

\* Who is in the loop has lines left to print, and who is through has not; the
\* parent is through when the child prints its last line (printLines, main).
Rounds ==
    /\ \A t \in Threads :
           /\ pc[t] \in {"create", "new"} => printed = [p \in Threads |-> 0] /\ owner = Parent
           /\ pc[t] \in {"lock", "test", "wait", "woken", "print"} => printed[t] < Lines
           /\ pc[t] = "destroy" => printed[t] = Lines
    /\ pc[Parent] \notin {"new", "destroy"} /\ pc[Child] # "create"
    /\ pc[Parent] = "create" <=> pc[Child] = "new" /\ ~destroyed
    /\ pc[Parent] = "end" => printed[Parent] = Lines \/ pc[Child] = "new"
    /\ printed[Child] = Lines => pc[Parent] = "end"
    /\ destroyed => pc[Parent] = "end" /\ pc[Child] \in {"new", "end"}

\* Types, no thread waiting for a signal that is past, and a destruction that
\* comes too late to matter.
Inv ==
    /\ TypeOK /\ NoLostWakeup /\ DestroyedUnneeded
    /\ Exclusive /\ SignalToCome /\ Level /\ Rounds

=============================================================================
