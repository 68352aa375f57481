------------------------------ MODULE Barrier ------------------------------
(***************************************************************************)
(* OS/lab9.c: Count threads sum the series of pi/4 in rounds until SIGINT. *)
(* Thread t takes the terms t, t + Count, t + 2 * Count, ... and each      *)
(* round goes up to the next multiple of Chunk.  Two waits on a barrier    *)
(* per round let all threads stop after the same round although each of    *)
(* them reads the signal on its own.  A wait releases all threads when the *)
(* last one arrives.  The terms are not computed: a thread's i says which  *)
(* it has summed.  MaxRounds bounds the rounds before the signal.          *)
(***************************************************************************)
EXTENDS Integers

CONSTANTS
    Count,      \* COUNT_THREAD
    Chunk,      \* STEP_WHILE_CHECK_SIG
    MaxRounds   \* bound: the rounds before the signal; one more follows it

VARIABLES
    isSignal, isExitWhile, loopIterationMax,
    pc,             \* where each thread is
    isSignalLocal, loopIteration, i,  \* locals of each thread
    result,         \* params[t].sum: the terms summed by t are those below it
    main,           \* "start", "create", "join", "end"
    created,        \* how many threads were created
    joined          \* how many threads main has joined

locals == <<isSignalLocal, loopIteration, i, result>>
mains == <<main, created, joined>>
vars == <<isSignal, isExitWhile, loopIterationMax, pc, locals, mains>>

Threads == 0 .. Count - 1

Init ==
    /\ isSignal = FALSE
    /\ isExitWhile = FALSE
    /\ loopIterationMax = 0
    /\ pc = [t \in Threads |-> "new"]
    /\ isSignalLocal = [t \in Threads |-> FALSE]
    /\ loopIteration = [t \in Threads |-> 1]
    /\ i = [t \in Threads |-> t]
    /\ result = [t \in Threads |-> 0]
    /\ main = "start" /\ created = 0 /\ joined = 0

Goto(t, l) == pc' = [pc EXCEPT ![t] = l]

-----------------------------------------------------------------------------
(* main *)

\* signalHandler is installed before anything else.
SigInt ==
    /\ ~isSignal
    /\ isSignal' = TRUE
    /\ UNCHANGED <<isExitWhile, loopIterationMax, pc, locals, mains>>

\* isSignal is cleared again before the threads are created.
Start ==
    /\ main = "start"
    /\ isSignal' = FALSE
    /\ main' = "create"
    /\ UNCHANGED <<isExitWhile, loopIterationMax, pc, locals, created, joined>>

Create ==
    /\ main = "create" /\ created < Count
    /\ Goto(created, "top")
    /\ created' = created + 1
    /\ main' = IF created + 1 = Count THEN "join" ELSE "create"
    /\ UNCHANGED <<isSignal, isExitWhile, loopIterationMax, locals, joined>>

AfterFailure == "join"

\* pthread_create fails: main joins the threads it has.
CreateFails ==
    /\ main = "create" /\ created < Count
    /\ main' = AfterFailure
    /\ UNCHANGED <<isSignal, isExitWhile, loopIterationMax, pc, locals, created, joined>>

Join ==
    /\ main = "join" /\ joined < created /\ pc[joined] = "end"
    /\ joined' = joined + 1
    /\ UNCHANGED <<isSignal, isExitWhile, loopIterationMax, pc, locals, main, created>>

\* The sum is printed.
Finish ==
    /\ main = "join" /\ joined = created
    /\ main' = "end"
    /\ UNCHANGED <<isSignal, isExitWhile, loopIterationMax, pc, locals, created, joined>>

-----------------------------------------------------------------------------
(* calculate *)

\* The head of the loop and the read of isSignal.
Top(t) ==
    /\ pc[t] = "top"
    /\ loopIteration[t] <= IF isSignal THEN MaxRounds + 1 ELSE MaxRounds
    /\ isSignalLocal' = [isSignalLocal EXCEPT ![t] = isSignal]
    /\ Goto(t, "flag")
    /\ UNCHANGED <<isSignal, isExitWhile, loopIterationMax, loopIteration, i, result, mains>>

SetFlag(t) ==
    /\ pc[t] = "flag"
    /\ isExitWhile' = (isExitWhile \/ isSignalLocal[t])
    /\ Goto(t, "wait1")
    /\ UNCHANGED <<isSignal, loopIterationMax, locals, mains>>

\* pthread_barrier_wait: all have arrived at this wait.
Arrivals(l) == \A t \in Threads : pc[t] = l

Release1 ==
    /\ Arrivals("wait1")
    /\ pc' = [t \in Threads |-> IF pc[t] = "wait1" THEN "check" ELSE pc[t]]
    /\ UNCHANGED <<isSignal, isExitWhile, loopIterationMax, locals, mains>>

Check(t) ==
    /\ pc[t] = "check"
    /\ isSignalLocal' = [isSignalLocal EXCEPT ![t] = isExitWhile \/ isSignalLocal[t]]
    /\ Goto(t, "sum")
    /\ UNCHANGED <<isSignal, isExitWhile, loopIterationMax, loopIteration, i, result, mains>>

\* The for loop leaves i at the thread's first term from end on.
After(t, end) ==
    CHOOSE n \in end .. end + Count - 1 : n >= i[t] /\ (n - i[t]) % Count = 0

Sum(t) ==
    /\ pc[t] = "sum"
    /\ i' = [i EXCEPT ![t] = IF @ < Chunk * loopIteration[t]
                             THEN After(t, Chunk * loopIteration[t]) ELSE @]
    /\ loopIteration' = [loopIteration EXCEPT ![t] = @ + 1]
    /\ loopIterationMax' = IF loopIterationMax < loopIteration[t] + 1
                           THEN loopIteration[t] + 1 ELSE loopIterationMax
    /\ Goto(t, "wait2")
    /\ UNCHANGED <<isSignal, isExitWhile, isSignalLocal, result, mains>>

\* Mutant: no thread waits for the others at the end of a round.
LeaveRound_Alone(t) == TRUE

\* The second wait, and the test of the loop.
LeaveRound(t) == Arrivals("wait2")

Release2 ==
    /\ \E t \in Threads : pc[t] = "wait2" /\ LeaveRound(t)
    /\ pc' = [t \in Threads |-> IF pc[t] # "wait2" THEN pc[t]
                                ELSE IF isSignalLocal[t] THEN "store" ELSE "top"]
    /\ UNCHANGED <<isSignal, isExitWhile, loopIterationMax, locals, mains>>

Store(t) ==
    /\ pc[t] = "store"
    /\ result' = [result EXCEPT ![t] = i[t]]
    /\ Goto(t, "end")
    /\ UNCHANGED <<isSignal, isExitWhile, loopIterationMax, isSignalLocal, loopIteration,
                   i, mains>>

Thread(t) == Top(t) \/ SetFlag(t) \/ Check(t) \/ Sum(t) \/ Store(t)
MainStep == Start \/ Create \/ Join \/ Finish

Next ==
    \/ SigInt \/ MainStep \/ CreateFails
    \/ Release1 \/ Release2
    \/ \E t \in Threads : Thread(t)

Spec == Init /\ [][Next]_vars

-----------------------------------------------------------------------------
(* Properties. *)

\* The variables have their types.
TypeOK ==
    /\ isSignal \in BOOLEAN /\ isExitWhile \in BOOLEAN
    /\ loopIterationMax \in Nat
    /\ pc \in [Threads -> {"new", "top", "flag", "wait1", "check", "sum", "wait2",
                           "store", "end"}]
    /\ isSignalLocal \in [Threads -> BOOLEAN]
    /\ loopIteration \in [Threads -> Nat]
    /\ i \in [Threads -> Nat] /\ \A t \in Threads : i[t] % Count = t
    /\ result \in [Threads -> Nat]
    /\ main \in {"start", "create", "join", "end"}
    /\ created \in 0 .. Count /\ joined \in 0 .. created

\* Threads that have left the loop have all done the same number of rounds,
\* and no other is left in it for another round (calculate).
SameRounds ==
    \A t, u \in Threads :
        pc[t] \in {"store", "end"} /\ pc[u] # "new" =>
            pc[u] \in {"store", "end"} /\ loopIteration[u] = loopIteration[t]

\* What main adds up is the beginning of the series without a gap and without
\* a term twice: each thread has its own terms below the same end (calculate,
\* main).
WholePrefix ==
    main = "end" /\ created = Count =>
        \A t \in Threads :
            /\ result[t] % Count = t
            /\ \A n \in 0 .. Chunk * (loopIterationMax - 1) + Count :
                   n % Count = t => (n < result[t] <=> n < Chunk * (loopIterationMax - 1))

\* If a thread could not be created, none of the others gets past the barrier,
\* so that main waits for them for ever instead of printing a partial sum
\* (main, the break after a failed pthread_create).
PartialNeverPrints == created < Count /\ created > 0 => main # "end"

\* A signal that came after the flag was cleared, and all threads exist.
\* (One that comes before is lost, main.)
Stopping == isSignal /\ main # "start" /\ created = Count

\* The threads are created and joined in order (main).
Creation ==
    /\ \A t \in Threads : pc[t] = "new" <=> t >= created
    /\ main = "start" => created = 0
    /\ \A t \in Threads : t < joined => pc[t] = "end"
    /\ main = "end" => joined = created

\* The barrier keeps all threads in the same half of a round: before its
\* first wait, between the two, or out of the loop (calculate).
Arriving == {"new", "top", "flag", "wait1"}
Summing == {"check", "sum", "wait2"}
Left == {"store", "end"}
Together ==
    \/ \A t \in Threads : pc[t] \in Arriving
    \/ \A t \in Threads : pc[t] \in Summing
    \/ \A t \in Threads : pc[t] \in Left

\* Who has passed the first wait knows what all know of the signal.
Agreed ==
    \A t \in Threads :
        /\ pc[t] \in {"wait1", "check"} => (isSignalLocal[t] => isExitWhile)
        /\ pc[t] \in {"sum", "wait2"} => (isSignalLocal[t] <=> isExitWhile)

\* The round a thread is in or, out of the loop, the one it would do next:
\* the same of all, and never more than one behind loopIterationMax.
Current(t) == IF pc[t] = "wait2" THEN loopIteration[t] - 1 ELSE loopIteration[t]
Rounds ==
    \A t \in Threads :
        /\ loopIteration[t] >= 1
        /\ loopIterationMax <= Current(t) + 1
        /\ pc[t] = "new" => loopIteration[t] = 1
        /\ \A u \in Threads : Current(u) = Current(t)
        /\ pc[t] \in Left \union {"wait2"} => loopIterationMax = loopIteration[t]

\* A thread has summed its terms of all its rounds and stands on the first
\* one behind them.
Terms ==
    \A t \in Threads :
        /\ Chunk * (loopIteration[t] - 1) <= i[t]
        /\ i[t] < Chunk * (loopIteration[t] - 1) + Count
        /\ pc[t] = "end" => result[t] = i[t]

\* Types, rounds that all threads leave together, and the sum they stand for.
Inv ==
    /\ TypeOK /\ SameRounds /\ WholePrefix /\ PartialNeverPrints
    /\ Creation /\ Together /\ Agreed /\ Rounds /\ Terms

=============================================================================
