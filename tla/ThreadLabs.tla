----------------------------- MODULE ThreadLabs -----------------------------
(***************************************************************************)
(* The exercises of OS/ whose threads take turns: lab11.c (a chain of      *)
(* mutexes), lab13.c (a condition variable), lab14.c, lab14,2.c and lab16.c *)
(* (rings of two and three semaphores); and those whose threads share out  *)
(* work until it is done: lab9.c (the terms of a series, in rounds ended by *)
(* barriers) and lab10.c (dishes, with forks).  One of them runs, chosen   *)
(* in the first state; the variables the others have to themselves stay    *)
(* unused.                                                                 *)
(***************************************************************************)
EXTENDS Integers

CONSTANTS
    Mutexes,    \* NUMBER_OF_MUTEXES of lab11.c
    Lines,      \* NUMBER_OF_LINES of the exercises with turns
    Count,      \* COUNT_THREAD of lab9.c
    Chunk,      \* STEP_WHILE_CHECK_SIG of lab9.c
    MaxRounds,  \* bound: the rounds before the signal
    Philo,      \* PHILO of lab10.c
    Food        \* FOOD of lab10.c

ASSUME ThreadLabsAssumption ==
    /\ Mutexes \in Nat \ {0, 1}
    /\ {Lines, Count, Chunk, Philo, Food} \subseteq Nat \ {0}
    /\ MaxRounds \in Nat

VARIABLES
    lab,                         \* the exercise that runs
    pc,                          \* of each: see the modules
    printed, destroyed,          \* of those with turns
    sem,                         \* of the semaphore rings
    mutex,                       \* of the condition variable
    owner,                       \* of the chain and of the condition variable
    cur, errors,                 \* of the chain
    misused,                     \* of the rings and of the condition variable
    i,                           \* of the chain and of the series
    isSignal, isExitWhile, loopIterationMax, isSignalLocal,   \* of the series
    loopIteration, result, main, created, joined,
    forks, food, dish, eaten     \* of the philosophers

turnVars == <<printed, destroyed, sem, mutex, owner, cur, errors, misused>>
seriesVars == <<isSignal, isExitWhile, loopIterationMax, isSignalLocal,
                loopIteration, result, main, created, joined>>
dinnerVars == <<forks, food, dish, eaten>>
vars == <<lab, pc, i, turnVars, seriesVars, dinnerVars>>

Unused == "unused"

Lab11 == INSTANCE MutexChain
Lab13 == INSTANCE CondTurn
Lab14 == INSTANCE SemRing WITH N <- 2, Main <- 1, Destroyer <- 0
Lab14_2 == INSTANCE SemRing WITH N <- 3, Main <- 1, Destroyer <- 2
Lab16 == INSTANCE SemRing WITH N <- 2, Main <- 1, Destroyer <- 2
Lab9 == INSTANCE Barrier
Lab10 == INSTANCE Philosophers

NoTurns ==
    /\ printed = Unused /\ destroyed = Unused /\ sem = Unused /\ mutex = Unused
    /\ owner = Unused /\ cur = Unused /\ errors = Unused /\ misused = Unused
NoSeries ==
    /\ isSignal = Unused /\ isExitWhile = Unused /\ loopIterationMax = Unused
    /\ isSignalLocal = Unused /\ loopIteration = Unused /\ result = Unused
    /\ main = Unused /\ created = Unused /\ joined = Unused
NoDinner == forks = Unused /\ food = Unused /\ dish = Unused /\ eaten = Unused

RingInit ==
    mutex = Unused /\ owner = Unused /\ cur = Unused /\ i = Unused /\ errors = Unused
RingSame == UNCHANGED <<mutex, owner, cur, i, errors>>

TurnInit ==
    \/ lab = "lab11" /\ Lab11!Init /\ sem = Unused /\ mutex = Unused /\ misused = Unused
    \/ lab = "lab13" /\ Lab13!Init
       /\ sem = Unused /\ cur = Unused /\ i = Unused /\ errors = Unused
    \/ lab = "lab14" /\ Lab14!Init /\ RingInit
    \/ lab = "lab14_2" /\ Lab14_2!Init /\ RingInit
    \/ lab = "lab16" /\ Lab16!Init /\ RingInit

Init ==
    \/ TurnInit /\ NoSeries /\ NoDinner
    \/ lab = "lab9" /\ Lab9!Init /\ NoTurns /\ NoDinner
    \/ lab = "lab10" /\ Lab10!Init /\ i = Unused /\ NoTurns /\ NoSeries

TurnNext ==
    \/ lab = "lab11" /\ Lab11!Next /\ UNCHANGED <<sem, mutex, misused>>
    \/ lab = "lab13" /\ Lab13!Next /\ UNCHANGED <<sem, cur, i, errors>>
    \/ lab = "lab14" /\ Lab14!Next /\ RingSame
    \/ lab = "lab14_2" /\ Lab14_2!Next /\ RingSame
    \/ lab = "lab16" /\ Lab16!Next /\ RingSame

OthersSame == UNCHANGED <<lab, seriesVars, dinnerVars>>
Series(A) == lab = "lab9" /\ A /\ UNCHANGED <<lab, turnVars, dinnerVars>>
Dinner(A) == lab = "lab10" /\ A /\ UNCHANGED <<lab, i, turnVars, seriesVars>>

Next ==
    \/ TurnNext /\ OthersSame
    \/ Series(Lab9!Next)
    \/ Dinner(Lab10!Next)

Spec == Init /\ [][Next]_vars

Chain(A) == lab = "lab11" /\ A /\ UNCHANGED <<sem, mutex, misused>> /\ OthersSame
Cond(A) == lab = "lab13" /\ A /\ UNCHANGED <<sem, cur, i, errors>> /\ OthersSame
Ring(l, A) == lab = l /\ A /\ RingSame /\ OthersSame

\* The threads run.  Main of lab11.c sleeps between two attempts to take the
\* last mutex, so that the child, which waits for it, gets it in the end; the
\* mutex of lab13.c, free again and again, is given to either of its threads.
\* Main of lab9.c, its barriers and the philosophers go on.  Nothing is assumed
\* of creations, of spurious wakeups or of SIGINT.
FairSpec ==
    /\ Spec
    /\ WF_vars(Chain(Lab11!MainStep)) /\ SF_vars(Chain(Lab11!First))
    /\ WF_vars(Cond(Lab13!Destroy))
    /\ \A t \in {0, 1} :
         /\ WF_vars(Chain(Lab11!Loop(t)))
         /\ WF_vars(Cond(Lab13!Step(t))) /\ SF_vars(Cond(Lab13!Lock(t)))
         /\ WF_vars(Ring("lab14", Lab14!Party(t)))
         /\ WF_vars(Ring("lab16", Lab16!Party(t)))
    /\ \A t \in {0, 1, 2} : WF_vars(Ring("lab14_2", Lab14_2!Party(t)))
    /\ WF_vars(Series(Lab9!MainStep))
    /\ WF_vars(Series(Lab9!Release1)) /\ WF_vars(Series(Lab9!Release2))
    /\ \A t \in Lab9!Threads : WF_vars(Series(Lab9!Thread(t)))
    /\ \A id \in Lab10!Phils : WF_vars(Dinner(Lab10!Philosopher(id)))

-----------------------------------------------------------------------------
(* Properties. *)

\* What each exercise with turns relies on: one turn in a ring and a
\* destruction of its semaphores no earlier line depends on (lab14.c,
\* lab14,2.c, lab16.c); no error before main of lab11.c destroys the mutexes,
\* and none of its own; no lost wakeup in lab13.c, whose child destroys what
\* nobody needs any more.
Inv ==
    /\ lab = "lab11" => Lab11!Inv
    /\ lab = "lab13" => Lab13!Inv
    /\ lab = "lab14" => Lab14!Inv
    /\ lab = "lab14_2" => Lab14_2!Inv
    /\ lab = "lab16" => Lab16!Inv

\* Rounds that all threads of lab9.c leave together and a sum without gaps;
\* forks of lab10.c that keep neighbours apart, and dishes eaten once.
WorkShared ==
    /\ lab = "lab9" => Lab9!Inv
    /\ lab = "lab10" => Lab10!Inv

HasTurns == lab \notin {"lab9", "lab10"}

\* The lines come out in turns, in the order of the ring and beginning with
\* the party each exercise means to begin: every one of them implements Turns.
InTurn ==
    /\ HasTurns => \A p \in DOMAIN printed : printed[p] = 0
    /\ [][/\ lab = "lab11" => [Lab11!Alternation!Next]_printed
          /\ lab = "lab13" => [Lab13!Alternation!Next]_printed
          /\ lab = "lab14" => [Lab14!Ring!Next]_printed
          /\ lab = "lab14_2" => [Lab14_2!Ring!Next]_printed
          /\ lab = "lab16" => [Lab16!Ring!Next]_printed]_vars

\* Once all threads are created each of them prints its lines and ends,
\* although some polled, waited for a signal or used what was destroyed.
Created ==
    /\ HasTurns
    /\ IF lab = "lab11" THEN pc[Lab11!Child] = "first"
                        ELSE \A p \in DOMAIN pc : pc[p] \in {"wait", "lock"}
Printed == HasTurns /\ \A p \in DOMAIN pc : pc[p] = "end" /\ printed[p] = Lines
Ends == Created ~> Printed

\* The work comes to its end: a signal ends lab9.c, although each thread
\* reads the flag at a time of its own; the philosophers of lab10.c finish,
\* unless the memory beyond the forks is no mutex that can be locked.
Started ==
    \/ lab = "lab9" /\ Lab9!Stopping
    \/ lab = "lab10" /\ forks[Philo] # Lab10!Broken
Through ==
    \/ lab = "lab9" /\ main = "end"
    \/ lab = "lab10" /\ Lab10!AllDone
WorkEnds == Started ~> Through

=============================================================================
