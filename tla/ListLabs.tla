------------------------------ MODULE ListLabs ------------------------------
(***************************************************************************)
(* The exercises of OS/ whose threads order lines by where they put them:  *)
(* lab17work.c (a thread sorts the list of main), and lab23.c, lab6.c and  *)
(* lab3.c (a thread for each line sleeps in proportion to its length).     *)
(* One of them runs, chosen in the first state; the variables of the other *)
(* stay unused.                                                            *)
(***************************************************************************)
EXTENDS Integers

CONSTANTS
    Lines,       \* the lines the user of lab17work.c may type
    SortLines,   \* MAX_LINES of lab17work.c
    BufferSize,  \* BUFFER_SIZE of lab23.c
    SleepLines,  \* MAX_LINES of lab23.c, and THREADS_NUMBER of lab3.c
    Lengths,     \* lengths of the input's lines, with their newline
    Rest,        \* bound: lengths of the strings realloc may leave in a buffer
    Factor,      \* PROPORTIONALITY_FACTOR, in units of the clock
    Delay        \* how late a thread may start, or act when its sleep is over

VARIABLES
    lab, mutex, head, next, mpc, line, crashed,           \* of both
    value, spc, count, i, j, node, newhead,               \* of lab17work.c
    reads, lastNode, printed,
    input, open, lines, counter, created, joined, pc,     \* of the others
    wake, now, finishedNode, out, late

commonVars == <<lab, mutex, head, next, mpc, line, crashed>>
sortVars == <<value, spc, count, i, j, node, newhead, reads, lastNode, printed>>
sleepVars == <<input, open, lines, counter, created, joined, pc, wake, now,
               finishedNode, out, late>>
vars == <<commonVars, sortVars, sleepVars>>

Lab17 == INSTANCE SortedList WITH MaxLines <- SortLines
Lab23 == INSTANCE SleepSort WITH MaxLines <- SleepLines

ASSUME ListLabsAssumption ==
    /\ Lines \subseteq Nat \ {Lab17!EmptyLine} /\ SortLines \in Nat
    /\ {BufferSize, SleepLines} \subseteq Nat \ {0}
    /\ Lengths \subseteq Nat \ {0} /\ Rest \subseteq 0..BufferSize - 1
    /\ Factor \in Nat /\ Delay \in Nat

Unused == "unused"

Init ==
    \/ /\ lab = "lab17" /\ Lab17!Init
       /\ input = Unused /\ open = Unused /\ lines = Unused /\ counter = Unused
       /\ created = Unused /\ joined = Unused /\ pc = Unused /\ wake = Unused
       /\ now = Unused /\ finishedNode = Unused /\ out = Unused /\ late = Unused
    \/ /\ Lab23!Init
       /\ value = Unused /\ spc = Unused /\ count = Unused /\ i = Unused /\ j = Unused
       /\ node = Unused /\ newhead = Unused /\ reads = Unused /\ lastNode = Unused
       /\ printed = Unused

Next ==
    \/ lab = "lab17" /\ Lab17!Next /\ UNCHANGED <<lab, sleepVars>>
    \/ lab # "lab17" /\ Lab23!Next /\ UNCHANGED sortVars

Spec == Init /\ [][Next]_vars

Sorting(A) == lab = "lab17" /\ A /\ UNCHANGED <<lab, sleepVars>>
Sleeping(A) == lab # "lab17" /\ A /\ UNCHANGED sortVars

\* The sorting thread of lab17work.c sleeps between two sorts, so main gets the
\* mutex in the end; the user may stop typing.  Main of the others, their
\* threads and the clock run.
FairSpec ==
    /\ Spec
    /\ WF_vars(Sorting(Lab17!SorterStep)) /\ SF_vars(Sorting(Lab17!MainLocks))
    /\ WF_vars(Sorting(Lab17!Unasked))
    /\ WF_vars(Sleeping(Lab23!Main)) /\ WF_vars(Sleeping(Lab23!Tick))
    /\ \A t \in Lab23!Threads : WF_vars(Sleeping(Lab23!Thread(t)))

-----------------------------------------------------------------------------
(* Properties. *)

\* The list of lab17work.c has every line once, sorted when the thread lets
\* it go, and freed nodes are used after the end of the input only; the lines
\* of lab23.c, lab6.c and lab3.c are read and kept whole.
Inv ==
    /\ lab = "lab17" => Lab17!Inv
    /\ lab # "lab17" => Lab23!Inv

\* What main of lab17work.c misses when it prints from an old head was sorted
\* before that node since, and it prints no line twice.
PrintMissesOnlySmaller == lab = "lab17" => Lab17!PrintMissesOnlySmaller

\* lab23.c and lab6.c print lines in the order of their lengths, as far as the
\* threads are on time.
Sorted == lab # "lab17" => Lab23!Sorted

\* Every line of lab23.c, lab6.c and lab3.c that has a thread is printed once,
\* and nothing else is, unless a thread read its argument when main was gone.
PrintedOnce == lab # "lab17" => Lab23!PrintedOnce

\* The work comes to its end: a sort of lab17work.c whatever main does, and
\* the other programs whatever the input and whoever could not be created.
Started == IF lab = "lab17" THEN spc = "pass" ELSE TRUE
Through == IF lab = "lab17" THEN spc = "sleep" ELSE Lab23!Over \/ crashed
Ends == Started ~> Through

=============================================================================
