----------------------------- MODULE SleepSort -----------------------------
(***************************************************************************)
(* OS/lab23.c, lab6.c and lab3.c: a thread for each line of the input that *)
(* sleeps in proportion to the length of its line.  In lab23.c it then     *)
(* appends the line to a shared list, and main joins all threads, prints   *)
(* the list and frees it.  In lab6.c it writes the line itself and frees   *)
(* it; in lab3.c the lines are four constants and nobody sleeps.  The      *)
(* threads of these two are detached, read their argument through the      *)
(* address of an element of an array of main, and main does not wait.      *)
(*                                                                         *)
(* Lines are read in pieces of BUFFER_SIZE characters until a piece is not *)
(* full or ends in a newline; an empty line ends the input.  fgets at the  *)
(* end of the file is reported and ignored, and what realloc left in the   *)
(* buffer counts as a line.                                                *)
(* A line is its number in the input and its length.  Module ListLabs      *)
(* chooses the program and states the constants' assumption.               *)
(***************************************************************************)
EXTENDS Integers, SequencesExt

CONSTANTS
    BufferSize,  \* BUFFER_SIZE
    MaxLines,    \* MAX_LINES, and THREADS_NUMBER of lab3.c
    Lengths,     \* lengths of lines, with their newline
    Rest,        \* bound: lengths of the strings realloc may leave in a buffer
    Factor,      \* PROPORTIONALITY_FACTOR, in units of the clock
    Delay        \* how late a thread may start, or act when its sleep is over

VARIABLES
    lab,        \* which of the programs runs
    input,      \* the lengths of the lines of the input
    open,       \* whether the last of them has no newline
    lines,      \* what main has read so far
    counter,    \* full pieces of the line that it reads
    mpc,        \* main
    created, joined,
    pc,         \* each thread
    line,       \* the line each thread works for
    wake,       \* when its sleep is over
    now,
    mutex,
    head, next, finishedNode,   \* the list; a node is named after its thread
    out,        \* lines in the order they were printed
    late,       \* history: threads that read their argument when main was gone
    crashed

inputVars == <<lab, input, open>>
readVars == <<inputVars, lines, counter>>
threadVars == <<line, wake, now>>
list == <<head, next, finishedNode>>
vars == <<readVars, mpc, created, joined, pc, threadVars, mutex, list, out, late, crashed>>

Threads == 1..MaxLines
Null == 0
Wild == -1                        \* whatever a stale pointer points to
Free == 0

\* An empty line is the last one.
Inputs ==
    {s \in BoundedSeq(Lengths, MaxLines + 1) : \A k \in 1..Len(s) - 1 : s[k] > 1}

Init ==
    /\ lab \in {"lab3", "lab6", "lab23"}
    /\ open \in BOOLEAN
    /\ \/ lab # "lab3" /\ input \in Inputs /\ lines = <<>> /\ mpc = "read"
       \/ /\ lab = "lab3" /\ ~open
          /\ input = [k \in Threads |-> 1]
          /\ lines = [k \in Threads |-> [number |-> k, length |-> 1]]
          /\ mpc = "create"
    /\ counter = 0 /\ created = 0 /\ joined = 0
    /\ pc = [t \in Threads |-> "none"]
    /\ line = [t \in Threads |-> Null] /\ wake = [t \in Threads |-> 0]
    /\ now = 0 /\ mutex = Free
    /\ head = Null /\ next = [t \in Threads |-> Null] /\ finishedNode = Null
    /\ out = <<>> /\ late = {} /\ crashed = FALSE

-----------------------------------------------------------------------------
(* main reads the lines. *)

Number == Len(lines) + 1
AtEof == Number > Len(input) \/ input[Number] = counter * BufferSize

\* Characters in the buffer when fgets has returned.
Filled ==
    IF AtEof THEN {counter * BufferSize + r : r \in Rest}
             ELSE {Min({input[Number], (counter + 1) * BufferSize})}

EndsInNewline(length) ==
    ~AtEof /\ length = input[Number] /\ ~(open /\ Number = Len(input))

Continued(length) == length = (counter + 1) * BufferSize /\ ~EndsInNewline(length)

\* fgets, and realloc of the buffer for the next piece
ReadPiece ==
    /\ mpc = "read" /\ ~crashed
    /\ \E length \in Filled :
         IF Continued(length)
           THEN counter' = counter + 1 /\ UNCHANGED <<lines, mpc>>
           ELSE /\ counter' = 0
                /\ IF length = 1 /\ EndsInNewline(length)
                     THEN UNCHANGED lines
                     ELSE lines' = Append(lines,
                            [number |-> IF Number > Len(input) THEN Null ELSE Number,
                             length |-> length])
                /\ mpc' = IF lines' = lines \/ Len(lines') = MaxLines THEN "create"
                                                                     ELSE "read"
    /\ UNCHANGED <<inputVars, created, joined, pc, threadVars, mutex, list, out, late,
                   crashed>>

-----------------------------------------------------------------------------
(* main creates the threads. *)

\* Mutant: main of lab23.c does not wait for its threads either.
AfterCreate_NoJoin == "exited"

AfterCreate == IF lab = "lab23" THEN "join" ELSE "exited"

Create ==
    /\ mpc = "create" /\ ~crashed
    /\ IF created = Len(lines)
         THEN mpc' = AfterCreate /\ UNCHANGED <<created, pc>>
         ELSE /\ created' = created + 1
              /\ pc' = [pc EXCEPT ![created'] = "start"]
              /\ UNCHANGED mpc
    /\ UNCHANGED <<readVars, joined, threadVars, mutex, list, out, late, crashed>>

CreateFails ==
    /\ mpc = "create" /\ ~crashed /\ created < Len(lines)
    /\ mpc' = AfterCreate
    /\ UNCHANGED <<readVars, created, joined, pc, threadVars, mutex, list, out, late,
                   crashed>>

-----------------------------------------------------------------------------
(* printLines, the threads *)

Sleep(l) == IF l = Wild \/ lab = "lab3" THEN 0 ELSE Factor * lines[l].length

\* The argument of lab23.c is on the heap; in the others it is in the frame of
\* main, which is overwritten when main has gone through pthread_exit.
Start(t) ==
    /\ pc[t] = "start" /\ ~crashed
    /\ late' = IF mpc = "exited" THEN late \union {t} ELSE late
    /\ \E l \in {t} \union (IF mpc = "exited" THEN {Wild} ELSE {}) :
         /\ line' = [line EXCEPT ![t] = l]
         /\ wake' = [wake EXCEPT ![t] = now + Sleep(l)]
         /\ crashed' \in {FALSE, l = Wild}
    /\ pc' = [pc EXCEPT ![t] = "asleep"]
    /\ UNCHANGED <<readVars, mpc, created, joined, now, mutex, list, out>>

Awake(t) == pc[t] = "asleep" /\ wake[t] <= now /\ ~crashed

\* lab6.c and lab3.c: write, and free in lab6.c
Write(t) ==
    /\ Awake(t) /\ lab # "lab23"
    /\ out' = Append(out, line[t])
    /\ crashed' = (lab = "lab6" /\ line[t] = Wild)
    /\ pc' = [pc EXCEPT ![t] = "end"]
    /\ UNCHANGED <<readVars, mpc, created, joined, threadVars, mutex, list, late>>

\* lab23.c
Lock(t) ==
    /\ Awake(t) /\ lab = "lab23"
    /\ mutex = Free /\ mutex' = t
    /\ pc' = [pc EXCEPT ![t] = "insert"]
    /\ UNCHANGED <<readVars, mpc, created, joined, threadVars, list, out, late, crashed>>

\* insert_head or insert_after
Insert(t) ==
    /\ pc[t] = "insert"
    /\ IF head = Null
         THEN head' = t /\ UNCHANGED next
         ELSE /\ next' = [next EXCEPT ![t] = next[finishedNode], ![finishedNode] = t]
              /\ UNCHANGED head
    /\ pc' = [pc EXCEPT ![t] = "move"]
    /\ UNCHANGED <<readVars, mpc, created, joined, threadVars, mutex, finishedNode, out,
                   late, crashed>>

\* Mutant: lines after the first do not become the last one.
NewFinished_Head == head

NewFinished == IF finishedNode = Null THEN head ELSE next[finishedNode]

Move(t) ==
    /\ pc[t] = "move"
    /\ finishedNode' = NewFinished
    /\ pc' = [pc EXCEPT ![t] = "unlock"]
    /\ UNCHANGED <<readVars, mpc, created, joined, threadVars, mutex, head, next, out,
                   late, crashed>>

Unlock(t) ==
    /\ pc[t] = "unlock"
    /\ mutex' = Free
    /\ pc' = [pc EXCEPT ![t] = "end"]
    /\ UNCHANGED <<readVars, mpc, created, joined, threadVars, list, out, late, crashed>>

-----------------------------------------------------------------------------
(* main of lab23.c joins, prints and frees. *)

Join ==
    /\ mpc = "join" /\ joined < created /\ pc[joined + 1] = "end"
    /\ joined' = joined + 1
    /\ UNCHANGED <<readVars, mpc, created, pc, threadVars, mutex, list, out, late, crashed>>

\* The id of a thread that was not created is whatever malloc left there: join
\* crashes or returns an error, and main frees the list unprinted.
JoinFails ==
    /\ mpc = "join" /\ joined = created /\ created < Len(lines) /\ ~crashed
    /\ \/ crashed' = TRUE /\ UNCHANGED <<mpc, head>>
       \/ mpc' = "freed" /\ head' = Null /\ UNCHANGED crashed
    /\ UNCHANGED <<readVars, created, joined, pc, threadVars, mutex, next, finishedNode,
                   out, late>>

Nodes ==
    LET walk[k \in 0..MaxLines] ==
            IF k = 0 THEN <<>>
            ELSE LET w == walk[k - 1]
                     n == IF w = <<>> THEN head ELSE next[w[Len(w)]]
                 IN  IF n = Null THEN w ELSE Append(w, n)
    IN  walk[MaxLines]

\* Nobody else touches the list any more: printing and freeing is one step.
PrintList ==
    /\ mpc = "join" /\ joined = Len(lines)
    /\ out' = [k \in DOMAIN Nodes |-> line[Nodes[k]]]
    /\ head' = Null
    /\ mpc' = "freed"
    /\ UNCHANGED <<readVars, created, joined, pc, threadVars, mutex, next, finishedNode,
                   late, crashed>>

-----------------------------------------------------------------------------
(* The clock: it waits for who must act by now. *)

Tick ==
    /\ ~crashed
    /\ \E t \in Threads : pc[t] = "asleep"
    /\ \A t \in Threads : pc[t] = "asleep" => now < wake[t] + Delay
    /\ \A t \in Threads : pc[t] \notin {"insert", "move", "unlock"}
    /\ now < Delay \/ (mpc # "create" /\ \A t \in Threads : pc[t] # "start")
    /\ now' = now + 1
    /\ UNCHANGED <<readVars, mpc, created, joined, pc, line, wake, mutex, list, out,
                   late, crashed>>

Main == ReadPiece \/ Create \/ Join \/ JoinFails \/ PrintList
Thread(t) == Start(t) \/ Write(t) \/ Lock(t) \/ Insert(t) \/ Move(t) \/ Unlock(t)

Next == Main \/ CreateFails \/ Tick \/ \E t \in Threads : Thread(t)

-----------------------------------------------------------------------------
(* Properties. *)

TypeOK ==
    /\ lines \in Seq([number : 0..MaxLines + 1, length : Nat]) /\ Len(lines) <= MaxLines
    /\ mpc \in {"read", "create", "join", "freed", "exited"}
    /\ pc \in [Threads -> {"none", "start", "asleep", "insert", "move", "unlock", "end"}]
    /\ line \in [Threads -> Threads \union {Null, Wild}]
    /\ {head, finishedNode} \union Range(next) \subseteq Threads \union {Null}
    /\ mutex \in Threads \union {Free}
    /\ Range(out) \subseteq Threads \union {Wild}

\* main counts the lines of the input, each one whole, up to the empty line.
\* Without an empty line it counts MAX_LINES, the rest of them made of what was
\* left in the buffers; and a last line without newline that fills its pieces
\* gets such a tail (:124-167 of lab23.c).
LinesWhole ==
    mpc # "read" =>
        /\ \A k \in DOMAIN lines :
             IF k > Len(input) THEN lines[k].number = Null
             ELSE /\ lines[k].number = k
                  /\ \/ lines[k].length = input[k]
                     \/ open /\ k = Len(input) /\ input[k] % BufferSize = 0
        /\ LET empty == {k \in DOMAIN input : input[k] = 1 /\ ~(open /\ k = Len(input))}
           IN  lab # "lab3" => Len(lines) = Min({k - 1 : k \in empty} \union {MaxLines})

\* Between two insertions the list of lab23.c holds the lines of the threads
\* that have inserted theirs, each once, and finishedNode is the last of them;
\* it is freed when no thread can use it any more (:90-109, :187-198).
ListWhole ==
    lab = "lab23" =>
        /\ mutex = Free /\ mpc # "freed" =>
             /\ IsInjective(Nodes)
             /\ Range(Nodes) = {t \in Threads : pc[t] = "end"}
             /\ Nodes # <<>> => finishedNode = Nodes[Len(Nodes)]
        /\ mpc = "freed" => \A t \in Threads : pc[t] \in {"none", "end"}

\* What is printed comes in the order of lengths, as far as threads are on time.
Sorted ==
    lab # "lab3" => \A a, b \in DOMAIN out : a < b /\ Wild \notin {out[a], out[b]} =>
        Factor * lines[out[a]].length <= Factor * lines[out[b]].length + 2 * Delay

\* Every line that has a thread is printed once, and nothing else is, unless a
\* thread of lab6.c or lab3.c read its argument when main was gone; lab23.c
\* prints all or, if a thread could not be created, nothing.
PrintedOnce ==
    /\ crashed \/ Wild \in Range(out) =>
         IF lab = "lab23" THEN created < Len(lines) ELSE late # {}
    /\ \A a, b \in DOMAIN out : a # b => out[a] # out[b] \/ out[a] = Wild
    /\ late = {} /\ ~crashed /\ mpc \in {"freed", "exited"}
       /\ (\A t \in Threads : pc[t] \in {"none", "end"}) =>
         Range(out) = IF lab = "lab23" /\ created < Len(lines) THEN {} ELSE 1..created

\* Types; lines are read and kept whole.
Inv == TypeOK /\ LinesWhole /\ ListWhole

\* The program is over (main, and the threads main does not wait for).
Over == mpc \in {"freed", "exited"} /\ \A t \in Threads : pc[t] \in {"none", "end"}

=============================================================================
