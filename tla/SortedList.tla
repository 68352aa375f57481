---------------------------- MODULE SortedList ----------------------------
(***************************************************************************)
(* OS/lab17work.c with OS/list/list.c: the main thread inserts lines into  *)
(* a linked list behind its head and prints it on demand; a detached       *)
(* thread bubble-sorts the list again and again by moving its nodes, with  *)
(* a scratch node in front of the head.  One mutex protects the list, but  *)
(* main reads list.head before it locks the mutex to print, and at the end *)
(* of the input it frees the list without the mutex.                       *)
(* Module ListLabs chooses it and states its constants' assumption.        *)
(* Lines are numbers in the order of strcmp.  The first node holds an      *)
(* empty line, "\n", which only lines that start with a smaller character  *)
(* (a tab) come before.                                                    *)
(* Nodes are numbered as they are allocated.                               *)
(***************************************************************************)
EXTENDS Integers, Sequences, FiniteSets

CONSTANTS
    Lines,      \* the lines the user may type
    MaxLines    \* MAX_LINES: how many lines main reads

EmptyLine == 1

VARIABLES
    head, next, value,  \* the list; value is the sequence of the nodes' lines
    mutex,              \* "main", "sorter" or "free"
    spc, count, i, j,   \* the sorting thread and its locals
    node, newhead,
    mpc, line, reads,   \* main, the line it has read, how many it has read
    lastNode, printed,  \* the node to print next, the nodes printed so far
    crashed             \* history: a freed node was used

list == <<head, next, value>>
sorter == <<spc, count, i, j, node, newhead>>
main == <<mpc, line, reads, lastNode, printed>>
vars == <<list, mutex, sorter, main, crashed>>

Null == -1
Quit == -2                              \* the line "q"
Eof == -3                               \* the end of the input
Scratch == MaxLines + 1                 \* the sorting thread's own node
Nodes == 0 .. Len(value) - 1
ValueOf(n) == value[n + 1]

Init ==
    /\ head = 0 /\ value = <<EmptyLine>>
    /\ next = [n \in 0 .. Scratch |-> Null]
    /\ mutex = "free"
    /\ spc = "sleep" /\ count = 0 /\ i = 0 /\ j = 0 /\ node = Null /\ newhead = Null
    /\ mpc = "read" /\ line = EmptyLine /\ reads = 0 /\ lastNode = Null /\ printed = <<>>
    /\ crashed = FALSE

\* The nodes from p on, in the order of the list.
Nth(p) ==
    LET nth[k \in 0 .. Scratch + 1] ==
            IF k = 0 THEN p
            ELSE IF nth[k - 1] = Null THEN Null ELSE next[nth[k - 1]]
    IN  nth
LengthFrom(p) == Cardinality({k \in 0 .. Scratch + 1 : Nth(p)[k] # Null})
Walk(p) == [k \in 1 .. LengthFrom(p) |-> Nth(p)[k - 1]]

\* The list has been freed: main is past free_memory.
Freed == mpc = "exit"

-----------------------------------------------------------------------------
(* sortLines *)

LockAndCount ==
    /\ spc = "sleep"
    /\ mutex = "free"
    /\ mutex' = "sorter"
    /\ count' = LengthFrom(head)
    /\ newhead' = head
    /\ i' = 1
    /\ spc' = IF count' > 1 THEN "pass" ELSE "unlock"
    /\ UNCHANGED <<list, j, node, main, crashed>>

\* A pass of the outer loop begins with the scratch node before the head.
BeginPass ==
    /\ spc = "pass"
    /\ next' = [next EXCEPT ![Scratch] = newhead]
    /\ node' = Scratch
    /\ j' = 1
    /\ spc' = "step"
    /\ UNCHANGED <<head, value, mutex, count, i, newhead, main, crashed>>

OutOfOrder(a, b) == ValueOf(a) > ValueOf(b)

\* Mutant: swap does not link the node that moves back to the rest.
Swapped_Unlinked(p, a, b) == [next EXCEPT ![p] = b, ![b] = a]

\* swap(node): a and b, the two nodes behind p, change places.
Swapped(p, a, b) == [next EXCEPT ![p] = b, ![a] = next[b], ![b] = a]

LastStep == j = count - i

\* Mutant: a pass does not count.
NextPass_Same == i

NextPass == i + 1

\* A step of the inner loop; the last one of a pass sets the head.
SortStep ==
    /\ spc = "step" /\ ~Freed
    /\ LET a == next[node]
           b == next[a]
       IN  next' = IF OutOfOrder(a, b) THEN Swapped(node, a, b) ELSE next
    /\ newhead' = IF j = 1 THEN next'[node] ELSE newhead
    /\ node' = next'[node]
    /\ IF LastStep
         THEN /\ head' = newhead'
              /\ i' = NextPass
              /\ spc' = IF NextPass < count THEN "pass" ELSE "unlock"
              /\ UNCHANGED j
         ELSE /\ j' = j + 1
              /\ UNCHANGED <<head, i, spc>>
    /\ UNCHANGED <<value, mutex, count, main, crashed>>

\* The same on a list that main has freed meanwhile.
SortFreed ==
    /\ spc = "step" /\ Freed
    /\ crashed' = TRUE
    /\ spc' = "unlock"
    /\ UNCHANGED <<list, mutex, count, i, j, node, newhead, main>>

Unlocked == "free"

SorterUnlocks ==
    /\ spc = "unlock"
    /\ mutex' = Unlocked
    /\ spc' = "sleep"
    /\ UNCHANGED <<list, count, i, j, node, newhead, main, crashed>>

-----------------------------------------------------------------------------
(* main *)

MayRead == reads < MaxLines

\* An empty line asks for the list: its head is read before the mutex is locked.
ReadPrint ==
    /\ mpc = "read" /\ MayRead
    /\ lastNode' = head
    /\ printed' = <<>>
    /\ mpc' = "printLock"
    /\ reads' = reads + 1
    /\ UNCHANGED <<list, mutex, sorter, line, crashed>>

ReadLine ==
    /\ mpc = "read" /\ MayRead
    /\ \E l \in Lines : line' = l
    /\ mpc' = "insertLock"
    /\ reads' = reads + 1
    /\ UNCHANGED <<list, mutex, sorter, lastNode, printed, crashed>>

\* The line "q", or the last of MAX_LINES.
ReadQuit ==
    /\ mpc = "read"
    /\ mpc' = "freeLock"
    /\ line' = Quit
    /\ UNCHANGED <<list, mutex, sorter, reads, lastNode, printed, crashed>>

\* The end of the input: the list is freed without the mutex.
ReadEof ==
    /\ mpc = "read" /\ MayRead
    /\ mpc' = "free"
    /\ line' = Eof
    /\ UNCHANGED <<list, mutex, sorter, reads, lastNode, printed, crashed>>

\* Mutant: the mutex is not locked to print.
NeedsMutex_NotPrint == {"insertLock", "freeLock"}

NeedsMutex == {"printLock", "insertLock", "freeLock"}

MainLocks ==
    /\ \/ mpc = "printLock" /\ mpc' = "print"
       \/ mpc = "insertLock" /\ mpc' = "insert"
       \/ mpc = "freeLock" /\ mpc' = "free"
    /\ IF mpc \in NeedsMutex THEN mutex = "free" /\ mutex' = "main" ELSE UNCHANGED mutex
    /\ UNCHANGED <<list, sorter, line, reads, lastNode, printed, crashed>>

PrintNode ==
    /\ mpc = "print" /\ lastNode # Null
    /\ printed' = Append(printed, lastNode)
    /\ lastNode' = next[lastNode]
    /\ UNCHANGED <<list, mutex, sorter, mpc, line, reads, crashed>>

\* insert_after(list.head, lines)
InsertAfter ==
    /\ mpc = "insert"
    /\ value' = Append(value, line)
    /\ next' = [next EXCEPT ![head] = Len(value), ![Len(value)] = next[head]]
    /\ mpc' = "inserted"
    /\ UNCHANGED <<head, mutex, sorter, line, reads, lastNode, printed, crashed>>

MainUnlocks ==
    /\ mpc = "inserted" \/ (mpc = "print" /\ lastNode = Null)
    /\ mutex' = IF mutex = "main" THEN "free" ELSE mutex
    /\ mpc' = "read"
    /\ UNCHANGED <<list, sorter, line, reads, lastNode, printed, crashed>>

\* free_memory, pthread_mutex_unlock and _destroy, and the end of the process.
FreeMemory ==
    /\ mpc = "free"
    /\ head' = Null
    /\ mutex' = IF mutex = "main" THEN "free" ELSE mutex
    /\ mpc' = "exit"
    /\ UNCHANGED <<next, value, sorter, line, reads, lastNode, printed, crashed>>

SorterStep == LockAndCount \/ BeginPass \/ SortStep \/ SortFreed \/ SorterUnlocks
MainStep ==
    ReadPrint \/ ReadLine \/ ReadQuit \/ ReadEof \/ MainLocks \/ PrintNode
    \/ InsertAfter \/ MainUnlocks \/ FreeMemory

Next == SorterStep \/ MainStep

\* What main does without asking the user or waiting for the mutex.
Unasked == PrintNode \/ InsertAfter \/ MainUnlocks \/ FreeMemory

-----------------------------------------------------------------------------
(* Properties. *)

\* The variables have their types.
TypeOK ==
    /\ head \in Nodes \union {Null}
    /\ next \in [0 .. Scratch -> Nodes \union {Null}]
    /\ value \in Seq(Lines \union {EmptyLine})
    /\ mutex \in {"main", "sorter", "free"}
    /\ spc \in {"sleep", "pass", "step", "unlock"}
    /\ count \in Nat /\ i \in Nat /\ j \in Nat
    /\ node \in Nodes \union {Null, Scratch} /\ newhead \in Nodes \union {Null}
    /\ mpc \in {"read", "printLock", "insertLock", "freeLock", "print", "insert",
                "inserted", "free", "exit"}
    /\ line \in Lines \union {EmptyLine, Quit, Eof}
    /\ reads \in 0 .. MaxLines
    /\ lastNode \in Nodes \union {Null}
    /\ printed \in Seq(Nodes)
    /\ crashed \in BOOLEAN

\* Between the steps of a pass no line is lost and none is in the list twice,
\* nor is the scratch node (sortLines, swap, insert_after).
ListWhole ==
    spc # "step" /\ ~Freed =>
        /\ LengthFrom(head) = Cardinality(Nodes)
        /\ \A n \in Nodes : \E k \in 1 .. LengthFrom(head) : Walk(head)[k] = n

\* The sorting thread leaves the list sorted (sortLines).
SortedAtUnlock ==
    spc = "unlock" /\ ~Freed =>
        \A k \in 2 .. LengthFrom(head) :
            ValueOf(Walk(head)[k - 1]) <= ValueOf(Walk(head)[k])

\* The head that main prints from may be an old one: the lines it misses are
\* those that were sorted before that node since.  No line is printed twice.
PrintMissesOnlySmaller ==
    mpc = "print" /\ lastNode = Null =>
        LET shown == {printed[k] : k \in 1 .. Len(printed)}
        IN  /\ Cardinality(shown) = Len(printed)
            /\ \A m \in Nodes \ shown : \A n \in shown : ValueOf(m) <= ValueOf(n)

\* A freed node is used only when the input ends in the middle of a sort; the
\* line "q" frees the list under the mutex (main).
CrashOnlyAtEof == crashed => line = Eof

\* Types, a list without loss or cycle, sorted when the sorter lets it go, and
\* freed nodes used after the end of the input only.
Inv == TypeOK /\ ListWhole /\ SortedAtUnlock /\ CrashOnlyAtEof

=============================================================================
