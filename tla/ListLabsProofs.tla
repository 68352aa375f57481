--------------------------- MODULE ListLabsProofs ---------------------------
(***************************************************************************)
(* What module ListLabs claims of the sorted list of lab17work.c, for any  *)
(* lines and any number of them, and of lab23.c, lab6.c and lab3.c, for    *)
(* any input, any number of threads and any delay.                         *)
(***************************************************************************)
EXTENDS ListLabs, FiniteSetTheorems, SequenceTheorems, FunctionTheorems,
    NaturalsInduction, TLAPS

\* A set of numbers has a least one.
LEMMA LeastOf ==
    ASSUME NEW S \in SUBSET Nat, S # {}
    PROVE  \E n \in S : \A m \in S : n <= m
<1> DEFINE R == {ss \in Nat \X Nat : ss[1] < ss[2]}
<1>1. IsWellFoundedOn(R, Nat)
  BY NatLessThanWellFounded DEF OpToRel
<1>2. ASSUME NEW m \in Nat, NEW k \in Nat, ~ (<<m, k>> \in R) PROVE k <= m
  BY <1>2
<1> HIDE DEF R
<1>3. PICK n \in S : \A m \in S : ~ (<<m, n>> \in R)
  BY <1>1, WFMin
<1>4. ASSUME NEW m \in S PROVE n <= m
  BY <1>2, <1>3
<1>5. QED
  BY <1>4

-----------------------------------------------------------------------------
(* lab17work.c: following the links. *)

\* What follows each node of a walk that ends.
After(g, p) ==
    [k \in 0 .. Lab17!Scratch + 1 |->
        IF k = 0 THEN p ELSE IF g[k - 1] = Lab17!Null THEN Lab17!Null ELSE next[g[k - 1]]]

\* There is one such walk from a node.
LEMMA NthIs ==
    ASSUME NEW p, NEW g, g = After(g, p), SortLines \in Nat
    PROVE  Lab17!Nth(p) = g
<1> DEFINE f == Lab17!Nth(p)
<1>1. f = After(f, p)
  BY DEF Lab17!Nth, After
<1>2. DOMAIN f = 0 .. Lab17!Scratch + 1 /\ DOMAIN g = 0 .. Lab17!Scratch + 1
  BY <1>1 DEF After
<1> DEFINE K == 0 .. Lab17!Scratch + 1
           Differ == {k \in K : f[k] # g[k]}
<1>3. ASSUME Differ # {} PROVE FALSE
  <2>1. Differ \in SUBSET Nat
    BY DEF Lab17!Scratch
  <2>2. PICK n \in Differ : \A m \in Differ : n <= m
    BY <1>3, <2>1, LeastOf
  <2>3. n \in Nat /\ n \in K
    BY <2>1, <2>2
  <2>4. n # 0
    BY <1>1, <2>3 DEF After
  <2>5. n - 1 \in K /\ n - 1 \notin Differ
    BY <2>2, <2>3, <2>4 DEF Lab17!Scratch
  <2>6. f[n - 1] = g[n - 1]
    BY <2>5
  <2> HIDE DEF f
  <2>7. /\ f[n] = IF f[n - 1] = Lab17!Null THEN Lab17!Null ELSE next[f[n - 1]]
        /\ g[n] = IF g[n - 1] = Lab17!Null THEN Lab17!Null ELSE next[g[n - 1]]
    BY <1>1, <2>3, <2>4 DEF After
  <2>8. QED
    BY <2>2, <2>6, <2>7
<1>4. \A k \in K : f[k] = g[k]
  BY <1>3
<1>5. f = [k \in K |-> f[k]] /\ g = [k \in K |-> g[k]]
  BY <1>1 DEF After
<1>6. QED
  BY <1>4, <1>5

LEMMA SortSizes ==
    /\ SortLines \in Nat /\ Lines \subseteq Nat
    /\ Lab17!EmptyLine = 1 /\ Lab17!EmptyLine \notin Lines
    /\ Lab17!Null = 0 - 1 /\ Lab17!Quit = 0 - 2 /\ Lab17!Eof = 0 - 3
    /\ Lab17!Scratch = SortLines + 1
  BY ListLabsAssumption DEF Lab17!EmptyLine, Lab17!Null, Lab17!Quit, Lab17!Eof, Lab17!Scratch

\* o puts the nodes 0 to n - 1 in an order.
Order(o, n) ==
    /\ o \in [0 .. n - 1 -> 0 .. n - 1]
    /\ \A k, l \in 0 .. n - 1 : o[k] = o[l] => k = l
    /\ \A m \in 0 .. n - 1 : \E k \in 0 .. n - 1 : o[k] = m

\* o has all nodes in the order of their links.
Chain(o) ==
    LET N == Len(value)
    IN  /\ Order(o, N)
        /\ \A k \in 0 .. N - 1 : next[o[k]] = IF k = N - 1 THEN Lab17!Null ELSE o[k + 1]

\* The nodes behind place p come after all those before them.
Settled(o, p) ==
    \A k, l \in 0 .. Len(value) - 1 :
        l < k /\ p <= k => Lab17!ValueOf(o[l]) <= Lab17!ValueOf(o[k])

\* The sizes of sets mean the same in module SortedList.
LEMMA SortSize == \A S : Lab17!Cardinality(S) = Cardinality(S)
  BY DEF Lab17!Cardinality, Cardinality

\* A walk along a chain visits it.
LEMMA ChainWalk ==
    ASSUME NEW o, Chain(o), Len(value) \in 1 .. SortLines + 1
    PROVE  /\ Lab17!LengthFrom(o[0]) = Len(value)
           /\ \A k \in 1 .. Len(value) : Lab17!Walk(o[0])[k] = o[k - 1]
<1> USE SortSizes DEF Lab17!Nodes
<1> DEFINE N == Len(value)
           K == 0 .. Lab17!Scratch + 1
           g == [k \in K |-> IF k < N THEN o[k] ELSE Lab17!Null]
<1>1. N \in Nat /\ N >= 1 /\ N <= Lab17!Scratch
  OBVIOUS
<1>2. ASSUME NEW k \in 0 .. N - 1 PROVE o[k] # Lab17!Null
  <2>1. o[k] \in 0 .. Len(value) - 1
    BY <1>2 DEF Chain, Order
  <2>2. o[k] >= 0
    BY <2>1
  <2>3. QED
    BY <2>2
<1>3. g = After(g, o[0])
  <2>1. ASSUME NEW k \in K
        PROVE  g[k] = IF k = 0 THEN o[0] ELSE IF g[k - 1] = Lab17!Null THEN Lab17!Null
                                               ELSE next[g[k - 1]]
    <3>1. CASE k = 0
      BY <1>1, <3>1
    <3>2. CASE k > 0 /\ k < N
      <4>1. k - 1 \in K /\ k - 1 \in 0 .. N - 1 /\ k - 1 # N - 1 /\ (k - 1) + 1 = k
        BY <1>1, <2>1, <3>2
      <4>2. g[k - 1] = o[k - 1] /\ g[k] = o[k]
        BY <2>1, <3>2, <4>1
      <4>3. next[o[k - 1]] = o[k]
        BY <4>1 DEF Chain, Order
      <4>4. QED
        BY <1>2, <3>2, <4>1, <4>2, <4>3
    <3>3. CASE k = N
      <4>1. k - 1 \in K /\ k - 1 \in 0 .. N - 1 /\ k - 1 = N - 1
        BY <1>1, <2>1, <3>3
      <4>2. g[k - 1] = o[k - 1] /\ g[k] = Lab17!Null
        BY <2>1, <3>3, <4>1
      <4>3. next[o[k - 1]] = Lab17!Null
        BY <4>1 DEF Chain, Order
      <4>4. QED
        BY <1>1, <1>2, <3>3, <4>1, <4>2, <4>3
    <3>4. CASE k > N
      <4>1. k - 1 \in K /\ k - 1 >= N /\ k # 0
        BY <1>1, <2>1, <3>4
      <4>2. QED
        BY <2>1, <3>4, <4>1
    <3>5. QED
      BY <1>1, <2>1, <3>1, <3>2, <3>3, <3>4
  <2> HIDE DEF g
  <2>2. g = [k \in K |-> g[k]]
    BY DEF g
  <2>3. QED
    BY <2>1, <2>2 DEF After
<1>4. Lab17!Nth(o[0]) = g
  <2> HIDE DEF g
  <2>1. QED
    BY <1>3, NthIs
<1>5. {k \in K : Lab17!Nth(o[0])[k] # Lab17!Null} = 0 .. N - 1
  <2>1. ASSUME NEW k \in K PROVE g[k] # Lab17!Null <=> k \in 0 .. N - 1
    <3>1. CASE k < N
      <4>1. k \in 0 .. N - 1
        BY <1>1, <2>1, <3>1
      <4>2. g[k] = o[k]
        BY <3>1
      <4>3. QED
        BY <1>2, <4>1, <4>2
    <3>2. CASE ~ (k < N)
      <4>1. k \notin 0 .. N - 1
        BY <1>1, <2>1, <3>2
      <4>2. g[k] = Lab17!Null
        BY <3>2
      <4>3. QED
        BY <4>1, <4>2
    <3>3. QED
      BY <3>1, <3>2
  <2> HIDE DEF g
  <2>2. 0 .. N - 1 \subseteq K
    BY <1>1
  <2> HIDE DEF K
  <2>3. QED
    BY <1>4, <2>1, <2>2
<1>6. Lab17!LengthFrom(o[0]) = N
  <2>1. Cardinality(0 .. N - 1) = N
    <3>1. 0 \in Int /\ N - 1 \in Int /\ ~ (0 > N - 1) /\ (N - 1) - 0 + 1 = N
      BY <1>1
    <3> HIDE DEF N
    <3>2. Cardinality(0 .. N - 1) = IF 0 > N - 1 THEN 0 ELSE (N - 1) - 0 + 1
      BY <3>1, FS_Interval
    <3>3. QED
      BY <3>1, <3>2
  <2>2. Lab17!LengthFrom(o[0]) = Cardinality({k \in K : Lab17!Nth(o[0])[k] # Lab17!Null})
    BY SortSize DEF Lab17!LengthFrom
  <2> HIDE DEF g, K, N
  <2>3. QED
    BY <1>5, <2>1, <2>2
<1>7. ASSUME NEW k \in 1 .. N PROVE Lab17!Walk(o[0])[k] = o[k - 1]
  BY <1>1, <1>4, <1>6, <1>7 DEF Lab17!Walk
<1>8. QED
  BY <1>6, <1>7

\* No node follows NULL.
LEMMA NoWalk == Lab17!LengthFrom(Lab17!Null) = 0
<1> USE SortSizes
<1> DEFINE K == 0 .. Lab17!Scratch + 1
           g == [k \in K |-> Lab17!Null]
<1>1. g = After(g, Lab17!Null)
  BY DEF After
<1>2. Lab17!Nth(Lab17!Null) = g
  <2> HIDE DEF g
  <2>1. QED
    BY <1>1, NthIs
<1>3. {k \in K : Lab17!Nth(Lab17!Null)[k] # Lab17!Null} = {}
  <2>1. \A k \in K : g[k] = Lab17!Null
    OBVIOUS
  <2> HIDE DEF g, K
  <2>2. QED
    BY <1>2, <2>1
<1>4. QED
  BY <1>3, SortSize, FS_EmptySet DEF Lab17!LengthFrom

-----------------------------------------------------------------------------
(* lab17work.c: the inductive invariant. *)

\* Who holds the mutex, and what main has read.
Holders ==
    /\ mutex = "sorter" <=> spc # "sleep"
    /\ mutex = "main" <=> mpc \in {"print", "insert", "inserted"} \/ (mpc = "free" /\ line = Lab17!Quit)
    /\ mpc = "freeLock" => line = Lab17!Quit
    /\ mpc \in {"free", "exit"} => line \in {Lab17!Quit, Lab17!Eof}
    /\ mpc \in {"insertLock", "insert"} => line \in Lines
    /\ crashed => mpc = "exit" /\ line = Lab17!Eof

\* There is a node for each line that main may still read.
Room ==
    /\ Len(value) \in 1 .. SortLines + 1
    /\ Len(value) <= reads + 1
    /\ mpc \in {"insertLock", "insert"} => Len(value) <= reads

\* A pass has put the i - 1 greatest lines to the end, and its step j has the
\* greatest of the first j lines at hand.
PassAt(o) ==
    LET N == Len(value)
    IN  /\ spc \in {"pass", "step"} =>
             /\ count = N /\ N >= 2 /\ i \in 1 .. N - 1
             /\ newhead = o[0]
             /\ Settled(o, N - i + 1)
        /\ spc = "step" =>
             /\ j \in 1 .. N - i
             /\ node = IF j = 1 THEN Lab17!Scratch ELSE o[j - 2]
             /\ j = 1 => next[Lab17!Scratch] = o[0]
             /\ \A l \in 0 .. j - 2 : Lab17!ValueOf(o[l]) <= Lab17!ValueOf(o[j - 1])
        /\ spc = "unlock" => Settled(o, 1)
        /\ spc # "step" => head = o[0]

\* Main prints from the head, or from any place of a sorted list.
PrintAt(o) ==
    LET N == Len(value)
    IN  /\ mpc = "printLock" => printed = <<>> /\ lastNode \in Lab17!Nodes
        /\ mpc = "printLock" /\ spc \in {"sleep", "unlock"} => lastNode = o[0] \/ Settled(o, 1)
        /\ mpc = "print" =>
             \E p \in 0 .. N - 1 :
                 /\ p = 0 \/ Settled(o, 1)
                 /\ p + Len(printed) <= N
                 /\ \A k \in 1 .. Len(printed) : printed[k] = o[p + k - 1]
                 /\ lastNode = IF p + Len(printed) < N THEN o[p + Len(printed)] ELSE Lab17!Null

\* The invariant of lab17work.c that is inductive.
SortCore ==
    /\ Lab17!TypeOK
    /\ Holders
    /\ Room
    /\ IF Lab17!Freed
         THEN head = Lab17!Null /\ (line = Lab17!Quit => spc \in {"sleep", "unlock"})
         ELSE head \in Lab17!Nodes /\ \E o : Chain(o) /\ PassAt(o) /\ PrintAt(o)

-----------------------------------------------------------------------------
(* lab17work.c: the steps. *)

\* The list stays what it is.
LEMMA ListKept ==
    ASSUME NEW o, UNCHANGED <<next, value>>
    PROVE  /\ Chain(o) => Chain(o)'
           /\ \A p : Settled(o, p) => Settled(o, p)'
  BY DEF Chain, Order, Settled, Lab17!Nodes, Lab17!ValueOf, Lab17!Null

\* A chain of one node.
LEMMA SortInit ==
    ASSUME lab = "lab17", Lab17!Init
    PROVE  SortCore
<1> USE SortSizes DEF Lab17!Init
<1> DEFINE o == [k \in 0 .. 0 |-> 0]
<1>1. Len(value) = 1 /\ value[1] = 1 /\ Lab17!Nodes = 0 .. 0
  BY DEF Lab17!Nodes
<1>2. Lab17!TypeOK
  BY <1>1 DEF Lab17!TypeOK
<1>3. Holders /\ Room
  BY <1>1 DEF Holders, Room
<1>4. ~ Lab17!Freed
  BY DEF Lab17!Freed
<1>5. Chain(o)
  BY <1>1 DEF Chain, Order
<1>6. PassAt(o)
  BY <1>1 DEF PassAt
<1>7. PrintAt(o)
  BY DEF PrintAt
<1> HIDE DEF o, Lab17!Init
<1>8. head \in Lab17!Nodes
  BY <1>1 DEF Lab17!Init
<1>9. QED
  BY <1>2, <1>3, <1>4, <1>5, <1>6, <1>7, <1>8 DEF SortCore

\* No step of main but insert_after and free_memory changes the list.
LEMMA MainTypes ==
    ASSUME SortCore,
           \/ Lab17!ReadPrint \/ Lab17!ReadLine \/ Lab17!ReadQuit \/ Lab17!ReadEof
           \/ Lab17!MainLocks \/ Lab17!PrintNode \/ Lab17!MainUnlocks
    PROVE  /\ Lab17!TypeOK' /\ Holders' /\ Room'
           /\ UNCHANGED <<next, value, head, spc, count, i, j, node, newhead>>
           /\ ~ Lab17!Freed /\ ~ Lab17!Freed'
<1> USE SortSizes DEF Lab17!list, Lab17!sorter, Lab17!Freed
<1>1. Lab17!TypeOK /\ Holders /\ Room
  BY DEF SortCore
<1>2. CASE Lab17!ReadPrint
  <2> USE <1>2 DEF Lab17!ReadPrint, Lab17!MayRead
  <2>1. Lab17!TypeOK'
    BY <1>1 DEF Lab17!TypeOK, Lab17!Nodes
  <2>2. Holders' /\ Room'
    BY <1>1 DEF Lab17!TypeOK, Holders, Room
  <2>3. QED
    BY <2>1, <2>2
<1>3. CASE Lab17!ReadLine
  <2> USE <1>3 DEF Lab17!ReadLine, Lab17!MayRead
  <2>1. Lab17!TypeOK'
    BY <1>1 DEF Lab17!TypeOK, Lab17!Nodes
  <2>2. Holders' /\ Room'
    BY <1>1 DEF Lab17!TypeOK, Holders, Room
  <2>3. QED
    BY <2>1, <2>2
<1>4. CASE Lab17!ReadQuit
  <2> USE <1>4 DEF Lab17!ReadQuit
  <2>1. Lab17!TypeOK'
    BY <1>1 DEF Lab17!TypeOK, Lab17!Nodes
  <2>2. Holders' /\ Room'
    BY <1>1 DEF Lab17!TypeOK, Holders, Room
  <2>3. QED
    BY <2>1, <2>2
<1>5. CASE Lab17!ReadEof
  <2> USE <1>5 DEF Lab17!ReadEof
  <2>1. Lab17!TypeOK'
    BY <1>1 DEF Lab17!TypeOK, Lab17!Nodes
  <2>2. Holders' /\ Room'
    BY <1>1 DEF Lab17!TypeOK, Holders, Room
  <2>3. QED
    BY <2>1, <2>2
<1>6. CASE Lab17!MainLocks
  <2> USE <1>6 DEF Lab17!MainLocks, Lab17!NeedsMutex
  <2>1. Lab17!TypeOK'
    BY <1>1 DEF Lab17!TypeOK, Lab17!Nodes
  <2>2. Holders' /\ Room'
    BY <1>1 DEF Lab17!TypeOK, Holders, Room
  <2>3. QED
    BY <2>1, <2>2
<1>7. CASE Lab17!PrintNode
  <2> USE <1>7 DEF Lab17!PrintNode
  <2>1. lastNode \in Lab17!Nodes /\ next[lastNode] \in Lab17!Nodes \union {Lab17!Null}
    BY <1>1 DEF Lab17!TypeOK, Lab17!Nodes, Room
  <2>2. Lab17!TypeOK'
    BY <1>1, <2>1 DEF Lab17!TypeOK, Lab17!Nodes
  <2>3. Holders' /\ Room'
    BY <1>1 DEF Lab17!TypeOK, Holders, Room
  <2>4. QED
    BY <2>2, <2>3
<1>8. CASE Lab17!MainUnlocks
  <2> USE <1>8 DEF Lab17!MainUnlocks
  <2>1. Lab17!TypeOK'
    BY <1>1 DEF Lab17!TypeOK, Lab17!Nodes
  <2>2. Holders' /\ Room'
    BY <1>1 DEF Lab17!TypeOK, Holders, Room
  <2>3. QED
    BY <2>1, <2>2
<1>9. QED
  BY <1>2, <1>3, <1>4, <1>5, <1>6, <1>7, <1>8

\* Where main starts to print, and how far it is.
LEMMA MainPrints ==
    ASSUME SortCore, NEW o, Chain(o), PassAt(o), PrintAt(o), ~ Lab17!Freed, head \in Lab17!Nodes,
           \/ Lab17!ReadPrint \/ Lab17!ReadLine \/ Lab17!ReadQuit \/ Lab17!ReadEof
           \/ Lab17!MainLocks \/ Lab17!PrintNode \/ Lab17!MainUnlocks
    PROVE  PrintAt(o)'
<1> USE SortSizes DEF Lab17!list, Lab17!sorter
<1>1. Lab17!TypeOK /\ Holders /\ Room
  BY DEF SortCore
<1> DEFINE N == Len(value)
<1>2. CASE Lab17!ReadPrint
  BY <1>1, <1>2 DEF Lab17!ReadPrint, PrintAt, PassAt, Settled, Lab17!Nodes, Lab17!ValueOf
<1>3. CASE Lab17!ReadLine \/ Lab17!ReadQuit \/ Lab17!ReadEof \/ Lab17!MainUnlocks
  BY <1>3 DEF Lab17!ReadLine, Lab17!ReadQuit, Lab17!ReadEof, Lab17!MainUnlocks, PrintAt
<1>4. CASE Lab17!MainLocks
  <2>1. CASE mpc # "printLock"
    BY <1>4, <2>1 DEF Lab17!MainLocks, PrintAt
  <2>2. CASE mpc = "printLock"
    <3>1. /\ mpc' = "print" /\ mutex = "free" /\ spc = "sleep"
          /\ UNCHANGED <<value, next, lastNode, printed>>
      BY <1>1, <1>4, <2>2 DEF Lab17!MainLocks, Lab17!NeedsMutex, Holders
    <3>2. /\ printed = <<>> /\ lastNode \in Lab17!Nodes
          /\ lastNode = o[0] \/ Settled(o, 1)
      BY <2>2, <3>1 DEF PrintAt
    <3>3. N \in Nat /\ N >= 1
      BY <1>1 DEF Room
    <3>4. PICK p \in 0 .. N - 1 : lastNode = o[p] /\ (p = 0 \/ Settled(o, 1))
      BY <3>2, <3>3 DEF Chain, Order, Lab17!Nodes
    <3>5. Settled(o, 1) => Settled(o, 1)'
      BY <3>1, ListKept
    <3>6. /\ p + Len(printed) = p /\ p < N
          /\ \A k \in 1 .. Len(printed) : printed[k] = o[p + k - 1]
      BY <3>2, <3>3
    <3>7. QED
      BY <3>1, <3>3, <3>4, <3>5, <3>6 DEF PrintAt
  <2>3. QED
    BY <2>1, <2>2
<1>5. CASE Lab17!PrintNode
  <2>1. /\ mpc = "print" /\ mpc' = "print" /\ lastNode # Lab17!Null
        /\ printed' = Append(printed, lastNode) /\ lastNode' = next[lastNode]
        /\ UNCHANGED <<value, next>>
    BY <1>5 DEF Lab17!PrintNode
  <2>2. N \in Nat /\ N >= 1 /\ printed \in Seq(Lab17!Nodes)
    BY <1>1 DEF Room, Lab17!TypeOK
  <2>3. PICK p \in 0 .. N - 1 :
                 /\ p = 0 \/ Settled(o, 1)
                 /\ p + Len(printed) <= N
                 /\ \A k \in 1 .. Len(printed) : printed[k] = o[p + k - 1]
                 /\ lastNode = IF p + Len(printed) < N THEN o[p + Len(printed)] ELSE Lab17!Null
    BY <2>1 DEF PrintAt
  <2> DEFINE q == p + Len(printed)
  <2>4. q \in 0 .. N - 1 /\ lastNode = o[q]
    BY <2>1, <2>2, <2>3
  <2>5. Len(printed') = Len(printed) + 1 /\ p + Len(printed') = q + 1
    BY <2>1, <2>2
  <2>6. lastNode' = IF q = N - 1 THEN Lab17!Null ELSE o[q + 1]
    BY <2>1, <2>4 DEF Chain, Order
  <2>7. ASSUME NEW k \in 1 .. Len(printed') PROVE printed'[k] = o[p + k - 1]
    <3>1. lastNode \in Lab17!Nodes
      BY <2>2, <2>4 DEF Chain, Order, Lab17!Nodes
    <3>2. CASE k = Len(printed) + 1
      <4>1. printed'[k] = lastNode /\ p + k - 1 = q
        BY <2>1, <2>2, <3>1, <3>2
      <4>2. QED
        BY <2>4, <4>1
    <3>3. CASE k # Len(printed) + 1
      <4>1. k \in 1 .. Len(printed)
        BY <2>2, <2>5, <3>3
      <4>2. printed'[k] = printed[k]
        BY <2>1, <2>2, <3>1, <4>1
      <4>3. QED
        BY <2>3, <4>1, <4>2
    <3>4. QED
      BY <3>2, <3>3
  <2>8. Settled(o, 1) => Settled(o, 1)'
    BY <2>1, ListKept
  <2>9. p + Len(printed') <= N' /\ N' = N
    BY <2>1, <2>2, <2>4, <2>5
  <2>10. lastNode' = IF p + Len(printed') < N THEN o[p + Len(printed')] ELSE Lab17!Null
    BY <2>2, <2>4, <2>5, <2>6
  <2>11. QED
    BY <2>1, <2>3, <2>7, <2>8, <2>9, <2>10 DEF PrintAt
<1>6. QED
  BY <1>2, <1>3, <1>4, <1>5

\* Main reads, waits for the mutex, prints and lets it go.
LEMMA MainKeeps ==
    ASSUME SortCore,
           \/ Lab17!ReadPrint \/ Lab17!ReadLine \/ Lab17!ReadQuit \/ Lab17!ReadEof
           \/ Lab17!MainLocks \/ Lab17!PrintNode \/ Lab17!MainUnlocks
    PROVE  SortCore'
<1>1. /\ Lab17!TypeOK' /\ Holders' /\ Room'
      /\ UNCHANGED <<next, value, head, spc, count, i, j, node, newhead>>
      /\ ~ Lab17!Freed /\ ~ Lab17!Freed'
  BY MainTypes
<1>2. head \in Lab17!Nodes /\ \E o : Chain(o) /\ PassAt(o) /\ PrintAt(o)
  BY <1>1 DEF SortCore
<1>3. PICK o : Chain(o) /\ PassAt(o) /\ PrintAt(o)
  BY <1>2
<1>4. Chain(o)' /\ \A p : Settled(o, p) => Settled(o, p)'
  BY <1>1, <1>3, ListKept
<1>5. PassAt(o)'
  BY <1>1, <1>3, <1>4 DEF PassAt, Lab17!ValueOf
<1>6. PrintAt(o)'
  BY <1>1, <1>2, <1>3, MainPrints
<1>7. head' \in Lab17!Nodes'
  BY <1>1, <1>2 DEF Lab17!Nodes
<1>8. QED
  BY <1>1, <1>4, <1>5, <1>6, <1>7 DEF SortCore

\* The order with node n put behind the first.
PutSecond(o, n) == [k \in 0 .. n |-> IF k = 0 THEN o[0] ELSE IF k = 1 THEN n ELSE o[k - 1]]

LEMMA SecondPut ==
    ASSUME NEW n \in Nat, n >= 1, NEW o, Order(o, n)
    PROVE  LET oo == PutSecond(o, n)
           IN  /\ oo[0] = o[0] /\ oo[1] = n
               /\ \A k \in 2 .. n : oo[k] = o[k - 1]
               /\ Order(oo, n + 1)
<1> DEFINE oo == PutSecond(o, n)
<1>1. oo[0] = o[0] /\ oo[1] = n
  BY DEF PutSecond
<1>2. \A k \in 2 .. n : oo[k] = o[k - 1]
  BY DEF PutSecond
<1>3. (n + 1) - 1 = n
  OBVIOUS
<1>4. \A k \in 0 .. n - 1 : o[k] \in 0 .. n - 1 /\ o[k] # n /\ o[k] \in 0 .. n
  <2>1. ASSUME NEW k \in 0 .. n - 1 PROVE o[k] \in 0 .. n - 1
    BY DEF Order
  <2>2. \A m \in 0 .. n - 1 : m # n /\ m \in 0 .. n
    OBVIOUS
  <2>3. QED
    BY <2>1, <2>2
<1>5. DOMAIN oo = 0 .. n /\ oo = [k \in 0 .. n |-> oo[k]]
  BY DEF PutSecond
<1> HIDE DEF oo
<1>6. ASSUME NEW k \in 0 .. n PROVE oo[k] \in 0 .. n
  <2>1. CASE k = 0 \/ k = 1
    BY <1>1, <1>4, <2>1
  <2>2. CASE k >= 2
    <3>1. k \in 2 .. n /\ k - 1 \in 0 .. n - 1
      BY <2>2
    <3>2. QED
      BY <1>2, <1>4, <3>1
  <2>3. QED
    BY <2>1, <2>2
<1>7. oo \in [0 .. n -> 0 .. n]
  BY <1>5, <1>6
<1>8. ASSUME NEW k \in 0 .. n, NEW l \in 0 .. n, oo[k] = oo[l] PROVE k = l
  <2>1. \A m \in 0 .. n : m = 0 \/ m = 1 \/ (m \in 2 .. n /\ m - 1 \in 1 .. n - 1)
    OBVIOUS
  <2>2. \A m \in 2 .. n : oo[m] = o[m - 1] /\ m - 1 \in 0 .. n - 1 /\ m - 1 # 0
    BY <1>2
  <2>3. \A a, b \in 0 .. n - 1 : o[a] = o[b] => a = b
    BY DEF Order
  <2>4. 0 \in 0 .. n - 1
    OBVIOUS
  <2>5. CASE k = 1 \/ l = 1
    BY <1>1, <1>4, <1>8, <2>1, <2>2, <2>4, <2>5
  <2>6. CASE k # 1 /\ l # 1
    <3>1. CASE k = 0 \/ l = 0
      BY <1>1, <1>8, <2>1, <2>2, <2>3, <2>4, <2>6, <3>1
    <3>2. CASE k # 0 /\ l # 0
      <4>1. k \in 2 .. n /\ l \in 2 .. n
        BY <2>1, <2>6, <3>2
      <4>2. o[k - 1] = o[l - 1]
        BY <1>8, <2>2, <4>1
      <4>3. k - 1 = l - 1
        BY <2>2, <2>3, <4>1, <4>2
      <4>4. QED
        BY <4>3
    <3>3. QED
      BY <3>1, <3>2
  <2>7. QED
    BY <2>5, <2>6
<1>9. ASSUME NEW m \in 0 .. n PROVE \E k \in 0 .. n : oo[k] = m
  <2>1. CASE m = n
    BY <1>1, <2>1
  <2>2. CASE m # n
    <3>1. m \in 0 .. n - 1
      BY <2>2
    <3>2. PICK k \in 0 .. n - 1 : o[k] = m
      BY <3>1 DEF Order
    <3>3. CASE k = 0
      BY <1>1, <3>2, <3>3
    <3>4. CASE k # 0
      <4>1. k + 1 \in 2 .. n /\ k + 1 \in 0 .. n /\ (k + 1) - 1 = k
        BY <3>4
      <4>2. QED
        BY <1>2, <3>2, <4>1
    <3>5. QED
      BY <3>3, <3>4
  <2>3. QED
    BY <2>1, <2>2
<1>10. Order(oo, n + 1)
  BY <1>3, <1>7, <1>8, <1>9 DEF Order
<1>11. QED
  BY <1>1, <1>2, <1>10 DEF oo

\* insert_after puts the new node behind the first.
LEMMA InsertKeeps ==
    ASSUME SortCore, Lab17!InsertAfter
    PROVE  SortCore'
<1> USE SortSizes DEF Lab17!InsertAfter, Lab17!sorter
<1>1. Lab17!TypeOK /\ Holders /\ Room /\ ~ Lab17!Freed
  BY DEF SortCore, Lab17!Freed
<1>2. head \in Lab17!Nodes /\ \E o : Chain(o) /\ PassAt(o) /\ PrintAt(o)
  BY <1>1 DEF SortCore
<1>3. PICK o : Chain(o) /\ PassAt(o) /\ PrintAt(o)
  BY <1>2
<1> DEFINE N == Len(value)
<1>4. spc = "sleep" /\ head = o[0] /\ line \in Lines
  BY <1>1, <1>3 DEF Holders, PassAt
<1>5. N \in Nat /\ N >= 1 /\ N <= SortLines /\ N <= reads /\ value \in Seq(Lines \union {1})
  BY <1>1 DEF Room, Lab17!TypeOK
<1>6. /\ Len(value') = N + 1 /\ value'[N + 1] = line
      /\ \A k \in 1 .. N : value'[k] = value[k]
      /\ value' \in Seq(Lines \union {1})
  BY <1>4, <1>5
<1>7. Lab17!Nodes = 0 .. N - 1 /\ Lab17!Nodes' = 0 .. N
  BY <1>5, <1>6 DEF Lab17!Nodes
<1>8. /\ next \in [0 .. Lab17!Scratch -> Lab17!Nodes \union {Lab17!Null}]
      /\ head \in 0 .. Lab17!Scratch /\ N \in 0 .. Lab17!Scratch /\ head # N
  BY <1>1, <1>2, <1>5, <1>7 DEF Lab17!TypeOK
<1>9. /\ next'[head] = N /\ next'[N] = next[head]
      /\ \A m \in 0 .. Lab17!Scratch : m # head /\ m # N => next'[m] = next[m]
      /\ next' \in [0 .. Lab17!Scratch -> Lab17!Nodes' \union {Lab17!Null}]
  <2>1. next[head] \in Lab17!Nodes' \union {Lab17!Null} /\ N \in Lab17!Nodes'
    BY <1>5, <1>7, <1>8
  <2>2. next \in [0 .. Lab17!Scratch -> Lab17!Nodes' \union {Lab17!Null}]
    BY <1>5, <1>7, <1>8
  <2>3. QED
    BY <1>8, <2>1, <2>2
<1>10. Lab17!TypeOK'
  <2>1. {head, newhead, lastNode} \subseteq Lab17!Nodes' \union {Lab17!Null}
    BY <1>1, <1>5, <1>7 DEF Lab17!TypeOK
  <2>2. node \in Lab17!Nodes' \union {Lab17!Null, Lab17!Scratch}
    BY <1>1, <1>5, <1>7 DEF Lab17!TypeOK
  <2>3. printed \in Seq(Lab17!Nodes')
    <3>1. printed \in Seq(Lab17!Nodes) /\ Lab17!Nodes \subseteq Lab17!Nodes'
      BY <1>1, <1>5, <1>7 DEF Lab17!TypeOK
    <3>2. QED
      BY <3>1
  <2>4. value' \in Seq(Lines \union {Lab17!EmptyLine})
    BY <1>6
  <2> HIDE DEF Lab17!InsertAfter
  <2>5. /\ mpc' = "inserted"
        /\ UNCHANGED <<head, mutex, spc, count, i, j, node, newhead, line, reads, lastNode, printed, crashed>>
    BY DEF Lab17!InsertAfter
  <2>6. QED
    BY <1>1, <1>9, <2>1, <2>2, <2>3, <2>4, <2>5 DEF Lab17!TypeOK
<1>11. Holders' /\ Room'
  <2>1. Holders'
    BY <1>1 DEF Holders
  <2>2. mpc' = "inserted" /\ reads' = reads /\ reads \in Nat
    BY <1>1 DEF Lab17!TypeOK
  <2> HIDE DEF Lab17!InsertAfter, N
  <2>3. N + 1 \in 1 .. SortLines + 1 /\ N + 1 <= reads + 1
    BY <1>5, <2>2
  <2>4. QED
    BY <1>6, <2>1, <2>2, <2>3 DEF Room
<1>12. Order(o, N)
  BY <1>3 DEF Chain
<1> HIDE DEF Lab17!InsertAfter
<1>13. PICK oo : /\ oo[0] = o[0] /\ oo[1] = N
                 /\ \A k \in 2 .. N : oo[k] = o[k - 1]
                 /\ Order(oo, N + 1)
  <2> HIDE DEF N
  <2>1. QED
    BY <1>5, <1>12, SecondPut
<1>14. Chain(oo)'
  <2>1. ASSUME NEW k \in 0 .. N PROVE next'[oo[k]] = IF k = N THEN Lab17!Null ELSE oo[k + 1]
    <3>1. \A l \in 0 .. N - 1 : /\ next[o[l]] = IF l = N - 1 THEN Lab17!Null ELSE o[l + 1]
                                /\ o[l] \in 0 .. N - 1
      BY <1>3, <1>12 DEF Chain, Order
    <3> HIDE DEF N
    <3>2. 0 \in 0 .. N - 1 /\ 0 # N
      BY <1>5
    <3>3. CASE k = 0
      BY <1>4, <1>9, <1>13, <3>2, <3>3
    <3>4. CASE k = 1
      <4>1. next'[oo[1]] = next[o[0]]
        BY <1>4, <1>9, <1>13
      <4>2. next[o[0]] = IF N = 1 THEN Lab17!Null ELSE o[1]
        BY <1>5, <3>1, <3>2
      <4>3. N # 1 => 2 \in 2 .. N /\ 2 - 1 = 1
        BY <1>5
      <4>4. N # 1 => oo[2] = o[1]
        BY <1>13, <4>3
      <4>5. QED
        BY <3>4, <4>1, <4>2, <4>4
    <3>5. CASE k # 0 /\ k # 1
      <4>1. k \in 2 .. N /\ k - 1 \in 0 .. N - 1 /\ k - 1 # 0
        BY <1>5, <3>5
      <4>2. oo[k] = o[k - 1]
        BY <1>13, <4>1
      <4>3. o[k - 1] # head
        BY <1>4, <1>12, <3>2, <4>1 DEF Order
      <4>4. o[k - 1] # N /\ o[k - 1] \in 0 .. Lab17!Scratch
        <5>1. o[k - 1] \in 0 .. N - 1
          BY <3>1, <4>1
        <5>2. \A m \in 0 .. N - 1 : m # N /\ m \in 0 .. Lab17!Scratch
          BY <1>5
        <5>3. QED
          BY <5>1, <5>2
      <4>5. next'[o[k - 1]] = next[o[k - 1]]
        BY <1>9, <4>3, <4>4
      <4>6. next[o[k - 1]] = IF k - 1 = N - 1 THEN Lab17!Null ELSE o[(k - 1) + 1]
        BY <3>1, <4>1
      <4>7. (k - 1) + 1 = k /\ (k - 1 = N - 1 <=> k = N)
        BY <1>5
      <4>8. k # N => k + 1 \in 2 .. N /\ (k + 1) - 1 = k
        BY <1>5, <4>1
      <4>9. k # N => oo[k + 1] = o[k]
        BY <1>13, <4>8
      <4>10. QED
        BY <4>2, <4>5, <4>6, <4>7, <4>9
    <3>6. QED
      BY <3>3, <3>4, <3>5
  <2>2. Len(value') = N + 1 /\ Len(value') - 1 = N
    BY <1>5, <1>6
  <2> HIDE DEF N
  <2>3. QED
    BY <1>13, <2>1, <2>2 DEF Chain
<1>15. PassAt(oo)'
  <2>1. spc' = "sleep" /\ head' = oo[0]
    BY <1>4, <1>13 DEF Lab17!InsertAfter, Lab17!sorter
  <2>2. QED
    BY <2>1 DEF PassAt
<1>16. PrintAt(oo)'
  BY DEF PrintAt, Lab17!InsertAfter
<1>17. head' \in Lab17!Nodes' /\ ~ Lab17!Freed'
  BY <1>2, <1>5, <1>7 DEF Lab17!Freed, Lab17!InsertAfter
<1>18. QED
  BY <1>10, <1>11, <1>14, <1>15, <1>16, <1>17 DEF SortCore

\* Main frees the list when no sort is under way, or at the end of the input.
LEMMA FreeKeeps ==
    ASSUME SortCore, Lab17!FreeMemory
    PROVE  SortCore'
<1> USE SortSizes DEF Lab17!FreeMemory, Lab17!sorter
<1>1. Lab17!TypeOK /\ Holders /\ Room /\ ~ Lab17!Freed
  BY DEF SortCore, Lab17!Freed
<1>2. Lab17!TypeOK'
  BY <1>1 DEF Lab17!TypeOK, Lab17!Nodes
<1>3. Holders' /\ Room'
  BY <1>1 DEF Holders, Room
<1>4. Lab17!Freed' /\ head' = Lab17!Null
  BY DEF Lab17!Freed
<1>5. line' = Lab17!Quit => spc' = "sleep"
  BY <1>1 DEF Holders
<1>6. QED
  BY <1>2, <1>3, <1>4, <1>5 DEF SortCore

-----------------------------------------------------------------------------
(* lab17work.c: the sorting thread. *)

\* The nodes are counted, unless main has freed them.
LEMMA LockKeeps ==
    ASSUME SortCore, Lab17!LockAndCount
    PROVE  SortCore'
<1> USE SortSizes DEF Lab17!LockAndCount, Lab17!list, Lab17!main
<1>1. Lab17!TypeOK /\ Holders /\ Room
  BY DEF SortCore
<1> DEFINE N == Len(value)
<1>2. N \in 1 .. SortLines + 1 /\ value \in Seq(Lines \union {1})
  BY <1>1 DEF Room, Lab17!TypeOK
<1>3. Holders' /\ Room'
  <2>1. Room'
    BY <1>1 DEF Room
  <2>2. Holders'
    BY <1>1 DEF Holders
  <2>3. QED
    BY <2>1, <2>2
<1>4. ASSUME Lab17!LengthFrom(head) \in Nat PROVE Lab17!TypeOK'
  BY <1>1, <1>4 DEF Lab17!TypeOK, Lab17!Nodes
<1>5. CASE Lab17!Freed
  <2>1. head = Lab17!Null
    BY <1>5 DEF SortCore
  <2>2. Lab17!LengthFrom(head) = 0
    BY <2>1, NoWalk
  <2>3. spc' = "unlock" /\ Lab17!Freed' /\ head' = Lab17!Null
    BY <1>5, <2>1, <2>2 DEF Lab17!Freed
  <2>4. Lab17!TypeOK'
    BY <1>4, <2>2
  <2>5. QED
    BY <1>3, <2>3, <2>4 DEF SortCore
<1>6. CASE ~ Lab17!Freed
  <2>1. head \in Lab17!Nodes /\ \E o : Chain(o) /\ PassAt(o) /\ PrintAt(o)
    BY <1>6 DEF SortCore
  <2>2. PICK o : Chain(o) /\ PassAt(o) /\ PrintAt(o)
    BY <2>1
  <2>3. head = o[0]
    BY <2>2 DEF PassAt
  <2>5. count' = N /\ newhead' = o[0] /\ i' = 1
    BY <1>2, <2>2, <2>3, ChainWalk
  <2>6. Lab17!TypeOK'
    BY <1>2, <1>4, <2>5
  <2>7. UNCHANGED <<next, value, head, mpc, printed, lastNode>> /\ spc' \in {"pass", "unlock"}
    OBVIOUS
  <2>8. Chain(o)' /\ \A p : Settled(o, p) => Settled(o, p)'
    BY <2>2, <2>7, ListKept
  <2>9. spc' = "pass" => N >= 2
    BY <1>2, <2>5
  <2>10. spc' = "unlock" => N = 1
    BY <1>2, <2>5
  <2>11. Settled(o, N)' /\ (N = 1 => Settled(o, 1)')
    <3>1. ASSUME NEW k \in 0 .. N - 1 PROVE ~ (N <= k)
      BY <1>2
    <3>2. N' = N
      BY <2>7
    <3> HIDE DEF Lab17!LockAndCount, N
    <3>3. \A k \in 0 .. N - 1 : ~ (N <= k)
      BY <3>1
    <3>4. Settled(o, N)'
      BY <3>2, <3>3 DEF Settled, N
    <3>5. N = 1 => \A k \in 0 .. N - 1 : ~ (1 <= k)
      BY <1>2
    <3>6. N = 1 => Settled(o, 1)'
      BY <3>2, <3>5 DEF Settled, N
    <3>7. QED
      BY <3>4, <3>6
  <2>12. PassAt(o)'
    <3>1. N - 1 + 1 = N /\ (N >= 2 => 1 \in 1 .. N - 1) /\ N' = N
      BY <1>2, <2>7
    <3> HIDE DEF Lab17!LockAndCount
    <3>2. QED
      BY <2>3, <2>5, <2>7, <2>9, <2>10, <2>11, <3>1 DEF PassAt
  <2>13. PrintAt(o)'
    <3>1. mpc # "print"
      BY <1>1 DEF Holders
    <3>2. mpc = "printLock" => printed = <<>> /\ lastNode \in Lab17!Nodes
      BY <2>2 DEF PrintAt
    <3>3. spc' = "unlock" => Settled(o, 1)'
      BY <2>10, <2>11
    <3> HIDE DEF Lab17!LockAndCount
    <3>4. QED
      BY <2>7, <3>1, <3>2, <3>3 DEF PrintAt, Lab17!Nodes
  <2>14. head' \in Lab17!Nodes' /\ ~ Lab17!Freed'
    BY <1>6, <2>1 DEF Lab17!Freed, Lab17!Nodes
  <2>15. QED
    BY <1>3, <2>6, <2>8, <2>12, <2>13, <2>14 DEF SortCore
<1>7. QED
  BY <1>5, <1>6

\* A pass begins.
LEMMA BeginKeeps ==
    ASSUME SortCore, Lab17!BeginPass
    PROVE  SortCore'
<1> USE SortSizes DEF Lab17!BeginPass, Lab17!main
<1>1. Lab17!TypeOK /\ Holders /\ Room
  BY DEF SortCore
<1> DEFINE N == Len(value)
<1>2. N \in 1 .. SortLines + 1 /\ Lab17!Nodes = 0 .. N - 1
  BY <1>1 DEF Room, Lab17!Nodes
<1>3. Holders' /\ Room'
  BY <1>1 DEF Holders, Room
<1>4. Lab17!TypeOK'
  BY <1>1 DEF Lab17!TypeOK, Lab17!Nodes
<1>5. CASE Lab17!Freed
  <2>1. head' = Lab17!Null /\ Lab17!Freed' /\ line' # Lab17!Quit
    BY <1>5 DEF SortCore, Lab17!Freed
  <2>2. QED
    BY <1>3, <1>4, <2>1 DEF SortCore
<1>6. CASE ~ Lab17!Freed
  <2>1. head \in Lab17!Nodes /\ \E o : Chain(o) /\ PassAt(o) /\ PrintAt(o)
    BY <1>6 DEF SortCore
  <2>2. PICK o : Chain(o) /\ PassAt(o) /\ PrintAt(o)
    BY <2>1
  <2>3. \A m \in 0 .. N - 1 : m \in 0 .. Lab17!Scratch /\ m # Lab17!Scratch
    BY <1>2
  <2>4. next \in [0 .. Lab17!Scratch -> Lab17!Nodes \union {Lab17!Null}]
    BY <1>1 DEF Lab17!TypeOK
  <2>5. next'[Lab17!Scratch] = newhead /\ \A m \in 0 .. N - 1 : next'[m] = next[m]
    BY <2>3, <2>4
  <2>6. /\ newhead = o[0] /\ count = N /\ N >= 2 /\ i \in 1 .. N - 1 /\ Settled(o, N - i + 1)
        /\ head = o[0]
    BY <2>2 DEF PassAt
  <2>7. UNCHANGED <<value, head, count, i, newhead, mpc, printed, lastNode>> /\ spc' = "step"
    OBVIOUS
  <2>8. node' = Lab17!Scratch /\ j' = 1
    OBVIOUS
  <2> HIDE DEF Lab17!BeginPass
  <2>9. Chain(o)'
    <3>1. \A k \in 0 .. N - 1 : o[k] \in 0 .. N - 1
      BY <2>2 DEF Chain, Order
    <3>2. QED
      BY <2>2, <2>5, <2>7, <3>1 DEF Chain
  <2>10. PassAt(o)'
    <3>1. \A p : Settled(o, p) => Settled(o, p)'
      BY <2>7 DEF Settled, Lab17!ValueOf
    <3>2. 1 \in 1 .. N - i /\ 0 .. 1 - 2 = {}
      BY <1>2, <2>6
    <3>3. QED
      BY <2>5, <2>6, <2>7, <2>8, <3>1, <3>2 DEF PassAt
  <2>11. PrintAt(o)'
    <3>1. mpc # "print"
      BY <1>1 DEF Holders, Lab17!BeginPass
    <3>2. mpc = "printLock" => printed = <<>> /\ lastNode \in Lab17!Nodes
      BY <2>2 DEF PrintAt
    <3>3. QED
      BY <2>7, <3>1, <3>2 DEF PrintAt, Lab17!Nodes
  <2>12. head' \in Lab17!Nodes' /\ ~ Lab17!Freed'
    BY <1>6, <2>1, <2>7 DEF Lab17!Freed, Lab17!Nodes
  <2>13. QED
    BY <1>3, <1>4, <2>9, <2>10, <2>11, <2>12 DEF SortCore
<1>7. QED
  BY <1>5, <1>6

\* Two neighbours change places in an order.
LEMMA SwapOrder ==
    ASSUME NEW n \in Nat, NEW o, Order(o, n), NEW k \in 1 .. n - 1
    PROVE  \E oo : /\ Order(oo, n)
                   /\ oo[k - 1] = o[k] /\ oo[k] = o[k - 1]
                   /\ \A m \in 0 .. n - 1 : m # k - 1 /\ m # k => oo[m] = o[m]
<1> DEFINE oo == [o EXCEPT ![k - 1] = o[k], ![k] = o[k - 1]]
<1>1. k - 1 \in 0 .. n - 1 /\ k \in 0 .. n - 1 /\ k - 1 # k
  OBVIOUS
<1>2. o \in [0 .. n - 1 -> 0 .. n - 1]
  BY DEF Order
<1>3. oo \in [0 .. n - 1 -> 0 .. n - 1]
  BY <1>1, <1>2
<1>4. oo[k - 1] = o[k] /\ oo[k] = o[k - 1]
  BY <1>1, <1>2
<1>5. \A m \in 0 .. n - 1 : m # k - 1 /\ m # k => oo[m] = o[m]
  BY <1>2
<1> HIDE DEF oo
<1>6. \A a, b \in 0 .. n - 1 : o[a] = o[b] => a = b
  BY DEF Order
<1>7. \A a, b \in 0 .. n - 1 : oo[a] = oo[b] => a = b
  BY <1>1, <1>4, <1>5, <1>6
<1>8. ASSUME NEW m \in 0 .. n - 1 PROVE \E a \in 0 .. n - 1 : oo[a] = m
  <2>1. PICK a \in 0 .. n - 1 : o[a] = m
    BY DEF Order
  <2>2. CASE a = k
    BY <1>1, <1>4, <2>1, <2>2
  <2>3. CASE a = k - 1
    BY <1>1, <1>4, <2>1, <2>3
  <2>4. CASE a # k /\ a # k - 1
    BY <1>5, <2>1, <2>4
  <2>5. QED
    BY <2>2, <2>3, <2>4
<1>9. Order(oo, n)
  BY <1>3, <1>7, <1>8 DEF Order
<1>10. QED
  BY <1>4, <1>5, <1>9

\* A step puts the greatest of the first j + 1 lines at place j.
LEMMA StepOrders ==
    ASSUME SortCore, NEW o, Chain(o), PassAt(o), Lab17!SortStep
    PROVE  \E oo : /\ Chain(oo)'
                   /\ oo[0] = newhead' /\ oo[j - 1] = node'
                   /\ Settled(oo, Len(value) - i + 1)
                   /\ \A l \in 0 .. j - 1 : Lab17!ValueOf(oo[l]) <= Lab17!ValueOf(oo[j])
<1> USE SortSizes
<1>1. Lab17!TypeOK /\ Room
  BY DEF SortCore
<1>2. PICK n \in Nat : n = Len(value)
  BY <1>1 DEF Room
<1>3. /\ n >= 2 /\ n <= SortLines + 1 /\ i \in 1 .. n - 1 /\ j \in 1 .. n - i /\ j \in 1 .. n - 1
      /\ newhead = o[0] /\ Settled(o, n - i + 1)
      /\ node = IF j = 1 THEN Lab17!Scratch ELSE o[j - 2]
      /\ j = 1 => next[Lab17!Scratch] = o[0]
      /\ \A l \in 0 .. j - 2 : Lab17!ValueOf(o[l]) <= Lab17!ValueOf(o[j - 1])
  BY <1>1, <1>2 DEF PassAt, Room, Lab17!SortStep
<1>4. /\ Order(o, n)
      /\ \A k \in 0 .. n - 1 : next[o[k]] = IF k = n - 1 THEN Lab17!Null ELSE o[k + 1]
  BY <1>2 DEF Chain
<1>5. /\ value \in Seq(Lines \union {1})
      /\ next \in [0 .. Lab17!Scratch -> Lab17!Nodes \union {Lab17!Null}]
  BY <1>1 DEF Lab17!TypeOK
<1>6. \A m \in 0 .. n - 1 : /\ m \in 0 .. Lab17!Scratch /\ m # Lab17!Scratch
                            /\ Lab17!ValueOf(m) \in Nat
  <2>1. \A m \in 0 .. n - 1 : m \in 0 .. Lab17!Scratch /\ m # Lab17!Scratch /\ m + 1 \in 1 .. n
    BY <1>3
  <2>2. \A m \in 1 .. n : value[m] \in Lines \union {1}
    BY <1>2, <1>5
  <2>3. ASSUME NEW m \in 0 .. n - 1 PROVE value[m + 1] \in Nat
    <3>1. value[m + 1] \in Lines \union {1}
      BY <2>1, <2>2
    <3>2. \A x \in Lines \union {1} : x \in Nat
      OBVIOUS
    <3>3. QED
      BY <3>1, <3>2
  <2>4. QED
    BY <2>1, <2>3 DEF Lab17!ValueOf
<1>7. \A k \in 0 .. n - 1 : o[k] \in 0 .. n - 1
  BY <1>4 DEF Order
<1>8. \A k \in 0 .. n - 1 : o[k] \in 0 .. Lab17!Scratch /\ o[k] # Lab17!Scratch /\ Lab17!ValueOf(o[k]) \in Nat
  BY <1>6, <1>7
<1>9. \A k, l \in 0 .. n - 1 : o[k] = o[l] => k = l
  BY <1>4 DEF Order
<1>10. j - 1 \in 0 .. n - 1 /\ j \in 0 .. n - 1 /\ j - 1 # j /\ (j - 1) + 1 = j /\ j - 1 # n - 1
  BY <1>3
<1>11. j # 1 => j - 2 \in 0 .. n - 1 /\ j - 2 # n - 1 /\ (j - 2) + 1 = j - 1 /\ j - 2 # j /\ j - 2 # j - 1
  BY <1>3
<1>12. next[node] = o[j - 1] /\ next[o[j - 1]] = o[j]
  BY <1>3, <1>4, <1>10, <1>11
<1>13. node \in 0 .. Lab17!Scratch /\ node # o[j - 1] /\ node # o[j] /\ o[j - 1] # o[j]
  BY <1>3, <1>8, <1>9, <1>10, <1>11
<1>14. /\ next' = IF Lab17!ValueOf(o[j - 1]) > Lab17!ValueOf(o[j])
                    THEN [next EXCEPT ![node] = o[j], ![o[j - 1]] = next[o[j]], ![o[j]] = o[j - 1]]
                    ELSE next
       /\ newhead' = IF j = 1 THEN next'[node] ELSE newhead
       /\ node' = next'[node]
       /\ value' = value
  BY <1>12 DEF Lab17!SortStep, Lab17!OutOfOrder, Lab17!Swapped
<1>15. Settled(o, n - i + 1) <=> \A k, l \in 0 .. n - 1 : l < k /\ n - i + 1 <= k =>
           Lab17!ValueOf(o[l]) <= Lab17!ValueOf(o[k])
  BY <1>2 DEF Settled
<1>16. \A k \in 0 .. n - 1 : n - i + 1 <= k => j < k
  BY <1>3
<1>17. CASE ~ (Lab17!ValueOf(o[j - 1]) > Lab17!ValueOf(o[j]))
  <2>1. next' = next /\ node' = o[j - 1]
    BY <1>12, <1>14, <1>17
  <2>2. Chain(o)'
    BY <1>14, <2>1, ListKept
  <2>3. o[0] = newhead'
    BY <1>3, <1>12, <1>14, <2>1
  <2>4. ASSUME NEW l \in 0 .. j - 1 PROVE Lab17!ValueOf(o[l]) <= Lab17!ValueOf(o[j])
    <3>1. Lab17!ValueOf(o[j - 1]) <= Lab17!ValueOf(o[j])
      BY <1>8, <1>10, <1>17
    <3>2. CASE l = j - 1
      BY <3>1, <3>2
    <3>3. CASE l # j - 1
      <4>1. l \in 0 .. j - 2 /\ l \in 0 .. n - 1
        BY <1>3, <3>3
      <4>2. Lab17!ValueOf(o[l]) <= Lab17!ValueOf(o[j - 1])
        BY <1>3, <4>1
      <4>3. QED
        BY <1>8, <1>10, <3>1, <4>1, <4>2
    <3>4. QED
      BY <3>2, <3>3
  <2>5. QED
    BY <1>2, <1>3, <2>1, <2>2, <2>3, <2>4
<1>18. CASE Lab17!ValueOf(o[j - 1]) > Lab17!ValueOf(o[j])
  <2>1. PICK oo : /\ Order(oo, n)
                  /\ oo[j - 1] = o[j] /\ oo[j] = o[j - 1]
                  /\ \A m \in 0 .. n - 1 : m # j - 1 /\ m # j => oo[m] = o[m]
    BY <1>3, <1>4, SwapOrder
  <2>2. /\ next'[node] = o[j] /\ next'[o[j - 1]] = next[o[j]] /\ next'[o[j]] = o[j - 1]
        /\ \A m \in 0 .. Lab17!Scratch : m # node /\ m # o[j - 1] /\ m # o[j] => next'[m] = next[m]
    BY <1>5, <1>8, <1>10, <1>13, <1>14, <1>18
  <2>3. ASSUME NEW k \in 0 .. n - 1
        PROVE  next'[oo[k]] = IF k = n - 1 THEN Lab17!Null ELSE oo[k + 1]
    <3>1. CASE k = j - 1
      BY <1>10, <2>1, <2>2, <3>1
    <3>2. CASE k = j
      <4>1. next'[oo[k]] = IF j = n - 1 THEN Lab17!Null ELSE o[j + 1]
        BY <1>4, <1>10, <2>1, <2>2, <3>2
      <4>2. j # n - 1 => j + 1 \in 0 .. n - 1 /\ j + 1 # j /\ j + 1 # j - 1
        BY <1>3
      <4>3. QED
        BY <2>1, <3>2, <4>1, <4>2
    <3>3. CASE k # j /\ k # j - 1
      <4>1. oo[k] = o[k] /\ o[k] # o[j] /\ o[k] # o[j - 1]
        BY <1>9, <1>10, <2>1, <3>3
      <4>2. CASE j # 1 /\ k = j - 2
        <5>1. o[k] = node
          BY <1>3, <4>2
        <5>2. next'[oo[k]] = oo[j - 1]
          BY <2>1, <2>2, <4>1, <5>1
        <5>3. QED
          BY <1>11, <4>2, <5>2
      <4>3. CASE j = 1 \/ k # j - 2
        <5>1. o[k] # node
          BY <1>3, <1>8, <1>9, <1>11, <4>3
        <5>2. next'[oo[k]] = next[o[k]]
          BY <1>8, <2>2, <4>1, <5>1
        <5>3. k # n - 1 => k + 1 \in 0 .. n - 1 /\ k + 1 # j /\ k + 1 # j - 1
          BY <1>3, <3>3, <4>3
        <5>4. QED
          BY <1>4, <2>1, <5>2, <5>3
      <4>4. QED
        BY <4>2, <4>3
    <3>4. QED
      BY <3>1, <3>2, <3>3
  <2>4. Chain(oo)'
    <3>1. Len(value') = n
      BY <1>2, <1>14
    <3>2. QED
      BY <2>1, <2>3, <3>1 DEF Chain
  <2>5. node' = oo[j - 1]
    BY <1>14, <2>1, <2>2
  <2>6. oo[0] = newhead'
    <3>1. CASE j = 1
      BY <1>14, <2>1, <2>2, <3>1
    <3>2. CASE j # 1
      <4>1. 0 \in 0 .. n - 1 /\ 0 # j - 1 /\ 0 # j
        BY <1>3, <3>2
      <4>2. QED
        BY <1>3, <1>14, <2>1, <3>2, <4>1
    <3>3. QED
      BY <3>1, <3>2
  <2>7. ASSUME NEW k \in 0 .. n - 1, NEW l \in 0 .. n - 1, l < k, n - i + 1 <= k
        PROVE  Lab17!ValueOf(oo[l]) <= Lab17!ValueOf(oo[k])
    <3>1. j < k
      BY <1>16, <2>7
    <3>2. oo[k] = o[k]
      BY <1>10, <2>1, <3>1
    <3>3. PICK m \in 0 .. n - 1 : m < k /\ oo[l] = o[m]
      <4>1. CASE l = j
        BY <1>10, <2>1, <2>7, <3>1, <4>1
      <4>2. CASE l = j - 1
        BY <1>10, <2>1, <3>1, <4>2
      <4>3. CASE l # j /\ l # j - 1
        BY <2>1, <2>7, <4>3
      <4>4. QED
        BY <4>1, <4>2, <4>3
    <3>4. QED
      BY <1>3, <1>15, <2>7, <3>2, <3>3
  <2>8. Settled(oo, n - i + 1)
    BY <1>2, <2>7 DEF Settled
  <2>9. ASSUME NEW l \in 0 .. j - 1 PROVE Lab17!ValueOf(oo[l]) <= Lab17!ValueOf(oo[j])
    <3>1. CASE l = j - 1
      BY <1>8, <1>10, <1>18, <2>1, <3>1
    <3>2. CASE l # j - 1
      <4>1. l \in 0 .. j - 2 /\ l \in 0 .. n - 1 /\ l # j
        BY <1>3, <3>2
      <4>2. QED
        BY <1>3, <2>1, <3>2, <4>1
    <3>3. QED
      BY <3>1, <3>2
  <2>10. QED
    BY <1>2, <2>4, <2>5, <2>6, <2>8, <2>9
<1>19. QED
  BY <1>17, <1>18

\* A step of a pass, on a list that main has not freed.
LEMMA StepKeeps ==
    ASSUME SortCore, Lab17!SortStep
    PROVE  SortCore'
<1> USE SortSizes
<1>1. Lab17!TypeOK /\ Holders /\ Room /\ ~ Lab17!Freed
  BY DEF SortCore, Lab17!SortStep
<1>2. head \in Lab17!Nodes /\ \E o : Chain(o) /\ PassAt(o) /\ PrintAt(o)
  BY <1>1 DEF SortCore
<1>3. PICK o : Chain(o) /\ PassAt(o) /\ PrintAt(o)
  BY <1>2
<1>4. PICK oo : /\ Chain(oo)'
                /\ oo[0] = newhead' /\ oo[j - 1] = node'
                /\ Settled(oo, Len(value) - i + 1)
                /\ \A l \in 0 .. j - 1 : Lab17!ValueOf(oo[l]) <= Lab17!ValueOf(oo[j])
  BY <1>3, StepOrders
<1>5. PICK n \in Nat : n = Len(value)
  BY <1>1 DEF Room
<1>6. /\ n >= 2 /\ n <= SortLines + 1 /\ i \in 1 .. n - 1 /\ j \in 1 .. n - i /\ count = n
  BY <1>1, <1>3, <1>5 DEF PassAt, Room, Lab17!SortStep
<1> PICK pass \in Nat, step \in Nat : pass = i /\ step = j
  BY <1>6
<1>7. /\ spc = "step"
      /\ UNCHANGED <<value, mutex, count, mpc, line, reads, lastNode, printed, crashed>>
      /\ IF j = n - i
           THEN head' = newhead' /\ i' = i + 1 /\ j' = j
                /\ spc' = IF i + 1 < n THEN "pass" ELSE "unlock"
           ELSE j' = j + 1 /\ head' = head /\ i' = i /\ spc' = "step"
      /\ next' = IF Lab17!OutOfOrder(next[node], next[next[node]])
                   THEN Lab17!Swapped(node, next[node], next[next[node]]) ELSE next
  BY <1>6 DEF Lab17!SortStep, Lab17!LastStep, Lab17!NextPass, Lab17!main
<1>8. Order(oo, n) /\ n = Len(value') /\ Lab17!Nodes' = 0 .. n - 1 /\ Lab17!Nodes = 0 .. n - 1
  BY <1>4, <1>5, <1>7 DEF Chain, Lab17!Nodes
<1>9. \A k \in 0 .. n - 1 : oo[k] \in 0 .. n - 1
  BY <1>8 DEF Order
<1>10. head' \in Lab17!Nodes' /\ newhead' \in Lab17!Nodes' /\ node' \in Lab17!Nodes'
  <2>1. 0 \in 0 .. n - 1 /\ j - 1 \in 0 .. n - 1
    BY <1>6
  <2>2. newhead' \in Lab17!Nodes' /\ node' \in Lab17!Nodes'
    BY <1>4, <1>8, <1>9, <2>1
  <2>3. QED
    BY <1>2, <1>7, <1>8, <2>2
<1>11. next' \in [0 .. Lab17!Scratch -> Lab17!Nodes' \union {Lab17!Null}]
  <2>1. next \in [0 .. Lab17!Scratch -> Lab17!Nodes \union {Lab17!Null}]
    BY <1>1 DEF Lab17!TypeOK
  <2>2. /\ Order(o, n)
        /\ \A k \in 0 .. n - 1 : next[o[k]] = IF k = n - 1 THEN Lab17!Null ELSE o[k + 1]
        /\ node = IF j = 1 THEN Lab17!Scratch ELSE o[j - 2]
        /\ j = 1 => next[Lab17!Scratch] = o[0]
    BY <1>3, <1>5, <1>7 DEF Chain, PassAt
  <2>3. \A k \in 0 .. n - 1 : o[k] \in 0 .. n - 1
    BY <2>2 DEF Order
  <2>4. j - 1 \in 0 .. n - 1 /\ j - 1 # n - 1 /\ (j - 1) + 1 = j /\ j \in 0 .. n - 1
    BY <1>6
  <2>5. j # 1 => j - 2 \in 0 .. n - 1 /\ j - 2 # n - 1 /\ (j - 2) + 1 = j - 1
    BY <1>6
  <2>6. next[node] = o[j - 1] /\ next[o[j - 1]] = o[j]
    BY <2>2, <2>4, <2>5
  <2>7. o[j - 1] \in Lab17!Nodes /\ o[j] \in Lab17!Nodes
    BY <1>8, <2>3, <2>4
  <2>8. \A m \in 0 .. n - 1 : m \in 0 .. Lab17!Scratch
    BY <1>6
  <2>9. next[o[j]] \in Lab17!Nodes \union {Lab17!Null}
    BY <1>8, <2>1, <2>7, <2>8
  <2>10. Lab17!Nodes' = Lab17!Nodes
    BY <1>8
  <2>11. QED
    BY <1>7, <2>1, <2>6, <2>7, <2>9, <2>10 DEF Lab17!Swapped
<1>12. Lab17!TypeOK'
  <2>1. /\ i' \in Nat /\ j' \in Nat /\ spc' \in {"sleep", "pass", "step", "unlock"}
    BY <1>6, <1>7
  <2>2. UNCHANGED Lab17!Nodes
    BY <1>8
  <2>3. QED
    BY <1>1, <1>7, <1>10, <1>11, <2>1, <2>2 DEF Lab17!TypeOK
<1>13. Holders' /\ Room'
  BY <1>1, <1>7 DEF Holders, Room
<1>14. \A p : Settled(oo, p) => Settled(oo, p)'
  BY <1>7 DEF Settled, Lab17!ValueOf
<1>15. j = n - i => Settled(oo, n - pass)
  <2> SUFFICES ASSUME j = n - i, NEW k \in 0 .. n - 1, NEW l \in 0 .. n - 1, l < k, n - i <= k
               PROVE  Lab17!ValueOf(oo[l]) <= Lab17!ValueOf(oo[k])
    BY <1>5 DEF Settled
  <2>1. CASE k = j
    <3>1. l \in 0 .. j - 1
      BY <1>6, <2>1
    <3>2. QED
      BY <1>4, <2>1, <3>1
  <2>2. CASE k # j
    <3>1. n - i + 1 <= k
      BY <1>6, <2>2
    <3>2. QED
      BY <1>4, <1>5, <3>1 DEF Settled
  <2>3. QED
    BY <2>1, <2>2
<1>16. spc' = "unlock" => Settled(oo, 1)'
  <2>1. spc' = "unlock" => j = n - i /\ n - pass = 1
    BY <1>6, <1>7
  <2>2. j = n - i => Settled(oo, n - pass)'
    BY <1>14, <1>15
  <2>3. QED
    BY <2>1, <2>2
<1>17. PassAt(oo)'
  <2>1. CASE j = n - i
    <3>1. head' = oo[0] /\ newhead' = oo[0] /\ spc' \in {"pass", "unlock"} /\ i' = pass + 1
      BY <1>4, <1>7, <2>1
    <3>2. spc' = "pass" => pass + 1 \in 1 .. n - 1
      BY <1>6, <1>7, <2>1
    <3>3. Settled(oo, n - pass)' /\ n - (pass + 1) + 1 = n - pass
      BY <1>14, <1>15, <2>1
    <3>4. QED
      BY <1>6, <1>7, <1>8, <1>16, <3>1, <3>2, <3>3 DEF PassAt
  <2>2. CASE j # n - i
    <3>1. newhead' = oo[0] /\ spc' = "step" /\ i' = pass /\ j' = step + 1
      BY <1>4, <1>7, <2>2
    <3>2. step + 1 \in 1 .. n - pass /\ step + 1 # 1 /\ (step + 1) - 2 = step - 1 /\ (step + 1) - 1 = step
      BY <1>6, <2>2
    <3>3. node' = oo[step - 1]
      BY <1>4
    <3>4. \A l \in 0 .. step - 1 : Lab17!ValueOf(oo[l])' <= Lab17!ValueOf(oo[step])'
      BY <1>4, <1>7 DEF Lab17!ValueOf
    <3>5. Settled(oo, n - pass + 1)'
      <4>1. Settled(oo, n - pass + 1)
        BY <1>4, <1>5
      <4>2. QED
        BY <1>14, <4>1
    <3>6. pass \in 1 .. n - 1
      BY <1>6
    <3>7. QED
      BY <1>6, <1>7, <1>8, <3>1, <3>2, <3>3, <3>4, <3>5, <3>6 DEF PassAt
  <2>3. QED
    BY <2>1, <2>2
<1>18. PrintAt(oo)'
  <2>1. mpc # "print"
    BY <1>1, <1>7 DEF Holders
  <2>2. mpc = "printLock" => printed = <<>> /\ lastNode \in Lab17!Nodes
    BY <1>3 DEF PrintAt
  <2>3. spc' # "sleep"
    BY <1>7
  <2>4. QED
    BY <1>7, <1>8, <1>16, <2>1, <2>2, <2>3 DEF PrintAt
<1>19. ~ Lab17!Freed'
  BY <1>1, <1>7 DEF Lab17!Freed
<1>20. QED
  BY <1>4, <1>10, <1>12, <1>13, <1>17, <1>18, <1>19 DEF SortCore

\* A step on a list that main has freed at the end of the input.
LEMMA FreedStepKeeps ==
    ASSUME SortCore, Lab17!SortFreed
    PROVE  SortCore'
<1> USE SortSizes DEF Lab17!SortFreed, Lab17!main, Lab17!list, Lab17!Freed
<1>1. Lab17!TypeOK /\ Holders /\ Room /\ head = Lab17!Null /\ line # Lab17!Quit
  BY DEF SortCore
<1>2. Lab17!TypeOK'
  BY <1>1 DEF Lab17!TypeOK, Lab17!Nodes
<1>3. Holders' /\ Room'
  BY <1>1 DEF Holders, Room
<1>4. QED
  BY <1>1, <1>2, <1>3 DEF SortCore

\* The thread lets a sorted list go.
LEMMA UnlockKeeps ==
    ASSUME SortCore, Lab17!SorterUnlocks
    PROVE  SortCore'
<1> USE SortSizes DEF Lab17!SorterUnlocks, Lab17!Unlocked, Lab17!main, Lab17!list
<1>1. Lab17!TypeOK /\ Holders /\ Room
  BY DEF SortCore
<1>2. Lab17!TypeOK'
  BY <1>1 DEF Lab17!TypeOK, Lab17!Nodes
<1>3. Holders' /\ Room'
  BY <1>1 DEF Holders, Room
<1>4. CASE Lab17!Freed
  BY <1>2, <1>3, <1>4 DEF SortCore, Lab17!Freed
<1>5. CASE ~ Lab17!Freed
  <2>1. head \in Lab17!Nodes /\ \E o : Chain(o) /\ PassAt(o) /\ PrintAt(o)
    BY <1>5 DEF SortCore
  <2>2. PICK o : Chain(o) /\ PassAt(o) /\ PrintAt(o)
    BY <2>1
  <2>3. Chain(o)' /\ \A p : Settled(o, p) => Settled(o, p)'
    BY <2>2, ListKept
  <2>4. PassAt(o)'
    BY <2>2 DEF PassAt
  <2>5. PrintAt(o)'
    <3>1. mpc # "print"
      BY <1>1 DEF Holders
    <3>2. QED
      BY <2>2, <2>3, <3>1 DEF PrintAt, Lab17!Nodes
  <2>6. head' \in Lab17!Nodes' /\ ~ Lab17!Freed'
    BY <1>5, <2>1 DEF Lab17!Freed, Lab17!Nodes
  <2>7. QED
    BY <1>2, <1>3, <2>3, <2>4, <2>5, <2>6 DEF SortCore
<1>6. QED
  BY <1>4, <1>5

\* Every step of lab17work.c.
LEMMA SortNext ==
    ASSUME SortCore, Lab17!Next
    PROVE  SortCore'
<1>1. CASE Lab17!SorterStep
  BY <1>1, LockKeeps, BeginKeeps, StepKeeps, FreedStepKeeps, UnlockKeeps DEF Lab17!SorterStep
<1>2. CASE Lab17!MainStep
  BY <1>2, MainKeeps, InsertKeeps, FreeKeeps DEF Lab17!MainStep
<1>3. QED
  BY <1>1, <1>2 DEF Lab17!Next

\* A step of another program than lab17work.c leaves the choice.
LEMMA ProgramStays ==
    ASSUME Lab23!Next
    PROVE  lab' = lab
<1> USE DEF Lab23!inputVars, Lab23!readVars
<1>1. CASE Lab23!Main
  BY <1>1 DEF Lab23!Main, Lab23!ReadPiece, Lab23!Create, Lab23!Join, Lab23!JoinFails, Lab23!PrintList
<1>2. CASE Lab23!CreateFails \/ Lab23!Tick
  BY <1>2 DEF Lab23!CreateFails, Lab23!Tick
<1>3. ASSUME NEW t \in Lab23!Threads, Lab23!Thread(t) PROVE lab' = lab
  BY <1>3 DEF Lab23!Thread, Lab23!Start, Lab23!Write, Lab23!Lock, Lab23!Insert, Lab23!Move, Lab23!Unlock
<1>4. QED
  BY <1>1, <1>2, <1>3 DEF Lab23!Next

\* Nothing changes.
LEMMA SortStutters ==
    ASSUME SortCore, UNCHANGED <<mutex, head, next, mpc, line, crashed, value, spc, count, i, j,
                                 node, newhead, reads, lastNode, printed>>
    PROVE  SortCore'
<1>1. Lab17!TypeOK' /\ Holders' /\ Room'
  BY DEF SortCore, Lab17!TypeOK, Lab17!Nodes, Holders, Room
<1>2. CASE Lab17!Freed
  BY <1>1, <1>2 DEF SortCore, Lab17!Freed
<1>3. CASE ~ Lab17!Freed
  <2>1. PICK o : Chain(o) /\ PassAt(o) /\ PrintAt(o)
    BY <1>3 DEF SortCore
  <2>2. Chain(o)' /\ \A p : Settled(o, p) => Settled(o, p)'
    BY <2>1, ListKept
  <2>3. PassAt(o)'
    BY <2>1, <2>2 DEF PassAt, Lab17!ValueOf
  <2>4. PrintAt(o)'
    BY <2>1, <2>2 DEF PrintAt, Lab17!Nodes
  <2>5. head' \in Lab17!Nodes' /\ ~ Lab17!Freed'
    BY <1>3 DEF SortCore, Lab17!Freed, Lab17!Nodes
  <2>6. QED
    BY <1>1, <2>2, <2>3, <2>4, <2>5 DEF SortCore
<1>4. QED
  BY <1>2, <1>3

-----------------------------------------------------------------------------
(* lab17work.c: what the invariant says. *)

LEMMA SortWhole ==
    ASSUME SortCore
    PROVE  Lab17!Inv
<1> USE SortSizes
<1>1. Lab17!TypeOK /\ Holders /\ Room
  BY DEF SortCore
<1>2. Lab17!CrashOnlyAtEof
  BY <1>1 DEF Lab17!CrashOnlyAtEof, Holders
<1>3. ASSUME ~ Lab17!Freed, spc # "step"
      PROVE  \E o : /\ Chain(o) /\ PassAt(o) /\ head = o[0]
                    /\ Lab17!LengthFrom(head) = Len(value)
                    /\ \A k \in 1 .. Len(value) : Lab17!Walk(head)[k] = o[k - 1]
  <2>1. PICK o : Chain(o) /\ PassAt(o) /\ PrintAt(o)
    BY <1>3 DEF SortCore
  <2>2. head = o[0]
    BY <1>3, <2>1 DEF PassAt
  <2>3. Len(value) \in 1 .. SortLines + 1
    BY <1>1 DEF Room
  <2>4. QED
    BY <2>1, <2>2, <2>3, ChainWalk
<1>4. PICK n \in Nat : n = Len(value)
  BY <1>1 DEF Room
<1>5. Lab17!ListWhole
  <2> SUFFICES ASSUME ~ Lab17!Freed, spc # "step"
               PROVE  /\ Lab17!LengthFrom(head) = Lab17!Cardinality(Lab17!Nodes)
                      /\ \A m \in Lab17!Nodes : \E k \in 1 .. Lab17!LengthFrom(head) : Lab17!Walk(head)[k] = m
    BY DEF Lab17!ListWhole
  <2>1. PICK o : /\ Chain(o) /\ head = o[0]
                 /\ Lab17!LengthFrom(head) = n
                 /\ \A k \in 1 .. n : Lab17!Walk(head)[k] = o[k - 1]
    BY <1>3, <1>4
  <2>2. Lab17!Cardinality(Lab17!Nodes) = n
    <3>1. n >= 1
      BY <1>1, <1>4 DEF Room
    <3>2. 0 \in Int /\ n - 1 \in Int /\ ~ (0 > n - 1) /\ (n - 1) - 0 + 1 = n
      BY <3>1
    <3>3. Cardinality(0 .. n - 1) = n
      BY <3>2, FS_Interval
    <3>4. QED
      BY <1>4, <3>3, SortSize DEF Lab17!Nodes
  <2>3. ASSUME NEW m \in Lab17!Nodes PROVE \E k \in 1 .. n : Lab17!Walk(head)[k] = m
    <3>1. PICK k \in 0 .. n - 1 : o[k] = m
      BY <1>4, <2>1 DEF Chain, Order, Lab17!Nodes
    <3>2. k + 1 \in 1 .. n /\ (k + 1) - 1 = k
      OBVIOUS
    <3>3. Lab17!Walk(head)[k + 1] = o[(k + 1) - 1]
      BY <2>1, <3>2
    <3>4. QED
      BY <3>1, <3>2, <3>3
  <2>4. QED
    BY <2>1, <2>2, <2>3
<1>6. Lab17!SortedAtUnlock
  <2> SUFFICES ASSUME spc = "unlock", ~ Lab17!Freed, NEW k \in 2 .. Lab17!LengthFrom(head)
               PROVE  Lab17!ValueOf(Lab17!Walk(head)[k - 1]) <= Lab17!ValueOf(Lab17!Walk(head)[k])
    BY DEF Lab17!SortedAtUnlock
  <2>1. PICK o : /\ Chain(o) /\ PassAt(o)
                 /\ Lab17!LengthFrom(head) = n
                 /\ \A l \in 1 .. n : Lab17!Walk(head)[l] = o[l - 1]
    BY <1>3, <1>4
  <2>2. k \in 1 .. n /\ k - 1 \in 1 .. n /\ k - 1 \in 0 .. n - 1 /\ (k - 1) - 1 \in 0 .. n - 1
        /\ (k - 1) - 1 < k - 1 /\ 1 <= k - 1
    BY <2>1
  <2>3. Lab17!Walk(head)[k - 1] = o[(k - 1) - 1] /\ Lab17!Walk(head)[k] = o[k - 1]
    BY <2>1, <2>2
  <2>4. Settled(o, 1)
    BY <2>1 DEF PassAt
  <2>5. QED
    BY <1>4, <2>2, <2>3, <2>4 DEF Settled
<1>7. QED
  BY <1>1, <1>2, <1>5, <1>6 DEF Lab17!Inv

\* What has been printed is the list from some place on; in front of that place
\* are only lines that a sort has put there.
LEMMA SortPrints ==
    ASSUME SortCore
    PROVE  Lab17!PrintMissesOnlySmaller
<1> USE SortSizes
<1>1. Lab17!TypeOK /\ Room
  BY DEF SortCore
<1> DEFINE shown == {printed[k] : k \in 1 .. Len(printed)}
<1> SUFFICES ASSUME mpc = "print", lastNode = Lab17!Null
             PROVE  /\ Lab17!Cardinality(shown) = Len(printed)
                    /\ \A m \in Lab17!Nodes \ shown : \A q \in shown :
                           Lab17!ValueOf(m) <= Lab17!ValueOf(q)
  BY Zenon DEF Lab17!PrintMissesOnlySmaller
<1>2. PICK o : Chain(o) /\ PassAt(o) /\ PrintAt(o)
  BY DEF SortCore, Lab17!Freed
<1>3. PICK n \in Nat : n = Len(value)
  BY <1>1 DEF Room
<1>4. PICK p \in 0 .. n - 1 :
                 /\ p = 0 \/ Settled(o, 1)
                 /\ p + Len(printed) <= n
                 /\ \A k \in 1 .. Len(printed) : printed[k] = o[p + k - 1]
                 /\ lastNode = IF p + Len(printed) < n THEN o[p + Len(printed)] ELSE Lab17!Null
  BY <1>2, <1>3 DEF PrintAt
<1>5. Order(o, n)
  BY <1>2, <1>3 DEF Chain
<1>6. PICK s \in Nat : s = Len(printed)
  BY <1>1 DEF Lab17!TypeOK
<1>7. p + s = n
  <2>1. CASE p + s < n
    <3>1. p + s \in 0 .. n - 1
      BY <2>1
    <3>2. o[p + s] \in 0 .. n - 1
      BY <1>5, <3>1 DEF Order
    <3>3. o[p + s] # Lab17!Null
      BY <3>2
    <3>4. QED
      BY <1>4, <1>6, <2>1, <3>3
  <2>2. QED
    BY <1>4, <1>6, <2>1
<1>8. \A k \in 1 .. s : p + k - 1 \in 0 .. n - 1 /\ p <= p + k - 1 /\ printed[k] = o[p + k - 1]
  BY <1>4, <1>6, <1>7
<1>9. Cardinality(shown) = s
  <2> DEFINE f == [k \in 1 .. s |-> printed[k]]
  <2>1. \A k, l \in 1 .. s : f[k] = f[l] => k = l
    <3>1. ASSUME NEW k \in 1 .. s, NEW l \in 1 .. s, f[k] = f[l] PROVE k = l
      <4>1. o[p + k - 1] = o[p + l - 1]
        BY <1>8, <3>1
      <4>2. p + k - 1 = p + l - 1
        BY <1>5, <1>8, <4>1 DEF Order
      <4>3. QED
        BY <4>2
    <3>2. QED
      BY <3>1
  <2>2. f \in Bijection(1 .. s, shown)
    <3>1. f \in [1 .. s -> shown] /\ \A t \in shown : \E k \in 1 .. s : f[k] = t
      BY <1>6
    <3> HIDE DEF f, shown
    <3>2. QED
      BY <2>1, <3>1, Fun_IsBij
  <2>3. ExistsBijection(1 .. s, shown)
    BY <2>2 DEF ExistsBijection
  <2> HIDE DEF shown
  <2>4. QED
    BY <2>3, FS_CountingElements
<1>10. ASSUME NEW m \in Lab17!Nodes \ shown, NEW q \in shown
       PROVE  Lab17!ValueOf(m) <= Lab17!ValueOf(q)
  <2>1. PICK l \in 0 .. n - 1 : o[l] = m
    BY <1>3, <1>5 DEF Order, Lab17!Nodes
  <2>2. PICK k \in 1 .. s : q = printed[k]
    BY <1>6
  <2>3. l < p
    <3> SUFFICES ASSUME p <= l PROVE FALSE
      OBVIOUS
    <3>1. l - p + 1 \in 1 .. s /\ p + (l - p + 1) - 1 = l
      BY <1>7
    <3>2. printed[l - p + 1] = o[l]
      BY <1>8, <3>1
    <3>3. o[l] \in shown
      BY <1>6, <3>1, <3>2
    <3>4. QED
      BY <2>1, <3>3
  <2>4. l < p + k - 1 /\ 1 <= p + k - 1 /\ p + k - 1 \in 0 .. n - 1 /\ q = o[p + k - 1] /\ p # 0
    BY <1>8, <2>2, <2>3
  <2>5. QED
    BY <1>3, <1>4, <2>1, <2>4 DEF Settled
<1> HIDE DEF shown
<1>11. QED
  BY <1>6, <1>9, <1>10, SortSize

-----------------------------------------------------------------------------
(* lab23.c, lab6.c, lab3.c: the inductive invariant. *)

Phases == {"none", "start", "asleep", "insert", "move", "unlock", "end"}
Holding == {"insert", "move", "unlock"}

\* What the variables are.
Shapes ==
    /\ lab \in {"lab3", "lab6", "lab23"} /\ open \in BOOLEAN
    /\ input \in Seq(Nat \ {0}) /\ counter \in Nat
    /\ lines \in Seq([number : 0 .. SleepLines + 1, length : Nat]) /\ Len(lines) <= SleepLines
    /\ mpc \in {"read", "create", "join", "freed", "exited"}
    /\ created \in Nat /\ joined \in Nat
    /\ pc \in [Lab23!Threads -> Phases]
    /\ line \in [Lab23!Threads -> Lab23!Threads \union {Lab23!Null, Lab23!Wild}]
    /\ wake \in [Lab23!Threads -> Nat] /\ now \in Nat
    /\ mutex \in Lab23!Threads \union {Lab23!Free}
    /\ head \in Lab23!Threads \union {Lab23!Null}
    /\ finishedNode \in Lab23!Threads \union {Lab23!Null}
    /\ next \in [Lab23!Threads -> Lab23!Threads \union {Lab23!Null}]
    /\ out \in Seq(Lab23!Threads \union {Lab23!Wild})
    /\ late \subseteq Lab23!Threads /\ crashed \in BOOLEAN

\* The empty line that ends the input, and a line that is kept whole.
IsEmpty(k) == k \in 1 .. Len(input) /\ input[k] = 1 /\ ~ (open /\ k = Len(input))

IsWhole(k) ==
    IF k > Len(input) THEN lines[k].number = Lab23!Null
    ELSE /\ lines[k].number = k
         /\ \/ lines[k].length = input[k]
            \/ open /\ k = Len(input) /\ input[k] % BufferSize = 0

\* Main has kept the lines so far whole and found none of them empty; only a
\* last line without newline can fill its pieces and go on.
Reads ==
    /\ \A k \in 1 .. Len(lines) : IsWhole(k)
    /\ lab # "lab3" => \A k \in 1 .. Len(lines) : ~ IsEmpty(k)
    /\ mpc = "read" =>
         /\ lab # "lab3" /\ Len(lines) < SleepLines
         /\ Len(lines) + 1 <= Len(input) =>
              /\ counter * BufferSize <= input[Len(lines) + 1]
              /\ counter * BufferSize = input[Len(lines) + 1] => open /\ Len(lines) + 1 = Len(input)
    /\ mpc # "read" /\ lab # "lab3" => Len(lines) = SleepLines \/ IsEmpty(Len(lines) + 1)

\* Which threads there are, and what they work for.
Workers ==
    /\ mpc = "read" => created = 0
    /\ mpc \in {"read", "create", "exited"} => joined = 0
    /\ joined <= created /\ created <= Len(lines)
    /\ \A t \in Lab23!Threads :
         /\ pc[t] = "none" <=> created < t
         /\ t <= joined => pc[t] = "end"
         /\ mutex = t <=> pc[t] \in Holding
         /\ IF pc[t] \in {"none", "start"} THEN line[t] = Lab23!Null
            ELSE line[t] = t \/ (line[t] = Lab23!Wild /\ t \in late)
    /\ lab = "lab23" => mpc # "exited" /\ late = {}
    /\ lab # "lab23" => mpc \notin {"join", "freed"} /\ mutex = Lab23!Free
    /\ late # {} => mpc = "exited"
    /\ mpc = "freed" => joined = created
    /\ crashed => IF lab = "lab23" THEN created < Len(lines) /\ mpc = "join" ELSE late # {}

Due(t) == Factor * lines[t].length

\* When the threads wake, and how late they act.
Times ==
    /\ mpc \in {"read", "create"} => now <= Delay
    /\ \A t \in Lab23!Threads :
         /\ pc[t] = "start" => now <= Delay
         /\ pc[t] \notin {"none", "start"} /\ line[t] = t /\ lab # "lab3" =>
              Due(t) <= wake[t] /\ wake[t] <= Due(t) + Delay
         /\ pc[t] \in {"asleep", "insert"} => now <= wake[t] + Delay
         /\ pc[t] \in Holding \union {"end"} => wake[t] <= now

\* What has been written.
Written ==
    /\ lab = "lab23" /\ (mpc # "freed" \/ created < Len(lines)) => out = <<>>
    /\ lab # "lab23" \/ (mpc = "freed" /\ created = Len(lines)) =>
         \A t \in Lab23!Threads : pc[t] = "end" /\ line[t] = t => \E a \in 1 .. Len(out) : out[a] = t
    /\ \A a \in 1 .. Len(out) :
         IF out[a] = Lab23!Wild THEN late # {}
         ELSE out[a] \in Lab23!Threads /\ pc[out[a]] = "end" /\ line[out[a]] = out[a]
    /\ \A a, b \in 1 .. Len(out) : a < b /\ out[a] # Lab23!Wild /\ out[b] # Lab23!Wild =>
         out[a] # out[b] /\ wake[out[a]] <= wake[out[b]] + Delay

\* The list holds the n threads o[1], ... o[n] in this order.
Queue(o, n) ==
    /\ n \in Nat /\ o \in [1 .. n -> Lab23!Threads]
    /\ \A k, l \in 1 .. n : k < l => o[k] # o[l] /\ wake[o[k]] <= wake[o[l]] + Delay
    /\ \A t \in Lab23!Threads : (\E k \in 1 .. n : o[k] = t) <=> pc[t] \in {"move", "unlock", "end"}
    /\ head = IF n = 0 THEN Lab23!Null ELSE o[1]
    /\ \A k \in 1 .. n : next[o[k]] = IF k = n THEN Lab23!Null ELSE o[k + 1]
    /\ \A t \in Lab23!Threads : pc[t] \in {"none", "start", "asleep", "insert"} => next[t] = Lab23!Null
    /\ IF \E t \in Lab23!Threads : pc[t] = "move"
         THEN n # 0 /\ pc[o[n]] = "move" /\ finishedNode = IF n = 1 THEN Lab23!Null ELSE o[n - 1]
         ELSE finishedNode = IF n = 0 THEN Lab23!Null ELSE o[n]

\* The invariant of lab23.c, lab6.c and lab3.c that is inductive.
SleepCore ==
    /\ Shapes /\ Reads /\ Workers /\ Times /\ Written
    /\ lab = "lab23" /\ mpc # "freed" => \E o, n : Queue(o, n)

-----------------------------------------------------------------------------
(* lab23.c, lab6.c, lab3.c: facts about data. *)

LEMMA SleepSizes ==
    /\ SleepLines \in Nat /\ SleepLines >= 1 /\ BufferSize \in Nat /\ BufferSize >= 1
    /\ Factor \in Nat /\ Delay \in Nat
    /\ Lengths \subseteq Nat \ {0} /\ Rest \subseteq 0 .. BufferSize - 1
    /\ Lab23!Threads = 1 .. SleepLines
    /\ Lab23!Null = 0 /\ Lab23!Free = 0 /\ Lab23!Wild = 0 - 1
  BY ListLabsAssumption DEF Lab23!Threads, Lab23!Null, Lab23!Free, Lab23!Wild

\* Products of numbers are numbers, and grow with their factors.
LEMMA Products ==
    ASSUME NEW a \in Nat, NEW b \in Nat
    PROVE  a * b \in Nat /\ (a + 1) * b = a * b + b /\ (b # 0 => (a * b) % b = 0)
<1>1. a * b \in Nat /\ (a + 1) * b = a * b + b
  OBVIOUS
<1>2. ASSUME b # 0 PROVE (a * b) % b = 0
  BY <1>2
<1>3. QED
  BY <1>1, <1>2

\* What realloc left does not fill a piece.
LEMMA PieceBounds ==
    ASSUME NEW c \in Nat, NEW r \in 0 .. BufferSize - 1
    PROVE  c + r \in Nat /\ c + r < c + BufferSize
  BY SleepSizes

\* The least of a set of numbers, when it is known.
LEMMA LeastIs ==
    ASSUME NEW S \in SUBSET Int, NEW m \in S, \A k \in S : m <= k
    PROVE  Lab23!Min(S) = m
<1>1. \A x \in S : (\A k \in S : x <= k) => x = m
  OBVIOUS
<1>2. QED
  BY <1>1 DEF Lab23!Min

\* There are no more different threads than threads.
LEMMA FewThreads ==
    ASSUME NEW n \in Nat, NEW o \in [1 .. n -> Lab23!Threads],
           \A k, l \in 1 .. n : k < l => o[k] # o[l]
    PROVE  n <= SleepLines
<1> USE SleepSizes
<1>1. \A k, l \in 1 .. n : o[k] = o[l] => k = l
  OBVIOUS
<1>2. o \in Injection(1 .. n, 1 .. SleepLines)
  BY <1>1 DEF Injection, IsInjective
<1>3. ExistsInjection(1 .. n, 1 .. SleepLines)
  BY <1>2 DEF ExistsInjection
<1>4. QED
  BY <1>3, Fun_NatInjLeq

\* Walking the list of lab23.c.
Walking(w) ==
    [k \in 0 .. SleepLines |->
        IF k = 0 THEN <<>>
        ELSE LET v == w[k - 1]
                 m == IF v = <<>> THEN head ELSE next[v[Len(v)]]
             IN  IF m = Lab23!Null THEN v ELSE Append(v, m)]

\* There is one such walk.
LEMMA NodesIs ==
    ASSUME NEW g, g = Walking(g)
    PROVE  Lab23!Nodes = g[SleepLines]
<1> USE SleepSizes
<1> DEFINE f == CHOOSE f : f = Walking(f)
<1>1. f = Walking(f)
  OBVIOUS
<1>2. Lab23!Nodes = f[SleepLines]
  BY Zenon DEF Lab23!Nodes, Walking
<1> HIDE DEF f
<1> DEFINE K == 0 .. SleepLines
           Differ == {k \in K : f[k] # g[k]}
<1>3. ASSUME Differ # {} PROVE FALSE
  <2>1. Differ \in SUBSET Nat
    OBVIOUS
  <2>2. PICK n \in Differ : \A m \in Differ : n <= m
    BY <1>3, <2>1, LeastOf
  <2>3. n \in Nat /\ n \in K
    BY <2>1, <2>2
  <2>4. f[0] = <<>> /\ g[0] = <<>>
    <3>1. 0 \in K
      OBVIOUS
    <3> HIDE DEF K
    <3>2. QED
      BY <1>1, <3>1 DEF Walking, K
  <2>5. n # 0
    BY <2>2, <2>4
  <2>6. n - 1 \in K /\ n - 1 \notin Differ
    BY <2>2, <2>3, <2>5
  <2>7. f[n - 1] = g[n - 1]
    BY <2>6
  <2> DEFINE Further(v) ==
               LET m == IF v = <<>> THEN head ELSE next[v[Len(v)]]
               IN  IF m = Lab23!Null THEN v ELSE Append(v, m)
  <2>8. ASSUME NEW w PROVE Walking(w)[n] = Further(w[n - 1])
    BY <2>3, <2>5 DEF Walking
  <2> HIDE DEF Further
  <2>9. f[n] = Further(f[n - 1]) /\ g[n] = Further(g[n - 1])
    BY <1>1, <2>8
  <2>10. QED
    BY <2>2, <2>7, <2>9
<1>4. SleepLines \in K
  OBVIOUS
<1>5. QED
  BY <1>2, <1>3, <1>4

\* The walk along a queue is the queue.
LEMMA QueueWalk ==
    ASSUME NEW o, NEW n, Queue(o, n)
    PROVE  Lab23!Nodes = o /\ n <= SleepLines /\ o \in Seq(Lab23!Threads) /\ Len(o) = n
<1> USE SleepSizes
<1>1. /\ n \in Nat /\ o \in [1 .. n -> Lab23!Threads]
      /\ \A k, l \in 1 .. n : k < l => o[k] # o[l]
      /\ head = IF n = 0 THEN Lab23!Null ELSE o[1]
      /\ \A k \in 1 .. n : next[o[k]] = IF k = n THEN Lab23!Null ELSE o[k + 1]
  BY DEF Queue
<1>2. n <= SleepLines
  BY <1>1, FewThreads
<1>3. o \in Seq(Lab23!Threads) /\ Len(o) = n
  BY <1>1
<1>4. \A k \in 1 .. n : o[k] \in Lab23!Threads /\ o[k] # Lab23!Null
  BY <1>1
<1> DEFINE K == 0 .. SleepLines
           L(k) == IF k < n THEN k ELSE n
           first(m) == [l \in 1 .. m |-> o[l]]
           g == [k \in K |-> first(L(k))]
<1>5. \A k \in K : L(k) \in 0 .. n
  BY <1>1
<1>6. \A m \in 0 .. n : /\ first(m) \in Seq(Lab23!Threads) /\ Len(first(m)) = m
                        /\ \A l \in 1 .. m : first(m)[l] = o[l]
  BY <1>1
<1>7. first(0) = <<>>
  BY <1>1
<1>8. ASSUME NEW m \in 0 .. n - 1 PROVE first(m + 1) = Append(first(m), o[m + 1])
  <2>1. m \in 0 .. n /\ m + 1 \in 0 .. n /\ m + 1 \in 1 .. n
    BY <1>1
  <2>2. o[m + 1] \in Lab23!Threads
    BY <1>4, <2>1
  <2>3. /\ Append(first(m), o[m + 1]) \in Seq(Lab23!Threads)
        /\ Len(Append(first(m), o[m + 1])) = m + 1
        /\ \A l \in 1 .. m : Append(first(m), o[m + 1])[l] = o[l]
        /\ Append(first(m), o[m + 1])[m + 1] = o[m + 1]
    <3>1. first(m) \in Seq(Lab23!Threads) /\ Len(first(m)) = m /\ \A l \in 1 .. m : first(m)[l] = o[l]
      BY <1>6, <2>1
    <3> HIDE DEF first
    <3>2. QED
      BY <2>2, <3>1
  <2>4. /\ first(m + 1) \in Seq(Lab23!Threads) /\ Len(first(m + 1)) = m + 1
        /\ \A l \in 1 .. m + 1 : first(m + 1)[l] = o[l]
    BY <1>6, <2>1
  <2> HIDE DEF first
  <2>5. \A l \in 1 .. m + 1 : l = m + 1 \/ l \in 1 .. m
    OBVIOUS
  <2>6. \A l \in 1 .. m + 1 : first(m + 1)[l] = Append(first(m), o[m + 1])[l]
    BY <2>3, <2>4, <2>5
  <2>7. QED
    BY <2>3, <2>4, <2>6, SeqEqual
<1>9. g = Walking(g)
  <2>1. ASSUME NEW k \in K
        PROVE  g[k] = IF k = 0 THEN <<>>
                      ELSE LET v == g[k - 1]
                               m == IF v = <<>> THEN head ELSE next[v[Len(v)]]
                           IN  IF m = Lab23!Null THEN v ELSE Append(v, m)
    <3>1. CASE k = 0
      BY <1>1, <1>7, <3>1
    <3>2. CASE k # 0
      <4>1. k - 1 \in K /\ g[k] = first(L(k)) /\ g[k - 1] = first(L(k - 1))
        BY <2>1, <3>2
      <4> DEFINE v == first(L(k - 1))
                 m == IF v = <<>> THEN head ELSE next[v[Len(v)]]
      <4>2. CASE k <= n
        <5>1. L(k) = k /\ L(k - 1) = k - 1 /\ (k - 1) + 1 = k /\ k - 1 \in 0 .. n - 1 /\ k \in 1 .. n
          BY <1>1, <3>2, <4>2
        <5>2. m = o[k]
          <6>1. CASE k = 1
            <7>1. v = <<>>
              BY <1>7, <5>1, <6>1
            <7> HIDE DEF v
            <7>2. QED
              BY <1>1, <5>1, <6>1, <7>1
          <6>2. CASE k # 1
            <7>1. k - 1 \in 1 .. n /\ k - 1 # n /\ k - 1 \in 0 .. n /\ k - 1 \in 1 .. k - 1
              BY <1>1, <5>1, <6>2
            <7>2. Len(v) = k - 1 /\ v[k - 1] = o[k - 1]
              <8>1. v = first(k - 1)
                BY <5>1
              <8> HIDE DEF v, first
              <8>2. QED
                BY <1>6, <7>1, <8>1
            <7>3. v # <<>>
              <8> HIDE DEF v
              <8>1. QED
                BY <7>1, <7>2
            <7> HIDE DEF v
            <7>4. QED
              BY <1>1, <5>1, <7>1, <7>2, <7>3
          <6>3. QED
            BY <6>1, <6>2
        <5>3. m # Lab23!Null
          BY <1>4, <5>1, <5>2
        <5>4. first(k) = Append(first(k - 1), o[k])
          BY <1>8, <5>1
        <5> HIDE DEF first, m, g
        <5>5. (IF m = Lab23!Null THEN v ELSE Append(v, m)) = first(L(k))
          BY <5>1, <5>2, <5>3, <5>4
        <5>6. QED
          BY <3>2, <4>1, <5>5 DEF m
      <4>3. CASE ~ (k <= n)
        <5>1. L(k) = n /\ L(k - 1) = n
          BY <1>1, <3>2, <4>3
        <5>2. m = Lab23!Null
          <6>1. CASE n = 0
            <7>1. v = <<>>
              BY <1>7, <5>1, <6>1
            <7> HIDE DEF v
            <7>2. QED
              BY <1>1, <6>1, <7>1
          <6>2. CASE n # 0
            <7>1. Len(v) = n /\ v[n] = o[n] /\ n \in 1 .. n
              BY <1>1, <1>6, <5>1, <6>2
            <7>2. v # <<>>
              <8> HIDE DEF v
              <8>1. QED
                BY <6>2, <7>1
            <7> HIDE DEF v
            <7>3. QED
              BY <1>1, <7>1, <7>2
          <6>3. QED
            BY <6>1, <6>2
        <5> HIDE DEF first, m, g
        <5>3. (IF m = Lab23!Null THEN v ELSE Append(v, m)) = first(L(k))
          BY <5>1, <5>2
        <5>4. QED
          BY <3>2, <4>1, <5>3 DEF m
      <4>4. QED
        BY <4>2, <4>3
    <3>3. QED
      BY <3>1, <3>2
  <2>2. g = [k \in K |-> g[k]]
    OBVIOUS
  <2> HIDE DEF g
  <2>3. QED
    BY <2>1, <2>2 DEF Walking
<1>10. Lab23!Nodes = g[SleepLines]
  <2> HIDE DEF g
  <2>1. QED
    BY <1>9, NodesIs
<1>11. g[SleepLines] = first(n)
  BY <1>1, <1>2
<1>12. first(n) = o
  BY <1>1
<1>13. QED
  BY <1>2, <1>3, <1>10, <1>11, <1>12

\* The queue stays: nobody is inserted or becomes the last one.
LEMMA QueueKept ==
    ASSUME NEW o, NEW n, Queue(o, n), Shapes, pc' \in [Lab23!Threads -> Phases],
           UNCHANGED <<head, next, finishedNode>>,
           \A t \in Lab23!Threads :
               /\ pc'[t] = "move" <=> pc[t] = "move"
               /\ pc'[t] \in {"unlock", "end"} <=> pc[t] \in {"unlock", "end"}
               /\ pc[t] \in {"move", "unlock", "end"} => wake'[t] = wake[t]
    PROVE  Queue(o, n)'
<1>1. n \in Nat /\ o \in [1 .. n -> Lab23!Threads]
  BY DEF Queue
<1>2. \A t \in Lab23!Threads : pc[t] \in Phases /\ pc'[t] \in Phases
  BY DEF Shapes
<1>3. \A t \in Lab23!Threads :
         /\ pc'[t] \in {"move", "unlock", "end"} <=> pc[t] \in {"move", "unlock", "end"}
         /\ pc'[t] \in {"none", "start", "asleep", "insert"} <=> pc[t] \in {"none", "start", "asleep", "insert"}
  BY <1>2 DEF Phases
<1>4. \A k \in 1 .. n : o[k] \in Lab23!Threads /\ pc[o[k]] \in {"move", "unlock", "end"}
  BY <1>1 DEF Queue
<1>5. \A k, l \in 1 .. n : k < l => o[k] # o[l] /\ wake'[o[k]] <= wake'[o[l]] + Delay
  BY <1>4 DEF Queue
<1>6. (\E t \in Lab23!Threads : pc'[t] = "move") <=> (\E t \in Lab23!Threads : pc[t] = "move")
  OBVIOUS
<1>7. n # 0 => (pc'[o[n]] = "move" <=> pc[o[n]] = "move")
  BY <1>1
<1>8. IF \E t \in Lab23!Threads : pc'[t] = "move"
        THEN n # 0 /\ pc'[o[n]] = "move" /\ finishedNode' = IF n = 1 THEN Lab23!Null ELSE o[n - 1]
        ELSE finishedNode' = IF n = 0 THEN Lab23!Null ELSE o[n]
  BY <1>6, <1>7 DEF Queue
<1>9. \A t \in Lab23!Threads : (\E k \in 1 .. n : o[k] = t) <=> pc'[t] \in {"move", "unlock", "end"}
  BY <1>3 DEF Queue
<1>10. \A t \in Lab23!Threads : pc'[t] \in {"none", "start", "asleep", "insert"} => next'[t] = Lab23!Null
  BY <1>3 DEF Queue
<1>11. /\ head' = IF n = 0 THEN Lab23!Null ELSE o[1]
       /\ \A k \in 1 .. n : next'[o[k]] = IF k = n THEN Lab23!Null ELSE o[k + 1]
  BY DEF Queue
<1>12. QED
  BY <1>1, <1>5, <1>8, <1>9, <1>10, <1>11 DEF Queue, Lab23!Null, Lab23!Threads

\* An empty queue.
LEMMA SleepInit ==
    ASSUME Lab23!Init
    PROVE  SleepCore
<1> USE SleepSizes DEF Lab23!Init
<1>1. Shapes
  <2>1. input \in Seq(Nat \ {0})
    <3>1. CASE lab = "lab3"
      <4>1. input \in [1 .. SleepLines -> Nat \ {0}]
        BY <3>1
      <4> HIDE DEF Lab23!Init
      <4>2. QED
        BY <4>1
    <3>2. CASE lab # "lab3"
      <4>1. PICK m \in 0 .. SleepLines + 1 : input \in [1 .. m -> Lengths]
        BY <3>2 DEF Lab23!Inputs, Lab23!BoundedSeq, Lab23!SeqOf
      <4>2. input \in [1 .. m -> Nat \ {0}]
        BY <4>1
      <4>3. QED
        BY <4>2
    <3>3. QED
      BY <3>1, <3>2
  <2>2. lines \in Seq([number : 0 .. SleepLines + 1, length : Nat]) /\ Len(lines) <= SleepLines
    <3>1. CASE lines = <<>>
      BY <3>1
    <3>2. CASE lines = [k \in Lab23!Threads |-> [number |-> k, length |-> 1]]
      BY <3>2
    <3>3. QED
      BY <3>1, <3>2
  <2>3. out \in Seq(Lab23!Threads \union {Lab23!Wild})
    OBVIOUS
  <2>4. QED
    BY <2>1, <2>2, <2>3 DEF Shapes, Phases
<1>2. \A t \in Lab23!Threads : pc[t] = "none"
  OBVIOUS
<1>3. Reads
  <2>1. CASE lab = "lab3"
    <3>1. lines = [k \in Lab23!Threads |-> [number |-> k, length |-> 1]] /\ input = [k \in Lab23!Threads |-> 1] /\ mpc = "create"
      BY <2>1
    <3>2. Len(lines) = SleepLines /\ Len(input) = SleepLines
      BY <3>1
    <3>3. \A k \in 1 .. Len(lines) : IsWhole(k)
      BY <3>1, <3>2 DEF IsWhole
    <3>4. QED
      BY <2>1, <3>1, <3>3 DEF Reads
  <2>2. CASE lab # "lab3"
    <3>1. lines = <<>> /\ Len(lines) = 0 /\ mpc = "read" /\ counter = 0
      BY <2>2
    <3>2. input \in Seq(Nat \ {0})
      BY <1>1 DEF Shapes
    <3>3. 1 <= Len(input) => input[1] \in Nat \ {0}
      BY <3>2
    <3>4. counter * BufferSize = 0
      BY <3>1
    <3>5. Len(lines) + 1 <= Len(input) => counter * BufferSize <= input[Len(lines) + 1]
                                          /\ counter * BufferSize # input[Len(lines) + 1]
      BY <3>1, <3>3, <3>4
    <3>6. 1 .. Len(lines) = {}
      BY <3>1
    <3> HIDE DEF Lab23!Init
    <3>7. QED
      BY <2>2, <3>1, <3>5, <3>6 DEF Reads
  <2>3. QED
    BY <2>1, <2>2
<1>4. Workers
  <2>1. Len(lines) \in Nat
    BY <1>1 DEF Shapes
  <2>2. \A t \in Lab23!Threads : created < t /\ ~ (t <= joined) /\ mutex # t /\ line[t] = Lab23!Null
    OBVIOUS
  <2>3. mpc \in {"read", "create"}
    OBVIOUS
  <2>4. created = 0 /\ joined = 0 /\ late = {} /\ mutex = Lab23!Free /\ crashed = FALSE
    OBVIOUS
  <2> HIDE DEF Lab23!Init
  <2>5. QED
    BY <1>2, <2>1, <2>2, <2>3, <2>4 DEF Workers, Holding
<1>5. Times
  BY <1>2 DEF Times, Holding
<1>6. Written
  <2>1. mpc \in {"read", "create"} /\ out = <<>> /\ Len(out) = 0
    OBVIOUS
  <2> HIDE DEF Lab23!Init
  <2>2. QED
    BY <1>2, <2>1 DEF Written
<1>7. Queue(<<>>, 0)
  <2>1. /\ \A t \in Lab23!Threads : next[t] = Lab23!Null
        /\ head = Lab23!Null /\ finishedNode = Lab23!Null
    OBVIOUS
  <2>2. <<>> \in [1 .. 0 -> Lab23!Threads]
    OBVIOUS
  <2> HIDE DEF Lab23!Init
  <2>3. QED
    BY <1>2, <2>1, <2>2 DEF Queue
<1>8. QED
  BY <1>1, <1>3, <1>4, <1>5, <1>6, <1>7 DEF SleepCore

\* Line n of the input's m lines is kept with this length.
LineKept(n, m, length) ==
    /\ length \in Nat
    /\ lines' = Append(lines, [number |-> IF n > m THEN Lab23!Null ELSE n, length |-> length])
    /\ counter' = 0
    /\ mpc' = IF lines' = lines \/ Len(lines') = SleepLines THEN "create" ELSE "read"
    /\ n <= m => /\ length = input[n] \/ (open /\ n = m /\ input[n] % BufferSize = 0)
                 /\ input[n] # 1 \/ (open /\ n = m)

\* So is main's count of the lines.
LEMMA KeepsLine ==
    ASSUME NEW n \in Nat, n >= 1, n <= SleepLines, NEW m \in Nat, m = Len(input), NEW length,
           Len(lines) = n - 1, LineKept(n, m, length), lab # "lab3",
           input \in Seq(Nat \ {0}), lines \in Seq([number : 0 .. SleepLines + 1, length : Nat]),
           UNCHANGED <<lab, input, open>>,
           \A k \in 1 .. Len(lines) : IsWhole(k) /\ ~ IsEmpty(k)
    PROVE  Reads' /\ counter' \in Nat /\ mpc' \in {"read", "create"} /\ Len(lines') \in Nat
           /\ lines' \in Seq([number : 0 .. SleepLines + 1, length : Nat]) /\ Len(lines') <= SleepLines
<1> USE SleepSizes
<1> DEFINE new == [number |-> IF n > m THEN Lab23!Null ELSE n, length |-> length]
           Lines23 == [number : 0 .. SleepLines + 1, length : Nat]
<1>1. new \in Lines23
  BY DEF LineKept
<1>2. lines' = Append(lines, new)
  BY DEF LineKept
<1>3. new.number = (IF n > m THEN Lab23!Null ELSE n) /\ new.length = length
  OBVIOUS
<1> HIDE DEF new
<1>4. /\ lines' \in Seq(Lines23) /\ Len(lines') = n /\ lines'[n] = new
      /\ \A k \in 1 .. n - 1 : lines'[k] = lines[k]
  <2> HIDE DEF Lines23
  <2>1. QED
    BY <1>1, <1>2 DEF Lines23
<1>5. lines' # lines
  BY <1>4
<1>6. counter' = 0 /\ mpc' = IF n = SleepLines THEN "create" ELSE "read"
  BY <1>4, <1>5 DEF LineKept
<1>7. IsWhole(n)' /\ ~ IsEmpty(n)'
  BY <1>3, <1>4 DEF IsWhole, IsEmpty, LineKept
<1>8. ASSUME NEW k \in 1 .. n PROVE IsWhole(k)' /\ ~ IsEmpty(k)'
  <2>1. CASE k = n
    BY <1>7, <2>1
  <2>2. CASE k # n
    <3>1. k \in 1 .. n - 1
      BY <2>2
    <3>2. lines'[k] = lines[k]
      BY <1>4, <3>1
    <3>3. IsWhole(k) /\ ~ IsEmpty(k)
      BY <3>1
    <3>4. QED
      BY <3>2, <3>3 DEF IsWhole, IsEmpty
  <2>3. QED
    BY <2>1, <2>2
<1>9. counter' * BufferSize = 0
  BY <1>6
<1>10. n + 1 <= m => input[n + 1] \in Nat /\ input[n + 1] # 0
  <2>1. n + 1 <= m => n + 1 \in 1 .. m
    OBVIOUS
  <2>2. \A k \in 1 .. m : input[k] \in Nat \ {0}
    OBVIOUS
  <2>3. QED
    BY <2>1, <2>2
<1>11. Reads'
  <2>1. \A k \in 1 .. Len(lines') : IsWhole(k)' /\ ~ IsEmpty(k)'
    BY <1>4, <1>8
  <2>2. mpc' = "read" => n < SleepLines
    BY <1>6
  <2>3. Len(lines') + 1 <= Len(input) => counter' * BufferSize <= input[Len(lines') + 1]
                                         /\ counter' * BufferSize # input[Len(lines') + 1]
    <3>1. n + 1 <= m => 0 <= input[n + 1] /\ 0 # input[n + 1]
      BY <1>10
    <3>2. QED
      BY <1>4, <1>9, <3>1, Zenon
  <2>4. mpc' # "read" => Len(lines') = SleepLines
    BY <1>4, <1>6
  <2>5. QED
    BY <1>4, <2>1, <2>2, <2>3, <2>4 DEF Reads
<1>12. QED
  BY <1>4, <1>6, <1>11

-----------------------------------------------------------------------------
(* lab23.c, lab6.c, lab3.c: the steps of main. *)

\* A piece of a line: the line goes on, ends the input, or is kept.
LEMMA PieceReads ==
    ASSUME SleepCore, Lab23!ReadPiece
    PROVE  Reads' /\ counter' \in Nat /\ mpc' \in {"read", "create"} /\ Len(lines') \in Nat
           /\ lines' \in Seq([number : 0 .. SleepLines + 1, length : Nat]) /\ Len(lines') <= SleepLines
<1> USE SleepSizes
<1>1. /\ mpc = "read" /\ lab # "lab3" /\ Len(lines) < SleepLines
      /\ input \in Seq(Nat \ {0}) /\ counter \in Nat
      /\ lines \in Seq([number : 0 .. SleepLines + 1, length : Nat])
      /\ UNCHANGED <<lab, input, open>>
  BY DEF SleepCore, Shapes, Reads, Lab23!ReadPiece, Lab23!inputVars
<1>2. /\ \A k \in 1 .. Len(lines) : IsWhole(k) /\ ~ IsEmpty(k)
      /\ Len(lines) + 1 <= Len(input) =>
              /\ counter * BufferSize <= input[Len(lines) + 1]
              /\ counter * BufferSize = input[Len(lines) + 1] => open /\ Len(lines) + 1 = Len(input)
  BY <1>1 DEF SleepCore, Reads
<1> PICK n \in Nat : n = Len(lines) + 1
  BY <1>1
<1> PICK m \in Nat : m = Len(input)
  BY <1>1
<1> PICK c \in Nat : c = counter * BufferSize
  BY <1>1, Products
<1>3. (counter + 1) * BufferSize = c + BufferSize
  BY <1>1, Products
<1>4. n >= 1 /\ n <= SleepLines /\ Len(lines) = n - 1 /\ 1 .. Len(lines) = 1 .. n - 1
  BY <1>1
<1>5. n <= m => input[n] \in Nat /\ input[n] # 0 /\ c <= input[n] /\ (c = input[n] => open /\ n = m)
  <2>1. n <= m => n \in 1 .. m
    BY <1>4
  <2>2. \A k \in 1 .. m : input[k] \in Nat \ {0}
    BY <1>1
  <2>3. QED
    BY <1>2, <2>1, <2>2
<1>6. Lab23!AtEof <=> n > m \/ input[n] = c
  BY DEF Lab23!AtEof, Lab23!Number
<1>7. PICK length \in Lab23!Filled :
         IF Lab23!Continued(length)
           THEN counter' = counter + 1 /\ UNCHANGED <<lines, mpc>>
           ELSE /\ counter' = 0
                /\ IF length = 1 /\ Lab23!EndsInNewline(length)
                     THEN UNCHANGED lines
                     ELSE lines' = Append(lines,
                            [number |-> IF n > m THEN Lab23!Null ELSE n, length |-> length])
                /\ mpc' = IF lines' = lines \/ Len(lines') = SleepLines THEN "create" ELSE "read"
  BY DEF Lab23!ReadPiece, Lab23!Number
<1>8. Lab23!EndsInNewline(length) <=> ~ (n > m \/ input[n] = c) /\ length = input[n] /\ ~ (open /\ n = m)
  BY <1>6 DEF Lab23!EndsInNewline, Lab23!Number
<1>9. Lab23!Continued(length) <=> length = c + BufferSize /\ ~ Lab23!EndsInNewline(length)
  BY <1>3 DEF Lab23!Continued
<1>10. CASE n > m \/ input[n] = c
  <2>1. PICK rest \in Rest : length = c + rest
    BY <1>6, <1>10 DEF Lab23!Filled
  <2>2. length \in Nat /\ length < c + BufferSize
    <3>1. rest \in 0 .. BufferSize - 1
      OBVIOUS
    <3>2. QED
      BY <2>1, <3>1, PieceBounds
  <2>3. ~ Lab23!Continued(length) /\ ~ Lab23!EndsInNewline(length)
    BY <1>8, <1>9, <1>10, <2>2
  <2>4. lines' = Append(lines, [number |-> IF n > m THEN Lab23!Null ELSE n, length |-> length])
        /\ counter' = 0 /\ mpc' = IF lines' = lines \/ Len(lines') = SleepLines THEN "create" ELSE "read"
    BY <1>7, <2>3
  <2>5. n <= m => open /\ n = m /\ input[n] % BufferSize = 0
    <3>1. c % BufferSize = 0
      BY <1>1, Products
    <3>2. QED
      BY <1>5, <1>10, <3>1
  <2>6. LineKept(n, m, length)
    BY <2>2, <2>4, <2>5 DEF LineKept
  <2>7. QED
    BY <1>1, <1>2, <1>4, <2>6, KeepsLine
<1>11. CASE ~ (n > m \/ input[n] = c)
  <2>1. n <= m /\ c < input[n] /\ input[n] \in Nat
    BY <1>5, <1>11
  <2>2. length = IF input[n] <= c + BufferSize THEN input[n] ELSE c + BufferSize
    <3>1. length = Lab23!Min({input[n], c + BufferSize})
      BY <1>3, <1>6, <1>11 DEF Lab23!Filled, Lab23!Number
    <3>2. c + BufferSize \in Int /\ input[n] \in Int
      BY <2>1
    <3> DEFINE S == {input[n], c + BufferSize}
    <3>3. CASE input[n] <= c + BufferSize
      <4>1. S \in SUBSET Int /\ input[n] \in S /\ \A k \in S : input[n] <= k
        BY <3>2, <3>3
      <4> HIDE DEF S
      <4>2. Lab23!Min(S) = input[n]
        BY <4>1, LeastIs
      <4>3. QED
        BY <3>1, <3>3, <4>2 DEF S
    <3>4. CASE ~ (input[n] <= c + BufferSize)
      <4>1. S \in SUBSET Int /\ c + BufferSize \in S /\ \A k \in S : c + BufferSize <= k
        BY <3>2, <3>4
      <4> HIDE DEF S
      <4>2. Lab23!Min(S) = c + BufferSize
        BY <4>1, LeastIs
      <4>3. QED
        BY <3>1, <3>4, <4>2 DEF S
    <3>5. QED
      BY <3>3, <3>4
  <2>3. CASE Lab23!Continued(length)
    <3>1. counter' = counter + 1 /\ UNCHANGED <<lines, mpc>> /\ length = c + BufferSize
          /\ ~ Lab23!EndsInNewline(length)
      BY <1>7, <1>9, <2>3
    <3>2. counter' * BufferSize = c + BufferSize
      BY <1>3, <3>1
    <3>3. c + BufferSize <= input[n] /\ (c + BufferSize = input[n] => open /\ n = m)
      BY <1>8, <1>11, <2>1, <2>2, <3>1
    <3>4. \A k : (IsWhole(k) => IsWhole(k)') /\ (IsEmpty(k)' => IsEmpty(k))
      BY <1>1, <3>1 DEF IsWhole, IsEmpty
    <3>5. QED
      BY <1>1, <1>2, <1>4, <3>1, <3>2, <3>3, <3>4 DEF Reads
  <2>4. CASE ~ Lab23!Continued(length)
    <3>1. length = input[n]
      BY <1>8, <1>9, <2>1, <2>2, <2>4
    <3>2. Lab23!EndsInNewline(length) <=> ~ (open /\ n = m)
      BY <1>8, <1>11, <3>1
    <3>3. CASE length = 1 /\ ~ (open /\ n = m)
      <4>1. UNCHANGED lines /\ counter' = 0 /\ mpc' = "create"
        BY <1>7, <2>4, <3>2, <3>3
      <4>2. \A k : (IsWhole(k) => IsWhole(k)') /\ (IsEmpty(k)' <=> IsEmpty(k))
        BY <1>1, <4>1 DEF IsWhole, IsEmpty
      <4>3. IsEmpty(n)
        BY <1>4, <2>1, <3>1, <3>3 DEF IsEmpty
      <4>4. \A k \in 1 .. Len(lines') : IsWhole(k)' /\ ~ IsEmpty(k)'
        BY <1>2, <4>1, <4>2
      <4>5. Len(lines') + 1 = n /\ IsEmpty(n)'
        BY <4>1, <4>2, <4>3
      <4>6. Reads'
        BY <1>1, <4>1, <4>4, <4>5 DEF Reads
      <4>7. QED
        BY <1>1, <4>1, <4>6
    <3>4. CASE ~ (length = 1 /\ ~ (open /\ n = m))
      <4>1. lines' = Append(lines, [number |-> IF n > m THEN Lab23!Null ELSE n, length |-> length])
            /\ counter' = 0 /\ mpc' = IF lines' = lines \/ Len(lines') = SleepLines THEN "create" ELSE "read"
        BY <1>7, <2>4, <3>2, <3>4
      <4>2. LineKept(n, m, length)
        BY <2>1, <3>1, <3>4, <4>1 DEF LineKept
      <4>3. QED
        BY <1>1, <1>2, <1>4, <4>2, KeepsLine
    <3>5. QED
      BY <3>3, <3>4
  <2>5. QED
    BY <2>3, <2>4
<1>12. QED
  BY <1>10, <1>11

\* Main reads: there are no threads yet.
LEMMA PieceKeeps ==
    ASSUME SleepCore, Lab23!ReadPiece
    PROVE  SleepCore'
<1> USE SleepSizes
<1>1. /\ Reads' /\ counter' \in Nat /\ mpc' \in {"read", "create"} /\ Len(lines') \in Nat
      /\ lines' \in Seq([number : 0 .. SleepLines + 1, length : Nat]) /\ Len(lines') <= SleepLines
  BY PieceReads
<1>2. /\ mpc = "read" /\ ~ crashed
      /\ UNCHANGED <<lab, input, open, created, joined, pc, line, wake, now, mutex, head, next,
                     finishedNode, out, late, crashed>>
  BY DEF Lab23!ReadPiece, Lab23!inputVars, Lab23!threadVars, Lab23!list
<1>3. Shapes /\ Workers /\ Times /\ Written
  BY DEF SleepCore
<1>4. Shapes'
  BY <1>1, <1>2, <1>3 DEF Shapes
<1>5. created = 0 /\ joined = 0 /\ \A t \in Lab23!Threads : pc[t] = "none"
  <2>1. created = 0 /\ joined = 0
    BY <1>2, <1>3 DEF Workers
  <2>2. \A t \in Lab23!Threads : created < t
    BY <2>1
  <2>3. QED
    BY <1>3, <2>1, <2>2 DEF Workers
<1>6. Workers'
  BY <1>1, <1>2, <1>3, <1>5 DEF Workers
<1>7. Times'
  BY <1>2, <1>3, <1>5 DEF Times, Holding
<1>8. Written'
  <2>1. Len(out) = 0 /\ out = <<>>
    <3>1. Len(out) \in Nat /\ out \in Seq(Lab23!Threads \union {Lab23!Wild})
      BY <1>3 DEF Shapes
    <3>2. late = {}
      BY <1>2, <1>3 DEF Workers
    <3>3. \A a \in 1 .. Len(out) : FALSE
      BY <1>3, <1>5, <3>2 DEF Written
    <3>4. Len(out) = 0
      BY <3>1, <3>3
    <3>5. QED
      BY <3>1, <3>4
  <2>2. 1 .. Len(out) = {}
    BY <2>1
  <2>3. QED
    BY <1>1, <1>2, <1>5, <2>1, <2>2 DEF Written
<1>9. ASSUME lab' = "lab23" PROVE \E o, n : Queue(o, n)'
  <2>1. PICK o, n : Queue(o, n)
    BY <1>2, <1>9 DEF SleepCore
  <2>2. pc' \in [Lab23!Threads -> Phases]
    BY <1>2, <1>3 DEF Shapes
  <2>3. Queue(o, n)'
    BY <1>2, <1>3, <2>1, <2>2, QueueKept
  <2>4. QED
    BY <2>3
<1>10. QED
  BY <1>1, <1>4, <1>6, <1>7, <1>8, <1>9 DEF SleepCore

\* What is kept of the lines when main has read them.
LEMMA ReadsKept ==
    ASSUME Reads, mpc # "read", mpc' # "read", UNCHANGED <<lab, input, open, lines>>
    PROVE  Reads'
  BY DEF Reads, IsWhole, IsEmpty

\* A thread is created.
LEMMA CreateKeeps ==
    ASSUME SleepCore, Lab23!Create
    PROVE  SleepCore'
<1> USE SleepSizes
<1>1. /\ mpc = "create" /\ ~ crashed
      /\ UNCHANGED <<lab, input, open, lines, counter, joined, line, wake, now, mutex, head, next,
                     finishedNode, out, late, crashed>>
  BY DEF Lab23!Create, Lab23!readVars, Lab23!inputVars, Lab23!threadVars, Lab23!list
<1>2. Shapes /\ Reads /\ Workers /\ Times /\ Written
  BY DEF SleepCore
<1>3. Reads'
  <2>1. mpc' # "read"
    BY <1>1 DEF Lab23!Create, Lab23!AfterCreate
  <2>2. QED
    BY <1>1, <1>2, <2>1, ReadsKept
<1>4. CASE created = Len(lines)
  <2>1. /\ UNCHANGED <<created, pc>>
        /\ mpc' = IF lab = "lab23" THEN "join" ELSE "exited"
    BY <1>4 DEF Lab23!Create, Lab23!AfterCreate
  <2>2. Shapes'
    BY <1>1, <1>2, <2>1 DEF Shapes
  <2>3. Workers'
    BY <1>1, <1>2, <2>1 DEF Workers
  <2>4. Times'
    BY <1>1, <1>2, <2>1 DEF Times, Due
  <2>5. Written'
    BY <1>1, <1>2, <2>1 DEF Written
  <2>6. ASSUME lab' = "lab23" PROVE \E o, n : Queue(o, n)'
    <3>1. PICK o, n : Queue(o, n)
      BY <1>1, <2>6 DEF SleepCore
    <3>2. pc' \in [Lab23!Threads -> Phases]
      BY <1>2, <2>1 DEF Shapes
    <3>3. QED
      BY <1>1, <1>2, <2>1, <3>1, <3>2, QueueKept
  <2>7. QED
    BY <1>3, <2>2, <2>3, <2>4, <2>5, <2>6 DEF SleepCore
<1>5. CASE created # Len(lines)
  <2>1. /\ created' = created + 1 /\ mpc' = mpc
        /\ pc' = [pc EXCEPT ![created + 1] = "start"]
    BY <1>5 DEF Lab23!Create
  <2>2. /\ pc \in [Lab23!Threads -> Phases] /\ created \in Nat /\ created < Len(lines)
        /\ Len(lines) \in Nat /\ Len(lines) <= SleepLines
    BY <1>2, <1>5 DEF Shapes, Workers
  <2>3. created + 1 \in Lab23!Threads /\ pc[created + 1] = "none"
    <3>1. created + 1 \in Lab23!Threads /\ created < created + 1
      BY <2>2
    <3>2. QED
      BY <1>2, <3>1 DEF Workers
  <2>4. /\ pc' \in [Lab23!Threads -> Phases] /\ pc'[created + 1] = "start"
        /\ \A t \in Lab23!Threads : t # created + 1 => pc'[t] = pc[t]
    BY <2>1, <2>2, <2>3 DEF Phases
  <2>5. Shapes'
    <3>1. created' \in Nat /\ mpc' \in {"read", "create", "join", "freed", "exited"}
      BY <1>1, <2>1, <2>2
    <3>2. pc' \in [Lab23!Threads -> Phases]
      BY <2>4
    <3>3. QED
      BY <1>1, <1>2, <3>1, <3>2 DEF Shapes
  <2>6. Workers'
    <3>1. ASSUME NEW t \in Lab23!Threads
          PROVE  /\ pc'[t] = "none" <=> created + 1 < t
                 /\ t <= joined => pc'[t] = "end"
                 /\ mutex = t <=> pc'[t] \in Holding
                 /\ IF pc'[t] \in {"none", "start"} THEN line[t] = Lab23!Null
                    ELSE line[t] = t \/ (line[t] = Lab23!Wild /\ t \in late)
      <4>1. CASE t = created + 1
        BY <1>2, <2>2, <2>3, <2>4, <4>1 DEF Workers, Holding
      <4>2. CASE t # created + 1
        <5>1. pc'[t] = pc[t] /\ (created < t <=> created + 1 < t)
          BY <2>2, <2>4, <4>2
        <5>2. QED
          BY <1>2, <5>1 DEF Workers
      <4>3. QED
        BY <4>1, <4>2
    <3>2. created + 1 <= Len(lines) /\ joined <= created + 1
      BY <1>2, <2>2 DEF Workers, Shapes
    <3>3. QED
      BY <1>1, <1>2, <2>1, <3>1, <3>2 DEF Workers
  <2>7. Times'
    <3>1. now <= Delay
      BY <1>1, <1>2 DEF Times
    <3>2. QED
      BY <1>1, <1>2, <2>1, <2>4, <3>1 DEF Times, Due, Holding
  <2>8. Written'
    BY <1>1, <1>2, <2>1, <2>3, <2>4 DEF Written
  <2>9. ASSUME lab' = "lab23" PROVE \E o, n : Queue(o, n)'
    <3>1. PICK o, n : Queue(o, n)
      BY <1>1, <2>9 DEF SleepCore
    <3>2. QED
      BY <1>1, <1>2, <2>3, <2>4, <3>1, QueueKept
  <2>10. QED
    BY <1>3, <2>5, <2>6, <2>7, <2>8, <2>9 DEF SleepCore
<1>6. QED
  BY <1>4, <1>5

\* No more threads are created.
LEMMA CreateFailsKeeps ==
    ASSUME SleepCore, Lab23!CreateFails
    PROVE  SleepCore'
<1> USE SleepSizes
<1>1. /\ mpc = "create" /\ ~ crashed /\ created < Len(lines)
      /\ mpc' = IF lab = "lab23" THEN "join" ELSE "exited"
      /\ UNCHANGED <<lab, input, open, lines, counter, created, joined, pc, line, wake, now, mutex, head,
                     next, finishedNode, out, late, crashed>>
  BY DEF Lab23!CreateFails, Lab23!AfterCreate, Lab23!readVars, Lab23!inputVars, Lab23!threadVars, Lab23!list
<1>2. Shapes /\ Reads /\ Workers /\ Times /\ Written
  BY DEF SleepCore
<1>3. Reads'
  BY <1>1, <1>2, ReadsKept
<1>4. Shapes'
  BY <1>1, <1>2 DEF Shapes
<1>5. Workers'
  BY <1>1, <1>2 DEF Workers
<1>6. Times'
  BY <1>1, <1>2 DEF Times, Due
<1>7. Written'
  BY <1>1, <1>2 DEF Written
<1>8. ASSUME lab' = "lab23" PROVE \E o, n : Queue(o, n)'
  <2>1. PICK o, n : Queue(o, n)
    BY <1>1, <1>8 DEF SleepCore
  <2>2. pc' \in [Lab23!Threads -> Phases]
    BY <1>1, <1>2 DEF Shapes
  <2>3. QED
    BY <1>1, <1>2, <2>1, <2>2, QueueKept
<1>9. QED
  BY <1>3, <1>4, <1>5, <1>6, <1>7, <1>8 DEF SleepCore

\* Main of lab23.c joins the next thread.
LEMMA JoinKeeps ==
    ASSUME SleepCore, Lab23!Join
    PROVE  SleepCore'
<1> USE SleepSizes
<1>1. /\ mpc = "join" /\ mpc' = "join" /\ joined < created /\ pc[joined + 1] = "end" /\ joined' = joined + 1
      /\ UNCHANGED <<lab, input, open, lines, counter, created, pc, line, wake, now, mutex, head,
                     next, finishedNode, out, late, crashed>>
  BY DEF Lab23!Join, Lab23!readVars, Lab23!inputVars, Lab23!threadVars, Lab23!list
<1>2. Shapes /\ Reads /\ Workers /\ Times /\ Written
  BY DEF SleepCore
<1>3. Reads'
  BY <1>1, <1>2, ReadsKept
<1>4. Shapes'
  BY <1>1, <1>2 DEF Shapes
<1>5. Workers'
  <2>1. joined \in Nat /\ created \in Nat /\ joined + 1 <= created
    BY <1>1, <1>2 DEF Shapes
  <2>2. \A t \in Lab23!Threads : t <= joined + 1 => t <= joined \/ t = joined + 1
    BY <2>1
  <2>3. \A t \in Lab23!Threads : t <= joined + 1 => pc[t] = "end"
    BY <1>1, <1>2, <2>2 DEF Workers
  <2>4. QED
    BY <1>1, <1>2, <2>1, <2>3 DEF Workers
<1>6. Times'
  BY <1>1, <1>2 DEF Times, Due
<1>7. Written'
  BY <1>1, <1>2 DEF Written
<1>8. ASSUME lab' = "lab23" PROVE \E o, n : Queue(o, n)'
  <2>1. PICK o, n : Queue(o, n)
    BY <1>1, <1>8 DEF SleepCore
  <2>2. pc' \in [Lab23!Threads -> Phases]
    BY <1>1, <1>2 DEF Shapes
  <2>3. QED
    BY <1>1, <1>2, <2>1, <2>2, QueueKept
<1>9. QED
  BY <1>3, <1>4, <1>5, <1>6, <1>7, <1>8 DEF SleepCore

\* It joins a thread that does not exist.
LEMMA JoinFailsKeeps ==
    ASSUME SleepCore, Lab23!JoinFails
    PROVE  SleepCore'
<1> USE SleepSizes
<1>1. /\ mpc = "join" /\ joined = created /\ created < Len(lines) /\ ~ crashed
      /\ \/ crashed' = TRUE /\ UNCHANGED <<mpc, head>>
         \/ mpc' = "freed" /\ head' = Lab23!Null /\ UNCHANGED crashed
      /\ UNCHANGED <<lab, input, open, lines, counter, created, joined, pc, line, wake, now, mutex,
                     next, finishedNode, out, late>>
  BY DEF Lab23!JoinFails, Lab23!readVars, Lab23!inputVars, Lab23!threadVars
<1>2. Shapes /\ Reads /\ Workers /\ Times /\ Written
  BY DEF SleepCore
<1>3. lab = "lab23"
  BY <1>1, <1>2 DEF Workers
<1>4. Reads'
  BY <1>1, <1>2, ReadsKept
<1>5. Shapes'
  BY <1>1, <1>2 DEF Shapes
<1>6. Workers'
  BY <1>1, <1>2, <1>3 DEF Workers
<1>7. Times'
  BY <1>1, <1>2 DEF Times, Due
<1>8. Written'
  <2>1. created \in Nat /\ Len(lines) \in Nat /\ created # Len(lines)
    BY <1>1, <1>2 DEF Shapes
  <2>2. QED
    BY <1>1, <1>2, <1>3, <2>1 DEF Written
<1>9. ASSUME mpc' # "freed" PROVE \E o, n : Queue(o, n)'
  <2>1. PICK o, n : Queue(o, n)
    BY <1>1, <1>3 DEF SleepCore
  <2>2. pc' \in [Lab23!Threads -> Phases]
    BY <1>1, <1>2 DEF Shapes
  <2>3. QED
    BY <1>1, <1>2, <1>9, <2>1, <2>2, QueueKept
<1>10. QED
  BY <1>4, <1>5, <1>6, <1>7, <1>8, <1>9 DEF SleepCore

\* It prints the lines of the list and frees it.
LEMMA PrintListKeeps ==
    ASSUME SleepCore, Lab23!PrintList
    PROVE  SleepCore'
<1> USE SleepSizes
<1>1. /\ mpc = "join" /\ mpc' = "freed" /\ joined = Len(lines) /\ head' = Lab23!Null
      /\ out' = [k \in DOMAIN Lab23!Nodes |-> line[Lab23!Nodes[k]]]
      /\ UNCHANGED <<lab, input, open, lines, counter, created, joined, pc, line, wake, now, mutex,
                     next, finishedNode, late, crashed>>
  BY DEF Lab23!PrintList, Lab23!readVars, Lab23!inputVars, Lab23!threadVars
<1>2. Shapes /\ Reads /\ Workers /\ Times /\ Written
  BY DEF SleepCore
<1>3. lab = "lab23" /\ late = {}
  BY <1>1, <1>2 DEF Workers
<1>4. created = Len(lines) /\ joined = created
  <2>1. created \in Nat /\ joined \in Nat /\ joined <= created /\ created <= Len(lines)
    BY <1>2 DEF Shapes, Workers
  <2>2. QED
    BY <1>1, <2>1
<1>5. PICK o, n : Queue(o, n)
  BY <1>1, <1>3 DEF SleepCore
<1>6. /\ Lab23!Nodes = o /\ n \in Nat /\ o \in [1 .. n -> Lab23!Threads]
      /\ \A k \in 1 .. n : pc[o[k]] \in {"move", "unlock", "end"}
      /\ \A t \in Lab23!Threads : pc[t] = "end" => \E k \in 1 .. n : o[k] = t
      /\ \A k, l \in 1 .. n : k < l => o[k] # o[l] /\ wake[o[k]] <= wake[o[l]] + Delay
  BY <1>5, QueueWalk DEF Queue
<1>7. \A t \in Lab23!Threads : pc[t] \in {"none", "end"}
  <2>1. \A t \in Lab23!Threads : created < t \/ t <= joined
    <3>1. created \in Nat
      BY <1>2 DEF Shapes
    <3>2. QED
      BY <1>4, <3>1
  <2>2. QED
    BY <1>2, <2>1 DEF Workers
<1>8. \A k \in 1 .. n : o[k] \in Lab23!Threads /\ pc[o[k]] = "end" /\ line[o[k]] = o[k]
  <2>1. ASSUME NEW k \in 1 .. n PROVE o[k] \in Lab23!Threads /\ pc[o[k]] = "end" /\ line[o[k]] = o[k]
    <3>1. o[k] \in Lab23!Threads /\ pc[o[k]] \in {"move", "unlock", "end"}
      BY <1>6
    <3>2. pc[o[k]] = "end"
      BY <1>7, <3>1
    <3>3. QED
      BY <1>2, <1>3, <3>1, <3>2 DEF Workers
  <2>2. QED
    BY <2>1
<1>9. out' = o
  <2>1. DOMAIN o = 1 .. n /\ o = [k \in 1 .. n |-> o[k]]
    BY <1>6
  <2>2. out' = [k \in 1 .. n |-> line[o[k]]]
    BY <1>1, <1>6, <2>1
  <2>3. QED
    BY <1>8, <2>1, <2>2
<1>10. o \in Seq(Lab23!Threads \union {Lab23!Wild}) /\ Len(o) = n
  BY <1>6
<1>11. Reads'
  BY <1>1, <1>2, ReadsKept
<1>12. Shapes'
  BY <1>1, <1>2, <1>9, <1>10 DEF Shapes
<1>13. Workers'
  BY <1>1, <1>2, <1>3, <1>4 DEF Workers
<1>14. Times'
  BY <1>1, <1>2 DEF Times, Due
<1>15. Written'
  <2>1. ~ (created < Len(lines))
    <3>1. created \in Nat
      BY <1>2 DEF Shapes
    <3>2. QED
      BY <1>4, <3>1
  <2>2. \A k \in 1 .. n : o[k] # Lab23!Wild
    BY <1>8
  <2>3. UNCHANGED <<lab, created, lines, pc, line, wake, late>> /\ mpc' = "freed" /\ Len(out') = n
    BY <1>1, <1>9, <1>10
  <2>4. QED
    BY <1>3, <1>4, <1>6, <1>8, <1>9, <2>1, <2>2, <2>3 DEF Written
<1>16. QED
  BY <1>1, <1>11, <1>12, <1>13, <1>14, <1>15 DEF SleepCore

\* A thread that exists has a line.
LEMMA HasLine ==
    ASSUME Shapes, Workers, NEW t \in Lab23!Threads, pc[t] # "none"
    PROVE  t \in Nat /\ t <= created /\ t \in 1 .. Len(lines) /\ lines[t].length \in Nat /\ Due(t) \in Nat
<1> USE SleepSizes
<1>1. t \in Nat /\ t >= 1 /\ created \in Nat /\ Len(lines) \in Nat
  BY DEF Shapes
<1>2. t <= created
  BY <1>1 DEF Workers
<1>3. t \in 1 .. Len(lines)
  BY <1>1, <1>2 DEF Workers
<1>4. lines \in Seq([number : 0 .. SleepLines + 1, length : Nat])
  BY DEF Shapes
<1>5. lines[t].length \in Nat
  <2> DEFINE Line == [number : 0 .. SleepLines + 1, length : Nat]
  <2>1. \A x \in Line : x.length \in Nat
    OBVIOUS
  <2> HIDE DEF Line
  <2>2. lines[t] \in Line
    <3>1. lines \in Seq(Line)
      BY <1>4 DEF Line
    <3>2. QED
      BY <1>3, <3>1, ElementOfSeq
  <2>3. QED
    BY <2>1, <2>2
<1>6. Due(t) \in Nat
  BY <1>5, Products DEF Due
<1>7. QED
  BY <1>1, <1>2, <1>3, <1>5, <1>6

\* A thread reads its argument and goes to sleep.
LEMMA StartKeeps ==
    ASSUME SleepCore, NEW t \in Lab23!Threads, Lab23!Start(t)
    PROVE  SleepCore'
<1> USE SleepSizes
<1>1. /\ pc[t] = "start" /\ ~ crashed
      /\ late' = IF mpc = "exited" THEN late \union {t} ELSE late
      /\ UNCHANGED <<lab, input, open, lines, counter, mpc, created, joined, now, mutex, head, next,
                     finishedNode, out>>
  BY DEF Lab23!Start, Lab23!readVars, Lab23!inputVars, Lab23!list
<1>2. PICK l \in {t} \union (IF mpc = "exited" THEN {Lab23!Wild} ELSE {}) :
         /\ line' = [line EXCEPT ![t] = l]
         /\ wake' = [wake EXCEPT ![t] = now + Lab23!Sleep(l)]
         /\ crashed' \in {FALSE, l = Lab23!Wild}
  BY DEF Lab23!Start
<1>3. pc' = [pc EXCEPT ![t] = "asleep"]
  BY DEF Lab23!Start
<1>4. Shapes /\ Reads /\ Workers /\ Times /\ Written
  BY DEF SleepCore
<1>5. t \in Nat /\ t <= created /\ t \in 1 .. Len(lines) /\ lines[t].length \in Nat /\ Due(t) \in Nat
  BY <1>1, <1>4, HasLine
<1>6. t # Lab23!Wild /\ (l = t \/ (l = Lab23!Wild /\ mpc = "exited" /\ late' = late \union {t}))
  BY <1>1, <1>2, <1>5
<1> DEFINE s == Lab23!Sleep(l)
<1>7. s \in Nat /\ (l = t /\ lab # "lab3" => s = Due(t))
  <2>1. CASE l = Lab23!Wild \/ lab = "lab3"
    BY <1>6, <2>1 DEF Lab23!Sleep
  <2>2. CASE ~ (l = Lab23!Wild \/ lab = "lab3")
    <3>1. s = Factor * lines[l].length /\ l = t
      BY <1>6, <2>2 DEF Lab23!Sleep
    <3>2. QED
      BY <1>5, <3>1 DEF Due
  <2>3. QED
    BY <2>1, <2>2
<1> HIDE DEF s
<1>8. /\ pc \in [Lab23!Threads -> Phases] /\ wake \in [Lab23!Threads -> Nat] /\ now \in Nat
      /\ line \in [Lab23!Threads -> Lab23!Threads \union {Lab23!Null, Lab23!Wild}]
  BY <1>4 DEF Shapes
<1>9. now + s \in Nat
  BY <1>7, <1>8
<1>10. /\ pc' \in [Lab23!Threads -> Phases] /\ wake' \in [Lab23!Threads -> Nat]
       /\ line' \in [Lab23!Threads -> Lab23!Threads \union {Lab23!Null, Lab23!Wild}]
  <2>1. wake' = [wake EXCEPT ![t] = now + s]
    BY <1>2 DEF s
  <2>2. wake' \in [Lab23!Threads -> Nat]
    BY <1>8, <1>9, <2>1
  <2>3. QED
    BY <1>2, <1>3, <1>6, <1>8, <2>2 DEF Phases
<1>11. /\ pc'[t] = "asleep" /\ line'[t] = l /\ wake'[t] = now + s
       /\ \A u \in Lab23!Threads : u # t => pc'[u] = pc[u] /\ line'[u] = line[u] /\ wake'[u] = wake[u]
  BY <1>2, <1>3, <1>8 DEF s
<1>12. crashed' \in BOOLEAN /\ (crashed' => l = Lab23!Wild)
  BY <1>2, <1>6
<1>13. late \subseteq late' /\ late' \subseteq Lab23!Threads /\ (late' # late => t \in late' /\ mpc = "exited")
  BY <1>1, <1>4 DEF Shapes
<1>14. Shapes'
  BY <1>1, <1>4, <1>10, <1>12, <1>13 DEF Shapes
<1>15. Reads'
  BY <1>1, <1>4 DEF Reads, IsWhole, IsEmpty
<1>16. Workers'
  <2>1. ASSUME NEW u \in Lab23!Threads
        PROVE  /\ pc'[u] = "none" <=> created < u
               /\ u <= joined => pc'[u] = "end"
               /\ mutex = u <=> pc'[u] \in Holding
               /\ IF pc'[u] \in {"none", "start"} THEN line'[u] = Lab23!Null
                  ELSE line'[u] = u \/ (line'[u] = Lab23!Wild /\ u \in late')
    <3>1. CASE u = t
      <4>1. created \in Nat /\ joined \in Nat /\ ~ (created < t) /\ ~ (t <= joined) /\ mutex # t
        BY <1>1, <1>4 DEF Workers, Shapes, Holding
      <4>2. line'[t] = t \/ (line'[t] = Lab23!Wild /\ t \in late')
        BY <1>6, <1>11
      <4>3. QED
        BY <1>11, <3>1, <4>1, <4>2 DEF Holding
    <3>2. CASE u # t
      BY <1>4, <1>11, <1>13, <3>2 DEF Workers
    <3>3. QED
      BY <3>1, <3>2
  <2>2. lab = "lab23" => mpc # "exited" /\ late' = {}
    BY <1>1, <1>4 DEF Workers
  <2>3. late' # {} => mpc = "exited"
    BY <1>1, <1>4 DEF Workers
  <2>4. crashed' => IF lab = "lab23" THEN created < Len(lines) /\ mpc = "join" ELSE late' # {}
    BY <1>6, <1>12, <2>2
  <2>5. QED
    BY <1>1, <1>4, <2>1, <2>2, <2>3, <2>4 DEF Workers
<1>17. Times'
  <2>1. now <= Delay
    BY <1>1, <1>4 DEF Times
  <2>2. l = t /\ lab # "lab3" => Due(t) <= now + s /\ now + s <= Due(t) + Delay
    BY <1>5, <1>7, <1>8, <2>1
  <2>3. now <= now + s + Delay
    BY <1>7, <1>8
  <2>4. ASSUME NEW u \in Lab23!Threads
        PROVE  /\ pc'[u] = "start" => now <= Delay
               /\ pc'[u] \notin {"none", "start"} /\ line'[u] = u /\ lab # "lab3" =>
                    Due(u) <= wake'[u] /\ wake'[u] <= Due(u) + Delay
               /\ pc'[u] \in {"asleep", "insert"} => now <= wake'[u] + Delay
               /\ pc'[u] \in Holding \union {"end"} => wake'[u] <= now
    <3>1. CASE u = t
      BY <1>11, <2>2, <2>3, <3>1 DEF Holding
    <3>2. CASE u # t
      BY <1>4, <1>11, <3>2 DEF Times
    <3>3. QED
      BY <3>1, <3>2
  <2>5. QED
    BY <1>1, <1>4, <2>4 DEF Times, Due
<1>18. Written'
  <2>1. \A u \in Lab23!Threads : pc'[u] = "end" => pc[u] = "end" /\ u # t
    BY <1>11
  <2>2. \A u \in Lab23!Threads : pc[u] = "end" => u # t /\ pc'[u] = "end" /\ line'[u] = line[u] /\ wake'[u] = wake[u]
    BY <1>1, <1>11
  <2>3. late # {} => late' # {}
    BY <1>13
  <2>4. QED
    BY <1>1, <1>4, <2>1, <2>2, <2>3 DEF Written
<1>19. ASSUME lab' = "lab23", mpc' # "freed" PROVE \E o, n : Queue(o, n)'
  <2>1. PICK o, n : Queue(o, n)
    BY <1>1, <1>19 DEF SleepCore
  <2>2. QED
    BY <1>1, <1>4, <1>10, <1>11, <2>1, QueueKept
<1>20. QED
  BY <1>14, <1>15, <1>16, <1>17, <1>18, <1>19 DEF SleepCore

\* A thread of lab6.c or lab3.c writes its line when its sleep is over.
LEMMA WriteKeeps ==
    ASSUME SleepCore, NEW t \in Lab23!Threads, Lab23!Write(t)
    PROVE  SleepCore'
<1> USE SleepSizes
<1>1. /\ pc[t] = "asleep" /\ wake[t] <= now /\ ~ crashed /\ lab # "lab23"
      /\ out' = Append(out, line[t])
      /\ crashed' = (lab = "lab6" /\ line[t] = Lab23!Wild)
      /\ UNCHANGED <<lab, input, open, lines, counter, mpc, created, joined, line, wake, now, mutex, head,
                     next, finishedNode, late>>
  BY DEF Lab23!Write, Lab23!Awake, Lab23!readVars, Lab23!inputVars, Lab23!threadVars, Lab23!list
<1>2. pc' = [pc EXCEPT ![t] = "end"]
  BY DEF Lab23!Write
<1>3. Shapes /\ Reads /\ Workers /\ Times /\ Written
  BY DEF SleepCore
<1>4. /\ pc \in [Lab23!Threads -> Phases] /\ wake \in [Lab23!Threads -> Nat] /\ now \in Nat
      /\ out \in Seq(Lab23!Threads \union {Lab23!Wild})
  BY <1>3 DEF Shapes
<1>5. /\ pc' \in [Lab23!Threads -> Phases] /\ pc'[t] = "end"
      /\ \A u \in Lab23!Threads : u # t => pc'[u] = pc[u]
  BY <1>2, <1>4 DEF Phases
<1>6. line[t] = t \/ (line[t] = Lab23!Wild /\ t \in late)
  BY <1>1, <1>3 DEF Workers
<1>7. t \in Nat /\ t # Lab23!Wild /\ line[t] \in Lab23!Threads \union {Lab23!Wild}
  BY <1>6
<1>8. /\ out' \in Seq(Lab23!Threads \union {Lab23!Wild}) /\ Len(out) \in Nat
      /\ Len(out') = Len(out) + 1 /\ out'[Len(out) + 1] = line[t]
      /\ \A a \in 1 .. Len(out) : out'[a] = out[a]
  BY <1>1, <1>4, <1>7
<1>9. Shapes'
  <2>1. crashed' \in BOOLEAN
    BY <1>1
  <2>2. QED
    BY <1>1, <1>3, <1>5, <1>8, <2>1 DEF Shapes
<1>10. Reads'
  BY <1>1, <1>3 DEF Reads, IsWhole, IsEmpty
<1>11. Workers'
  <2>1. ASSUME NEW u \in Lab23!Threads
        PROVE  /\ pc'[u] = "none" <=> created < u
               /\ u <= joined => pc'[u] = "end"
               /\ mutex = u <=> pc'[u] \in Holding
               /\ IF pc'[u] \in {"none", "start"} THEN line[u] = Lab23!Null
                  ELSE line[u] = u \/ (line[u] = Lab23!Wild /\ u \in late)
    <3>1. CASE u = t
      <4>1. created \in Nat /\ ~ (created < t) /\ mutex # t
        BY <1>1, <1>3 DEF Workers, Shapes, Holding
      <4>2. QED
        BY <1>5, <1>6, <3>1, <4>1 DEF Holding
    <3>2. CASE u # t
      BY <1>3, <1>5, <3>2 DEF Workers
    <3>3. QED
      BY <3>1, <3>2
  <2>2. crashed' => late # {}
    BY <1>1, <1>6, <1>7
  <2>3. QED
    BY <1>1, <1>3, <2>1, <2>2 DEF Workers
<1>12. Times'
  <2>1. ASSUME NEW u \in Lab23!Threads
        PROVE  /\ pc'[u] = "start" => now <= Delay
               /\ pc'[u] \notin {"none", "start"} /\ line[u] = u /\ lab # "lab3" =>
                    Due(u) <= wake[u] /\ wake[u] <= Due(u) + Delay
               /\ pc'[u] \in {"asleep", "insert"} => now <= wake[u] + Delay
               /\ pc'[u] \in Holding \union {"end"} => wake[u] <= now
    <3>1. CASE u = t
      BY <1>1, <1>3, <1>5, <3>1 DEF Times, Holding
    <3>2. CASE u # t
      BY <1>3, <1>5, <3>2 DEF Times
    <3>3. QED
      BY <3>1, <3>2
  <2>2. QED
    BY <1>1, <1>3, <2>1 DEF Times, Due
<1>13. Written'
  <2>1. \A a \in 1 .. Len(out) + 1 : a \in 1 .. Len(out) \/ a = Len(out) + 1
    BY <1>8
  <2>2. ASSUME NEW u \in Lab23!Threads, pc'[u] = "end", line[u] = u
        PROVE  \E a \in 1 .. Len(out) + 1 : out'[a] = u
    <3>1. CASE u = t
      BY <1>8, <2>2, <3>1
    <3>2. CASE u # t
      <4>1. PICK a \in 1 .. Len(out) : out[a] = u
        BY <1>1, <1>3, <1>5, <2>2, <3>2 DEF Written
      <4>2. QED
        BY <1>8, <4>1
    <3>3. QED
      BY <3>1, <3>2
  <2>3. ASSUME NEW a \in 1 .. Len(out) + 1
        PROVE  IF out'[a] = Lab23!Wild THEN late # {}
               ELSE out'[a] \in Lab23!Threads /\ pc'[out'[a]] = "end" /\ line[out'[a]] = out'[a]
    <3>1. CASE a \in 1 .. Len(out)
      <4>1. out'[a] = out[a]
        BY <1>8, <3>1
      <4>2. CASE out[a] = Lab23!Wild
        BY <1>3, <3>1, <4>1, <4>2 DEF Written
      <4>3. CASE out[a] # Lab23!Wild
        <5>1. out[a] \in Lab23!Threads /\ pc[out[a]] = "end" /\ line[out[a]] = out[a]
          BY <1>3, <3>1, <4>3 DEF Written
        <5>2. QED
          BY <1>5, <4>1, <4>3, <5>1
      <4>4. QED
        BY <4>2, <4>3
    <3>2. CASE a = Len(out) + 1
      BY <1>5, <1>6, <1>7, <1>8, <3>2
    <3>3. QED
      BY <2>1, <3>1, <3>2
  <2>4. ASSUME NEW a \in 1 .. Len(out) + 1, NEW b \in 1 .. Len(out) + 1, a < b,
               out'[a] # Lab23!Wild, out'[b] # Lab23!Wild
        PROVE  out'[a] # out'[b] /\ wake[out'[a]] <= wake[out'[b]] + Delay
    <3>1. a \in 1 .. Len(out) /\ out'[a] = out[a] /\ out[a] # Lab23!Wild
      BY <1>8, <2>4
    <3>2. CASE b \in 1 .. Len(out)
      <4>1. out'[b] = out[b]
        BY <1>8, <3>2
      <4>2. QED
        BY <1>3, <2>4, <3>1, <3>2, <4>1 DEF Written
    <3>3. CASE b = Len(out) + 1
      <4>1. out'[b] = t
        BY <1>6, <1>8, <2>4, <3>3
      <4>2. out[a] \in Lab23!Threads /\ pc[out[a]] = "end"
        BY <1>3, <3>1 DEF Written
      <4>3. out[a] # t
        BY <1>1, <4>2
      <4>4. wake[out[a]] <= now /\ now <= wake[t] + Delay
        BY <1>1, <1>3, <4>2 DEF Times
      <4>5. wake[out[a]] \in Nat /\ wake[t] \in Nat
        BY <1>4, <4>2
      <4>6. wake[out[a]] <= wake[t] + Delay
        BY <1>4, <4>4, <4>5
      <4>7. QED
        BY <3>1, <4>1, <4>3, <4>6
    <3>4. QED
      BY <2>1, <3>2, <3>3
  <2>5. UNCHANGED <<lab, lines, mpc, created, line, wake, late>> /\ lab # "lab23"
    BY <1>1
  <2>6. Len(out') = Len(out) + 1
    BY <1>8
  <2>7. QED
    BY <2>2, <2>3, <2>4, <2>5, <2>6 DEF Written
<1>14. QED
  BY <1>1, <1>9, <1>10, <1>11, <1>12, <1>13 DEF SleepCore

\* A thread of lab23.c locks the mutex when its sleep is over.
LEMMA SleeperLocks ==
    ASSUME SleepCore, NEW t \in Lab23!Threads, Lab23!Lock(t)
    PROVE  SleepCore'
<1> USE SleepSizes
<1>1. /\ pc[t] = "asleep" /\ wake[t] <= now /\ lab = "lab23" /\ mutex = Lab23!Free /\ mutex' = t
      /\ UNCHANGED <<lab, input, open, lines, counter, mpc, created, joined, line, wake, now, head,
                     next, finishedNode, out, late, crashed>>
  BY DEF Lab23!Lock, Lab23!Awake, Lab23!readVars, Lab23!inputVars, Lab23!threadVars, Lab23!list
<1>2. pc' = [pc EXCEPT ![t] = "insert"]
  BY DEF Lab23!Lock
<1>3. Shapes /\ Reads /\ Workers /\ Times /\ Written
  BY DEF SleepCore
<1>4. pc \in [Lab23!Threads -> Phases]
  BY <1>3 DEF Shapes
<1>5. /\ pc' \in [Lab23!Threads -> Phases] /\ pc'[t] = "insert"
      /\ \A u \in Lab23!Threads : u # t => pc'[u] = pc[u]
  BY <1>2, <1>4 DEF Phases
<1>6. Shapes'
  BY <1>1, <1>3, <1>5 DEF Shapes
<1>7. Reads'
  BY <1>1, <1>3 DEF Reads, IsWhole, IsEmpty
<1>8. Workers'
  <2>1. ASSUME NEW u \in Lab23!Threads
        PROVE  /\ pc'[u] = "none" <=> created < u
               /\ u <= joined => pc'[u] = "end"
               /\ t = u <=> pc'[u] \in Holding
               /\ IF pc'[u] \in {"none", "start"} THEN line[u] = Lab23!Null
                  ELSE line[u] = u \/ (line[u] = Lab23!Wild /\ u \in late)
    <3>1. CASE u = t
      BY <1>1, <1>3, <1>5, <3>1 DEF Workers, Holding
    <3>2. CASE u # t
      <4>1. mutex # u
        BY <1>1
      <4>2. QED
        BY <1>3, <1>5, <3>2, <4>1 DEF Workers
    <3>3. QED
      BY <3>1, <3>2
  <2>2. QED
    BY <1>1, <1>3, <2>1 DEF Workers
<1>9. Times'
  <2>1. ASSUME NEW u \in Lab23!Threads
        PROVE  /\ pc'[u] = "start" => now <= Delay
               /\ pc'[u] \notin {"none", "start"} /\ line[u] = u /\ lab # "lab3" =>
                    Due(u) <= wake[u] /\ wake[u] <= Due(u) + Delay
               /\ pc'[u] \in {"asleep", "insert"} => now <= wake[u] + Delay
               /\ pc'[u] \in Holding \union {"end"} => wake[u] <= now
    <3>1. CASE u = t
      BY <1>1, <1>3, <1>5, <3>1 DEF Times, Holding
    <3>2. CASE u # t
      BY <1>3, <1>5, <3>2 DEF Times
    <3>3. QED
      BY <3>1, <3>2
  <2>2. QED
    BY <1>1, <1>3, <2>1 DEF Times, Due
<1>10. Written'
  <2>1. \A u \in Lab23!Threads : pc'[u] = "end" <=> pc[u] = "end"
    BY <1>1, <1>5
  <2>2. QED
    BY <1>1, <1>3, <2>1 DEF Written
<1>11. ASSUME mpc' # "freed" PROVE \E o, n : Queue(o, n)'
  <2>1. PICK o, n : Queue(o, n)
    BY <1>1, <1>11 DEF SleepCore
  <2>2. QED
    BY <1>1, <1>3, <1>5, <2>1, QueueKept
<1>12. QED
  BY <1>6, <1>7, <1>8, <1>9, <1>10, <1>11 DEF SleepCore

\* Only one thread uses the list, and main does not yet.
LEMMA HoldsMutex ==
    ASSUME SleepCore, NEW t \in Lab23!Threads, pc[t] \in Holding
    PROVE  /\ lab = "lab23" /\ mutex = t /\ mpc # "freed" /\ out = <<>> /\ Len(out) = 0
           /\ line[t] = t
           /\ \A u \in Lab23!Threads : u # t => pc[u] \notin Holding
<1> USE SleepSizes
<1>1. Shapes /\ Workers /\ Written
  BY DEF SleepCore
<1>2. mutex = t
  BY <1>1 DEF Workers
<1>3. lab = "lab23"
  BY <1>1, <1>2 DEF Workers
<1>4. mpc # "freed"
  <2>1. created \in Nat /\ ~ (created < t)
    BY <1>1 DEF Workers, Shapes, Holding
  <2>2. ~ (t <= joined)
    BY <1>1 DEF Workers, Holding
  <2>3. joined # created
    BY <2>1, <2>2
  <2>4. QED
    BY <1>1, <2>3 DEF Workers
<1>5. out = <<>>
  BY <1>1, <1>3, <1>4 DEF Written
<1>6. line[t] = t
  BY <1>1, <1>3 DEF Workers, Holding
<1>7. \A u \in Lab23!Threads : u # t => pc[u] \notin Holding
  BY <1>1, <1>2 DEF Workers
<1>8. QED
  BY <1>2, <1>3, <1>4, <1>5, <1>6, <1>7

\* A step of the thread that holds the mutex, which it keeps.
LEMMA HolderMoves ==
    ASSUME SleepCore, NEW t \in Lab23!Threads, pc[t] \in Holding, pc'[t] \in {"move", "unlock"},
           pc' \in [Lab23!Threads -> Phases],
           \A u \in Lab23!Threads : u # t => pc'[u] = pc[u],
           UNCHANGED <<lab, input, open, lines, counter, mpc, created, joined, line, wake, now, mutex,
                       out, late, crashed>>,
           head' \in Lab23!Threads \union {Lab23!Null},
           finishedNode' \in Lab23!Threads \union {Lab23!Null},
           next' \in [Lab23!Threads -> Lab23!Threads \union {Lab23!Null}]
    PROVE  Shapes' /\ Reads' /\ Workers' /\ Times' /\ Written'
<1>1. Shapes /\ Reads /\ Workers /\ Times /\ Written
  BY DEF SleepCore
<1>2. pc'[t] \in {"move", "unlock"}
  OBVIOUS
<1>3. Shapes'
  BY <1>1 DEF Shapes
<1>4. Reads'
  BY <1>1 DEF Reads, IsWhole, IsEmpty
<1>5. Workers'
  <2>1. ASSUME NEW u \in Lab23!Threads
        PROVE  /\ pc'[u] = "none" <=> created < u
               /\ u <= joined => pc'[u] = "end"
               /\ mutex = u <=> pc'[u] \in Holding
               /\ IF pc'[u] \in {"none", "start"} THEN line[u] = Lab23!Null
                  ELSE line[u] = u \/ (line[u] = Lab23!Wild /\ u \in late)
    <3>1. CASE u = t
      BY <1>1, <1>2, <3>1 DEF Workers, Holding
    <3>2. CASE u # t
      BY <1>1, <3>2 DEF Workers
    <3>3. QED
      BY <3>1, <3>2
  <2>2. QED
    BY <1>1, <2>1 DEF Workers
<1>6. Times'
  <2>1. ASSUME NEW u \in Lab23!Threads
        PROVE  /\ pc'[u] = "start" => now <= Delay
               /\ pc'[u] \notin {"none", "start"} /\ line[u] = u /\ lab # "lab3" =>
                    Due(u) <= wake[u] /\ wake[u] <= Due(u) + Delay
               /\ pc'[u] \in {"asleep", "insert"} => now <= wake[u] + Delay
               /\ pc'[u] \in Holding \union {"end"} => wake[u] <= now
    <3>1. CASE u = t
      BY <1>1, <1>2, <3>1 DEF Times, Holding
    <3>2. CASE u # t
      BY <1>1, <3>2 DEF Times
    <3>3. QED
      BY <3>1, <3>2
  <2>2. QED
    BY <1>1, <2>1 DEF Times, Due
<1>7. Written'
  <2>1. \A u \in Lab23!Threads : pc'[u] = "end" <=> pc[u] = "end"
    BY DEF Holding
  <2>2. QED
    BY <1>1, <2>1 DEF Written
<1>8. QED
  BY <1>3, <1>4, <1>5, <1>6, <1>7

\* A thread appends its line to the list.
LEMMA SleeperInserts ==
    ASSUME SleepCore, NEW t \in Lab23!Threads, Lab23!Insert(t)
    PROVE  SleepCore'
<1> USE SleepSizes
<1>1. /\ pc[t] = "insert" /\ pc' = [pc EXCEPT ![t] = "move"]
      /\ IF head = Lab23!Null
           THEN head' = t /\ UNCHANGED next
           ELSE /\ next' = [next EXCEPT ![t] = next[finishedNode], ![finishedNode] = t]
                /\ UNCHANGED head
  BY DEF Lab23!Insert
<1>2. UNCHANGED <<lab, input, open, lines, counter, mpc, created, joined, line, wake, now, mutex,
                  finishedNode, out, late, crashed>>
  BY DEF Lab23!Insert, Lab23!readVars, Lab23!inputVars, Lab23!threadVars
<1>3. Shapes /\ Workers /\ Times
  BY DEF SleepCore
<1>4. /\ pc \in [Lab23!Threads -> Phases] /\ wake \in [Lab23!Threads -> Nat] /\ now \in Nat
      /\ next \in [Lab23!Threads -> Lab23!Threads \union {Lab23!Null}]
      /\ head \in Lab23!Threads \union {Lab23!Null} /\ finishedNode \in Lab23!Threads \union {Lab23!Null}
  BY <1>3 DEF Shapes
<1>5. /\ pc' \in [Lab23!Threads -> Phases] /\ pc'[t] = "move"
      /\ \A u \in Lab23!Threads : u # t => pc'[u] = pc[u]
  BY <1>1, <1>4 DEF Phases
<1>6. /\ lab = "lab23" /\ mpc # "freed"
      /\ \A u \in Lab23!Threads : u # t => pc[u] \notin Holding
  BY <1>1, HoldsMutex DEF Holding
<1>7. PICK o, n : Queue(o, n)
  BY <1>6 DEF SleepCore
<1>8. n \in Nat /\ o \in [1 .. n -> Lab23!Threads]
  BY <1>7 DEF Queue
<1>9. ~ \E u \in Lab23!Threads : pc[u] = "move"
  BY <1>1, <1>6 DEF Holding
<1>10. finishedNode = IF n = 0 THEN Lab23!Null ELSE o[n]
  BY <1>7, <1>9 DEF Queue
<1>11. /\ \A k \in 1 .. n : o[k] \in Lab23!Threads /\ o[k] # t /\ wake[o[k]] <= now
       /\ next[t] = Lab23!Null
  <2>1. \A k \in 1 .. n : o[k] \in Lab23!Threads /\ pc[o[k]] \in {"move", "unlock", "end"}
    BY <1>7, <1>8 DEF Queue
  <2>2. \A u \in Lab23!Threads : pc[u] \in {"move", "unlock", "end"} => wake[u] <= now
    BY <1>3 DEF Times, Holding
  <2>3. next[t] = Lab23!Null
    BY <1>1, <1>7 DEF Queue
  <2>4. QED
    BY <1>1, <2>1, <2>2, <2>3
<1>12. wake[t] \in Nat /\ now <= wake[t] + Delay
  BY <1>1, <1>3, <1>4 DEF Times
<1> DEFINE p == [k \in 1 .. n + 1 |-> IF k = n + 1 THEN t ELSE o[k]]
<1>13. /\ n + 1 \in Nat /\ p \in [1 .. n + 1 -> Lab23!Threads] /\ p[n + 1] = t
       /\ \A k \in 1 .. n : k \in 1 .. n + 1 /\ k # n + 1 /\ p[k] = o[k]
       /\ \A k \in 1 .. n + 1 : k \in 1 .. n \/ k = n + 1
  BY <1>8
<1>14. ASSUME NEW k \in 1 .. n + 1, NEW l \in 1 .. n + 1, k < l
       PROVE  p[k] # p[l] /\ wake[p[k]] <= wake[p[l]] + Delay
  <2>1. k \in 1 .. n
    BY <1>8, <1>14
  <2> HIDE DEF p
  <2>2. CASE l \in 1 .. n
    BY <1>7, <1>13, <1>14, <2>1, <2>2 DEF Queue
  <2>3. CASE l = n + 1
    <3>1. p[k] = o[k] /\ p[l] = t
      BY <1>13, <2>1, <2>3
    <3>2. o[k] \in Lab23!Threads /\ wake[o[k]] \in Nat /\ wake[o[k]] <= now
      BY <1>4, <1>11, <2>1
    <3>3. wake[o[k]] <= wake[t] + Delay
      BY <1>4, <1>12, <3>2
    <3>4. QED
      BY <1>11, <2>1, <3>1, <3>3
  <2>4. QED
    BY <1>13, <2>2, <2>3
<1>15. ASSUME NEW u \in Lab23!Threads
       PROVE  (\E k \in 1 .. n + 1 : p[k] = u) <=> pc'[u] \in {"move", "unlock", "end"}
  <2> HIDE DEF p
  <2>1. CASE u = t
    <3>1. n + 1 \in 1 .. n + 1
      BY <1>8
    <3>2. QED
      BY <1>5, <1>13, <2>1, <3>1
  <2>2. CASE u # t
    <3>1. (\E k \in 1 .. n + 1 : p[k] = u) <=> (\E k \in 1 .. n : o[k] = u)
      BY <1>13, <2>2
    <3>2. QED
      BY <1>5, <1>7, <2>2, <3>1 DEF Queue
  <2>3. QED
    BY <2>1, <2>2
<1>16. /\ head' = p[1]
       /\ \A k \in 1 .. n + 1 : next'[p[k]] = IF k = n + 1 THEN Lab23!Null ELSE p[k + 1]
       /\ \A u \in Lab23!Threads : u # t /\ (\A k \in 1 .. n : o[k] # u) => next'[u] = next[u]
       /\ head' \in Lab23!Threads /\ next' \in [Lab23!Threads -> Lab23!Threads \union {Lab23!Null}]
       /\ next'[t] = Lab23!Null
  <2>1. CASE n = 0
    <3>1. head = Lab23!Null
      BY <1>7, <2>1 DEF Queue
    <3>2. head' = t /\ next' = next
      BY <1>1, <3>1
    <3>3. p[1] = t /\ 1 .. n + 1 = {1}
      BY <1>13, <2>1
    <3> HIDE DEF p
    <3>4. QED
      BY <1>4, <1>11, <2>1, <3>2, <3>3
  <2>2. CASE n # 0
    <3>1. n \in 1 .. n /\ 1 \in 1 .. n
      BY <1>8, <2>2
    <3>2. head = o[1] /\ head # Lab23!Null
      BY <1>7, <1>11, <2>2, <3>1 DEF Queue
    <3>3. o[n] \in Lab23!Threads /\ o[n] # t /\ next[o[n]] = Lab23!Null
      BY <1>7, <1>11, <3>1 DEF Queue
    <3>4. next' = [next EXCEPT ![t] = Lab23!Null, ![o[n]] = t] /\ head' = head
      BY <1>1, <1>10, <2>2, <3>2, <3>3
    <3>5. /\ next' \in [Lab23!Threads -> Lab23!Threads \union {Lab23!Null}]
          /\ next'[t] = Lab23!Null /\ next'[o[n]] = t
          /\ \A u \in Lab23!Threads : u # t /\ u # o[n] => next'[u] = next[u]
      BY <1>4, <3>3, <3>4
    <3>6. ASSUME NEW k \in 1 .. n + 1
          PROVE  next'[p[k]] = IF k = n + 1 THEN Lab23!Null ELSE p[k + 1]
      <4> HIDE DEF p
      <4>1. CASE k = n + 1
        BY <1>13, <3>5, <4>1
      <4>2. CASE k = n
        <5>1. k # n + 1 /\ k + 1 = n + 1
          BY <1>8, <4>2
        <5>2. QED
          BY <1>13, <3>1, <3>5, <4>2, <5>1
      <4>3. CASE k \in 1 .. n /\ k # n
        <5>1. k + 1 \in 1 .. n /\ k < n /\ k # n + 1
          BY <1>8, <4>3
        <5>2. p[k] = o[k] /\ p[k + 1] = o[k + 1]
          BY <1>13, <4>3, <5>1
        <5>3. o[k] # o[n] /\ next[o[k]] = o[k + 1]
          BY <1>7, <3>1, <4>3, <5>1 DEF Queue
        <5>4. QED
          BY <1>11, <3>5, <4>3, <5>1, <5>2, <5>3
      <4>4. QED
        BY <1>13, <4>1, <4>2, <4>3
    <3>7. p[1] = o[1]
      BY <1>13, <3>1
    <3> HIDE DEF p
    <3>8. QED
      BY <1>11, <3>1, <3>2, <3>4, <3>5, <3>6, <3>7
  <2>3. QED
    BY <2>1, <2>2
<1>17. \A u \in Lab23!Threads : pc'[u] \in {"none", "start", "asleep", "insert"} => next'[u] = Lab23!Null
  <2>1. ASSUME NEW u \in Lab23!Threads, pc'[u] \in {"none", "start", "asleep", "insert"}
        PROVE  next'[u] = Lab23!Null
    <3>1. u # t /\ pc[u] \in {"none", "start", "asleep", "insert"}
      BY <1>5, <2>1
    <3>2. \A k \in 1 .. n : o[k] # u
      BY <1>7, <3>1 DEF Queue
    <3>3. next[u] = Lab23!Null
      BY <1>7, <3>1 DEF Queue
    <3> HIDE DEF p
    <3>4. QED
      BY <1>16, <3>1, <3>2, <3>3
  <2>2. QED
    BY <2>1
<1>18. /\ n + 1 # 0 /\ pc'[p[n + 1]] = "move"
       /\ finishedNode' = IF n + 1 = 1 THEN Lab23!Null ELSE p[n + 1 - 1]
  <2>1. n + 1 - 1 = n /\ n + 1 # 0 /\ (n + 1 = 1 <=> n = 0) /\ (n # 0 => n \in 1 .. n)
    BY <1>8
  <2> HIDE DEF p
  <2>2. QED
    BY <1>2, <1>5, <1>10, <1>13, <2>1
<1>19. \E u \in Lab23!Threads : pc'[u] = "move"
  BY <1>5
<1>20. PICK q, m : q = p /\ m = n + 1
  OBVIOUS
<1>21. Queue(q, m)'
  <2> HIDE DEF p
  <2>1. \A k, l \in 1 .. m : k < l => q[k] # q[l] /\ wake'[q[k]] <= wake'[q[l]] + Delay
    BY <1>2, <1>14, <1>20
  <2>2. \A u \in Lab23!Threads : (\E k \in 1 .. m : q[k] = u) <=> pc'[u] \in {"move", "unlock", "end"}
    BY <1>15, <1>20
  <2>3. m \in Nat /\ m # 0 /\ q \in [1 .. m -> Lab23!Threads]
    BY <1>13, <1>18, <1>20
  <2>4. head' = q[1] /\ \A k \in 1 .. m : next'[q[k]] = IF k = m THEN Lab23!Null ELSE q[k + 1]
    BY <1>16, <1>20
  <2>5. pc'[q[m]] = "move" /\ finishedNode' = IF m = 1 THEN Lab23!Null ELSE q[m - 1]
    <3>1. m - 1 = n + 1 - 1
      BY <1>8, <1>20
    <3>2. q[m - 1] = p[n + 1 - 1]
      BY <1>20, <3>1
    <3>3. QED
      BY <1>18, <1>20, <3>2
  <2>6. QED
    BY <1>17, <1>19, <2>1, <2>2, <2>3, <2>4, <2>5 DEF Queue, Lab23!Threads, Lab23!Null
<1>22. Shapes' /\ Reads' /\ Workers' /\ Times' /\ Written'
  <2>1. finishedNode' \in Lab23!Threads \union {Lab23!Null}
    BY <1>2, <1>4
  <2>2. pc[t] \in Holding /\ pc'[t] \in {"move", "unlock"}
    BY <1>1, <1>5 DEF Holding
  <2>3. head' \in Lab23!Threads \union {Lab23!Null}
    BY <1>16
  <2>4. next' \in [Lab23!Threads -> Lab23!Threads \union {Lab23!Null}]
    BY <1>16
  <2> HIDE DEF p
  <2>5. QED
    BY <1>2, <1>5, <2>1, <2>2, <2>3, <2>4, HolderMoves
<1>23. QED
  BY <1>21, <1>22 DEF SleepCore

\* Its line becomes the last one.
LEMMA SleeperMoves ==
    ASSUME SleepCore, NEW t \in Lab23!Threads, Lab23!Move(t)
    PROVE  SleepCore'
<1> USE SleepSizes
<1>1. /\ pc[t] = "move" /\ pc' = [pc EXCEPT ![t] = "unlock"]
      /\ finishedNode' = IF finishedNode = Lab23!Null THEN head ELSE next[finishedNode]
      /\ UNCHANGED <<lab, input, open, lines, counter, mpc, created, joined, line, wake, now, mutex,
                     head, next, out, late, crashed>>
  BY DEF Lab23!Move, Lab23!NewFinished, Lab23!readVars, Lab23!inputVars, Lab23!threadVars
<1>2. Shapes
  BY DEF SleepCore
<1>3. pc \in [Lab23!Threads -> Phases]
  BY <1>2 DEF Shapes
<1>4. /\ pc' \in [Lab23!Threads -> Phases] /\ pc'[t] = "unlock"
      /\ \A u \in Lab23!Threads : u # t => pc'[u] = pc[u]
  BY <1>1, <1>3 DEF Phases
<1>5. /\ lab = "lab23" /\ mpc # "freed"
      /\ \A u \in Lab23!Threads : u # t => pc[u] \notin Holding
  BY <1>1, HoldsMutex DEF Holding
<1>6. PICK o, n : Queue(o, n)
  BY <1>5 DEF SleepCore
<1>7. n \in Nat /\ o \in [1 .. n -> Lab23!Threads]
  BY <1>6 DEF Queue
<1>8. n # 0 /\ pc[o[n]] = "move" /\ finishedNode = IF n = 1 THEN Lab23!Null ELSE o[n - 1]
  BY <1>1, <1>6 DEF Queue
<1>9. n \in 1 .. n /\ o[n] \in Lab23!Threads
  BY <1>7, <1>8
<1>10. finishedNode' = o[n]
  <2>1. CASE n = 1
    BY <1>1, <1>6, <1>8, <2>1 DEF Queue
  <2>2. CASE n # 1
    <3>1. n - 1 \in 1 .. n /\ n - 1 # n /\ n - 1 + 1 = n
      BY <1>7, <1>8, <2>2
    <3>2. finishedNode = o[n - 1] /\ o[n - 1] \in Lab23!Threads
      BY <1>7, <1>8, <2>2, <3>1
    <3>3. next[o[n - 1]] = o[n]
      BY <1>6, <3>1 DEF Queue
    <3>4. QED
      BY <1>1, <3>2, <3>3
  <2>3. QED
    BY <2>1, <2>2
<1>11. Queue(o, n)'
  <2>1. ~ \E u \in Lab23!Threads : pc'[u] = "move"
    BY <1>4, <1>5 DEF Holding
  <2>2. \A u \in Lab23!Threads :
          /\ pc'[u] \in {"move", "unlock", "end"} <=> pc[u] \in {"move", "unlock", "end"}
          /\ pc'[u] \in {"none", "start", "asleep", "insert"} <=> pc[u] \in {"none", "start", "asleep", "insert"}
    BY <1>1, <1>4
  <2>3. /\ \A k, l \in 1 .. n : k < l => o[k] # o[l] /\ wake'[o[k]] <= wake'[o[l]] + Delay
        /\ \A u \in Lab23!Threads : (\E k \in 1 .. n : o[k] = u) <=> pc'[u] \in {"move", "unlock", "end"}
        /\ head' = IF n = 0 THEN Lab23!Null ELSE o[1]
        /\ \A k \in 1 .. n : next'[o[k]] = IF k = n THEN Lab23!Null ELSE o[k + 1]
        /\ \A u \in Lab23!Threads : pc'[u] \in {"none", "start", "asleep", "insert"} => next'[u] = Lab23!Null
    BY <1>1, <1>6, <2>2 DEF Queue
  <2>4. QED
    BY <1>7, <1>8, <1>10, <2>1, <2>3 DEF Queue, Lab23!Threads, Lab23!Null
<1>12. Shapes' /\ Reads' /\ Workers' /\ Times' /\ Written'
  <2>1. /\ head' \in Lab23!Threads \union {Lab23!Null} /\ finishedNode' \in Lab23!Threads \union {Lab23!Null}
        /\ next' \in [Lab23!Threads -> Lab23!Threads \union {Lab23!Null}]
    BY <1>1, <1>2, <1>9, <1>10 DEF Shapes
  <2>2. pc[t] \in Holding /\ pc'[t] \in {"move", "unlock"}
    BY <1>1, <1>4 DEF Holding
  <2>3. QED
    BY <1>1, <1>4, <2>1, <2>2, HolderMoves
<1>13. QED
  BY <1>11, <1>12 DEF SleepCore

\* It unlocks the mutex and ends.
LEMMA SleeperUnlocks ==
    ASSUME SleepCore, NEW t \in Lab23!Threads, Lab23!Unlock(t)
    PROVE  SleepCore'
<1> USE SleepSizes
<1>1. /\ pc[t] = "unlock" /\ pc' = [pc EXCEPT ![t] = "end"] /\ mutex' = Lab23!Free
      /\ UNCHANGED <<lab, input, open, lines, counter, mpc, created, joined, line, wake, now,
                     head, next, finishedNode, out, late, crashed>>
  BY DEF Lab23!Unlock, Lab23!readVars, Lab23!inputVars, Lab23!threadVars, Lab23!list
<1>2. Shapes /\ Reads /\ Workers /\ Times /\ Written
  BY DEF SleepCore
<1>3. pc \in [Lab23!Threads -> Phases]
  BY <1>2 DEF Shapes
<1>4. /\ pc' \in [Lab23!Threads -> Phases] /\ pc'[t] = "end"
      /\ \A u \in Lab23!Threads : u # t => pc'[u] = pc[u]
  BY <1>1, <1>3 DEF Phases
<1>5. /\ lab = "lab23" /\ mpc # "freed" /\ out = <<>> /\ Len(out) = 0 /\ line[t] = t
      /\ \A u \in Lab23!Threads : u # t => pc[u] \notin Holding
  BY <1>1, HoldsMutex DEF Holding
<1>6. Shapes'
  BY <1>1, <1>2, <1>4 DEF Shapes
<1>7. Reads'
  BY <1>1, <1>2 DEF Reads, IsWhole, IsEmpty
<1>8. Workers'
  <2>1. ASSUME NEW u \in Lab23!Threads
        PROVE  /\ pc'[u] = "none" <=> created < u
               /\ u <= joined => pc'[u] = "end"
               /\ mutex' = u <=> pc'[u] \in Holding
               /\ IF pc'[u] \in {"none", "start"} THEN line[u] = Lab23!Null
                  ELSE line[u] = u \/ (line[u] = Lab23!Wild /\ u \in late)
    <3>1. mutex' # u
      BY <1>1
    <3>2. CASE u = t
      <4>1. ~ (created < t)
        BY <1>1, <1>2 DEF Workers
      <4>2. QED
        BY <1>4, <1>5, <3>1, <3>2, <4>1 DEF Holding
    <3>3. CASE u # t
      BY <1>2, <1>4, <1>5, <3>1, <3>3 DEF Workers
    <3>4. QED
      BY <3>2, <3>3
  <2>2. QED
    BY <1>1, <1>2, <2>1 DEF Workers
<1>9. Times'
  <2>1. ASSUME NEW u \in Lab23!Threads
        PROVE  /\ pc'[u] = "start" => now <= Delay
               /\ pc'[u] \notin {"none", "start"} /\ line[u] = u /\ lab # "lab3" =>
                    Due(u) <= wake[u] /\ wake[u] <= Due(u) + Delay
               /\ pc'[u] \in {"asleep", "insert"} => now <= wake[u] + Delay
               /\ pc'[u] \in Holding \union {"end"} => wake[u] <= now
    <3>1. CASE u = t
      BY <1>1, <1>2, <1>4, <3>1 DEF Times, Holding
    <3>2. CASE u # t
      BY <1>2, <1>4, <3>2 DEF Times
    <3>3. QED
      BY <3>1, <3>2
  <2>2. QED
    BY <1>1, <1>2, <2>1 DEF Times, Due
<1>10. Written'
  <2>1. UNCHANGED <<lab, lines, mpc, created, line, wake, late, out>> /\ 1 .. Len(out) = {}
    BY <1>1, <1>5
  <2>2. QED
    BY <1>5, <2>1 DEF Written
<1>11. \E o, n : Queue(o, n)'
  <2>1. PICK o, n : Queue(o, n)
    BY <1>5 DEF SleepCore
  <2>2. QED
    BY <1>1, <1>2, <1>4, <2>1, QueueKept
<1>12. QED
  BY <1>6, <1>7, <1>8, <1>9, <1>10, <1>11 DEF SleepCore

\* Time passes when nobody must act.
LEMMA TickKeeps ==
    ASSUME SleepCore, Lab23!Tick
    PROVE  SleepCore'
<1> USE SleepSizes
<1>1. /\ \E t \in Lab23!Threads : pc[t] = "asleep"
      /\ \A t \in Lab23!Threads : pc[t] = "asleep" => now < wake[t] + Delay
      /\ \A t \in Lab23!Threads : pc[t] \notin Holding
      /\ now < Delay \/ (mpc # "create" /\ \A t \in Lab23!Threads : pc[t] # "start")
      /\ now' = now + 1
      /\ UNCHANGED <<lab, input, open, lines, counter, mpc, created, joined, pc, line, wake, mutex,
                     head, next, finishedNode, out, late, crashed>>
  BY DEF Lab23!Tick, Lab23!readVars, Lab23!inputVars, Lab23!list, Holding
<1>2. Shapes /\ Reads /\ Workers /\ Times /\ Written
  BY DEF SleepCore
<1>3. /\ now \in Nat /\ wake \in [Lab23!Threads -> Nat] /\ pc \in [Lab23!Threads -> Phases]
      /\ \A t \in Lab23!Threads : wake[t] \in Nat
  BY <1>2 DEF Shapes
<1>4. now' \in Nat
  BY <1>1, <1>3
<1>5. Shapes'
  BY <1>1, <1>2, <1>4 DEF Shapes
<1>6. Reads'
  BY <1>1, <1>2 DEF Reads, IsWhole, IsEmpty
<1>7. Workers'
  BY <1>1, <1>2 DEF Workers
<1>8. mpc # "read"
  <2>1. PICK t \in Lab23!Threads : pc[t] = "asleep"
    BY <1>1
  <2>2. t <= created /\ t \in 1 .. SleepLines
    BY <1>2, <2>1, HasLine
  <2>3. created # 0
    BY <2>2
  <2>4. QED
    BY <1>2, <2>3 DEF Workers
<1>9. Times'
  <2>1. mpc \in {"read", "create"} => now + 1 <= Delay
    BY <1>1, <1>3, <1>8
  <2>2. ASSUME NEW u \in Lab23!Threads
        PROVE  /\ pc[u] = "start" => now + 1 <= Delay
               /\ pc[u] \in {"asleep", "insert"} => now + 1 <= wake[u] + Delay
               /\ pc[u] \in Holding \union {"end"} => wake[u] <= now + 1
    <3>1. pc[u] = "start" => now + 1 <= Delay
      BY <1>1, <1>3
    <3>2. pc[u] \in {"asleep", "insert"} => now + 1 <= wake[u] + Delay
      BY <1>1, <1>3 DEF Holding
    <3>3. pc[u] \in Holding \union {"end"} => wake[u] <= now + 1
      BY <1>2, <1>3 DEF Times
    <3>4. QED
      BY <3>1, <3>2, <3>3
  <2>3. QED
    BY <1>1, <1>2, <2>1, <2>2 DEF Times, Due
<1>10. Written'
  BY <1>1, <1>2 DEF Written
<1>11. ASSUME lab' = "lab23", mpc' # "freed" PROVE \E o, n : Queue(o, n)'
  <2>1. PICK o, n : Queue(o, n)
    BY <1>1, <1>11 DEF SleepCore
  <2>2. pc' \in [Lab23!Threads -> Phases]
    BY <1>1, <1>3
  <2>3. QED
    BY <1>1, <1>2, <2>1, <2>2, QueueKept
<1>12. QED
  BY <1>5, <1>6, <1>7, <1>9, <1>10, <1>11 DEF SleepCore

\* Every step of lab23.c, lab6.c and lab3.c keeps the invariant.
LEMMA SleepNext == SleepCore /\ Lab23!Next => SleepCore'
<1> SUFFICES ASSUME SleepCore, Lab23!Next PROVE SleepCore'
  OBVIOUS
<1>1. CASE Lab23!Main
  BY <1>1, PieceKeeps, CreateKeeps, JoinKeeps, JoinFailsKeeps, PrintListKeeps DEF Lab23!Main
<1>2. CASE Lab23!CreateFails
  BY <1>2, CreateFailsKeeps
<1>3. CASE Lab23!Tick
  BY <1>3, TickKeeps
<1>4. ASSUME NEW t \in Lab23!Threads, Lab23!Thread(t) PROVE SleepCore'
  BY <1>4, StartKeeps, WriteKeeps, SleeperLocks, SleeperInserts, SleeperMoves, SleeperUnlocks
     DEF Lab23!Thread
<1>5. QED
  BY <1>1, <1>2, <1>3, <1>4 DEF Lab23!Next

\* A step that changes nothing keeps it.
LEMMA SleepStutters ==
    ASSUME SleepCore, UNCHANGED <<commonVars, sleepVars>>
    PROVE  SleepCore'
<1>1. UNCHANGED <<lab, input, open, lines, counter, mpc, created, joined, pc, line, wake, now, mutex,
                  head, next, finishedNode, out, late, crashed>>
  BY DEF commonVars, sleepVars
<1>2. Shapes /\ Reads /\ Workers /\ Times /\ Written
  BY DEF SleepCore
<1>3. Shapes' /\ Workers' /\ Written'
  BY <1>1, <1>2 DEF Shapes, Workers, Written
<1>4. Reads' /\ Times'
  BY <1>1, <1>2 DEF Reads, IsWhole, IsEmpty, Times, Due
<1>5. ASSUME lab' = "lab23", mpc' # "freed" PROVE \E o, n : Queue(o, n)'
  <2>1. PICK o, n : Queue(o, n)
    BY <1>1, <1>5 DEF SleepCore
  <2>2. pc' \in [Lab23!Threads -> Phases]
    BY <1>1, <1>2 DEF Shapes
  <2>3. QED
    BY <1>1, <1>2, <2>1, <2>2, QueueKept
<1>6. QED
  BY <1>3, <1>4, <1>5 DEF SleepCore

-----------------------------------------------------------------------------
(* lab23.c, lab6.c, lab3.c: what the invariant says. *)

\* The lines are counted up to the empty one, and whole.
LEMMA LinesKept ==
    ASSUME SleepCore
    PROVE  Lab23!LinesWhole
<1> USE SleepSizes
<1>1. Shapes /\ Reads
  BY DEF SleepCore
<1>2. /\ lines \in Seq([number : 0 .. SleepLines + 1, length : Nat]) /\ Len(lines) \in Nat
      /\ Len(lines) <= SleepLines /\ input \in Seq(Nat \ {0}) /\ Len(input) \in Nat
  BY <1>1 DEF Shapes
<1> SUFFICES ASSUME mpc # "read" PROVE Lab23!LinesWhole
  BY DEF Lab23!LinesWhole
<1>3. DOMAIN lines = 1 .. Len(lines) /\ DOMAIN input = 1 .. Len(input)
  BY <1>2
<1> DEFINE empty == {k \in DOMAIN input : input[k] = 1 /\ ~ (open /\ k = Len(input))}
           S == {k - 1 : k \in empty} \union {SleepLines}
<1>4. \A k \in DOMAIN lines :
         IF k > Len(input) THEN lines[k].number = Lab23!Null
         ELSE /\ lines[k].number = k
              /\ \/ lines[k].length = input[k]
                 \/ open /\ k = Len(input) /\ input[k] % BufferSize = 0
  <2>1. \A k \in DOMAIN lines : IsWhole(k)
    <3>1. \A k \in 1 .. Len(lines) : IsWhole(k)
      BY <1>1, Zenon DEF Reads
    <3>2. QED
      BY <1>3, <3>1, Zenon
  <2>2. QED
    BY <2>1, Zenon DEF IsWhole
<1>5. ASSUME lab # "lab3" PROVE Len(lines) = Lab23!Min(S)
  <2>1. \A k : k \in empty <=> IsEmpty(k)
    BY <1>3 DEF IsEmpty
  <2>2. \A k \in empty : k \in Nat
    BY <1>2, <1>3
  <2>3. S \in SUBSET Int
    BY <2>2
  <2>4. Len(lines) \in S
    <3>1. CASE Len(lines) = SleepLines
      BY <3>1
    <3>2. CASE IsEmpty(Len(lines) + 1)
      <4>1. Len(lines) = (Len(lines) + 1) - 1
        BY <1>2
      <4>2. PICK k \in empty : Len(lines) = k - 1
        BY <2>1, <3>2, <4>1
      <4> HIDE DEF empty
      <4>3. QED
        BY <4>2
    <3>3. QED
      BY <1>1, <1>5, <3>1, <3>2 DEF Reads
  <2>5. ASSUME NEW k \in empty PROVE Len(lines) <= k - 1
    <3>1. k \in Nat /\ k >= 1 /\ IsEmpty(k)
      BY <1>3, <2>1, <2>2
    <3>2. k \notin 1 .. Len(lines)
      BY <1>1, <1>5, <3>1 DEF Reads
    <3>3. QED
      BY <1>2, <3>1, <3>2
  <2> HIDE DEF empty
  <2>6. \A k \in S : Len(lines) <= k
    BY <1>2, <2>5
  <2> HIDE DEF S
  <2>7. QED
    BY <2>3, <2>4, <2>6, LeastIs
<1>6. QED
  BY <1>4, <1>5 DEF Lab23!LinesWhole

\* The list holds what was inserted.
LEMMA ListHolds ==
    ASSUME SleepCore
    PROVE  Lab23!ListWhole
<1> USE SleepSizes
<1> SUFFICES ASSUME lab = "lab23" PROVE Lab23!ListWhole
  BY DEF Lab23!ListWhole
<1>1. Shapes /\ Workers
  BY DEF SleepCore
<1>2. pc \in [Lab23!Threads -> Phases]
  BY <1>1 DEF Shapes
<1>3. ASSUME mutex = Lab23!Free, mpc # "freed"
      PROVE  /\ Lab23!IsInjective(Lab23!Nodes)
             /\ Lab23!Range(Lab23!Nodes) = {t \in Lab23!Threads : pc[t] = "end"}
             /\ Lab23!Nodes # <<>> => finishedNode = Lab23!Nodes[Len(Lab23!Nodes)]
  <2>1. PICK o, n : Queue(o, n)
    BY <1>3 DEF SleepCore
  <2>2. Lab23!Nodes = o /\ n \in Nat /\ o \in Seq(Lab23!Threads) /\ Len(o) = n
        /\ o \in [1 .. n -> Lab23!Threads]
    <3>1. Lab23!Nodes = o /\ o \in Seq(Lab23!Threads) /\ Len(o) = n
      BY <2>1, QueueWalk
    <3>2. n \in Nat /\ o \in [1 .. n -> Lab23!Threads]
      BY <2>1 DEF Queue
    <3>3. QED
      BY <3>1, <3>2
  <2>3. DOMAIN o = 1 .. n
    BY <2>2
  <2>4. \A t \in Lab23!Threads : pc[t] \notin Holding
    <3>1. \A t \in Lab23!Threads : mutex # t
      BY <1>3
    <3>2. QED
      BY <1>1, <3>1 DEF Workers
  <2>5. \A t \in Lab23!Threads : (\E k \in 1 .. n : o[k] = t) <=> pc[t] = "end"
    BY <2>1, <2>4 DEF Queue, Holding
  <2>6. \A k, l \in 1 .. n : o[k] = o[l] => k = l
    <3>1. ASSUME NEW k \in 1 .. n, NEW l \in 1 .. n, o[k] = o[l], k # l PROVE FALSE
      <4>1. k < l \/ l < k
        BY <2>2, <3>1
      <4>2. QED
        BY <2>1, <3>1, <4>1 DEF Queue
    <3>2. QED
      BY <3>1
  <2>7. Lab23!IsInjective(o)
    BY <2>3, <2>6 DEF Lab23!IsInjective
  <2>8. Lab23!Range(o) = {t \in Lab23!Threads : pc[t] = "end"}
    <3>1. Lab23!Range(o) = {o[k] : k \in 1 .. n}
      BY <2>3 DEF Lab23!Range
    <3>2. \A k \in 1 .. n : o[k] \in Lab23!Threads
      BY <2>2
    <3>3. QED
      BY <2>5, <3>1, <3>2
  <2>9. o # <<>> => finishedNode = o[n]
    <3>1. ~ \E t \in Lab23!Threads : pc[t] = "move"
      BY <2>4 DEF Holding
    <3>2. o # <<>> => n # 0
      BY <2>2
    <3>3. QED
      BY <2>1, <3>1, <3>2 DEF Queue
  <2>10. QED
    BY <2>2, <2>7, <2>8, <2>9
<1>4. ASSUME mpc = "freed", NEW t \in Lab23!Threads PROVE pc[t] \in {"none", "end"}
  <2>1. joined = created /\ created \in Nat /\ t \in Nat
    BY <1>1, <1>4 DEF Workers, Shapes
  <2>2. created < t \/ t <= joined
    BY <2>1
  <2>3. QED
    BY <1>1, <2>2 DEF Workers
<1>5. QED
  BY <1>3, <1>4 DEF Lab23!ListWhole

\* Who wakes earlier has the shorter line, as far as threads are on time.
LEMMA SortedByLength ==
    ASSUME SleepCore
    PROVE  Lab23!Sorted
<1> USE SleepSizes
<1>1. Shapes /\ Workers /\ Times /\ Written
  BY DEF SleepCore
<1>2. out \in Seq(Lab23!Threads \union {Lab23!Wild}) /\ DOMAIN out = 1 .. Len(out)
  BY <1>1 DEF Shapes
<1> SUFFICES ASSUME lab # "lab3", NEW a \in 1 .. Len(out), NEW b \in 1 .. Len(out), a < b,
                    out[a] # Lab23!Wild, out[b] # Lab23!Wild
             PROVE  Due(out[a]) <= Due(out[b]) + 2 * Delay
  BY <1>2 DEF Lab23!Sorted, Due
<1>3. \A c \in 1 .. Len(out) : out[c] # Lab23!Wild =>
         out[c] \in Lab23!Threads /\ pc[out[c]] = "end" /\ line[out[c]] = out[c]
  BY <1>1 DEF Written
<1>4. PICK u \in Lab23!Threads : u = out[a] /\ pc[u] = "end" /\ line[u] = u
  BY <1>3
<1>5. PICK v \in Lab23!Threads : v = out[b] /\ pc[v] = "end" /\ line[v] = v
  BY <1>3
<1>6. wake[u] <= wake[v] + Delay /\ wake[u] \in Nat /\ wake[v] \in Nat
  BY <1>1, <1>4, <1>5 DEF Written, Shapes
<1>7. Due(u) <= wake[u] /\ wake[v] <= Due(v) + Delay
  BY <1>1, <1>4, <1>5 DEF Times
<1>8. Due(u) \in Nat /\ Due(v) \in Nat
  BY <1>1, <1>4, <1>5, HasLine
<1>9. Due(u) <= Due(v) + 2 * Delay
  <2>1. \A d, w, x, e, m \in Nat : d <= w /\ w <= x + m /\ x <= e + m => d <= e + 2 * m
    OBVIOUS
  <2>2. Delay \in Nat
    OBVIOUS
  <2>3. QED
    BY <1>6, <1>7, <1>8, <2>1, <2>2, Zenon
<1>10. QED
  BY <1>4, <1>5, <1>9

\* What is printed is what the threads have worked for.
LEMMA PrintsOnce ==
    ASSUME SleepCore
    PROVE  Lab23!PrintedOnce
<1> USE SleepSizes
<1>1. Shapes /\ Workers /\ Written
  BY DEF SleepCore
<1>2. /\ out \in Seq(Lab23!Threads \union {Lab23!Wild}) /\ DOMAIN out = 1 .. Len(out)
      /\ Lab23!Range(out) = {out[a] : a \in 1 .. Len(out)} /\ Len(out) \in Nat
  BY <1>1 DEF Shapes, Lab23!Range
<1>3. created \in Nat /\ Len(lines) \in Nat /\ created <= Len(lines) /\ Len(lines) <= SleepLines
  BY <1>1 DEF Shapes, Workers
<1>4. ASSUME crashed \/ Lab23!Wild \in Lab23!Range(out)
      PROVE  IF lab = "lab23" THEN created < Len(lines) ELSE late # {}
  <2>1. CASE crashed
    BY <1>1, <2>1 DEF Workers
  <2>2. CASE Lab23!Wild \in Lab23!Range(out)
    <3>1. PICK a \in 1 .. Len(out) : out[a] = Lab23!Wild
      BY <1>2, <2>2
    <3>2. late # {}
      BY <1>1, <3>1 DEF Written
    <3>3. QED
      BY <1>1, <3>2 DEF Workers
  <2>3. QED
    BY <1>4, <2>1, <2>2
<1>5. ASSUME NEW a \in 1 .. Len(out), NEW b \in 1 .. Len(out), a # b
      PROVE  out[a] # out[b] \/ out[a] = Lab23!Wild
  <2>1. a < b \/ b < a
    BY <1>2, <1>5
  <2>2. QED
    BY <1>1, <2>1 DEF Written
<1>6. ASSUME late = {}, mpc \in {"freed", "exited"}, \A t \in Lab23!Threads : pc[t] \in {"none", "end"}
      PROVE  Lab23!Range(out) = IF lab = "lab23" /\ created < Len(lines) THEN {} ELSE 1 .. created
  <2>1. CASE lab = "lab23" /\ created < Len(lines)
    <3>1. out = <<>>
      BY <1>1, <2>1 DEF Written
    <3>2. 1 .. Len(out) = {}
      BY <3>1
    <3>3. QED
      BY <1>2, <2>1, <3>2
  <2>2. CASE ~ (lab = "lab23" /\ created < Len(lines))
    <3>1. lab # "lab23" \/ (mpc = "freed" /\ created = Len(lines))
      BY <1>1, <1>3, <1>6, <2>2 DEF Workers
    <3>2. ASSUME NEW a \in 1 .. Len(out) PROVE out[a] \in 1 .. created
      <4>1. out[a] \in Lab23!Threads /\ pc[out[a]] = "end"
        BY <1>1, <1>6 DEF Written
      <4>2. ~ (created < out[a])
        BY <1>1, <4>1 DEF Workers
      <4>3. QED
        BY <1>3, <4>1, <4>2
    <3>3. ASSUME NEW t \in 1 .. created PROVE \E a \in 1 .. Len(out) : out[a] = t
      <4>1. t \in Lab23!Threads /\ ~ (created < t)
        BY <1>3
      <4>2. pc[t] = "end"
        BY <1>1, <1>6, <4>1 DEF Workers
      <4>3. line[t] = t
        BY <1>1, <1>6, <4>1, <4>2 DEF Workers
      <4>4. QED
        BY <1>1, <3>1, <4>1, <4>2, <4>3 DEF Written
    <3>4. Lab23!Range(out) = 1 .. created
      BY <1>2, <3>2, <3>3
    <3>5. QED
      BY <2>2, <3>4
  <2>3. QED
    BY <2>1, <2>2
<1>7. QED
  BY <1>2, <1>4, <1>5, <1>6 DEF Lab23!PrintedOnce

\* Types and data.
LEMMA SleepWhole ==
    ASSUME SleepCore
    PROVE  Lab23!Inv
<1>1. Shapes
  BY DEF SleepCore
<1>2. Lab23!TypeOK
  <2>1. Lab23!Range(next) \subseteq Lab23!Threads \union {Lab23!Null}
    BY <1>1 DEF Shapes, Lab23!Range
  <2>2. Lab23!Range(out) \subseteq Lab23!Threads \union {Lab23!Wild}
    <3>1. \A a \in DOMAIN out : out[a] \in Lab23!Threads \union {Lab23!Wild}
      BY <1>1 DEF Shapes
    <3>2. QED
      BY <3>1 DEF Lab23!Range
  <2>3. QED
    BY <1>1, <2>1, <2>2 DEF Shapes, Phases, Lab23!TypeOK
<1>3. QED
  BY <1>2, LinesKept, ListHolds DEF Lab23!Inv

-----------------------------------------------------------------------------
(* The theorems. *)

\* The inductive invariant of whichever program runs.
ListInv ==
    /\ lab = "lab17" => SortCore
    /\ lab # "lab17" => SleepCore

\* It holds at first.
LEMMA ListInit == Init => ListInv
<1>1. ASSUME lab = "lab17", Lab17!Init PROVE ListInv
  BY <1>1, SortInit DEF ListInv
<1>2. ASSUME Lab23!Init PROVE ListInv
  <2>1. lab # "lab17"
    BY <1>2 DEF Lab23!Init
  <2>2. QED
    BY <1>2, <2>1, SleepInit DEF ListInv
<1>3. QED
  BY <1>1, <1>2 DEF Init

\* Every step keeps it.
LEMMA ListNext == ListInv /\ [Next]_vars => ListInv'
<1> SUFFICES ASSUME ListInv, [Next]_vars PROVE ListInv'
  OBVIOUS
<1>1. CASE lab = "lab17" /\ Lab17!Next /\ UNCHANGED <<lab, sleepVars>>
  <2>1. SortCore' /\ lab' = "lab17"
    BY <1>1, SortNext DEF ListInv
  <2>2. QED
    BY <2>1 DEF ListInv
<1>2. CASE lab # "lab17" /\ Lab23!Next /\ UNCHANGED sortVars
  <2>1. SleepCore' /\ lab' # "lab17"
    BY <1>2, SleepNext, ProgramStays DEF ListInv
  <2>2. QED
    BY <2>1 DEF ListInv
<1>3. CASE UNCHANGED vars
  <2>1. lab' = lab
    BY <1>3 DEF vars, commonVars
  <2>2. lab = "lab17" => SortCore'
    BY <1>3, SortStutters DEF ListInv, vars, commonVars, sortVars
  <2>3. lab # "lab17" => SleepCore'
    BY <1>3, SleepStutters DEF ListInv, vars
  <2>4. QED
    BY <2>1, <2>2, <2>3 DEF ListInv
<1>4. QED
  BY <1>1, <1>2, <1>3 DEF Next

\* The list of lab17work.c is whole, and sorted when the thread lets it go; the
\* lines of lab23.c, lab6.c and lab3.c are counted up to the empty one and kept
\* whole, and so is the list that the threads of lab23.c append them to.
THEOREM ListsWhole == Spec => []Inv
<1>1. ListInv => Inv
  BY SortWhole, SleepWhole DEF ListInv, Inv
<1>2. QED
  BY <1>1, ListInit, ListNext, PTL DEF Spec

\* What main of lab17work.c misses when it prints from an old head was sorted
\* before that node since (the read of list.head before the mutex is locked).
THEOREM PrintedFromOldHead == Spec => []PrintMissesOnlySmaller
<1>1. ListInv => PrintMissesOnlySmaller
  BY SortPrints DEF ListInv, PrintMissesOnlySmaller
<1>2. QED
  BY <1>1, ListInit, ListNext, PTL DEF Spec

\* lab23.c and lab6.c print lines in the order of their lengths, if threads are
\* at most Delay late: of two lines the later is shorter by 2 * Delay at most.
THEOREM LinesSorted == Spec => []Sorted
<1>1. ListInv => Sorted
  BY SortedByLength DEF ListInv, Sorted
<1>2. QED
  BY <1>1, ListInit, ListNext, PTL DEF Spec

\* Every line of lab23.c, lab6.c and lab3.c that has a thread is printed once,
\* unless a thread read its argument in the frame of a main that was gone.
THEOREM LinesPrintedOnce == Spec => []PrintedOnce
<1>1. ListInv => PrintedOnce
  BY PrintsOnce DEF ListInv, PrintedOnce
<1>2. QED
  BY <1>1, ListInit, ListNext, PTL DEF Spec

=============================================================================
