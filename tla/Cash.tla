-------------------------------- MODULE Cash --------------------------------
(***************************************************************************)
(* The cache of lab32proxy (cash/CashImpl.cpp): the list of its elements   *)
(* under one mutex, and the client threads that look an element up, serve  *)
(* themselves from it, or download the response and add an element         *)
(* (BufferImpl.cpp:24-53, 63-99).                                          *)
(*                                                                         *)
(* Looking up is two critical sections (isElementInCash and                *)
(* findResponseInCash) and a third one in the element (addCountUsers);     *)
(* adding is two (isElementInCash again and addStringToCash).  Anything    *)
(* may happen in between.  addStringToCash evicts on its way: it walks the *)
(* list under the mutex, reads the count of users of each element, which   *)
(* belongs to another mutex, and erases an element for which it read none. *)
(* Reading the count and erasing are two steps here: who has found the     *)
(* element before may count itself in between.                             *)
(*                                                                         *)
(* One thread serves one request, so it adds at most one element, and the  *)
(* element is named after the thread.  Headings are the keys.  byteInCash  *)
(* is not modelled: it starts uninitialised and nothing reads it.          *)
(***************************************************************************)
EXTENDS Integers, FiniteSets, SequencesExt

CONSTANTS
    Threads,  \* client threads, one request each
    Keys,     \* request headings
    None      \* no thread, no element

ASSUME CashAssumption == IsFiniteSet(Threads) /\ None \notin Threads

VARIABLES
    listCash,    \* _listCash, the elements by the thread that made them
    mutex,       \* the thread inside addStringToCash, or None
    it,          \* its iterator, Len(listCash) + 1 being end()
    want,        \* the heading each thread asks for
    pc,          \* where each thread is
    elem,        \* _cashElement of its buffer
    countUsers,  \* _countConnectedUsers of each element
    seen,        \* history: the element the thread's isElementInCash matched
    evicted,     \* history: the elements erased so far
    overlap,     \* history: who added since the thread looked for the second time
    late         \* history: who had found the element at it, but not yet counted
                 \* itself there, when the count was read

requestVars == <<want, elem, countUsers>>
historyVars == <<seen, evicted, overlap, late>>
vars == <<listCash, mutex, it, pc, requestVars, historyVars>>

PCs == {"check", "find", "count", "read", "fetch", "recheck", "add", "evict", "erase",
        "download", "crash", "done"}

Init ==
    /\ listCash = <<>>
    /\ mutex = None
    /\ it = 1
    /\ want \in [Threads -> Keys]
    /\ pc = [t \in Threads |-> "check"]
    /\ elem = [t \in Threads |-> None]
    /\ countUsers = [e \in Threads |-> 0]
    /\ seen = [t \in Threads |-> None]
    /\ evicted = {}
    /\ overlap = [t \in Threads |-> {}]
    /\ late = {}

(* A call through a NULL element ends the process, all threads included. *)
crashed == \E t \in Threads : pc[t] = "crash"

Go(t, from, to) == ~crashed /\ pc[t] = from /\ pc' = [pc EXCEPT ![t] = to]

(* The position of the first element with t's heading, 0 if there is none. *)
Match(t) == SelectInSeq(listCash, LAMBDA e : want[e] = want[t])

(* Mutant: only the lookup that decides compares hashes. *)
IsElementInCash_ByHash(t) ==
    /\ mutex = None
    /\ Go(t, "check", IF listCash # <<>> THEN "find" ELSE "fetch")
    /\ seen' = [seen EXCEPT ![t] = IF listCash # <<>> THEN Head(listCash) ELSE None]
    /\ UNCHANGED <<listCash, mutex, it, requestVars, evicted, overlap, late>>

(* wrightRequestHeading: isElementInCash decides between hit and miss. *)
IsElementInCash(t) ==
    /\ mutex = None
    /\ Go(t, "check", IF Match(t) # 0 THEN "find" ELSE "fetch")
    /\ seen' = [seen EXCEPT ![t] = IF Match(t) # 0 THEN listCash[Match(t)] ELSE None]
    /\ UNCHANGED <<listCash, mutex, it, requestVars, evicted, overlap, late>>

(* findResponseInCash moves what it finds to the end of the list.  If it *)
(* finds nothing it returns NULL, and the caller's next statement calls  *)
(* addCountUsers on NULL: the process dies.                              *)
FindResponseInCash(t) ==
    /\ mutex = None
    /\ \/ /\ Match(t) # 0
          /\ Go(t, "find", "count")
          /\ listCash' = Append(RemoveAt(listCash, Match(t)), listCash[Match(t)])
          /\ elem' = [elem EXCEPT ![t] = listCash[Match(t)]]
       \/ /\ Match(t) = 0
          /\ Go(t, "find", "crash")
          /\ UNCHANGED <<listCash, elem>>
    /\ UNCHANGED <<mutex, it, want, countUsers, historyVars>>

AddCountUsers(t) ==
    /\ Go(t, "count", "read")
    /\ countUsers' = [countUsers EXCEPT ![elem[t]] = @ + 1]
    /\ UNCHANGED <<listCash, mutex, it, want, elem, historyVars>>

(* Mutant: the count is taken down twice. *)
MinusCountUsers_Twice(t) ==
    /\ Go(t, "read", "done")
    /\ countUsers' = [countUsers EXCEPT ![elem[t]] = @ - 2]
    /\ elem' = [elem EXCEPT ![t] = None]
    /\ UNCHANGED <<listCash, mutex, it, want, historyVars>>

(* deleteClientUser, when getFromCash has returned. *)
MinusCountUsers(t) ==
    /\ Go(t, "read", "done")
    /\ countUsers' = [countUsers EXCEPT ![elem[t]] = @ - 1]
    /\ elem' = [elem EXCEPT ![t] = None]
    /\ UNCHANGED <<listCash, mutex, it, want, historyVars>>

(* The http server has sent the heading of its response; the response may *)
(* be one that is not cached.                                             *)
ResponseHeading(t) ==
    /\ \E cashing \in BOOLEAN : Go(t, "fetch", IF cashing THEN "recheck" ELSE "done")
    /\ UNCHANGED <<listCash, mutex, it, requestVars, historyVars>>

(* Mutant: the second lookup is dropped. *)
Recheck_Skipped(t) ==
    /\ mutex = None
    /\ Go(t, "recheck", "add")
    /\ UNCHANGED <<listCash, mutex, it, requestVars, historyVars>>

(* wrightResponseHeading looks again before it adds. *)
Recheck(t) ==
    /\ mutex = None
    /\ Go(t, "recheck", IF Match(t) # 0 THEN "done" ELSE "add")
    /\ UNCHANGED <<listCash, mutex, it, requestVars, historyVars>>

(* addStringToCash: take the mutex, walk the list, push the new element. *)
BeginAdd(t) ==
    /\ mutex = None
    /\ Go(t, "add", "evict")
    /\ mutex' = t
    /\ it' = 1
    /\ UNCHANGED <<listCash, requestVars, historyVars>>

(* Erasing yields the next element and the loop then steps over it.  From *)
(* end() the increment of libstdc++'s list leads back to the beginning.   *)
AfterErase(i, n) == IF i = n + 1 THEN 1 ELSE i + 1

Found(e) == {u \in Threads : pc[u] = "count" /\ elem[u] = e}

(* Mutant: an element with one user is taken for unused. *)
ReadCount_OffByOne(t) ==
    /\ it <= Len(listCash)
    /\ \/ /\ countUsers[listCash[it]] <= 1
          /\ Go(t, "evict", "erase")
          /\ late' = Found(listCash[it])
          /\ it' = it
       \/ /\ countUsers[listCash[it]] > 1
          /\ Go(t, "evict", "evict")
          /\ it' = it + 1
          /\ UNCHANGED late
    /\ UNCHANGED <<listCash, mutex, requestVars, seen, evicted, overlap>>

(* Mutant: the iterator advances only over what is erased. *)
ReadCount_NoAdvance(t) ==
    /\ it <= Len(listCash)
    /\ countUsers[listCash[it]] <= 0
    /\ Go(t, "evict", "erase")
    /\ late' = Found(listCash[it])
    /\ it' = it
    /\ UNCHANGED <<listCash, mutex, requestVars, seen, evicted, overlap>>

(* The loop goes on past an element with users. *)
ReadCount(t) ==
    /\ it <= Len(listCash)
    /\ \/ /\ countUsers[listCash[it]] <= 0
          /\ Go(t, "evict", "erase")
          /\ late' = Found(listCash[it])
          /\ it' = it
       \/ /\ countUsers[listCash[it]] > 0
          /\ Go(t, "evict", "evict")
          /\ it' = it + 1
          /\ UNCHANGED late
    /\ UNCHANGED <<listCash, mutex, requestVars, seen, evicted, overlap>>

(* Erasing does not look at the count again, nor does it free the element. *)
Erase(t) ==
    /\ Go(t, "erase", "evict")
    /\ evicted' = evicted \union {listCash[it]}
    /\ listCash' = RemoveAt(listCash, it)
    /\ it' = AfterErase(it, Len(listCash) - 1)
    /\ UNCHANGED <<mutex, requestVars, seen, overlap, late>>

EndAdd(t) ==
    /\ it > Len(listCash)
    /\ Go(t, "evict", "download")
    /\ listCash' = Append(listCash, t)
    /\ elem' = [elem EXCEPT ![t] = t]
    /\ mutex' = None
    /\ it' = 1
    /\ overlap' = [u \in Threads |-> IF pc[u] = "add" THEN overlap[u] \union {t} ELSE overlap[u]]
    /\ UNCHANGED <<want, countUsers, seen, evicted, late>>

(* The download ends with everything that was announced, or the server *)
(* goes before; the element stays where it is in both cases.           *)
EndDownload(t) ==
    /\ Go(t, "download", "done")
    /\ elem' = [elem EXCEPT ![t] = None]
    /\ UNCHANGED <<listCash, mutex, it, want, countUsers, historyVars>>

Adding(t) == BeginAdd(t) \/ ReadCount(t) \/ Erase(t) \/ EndAdd(t)

Thread(t) ==
    \/ IsElementInCash(t) \/ FindResponseInCash(t) \/ AddCountUsers(t) \/ MinusCountUsers(t)
    \/ ResponseHeading(t) \/ Recheck(t) \/ Adding(t) \/ EndDownload(t)

Next == \E t \in Threads : Thread(t)

Spec == Init /\ [][Next]_vars

(* The kernel runs the thread that holds the mutex. *)
FairSpec == Spec /\ \A t \in Threads : WF_vars(Adding(t))

-----------------------------------------------------------------------------
(* Properties. *)

Users(e) == {t \in Threads : pc[t] = "read" /\ elem[t] = e}

(* The types of all variables; no element is twice in the list. *)
TypeOK ==
    /\ listCash \in Seq(Threads) /\ IsInjective(listCash)
    /\ mutex \in Threads \union {None}
    /\ it \in 1..Len(listCash) + 1
    /\ want \in [Threads -> Keys]
    /\ pc \in [Threads -> PCs]
    /\ elem \in [Threads -> Threads \union {None}]
    /\ countUsers \in [Threads -> Nat]
    /\ seen \in [Threads -> Threads \union {None}]
    /\ evicted \in SUBSET Threads
    /\ overlap \in [Threads -> SUBSET Threads]
    /\ late \in SUBSET Threads

(* Between isElementInCash and findResponseInCash only an eviction can     *)
(* take the element away: the lookup returns NULL for no other reason      *)
(* (BufferImpl.cpp:29-33, CashImpl.cpp:4-21, 31-39).                       *)
CrashOnlyByEviction ==
    \A t \in Threads : pc[t] = "crash" => seen[t] \in evicted

(* A client is served the response to its own request heading, whatever    *)
(* was evicted, added or moved meanwhile (CashImpl.cpp:9, 75).             *)
RightResponse ==
    \A t \in Threads : pc[t] \in {"count", "read"} => want[elem[t]] = want[t]

(* Two elements for one heading exist only if both threads looked before   *)
(* either of them added (BufferImpl.cpp:71-77).                            *)
DuplicatesOverlap ==
    \A e, f \in ToSet(listCash) :
        e # f /\ want[e] = want[f] => e \in overlap[f] \/ f \in overlap[e]

(* The count of an element is the number of clients that are served from   *)
(* it, so it never goes below zero (CashElementImpl.cpp:43-53).            *)
CountsExact == \A e \in Threads : countUsers[e] = Cardinality(Users(e))

(* An element leaves the list only by the thread that is adding one, and    *)
(* nobody is served from it but who had found it before that thread took   *)
(* the mutex and counted itself between the reading of the count and the   *)
(* erasing (CashImpl.cpp:31-45, BufferImpl.cpp:31-33).                     *)
EvictsOnlyUncounted ==
    [][ \A e \in ToSet(listCash) \ ToSet(listCash') :
            Users(e) \subseteq late /\ mutex # None ]_vars

(* addStringToCash comes to an end although erasing the last element makes *)
(* its iterator pass end() (CashImpl.cpp:31-45).                           *)
AddEnds == mutex # None ~> mutex = None

(* The mutex is held from BeginAdd to EndAdd and nowhere else              *)
(* (CashImpl.cpp:23-52).                                                   *)
MutexHeld == \A t \in Threads : pc[t] \in {"evict", "erase"} <=> mutex = t

(* Between reading a count and erasing, the iterator stands on the element, *)
(* and all its users are late ones: nobody can find an element while the   *)
(* mutex is held (CashImpl.cpp:7, 25, 32-35).                              *)
ErasesWhatItRead ==
    \A t \in Threads : pc[t] = "erase" =>
        it <= Len(listCash) /\ Users(listCash[it]) \union Found(listCash[it]) \subseteq late

(* The list holds what a thread has added, and never an element its thread *)
(* still has to add; a thread's _cashElement is the one it serves or fills *)
(* (BufferImpl.cpp:31-36, CashImpl.cpp:46-52).                             *)
AddedOnce == \A e \in ToSet(listCash) : pc[e] \in {"download", "done"}
ElementSet == \A t \in Threads : pc[t] \in {"count", "read"} => elem[t] \in Threads

(* What isElementInCash saw is still in the list, or was evicted since: the *)
(* reordering of findResponseInCash loses nothing (CashImpl.cpp:8-17).     *)
SeenOrEvicted ==
    \A t \in Threads : pc[t] = "find" =>
        /\ seen[t] \in ToSet(listCash) \union evicted
        /\ want[seen[t]] = want[t]

(* A thread on its way to addStringToCash knows of every element with its  *)
(* heading but those that were added since it looked again                 *)
(* (BufferImpl.cpp:71-77).                                                 *)
RecheckedSince ==
    \A t \in Threads : pc[t] \in {"add", "evict", "erase"} =>
        \A e \in ToSet(listCash) : want[e] = want[t] => e \in overlap[t]

(* The invariant of the cache: types, who holds the mutex, exact counts, a *)
(* lookup that serves what was asked for, and what the threads between two *)
(* critical sections still know about the list.  With the two properties   *)
(* above it is inductive (CashProofs).                                     *)
Inv ==
    /\ TypeOK
    /\ MutexHeld
    /\ ErasesWhatItRead
    /\ AddedOnce
    /\ ElementSet
    /\ CountsExact
    /\ RightResponse
    /\ SeenOrEvicted
    /\ RecheckedSince

=============================================================================
