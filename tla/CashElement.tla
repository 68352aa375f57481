---------------------------- MODULE CashElement ----------------------------
(***************************************************************************)
(* One element of the cache of lab32proxy (cash/CashElementImpl.cpp) while *)
(* it is being filled, together with every thread that touches it:         *)
(*                                                                         *)
(*   - the writer, the thread of the client that caused the download.  It  *)
(*     appends what it reads from the http server and signals the          *)
(*     subscribed condition variables (BufferImpl.cpp:63-137,              *)
(*     HandlerOneClientImpl.cpp:231-251);                                  *)
(*   - the readers, the threads of the clients that found the element in   *)
(*     the cache.  Each one runs HandlerOneClientImpl::getFromCash.        *)
(*                                                                         *)
(* The flags and the length are read without a lock in the code, so every  *)
(* such read is a step of its own.  signalUsers holds _mutexForSubscribers *)
(* over its whole loop, one signal being one step; the critical sections   *)
(* of the readers under that mutex are single steps that need it free.     *)
(* The data are abstracted to their number of bytes.  A condition variable *)
(* has one waiter, its reader, and nobody else ever locks the mutex it     *)
(* waits with, so neither needs a variable: a signal is lost unless the    *)
(* reader is already "waiting".                                            *)
(***************************************************************************)
EXTENDS Integers, FiniteSets

CONSTANTS
    Readers,        \* the client threads served from this element
    MaxLength,      \* bound: the most bytes the http server ever sends
    Declared,       \* what Content-Length and the heading announce
    BufMax,         \* BUF_SIZE - 1, the most bytes sent by one write
    SendAllResults  \* what the missing return at the end of sendAll may yield

ASSUME ElementAssumption ==
    /\ IsFiniteSet(Readers)
    /\ MaxLength \in Nat \ {0}
    /\ Declared \in 1..MaxLength
    /\ BufMax \in Nat \ {0}
    /\ SendAllResults \subseteq {"SUCCESS", "FAILURE"}
    /\ SendAllResults # {}

VARIABLES
    length,               \* _cash->size()
    isDownloadEnd,        \* _isDownloadEnd
    isServerConnected,    \* _isServerConnected
    countConnectedUsers,  \* _countConnectedUsers
    listSubscribers,      \* _listSubscribers, the condition variable of r as r
    subsLocked,           \* the writer holds _mutexForSubscribers
    toSignal,             \* subscribers the loop of signalUsers has yet to reach
    wpc,                  \* where the writer is
    wnext,                \* where it goes once signalUsers returns
    rpc,                  \* where each reader is
    count,                \* _countByteReadFromCash
    isReadyToSend,        \* _isReadyToSend
    target,               \* length of the string handed to write
    copied,               \* bytes memcpy moved into that string
    sent,                 \* bytes the reader's socket accepted
    mode                  \* why the reader leaves: "early", "final" or "cut"

elementVars == <<length, isDownloadEnd, isServerConnected>>
writerVars == <<subsLocked, toSignal, wpc, wnext>>
readerVars == <<count, isReadyToSend, target, copied, sent, mode>>
vars == <<elementVars, countConnectedUsers, listSubscribers, writerVars, rpc, readerVars>>

WriterPCs == {"heading", "lock", "signal", "connect", "mark", "serve", "closed"}
ReaderPCs == {"absent", "init", "subscribe", "testServer", "testReady", "wait",
              "waiting", "check", "checkReady", "sendTest", "size", "resize", "copy",
              "write", "proof", "unsubscribe", "destroy", "minus", "gone"}

Init ==
    /\ length = 0
    /\ isDownloadEnd = FALSE
    /\ isServerConnected = FALSE
    /\ countConnectedUsers = 0
    /\ listSubscribers = {}
    /\ subsLocked = FALSE
    /\ toSignal = {}
    /\ wpc = "heading"
    /\ wnext = "connect"
    /\ rpc = [r \in Readers |-> "absent"]
    /\ count = [r \in Readers |-> 0]
    /\ isReadyToSend = [r \in Readers |-> FALSE]
    /\ target = [r \in Readers |-> 0]
    /\ copied = [r \in Readers |-> 0]
    /\ sent = [r \in Readers |-> 0]
    /\ mode = [r \in Readers |-> "reading"]

-----------------------------------------------------------------------------
(* The writer. *)

(* appendStringToCash: the data grow under the write lock, then everybody *)
(* is signalled.  The heading comes first, body pieces follow.            *)
AppendStringToCash ==
    /\ wpc \in {"heading", "serve"}
    /\ \E n \in 1..MaxLength : length + n <= MaxLength /\ length' = length + n
    /\ wnext' = IF wpc = "heading" THEN "connect" ELSE "mark"
    /\ wpc' = "lock"
    /\ UNCHANGED <<isDownloadEnd, isServerConnected, countConnectedUsers,
                   listSubscribers, subsLocked, toSignal, rpc, readerVars>>

(* signalUsers, in three steps: take the mutex, signal each subscriber, *)
(* release the mutex.                                                   *)
LockSubscribers ==
    /\ wpc = "lock"
    /\ ~subsLocked
    /\ subsLocked' = TRUE
    /\ toSignal' = listSubscribers
    /\ wpc' = "signal"
    /\ UNCHANGED <<elementVars, countConnectedUsers, listSubscribers, wnext, rpc, readerVars>>

SignalOne(r) ==
    /\ wpc = "signal"
    /\ r \in toSignal
    /\ toSignal' = toSignal \ {r}
    /\ rpc' = IF rpc[r] = "waiting" THEN [rpc EXCEPT ![r] = "testServer"] ELSE rpc
    /\ UNCHANGED <<elementVars, countConnectedUsers, listSubscribers,
                   subsLocked, wpc, wnext, readerVars>>

(* Mutant: the mutex is not released. *)
UnlockSubscribers_Kept ==
    /\ wpc = "signal"
    /\ toSignal = {}
    /\ wpc' = wnext
    /\ UNCHANGED <<elementVars, countConnectedUsers, listSubscribers,
                   subsLocked, toSignal, wnext, rpc, readerVars>>

UnlockSubscribers ==
    /\ wpc = "signal"
    /\ toSignal = {}
    /\ subsLocked' = FALSE
    /\ wpc' = wnext
    /\ UNCHANGED <<elementVars, countConnectedUsers, listSubscribers,
                   toSignal, wnext, rpc, readerVars>>

(* wrightResponseHeading, after its append: setDownloadEnd(false) and *)
(* setIsServerConnect(true).                                          *)
OpenElement ==
    /\ wpc = "connect"
    /\ isDownloadEnd' = FALSE
    /\ isServerConnected' = TRUE
    /\ wpc' = "mark"
    /\ UNCHANGED <<length, countConnectedUsers, listSubscribers, subsLocked,
                   toSignal, wnext, rpc, readerVars>>

(* Mutant: the end is announced one byte early. *)
MarkDownloadEnd_Early ==
    /\ wpc = "mark"
    /\ isDownloadEnd' = (isDownloadEnd \/ length + 1 >= Declared)
    /\ wpc' = "serve"
    /\ UNCHANGED <<length, isServerConnected, countConnectedUsers, listSubscribers,
                   subsLocked, toSignal, wnext, rpc, readerVars>>

(* The tail of wrightResponseHeading and of wrightResponseBody: the      *)
(* download has ended once the announced number of bytes is there.       *)
MarkDownloadEnd ==
    /\ wpc = "mark"
    /\ isDownloadEnd' = (isDownloadEnd \/ length >= Declared)
    /\ wpc' = "serve"
    /\ UNCHANGED <<length, isServerConnected, countConnectedUsers, listSubscribers,
                   subsLocked, toSignal, wnext, rpc, readerVars>>

(* Mutant: the flag is cleared while the body is still being read. *)
Disconnect_StillReading ==
    /\ wpc = "serve"
    /\ isServerConnected
    /\ isServerConnected' = FALSE
    /\ wnext' = "closed"
    /\ UNCHANGED <<length, isDownloadEnd, countConnectedUsers, listSubscribers,
                   subsLocked, toSignal, wpc, rpc, readerVars>>

(* Mutant: the subscribers are signalled before the flag is cleared. *)
Disconnect_SignalFirst ==
    /\ wpc = "serve"
    /\ wnext' = "closed"
    /\ wpc' = "lock"
    /\ UNCHANGED <<length, isDownloadEnd, isServerConnected, countConnectedUsers,
                   listSubscribers, subsLocked, toSignal, rpc, readerVars>>

(* deleteClientServer: the http server is gone, at any point of the body. *)
(* setIsServerConnect(false) clears the flag and signals everybody.       *)
Disconnect ==
    /\ wpc = "serve"
    /\ isServerConnected' = FALSE
    /\ wnext' = "closed"
    /\ wpc' = "lock"
    /\ UNCHANGED <<length, isDownloadEnd, countConnectedUsers, listSubscribers,
                   subsLocked, toSignal, rpc, readerVars>>

Writer ==
    \/ LockSubscribers
    \/ \E r \in Readers : SignalOne(r)
    \/ UnlockSubscribers
    \/ OpenElement
    \/ MarkDownloadEnd

-----------------------------------------------------------------------------
(* The readers. *)

Phase == IF isServerConnected THEN "open"
         ELSE IF wnext = "closed" THEN "closed"
         ELSE "unopened"

Step(r, from, to) == rpc[r] = from /\ rpc' = [rpc EXCEPT ![r] = to]

(* Leaving for a reason that was not chosen before. *)
Because(r, why) ==
    mode' = [mode EXCEPT ![r] = IF @ = "reading" THEN why ELSE @]

(* Mutant: off by one, the last byte never makes the reader ready. *)
ReadyToSend_OffByOne(r) == isReadyToSend[r] \/ length > count[r] + 1

(* isReadyToSend() has a side effect: it raises the flag once the element *)
(* holds more than the reader has taken.                                  *)
ReadyToSend(r) == isReadyToSend[r] \/ length > count[r]

(* wrightRequestHeading has found the element and registers with it. *)
AddCountUsers(r) ==
    /\ Step(r, "absent", "init")
    /\ ~subsLocked
    /\ countConnectedUsers' = countConnectedUsers + 1
    /\ UNCHANGED <<elementVars, listSubscribers, writerVars, readerVars>>

(* Mutant: an early return that forgets minusCountUsers. *)
InitializeResourcesFails_NoMinus(r) ==
    /\ Step(r, "init", "gone")
    /\ mode' = [mode EXCEPT ![r] = "cut"]
    /\ UNCHANGED <<elementVars, countConnectedUsers, listSubscribers, writerVars,
                   count, isReadyToSend, target, copied, sent>>

(* getFromCash: the condition variable cannot be created, so return. *)
InitializeResourcesFails(r) ==
    /\ Step(r, "init", "minus")
    /\ mode' = [mode EXCEPT ![r] = "cut"]
    /\ UNCHANGED <<elementVars, countConnectedUsers, listSubscribers, writerVars,
                   count, isReadyToSend, target, copied, sent>>

InitializeResources(r) ==
    /\ Step(r, "init", "subscribe")
    /\ UNCHANGED <<elementVars, countConnectedUsers, listSubscribers, writerVars, readerVars>>

AddCondVar(r) ==
    /\ Step(r, "subscribe", "testServer")
    /\ ~subsLocked
    /\ listSubscribers' = listSubscribers \union {r}
    /\ UNCHANGED <<elementVars, countConnectedUsers, writerVars, readerVars>>

(* The condition of the inner loop, one read after the other. *)
TestServer(r) ==
    /\ Step(r, "testServer", IF isServerConnected THEN "testReady" ELSE "check")
    /\ UNCHANGED <<elementVars, countConnectedUsers, listSubscribers, writerVars, readerVars>>

TestReady(r) ==
    /\ Step(r, "testReady", IF ReadyToSend(r) THEN "check" ELSE "wait")
    /\ isReadyToSend' = [isReadyToSend EXCEPT ![r] = ReadyToSend(r)]
    /\ UNCHANGED <<elementVars, countConnectedUsers, listSubscribers, writerVars,
                   count, target, copied, sent, mode>>

(* pthread_cond_wait releases the reader's own mutex and blocks.  The    *)
(* writer never takes that mutex, so a signal may come before this step. *)
CondWait(r) ==
    /\ Step(r, "wait", "waiting")
    /\ UNCHANGED <<elementVars, countConnectedUsers, listSubscribers, writerVars, readerVars>>

CondWaitFails(r) ==
    /\ Step(r, "wait", "check")
    /\ Because(r, "cut")
    /\ UNCHANGED <<elementVars, countConnectedUsers, listSubscribers, writerVars,
                   count, isReadyToSend, target, copied, sent>>

SpuriousWakeup(r) ==
    /\ Step(r, "waiting", "testServer")
    /\ UNCHANGED <<elementVars, countConnectedUsers, listSubscribers, writerVars, readerVars>>

(* Without a server the reader sends what there is, for the last time. *)
Check(r) ==
    /\ \/ /\ ~isServerConnected
          /\ Step(r, "check", "sendTest")
          /\ Because(r, IF Phase = "closed" THEN "final" ELSE "early")
       \/ /\ isServerConnected
          /\ Step(r, "check", "checkReady")
          /\ UNCHANGED mode
    /\ UNCHANGED <<elementVars, countConnectedUsers, listSubscribers, writerVars,
                   count, isReadyToSend, target, copied, sent>>

(* Where the outer loop goes: on, or out once run is false. *)
LoopOrLeave(r) == IF mode[r] = "reading" THEN "testServer" ELSE "unsubscribe"

CheckReady(r) ==
    /\ Step(r, "checkReady", IF ReadyToSend(r) THEN "sendTest" ELSE LoopOrLeave(r))
    /\ isReadyToSend' = [isReadyToSend EXCEPT ![r] = ReadyToSend(r)]
    /\ UNCHANGED <<elementVars, countConnectedUsers, listSubscribers, writerVars,
                   count, target, copied, sent, mode>>

(* sendAll: the loop condition.  Falling out of the loop returns whatever *)
(* the build leaves there, and getFromCash compares it with FAILURE.      *)
SendMore(r) ==
    /\ ReadyToSend(r)
    /\ Step(r, "sendTest", "size")
    /\ isReadyToSend' = [isReadyToSend EXCEPT ![r] = TRUE]
    /\ UNCHANGED <<elementVars, countConnectedUsers, listSubscribers, writerVars,
                   count, target, copied, sent, mode>>

SendAllReturns(r) ==
    /\ ~ReadyToSend(r)
    /\ \E result \in SendAllResults :
           IF mode[r] = "reading" /\ result = "SUCCESS"
           THEN Step(r, "sendTest", "testServer") /\ UNCHANGED mode
           ELSE Step(r, "sendTest", "unsubscribe") /\ Because(r, "cut")
    /\ UNCHANGED <<elementVars, countConnectedUsers, listSubscribers, writerVars,
                   count, isReadyToSend, target, copied, sent>>

(* sendBuf: the length is read again at each of its steps.  A full buffer *)
(* is copied with a fixed size; otherwise the string is resized by one    *)
(* reading of the length and filled by the next one.                      *)
Size(r) ==
    /\ \/ /\ length >= count[r] + BufMax
          /\ Step(r, "size", "write")
          /\ target' = [target EXCEPT ![r] = BufMax]
          /\ copied' = [copied EXCEPT ![r] = BufMax]
       \/ /\ length < count[r] + BufMax
          /\ Step(r, "size", "resize")
          /\ UNCHANGED <<target, copied>>
    /\ UNCHANGED <<elementVars, countConnectedUsers, listSubscribers, writerVars,
                   count, isReadyToSend, sent, mode>>

Resize(r) ==
    /\ Step(r, "resize", "copy")
    /\ target' = [target EXCEPT ![r] = length - count[r]]
    /\ UNCHANGED <<elementVars, countConnectedUsers, listSubscribers, writerVars,
                   count, isReadyToSend, copied, sent, mode>>

MemCopyFromCash(r) ==
    /\ Step(r, "copy", "write")
    /\ copied' = [copied EXCEPT ![r] = length - count[r]]
    /\ UNCHANGED <<elementVars, countConnectedUsers, listSubscribers, writerVars,
                   count, isReadyToSend, target, sent, mode>>

(* write() takes the whole string (the socket blocks) or fails. *)
SendBuf(r) ==
    /\ Step(r, "write", "proof")
    /\ sent' = [sent EXCEPT ![r] = @ + target[r]]
    /\ UNCHANGED <<elementVars, countConnectedUsers, listSubscribers, writerVars,
                   count, isReadyToSend, target, copied, mode>>

SendBufFails(r) ==
    /\ Step(r, "write", "unsubscribe")
    /\ mode' = [mode EXCEPT ![r] = "cut"]
    /\ UNCHANGED <<elementVars, countConnectedUsers, listSubscribers, writerVars,
                   count, isReadyToSend, target, copied, sent>>

(* Mutant: the flag is never lowered. *)
ProofSend_StaysReady(r) ==
    /\ Step(r, "proof", "sendTest")
    /\ count' = [count EXCEPT ![r] = @ + target[r]]
    /\ UNCHANGED <<elementVars, countConnectedUsers, listSubscribers, writerVars,
                   isReadyToSend, target, copied, sent, mode>>

(* proofSend: what was sent is taken off, and the flag falls once nothing  *)
(* is left.  The statuses it also sets are not read by getFromCash.        *)
ProofSend(r) ==
    /\ Step(r, "proof", "sendTest")
    /\ count' = [count EXCEPT ![r] = @ + target[r]]
    /\ isReadyToSend' = [isReadyToSend EXCEPT ![r] = @ /\ length # count'[r]]
    /\ UNCHANGED <<elementVars, countConnectedUsers, listSubscribers, writerVars,
                   target, copied, sent, mode>>

(* Mutant: the list is changed without the mutex. *)
DellCondVar_NoLock(r) ==
    /\ Step(r, "unsubscribe", "destroy")
    /\ listSubscribers' = listSubscribers \ {r}
    /\ UNCHANGED <<elementVars, countConnectedUsers, writerVars, readerVars>>

DellCondVar(r) ==
    /\ Step(r, "unsubscribe", "destroy")
    /\ ~subsLocked
    /\ listSubscribers' = listSubscribers \ {r}
    /\ UNCHANGED <<elementVars, countConnectedUsers, writerVars, readerVars>>

DeleteResources(r) ==
    /\ Step(r, "destroy", "minus")
    /\ UNCHANGED <<elementVars, countConnectedUsers, listSubscribers, writerVars, readerVars>>

(* deleteClientUser, which startHandler calls when getFromCash returns. *)
MinusCountUsers(r) ==
    /\ Step(r, "minus", "gone")
    /\ ~subsLocked
    /\ countConnectedUsers' = countConnectedUsers - 1
    /\ UNCHANGED <<elementVars, listSubscribers, writerVars, readerVars>>

(* What a joined reader does by itself. *)
Reader(r) ==
    \/ InitializeResources(r) \/ InitializeResourcesFails(r) \/ AddCondVar(r)
    \/ TestServer(r) \/ TestReady(r) \/ CondWait(r) \/ CondWaitFails(r)
    \/ Check(r) \/ CheckReady(r)
    \/ SendMore(r) \/ SendAllReturns(r)
    \/ Size(r) \/ Resize(r) \/ MemCopyFromCash(r)
    \/ SendBuf(r) \/ SendBufFails(r) \/ ProofSend(r)
    \/ DellCondVar(r) \/ DeleteResources(r) \/ MinusCountUsers(r)

Next ==
    \/ AppendStringToCash
    \/ Disconnect
    \/ Writer
    \/ \E r \in Readers : AddCountUsers(r) \/ SpuriousWakeup(r) \/ Reader(r)

Spec == Init /\ [][Next]_vars

(* Every thread that can run is run by the kernel, and a socket that is   *)
(* not broken eventually takes what is written to it.  Nothing obliges    *)
(* the http server to send or to close, or a client to join, and a wait   *)
(* ends spuriously only by chance.                                        *)
Fairness ==
    /\ WF_vars(Writer)
    /\ \A r \in Readers : WF_vars(Reader(r))

FairSpec == Spec /\ Fairness

-----------------------------------------------------------------------------
(* Properties. *)

(* The types of all variables. *)
TypeOK ==
    /\ length \in 0..MaxLength
    /\ isDownloadEnd \in BOOLEAN
    /\ isServerConnected \in BOOLEAN
    /\ countConnectedUsers \in Int
    /\ listSubscribers \subseteq Readers
    /\ subsLocked \in BOOLEAN
    /\ toSignal \subseteq Readers
    /\ wpc \in WriterPCs
    /\ wnext \in {"connect", "mark", "closed"}
    /\ rpc \in [Readers -> ReaderPCs]
    /\ count \in [Readers -> 0..MaxLength]
    /\ isReadyToSend \in [Readers -> BOOLEAN]
    /\ target \in [Readers -> 0..MaxLength]
    /\ copied \in [Readers -> 0..MaxLength]
    /\ sent \in [Readers -> 0..MaxLength]
    /\ mode \in [Readers -> {"reading", "early", "final", "cut"}]

(* The condition variable of r exists (initializeResources,       *)
(* deleteResources).                                              *)
CondAlive(r) == rpc[r] \notin {"absent", "init", "minus", "gone"}

(* signalUsers never signals a condition variable that its reader has     *)
(* destroyed: a reader deletes it from the list under the mutex the loop  *)
(* holds, and destroys it afterwards (CashElementImpl.cpp:97-114,         *)
(* HandlerOneClientImpl.cpp:297-298).                                     *)
SignalledCondAlive == \A r \in toSignal \union listSubscribers : CondAlive(r)

(* _countConnectedUsers, by which the cache decides what it may evict, is *)
(* the number of threads between addCountUsers and minusCountUsers, on    *)
(* every path including the one where the condition variable cannot be    *)
(* created (HandlerOneClientImpl.cpp:217-220, 270-271).                   *)
UsersCounted ==
    countConnectedUsers = Cardinality({r \in Readers : rpc[r] \notin {"absent", "gone"}})

(* What a reader writes continues what it has written: the offset it      *)
(* copies from is the number of bytes its socket took, nothing is skipped *)
(* or repeated, and it is within the element although length is re-read   *)
(* without a lock (BufferImpl.cpp:148-170, 172-186).                      *)
InOrder ==
    \A r \in Readers :
        /\ rpc[r] \in {"size", "resize", "copy", "write"} => count[r] = sent[r]
        /\ rpc[r] = "write" => target[r] > 0 /\ sent[r] + target[r] <= length

(* Once the writer is done, nothing grows between the two readings of the *)
(* length in sendBuf: what is copied is what the string was sized for     *)
(* (BufferImpl.cpp:156-158).  While the download runs this can fail.      *)
DrainCopiesFit ==
    \A r \in Readers :
        rpc[r] = "write" /\ mode[r] = "final" => copied[r] = target[r]

(* A reader that found the server gone, drained the element and left got  *)
(* all that was announced, if the download reached its end                *)
(* (BufferImpl.cpp:92-99, 119-125; HandlerOneClientImpl.cpp:286-289).     *)
ShortOnlyIfUnfinished ==
    \A r \in Readers :
        rpc[r] = "gone" /\ mode[r] = "final" /\ isDownloadEnd => sent[r] >= Declared

(* The abstract promise of the element, and that this module keeps it. *)
Stream == INSTANCE CashStream WITH
              phase <- Phase,
              left <- [r \in Readers |-> rpc[r] = "gone"]

ImplementsStream == Stream!Spec

(* A reader that saw the server gone and left has the whole of a closed   *)
(* element (README.md:3, HandlerOneClientImpl.cpp:286-289).               *)
WholeResponse == Stream!WholeResponse

(* README.md:6, "no idle loops": a reader with nothing to send is blocked *)
(* or gone again and again; it never turns for ever in the loops of       *)
(* getFromCash and sendAll (HandlerOneClientImpl.cpp:276-295, 343-351).   *)
NoBusyLoop == \A r \in Readers : []<>(rpc[r] \in {"absent", "waiting", "gone"})

(* r read a connected server and is not yet blocked, or is blocked after  *)
(* the last signal has gone past it.                                      *)
OutOfReach(r) ==
    \/ rpc[r] \in {"testReady", "wait"}
    \/ rpc[r] = "waiting" /\ r \notin toSignal

(* A disconnect releases every reader the last signal loop can reach: it  *)
(* sends what is left and goes (CashElementImpl.cpp:59-66,                *)
(* HandlerOneClientImpl.cpp:286-299).                                     *)
ReachedAreReleased ==
    \A r \in Readers :
        (Phase = "closed" /\ rpc[r] # "absent" /\ ~OutOfReach(r)) ~> rpc[r] = "gone"

(* README.md:4, "an adequate reaction to the disconnection of the client  *)
(* or the server": when the server has disconnected, every reader goes.   *)
ReadersReleased ==
    \A r \in Readers :
        (wpc = "closed" /\ rpc[r] # "absent") ~> rpc[r] = "gone"

-----------------------------------------------------------------------------
(* The inductive invariant behind the safety properties, in four parts. *)

SendingPCs == {"sendTest", "size", "resize", "copy", "write", "proof"}
LeavingPCs == {"unsubscribe", "destroy", "minus", "gone"}
SubscribedPCs == {"testServer", "testReady", "wait", "waiting", "check", "checkReady",
                  "unsubscribe"} \union SendingPCs

(* The mutex covers the loop, and the list holds exactly the readers *)
(* between addCondVar and dellCondVar.                               *)
LockInv ==
    /\ subsLocked <=> wpc = "signal"
    /\ toSignal # {} => wpc = "signal"
    /\ toSignal \subseteq listSubscribers
    /\ \A r \in Readers : r \in listSubscribers <=> rpc[r] \in SubscribedPCs

(* The flag follows the writer: down before "mark", up until Disconnect. *)
WriterInv ==
    /\ wpc \in {"heading", "connect"} => wnext = "connect" /\ ~isServerConnected
    /\ wpc \in {"mark", "serve"} => wnext # "closed" /\ isServerConnected
    /\ wpc \in {"lock", "signal"} => (isServerConnected <=> wnext = "mark")
    /\ wpc = "closed" => wnext = "closed" /\ ~isServerConnected
    /\ isDownloadEnd => length >= Declared

(* A reader never runs ahead of the element, the flag is raised only with *)
(* something left to take, and the offset is what the socket accepted.    *)
OffsetAt(r) ==
    /\ sent[r] = IF rpc[r] = "proof" THEN count[r] + target[r] ELSE count[r]
    /\ sent[r] <= length
    /\ isReadyToSend[r] => count[r] < length
    /\ rpc[r] \in {"size", "resize", "copy", "write"} => count[r] < length
    /\ rpc[r] \in {"copy", "write", "proof"} =>
           target[r] > 0 /\ count[r] + target[r] <= length

OffsetInv == \A r \in Readers : OffsetAt(r)

(* A reader in mode "final" runs on a closed element: nothing it measured *)
(* moves any more, and it leaves sendAll only with everything sent.  A     *)
(* reader that leaves has a reason.                                        *)
DrainAt(r) ==
    /\ rpc[r] \in LeavingPCs => mode[r] # "reading"
    /\ mode[r] = "final" =>
           /\ wnext = "closed" /\ ~isServerConnected
           /\ rpc[r] \in SendingPCs \union LeavingPCs
           /\ rpc[r] = "copy" => target[r] = length - count[r]
           /\ rpc[r] = "write" => copied[r] = target[r]
           /\ rpc[r] \in LeavingPCs => sent[r] = length

DrainInv == \A r \in Readers : DrainAt(r)

IInv == TypeOK /\ LockInv /\ WriterInv /\ OffsetInv /\ DrainInv
=============================================================================
