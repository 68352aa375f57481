------------------------------- MODULE Server -------------------------------
(***************************************************************************)
(* The accepting loop of lab32proxy and the threads it starts              *)
(* (server/NewServerImpl.cpp, socket/ServerSocketImpl.cpp, main.cpp): who  *)
(* owns a descriptor, which argument a thread reads, the mutex under which *)
(* all threads resolve and connect, and what an exception ends.  What a    *)
(* thread does with its sockets is module Handler; here it connects at     *)
(* most once and closes them in any order.  A connection is named by the   *)
(* order of its accept.                                                    *)
(***************************************************************************)
EXTENDS Integers, Sequences, FiniteSets

CONSTANTS
    Conns,      \* how many users connect
    MaxFds      \* descriptors the process may have, besides the listening one

ASSUME ServerAssumption == Conns \in Nat /\ MaxFds \in Nat \ {0}

VARIABLES
    lpc,            \* the main thread: where it is in startServer and main
    listFd,         \* the arguments of the threads, the newest first
    thr,            \* the thread of each connection
    sock,           \* the user socket each thread took from its argument
    users, servers, \* open descriptors: of users, and of the threads' servers
    mutexForServer, \* the connection whose thread holds it, or 0
    refused,        \* history: connections whose thread was not created
    broken,         \* history: connections whose connect() failed
    unpolled,       \* history: connections whose poll() failed
    stale           \* history: threads that read a freed argument

fdVars == <<users, servers>>
historyVars == <<refused, broken, unpolled, stale>>
vars == <<lpc, listFd, thr, sock, fdVars, mutexForServer, historyVars>>

Ids == 1 .. Conns
Accepted == {c \in Ids : thr[c] # "none"}
Full == Cardinality(users) + Cardinality(servers) >= MaxFds

\* The threads of a process that is over do nothing more.
Running == lpc # "exit"

Init ==
    /\ lpc = "socket"
    /\ listFd = <<>>
    /\ thr = [c \in Ids |-> "none"]
    /\ sock = [c \in Ids |-> 0]
    /\ users = {} /\ servers = {}
    /\ mutexForServer = 0
    /\ refused = {} /\ broken = {} /\ unpolled = {} /\ stale = {}

-----------------------------------------------------------------------------
(* NewServerImpl, startServer and main *)

\* connectSocket: any of its four calls may fail, which main reports.
ConnectSocket ==
    /\ lpc = "socket"
    /\ lpc' \in {"accept", "exit"}
    /\ UNCHANGED <<listFd, thr, sock, fdVars, mutexForServer, historyVars>>

\* acceptNewClientSock, and the argument for its thread.
Accept ==
    /\ lpc = "accept" /\ ~Full
    /\ \E c \in Ids :
           /\ Accepted = 1 .. c - 1
           /\ users' = users \union {c}
           /\ listFd' = <<c>> \o listFd
           /\ thr' = [thr EXCEPT ![c] = "accepted"]
    /\ lpc' = "create"
    /\ UNCHANGED <<sock, servers, mutexForServer, historyVars>>

\* accept fails and ConnectException is thrown by value; the handler of the
\* loop catches pointers only, so the exception leaves startServer: the list
\* is destroyed, main closes the server and returns.
AcceptFails ==
    /\ lpc = "accept"
    /\ listFd' = <<>>
    /\ lpc' = "closing"
    /\ UNCHANGED <<thr, sock, fdVars, mutexForServer, historyVars>>

Exit ==
    /\ lpc = "closing"
    /\ lpc' = "exit"
    /\ UNCHANGED <<listFd, thr, sock, fdVars, mutexForServer, historyVars>>

\* The thread is created with the address of its argument in the list.
Create ==
    /\ lpc = "create"
    /\ thr' = [thr EXCEPT ![Head(listFd)] = "new"]
    /\ lpc' = "detach"
    /\ UNCHANGED <<listFd, sock, fdVars, mutexForServer, historyVars>>

\* pthread_create fails: the loop goes on and forgets the socket.
CreateFails ==
    /\ lpc = "create"
    /\ thr' = [thr EXCEPT ![Head(listFd)] = "refused"]
    /\ refused' = refused \union {Head(listFd)}
    /\ lpc' = "accept"
    /\ UNCHANGED <<listFd, sock, fdVars, mutexForServer, broken, unpolled, stale>>

\* Mutant: the argument is taken off the list when its thread is detached.
AfterDetach_Pops == Tail(listFd)

AfterDetach == listFd

Detach ==
    /\ lpc = "detach"
    /\ listFd' = AfterDetach
    /\ lpc' = "accept"
    /\ UNCHANGED <<thr, sock, fdVars, mutexForServer, historyVars>>

-----------------------------------------------------------------------------
(* startingMethodForThread *)

Goto(c, l) == thr' = [thr EXCEPT ![c] = l]

Argument(c) == c

ReadArgs(c) ==
    /\ thr[c] = "new" /\ Running
    /\ IF \E k \in 1 .. Len(listFd) : listFd[k] = c
         THEN sock' = [sock EXCEPT ![c] = Argument(c)] /\ UNCHANGED stale
         ELSE stale' = stale \union {c} /\ UNCHANGED sock
    /\ Goto(c, "serve")
    /\ UNCHANGED <<lpc, listFd, fdVars, mutexForServer, refused, broken, unpolled>>

\* handlingEvent asks for the http server.
WantsServer(c) ==
    /\ thr[c] = "serve" /\ Running /\ c \in users
    /\ Goto(c, "lock")
    /\ UNCHANGED <<lpc, listFd, sock, fdVars, mutexForServer, historyVars>>

\* connectToClient
Lock(c) ==
    /\ thr[c] = "lock" /\ Running /\ mutexForServer = 0
    /\ mutexForServer' = c
    /\ Goto(c, "resolve")
    /\ UNCHANGED <<lpc, listFd, sock, fdVars, historyVars>>

\* What the catch clause of handlingEvent does with a ConnectException.
Gives(c) == users' = users \ {sock[c]} /\ Goto(c, "gone")

\* gethostbyname finds no address.
ResolveFails(c) ==
    /\ thr[c] = "resolve" /\ Running
    /\ mutexForServer' = 0
    /\ Gives(c)
    /\ UNCHANGED <<lpc, listFd, sock, servers, historyVars>>

\* gethostbyname and socket; there may be no descriptor left.
Resolve(c) ==
    /\ thr[c] = "resolve" /\ Running /\ ~Full
    /\ servers' = servers \union {c}
    /\ Goto(c, "connect")
    /\ UNCHANGED <<lpc, listFd, sock, users, mutexForServer, historyVars>>

SocketFails(c) ==
    /\ thr[c] = "resolve" /\ Running /\ Full
    /\ mutexForServer' = 0
    /\ Gives(c)
    /\ UNCHANGED <<lpc, listFd, sock, servers, historyVars>>

Connect(c) ==
    /\ thr[c] = "connect" /\ Running
    /\ mutexForServer' = 0
    /\ Goto(c, "relay")
    /\ UNCHANGED <<lpc, listFd, sock, fdVars, historyVars>>

\* Mutant: the mutex stays locked when connect fails.
Released_Keeps(c) == c

Released(c) == 0

\* connect fails: its socket is not closed.
ConnectFails(c) ==
    /\ thr[c] = "connect" /\ Running
    /\ mutexForServer' = Released(c)
    /\ broken' = broken \union {c}
    /\ Gives(c)
    /\ UNCHANGED <<lpc, listFd, sock, servers, refused, unpolled, stale>>

\* deleteClientUser and deleteClientServer
CloseUser(c) ==
    /\ thr[c] \in {"serve", "relay"} /\ Running /\ sock[c] \in users
    /\ users' = users \ {sock[c]}
    /\ UNCHANGED <<lpc, listFd, thr, sock, servers, mutexForServer, historyVars>>

CloseServer(c) ==
    /\ thr[c] = "relay" /\ Running /\ c \in servers
    /\ servers' = servers \ {c}
    /\ UNCHANGED <<lpc, listFd, thr, sock, users, mutexForServer, historyVars>>

Through(c) == sock[c] \notin users /\ c \notin servers

\* poll fails: startHandler leaves its loop, and nobody closes the sockets of
\* the clients that are still listed.
PollFails(c) ==
    /\ thr[c] \in {"serve", "relay"} /\ Running /\ ~Through(c)
    /\ unpolled' = unpolled \union {c}
    /\ Goto(c, "gone")
    /\ UNCHANGED <<lpc, listFd, sock, fdVars, mutexForServer, refused, broken, stale>>

Ends(c) ==
    /\ thr[c] \in {"serve", "relay"} /\ Running /\ Through(c)
    /\ Goto(c, "gone")
    /\ UNCHANGED <<lpc, listFd, sock, fdVars, mutexForServer, historyVars>>

Connecting(c) ==
    ResolveFails(c) \/ Resolve(c) \/ SocketFails(c) \/ Connect(c) \/ ConnectFails(c)
Thread(c) ==
    ReadArgs(c) \/ WantsServer(c) \/ Lock(c) \/ Connecting(c)
    \/ CloseUser(c) \/ CloseServer(c) \/ PollFails(c) \/ Ends(c)

Loop == ConnectSocket \/ Accept \/ Create \/ CreateFails \/ Detach

Next == Loop \/ AcceptFails \/ Exit \/ \E c \in Ids : Thread(c)

Spec == Init /\ [][Next]_vars

\* The main thread runs; resolving and connecting end, for the system gives
\* up some time; a mutex that is free again and again is given to each who
\* waits for it.  No user need ever come or leave.
FairSpec ==
    /\ Spec
    /\ WF_vars(Create \/ CreateFails \/ Detach \/ Exit)
    /\ \A c \in Ids : WF_vars(ReadArgs(c)) /\ WF_vars(Connecting(c)) /\ SF_vars(Lock(c))

-----------------------------------------------------------------------------
(* Properties. *)

\* The variables have their types.
TypeOK ==
    /\ lpc \in {"socket", "accept", "create", "detach", "closing", "exit"}
    /\ listFd \in Seq(Ids)
    /\ thr \in [Ids -> {"none", "accepted", "refused", "new", "serve", "lock", "resolve",
                        "connect", "relay", "gone"}]
    /\ sock \in [Ids -> 0 .. Conns]
    /\ users \subseteq Ids /\ servers \subseteq Ids
    /\ mutexForServer \in 0 .. Conns
    /\ refused \subseteq Ids /\ broken \subseteq Ids
    /\ unpolled \subseteq Ids /\ stale \subseteq Ids
    /\ Cardinality(users) + Cardinality(servers) <= MaxFds

\* No two threads serve the same user (startServer, startingMethodForThread).
RightSock == \A c, d \in Ids : c # d /\ sock[c] # 0 => sock[c] # sock[d]

\* A thread reads its argument while the list holds it, until the server gives
\* up (startServer).
ArgsOutliveReaders == stale # {} => lpc \in {"closing", "exit"}

\* The mutex is held by who is resolving or connecting, and by nobody else:
\* each way out of connectToClient gives it back.
MutexWhileConnecting ==
    \A c \in Ids : mutexForServer = c <=> thr[c] \in {"resolve", "connect"}

\* An open descriptor has a thread, except where pthread_create, connect or
\* poll failed (startServer, connectToClient, startHandler), or the server is
\* giving up.
LeakOnlyByFailure ==
    lpc \notin {"closing", "exit"} =>
        /\ \A c \in users \ (refused \union unpolled) :
               thr[c] \in {"accepted", "new", "serve", "lock", "resolve", "connect", "relay"}
        /\ \A c \in servers \ (broken \union unpolled) : thr[c] \in {"connect", "relay"}

\* Everyone who waits for the mutex gets it, however long the others take to
\* connect, unless the server exits (connectToClient).
LockServed == \A c \in Ids : thr[c] = "lock" ~> (thr[c] # "lock" \/ ~Running)

\* A thread has the socket of its own connection once it has read its
\* argument, unless it came too late (startingMethodForThread).
OwnSock ==
    \A c \in Ids :
        /\ thr[c] \in {"none", "accepted", "refused", "new"} => sock[c] = 0
        /\ thr[c] \in {"serve", "lock", "resolve", "connect", "relay", "gone"} =>
               sock[c] = c \/ (sock[c] = 0 /\ c \in stale)

\* The argument of a thread that has yet to read it is in the list as long as
\* the loop runs, and the loop is never at work on another connection than
\* the newest (startServer).
ArgsListed ==
    /\ \A c \in Ids : thr[c] \in {"accepted", "new"} /\ lpc \notin {"closing", "exit"} =>
           \E k \in 1 .. Len(listFd) : listFd[k] = c
    /\ \A c \in Ids : thr[c] = "accepted" => lpc = "create" /\ c = Head(listFd)
    /\ lpc = "create" => listFd # <<>> /\ thr[Head(listFd)] = "accepted"

\* Each thread reads its own argument in time, the mutex goes with the
\* connecting, and no descriptor is lost: what holds between any two steps.
\* The conjunction is inductive (ServerProofs).
Inv ==
    /\ TypeOK
    /\ RightSock
    /\ ArgsOutliveReaders
    /\ MutexWhileConnecting
    /\ LeakOnlyByFailure
    /\ OwnSock
    /\ ArgsListed

=============================================================================
