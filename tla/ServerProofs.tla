---------------------------- MODULE ServerProofs ----------------------------
(***************************************************************************)
(* The safety of the accepting loop and its threads for any number of      *)
(* users and any limit on descriptors: Inv of Server is inductive.         *)
(***************************************************************************)
EXTENDS Server, FiniteSetTheorems, SequenceTheorems, TLAPS

USE DEF Ids, Running, Goto, fdVars, historyVars

-----------------------------------------------------------------------------
(* Descriptors. *)

(* The sets of open descriptors are finite. *)
LEMMA Finite ==
    ASSUME NEW S, S \subseteq Ids
    PROVE  IsFiniteSet(S) /\ Cardinality(S) \in Nat
<1>1. IsFiniteSet(1 .. Conns)
  BY ServerAssumption, FS_Interval
<1>2. QED
  BY <1>1, FS_Subset, FS_CardinalityType

(* Opening one descriptor below the limit stays within it. *)
LEMMA OpenOne ==
    ASSUME NEW S, S \subseteq Ids, NEW T, T \subseteq Ids, NEW c,
           ~(Cardinality(S) + Cardinality(T) >= MaxFds)
    PROVE  /\ Cardinality(S \union {c}) + Cardinality(T) <= MaxFds
           /\ Cardinality(S) + Cardinality(T \union {c}) <= MaxFds
<1>1. /\ Cardinality(S) \in Nat /\ Cardinality(T) \in Nat
      /\ IsFiniteSet(S) /\ IsFiniteSet(T)
  BY Finite
<1>2. /\ Cardinality(S \union {c}) \in {Cardinality(S), Cardinality(S) + 1}
      /\ Cardinality(T \union {c}) \in {Cardinality(T), Cardinality(T) + 1}
  BY <1>1, FS_AddElement
<1>3. QED
  BY <1>1, <1>2, ServerAssumption

(* Closing one never exceeds it. *)
LEMMA CloseOne ==
    ASSUME NEW S, S \subseteq Ids, NEW T, T \subseteq Ids, NEW c,
           Cardinality(S) + Cardinality(T) <= MaxFds
    PROVE  /\ Cardinality(S \ {c}) + Cardinality(T) <= MaxFds
           /\ Cardinality(S) + Cardinality(T \ {c}) <= MaxFds
<1>1. /\ Cardinality(S) \in Nat /\ Cardinality(T) \in Nat
      /\ IsFiniteSet(S) /\ IsFiniteSet(T)
  BY Finite
<1>2. /\ Cardinality(S \ {c}) \in {Cardinality(S), Cardinality(S) - 1}
      /\ Cardinality(T \ {c}) \in {Cardinality(T), Cardinality(T) - 1}
  BY <1>1, FS_RemoveElement
<1>3. QED
  BY <1>1, <1>2, ServerAssumption

-----------------------------------------------------------------------------
(* Steps. *)

(* The newest argument is the head of the list, and the others are still there. *)
LEMMA PushFront ==
    ASSUME NEW c \in Ids, listFd \in Seq(Ids), listFd' = <<c>> \o listFd
    PROVE  /\ listFd' \in Seq(Ids) /\ listFd' # <<>> /\ Head(listFd') = c
           /\ \E k \in 1 .. Len(listFd') : listFd'[k] = c
           /\ \A d : (\E k \in 1 .. Len(listFd) : listFd[k] = d)
                        => \E k \in 1 .. Len(listFd') : listFd'[k] = d
<1>1. <<c>> \in Seq(Ids) /\ Len(<<c>>) = 1 /\ <<c>>[1] = c
  OBVIOUS
<1>2. /\ listFd' \in Seq(Ids) /\ Len(listFd') = 1 + Len(listFd)
      /\ \A i \in 1 .. 1 + Len(listFd) :
             listFd'[i] = IF i <= 1 THEN <<c>>[i] ELSE listFd[i - 1]
  BY <1>1, ConcatProperties
<1>3. Len(listFd) \in Nat
  BY LenProperties
<1>4. 1 \in 1 .. Len(listFd') /\ listFd'[1] = c
  BY <1>1, <1>2, <1>3
<1>5. ASSUME NEW d, NEW k \in 1 .. Len(listFd), listFd[k] = d
      PROVE  \E j \in 1 .. Len(listFd') : listFd'[j] = d
  <2>1. k + 1 \in 1 .. Len(listFd') /\ listFd'[k + 1] = listFd[k]
    BY <1>2, <1>3
  <2>2. QED
    BY <1>5, <2>1
<1>6. listFd' # <<>> /\ Head(listFd') = c
  BY <1>2, <1>3, <1>4
<1>7. QED
  BY <1>2, <1>4, <1>5, <1>6

(* The main thread's steps. *)
LEMMA LoopStep ==
    ASSUME Inv, Loop \/ AcceptFails \/ Exit
    PROVE  Inv'
<1> USE DEF TypeOK, RightSock, ArgsOutliveReaders, MutexWhileConnecting, LeakOnlyByFailure,
            OwnSock, ArgsListed
<1>1. CASE ConnectSocket
  BY <1>1 DEF Inv, ConnectSocket
<1>2. CASE Accept
  <2>1. PICK c \in Ids : /\ Accepted = 1 .. c - 1
                         /\ users' = users \union {c}
                         /\ listFd' = <<c>> \o listFd
                         /\ thr' = [thr EXCEPT ![c] = "accepted"]
    BY <1>2 DEF Accept
  <2>2. thr[c] = "none" /\ sock[c] = 0
    <3>1. c \notin 1 .. c - 1
      BY ServerAssumption
    <3>2. QED
      BY <2>1, <3>1 DEF Accepted, Inv
  <2>3. /\ listFd' \in Seq(Ids) /\ listFd' # <<>> /\ Head(listFd') = c
        /\ \E k \in 1 .. Len(listFd') : listFd'[k] = c
        /\ \A d : (\E k \in 1 .. Len(listFd) : listFd[k] = d)
                     => \E k \in 1 .. Len(listFd') : listFd'[k] = d
    BY <2>1, PushFront DEF Inv
  <2>4. Cardinality(users') + Cardinality(servers') <= MaxFds
    BY <1>2, <2>1, OpenOne DEF Inv, Accept, Full
  <2>5. TypeOK'
    BY <1>2, <2>1, <2>3, <2>4 DEF Inv, Accept
  <2>6. ArgsListed'
    BY <1>2, <2>1, <2>3 DEF Inv, Accept
  <2>7. RightSock' /\ ArgsOutliveReaders' /\ MutexWhileConnecting' /\ OwnSock'
    BY <1>2, <2>1, <2>2 DEF Inv, Accept
  <2>8. LeakOnlyByFailure'
    BY <1>2, <2>1, <2>2 DEF Inv, Accept
  <2>9. QED
    BY <2>5, <2>6, <2>7, <2>8 DEF Inv
<1>3. CASE AcceptFails
  BY <1>3 DEF Inv, AcceptFails
<1>4. CASE Exit
  BY <1>4 DEF Inv, Exit
<1>5. CASE Create
  <2>1. PICK c \in Ids : c = Head(listFd)
    BY HeadTailProperties, <1>5 DEF Inv, Create
  <2>2. thr[c] = "accepted" /\ thr' = [thr EXCEPT ![c] = "new"]
    BY <1>5, <2>1 DEF Inv, Create
  <2>3. QED
    BY <1>5, <2>2 DEF Inv, Create
<1>6. CASE CreateFails
  <2>1. PICK c \in Ids : c = Head(listFd)
    BY HeadTailProperties, <1>6 DEF Inv, CreateFails
  <2>2. /\ thr[c] = "accepted" /\ thr' = [thr EXCEPT ![c] = "refused"]
        /\ refused' = refused \union {c}
    BY <1>6, <2>1 DEF Inv, CreateFails
  <2>3. lpc = "create" /\ lpc' = "accept"
        /\ UNCHANGED <<listFd, sock, users, servers, mutexForServer, broken, unpolled,
                      stale>>
    BY <1>6 DEF CreateFails
  <2>4. TypeOK' /\ RightSock' /\ ArgsOutliveReaders' /\ MutexWhileConnecting' /\ OwnSock'
    BY <2>2, <2>3 DEF Inv
  <2>5. LeakOnlyByFailure'
    BY <2>2, <2>3 DEF Inv
  <2>6. ArgsListed'
    BY <2>1, <2>2, <2>3 DEF Inv
  <2>7. QED
    BY <2>4, <2>5, <2>6 DEF Inv
<1>7. CASE Detach
  BY <1>7 DEF Inv, Detach, AfterDetach
<1>8. QED
  BY <1>1, <1>2, <1>3, <1>4, <1>5, <1>6, <1>7 DEF Loop

(* The steps of a thread. *)
LEMMA ThreadStep ==
    ASSUME Inv, NEW c \in Ids, Thread(c)
    PROVE  Inv'
<1> USE DEF TypeOK, RightSock, ArgsOutliveReaders, MutexWhileConnecting, LeakOnlyByFailure,
            OwnSock, ArgsListed
<1>1. c # 0 /\ c \in 0 .. Conns
  BY ServerAssumption
<1>2. CASE ReadArgs(c)
  <2>1. CASE \E k \in 1 .. Len(listFd) : listFd[k] = c
    <3>1. /\ thr[c] = "new" /\ thr' = [thr EXCEPT ![c] = "serve"]
          /\ sock' = [sock EXCEPT ![c] = c]
          /\ UNCHANGED <<lpc, listFd, users, servers, mutexForServer, refused, broken,
                         unpolled, stale>>
      BY <1>2, <2>1 DEF ReadArgs, Argument
    <3>2. TypeOK'
      BY <1>1, <3>1 DEF Inv
    <3>3. RightSock' /\ OwnSock'
      BY <1>1, <3>1 DEF Inv
    <3>4. ArgsOutliveReaders' /\ MutexWhileConnecting' /\ LeakOnlyByFailure' /\ ArgsListed'
      BY <1>1, <3>1 DEF Inv
    <3>5. QED
      BY <3>2, <3>3, <3>4 DEF Inv
  <2>2. CASE ~ \E k \in 1 .. Len(listFd) : listFd[k] = c
    BY <1>1, <1>2, <2>2 DEF Inv, ReadArgs
  <2>3. QED
    BY <2>1, <2>2
<1>3. CASE WantsServer(c)
  BY <1>1, <1>3 DEF Inv, WantsServer
<1>4. CASE Lock(c)
  BY <1>1, <1>4 DEF Inv, Lock
<1>5. ASSUME thr[c] \in {"resolve", "connect"}, mutexForServer' = 0, Gives(c),
             UNCHANGED <<lpc, listFd, sock, servers, refused, unpolled, stale>>,
             \/ thr[c] = "resolve" /\ broken' = broken
             \/ broken' = broken \union {c}
      PROVE  Inv'
  <2>1. thr' = [thr EXCEPT ![c] = "gone"] /\ users' = users \ {sock[c]}
    BY <1>5 DEF Gives
  <2>2. Cardinality(users') + Cardinality(servers') <= MaxFds
    BY <1>5, <2>1, CloseOne DEF Inv
  <2>3. TypeOK'
    <3>1. thr' \in [Ids -> {"none", "accepted", "refused", "new", "serve", "lock", "resolve",
                            "connect", "relay", "gone"}]
      BY <2>1 DEF Inv
    <3>2. users' \subseteq Ids
      BY <2>1 DEF Inv
    <3>3. broken' \subseteq Ids
      BY <1>5 DEF Inv
    <3>4. mutexForServer' \in 0 .. Conns
      BY <1>5, ServerAssumption
    <3>5. QED
      BY <1>5, <2>2, <3>1, <3>2, <3>3, <3>4 DEF Inv
  <2>4. RightSock' /\ ArgsOutliveReaders' /\ MutexWhileConnecting' /\ OwnSock' /\ ArgsListed'
    BY <1>1, <1>5, <2>1 DEF Inv
  <2>5. LeakOnlyByFailure'
    BY <1>1, <1>5, <2>1 DEF Inv
  <2>6. QED
    BY <2>3, <2>4, <2>5 DEF Inv
<1>6. CASE ResolveFails(c)
  BY <1>5, <1>6 DEF ResolveFails
<1>7. CASE SocketFails(c)
  BY <1>5, <1>7 DEF SocketFails
<1>8. CASE ConnectFails(c)
  BY <1>5, <1>8 DEF ConnectFails, Released
<1>9. CASE Resolve(c)
  <2>1. Cardinality(users') + Cardinality(servers') <= MaxFds
    BY <1>9, OpenOne DEF Inv, Resolve, Full
  <2>2. QED
    BY <1>1, <1>9, <2>1 DEF Inv, Resolve
<1>10. CASE Connect(c)
  <2>1. /\ thr[c] = "connect" /\ thr' = [thr EXCEPT ![c] = "relay"]
        /\ mutexForServer' = 0
        /\ UNCHANGED <<lpc, listFd, sock, users, servers, refused, broken, unpolled,
                       stale>>
    BY <1>10 DEF Connect
  <2>2. TypeOK'
    BY <2>1, ServerAssumption DEF Inv
  <2>3. MutexWhileConnecting'
    BY <1>1, <2>1 DEF Inv
  <2>4. RightSock' /\ ArgsOutliveReaders' /\ LeakOnlyByFailure' /\ OwnSock' /\ ArgsListed'
    BY <2>1 DEF Inv
  <2>5. QED
    BY <2>2, <2>3, <2>4 DEF Inv
<1>11. CASE CloseUser(c)
  <2>1. Cardinality(users') + Cardinality(servers') <= MaxFds
    BY <1>11, CloseOne DEF Inv, CloseUser
  <2>2. QED
    BY <1>1, <1>11, <2>1 DEF Inv, CloseUser
<1>12. CASE CloseServer(c)
  <2>1. Cardinality(users') + Cardinality(servers') <= MaxFds
    BY <1>12, CloseOne DEF Inv, CloseServer
  <2>2. QED
    BY <1>1, <1>12, <2>1 DEF Inv, CloseServer
<1>13. CASE Ends(c)
  BY <1>1, <1>13 DEF Inv, Ends, Through
<1>14. CASE PollFails(c)
  BY <1>1, <1>14 DEF Inv, PollFails
<1>15. QED
  BY <1>2, <1>3, <1>4, <1>6, <1>7, <1>8, <1>9, <1>10, <1>11, <1>12, <1>13, <1>14
  DEF Thread, Connecting

-----------------------------------------------------------------------------
(* In every execution, for any number of users: a thread reads the argument *)
(* made for it, before it is freed unless the server is giving up; the      *)
(* mutex goes with connecting; and a descriptor is lost only where          *)
(* pthread_create, connect or poll has failed.                              *)
THEOREM InvHolds == Spec => []Inv
<1>1. Init => Inv
  <2> SUFFICES ASSUME Init PROVE Inv
    OBVIOUS
  <2>1. Cardinality(users) + Cardinality(servers) <= MaxFds
    BY FS_EmptySet, ServerAssumption DEF Init
  <2>2. TypeOK
    BY <2>1, ServerAssumption DEF Init, TypeOK
  <2>3. QED
    BY <2>2 DEF Init, Inv, RightSock, ArgsOutliveReaders, MutexWhileConnecting,
         LeakOnlyByFailure, OwnSock, ArgsListed
<1>2. Inv /\ UNCHANGED vars => Inv'
  BY DEF vars, Inv, TypeOK, RightSock, ArgsOutliveReaders, MutexWhileConnecting,
       LeakOnlyByFailure, OwnSock, ArgsListed
<1>3. Inv /\ [Next]_vars => Inv'
  BY <1>2, LoopStep, ThreadStep DEF Next
<1>4. QED
  BY <1>1, <1>3, PTL DEF Spec

=============================================================================
