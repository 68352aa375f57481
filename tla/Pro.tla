-------------------------------- MODULE Pro --------------------------------
(***************************************************************************)
(* proxy/pro.c: the first single-threaded proxy.  It never waits: a pass   *)
(* of its loop looks for a new user and then visits every client in turn,  *)
(* and a visit polls the user, then the user's http server, with timeout   *)
(* zero, and writes to the user without asking whether it takes anything.  *)
(*                                                                         *)
(* The arrays indexed by clientIndex are the record slot[c], c counted     *)
(* from 1.  A visit is three steps, "user", "load" and "send", and peers   *)
(* act between any two.  cacheProperty[EMPTY], which clients without a     *)
(* page use, is the variable result of main: it begins as 1, DOWNLOADING,  *)
(* and keeps what is written to it.                                        *)
(*                                                                         *)
(* Whatever one read returns is a request of its own, so that a request in *)
(* two pieces is two requests.  A page is a sequence of tokens <<title,    *)
(* n>>, the first one its heading; freeCache keeps its size, and a page    *)
(* whose title is NULL is NULL itself.                                     *)
(***************************************************************************)
EXTENDS Integers, SequencesExt

CONSTANTS
    MaxClients,   \* MAX_CLIENTS_AMOUNT
    CacheSize,    \* CACHE_SIZE
    BufferSize,   \* BUFFER_SIZE, in tokens
    Titles,       \* the requests users send
    RangeOf,      \* the number in the Range heading of each, EMPTY if none
    Length,       \* tokens of a response
    Conns,        \* bound: users that ever connect
    Connects,     \* bound: connections to http servers
    Again         \* bound: requests that are not the first of their user

EMPTY == -1
NoTitle == "NULL"
Old == "old"                  \* the title of a page nobody asks for any more

ASSUME ProAssumption ==
    /\ {MaxClients, CacheSize, BufferSize, Length, Conns, Connects}
          \subseteq Nat \ {0}
    /\ Again \in Nat
    /\ Titles \intersect {NoTitle, Old} = {}
    /\ RangeOf \in [Titles -> {EMPTY} \union (Nat \ {0})]

Slots == 1..MaxClients
Entries == 0..CacheSize - 1
Users == 1..Conns                        \* descriptors of users
Servers == Conns + 1..Conns + Connects   \* descriptors of http servers
Cleaning == MaxClients + 1

VARIABLES
    slot,          \* the arrays indexed by clientIndex
    number,        \* connectedClientsNumber
    cache,         \* title and page of each entry
    cacheProperty, \* EMPTY, DOWNLOADING, DOWNLOADED or CLEAN of each entry
    cacheIndex,
    cacheSize,
    at,            \* clientIndex of the loop, 0 to accept, Cleaning at its end
    stage,         \* how far the visit is
    fds,           \* the descriptors the process has open
    dead,          \* SIGPIPE killed the process
    user,          \* state, request and bytes received of each user
    server,        \* state, title and bytes sent and unread of each server
    refused,       \* history: accepts that failed
    again,         \* history: requests that were not the first of their user
    astray,        \* history: a server was left to a client that does not
                   \* download its page
    mixed,         \* history: entries which two downloads write to
    misled         \* history: users whose entry was given to another page

cacheVars == <<cache, cacheProperty, cacheIndex, cacheSize>>
peerVars == <<user, server>>
readVars == <<astray, mixed, misled>>
histVars == <<refused, again, readVars>>
procVars == <<slot, number, cacheVars, at, stage, fds, dead, refused, readVars>>
vars == <<procVars, peerVars, again>>

\* What handleClientDisconnecting leaves of a client: all but the descriptor
\* of its server.
Left(sl) == [sl EXCEPT !.fd = 0, !.length = EMPTY, !.ends = "EMPTY",
                       !.cached = EMPTY, !.sent = 0]

NoPage == [title |-> NoTitle, page |-> <<>>]

\* The cache is full but for one place, so that it starts over soon.
Init ==
    /\ slot = [c \in Slots |-> [fd |-> 0, http |-> 0, length |-> EMPTY,
                                ends |-> "EMPTY", cached |-> EMPTY, sent |-> EMPTY]]
    /\ number = 0
    /\ cache = [e \in Entries |-> IF e < CacheSize - 1
                                     THEN [title |-> Old, page |-> <<>>] ELSE NoPage]
    /\ cacheProperty = [e \in Entries \union {EMPTY} |->
                           CASE e = EMPTY -> "DOWNLOADING"
                             [] e = CacheSize - 1 -> "EMPTY"
                             [] OTHER -> "DOWNLOADED"]
    /\ cacheIndex = CacheSize - 1
    /\ cacheSize = CacheSize - 1
    /\ at = 0
    /\ stage = "user"
    /\ fds = {}
    /\ dead = FALSE
    /\ refused = 0
    /\ user = [u \in Users |-> [state |-> "away", ask |-> NoTitle,
                                unread |-> FALSE, got |-> <<>>]]
    /\ server = [s \in Servers |-> [state |-> "unused", title |-> NoTitle,
                                    said |-> 0, unread |-> 0]]
    /\ again = 0
    /\ astray = FALSE /\ mixed = {} /\ misled = {}

-----------------------------------------------------------------------------
(* The peers.  What one does is noticed only when its own socket is polled, *)
(* read or written, and changes nothing before: it is enough to let it act  *)
(* right before the steps that do.                                          *)

Polled(u, stages) ==
    /\ ~dead /\ stage \in stages
    /\ at \in Slots /\ slot[at].fd = u
    /\ user[u].state \in {"open", "still"}

UserConnects(u) ==
    /\ ~dead /\ at = 0
    /\ user[u].state = "away" /\ \A v \in Users : v < u => user[v].state # "away"
    /\ user' = [user EXCEPT ![u].state = "open"]
    /\ UNCHANGED <<procVars, server, again>>

UserAsks(u, title) ==
    /\ Polled(u, {"user"}) /\ ~user[u].unread
    /\ user[u].ask # NoTitle => again < Again
    /\ user' = [user EXCEPT ![u].ask = title, ![u].unread = TRUE]
    /\ again' = IF user[u].ask = NoTitle THEN again ELSE again + 1
    /\ UNCHANGED <<procVars, server>>

\* A user stops taking what it is sent, or takes it again.
UserStops(u) ==
    /\ Polled(u, {"send"})
    /\ user' = [user EXCEPT ![u].state = IF @ = "open" THEN "still" ELSE "open"]
    /\ UNCHANGED <<procVars, server, again>>

\* A user closes its connection; what it got is forgotten.
UserLeaves(u) ==
    /\ Polled(u, {"user"})
    /\ user' = [user EXCEPT ![u].state = "shut", ![u].got = <<>>]
    /\ UNCHANGED <<procVars, server, again>>

\* A user resets its connection, also between the poll and the write.
UserResets(u) ==
    /\ Polled(u, {"user", "send"})
    /\ user' = [user EXCEPT ![u].state = "reset", ![u].got = <<>>]
    /\ UNCHANGED <<procVars, server, again>>

Awaited(s) ==
    /\ ~dead /\ stage = "load" /\ slot[at].http = s /\ server[s].state = "open"

ServerSends(s) ==
    /\ Awaited(s) /\ server[s].said < Length
    /\ server' = [server EXCEPT ![s].said = @ + 1, ![s].unread = @ + 1]
    /\ UNCHANGED <<procVars, user, again>>

\* A server that closes sends nothing more, and that is all the proxy sees.
ServerResets(s) ==
    /\ Awaited(s)
    /\ server' = [server EXCEPT ![s].state = "reset"]
    /\ UNCHANGED <<procVars, user, again>>

Peers ==
    \/ \E u \in Users : \/ UserConnects(u) \/ UserStops(u)
                        \/ UserLeaves(u) \/ UserResets(u)
                        \/ \E t \in Titles : UserAsks(u, t)
    \/ \E s \in Servers : ServerSends(s) \/ ServerResets(s)

-----------------------------------------------------------------------------
(* tryAcceptNewClient *)

\* The loop goes on behind index k, past the clients that are EMPTY.
Goes(sl, k) ==
    /\ at' = Min({c \in k + 1..MaxClients : sl[c].fd # 0} \union {Cleaning})
    /\ stage' = "user"
    /\ slot' = sl

Queue == {u \in Users : user[u].state = "open" /\ u \notin fds}
Empty == {c \in Slots : slot[c].fd = 0}

\* poll on the listening socket reports somebody.
CanAccept == number < MaxClients /\ Queue # {}

Accepting == ~dead /\ at = 0

\* findFreeClientIndex does not ask whether it found one: past the last client
\* the descriptor is written behind the array, where nobody visits it.
Accepts ==
    /\ Accepting /\ CanAccept
    /\ fds' = fds \union {Min(Queue)}
    /\ number' = number + 1
    /\ Goes(IF Empty = {} THEN slot
                           ELSE [slot EXCEPT ![Min(Empty)].fd = Min(Queue)], 0)
    /\ UNCHANGED <<cacheVars, dead, peerVars, histVars>>

\* accept fails: the client stays EMPTY and is counted for ever.
AcceptFails ==
    /\ Accepting /\ CanAccept
    /\ number' = number + 1
    /\ refused' = refused + 1
    /\ Goes(slot, 0)
    /\ UNCHANGED <<cacheVars, fds, dead, again, readVars, peerVars>>

AcceptsNobody ==
    /\ Accepting /\ ~CanAccept
    /\ Goes(slot, 0)
    /\ UNCHANGED <<number, cacheVars, fds, dead, peerVars, histVars>>

-----------------------------------------------------------------------------
(* A visit, first part: the user. *)

Visit(c) == ~dead /\ at = c /\ stage = "user"

Loads(sl) == stage' = "load" /\ slot' = sl /\ UNCHANGED at

Gone == [state |-> "gone", ask |-> NoTitle, unread |-> FALSE, got |-> <<>>]

\* Nobody minds what becomes of a server that is closed or forgotten.
Forgotten(s) ==
    IF s = 0 THEN server
             ELSE [server EXCEPT ![s] = [state |-> "gone", title |-> NoTitle,
                                         said |-> 0, unread |-> 0]]

\* Mutant: whoever goes along with the owner is not counted.
Disconnects_CountsOne(C, c, sl) ==
    LET closed == {slot[d].fd : d \in C} IN
    /\ fds' = fds \ (closed \union ({slot[c].http} \ {sl[c].http}))
    /\ server' = Forgotten(IF sl[c].http = 0 THEN slot[c].http ELSE 0)
    /\ number' = number - 1
    /\ Goes([d \in Slots |-> IF d \in C THEN Left(sl[d]) ELSE sl[d]], c)
    /\ user' = [u \in Users |-> IF u \in closed THEN Gone ELSE user[u]]

\* handleClientDisconnecting of the clients C at the end of a visit of c, with
\* sl the slots after that visit.  C may hold clients that are EMPTY.
Disconnects(C, c, sl) ==
    LET closed == {slot[d].fd : d \in C} IN
    /\ fds' = fds \ (closed \union ({slot[c].http} \ {sl[c].http}))
    /\ server' = Forgotten(IF sl[c].http = 0 THEN slot[c].http ELSE 0)
    /\ number' = number - Cardinality(C)
    /\ Goes([d \in Slots |-> IF d \in C THEN Left(sl[d]) ELSE sl[d]], c)
    /\ user' = [u \in Users |-> IF u \in closed THEN Gone ELSE user[u]]

NothingToRead(c) ==
    /\ Visit(c) /\ ~user[slot[c].fd].unread
    /\ user[slot[c].fd].state \in {"open", "still"}
    /\ Loads(slot)
    /\ UNCHANGED <<number, cacheVars, fds, dead, peerVars, histVars>>

\* The first read after a reset fails, the next one finds the end.
ReadFails(c) ==
    /\ Visit(c) /\ ~user[slot[c].fd].unread /\ user[slot[c].fd].state = "reset"
    /\ Goes(slot, c)
    /\ user' = [user EXCEPT ![slot[c].fd].state = "shut"]
    /\ UNCHANGED <<number, cacheVars, fds, dead, server, histVars>>

ReadsEnd(c) == Visit(c) /\ ~user[slot[c].fd].unread /\ user[slot[c].fd].state = "shut"

\* isOwner, and its page is neither whole nor freed
LeavesDownload(c) ==
    slot[c].http # 0 /\ cacheProperty[slot[c].cached] \notin {"DOWNLOADED", "EMPTY"}

ClosesServer(c) == [slot EXCEPT ![c].http = 0]

\* The owner of a download leaves: its page is to be cleaned, and whoever reads
\* a page that is, goes too, without the server if it has one.
DropsDownload(c) ==
    /\ ReadsEnd(c) /\ LeavesDownload(c)
    /\ cacheProperty' = [cacheProperty EXCEPT ![slot[c].cached] = "CLEAN"]
    /\ LET C == {d \in Slots : d = c \/ cacheProperty'[slot[d].cached] = "CLEAN"}
       IN  /\ Disconnects(C, c, ClosesServer(c))
           /\ astray' = (astray \/ \E d \in C \ {c} : slot[d].http # 0)
    /\ UNCHANGED <<cache, cacheIndex, cacheSize, dead, refused, again, mixed, misled>>

Leaves(c) ==
    /\ ReadsEnd(c) /\ ~LeavesDownload(c)
    /\ Disconnects({c}, c, ClosesServer(c))
    /\ UNCHANGED <<cacheVars, dead, histVars>>

ReadsRequest(c) == Visit(c) /\ user[slot[c].fd].unread

\* What a user got before a request is forgotten.
Read(c) ==
    /\ user' = [user EXCEPT ![slot[c].fd].unread = FALSE, ![slot[c].fd].got = <<>>]
    /\ astray' = (astray \/ slot[c].http # 0)

Asked(c) == user[slot[c].fd].ask
With(title) == {e \in 0..cacheSize - 1 : cache[e].title = title}

\* parseURL leaves the number of the Range heading in clientsLengthMes.
Parsed(c) == IF RangeOf[Asked(c)] = EMPTY THEN slot[c].length ELSE RangeOf[Asked(c)]

\* Mutant: the reader waits for a server that it does not have.
Finds_Waits(c) ==
    /\ ReadsRequest(c) /\ With(Asked(c)) # {}
    /\ Loads([slot EXCEPT ![c].cached = Min(With(Asked(c))), ![c].sent = 0,
                          ![c].length = Parsed(c), ![c].ends = "WORKING"])
    /\ Read(c)
    /\ misled' = misled \ {slot[c].fd}
    /\ UNCHANGED <<number, cacheVars, fds, dead, refused, server, again, mixed>>

\* tryFindAtCache asks for the title alone, whatever the entry's property is.
\* The server of an earlier request stays where it is.
Finds(c) ==
    /\ ReadsRequest(c) /\ With(Asked(c)) # {}
    /\ Loads([slot EXCEPT ![c].cached = Min(With(Asked(c))), ![c].sent = 0,
                          ![c].length = Parsed(c), ![c].ends = "END_SOCKET_INPUT"])
    /\ Read(c)
    /\ misled' = misled \ {slot[c].fd}
    /\ UNCHANGED <<number, cacheVars, fds, dead, refused, server, again, mixed>>

Misses(c) == ReadsRequest(c) /\ With(Asked(c)) = {}

\* The entry of a new page, in the place of the oldest one once the cache is
\* full (:622-632).
NewEntry == IF cacheIndex = CacheSize THEN 0 ELSE cacheIndex

Allocates(title) ==
    /\ cache' = [cache EXCEPT ![NewEntry] = [title |-> title, page |-> <<>>]]
    /\ cacheProperty' = [cacheProperty EXCEPT ![NewEntry] = "DOWNLOADING"]
    /\ cacheIndex' = NewEntry + 1
    /\ cacheSize' = Min({cacheSize + 1, CacheSize})

\* Nobody looks whether the entry is still used: those who read it go on with
\* the new page where they are, and a download goes on writing to it.
Overtakes(c) ==
    LET users == {d \in Slots \ {c} : slot[d].cached = NewEntry}
    IN  /\ mixed' = IF \E d \in users : slot[d].http # 0
                       THEN mixed \union {NewEntry} ELSE mixed \ {NewEntry}
        /\ misled' = (misled \union {slot[d].fd : d \in users}) \ {slot[c].fd}

Unused == {s \in Servers : server[s].state = "unused"}

\* The user becomes the owner of a new download; a descriptor left from an
\* earlier one is overwritten.
Owns(c) ==
    /\ Misses(c) /\ Unused # {}
    /\ LET s == Min(Unused)
       IN  /\ server' = [Forgotten(slot[c].http) EXCEPT ![s].state = "open",
                                                     ![s].title = Asked(c)]
           /\ fds' = fds \union {s}
           /\ Loads([slot EXCEPT ![c].http = s, ![c].ends = "WORKING",
                                 ![c].length = Parsed(c),
                                 ![c].cached = NewEntry, ![c].sent = 0])
    /\ Allocates(Asked(c))
    /\ Overtakes(c)
    /\ Read(c)
    /\ UNCHANGED <<number, dead, refused, again>>

\* socketConnect returns EMPTY, which overwrites the descriptor as well.
ConnectFails(c) ==
    /\ Misses(c)
    /\ fds' = fds \ {slot[c].fd}
    /\ number' = number - 1
    /\ Goes([slot EXCEPT ![c] = [Left(@) EXCEPT !.http = 0]], c)
    /\ user' = [user EXCEPT ![slot[c].fd] = Gone]
    /\ server' = Forgotten(slot[c].http)
    /\ astray' = (astray \/ slot[c].http # 0)
    /\ UNCHANGED <<cacheVars, dead, refused, again, mixed, misled>>

\* connect is refused, which socketConnect does not see (its test is error <
\* -1), and writing the request raises SIGPIPE.
ConnectRefused(c) ==
    /\ Misses(c)
    /\ dead' = TRUE
    /\ UNCHANGED <<slot, number, cacheVars, at, stage, fds, peerVars, histVars>>

-----------------------------------------------------------------------------
(* A visit, second part: readToCache, once there is a server. *)

Load(c) == ~dead /\ at = c /\ stage = "load"

Sends(sl) == stage' = "send" /\ slot' = sl /\ UNCHANGED at

Taken(c) == Min({BufferSize, server[slot[c].http].unread})

Chunk(c) ==
    LET s == server[slot[c].http]
    IN  [i \in 1..Taken(c) |-> <<s.title, s.said - s.unread + i>>]

Grown(c) == cache[slot[c].cached].page \o Chunk(c)

\* The page ends with an empty line if nothing was said of its length, as the
\* heading does, else at that length.
EndsPage(c) ==
    IF slot[c].length = EMPTY THEN Last(Chunk(c))[2] = 1
                              ELSE slot[c].length = Len(Grown(c))

Downloaded(c) == [cacheProperty EXCEPT ![slot[c].cached] = "DOWNLOADED"]

ServerIs(c, state) == slot[c].http # 0 /\ server[slot[c].http].state = state

\* There is something to read and a page to read it into.
CanLoad(c) ==
    /\ ServerIs(c, "open") /\ server[slot[c].http].unread > 0
    /\ slot[c].cached # EMPTY /\ cache[slot[c].cached].title # NoTitle

\* Mutant: the server stays connected.
EndsInput_LeavesOpen(c) ==
    /\ Sends([slot EXCEPT ![c].ends = "END_SOCKET_INPUT"])
    /\ cacheProperty' = Downloaded(c)
    /\ IF server[slot[c].http].state = "open"
          THEN server' = [server EXCEPT ![slot[c].http].unread = @ - Taken(c)]
          ELSE server' = Forgotten(slot[c].http)
    /\ UNCHANGED fds

\* END_SOCKET_INPUT closes the server.
EndsInput(c) ==
    /\ Sends([slot EXCEPT ![c].http = 0, ![c].ends = "END_SOCKET_INPUT"])
    /\ fds' = fds \ {slot[c].http}
    /\ server' = Forgotten(slot[c].http)
    /\ cacheProperty' = Downloaded(c)

LoadsNothing(c) ==
    /\ Load(c) /\ ~CanLoad(c) /\ ~ServerIs(c, "reset")
    /\ Sends(IF slot[c].http = 0 THEN slot ELSE [slot EXCEPT ![c].ends = "WORKING"])
    /\ UNCHANGED <<number, cacheVars, fds, dead, peerVars, histVars>>

\* POLLHUP ends the page before what arrived with it is read.
ServerHangsUp(c) ==
    /\ Load(c) /\ ServerIs(c, "reset")
    /\ EndsInput(c)
    /\ UNCHANGED <<number, cache, cacheIndex, cacheSize, dead, user, histVars>>

LoadsPage(c) ==
    /\ Load(c) /\ CanLoad(c)
    /\ cache' = [cache EXCEPT ![slot[c].cached].page = Grown(c)]
    /\ IF EndsPage(c)
          THEN EndsInput(c)
          ELSE /\ Sends([slot EXCEPT ![c].ends = "WORKING"])
               /\ server' = [server EXCEPT ![slot[c].http].unread = @ - Taken(c)]
               /\ UNCHANGED <<fds, cacheProperty>>
    /\ UNCHANGED <<number, cacheIndex, cacheSize, dead, user, histVars>>

-----------------------------------------------------------------------------
(* A visit, third part: resendFromCache and the two tests behind it. *)

Send(c) == ~dead /\ at = c /\ stage = "send"

Entry(c) == cache[slot[c].cached]

\* What one write is given; the page of an entry that was freed is NULL, and
\* writing it fails.
Offered(c) ==
    IF slot[c].cached = EMPTY \/ Entry(c).title = NoTitle
       THEN <<>>
       ELSE SubSeq(Entry(c).page, slot[c].sent + 1,
                   Min({slot[c].sent + BufferSize, Len(Entry(c).page)}))

\* END_FILE, of a page that is whole, to a client that waits for no server
Finished(c) ==
    /\ slot[c].cached # EMPTY
    /\ slot[c].sent >= Len(Entry(c).page)
    /\ slot[c].ends = "END_SOCKET_INPUT"
    /\ cacheProperty[slot[c].cached] = "DOWNLOADED"

\* The page was freed.
Freed(c) == slot[c].cached # EMPTY /\ cacheProperty[slot[c].cached] = "EMPTY"

\* Nothing to write: the tests may let the client go.
SendsNothing(c) ==
    /\ Send(c) /\ Offered(c) = <<>>
    /\ IF Finished(c) \/ Freed(c)
          THEN Disconnects({c}, c, slot)
          ELSE Goes(slot, c) /\ UNCHANGED <<number, fds, peerVars>>
    /\ UNCHANGED <<cacheVars, dead, histVars>>

\* The socket blocks: a user who takes nothing stops the loop.  One who closed
\* takes the bytes and gets nothing.
SendsPage(c) ==
    LET u == slot[c].fd IN
    /\ Send(c) /\ Offered(c) # <<>> /\ user[u].state \in {"open", "shut"}
    /\ Goes([slot EXCEPT ![c].sent = @ + Len(Offered(c))], c)
    /\ user' = IF user[u].state = "open"
                  THEN [user EXCEPT ![u].got = @ \o Offered(c)] ELSE user
    /\ UNCHANGED <<number, cacheVars, fds, dead, server, histVars>>

\* The user was reset: the first write fails, or, if the user had closed
\* before, raises SIGPIPE.
SendFails(c) ==
    LET u == slot[c].fd IN
    /\ Send(c) /\ Offered(c) # <<>> /\ user[u].state = "reset"
    /\ \/ /\ Goes(slot, c)
          /\ user' = [user EXCEPT ![u].state = "shut"]
          /\ UNCHANGED dead
       \/ dead' = TRUE /\ UNCHANGED <<slot, at, stage, user>>
    /\ UNCHANGED <<number, cacheVars, fds, server, histVars>>

\* The pass ends: entries marked CLEAN are freed.  page_size keeps its value.
Cleans ==
    LET C == {e \in Entries : cacheProperty[e] = "CLEAN"} IN
    /\ ~dead /\ at = Cleaning
    /\ cache' = [e \in Entries |-> IF e \in C THEN [cache[e] EXCEPT !.title = NoTitle]
                                              ELSE cache[e]]
    /\ cacheProperty' = [e \in Entries \union {EMPTY} |->
                           IF e \in C THEN "EMPTY" ELSE cacheProperty[e]]
    /\ at' = 0
    /\ UNCHANGED <<slot, number, cacheIndex, cacheSize, stage, fds, dead, peerVars,
                   histVars>>

-----------------------------------------------------------------------------
Visits(c) ==
    \/ NothingToRead(c) \/ ReadFails(c) \/ DropsDownload(c) \/ Leaves(c)
    \/ Finds(c) \/ Owns(c) \/ ConnectFails(c) \/ ConnectRefused(c)
    \/ LoadsNothing(c) \/ ServerHangsUp(c) \/ LoadsPage(c)
    \/ SendsNothing(c) \/ SendsPage(c) \/ SendFails(c)

Loop ==
    \/ Accepts \/ AcceptFails \/ AcceptsNobody
    \/ \E c \in Slots : Visits(c)
    \/ Cleans

Next == Loop \/ Peers

Spec == Init /\ [][Next]_vars

\* The process runs.  Nothing is assumed of the peers.
FairSpec == Spec /\ WF_vars(Loop)

-----------------------------------------------------------------------------
(* Properties. *)

TypeOK ==
    /\ slot \in [Slots -> [fd : {0} \union Users, http : {0} \union Servers,
                           length : {EMPTY} \union Nat,
                           ends : {"EMPTY", "WORKING", "END_SOCKET_INPUT"},
                           cached : Entries \union {EMPTY},
                           sent : {EMPTY} \union Nat]]
    /\ at \in 0..Cleaning
    /\ stage \in {"user", "load", "send"}
    /\ fds \subseteq Users \union Servers
    /\ \A e \in Entries : cache[e].title \in Titles \union {NoTitle, Old}

Used == {c \in Slots : slot[c].fd # 0}

\* The counter which alone decides whether there is room is the number of
\* clients, and of accepts that failed, so that findFreeClientIndex finds
\* one; every user has a client and nobody's server is left open, unless one
\* went astray: its owner asked again during the download, or was disconnected
\* by another one who downloads to the same entry (:117-150, :152-170, :565-574).
CountIsExact ==
    ~astray => /\ number = Cardinality(Used) + refused
               /\ fds \intersect Users = {slot[c].fd : c \in Used}
               /\ fds \intersect Servers = {slot[c].http : c \in Slots} \ {0}
               /\ \A c \in Slots \ Used : slot[c].http = 0

\* A page holds the tokens of its own title from the first one on, in order and
\* no more than a response has, although its owner may read another's in between,
\* unless its entry was given to it during a download that still goes on.
PagesPure ==
    ~astray => \A e \in Entries \ mixed : cache[e].title \in Titles =>
        /\ Len(cache[e].page) <= Length
        /\ \A i \in DOMAIN cache[e].page : cache[e].page[i] = <<cache[e].title, i>>

\* A user has what its client sent of the page it asked for, until the entry is
\* given to another page under its hands (:622-632).
InOrder ==
    \A c \in Used :
        LET u == user[slot[c].fd] IN
        slot[c].cached # EMPTY /\ u.state \in {"open", "still"}
        /\ slot[c].fd \notin misled =>
              /\ u.got = SubSeq(Entry(c).page, 1, slot[c].sent)
              /\ u.unread \/ Entry(c).title \in {u.ask, NoTitle}

\* Whoever finds a page finds it whole, or with an owner who fills it, or
\* about to be freed in this pass, unless a server went astray: no page that is
\* never finished stays behind (:561-575, :683-691).
DownloadHasOwner ==
    ~astray => \A t \in Titles : \A e \in With(t) :
        \/ cacheProperty[e] = "DOWNLOADED"
        \/ cacheProperty[e] = "CLEAN" /\ at # 0
        \/ /\ cacheProperty[e] = "DOWNLOADING"
           /\ \E c \in Slots : slot[c].http # 0 /\ slot[c].cached = e

\* What holds between any two steps: the clients and their count, pages and
\* their owners, and what users have of them.
Inv == TypeOK /\ CountIsExact /\ PagesPure /\ InOrder /\ DownloadHasOwner

\* A page that some users already took for whole does not grow any more, but in
\* an entry that another download still writes to.
WholeStays ==
    [][~astray' => \A e \in Entries \ mixed :
         cacheProperty[e] = "DOWNLOADED" /\ cache[e].title = cache'[e].title
           => cache'[e].page = cache[e].page]_vars

\* The client waits for nothing but its own bytes.
Served(u) ==
    \E c \in Slots : /\ slot[c].fd = u /\ slot[c].http = 0 /\ slot[c].cached # EMPTY
                     /\ cacheProperty[slot[c].cached] \in {"DOWNLOADED", "EMPTY"}

SomeoneStill == \E u \in Users : user[u].state = "still"

\* Whoever reads a page that is whole, or was freed, is let go in the end
\* unless it asks for another or the entry is given to another page, but for one
\* user who takes nothing and stops all the others, or a server that went astray
\* (:457-485, :668-680).
LetGo ==
    \A u \in Users : Served(u) ~> (~Served(u) \/ dead \/ SomeoneStill \/ astray)

=============================================================================
