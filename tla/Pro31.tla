------------------------------- MODULE Pro31 -------------------------------
(***************************************************************************)
(* proxy/pro31.c: the single-threaded caching proxy lab32proxy grew out    *)
(* of.  One poll over a listening socket, MAX_CLIENTS_AMOUNT users and the *)
(* http server of each; the first user who asks for a page owns its        *)
(* download, the others read the page from the cache while it grows.       *)
(*                                                                         *)
(* fds[c], fds[c + MAX_CLIENTS_AMOUNT] and the five arrays indexed by c    *)
(* are the record slot[c].  A pass of the loop is one step per descriptor  *)
(* with revents; the peers act between any two.  The arrays have           *)
(* MAX_CLIENTS_AMOUNT elements and are indexed from 1: their last element  *)
(* lies in the padding behind the array and behaves as storage of its own. *)
(* cacheProperty[EMPTY], which is read and written for slots without a     *)
(* page, is some other cell of the stack: reading it gives anything, and   *)
(* writing it changes nothing that is used later.                          *)
(*                                                                         *)
(* A page is a sequence of tokens <<title, n>>, the first one its heading. *)
(* A user sends one request, in one piece.  The whole process stops when a *)
(* write raises SIGPIPE or free gets a bad pointer (dead).                 *)
(***************************************************************************)
EXTENDS Integers, SequencesExt

CONSTANTS
    MaxClients,   \* MAX_CLIENTS_AMOUNT
    CacheSize,    \* CACHE_SIZE
    BufferSize,   \* BUFFER_SIZE, in tokens
    Titles,       \* the GET requests users send
    Others,       \* requests the proxy does not serve: "https", "post"
    Ranges,       \* the numbers in their Range headings, EMPTY if none
    Length,       \* tokens of a response
    Conns         \* bound: users that ever connect

EMPTY == -1
NoTitle == "NULL"
Old == "old"                  \* the title of a page nobody asks for any more

ASSUME Pro31Assumption ==
    /\ {MaxClients, BufferSize, Length, Conns} \subseteq Nat \ {0}
    /\ CacheSize \in Nat /\ MaxClients < CacheSize
    /\ Others \subseteq {"https", "post"}
    /\ Titles \intersect ({NoTitle, Old} \union Others) = {}
    /\ Ranges \subseteq {EMPTY} \union (Nat \ {0})

Slots == 1..MaxClients
Entries == 0..CacheSize - 1
Users == 1..Conns                    \* descriptors of users
Servers == Conns + 1..2 * Conns      \* descriptors of http servers
Polling == 2 * MaxClients + 1

VARIABLES
    slot,          \* fds and the arrays indexed by a client
    cache,         \* title and page of each entry
    cacheProperty, \* EMPTY, DOWNLOADING, DOWNLOADED or CLEAN of each entry
    cacheIndex,
    cacheSize,
    at,            \* clientIndex of the loop, 0 to accept, Polling in poll
    accepted,      \* how many users have been accepted
    fds,           \* the descriptors the process has open
    dead,          \* what killed the process
    rangeOf,       \* the number in the Range heading of each request
    user,          \* state, request and bytes received of each user
    server,        \* state, title and bytes sent and unread of each server
    heirs,         \* history: users who were handed a download
    mixed,         \* history: entries which two downloads have written to
    misled         \* history: users whose entry was given to another page, or
                   \* is mixed

cacheVars == <<cache, cacheProperty, cacheIndex, cacheSize>>
peerVars == <<user, server, rangeOf>>
readVars == <<mixed, misled>>
procVars == <<slot, cacheVars, at, accepted, fds, dead, heirs, readVars>>
vars == <<procVars, peerVars>>

\* What handleClientDisconnecting leaves of a slot.  The server's descriptor
\* is forgotten, not closed.
FreeSlot == [fd |-> 0, events |-> {}, revents |-> {}, http |-> 0, hrevents |-> {},
             length |-> EMPTY, ends |-> "EMPTY", cached |-> EMPTY, sent |-> 0]

NoPage == [title |-> NoTitle, page |-> <<>>]

\* The cache is full but for one place, so that it starts over soon.
Init ==
    /\ slot = [c \in Slots |-> [FreeSlot EXCEPT !.sent = EMPTY]]
    /\ cache = [e \in Entries |-> IF e < CacheSize - 1
                                     THEN [title |-> Old, page |-> <<>>] ELSE NoPage]
    /\ cacheProperty = [e \in Entries |-> IF e < CacheSize - 1
                                             THEN "DOWNLOADED" ELSE "EMPTY"]
    /\ cacheIndex = CacheSize - 1
    /\ cacheSize = CacheSize - 1
    /\ at = Polling
    /\ accepted = 0
    /\ rangeOf \in [Titles -> Ranges]
    /\ fds = {}
    /\ dead = "no"
    /\ user = [u \in Users |-> [state |-> "away", ask |-> NoTitle,
                                unread |-> FALSE, got |-> <<>>]]
    /\ server = [s \in Servers |-> [state |-> "unused", title |-> NoTitle,
                                    said |-> 0, unread |-> 0]]
    /\ heirs = {}
    /\ mixed = {} /\ misled = {}

-----------------------------------------------------------------------------
(* The peers. *)

\* What arrives during a pass is seen in the next one, or by a read that would
\* see it as well had it come before the poll: it is enough to let it arrive
\* between passes.  A reset is different: it makes a read or a write fail that
\* was announced by the poll and is still to come.
Between == dead = "no" /\ at = Polling
Announced(ev) == dead = "no" /\ ev # {}

UserConnects(u) ==
    /\ Between /\ user[u].state = "away"
    /\ \A v \in Users : v < u => user[v].state # "away"
    /\ user' = [user EXCEPT ![u].state = "open"]
    /\ UNCHANGED <<procVars, server, rangeOf>>

\* Being connected but not accepted makes no difference to a user, and nobody
\* minds what it does once its connection is closed.
Accepted(u) == u \in fds

UserAsks(u, ask) ==
    /\ Between /\ Accepted(u) /\ user[u].state = "open" /\ user[u].ask = NoTitle
    /\ user' = [user EXCEPT ![u].ask = ask, ![u].unread = TRUE]
    /\ UNCHANGED <<procVars, server, rangeOf>>

\* What a user got is forgotten when it leaves.
UserLeaves(u) ==
    /\ Between /\ Accepted(u) /\ user[u].state = "open"
    /\ user' = [user EXCEPT ![u].state = "shut", ![u].got = <<>>]
    /\ UNCHANGED <<procVars, server, rangeOf>>

UserResets(u) ==
    /\ Between \/ \E c \in Slots : slot[c].fd = u /\ Announced(slot[c].revents)
    /\ Accepted(u) /\ user[u].state \in {"open", "shut"}
    /\ user' = [user EXCEPT ![u] = [state |-> "reset", ask |-> NoTitle,
                                    unread |-> FALSE, got |-> <<>>]]
    /\ UNCHANGED <<procVars, server, rangeOf>>

\* Nobody minds what a server does once it is closed or forgotten.
Awaited(s) == \E c \in Slots : slot[c].http = s

ServerSends(s) ==
    /\ Between /\ Awaited(s) /\ server[s].state = "open" /\ server[s].said < Length
    /\ server' = [server EXCEPT ![s].said = @ + 1, ![s].unread = @ + 1]
    /\ UNCHANGED <<procVars, user, rangeOf>>

ServerLeaves(s) ==
    /\ Between /\ Awaited(s) /\ server[s].state = "open"
    /\ server' = [server EXCEPT ![s].state = "shut"]
    /\ UNCHANGED <<procVars, user, rangeOf>>

ServerResets(s) ==
    /\ Between \/ \E c \in Slots : slot[c].http = s /\ Announced(slot[c].hrevents)
    /\ Awaited(s) /\ server[s].state \in {"open", "shut"}
    /\ server' = [server EXCEPT ![s].state = "reset", ![s].unread = 0]
    /\ UNCHANGED <<procVars, user, rangeOf>>

Peers ==
    \/ \E u \in Users : \/ UserConnects(u) \/ UserLeaves(u) \/ UserResets(u)
                        \/ \E a \in Titles \union Others : UserAsks(u, a)
    \/ \E s \in Servers : ServerSends(s) \/ ServerLeaves(s) \/ ServerResets(s)

-----------------------------------------------------------------------------
(* The loop. *)

Ready(sl, k) == IF k <= MaxClients THEN sl[k].revents # {}
                                   ELSE sl[k - MaxClients].hrevents # {}

\* The visit of index k ends: its revents are cleared and the loop goes on to
\* the next index that has some.
Goes(sl, k) ==
    LET rest == {j \in k + 1..2 * MaxClients : Ready(sl, j)}
    IN  /\ at' = Min(rest \union {Polling})
        /\ slot' = IF k \in Slots THEN [sl EXCEPT ![k].revents = {}]
                   ELSE IF k > MaxClients
                        THEN [sl EXCEPT ![k - MaxClients].hrevents = {}]
                        ELSE sl

Queue == {u \in Users : u > accepted /\ user[u].state # "away"}

UserEvents(c, writable) ==
    LET u == slot[c].fd
    IN  IF u \notin Users THEN {}
        ELSE IF user[u].state = "reset" THEN {"POLLHUP"}
        ELSE slot[c].events \intersect
                 ((IF user[u].unread \/ user[u].state = "shut"
                      THEN {"POLLIN"} ELSE {})
                  \union (IF writable THEN {"POLLOUT"} ELSE {}))

ServerEvents(c) ==
    LET s == slot[c].http
    IN  IF s = 0 THEN {}
        ELSE IF server[s].state = "reset" THEN {"POLLHUP"}
        ELSE IF server[s].unread > 0 \/ server[s].state = "shut" THEN {"POLLIN"}
        ELSE {}

Polled(W) ==
    [c \in Slots |-> [slot[c] EXCEPT !.revents = UserEvents(c, c \in W),
                                     !.hrevents = ServerEvents(c)]]

Writers == {c \in Slots : "POLLOUT" \in slot[c].events}

\* poll returns once something is ready; W are the slots whose users take
\* more bytes, of those that want to write.
Poll(W) ==
    /\ dead = "no" /\ at = Polling
    /\ IF Queue # {}
          THEN at' = 0 /\ slot' = Polled(W)
          ELSE /\ \E k \in 1..2 * MaxClients : Ready(Polled(W), k)
               /\ Goes(Polled(W), 0)
    /\ UNCHANGED <<cacheVars, accepted, fds, dead, peerVars, heirs, readVars>>

Empty == {c \in Slots : slot[c].fd = 0}

Accepts ==
    /\ dead = "no" /\ at = 0 /\ Empty # {}
    /\ accepted' = accepted + 1
    /\ fds' = fds \union {accepted'}
    /\ Goes([slot EXCEPT ![Min(Empty)].fd = accepted',
                         ![Min(Empty)].events = {"POLLIN"}], 0)
    /\ UNCHANGED <<cacheVars, dead, peerVars, heirs, readVars>>

\* A failed accept leaves -1 in the slot for ever.
AcceptFails ==
    /\ dead = "no" /\ at = 0 /\ Empty # {}
    /\ Goes([slot EXCEPT ![Min(Empty)].fd = -1,
                         ![Min(Empty)].events = {"POLLIN"}], 0)
    /\ UNCHANGED <<cacheVars, accepted, fds, dead, peerVars, heirs, readVars>>

AcceptsNobody ==
    /\ dead = "no" /\ at = 0 /\ Empty = {}
    /\ Goes(slot, 0)
    /\ UNCHANGED <<cacheVars, accepted, fds, dead, peerVars, heirs, readVars>>

\* What a server said is forgotten with it, and what a user asked, unless it
\* got something.
Without(s) == [server EXCEPT ![s].title = NoTitle, ![s].said = 0, ![s].unread = 0]

Closed(us, u) == IF us[u].got = <<>>
                    THEN [us EXCEPT ![u].ask = NoTitle, ![u].unread = FALSE] ELSE us

Forgets(c) == server' = IF slot[c].http = 0 THEN server ELSE Without(slot[c].http)

\* handleClientDisconnecting at the end of a visit of index k, with us the users
\* after that visit
Disconnects(c, k, us) ==
    /\ fds' = fds \ {slot[c].fd}
    /\ Goes([slot EXCEPT ![c] = FreeSlot], k)
    /\ Forgets(c)
    /\ user' = Closed(us, slot[c].fd)

\* Mutant: only the user is closed.
ClosesBoth_User(c, k) ==
    /\ fds' = fds \ {slot[c].fd}
    /\ Goes([slot EXCEPT ![c] = FreeSlot], k)
    /\ Forgets(c)
    /\ user' = Closed(user, slot[c].fd)

\* ... with the server closed before
ClosesBoth(c, k) ==
    /\ fds' = fds \ {slot[c].fd, slot[c].http}
    /\ Goes([slot EXCEPT ![c] = FreeSlot], k)
    /\ Forgets(c)
    /\ user' = Closed(user, slot[c].fd)

UserHangsUp(c) ==
    /\ dead = "no" /\ at = c /\ "POLLHUP" \in slot[c].revents
    /\ Disconnects(c, c, user)
    /\ UNCHANGED <<cacheVars, accepted, dead, rangeOf, heirs, readVars>>

-----------------------------------------------------------------------------
(* readFromClient *)

Reads(c) == /\ dead = "no" /\ at = c /\ "POLLIN" \in slot[c].revents

\* read returns -1: the connection was reset after the poll.
ReadFails(c) ==
    /\ Reads(c) /\ user[slot[c].fd].state = "reset"
    /\ Goes(slot, c)
    /\ UNCHANGED <<cacheVars, accepted, fds, dead, peerVars, heirs, readVars>>

ReadsEnd(c) ==
    /\ Reads(c) /\ user[slot[c].fd].state = "shut" /\ ~user[slot[c].fd].unread

\* Those who read the same page.
Clones(c) == {i \in Slots \ {c} : slot[i].cached = slot[c].cached}

\* The owner of a download leaves: the first of the others takes its place.
\* Descriptor and events change slots, the count of sent bytes does not, and
\* the property of the entry numbered like the slot is lost (:579-593).
HandsOver(c) ==
    /\ ReadsEnd(c) /\ slot[c].http # 0 /\ Clones(c) # {}
    /\ LET i == Min(Clones(c))
       IN  /\ Goes([slot EXCEPT ![c].fd = slot[i].fd, ![c].events = slot[i].events,
                                ![i] = FreeSlot], c)
           /\ cacheProperty' = [cacheProperty EXCEPT ![i] = "EMPTY"]
           /\ heirs' = heirs \union {slot[i].fd}
    /\ fds' = fds \ {slot[c].fd}
    /\ user' = Closed(user, slot[c].fd)
    /\ UNCHANGED <<cache, cacheIndex, cacheSize, accepted, dead, server, rangeOf,
                   readVars>>

\* Anybody else who leaves takes the server along, if there is one, and the
\* property of the page, whoever reads it (:595-606).
LeavesAlone(c) ==
    /\ ReadsEnd(c) /\ (slot[c].http = 0 \/ Clones(c) = {})
    /\ cache' = IF slot[c].http # 0 THEN [cache EXCEPT ![slot[c].cached] = NoPage]
                                    ELSE cache
    /\ cacheProperty' = [e \in Entries |-> IF e = slot[c].cached THEN "EMPTY"
                                                                ELSE cacheProperty[e]]
    /\ ClosesBoth(c, c)
    /\ UNCHANGED <<cacheIndex, cacheSize, accepted, dead, rangeOf, heirs, readVars>>

ReadsRequest(c) == Reads(c) /\ user[slot[c].fd].unread

Read(c) == [user EXCEPT ![slot[c].fd].unread = FALSE]

\* parseURL returns NULL for https, and the user stays; anything but GET is
\* disconnected.
Refuses(c) ==
    /\ ReadsRequest(c) /\ user[slot[c].fd].ask \in Others
    /\ IF user[slot[c].fd].ask = "https"
          THEN Goes(slot, c) /\ user' = Read(c) /\ UNCHANGED <<fds, server>>
          ELSE Disconnects(c, c, Read(c))
    /\ UNCHANGED <<cacheVars, accepted, dead, rangeOf, heirs, readVars>>

Asked(c) == user[slot[c].fd].ask
With(title) == {e \in 0..cacheSize - 1 : cache[e].title = title}

\* parseURL leaves the number of the Range heading in clientsLengthMes.
Parsed(c) == IF rangeOf[Asked(c)] = EMPTY THEN slot[c].length ELSE rangeOf[Asked(c)]

\* tryFindAtCache: the user reads what the cache has, and only that.
Finds(c) ==
    /\ ReadsRequest(c) /\ Asked(c) \in Titles /\ With(Asked(c)) # {}
    /\ Goes([slot EXCEPT ![c].cached = Min(With(Asked(c))), ![c].sent = 0,
                         ![c].length = Parsed(c), ![c].ends = "END_SOCKET_INPUT",
                         ![c].events = {"POLLOUT"}], c)
    /\ user' = Read(c)
    /\ misled' = IF Min(With(Asked(c))) \in mixed THEN misled \union {slot[c].fd} ELSE misled
    /\ UNCHANGED <<cacheVars, accepted, fds, dead, server, rangeOf, heirs, mixed>>

Misses(c) == ReadsRequest(c) /\ Asked(c) \in Titles /\ With(Asked(c)) = {}

\* The entry of a new page, in the place of the oldest one once the cache is
\* full (:694-718).
NewEntry == IF cacheIndex = CacheSize THEN 0 ELSE cacheIndex

Allocates(title) ==
    /\ cache' = [cache EXCEPT ![NewEntry] = [title |-> title, page |-> <<>>]]
    /\ cacheProperty' = [cacheProperty EXCEPT ![NewEntry] = "DOWNLOADING"]
    /\ cacheIndex' = NewEntry + 1
    /\ cacheSize' = Min({cacheSize + 1, CacheSize})

\* Nobody looks whether the entry is still used: those who read it go on with
\* the new page where they are, and a download goes on writing to it.
Overtakes(c) ==
    LET readers == {d \in Slots : slot[d].cached = NewEntry}
        written == \E d \in readers : slot[d].http # 0
    IN  /\ mixed' = IF written THEN mixed \union {NewEntry} ELSE mixed \ {NewEntry}
        /\ misled' = misled \union {slot[d].fd : d \in readers}
                            \union (IF written THEN {slot[c].fd} ELSE {})

\* The user becomes the owner of the download.
Owns(c) ==
    /\ Misses(c)
    /\ LET s == Conns + slot[c].fd
       IN  /\ server' = [server EXCEPT ![s].state = "open", ![s].title = Asked(c)]
           /\ fds' = fds \union {s}
           /\ Goes([slot EXCEPT ![c].http = s, ![c].ends = "WORKING",
                                ![c].length = Parsed(c),
                                ![c].cached = NewEntry, ![c].sent = 0], c)
    /\ Allocates(Asked(c))
    /\ Overtakes(c)
    /\ user' = Read(c)
    /\ UNCHANGED <<accepted, dead, rangeOf, heirs>>

\* The host cannot be resolved, or no socket made.
ConnectFails(c) ==
    /\ Misses(c)
    /\ Disconnects(c, c, Read(c))
    /\ UNCHANGED <<cacheVars, accepted, dead, rangeOf, heirs, readVars>>

\* connect fails, which socketConnect does not see (its test is error < -1),
\* and the write of the request raises SIGPIPE.
ConnectRefused(c) ==
    /\ Misses(c)
    /\ dead' = "pipe"
    /\ UNCHANGED <<slot, at, cacheVars, accepted, fds, peerVars, heirs, readVars>>

-----------------------------------------------------------------------------
(* The server's side: readToCache and what main does with its result. *)

Loads(c) == dead = "no" /\ at = c + MaxClients

Taken(c) == Min({BufferSize, server[slot[c].http].unread})

\* Mutant: what is read overwrites the page from its start.
Grown_Overwrites(c) ==
    [i \in 1..Taken(c) |-> <<server[slot[c].http].title,
          server[slot[c].http].said - server[slot[c].http].unread + i>>]

Grown(c) ==
    cache[slot[c].cached].page \o
        [i \in 1..Taken(c) |-> <<server[slot[c].http].title,
              server[slot[c].http].said - server[slot[c].http].unread + i>>]

\* The page ends here: with an empty line if nothing was said of its length,
\* as the heading does, else at that length.
EndsPage(c, page) ==
    IF slot[c].length = EMPTY THEN Last(page)[2] = 1
                              ELSE slot[c].length = Len(page)

\* Mutant: the page is not marked as whole.
Downloaded_Not(c) == cacheProperty

Downloaded(c) == [cacheProperty EXCEPT ![slot[c].cached] = "DOWNLOADED"]

ReadsPage(c) ==
    /\ Loads(c) /\ server[slot[c].http].unread > 0
    /\ cache' = [cache EXCEPT ![slot[c].cached].page = Grown(c)]

Continues(c) ==
    /\ ReadsPage(c) /\ ~EndsPage(c, Grown(c))
    /\ server' = [server EXCEPT ![slot[c].http].unread = @ - Taken(c)]
    /\ Goes([slot EXCEPT ![c].events = {"POLLIN", "POLLOUT"}, ![c].ends = "WORKING"],
            c + MaxClients)
    /\ UNCHANGED <<cacheProperty, cacheIndex, cacheSize, accepted, fds, dead,
                   user, rangeOf, heirs, readVars>>

\* END_SOCKET_INPUT: the owner goes on like the other readers.
EndsSocketInput(c) ==
    /\ ReadsPage(c) /\ EndsPage(c, Grown(c))
    /\ cacheProperty' = Downloaded(c)
    /\ Goes([slot EXCEPT ![c].events = {"POLLIN", "POLLOUT"}, ![c].http = 0,
                         ![c].ends = "END_SOCKET_INPUT"], c + MaxClients)
    /\ fds' = fds \ {slot[c].http}
    /\ Forgets(c)
    /\ UNCHANGED <<cacheIndex, cacheSize, accepted, dead, user, rangeOf, heirs, readVars>>

\* END_FILE: the owner is disconnected, whatever it has been sent so far.
EndsFile(c) ==
    /\ Loads(c) /\ server[slot[c].http].unread = 0
    /\ server[slot[c].http].state = "shut"
    /\ cacheProperty' = Downloaded(c)
    /\ ClosesBoth(c, c + MaxClients)
    /\ UNCHANGED <<cache, cacheIndex, cacheSize, accepted, dead, rangeOf, heirs, readVars>>

Unfinished(c) == cacheProperty[slot[c].cached] \notin {"DOWNLOADED", "EMPTY"}

\* Somebody else's page counts as CLEAN: the same page, or by chance what is
\* in front of cacheProperty for somebody without a page.
SurelyCleaned(c) == Clones(c) # {}
MaybeCleaned(c) == SurelyCleaned(c) \/ \E i \in Slots \ {c} : slot[i].cached = EMPTY

ServerFails(c) ==
    Loads(c) /\ (slot[c].hrevents = {"POLLHUP"} \/ server[slot[c].http].state = "reset")

DropsPage(c) ==
    /\ ServerFails(c) /\ ~(Unfinished(c) /\ SurelyCleaned(c))
    /\ IF Unfinished(c)
          THEN /\ cache' = [cache EXCEPT ![slot[c].cached] = NoPage]
               /\ cacheProperty' = [cacheProperty EXCEPT ![slot[c].cached] = "EMPTY"]
          ELSE UNCHANGED <<cache, cacheProperty>>
    /\ ClosesBoth(c, c + MaxClients)
    /\ UNCHANGED <<cacheIndex, cacheSize, accepted, dead, rangeOf, heirs, readVars>>

\* The owner is disconnected for each of the others, and the entry then freed
\* is cache[EMPTY] (:828-845).
FreesNothing(c) ==
    /\ ServerFails(c) /\ Unfinished(c) /\ MaybeCleaned(c)
    /\ dead' = "free"
    /\ UNCHANGED <<slot, at, cacheVars, accepted, fds, peerVars, heirs, readVars>>

-----------------------------------------------------------------------------
(* resendFromCache *)

Resends(c) ==
    /\ dead = "no" /\ at = c /\ slot[c].revents = {"POLLOUT"}
    /\ slot[c].cached # EMPTY

Page(c) == cache[slot[c].cached].page

\* What one write takes.
Written(c) == IF slot[c].sent < Len(Page(c))
                 THEN Min({BufferSize, Len(Page(c)) - slot[c].sent}) ELSE 0

\* Mutant: all there is, is all there will be.
Finished_Early(c, sent) == sent >= Len(Page(c)) /\ slot[c].ends = "END_SOCKET_INPUT"

\* END_FILE, on a page that is whole, to a reader without a server
Finished(c, sent) ==
    /\ sent >= Len(Page(c))
    /\ slot[c].ends = "END_SOCKET_INPUT"
    /\ cacheProperty[slot[c].cached] = "DOWNLOADED"

\* A user who left takes the bytes and gets nothing.
Sends(c) ==
    /\ Resends(c) /\ (Written(c) > 0 => user[slot[c].fd].state # "reset")
    /\ LET u == slot[c].fd
           sent == slot[c].sent + Written(c)
           us == IF user[u].state = "open"
                    THEN [user EXCEPT ![u].got = @ \o
                            SubSeq(Page(c), slot[c].sent + 1, sent)]
                    ELSE user
       IN  IF Finished(c, sent)
              THEN Disconnects(c, c, us)
              ELSE /\ Goes([slot EXCEPT ![c].sent = sent], c)
                   /\ user' = us
                   /\ UNCHANGED <<fds, server>>
    /\ UNCHANGED <<cacheVars, accepted, dead, rangeOf, heirs, readVars>>

\* The connection was reset after the poll.
SendFails(c) ==
    /\ Resends(c) /\ Written(c) > 0 /\ user[slot[c].fd].state = "reset"
    /\ \/ Goes(slot, c) /\ dead' = dead
       \/ dead' = "pipe" /\ UNCHANGED <<slot, at>>
    /\ UNCHANGED <<cacheVars, accepted, fds, peerVars, heirs, readVars>>

-----------------------------------------------------------------------------
Visits(c) ==
    \/ UserHangsUp(c) \/ ReadFails(c) \/ HandsOver(c) \/ LeavesAlone(c)
    \/ Refuses(c) \/ Finds(c) \/ Owns(c) \/ ConnectFails(c) \/ ConnectRefused(c)
    \/ Continues(c) \/ EndsSocketInput(c) \/ EndsFile(c)
    \/ DropsPage(c) \/ FreesNothing(c)
    \/ Sends(c) \/ SendFails(c)

Loop ==
    \/ \E W \in SUBSET Writers : Poll(W)
    \/ Accepts \/ AcceptFails \/ AcceptsNobody
    \/ \E c \in Slots : Visits(c)

Next == Loop \/ Peers

Spec == Init /\ [][Next]_vars

-----------------------------------------------------------------------------
(* Properties. *)

Held == {slot[c].fd : c \in Slots} \union {slot[c].http : c \in Slots}
Token == Titles \X (1..Length)

TypeOK ==
    /\ slot \in [Slots -> [fd : -1..Conns, events : SUBSET {"POLLIN", "POLLOUT"},
                           revents : SUBSET {"POLLIN", "POLLOUT", "POLLHUP"},
                           http : {0} \union Servers,
                           hrevents : SUBSET {"POLLIN", "POLLHUP"},
                           length : {EMPTY} \union Nat,
                           ends : {"EMPTY", "WORKING", "END_SOCKET_INPUT"},
                           cached : Entries \union {EMPTY},
                           sent : {EMPTY} \union Nat]]
    /\ cache \in [Entries -> [title : Titles \union {NoTitle, Old}, page : Seq(Token)]]
    /\ cacheProperty \in [Entries -> {"EMPTY", "DOWNLOADING", "DOWNLOADED"}]
    /\ cacheIndex \in 0..CacheSize /\ cacheSize \in 0..CacheSize
    /\ at \in 0..Polling
    /\ accepted \in 0..Conns
    /\ fds \subseteq Users \union Servers
    /\ dead \in {"no", "pipe", "free"}
    /\ rangeOf \in [Titles -> Ranges]
    /\ user \in [Users -> [state : {"away", "open", "shut", "reset"},
                           ask : Titles \union Others \union {NoTitle},
                           unread : BOOLEAN, got : Seq(Token)]]
    /\ server \in [Servers -> [state : {"unused", "open", "shut", "reset"},
                               title : Titles \union {NoTitle},
                               said : 0..Length, unread : 0..Length]]
    /\ heirs \subseteq Users
    /\ mixed \subseteq Entries /\ misled \subseteq Users

\* A user and a server are in one slot at most, every user who is connected
\* is in one, and a slot with a server has a user and a page: the visits of
\* both descriptors index what exists (:851-912).
SlotsApart ==
    /\ \A c, d \in Slots : c # d /\ slot[c].fd > 0 => slot[c].fd # slot[d].fd
    /\ \A c, d \in Slots : c # d /\ slot[c].http > 0 => slot[c].http # slot[d].http
    /\ fds \intersect Users = Held \intersect Users
    /\ \A c \in Slots : slot[c].http # 0 =>
          slot[c].fd \in Users /\ slot[c].cached # EMPTY /\ slot[c].http \in fds

\* A page is in the cache once (tryFindAtCache).
TitlesOnce == \A t \in Titles : Cardinality(With(t)) <= 1

\* No more servers are forgotten without being closed than users were closed
\* because they were reset (:812-818), or left a mixed page to another one who
\* downloads it, too, and loses its own server (:584-589): the only ways in
\* which handleClientDisconnecting meets an open one.
Forgotten == (fds \intersect Servers) \ Held
HungUp == {u \in Users \ fds :
             \/ user[u].state = "reset"
             \/ user[u].state = "shut" /\ u \in misled}
LeakOnlyByHangUp == Cardinality(Forgotten) <= Cardinality(HungUp)

\* The page somebody reads is not freed, whoever leaves first (freeCache at
\* :602 and :842), unless for another page that takes its place (:698-718).
ReadersHavePage ==
    dead = "no" => \A c \in Slots : slot[c].cached # EMPTY =>
        cache[slot[c].cached].title \in Titles

\* free gets a bad pointer only after a server was reset (:828-845, :890-907).
FreeOnlyAfterReset ==
    dead = "free" => \E s \in Servers : server[s].state = "reset"

\* A visit is made to a descriptor poll has announced, and what it announced of
\* a reset is true (main's loop).
Announcements ==
    /\ at = 0 => accepted < Conns
    /\ at \in Slots => slot[at].revents # {}
    /\ at \in MaxClients + 1..2 * MaxClients => slot[at - MaxClients].hrevents # {}
    /\ \A c \in Slots :
        /\ slot[c].revents # {} => slot[c].fd \in Users
        /\ slot[c].hrevents # {} => slot[c].http # 0
        /\ "POLLHUP" \in slot[c].revents => user[slot[c].fd].state = "reset"
        /\ "POLLHUP" \in slot[c].hrevents => server[slot[c].http].state = "reset"

\* Who has a server downloads a page, of which the cache has what was read
\* unless it is mixed, and is the user it was made for unless it inherited it.
Downloads ==
    \A c \in Slots : slot[c].http # 0 =>
        /\ slot[c].ends = "WORKING"
        /\ slot[c].http = Conns + slot[c].fd \/ slot[c].fd \in heirs
        /\ server[slot[c].http].title \in Titles
        /\ slot[c].cached \notin mixed =>
              /\ server[slot[c].http].title = cache[slot[c].cached].title
              /\ server[slot[c].http].state # "reset" =>
                    server[slot[c].http].said - server[slot[c].http].unread
                        = Len(cache[slot[c].cached].page)
              /\ cacheProperty[slot[c].cached] # "DOWNLOADED"
              /\ slot[c].sent <= Len(cache[slot[c].cached].page)
              /\ \A d \in Slots \ {c} : slot[d].http # 0 => slot[d].cached # slot[c].cached

\* A user whose request is still to come or to be read has no server, page or
\* token.
Waiting(u) ==
    \/ u \in fds /\ user[u].state \in {"away", "open"} /\ user[u].ask = NoTitle
    \/ user[u].unread \/ u > accepted
Requests ==
    \A u \in Users :
        /\ Waiting(u) =>
               /\ server[Conns + u].state = "unused" /\ user[u].got = <<>>
               /\ \A c \in Slots : slot[c].fd = u =>
                      slot[c].http = 0 /\ slot[c].cached = EMPTY
        /\ u > accepted => /\ u \notin fds /\ user[u].state \in {"away", "open"}
                           /\ user[u].ask = NoTitle /\ ~user[u].unread
        /\ user[u].unread =>
               u \in fds /\ user[u].ask # NoTitle /\ user[u].state \in {"open", "shut"}
        /\ user[u].state = "away" => user[u].ask = NoTitle
        /\ user[u].got # <<>> => user[u].state = "open" /\ user[u].ask \in Titles

\* A server nobody has asked says nothing, and nobody reads more than it says;
\* what is unread is lost with a reset.
Used == {s \in Servers : server[s].state # "unused"}
Speech ==
    \A s \in Servers :
        /\ s \notin Used => s \notin fds /\ server[s].said = 0
        /\ server[s].unread <= server[s].said
        /\ server[s].state = "reset" => server[s].unread = 0

\* The cache is full from the first download on.
Entered ==
    \/ cacheSize = CacheSize - 1 /\ cacheIndex = CacheSize - 1
       /\ \A e \in Entries : cache[e].title \notin Titles
    \/ cacheSize = CacheSize /\ cacheIndex \in 1..CacheSize

\* No two entries have one title, and an entry that is not mixed has the
\* tokens of its title from the first on.
Pages ==
    \A e \in Entries :
        /\ cache[e].title \notin Titles => cache[e].page = <<>>
        /\ e \notin mixed =>
              \A i \in DOMAIN cache[e].page : cache[e].page[i] = <<cache[e].title, i>>
        /\ \A f \in Entries \ {e} :
               cache[e].title \in Titles => cache[f].title # cache[e].title

\* Who reads a page has got as much of it as the count of sent bytes says.
Readers ==
    \A c \in Slots : slot[c].cached # EMPTY =>
        /\ slot[c].fd \in Users
        /\ cache[slot[c].cached].title \in Titles
        /\ slot[c].sent \in Nat
        /\ slot[c].cached \in mixed => slot[c].fd \in misled
        /\ user[slot[c].fd].state = "open" => user[slot[c].fd].ask \in Titles
        /\ slot[c].fd \notin misled =>
              /\ slot[c].sent <= Len(cache[slot[c].cached].page)
              /\ user[slot[c].fd].state = "open" =>
                    /\ user[slot[c].fd].ask = cache[slot[c].cached].title
                    /\ slot[c].fd \notin heirs => Len(user[slot[c].fd].got) = slot[c].sent

Core == Announcements /\ Downloads /\ Requests /\ Speech /\ Entered /\ Pages /\ Readers

\* What holds between any two steps of the loop: slots and descriptors match,
\* pages are unique and are not freed while they are read, servers are closed.
Inv ==
    /\ TypeOK /\ SlotsApart
    /\ TitlesOnce /\ ReadersHavePage
    /\ LeakOnlyByHangUp /\ FreeOnlyAfterReset /\ Core

\* A user gets the tokens of the page it asked for, each once and in order,
\* whatever happens to the owner, the slots and other entries meanwhile.  Two
\* kinds of users get others as well: those who inherited a download with
\* another's count of sent bytes (:584-589), and those whose entry was given to
\* another page while somebody used it, which the code does not look for once
\* the cache is full (:694-718).
InOrder ==
    \A u \in Users \ (heirs \union misled) : \A i \in DOMAIN user[u].got :
        user[u].got[i] = <<user[u].ask, i>>

LetGo(u) == u <= accepted /\ u \notin fds /\ user[u].state = "open"

\* A user who only read from the cache is let go with the whole page: what it
\* got is all there is, and nobody downloads more of it (:915-926).
ServedWhole ==
    [][\A u \in Users \ (heirs \union misled) :
         /\ LetGo(u)' /\ ~LetGo(u)
         /\ user'[u].got # <<>> /\ server[Conns + u].state = "unused"
         => \E e \in Entries :
               /\ cache'[e] = [title |-> user[u].ask, page |-> user'[u].got]
               /\ \A c \in Slots : slot'[c].cached = e => slot'[c].http = 0]_vars

\* Users stay until they are let go, and no server is reset.
Patient ==
    /\ \A u \in Users : user[u].state \in {"away", "open"}
    /\ \A s \in Servers : server[s].state # "reset"

\* While nobody leaves early, a page in the cache is being downloaded by a
\* user or whole: whoever finds it is served in the end (readToCache).
FoundIsServed ==
    Patient => \A t \in Titles : \A e \in With(t) :
        \/ cacheProperty[e] = "DOWNLOADED"
        \/ /\ cacheProperty[e] = "DOWNLOADING"
           /\ \E c \in Slots : slot[c].http # 0 /\ slot[c].cached = e

=============================================================================
