------------------------------ MODULE Handler ------------------------------
(***************************************************************************)
(* One connection of lab32proxy: the thread which polls the user's socket  *)
(* and the http server's socket and relays between them through one shared *)
(* buffer (server/HandlerOneClientImpl.cpp, buffer/BufferImpl.cpp,         *)
(* client/ClientImpl.cpp).                                                 *)
(*                                                                         *)
(* A pass of handlingEvent visits the clients of the list in order; every  *)
(* visit is cut at the places where something else may happen: the reading *)
(* branch ("visit"), the connecting to the server ("connect"), the tests   *)
(* of the statuses and the writing branch ("status").  The peers send and  *)
(* close between any two of them, so the poll results a visit uses may be  *)
(* old.                                                                    *)
(*                                                                         *)
(* Bytes are tokens: a piece of a heading without its end, the rest of the *)
(* heading, body data, and "rend" and "rlast", bytes which end in "0\r\n"  *)
(* and the "\r\n" behind them.  They end a chunked body, but a body may    *)
(* hold them anywhere, and so may a heading whose last line ends in 0      *)
(* ("rhead0"): the code cannot tell.  A read takes any prefix of what      *)
(* arrived, a write any prefix of the buffer.  The cache is an oracle: both *)
(* lookups may say anything, and serving from the cache is module          *)
(* CashElement.  A connection carries one request; a server answers a      *)
(* whole one, with any heading and with or without a body.                 *)
(***************************************************************************)
EXTENDS Integers, SequencesExt

CONSTANTS
    Kinds,      \* the kinds of request a user may send: "get", "post", "bad"
    Replies,    \* what servers may answer: Content-Length, "200 OK", all tokens
    Posted,     \* body tokens of a POST, or of any request that is no GET
    NoLength,   \* no Content-Length
    Longest     \* bound: tokens of the longest response

ASSUME HandlerAssumption ==
    /\ Kinds \subseteq {"get", "post", "bad"}
    /\ NoLength \notin Nat
    /\ Posted \in Nat
    /\ Longest \in Nat
    /\ \A r \in Replies :
           /\ r.len \in Nat \union {NoLength} /\ r.ok \in BOOLEAN
           /\ r.said \in Seq({"rpart", "rhead", "rhead0", "rdata", "rend", "rlast"})
           /\ Len(r.said) \in 2 .. Longest
           /\ r.said[1] = "rpart" /\ r.said[2] \in {"rhead", "rhead0"}
           /\ \A i \in 3 .. Len(r.said) : r.said[i] \in {"rdata", "rend", "rlast"}
           /\ r.len # NoLength => Len(r.said) <= 2 + r.len

Clients == {"U", "S"}          \* TypeClient: USER, HTTP_SERVER
Other(c) == IF c = "U" THEN "S" ELSE "U"
In == "POLLIN"
Out == "POLLOUT"
RdHup == "POLLRDHUP"
All == {In, Out, RdHup}

VARIABLES
    \* the handler
    list,     \* _clientList
    pc,       \* where the thread is
    at,       \* the iterator of handlingEvent, "end" past the last client
    events,   \* _structPollFd.events of each client
    revents,  \* _structPollFd.revents of each client
    pair,     \* whether the user's _pair is the server, else NULL
    watched,  \* whether the server's _listHandlingEvent holds the user
    b,        \* the fields of the buffer
    freed,    \* history: how many times the buffer has been deleted
    elem,     \* what this thread did to its cache element
    \* the peers
    kind,     \* the kind of the user's request
    reply,    \* the server's response
    inbox,    \* bytes that arrived at each socket and are not read yet
    open,     \* whether each peer keeps its connection open
    sent,     \* history: all that each peer sent
    got       \* history: all that was written to each peer

linkVars == <<pair, watched>>
peerVars == <<inbox, open, sent, got>>
caseVars == <<kind, reply>>
threadVars == <<list, pc, at, events, revents, linkVars, b, freed, elem>>
vars == <<threadVars, caseVars, peerVars>>
bufferVars == <<b, freed, elem>>
otherVars == <<caseVars, peerVars>>

Fill(tok, n) == [i \in 1..n |-> tok]

\* What the user and the server say when they are done.
Request == <<"qpart", "qhead">>
           \o (IF kind = "post" THEN Fill("qbody", Posted) ELSE <<>>)
Response == reply.said

Init ==
    /\ list = <<"U">>
    /\ pc = "poll"
    /\ at = "end"
    /\ events = [c \in Clients |-> IF c = "U" THEN {In, RdHup} ELSE All]
    /\ revents = [c \in Clients |-> {}]
    /\ pair = FALSE
    /\ watched = FALSE
    /\ b = [statusClient |-> "WRITE_REQUEST_HEADING",
            statusServer |-> "READ_REQUEST",
            buf |-> <<>>, isClientConnect |-> TRUE, isServerConnect |-> FALSE,
            isReadyToSend |-> FALSE, isEndSend |-> FALSE,
            isReadyConnect |-> FALSE, lengthBody |-> 0, haveLength |-> FALSE,
            isAddDataToCash |-> FALSE, isDataGetCash |-> FALSE,
            error |-> FALSE]
    /\ freed = 0
    /\ elem = [data |-> <<>>, downloadEnd |-> FALSE, connected |-> FALSE,
               users |-> 0]
    /\ kind \in Kinds
    /\ reply \in Replies
    /\ inbox = [c \in Clients |-> <<>>]
    /\ open = [c \in Clients |-> TRUE]
    /\ sent = [c \in Clients |-> <<>>]
    /\ got = [c \in Clients |-> <<>>]

-----------------------------------------------------------------------------
(* The peers. *)

Says(c, tok) ==
    /\ inbox' = [inbox EXCEPT ![c] = Append(@, tok)]
    /\ sent' = [sent EXCEPT ![c] = Append(@, tok)]

UserSends ==
    /\ open["U"] /\ "U" \in Range(list)
    /\ Len(sent["U"]) < Len(Request)
    /\ Says("U", Request[Len(sent["U"]) + 1])
    /\ UNCHANGED <<threadVars, caseVars, open, got>>

\* A server answers a whole request.
ServerSends ==
    /\ open["S"] /\ "S" \in Range(list)
    /\ Len(got["S"]) >= Len(Request)
    /\ Len(sent["S"]) < Len(Response)
    /\ Says("S", Response[Len(sent["S"]) + 1])
    /\ UNCHANGED <<threadVars, caseVars, open, got>>

PeerCloses(c) ==
    /\ open[c] /\ c \in Range(list)
    /\ open' = [open EXCEPT ![c] = FALSE]
    /\ UNCHANGED <<threadVars, caseVars, inbox, sent, got>>

-----------------------------------------------------------------------------
(* The list and its iterator. *)

\* Where the iterator that is at c points to.
Place(l, c) == CHOOSE j \in 0..Len(l) : (IF j = 0 THEN "end" ELSE l[j]) = c

\* ++it of a std::list iterator; past the end it comes round to begin().
After(l, c) ==
    LET i == Place(l, c)
    IN  IF i = Len(l) THEN (IF c = "end" /\ l # <<>> THEN l[1] ELSE "end")
                      ELSE l[i + 1]

Without(l, c) == RemoveAt(l, Place(l, c))

\* The loop goes on with the client behind c.
Goes(c) == pc' = "visit" /\ at' = After(list, c)

\* The loop goes on after deleteClient(&it) and continue: it is already the
\* client behind c, and the loop increments it once more.
GoesAfterDelete(c) == pc' = "visit" /\ at' = After(list', After(list, c))

\* Mutant: the buffer goes on waiting for the response.
ServerLeft_Waits(bb) == [bb EXCEPT !.isServerConnect = FALSE]

\* deleteClientServer on a buffer
ServerLeft(bb) == [bb EXCEPT !.statusServer = "END_WORK",
                             !.isServerConnect = FALSE]

\* deleteClientUser on a buffer
UserLeft(bb) == [bb EXCEPT !.statusClient = "END_WORK",
                           !.isClientConnect = FALSE]

\* setPair(NULL) and setEvents on the users in the server's list
UnlinkUser ==
    /\ pair' = (pair /\ ~watched)
    /\ watched' = FALSE
    /\ events' = IF watched THEN [events EXCEPT !["U"] = All] ELSE events

\* Mutant: the element is not told that its server is gone.
ReleaseElement_Forgets == elem

\* The element's setIsServerConnect(false)
ReleaseElement ==
    IF b.isAddDataToCash THEN [elem EXCEPT !.connected = FALSE] ELSE elem

\* delete of the buffer unless the other client is still there
FreedUnless(other) == IF other THEN freed ELSE freed + 1

DeleteServer ==
    /\ list' = Without(list, "S")
    /\ UnlinkUser
    /\ elem' = ReleaseElement
    /\ b' = ServerLeft(b)
    /\ freed' = FreedUnless(b.isClientConnect)

\* A user which is still paired takes the server with it unless the server's
\* data goes to the cache.
TakesServer(bb) == pair /\ ~bb.isAddDataToCash

\* Mutant: the element is told that its server is gone when the user is.
DeleteUser_Releases(bb) ==
    /\ list' = IF TakesServer(bb) THEN <<>> ELSE Without(list, "U")
    /\ watched' = FALSE
    /\ elem' = IF bb.isDataGetCash THEN [elem EXCEPT !.users = @ - 1] ELSE ReleaseElement
    /\ b' = UserLeft(IF TakesServer(bb) THEN ServerLeft(bb) ELSE bb)
    /\ freed' = FreedUnless(b'.isServerConnect)
    /\ UNCHANGED <<pair, events>>

\* deleteClientUser and the erasing of the user; bb is the buffer as it is
\* then.
DeleteUser(bb) ==
    /\ list' = IF TakesServer(bb) THEN <<>> ELSE Without(list, "U")
    /\ watched' = FALSE
    /\ elem' = IF bb.isDataGetCash THEN [elem EXCEPT !.users = @ - 1] ELSE elem
    /\ b' = UserLeft(IF TakesServer(bb) THEN ServerLeft(bb) ELSE bb)
    /\ freed' = FreedUnless(b'.isServerConnect)
    /\ UNCHANGED <<pair, events>>

DeleteClient(c) == IF c = "U" THEN DeleteUser(b) ELSE DeleteServer

-----------------------------------------------------------------------------
(* startHandler *)

Ready(c) == (IF inbox[c] # <<>> \/ ~open[c] THEN {In} ELSE {})
            \union (IF open[c] THEN {} ELSE {RdHup})

\* poll answers, or times out when nothing is ready; a pass follows anyway.
\* Whether a socket can be written to is up to its peer.
Poll(writable) ==
    /\ pc = "poll" /\ list # <<>>
    /\ revents' = [c \in Clients |->
                     IF c \in Range(list)
                        THEN events[c] \intersect
                             (Ready(c) \union (IF c \in writable THEN {Out} ELSE {}))
                        ELSE {}]
    /\ pc' = "visit"
    /\ at' = list[1]
    /\ UNCHANGED <<list, events, linkVars, bufferVars, otherVars>>

PollFails ==
    /\ pc = "poll" /\ list # <<>>
    /\ pc' = "failed"
    /\ UNCHANGED <<list, at, events, revents, linkVars, bufferVars, otherVars>>

\* The pass is over; without clients the thread is over too.
EndPass ==
    /\ pc = "visit" /\ at = "end"
    /\ pc' = IF list = <<>> THEN "done" ELSE "poll"
    /\ UNCHANGED <<list, at, events, revents, linkVars, bufferVars, otherVars>>

\* handlingEvent returned 1: getFromCash, which may wait for ever for the
\* element (CashElement) and does not poll, then deleteClientUser(_client).
FromCash ==
    /\ pc = "cash"
    /\ DeleteUser(b)
    /\ pc' = "done"
    /\ UNCHANGED <<at, revents, otherVars>>

-----------------------------------------------------------------------------
(* A visit of handlingEvent, first part: hang-ups and reading. *)

HeadEnds == {"qhead", "rhead", "rhead0"}

\* findEndHeading: how many tokens the heading in s takes, 0 without an end.
HeadLength(s) ==
    IF \E i \in DOMAIN s : s[i] \in HeadEnds
       THEN CHOOSE i \in DOMAIN s :
              s[i] \in HeadEnds /\ \A j \in 1 .. i - 1 : s[j] \notin HeadEnds
       ELSE 0

\* parsingResponseHeading: anything but the server's "200 OK" is an error.
ParseResponse(head) ==
    IF {"rhead", "rhead0"} \intersect Range(head) # {} THEN [len |-> reply.len, ok |-> reply.ok]
                                                      ELSE [len |-> NoLength, ok |-> FALSE]

\* wrightRequestHeading on the appended buffer; hit is what the cache says.
RequestHeading(bb, hit) ==
    LET n == HeadLength(bb.buf)
        left == Posted - (Len(bb.buf) - n)
    IN  IF n = 0 THEN bb ELSE
        CASE kind = "bad" ->
               [bb EXCEPT !.buf = <<"incorrect heading">>, !.error = TRUE,
                          !.statusClient = "READ_RESPONSE",
                          !.isReadyToSend = TRUE, !.isEndSend = TRUE]
          [] kind # "bad" /\ hit ->
               [bb EXCEPT !.isDataGetCash = TRUE, !.buf = <<>>,
                          !.statusClient = "READ_RESPONSE"]
          [] kind = "get" /\ ~hit ->
               [bb EXCEPT !.isReadyConnect = TRUE,
                          !.isReadyToSend = TRUE, !.isEndSend = TRUE]
          [] kind = "post" /\ ~hit ->
               [bb EXCEPT !.isReadyConnect = TRUE, !.isReadyToSend = TRUE,
                          !.statusClient = "WRITE_REQUEST_BODY",
                          !.lengthBody = left,
                          !.isEndSend = @ \/ left <= 0]

\* wrightRequestBody
RequestBody(bb, data) ==
    [bb EXCEPT !.isReadyToSend = TRUE,
               !.lengthBody = @ - Len(data),
               !.isEndSend = @ \/ bb.lengthBody - Len(data) <= 0]

\* isCashingData and the second lookup; hit is what the cache says.
Caches(head, hit) ==
    LET r == ParseResponse(head)
    IN  r.ok /\ kind = "get" /\ r.len # NoLength /\ ~hit

\* findEndBody: the bytes of an end are somewhere in buf, ending a body or not.
EndInside(buf) ==
    \E i \in 1 .. Len(buf) :
        \/ buf[i] = "rhead0"
        \/ buf[i] = "rend" /\ i < Len(buf) /\ buf[i + 1] = "rlast"

\* Mutant: the end of the body is seen one byte too late.
BodyEnds_OffByOne(bb, haveLength, left) ==
    IF haveLength THEN left < 0 ELSE EndInside(bb.buf)

\* Whether the body is complete: by length, or findEndBody.
BodyEnds(bb, haveLength, left) ==
    IF haveLength THEN left <= 0 ELSE EndInside(bb.buf)

\* wrightResponseHeading
ResponseHeading(bb, hit) ==
    LET n == HeadLength(bb.buf)
        head == SubSeq(bb.buf, 1, n)
        r == ParseResponse(head)
        have == r.len # NoLength
        left == IF have THEN r.len - (Len(bb.buf) - n) ELSE bb.lengthBody
    IN  IF n = 0 THEN bb
        ELSE [bb EXCEPT !.isReadyToSend = TRUE,
                        !.statusServer = "WRITE_RESPONSE_BODY",
                        !.haveLength = have,
                        !.lengthBody = left,
                        !.isAddDataToCash = @ \/ Caches(head, hit),
                        !.isEndSend = @ \/ BodyEnds(bb, have, left)]

\* wrightResponseBody
ResponseBody(bb, data) ==
    LET left == IF bb.haveLength THEN bb.lengthBody - Len(data) ELSE bb.lengthBody
    IN  [bb EXCEPT !.isReadyToSend = TRUE,
                   !.lengthBody = left,
                   !.isEndSend = @ \/ BodyEnds(bb, bb.haveLength, left)]

\* Mutant: the buffer is cleared though the user is still there.
Appended_Clears(data) ==
    [b EXCEPT !.buf = IF b.statusServer = "WRITE_RESPONSE_BODY" THEN <<>> ELSE @ \o data]

\* The first lines of readFromSocket: once the user left, a body is only
\* passed on to the cache.
Appended(data) ==
    [b EXCEPT !.buf = IF ~b.isClientConnect /\ b.statusServer = "WRITE_RESPONSE_BODY"
                         THEN <<>> ELSE @ \o data]

\* The element's part of wrightResponseHeading and wrightResponseBody.
Cached(data) ==
    [elem EXCEPT !.data = @ \o data,
                 !.downloadEnd = b'.haveLength /\ b'.lengthBody <= 0]

\* readFromSocket: the statuses say what the bytes are, whoever sent them.
ReadFromSocket(data, hit) ==
    LET bb == Appended(data) IN
    \/ /\ b.statusClient = "WRITE_REQUEST_HEADING"
       /\ b' = RequestHeading(bb, hit)
       /\ elem' = IF b'.isDataGetCash THEN [elem EXCEPT !.users = @ + 1] ELSE elem
    \/ /\ b.statusClient = "WRITE_REQUEST_BODY"
       /\ b' = RequestBody(bb, data)
       /\ UNCHANGED elem
    \/ /\ b.statusClient \in {"READ_RESPONSE", "END_WORK"}
       /\ b.statusServer = "WRITE_RESPONSE_HEADING"
       /\ b' = ResponseHeading(bb, hit)
       /\ elem' = IF b'.isAddDataToCash /\ HeadLength(bb.buf) > 0
                     THEN [Cached(bb.buf) EXCEPT !.connected = TRUE] ELSE elem
    \/ /\ b.statusClient \in {"READ_RESPONSE", "END_WORK"}
       /\ b.statusServer = "WRITE_RESPONSE_BODY"
       /\ b' = ResponseBody(bb, data)
       /\ elem' = IF b.isAddDataToCash THEN Cached(data) ELSE elem
    \/ /\ b.statusClient \in {"READ_RESPONSE", "END_WORK"}
       /\ b.statusServer \in {"READ_REQUEST", "END_WORK"}
       /\ b' = bb
       /\ UNCHANGED elem

HangsUp(c) ==
    /\ pc = "visit" /\ at = c /\ RdHup \in revents[c]
    /\ DeleteClient(c)
    /\ GoesAfterDelete(c)
    /\ UNCHANGED <<revents, otherVars>>

\* Bytes of one side wake the other.  The heading that cannot be parsed
\* throws past this (:95), and nothing else happens to its user.
Reads(c) ==
    /\ pc = "visit" /\ at = c
    /\ RdHup \notin revents[c] /\ In \in revents[c]
    /\ revents' = [revents EXCEPT ![c] = {}]
    /\ \E n \in 1 .. Len(inbox[c]), hit \in BOOLEAN :
         /\ inbox' = [inbox EXCEPT ![c] = SubSeq(@, n + 1, Len(@))]
         /\ ReadFromSocket(SubSeq(inbox[c], 1, n), hit)
    /\ pc' = IF c = "U" /\ b'.statusClient = "READ_RESPONSE" /\ b'.isDataGetCash
                THEN "cash"
                ELSE IF b'.isReadyConnect THEN "connect" ELSE "status"
    /\ LET threw == b'.error /\ ~b.error
           wakes == (c = "S" /\ watched) \/ (c = "U" /\ pair)
       IN  events' = IF wakes /\ ~threw /\ pc' # "cash"
                        THEN [events EXCEPT ![Other(c)] = All] ELSE events
    /\ UNCHANGED <<list, at, linkVars, freed, caseVars, open, sent, got>>

\* readBuf fails on a connection its peer has reset since the poll.
ReadFails(c) ==
    /\ pc = "visit" /\ at = c
    /\ RdHup \notin revents[c] /\ In \in revents[c] /\ ~open[c]
    /\ revents' = [revents EXCEPT ![c] = {}]
    /\ Goes(c)
    /\ UNCHANGED <<list, events, linkVars, bufferVars, otherVars>>

\* Nothing to read: on to the statuses.
NothingToRead(c) ==
    /\ pc = "visit" /\ at = c /\ revents[c] \intersect {In, RdHup} = {}
    /\ pc' = "status"
    /\ UNCHANGED <<list, at, events, revents, linkVars, bufferVars, otherVars>>

\* setReadyConnectHttpServer(false), setIsServerConnect(true)
Connected == [b EXCEPT !.isReadyConnect = FALSE, !.isServerConnect = TRUE]

\* push_front
Joined == <<"S">> \o list

\* connectToClient succeeds: the server joins in front of the user.
Connects ==
    /\ pc = "connect"
    /\ list' = Joined
    /\ pair' = TRUE
    /\ watched' = TRUE
    /\ events' = [events EXCEPT !["S"] = All]
    /\ revents' = [revents EXCEPT !["S"] = {}]
    /\ b' = Connected
    /\ inbox' = [inbox EXCEPT !["S"] = <<>>]
    /\ open' = [open EXCEPT !["S"] = TRUE]
    /\ sent' = [sent EXCEPT !["S"] = <<>>]
    /\ got' = [got EXCEPT !["S"] = <<>>]
    /\ pc' = "status"
    /\ UNCHANGED <<at, freed, elem, caseVars>>

ConnectFails ==
    /\ pc = "connect"
    /\ list' = Without(list, "U")
    /\ b' = UserLeft([b EXCEPT !.isReadyConnect = FALSE])
    /\ freed' = freed + 1
    /\ pc' = "done"
    /\ UNCHANGED <<at, events, revents, linkVars, elem, caseVars, peerVars>>

-----------------------------------------------------------------------------
(* A visit, second part: the statuses, then writing. *)

\* The tests of :122-150: the client has nothing left to do.
Over(c) ==
    \/ c = "S" /\ b.statusClient = "END_WORK" /\ ~b.isAddDataToCash
    \/ c = "U" /\ b.statusClient = "END_WORK"
    \/ c = "S" /\ b.statusServer = "END_WORK"
    \/ c = "U" /\ b.statusServer = "END_WORK" /\ ~b.isReadyToSend
    \/ c = "S" /\ b.statusClient = "END_WORK" /\ b.isEndSend

EndsWork(c) ==
    /\ pc = "status" /\ at = c /\ Over(c)
    /\ DeleteClient(c)
    /\ GoesAfterDelete(c)
    /\ UNCHANGED <<revents, otherVars>>

\* Who takes what is in the buffer.
Takes(c) ==
    \/ c = "S" /\ b.statusServer = "READ_REQUEST"
    \/ c = "U" /\ b.statusClient = "READ_RESPONSE"

NothingToWrite(c) ==
    /\ pc = "status" /\ at = c /\ ~Over(c)
    /\ \/ Out \notin revents[c]
       \/ Out \in revents[c] /\ b.isReadyToSend /\ ~Takes(c)
    /\ revents' = [revents EXCEPT ![c] = IF Out \in @ THEN {} ELSE @]
    /\ Goes(c)
    /\ UNCHANGED <<list, events, linkVars, bufferVars, otherVars>>

\* setEvents(POLLRDHUP)
Quiet == {RdHup}

\* Writable, but there is nothing to send: poll for the hang-up alone.
StopsPolling(c) ==
    /\ pc = "status" /\ at = c /\ ~Over(c)
    /\ Out \in revents[c] /\ ~b.isReadyToSend
    /\ revents' = [revents EXCEPT ![c] = {}]
    /\ events' = [events EXCEPT ![c] = Quiet]
    /\ Goes(c)
    /\ UNCHANGED <<list, linkVars, bufferVars, otherVars>>

\* Mutant: the response is over once its end was read, sent or not.
ProofSend_EndsEarly(n) ==
    LET bb == [b EXCEPT !.buf = SubSeq(@, n + 1, Len(@))]
    IN  IF bb.isEndSend /\ bb.statusClient = "READ_RESPONSE" /\ ~bb.error
           THEN [bb EXCEPT !.statusClient = "END_WORK", !.statusServer = "END_WORK",
                           !.isReadyToSend = FALSE]
        ELSE IF bb.buf # <<>> THEN bb
        ELSE IF ~bb.isEndSend THEN [bb EXCEPT !.isReadyToSend = FALSE]
        ELSE IF bb.statusServer = "READ_REQUEST"
           THEN [bb EXCEPT !.statusClient = "READ_RESPONSE",
                           !.statusServer = "WRITE_RESPONSE_HEADING",
                           !.isEndSend = FALSE, !.isReadyToSend = FALSE]
        ELSE [bb EXCEPT !.isReadyToSend = FALSE]

\* proofSend after n tokens were taken from the buffer
ProofSend(n) ==
    LET bb == [b EXCEPT !.buf = SubSeq(@, n + 1, Len(@))]
    IN  IF bb.buf # <<>> THEN bb
        ELSE IF ~bb.isEndSend THEN [bb EXCEPT !.isReadyToSend = FALSE]
        ELSE IF bb.statusClient = "READ_RESPONSE" /\ bb.error
           THEN [bb EXCEPT !.statusClient = "END_WORK", !.isEndSend = FALSE]
        ELSE IF bb.statusServer = "READ_REQUEST"
           THEN [bb EXCEPT !.statusClient = "READ_RESPONSE",
                           !.statusServer = "WRITE_RESPONSE_HEADING",
                           !.isEndSend = FALSE, !.isReadyToSend = FALSE]
        ELSE IF bb.statusClient = "READ_RESPONSE"
           THEN [bb EXCEPT !.statusClient = "END_WORK",
                           !.statusServer = "END_WORK",
                           !.isReadyToSend = FALSE]
        ELSE [bb EXCEPT !.isReadyToSend = FALSE]

\* One round of sendBuf and proofSend: what goes out, and the buffer then.
\* Out of the cache come bytes of another connection's response, and how far
\* that response is nobody here knows.
Rounds ==
    IF b.isDataGetCash
       THEN {[out |-> <<>>, b |-> [b EXCEPT !.isReadyToSend = more,
                                            !.isEndSend = @ \/ ended,
                                            !.statusClient = IF ended THEN "END_WORK" ELSE @,
                                            !.error = @ \/ (gone /\ ~ended)]] :
               more, ended, gone \in BOOLEAN}
       ELSE {[out |-> SubSeq(b.buf, 1, n), b |-> ProofSend(n)] :
               n \in IF b.buf = <<>> THEN {0} ELSE 1 .. Len(b.buf)}

\* What the write did is not looked at: to a peer that left, all is lost.
Writes(c, round) ==
    /\ pc = "status" /\ at = c /\ ~Over(c)
    /\ Out \in revents[c] /\ b.isReadyToSend /\ Takes(c)
    /\ got' = IF open[c] THEN [got EXCEPT ![c] = @ \o round.out] ELSE got
    /\ revents' = [revents EXCEPT ![c] = {}]
    /\ UNCHANGED <<caseVars, inbox, open, sent>>

\* Part of the request is written, and when it was the last part, :163-171.
WritesRequest ==
    \E round \in Rounds :
      /\ Writes("S", round)
      /\ b' = round.b
      /\ events' = IF b'.statusServer = "WRITE_RESPONSE_HEADING" /\ ~b'.isReadyToSend
                      THEN [c \in Clients |-> IF c = "S" THEN {In, RdHup}
                                              ELSE IF watched THEN All ELSE events[c]]
                      ELSE events
      /\ Goes("S")
      /\ UNCHANGED <<list, linkVars, freed, elem>>

\* Part of the response is written; with the server gone and the buffer
\* empty the user is let go at once, :173-177.
WritesResponse ==
    \E round \in Rounds :
      /\ Writes("U", round)
      /\ IF round.b.statusServer = "END_WORK" /\ ~round.b.isReadyToSend
            THEN DeleteUser(round.b) /\ GoesAfterDelete("U")
            ELSE /\ b' = round.b
                 /\ Goes("U")
                 /\ UNCHANGED <<list, linkVars, events, freed, elem>>

\* isReadyToSend looks at the element again, and it has grown.
CacheGrows ==
    /\ b.isDataGetCash /\ ~b.isReadyToSend /\ list # <<>>
    /\ b' = [b EXCEPT !.isReadyToSend = TRUE]
    /\ UNCHANGED <<list, pc, at, events, revents, linkVars, freed, elem,
                   otherVars>>

-----------------------------------------------------------------------------
Handles(c) ==
    \/ HangsUp(c) \/ Reads(c) \/ ReadFails(c) \/ NothingToRead(c)
    \/ EndsWork(c) \/ NothingToWrite(c) \/ StopsPolling(c)

Thread ==
    \/ \E w \in SUBSET Clients : Poll(w)
    \/ EndPass
    \/ \E c \in Clients : Handles(c)
    \/ Connects \/ ConnectFails
    \/ WritesRequest \/ WritesResponse

Next ==
    \/ Thread
    \/ PollFails \/ FromCash \/ CacheGrows
    \/ UserSends \/ ServerSends
    \/ \E c \in Clients : PeerCloses(c)

Spec == Init /\ [][Next]_vars

\* The thread runs, and a peer that takes what it is sent makes its socket
\* writable again.  Nothing is assumed of what the peers send or of when
\* they close, nor that serving from the cache ends.
FairSpec == Spec /\ WF_vars(Thread) /\ SF_vars(Poll(Clients))

-----------------------------------------------------------------------------
(* Properties. *)

ClientStatuses == {"WRITE_REQUEST_HEADING", "WRITE_REQUEST_BODY", "READ_RESPONSE", "END_WORK"}
ServerStatuses == {"READ_REQUEST", "WRITE_RESPONSE_HEADING", "WRITE_RESPONSE_BODY", "END_WORK"}
Tokens == {"qpart", "qhead", "qbody", "rpart", "rhead", "rhead0", "rdata", "rend",
           "rlast", "incorrect heading"}

Buffers ==
    [statusClient : ClientStatuses, statusServer : ServerStatuses, buf : Seq(Tokens),
     isClientConnect : BOOLEAN, isServerConnect : BOOLEAN, isReadyToSend : BOOLEAN,
     isEndSend : BOOLEAN, isReadyConnect : BOOLEAN, lengthBody : Int, haveLength : BOOLEAN,
     isAddDataToCash : BOOLEAN, isDataGetCash : BOOLEAN, error : BOOLEAN]
Elements == [data : Seq(Tokens), downloadEnd : BOOLEAN, connected : BOOLEAN, users : Int]

\* The variables have their types; the list holds the server before the user,
\* and a pass that is under way holds a client of the list or is at its end
\* (HandlerOneClientImpl.h, BufferImpl.h).
TypeOK ==
    /\ list \in {<<"U">>, <<"S", "U">>, <<"S">>, <<>>}
    /\ pc \in {"poll", "visit", "status", "connect", "cash", "done", "failed"}
    /\ at \in Clients \union {"end"}
    /\ pc = "visit" => at \in Range(list) \union {"end"}
    /\ pc \in {"status", "connect", "cash"} => at \in Range(list)
    /\ pc = "done" => list = <<>>
    /\ events \in [Clients -> SUBSET All]
    /\ revents \in [Clients -> SUBSET All]
    /\ pair \in BOOLEAN /\ watched \in BOOLEAN
    /\ b \in Buffers /\ freed \in Nat /\ elem \in Elements
    /\ kind \in Kinds /\ reply \in Replies
    /\ inbox \in [Clients -> Seq(Tokens)] /\ open \in [Clients -> BOOLEAN]
    /\ sent \in [Clients -> Seq(Tokens)] /\ got \in [Clients -> Seq(Tokens)]

\* A listed user's pair is a listed server, and a listed server's user is a
\* listed user: no link outlives the client it leads to, whatever order they
\* are deleted in (:204-214, 234-238).
NoDanglingLink ==
    /\ pair /\ "U" \in Range(list) => "S" \in Range(list)
    /\ watched => list = <<"S", "U">> /\ pair

\* The buffer both clients share is deleted when the last of them goes, not
\* before and not twice, whichever goes first and whoever takes whom along
\* (deleteClientUser, deleteClientServer :201-251).
BufferLifetime == freed = IF list = <<>> THEN 1 ELSE 0

\* The poll set has room for two: the heading of one request, however it is
\* cut by reads, writes and failures, connects once (:46-56, :100-111).
OneServer == pc = "connect" => "S" \notin Range(list)

\* While everybody stays, no token is lost or misplaced:
\* what the receiver got, what the buffer holds and what is unread make up
\* what was sent, and the response phase starts only after the whole request
\* (BufferImpl.cpp:6-212).
NothingLost ==
    kind # "bad" /\ open["U"] /\ open["S"] /\ "U" \in Range(list)
      /\ ~b.isDataGetCash =>
        CASE b.statusServer = "READ_REQUEST" ->
               got["S"] \o b.buf \o inbox["U"] = sent["U"]
          [] b.statusServer \in {"WRITE_RESPONSE_HEADING", "WRITE_RESPONSE_BODY"} ->
               /\ got["S"] = Request
               /\ got["U"] \o b.buf \o inbox["S"] = sent["S"]
          [] OTHER -> TRUE

\* Whatever closes when, neither peer gets anything out of order or from a
\* wrong place.
InOrder ==
    IsPrefix(got["S"], sent["U"]) /\ IsPrefix(got["U"], sent["S"])

\* The first n tokens of the response are as much as the code asks for: all
\* of it when it has a length, else whatever holds the bytes of an end, in
\* the heading or the body, wherever the response really ends.
Enough(n) ==
    IF reply.len = NoLength THEN EndInside(SubSeq(Response, 1, n)) ELSE n = Len(Response)

\* When the thread ends although nobody closed, the user who got through to
\* the server has the whole response, or, of a response without a length, all
\* up to bytes that look like its end: those inside a body or at the end of a
\* heading cut the rest off (findEndBody, BufferImpl.cpp:103, 129).
CompleteUnlessClosed ==
    pc = "done" /\ open["U"] /\ open["S"] /\ got["S"] # <<>> => Enough(Len(got["U"]))

\* The thread goes on without its user only to fill the cache, not even for
\* the rest of a pass (:207-214).
AloneOnlyToFill ==
    "U" \notin Range(list) => list = <<>> \/ b.isAddDataToCash

\* What goes into the cache element is the response as the server sends it,
\* although the buffer is cleared once the user left; and an element marked
\* as downloaded holds all of it (BufferImpl.cpp:7-9, 76-100, 116-125).
CachedIsResponse ==
    /\ IsPrefix(elem.data, sent["S"])
    /\ elem.downloadEnd => elem.data = Response

\* The element as those who read it see it: a stream that CashStream knows.
Phase == IF elem.connected THEN "open" ELSE IF elem.data = <<>> THEN "unopened" ELSE "closed"
Stream == INSTANCE CashStream WITH
    Readers <- {}, MaxLength <- Longest, length <- Len(elem.data), phase <- Phase,
    sent <- <<>>, mode <- <<>>, left <- <<>>

\* This thread fills its element with the response and as CashStream says,
\* whoever of user and server leaves first: the heading opens the stream,
\* pieces are added behind each other while it is open, and once closed it
\* stays as it is; what the readers of CashElement rely on
\* (BufferImpl.cpp:76-125, HandlerOneClientImpl.cpp:207-243).
FillsAStream ==
    /\ []CachedIsResponse
    /\ [][ /\ IsPrefix(elem.data, elem'.data)
           /\ \/ Stream!Grow /\ Phase = "open"
              \/ Stream!Close
              \/ Phase = "unopened" /\ Phase' = "open" ]_<<elem.data, elem.connected>>

\* While the thread runs the element says that its server is there only if it
\* is, and counts the user that is served from it and no other.
ElementHeld ==
    /\ elem.connected => "S" \in Range(list) /\ b.isAddDataToCash
    /\ elem.users = IF b.isDataGetCash /\ "U" \in Range(list) THEN 1 ELSE 0

\* A thread that comes to its end has released those who wait on its element,
\* and is not counted there (:217-220, 239-242).  The other way out, a poll
\* that fails (:10-14), deletes nobody: pc is "failed", the element goes on
\* saying that its server is there, and they wait for ever.
ElementReleased == pc = "done" => ~elem.connected /\ elem.users = 0

Ended == pc \in {"done", "failed"}

\* A hang-up of the user is noticed, whatever the thread was waiting for: the
\* user goes, and with it the thread unless the cache is being filled.  Only
\* the thread that serves from the cache does not look (getFromCash).
UserHangUpNoticed == ~open["U"] ~> (Ended \/ pc = "cash" \/ "U" \notin Range(list))

\* The user has been left alone with a request that can no longer be sent,
\* and is not waiting for an answer: whenever it can be written to, the loop
\* turns and does nothing (:151-157).
Stranded ==
    /\ list = <<"U">> /\ b.statusServer = "END_WORK"
    /\ b.isReadyToSend /\ b.statusClient # "READ_RESPONSE"

\* A hang-up of the server ends the thread, with the response delivered as far
\* as it was read or with the user let go, unless it came before the request
\* was sent and strands the user (deleteClientServer, :122-150 and :173-177).
ServerHangUpEnds == ~open["S"] ~> (Ended \/ Stranded)

\* A peer that goes away is noticed; the two exceptions are named above: the
\* user who is served from the cache, and the server that goes too early.
HangUpsEnd == UserHangUpNoticed /\ ServerHangUpEnds

\* A server that goes away ends the thread (README.md:4 and 6 of lab32proxy:
\* hang-ups of client and server are dealt with, and there is no idle loop).
ServerGoneEnds == ~open["S"] ~> Ended

\* The response says where it ends, in the way the code looks for: a body of
\* its Content-Length, or the end of a chunked body.  A 204, a 304 or the
\* answer to a HEAD does not.
SaysItsEnd ==
    IF reply.len = NoLength
       THEN IsSuffix(<<"rend", "rlast">>, Response)
       ELSE Len(Response) = 2 + reply.len

\* The end of a chunked body was cut in two: all but its last piece went to
\* the user before that was read, so that findEndBody never saw it whole.
EndMissed ==
    reply.len = NoLength /\ Len(got["U"]) = Len(Response) - 1 /\ ~b.isEndSend

\* A response which says where it ends, and arrived whole from a server which
\* stays, ends the thread, however it is cut by reads and writes; the one
\* exception is a chunked end cut in two with a write in between, which the
\* thread cannot see (findEndBody at BufferImpl.cpp:129 looks at what is not
\* sent yet).
AnsweredEnds ==
    \/ <>EndMissed
    \/ (sent["S"] = Response /\ SaysItsEnd /\ open["S"] /\ "S" \in Range(list))
          ~> (Ended \/ ~open["S"])

-----------------------------------------------------------------------------
(* What holds the above together between any two steps. *)

Listed(c) == c \in Range(list)

\* What the buffer and the clients say of who is there is what the list says:
\* the flags, the end of the user's work, the links of two listed clients
\* (deleteClientUser, deleteClientServer :201-251, :104-111).
Presence ==
    /\ b.isClientConnect <=> Listed("U")
    /\ b.isServerConnect <=> Listed("S")
    /\ b.statusClient = "END_WORK" <=> ~Listed("U")
    /\ list = <<"S", "U">> => pair /\ watched
    /\ list = <<"U">> => ~pair

\* How many of its tokens the thread has read of what c says.
Speech(c) == IF c = "U" THEN Request ELSE Response
Read(c) == Len(sent[c]) - Len(inbox[c])

\* Where the thread is, and what the buffer makes of it: connecting and
\* serving from the cache happen to a user who is alone, has sent a heading
\* and is not answered yet (:88-111, startHandler).
Positions ==
    /\ pc = "connect" <=> b.isReadyConnect
    /\ pc = "connect" =>
           /\ list = <<"U">> /\ b.statusServer = "READ_REQUEST"
           /\ b.statusClient \in {"WRITE_REQUEST_HEADING", "WRITE_REQUEST_BODY"}
           /\ Read("U") >= 2 /\ Len(b.buf) = Read("U")
    /\ b.isDataGetCash => pc \in {"cash", "done"}
    /\ pc = "cash" => list = <<"U">> /\ b.isDataGetCash /\ got["S"] = <<>>

\* A client is only deleted for a hang-up that happened, and a heading that
\* cannot be parsed leaves its user alone and unanswered (:62, :95).
HangUpsHappened ==
    /\ \A c \in Clients : RdHup \in revents[c] => ~open[c]
    /\ b.error => kind = "bad"
    /\ kind = "bad" => ~Listed("S") /\ Out \notin events["U"] /\ Out \notin revents["U"]

\* s is a piece of r, the one behind its first n tokens.
Piece(s, r, n) == n + Len(s) <= Len(r) /\ \A i \in 1 .. Len(s) : s[i] = r[n + i]

\* What was sent, what waits to be read and what the other side got are
\* pieces of the same request or response.
Spoken ==
    \A c \in Clients :
        /\ Piece(sent[c], Speech(c), 0)
        /\ Len(inbox[c]) <= Len(sent[c]) /\ Piece(inbox[c], Speech(c), Read(c))
        /\ Len(got[Other(c)]) <= Read(c) /\ Piece(got[Other(c)], Speech(c), 0)

\* The buffer holds what was read last from c, and what the other side has
\* got is what was read before that, unless it went away.
Between(c) ==
    /\ Len(b.buf) <= Read(c) /\ Piece(b.buf, Speech(c), Read(c) - Len(b.buf))
    /\ Len(got[Other(c)]) <= Read(c) - Len(b.buf)
    /\ open[Other(c)] => Len(got[Other(c)]) = Read(c) - Len(b.buf)

\* The request phase: nothing has come back, the buffer is between the user
\* and the server, and the end of the request is known when it has been read.
RequestFlow ==
    b.statusServer = "READ_REQUEST" =>
        /\ sent["S"] = <<>>
        /\ ~b.isAddDataToCash
        /\ kind # "bad" /\ ~b.isDataGetCash =>
               /\ Between("U")
               /\ b.isEndSend <=> Read("U") = Len(Request)
               /\ b.isEndSend => b.buf # <<>>
               /\ b.statusClient # "READ_RESPONSE"

\* How far the request is: its heading waits in the buffer until it is whole,
\* a GET keeps its status when it has been read, and nothing follows a whole
\* request (wrightRequestHeading, wrightRequestBody).
HeadingFlow ==
    /\ b.statusClient = "WRITE_REQUEST_HEADING" =>
           \/ /\ Read("U") <= 1 /\ Len(b.buf) = Read("U") /\ Piece(b.buf, Request, 0)
              /\ list = <<"U">> /\ b.statusServer = "READ_REQUEST" /\ got["S"] = <<>>
           \/ Read("U") = Len(Request) /\ kind = "get"
    /\ b.statusClient = "WRITE_REQUEST_BODY" =>
           kind = "post" /\ Read("U") >= 2 /\ b.lengthBody = Len(Request) - Read("U")
    /\ b.statusClient = "READ_RESPONSE" => Read("U") = Len(Request) \/ b.isDataGetCash
    /\ Listed("S") => Read("U") >= 2

\* The response phase: the request has been read and passed on, the buffer is
\* between the server and the user, and its end is seen when it is there.
ResponseFlow ==
    /\ b.statusServer \in {"WRITE_RESPONSE_HEADING", "WRITE_RESPONSE_BODY"} =>
           /\ Read("U") = Len(Request) /\ kind # "bad" /\ Listed("S")
           /\ b.statusClient \in {"READ_RESPONSE", "END_WORK"}
           /\ open["S"] => Len(got["S"]) = Len(Request)
    /\ b.statusServer # "READ_REQUEST" /\ b.statusClient = "READ_RESPONSE" =>
           /\ Between("S")
           /\ b.isEndSend => Enough(Read("S"))
    /\ b.statusServer = "WRITE_RESPONSE_HEADING" =>
           /\ list = <<"S", "U">> /\ ~b.isReadyToSend /\ ~b.isEndSend
           /\ Len(b.buf) = Read("S") /\ Read("S") <= 1 /\ ~b.isAddDataToCash
    /\ b.statusServer = "WRITE_RESPONSE_BODY" =>
           /\ Read("S") >= 2
           /\ b.haveLength <=> reply.len # NoLength
           /\ b.haveLength => b.lengthBody = 2 + reply.len - Read("S")
    /\ Listed("S") /\ b.statusServer = "END_WORK" => Read("S") = Len(Response)

\* Where everything ends: a user who is left alone by its server's going was
\* hung up on, and one who was let go while both stayed has enough.
Endings ==
    /\ Listed("U") /\ b.statusServer = "END_WORK" => ~open["S"] /\ ~Listed("S")
    /\ ~Listed("U") /\ open["U"] /\ open["S"] /\ got["S"] # <<>> =>
           Enough(Len(got["U"]))

\* The element holds what was read of the response while it is filled.
Filling ==
    /\ Piece(elem.data, Response, 0) /\ Len(elem.data) <= Read("S")
    /\ b.isAddDataToCash /\ Listed("S") => elem.connected
    /\ ~b.isAddDataToCash => elem.data = <<>> /\ ~elem.downloadEnd
    /\ elem.connected => elem.data # <<>>
    /\ elem.downloadEnd => Len(elem.data) = Len(Response)
    /\ b.isAddDataToCash /\ b.statusServer = "WRITE_RESPONSE_BODY" =>
           Len(elem.data) = Read("S") /\ b.haveLength

\* Types, links and lifetimes, a thread that is alone only to fill the cache
\* and gives its element back, and order: what holds between any two steps
\* (HandlerOneClientImpl.cpp:59-251, BufferImpl.cpp:6-212).
Inv ==
    /\ TypeOK
    /\ NoDanglingLink
    /\ BufferLifetime
    /\ OneServer
    /\ AloneOnlyToFill
    /\ ElementHeld
    /\ ElementReleased
    /\ InOrder
    /\ Presence
    /\ Positions
    /\ HangUpsHappened
    /\ Spoken
    /\ RequestFlow
    /\ HeadingFlow
    /\ ResponseFlow
    /\ Endings
    /\ Filling

=============================================================================
