--------------------------- MODULE HandlerProofs ---------------------------
(***************************************************************************)
(* What module Handler claims of every request, every response and every   *)
(* cut of them into reads and writes.                                      *)
(***************************************************************************)
EXTENDS Handler, SequenceTheorems, TLAPS

-----------------------------------------------------------------------------
(* Pieces of a sequence. *)

\* A piece can be cut in two, and grows by the token behind it.
LEMMA PieceCut ==
    ASSUME NEW T, NEW s \in Seq(T), NEW r \in Seq(T), NEW n \in Nat, Piece(s, r, n),
           NEW k \in 0 .. Len(s)
    PROVE  /\ SubSeq(s, 1, k) \in Seq(T) /\ SubSeq(s, k + 1, Len(s)) \in Seq(T)
           /\ Len(SubSeq(s, 1, k)) = k /\ Len(SubSeq(s, k + 1, Len(s))) = Len(s) - k
           /\ Piece(SubSeq(s, 1, k), r, n)
           /\ Piece(SubSeq(s, k + 1, Len(s)), r, n + k)
<1>1. /\ SubSeq(s, 1, k) \in Seq(T) /\ Len(SubSeq(s, 1, k)) = k
      /\ \A i \in 1 .. k : SubSeq(s, 1, k)[i] = s[i]
  OBVIOUS
<1>2. /\ SubSeq(s, k + 1, Len(s)) \in Seq(T)
      /\ Len(SubSeq(s, k + 1, Len(s))) = Len(s) - k
      /\ \A i \in 1 .. Len(s) - k : SubSeq(s, k + 1, Len(s))[i] = s[k + i]
  OBVIOUS
<1>3. n + Len(s) <= Len(r) /\ \A i \in 1 .. Len(s) : s[i] = r[n + i]
  BY DEF Piece
<1>4. Piece(SubSeq(s, 1, k), r, n)
  BY <1>1, <1>3 DEF Piece
<1>5. Piece(SubSeq(s, k + 1, Len(s)), r, n + k)
  <2>1. \A i \in 1 .. Len(s) - k : k + i \in 1 .. Len(s) /\ n + (k + i) = (n + k) + i
    OBVIOUS
  <2>2. \A i \in 1 .. Len(s) - k : SubSeq(s, k + 1, Len(s))[i] = r[(n + k) + i]
    BY <1>2, <1>3, <2>1
  <2>3. (n + k) + (Len(s) - k) <= Len(r)
    BY <1>3
  <2>4. QED
    BY <1>2, <2>2, <2>3 DEF Piece
<1>6. QED
  BY <1>1, <1>2, <1>4, <1>5

\* Two pieces one behind the other are a piece.
LEMMA PieceJoin ==
    ASSUME NEW T, NEW s \in Seq(T), NEW t \in Seq(T), NEW r \in Seq(T), NEW n \in Nat,
           Piece(s, r, n), Piece(t, r, n + Len(s))
    PROVE  /\ s \o t \in Seq(T) /\ Len(s \o t) = Len(s) + Len(t)
           /\ Piece(s \o t, r, n)
<1>1. /\ s \o t \in Seq(T) /\ Len(s \o t) = Len(s) + Len(t)
      /\ \A i \in 1 .. Len(s) + Len(t) :
             (s \o t)[i] = IF i <= Len(s) THEN s[i] ELSE t[i - Len(s)]
  OBVIOUS
<1>2. \A i \in 1 .. Len(s) + Len(t) : (s \o t)[i] = r[n + i]
  BY <1>1 DEF Piece
<1>3. QED
  BY <1>1, <1>2 DEF Piece

\* A piece grows by the token that follows it.
LEMMA PieceNext ==
    ASSUME NEW T, NEW s \in Seq(T), NEW r \in Seq(T), NEW n \in Nat, Piece(s, r, n),
           n + Len(s) < Len(r)
    PROVE  LET t == Append(s, r[n + Len(s) + 1])
           IN  t \in Seq(T) /\ Len(t) = Len(s) + 1 /\ Piece(t, r, n)
  BY DEF Piece

\* A piece from the beginning is a prefix of a longer one, and the same when
\* they are as long as each other.
LEMMA PiecePrefix ==
    ASSUME NEW T, NEW s \in Seq(T), NEW t \in Seq(T), NEW r \in Seq(T),
           Piece(s, r, 0), Piece(t, r, 0), Len(s) <= Len(t)
    PROVE  IsPrefix(s, t)
<1>1. /\ SubSeq(t, 1, Len(s)) \in Seq(T) /\ Len(SubSeq(t, 1, Len(s))) = Len(s)
      /\ \A i \in 1 .. Len(s) : SubSeq(t, 1, Len(s))[i] = t[i]
  OBVIOUS
<1>2. s = SubSeq(t, 1, Len(s))
  BY <1>1, SeqEqual DEF Piece
<1>3. QED
  BY <1>2 DEF IsPrefix

\* Pieces of the same place and the same length are the same.
LEMMA PieceEqual ==
    ASSUME NEW T, NEW s \in Seq(T), NEW t \in Seq(T), NEW r \in Seq(T), NEW n \in Nat,
           Piece(s, r, n), Piece(t, r, n), Len(s) = Len(t)
    PROVE  s = t
  BY SeqEqual DEF Piece

-----------------------------------------------------------------------------
(* What is said. *)

\* The body a post or a response is filled with.
LEMMA FillFacts ==
    ASSUME NEW n \in Nat, NEW tok \in Tokens
    PROVE  /\ Fill(tok, n) \in Seq(Tokens) /\ Len(Fill(tok, n)) = n
           /\ \A i \in 1 .. n : Fill(tok, n)[i] = tok
  BY SeqDef DEF Fill

\* A heading ends with the second token and with no other.
LEMMA SpeechFacts ==
    ASSUME kind \in Kinds, reply \in Replies
    PROVE  /\ Request \in Seq(Tokens)
           /\ Len(Request) = IF kind = "post" THEN 2 + Posted ELSE 2
           /\ \A i \in 1 .. Len(Request) : Request[i] \in HeadEnds <=> i = 2
           /\ Response \in Seq(Tokens) /\ Len(Response) \in Nat
           /\ Len(Response) >= 2 /\ Len(Response) <= Longest
           /\ \A i \in 1 .. Len(Response) : Response[i] \in HeadEnds <=> i = 2
           /\ \A i \in 1 .. Len(Response) : Response[i] \in {"rhead", "rhead0"} <=> i = 2
           /\ reply.len # NoLength => reply.len \in Nat /\ Len(Response) <= 2 + reply.len
<1>0. Posted \in Nat /\ Longest \in Nat
  BY HandlerAssumption
<1>1. /\ Fill("qbody", Posted) \in Seq(Tokens) /\ Len(Fill("qbody", Posted)) = Posted
      /\ \A i \in 1 .. Posted : Fill("qbody", Posted)[i] = "qbody"
  BY <1>0, FillFacts DEF Tokens
<1>3. /\ Request \in Seq(Tokens)
      /\ Len(Request) = IF kind = "post" THEN 2 + Posted ELSE 2
      /\ Request[1] = "qpart" /\ Request[2] = "qhead"
      /\ \A i \in 3 .. Len(Request) : Request[i] = "qbody"
  <2>1. <<"qpart", "qhead">> \in Seq(Tokens)
    BY DEF Tokens
  <2>2. CASE kind = "post"
    BY <1>0, <1>1, <2>1, <2>2 DEF Request
  <2>3. CASE kind # "post"
    BY <2>1, <2>3 DEF Request
  <2>4. QED
    BY <2>2, <2>3
<1>4. /\ Response \in Seq(Tokens) /\ Len(Response) \in Nat
      /\ Len(Response) >= 2 /\ Len(Response) <= Longest
      /\ Response[1] = "rpart" /\ Response[2] \in {"rhead", "rhead0"}
      /\ \A i \in 3 .. Len(Response) : Response[i] \in {"rdata", "rend", "rlast"}
      /\ reply.len # NoLength => reply.len \in Nat /\ Len(Response) <= 2 + reply.len
  <2>1. /\ Response \in Seq({"rpart", "rhead", "rhead0", "rdata", "rend", "rlast"})
        /\ Len(Response) \in 2 .. Longest
        /\ Response[1] = "rpart" /\ Response[2] \in {"rhead", "rhead0"}
        /\ \A i \in 3 .. Len(Response) : Response[i] \in {"rdata", "rend", "rlast"}
        /\ reply.len # NoLength => reply.len \in Nat /\ Len(Response) <= 2 + reply.len
    BY HandlerAssumption DEF Response
  <2>2. Response \in Seq(Tokens)
    <3>1. Len(Response) \in Nat
      BY <2>1
    <3>2. \A i \in 1 .. Len(Response) : Response[i] \in {"rpart", "rhead", "rhead0", "rdata", "rend", "rlast"}
      BY <2>1
    <3>3. \A i \in 1 .. Len(Response) : Response[i] \in Tokens
      BY <3>2 DEF Tokens
    <3>4. Response = [i \in 1 .. Len(Response) |-> Response[i]]
      BY <2>1
    <3>5. Response \in [1 .. Len(Response) -> Tokens]
      BY <3>3, <3>4
    <3>6. QED
      BY <3>1, <3>5, SeqDef
  <2>3. QED
    BY <1>0, <2>1, <2>2
<1>5. \A i \in 1 .. Len(Request) : Request[i] \in HeadEnds <=> i = 2
  BY <1>3, <1>0 DEF HeadEnds
<1>6. \A i \in 1 .. Len(Response) : i = 1 \/ i = 2 \/ i \in 3 .. Len(Response)
  BY <1>4
<1>7. \A i \in 1 .. Len(Response) : Response[i] \in {"rhead", "rhead0"} <=> i = 2
  BY <1>4, <1>6
<1>8. \A i \in 1 .. Len(Response) : Response[i] \in HeadEnds <=> i = 2
  BY <1>4, <1>6, <1>7 DEF HeadEnds
<1>9. QED
  BY <1>3, <1>4, <1>5, <1>7, <1>8

\* What looks like an end in a piece of r does so in all of r up to there or
\* further.
LEMMA EndFound ==
    ASSUME NEW s \in Seq(Tokens), NEW r \in Seq(Tokens), NEW k \in Nat, NEW m \in Nat,
           Piece(s, r, k), EndInside(s), k + Len(s) <= m, m <= Len(r)
    PROVE  EndInside(SubSeq(r, 1, m))
<1>1. PICK i \in 1 .. Len(s) :
          \/ s[i] = "rhead0"
          \/ s[i] = "rend" /\ i < Len(s) /\ s[i + 1] = "rlast"
  BY DEF EndInside
<1>2. PICK h : h = SubSeq(r, 1, m)
  OBVIOUS
<1>3. Len(h) = m /\ \A j \in 1 .. m : h[j] = r[j]
  BY <1>2
<1>4. /\ Len(s) \in Nat /\ k + i \in 1 .. m /\ s[i] = r[k + i]
      /\ i < Len(s) => (k + i) + 1 \in 1 .. m /\ s[i + 1] = r[(k + i) + 1] /\ k + i < m
  BY DEF Piece
<1>5. \/ h[k + i] = "rhead0"
      \/ h[k + i] = "rend" /\ k + i < Len(h) /\ h[(k + i) + 1] = "rlast"
  BY <1>1, <1>3, <1>4
<1>6. QED
  BY <1>2, <1>3, <1>4, <1>5 DEF EndInside

\* More of the response is enough, too.
LEMMA EnoughMore ==
    ASSUME Response \in Seq(Tokens), NEW n \in Nat, NEW m \in Nat,
           n <= m, m <= Len(Response), Enough(n)
    PROVE  Enough(m)
<1>1. CASE reply.len = NoLength
  <2>1. PICK s : s = SubSeq(Response, 1, n)
    OBVIOUS
  <2>2. s \in Seq(Tokens) /\ Len(s) = n /\ \A i \in 1 .. n : s[i] = Response[i]
    BY <2>1
  <2>3. Piece(s, Response, 0) /\ EndInside(s)
    BY <1>1, <2>1, <2>2 DEF Piece, Enough
  <2>4. EndInside(SubSeq(Response, 1, m))
    BY <2>2, <2>3, EndFound
  <2>5. QED
    BY <1>1, <2>4 DEF Enough
<1>2. CASE reply.len # NoLength
  BY <1>2 DEF Enough
<1>3. QED
  BY <1>1, <1>2

USE DEF Enough

\* findEndHeading finds the second token of what is said, once it is there.
LEMMA HeadFound ==
    ASSUME NEW s \in Seq(Tokens), NEW r \in Seq(Tokens), Piece(s, r, 0),
           \A i \in 1 .. Len(r) : r[i] \in HeadEnds <=> i = 2
    PROVE  /\ Len(s) <= 1 => HeadLength(s) = 0
           /\ Len(s) >= 2 => HeadLength(s) = 2
<1>1. DOMAIN s = 1 .. Len(s) /\ Len(s) \in Nat /\ Len(r) \in Nat
  OBVIOUS
<1>2. \A i \in 1 .. Len(s) : s[i] \in HeadEnds <=> i = 2
  BY <1>1 DEF Piece
<1>3. CASE Len(s) <= 1
  BY <1>1, <1>2, <1>3 DEF HeadLength
<1>4. CASE Len(s) >= 2
  <2>1. 2 \in DOMAIN s /\ s[2] \in HeadEnds /\ \A j \in 1 .. 2 - 1 : s[j] \notin HeadEnds
    BY <1>1, <1>2, <1>4
  <2>2. \A i \in DOMAIN s : s[i] \in HeadEnds /\ (\A j \in 1 .. i - 1 : s[j] \notin HeadEnds) => i = 2
    BY <1>1, <1>2
  <2>3. QED
    BY <2>1, <2>2, <1>4 DEF HeadLength
<1>5. QED
  BY <1>1, <1>3, <1>4
-----------------------------------------------------------------------------
(* The list of clients and its iterator. *)

Lists == {<<"U">>, <<"S", "U">>, <<"S">>, <<>>}

\* Who is on each of the four lists that occur.
LEMMA ListRange ==
    /\ Range(<<"U">>) = {"U"} /\ Range(<<"S", "U">>) = Clients
    /\ Range(<<"S">>) = {"S"} /\ Range(<<>>) = {}
    /\ <<"U">> # <<"S", "U">> /\ <<"U">> # <<"S">> /\ <<"U">> # <<>>
    /\ <<"S", "U">> # <<"S">> /\ <<"S", "U">> # <<>> /\ <<"S">> # <<>>
<1>1. /\ DOMAIN <<"U">> = {1} /\ DOMAIN <<"S", "U">> = {1, 2}
      /\ DOMAIN <<"S">> = {1} /\ DOMAIN <<>> = {}
  OBVIOUS
<1>2. /\ <<"U">>[1] = "U" /\ <<"S">>[1] = "S"
      /\ <<"S", "U">>[1] = "S" /\ <<"S", "U">>[2] = "U"
  OBVIOUS
<1>3. /\ <<"U">> # <<"S", "U">> /\ <<"U">> # <<"S">> /\ <<"U">> # <<>>
      /\ <<"S", "U">> # <<"S">> /\ <<"S", "U">> # <<>> /\ <<"S">> # <<>>
  BY <1>1, <1>2
<1>4. QED
  BY <1>1, <1>2, <1>3 DEF Range, Clients

\* Where ++it leads on each list, also behind an erased client.
LEMMA ListIterator ==
    /\ After(<<"S", "U">>, "S") = "U" /\ After(<<"S", "U">>, "U") = "end"
    /\ After(<<"U">>, "U") = "end" /\ After(<<"S">>, "S") = "end"
    /\ After(<<"U">>, "end") = "U" /\ After(<<"S">>, "end") = "S"
    /\ After(<<>>, "end") = "end"
  BY DEF After, Place

\* A sequence of one element, put together from it.
LEMMA OfOne == ASSUME NEW T, NEW s \in Seq(T), Len(s) = 1 PROVE s = <<s[1]>>
<1>1. <<s[1]>> \in Seq(T) /\ Len(<<s[1]>>) = 1 /\ <<s[1]>>[1] = s[1]
  OBVIOUS
<1>2. QED
  BY <1>1, SeqEqual

\* A sequence of two elements, put together from them.
LEMMA OfPair == ASSUME NEW T, NEW s \in Seq(T), Len(s) = 2 PROVE s = <<s[1], s[2]>>
<1>1. /\ <<s[1], s[2]>> \in Seq(T) /\ Len(<<s[1], s[2]>>) = 2
      /\ <<s[1], s[2]>>[1] = s[1] /\ <<s[1], s[2]>>[2] = s[2]
  OBVIOUS
<1>2. QED
  BY <1>1, SeqEqual

\* Erasing one of two leaves the other.
LEMMA OfTwo ==
    ASSUME NEW T, NEW l \in Seq(T), Len(l) = 2
    PROVE  RemoveAt(l, 1) = <<l[2]>> /\ RemoveAt(l, 2) = <<l[1]>>
<1>1. RemoveAt(l, 1) \in Seq(T) /\ Len(RemoveAt(l, 1)) = 1 /\ RemoveAt(l, 1)[1] = l[2]
  BY DEF RemoveAt
<1>2. RemoveAt(l, 2) \in Seq(T) /\ Len(RemoveAt(l, 2)) = 1 /\ RemoveAt(l, 2)[1] = l[1]
  BY DEF RemoveAt
<1>3. QED
  BY <1>1, <1>2, OfOne

\* What erasing a client leaves of each list.
LEMMA ListWithout ==
    /\ Without(<<"S", "U">>, "S") = <<"U">> /\ Without(<<"S", "U">>, "U") = <<"S">>
    /\ Without(<<"U">>, "U") = <<>> /\ Without(<<"S">>, "S") = <<>>
<1>1. /\ Place(<<"S", "U">>, "S") = 1 /\ Place(<<"S", "U">>, "U") = 2
      /\ Place(<<"U">>, "U") = 1 /\ Place(<<"S">>, "S") = 1
  BY DEF Place
<1>2. RemoveAt(<<"S", "U">>, 1) = <<"U">> /\ RemoveAt(<<"S", "U">>, 2) = <<"S">>
  <2>1. /\ <<"S", "U">> \in Seq(Clients) /\ Len(<<"S", "U">>) = 2
        /\ <<"S", "U">>[1] = "S" /\ <<"S", "U">>[2] = "U"
    BY DEF Clients
  <2>2. QED
    BY <2>1, OfTwo
<1>3. \A c \in Clients : RemoveAt(<<c>>, 1) = <<>>
  BY DEF RemoveAt
<1>4. QED
  BY <1>1, <1>2, <1>3 DEF Without, Clients

-----------------------------------------------------------------------------
(* The inductive invariant is Inv without InOrder, which follows from it. *)

Links ==
    NoDanglingLink /\ BufferLifetime /\ AloneOnlyToFill /\ ElementHeld /\ Presence
Course == OneServer /\ Positions /\ HangUpsHappened
Flow == Spoken /\ RequestFlow /\ HeadingFlow /\ ResponseFlow /\ Endings /\ Filling
Core == TypeOK /\ Links /\ Course /\ Flow

\* The parts of the type invariant, one by one.
LEMMA TypeFacts ==
    ASSUME TypeOK
    PROVE  /\ \A c \in Clients : /\ sent[c] \in Seq(Tokens) /\ inbox[c] \in Seq(Tokens)
                                 /\ got[c] \in Seq(Tokens) /\ open[c] \in BOOLEAN
                                 /\ events[c] \in SUBSET All /\ revents[c] \in SUBSET All
                                 /\ Other(c) \in Clients
           /\ b \in Buffers /\ b.buf \in Seq(Tokens) /\ b.lengthBody \in Int
           /\ elem \in Elements /\ elem.data \in Seq(Tokens) /\ elem.users \in Int
           /\ "U" \in Clients /\ "S" \in Clients
  BY DEF TypeOK, Buffers, Elements, Other, Clients

\* What is said and buffered depends on buffer, element, list and peers only.
LEMMA FlowFrame ==
    ASSUME Flow, UNCHANGED <<b, elem, list, otherVars>>
    PROVE  Flow'
<1> USE DEF otherVars, caseVars, peerVars
<1>0. Request' = Request /\ Response' = Response
  BY DEF Request, Response
<1>1. Spoken'
  BY <1>0 DEF Flow, Spoken, Speech, Read, Piece
<1>2. RequestFlow'
  BY <1>0 DEF Flow, RequestFlow, Between, Speech, Read, Piece
<1>3. HeadingFlow'
  BY <1>0 DEF Flow, HeadingFlow, Listed, Read, Piece
<1>4. ResponseFlow'
  BY <1>0 DEF Flow, ResponseFlow, Between, Speech, Read, Piece, Listed
<1>5. Endings'
  BY <1>0 DEF Flow, Endings, Listed
<1>6. Filling'
  BY <1>0 DEF Flow, Filling, Listed, Read, Piece
<1>7. QED
  BY <1>1, <1>2, <1>3, <1>4, <1>5, <1>6 DEF Flow

\* A step of the thread that touches neither clients nor buffer nor peers.
LEMMA QuietStep ==
    ASSUME Core, UNCHANGED <<list, linkVars, bufferVars, otherVars>>,
           pc \in {"poll", "visit", "status"},
           pc' \in {"poll", "visit", "status", "done", "failed"},
           at' \in Clients \union {"end"},
           pc' = "visit" => at' \in Range(list) \union {"end"},
           pc' = "status" => at' \in Range(list),
           pc' = "done" => list = <<>>,
           events' \in [Clients -> SUBSET All], revents' \in [Clients -> SUBSET All],
           \A c \in Clients : RdHup \in revents'[c] => ~open[c],
           kind = "bad" => Out \notin events'["U"] /\ Out \notin revents'["U"]
    PROVE  Core'
<1>1. Flow'
  BY FlowFrame DEF Core, bufferVars
<1>2. TypeOK'
  BY DEF Core, TypeOK, linkVars, bufferVars, otherVars, caseVars, peerVars
<1>3. Links'
  BY DEF Core, Links, NoDanglingLink, BufferLifetime, AloneOnlyToFill, ElementHeld,
         Presence, Listed, linkVars, bufferVars, otherVars, caseVars, peerVars
<1>4. Course'
  BY DEF Core, Course, OneServer, Positions, HangUpsHappened, Listed, Read,
         linkVars, bufferVars, otherVars, caseVars, peerVars
<1>5. QED
  BY <1>1, <1>2, <1>3, <1>4 DEF Core

\* poll answers or fails, and the end of a pass (startHandler).
LEMMA Waiting ==
    ASSUME Core, (\E w \in SUBSET Clients : Poll(w)) \/ PollFails \/ EndPass
    PROVE  Core'
<1>0. /\ \A c \in Clients : RdHup \in revents[c] => ~open[c]
      /\ kind = "bad" => Out \notin events["U"] /\ Out \notin revents["U"]
      /\ TypeOK /\ Range(list) \subseteq Clients
  BY ListRange DEF Core, Course, HangUpsHappened, TypeOK, Clients
<1>1. ASSUME NEW w \in SUBSET Clients, Poll(w) PROVE Core'
  <2>1. at' \in Range(list)
    <3>1. list \in {<<"U">>, <<"S", "U">>, <<"S">>} /\ at' = list[1]
      BY <1>0, <1>1 DEF Poll, TypeOK
    <3>2. <<"U">>[1] = "U" /\ <<"S", "U">>[1] = "S" /\ <<"S">>[1] = "S"
      OBVIOUS
    <3>3. QED
      BY <3>1, <3>2, ListRange DEF Clients
  <2>2. revents' \in [Clients -> SUBSET All]
    BY <1>0, <1>1, TypeFacts DEF Poll
  <2>3. \A c \in Clients : RdHup \in revents'[c] => ~open[c]
    BY <1>1 DEF Poll, Ready, RdHup, In, Out
  <2>4. kind = "bad" => Out \notin events'["U"] /\ Out \notin revents'["U"]
    BY <1>0, <1>1 DEF Poll, Clients
  <2>5. /\ UNCHANGED <<list, linkVars, bufferVars, otherVars>>
        /\ pc = "poll" /\ pc' = "visit" /\ events' \in [Clients -> SUBSET All]
    BY <1>0, <1>1 DEF Poll, TypeOK
  <2>6. QED
    BY <1>0, <2>1, <2>2, <2>3, <2>4, <2>5, QuietStep
<1>2. CASE PollFails
  BY <1>0, <1>2, QuietStep DEF PollFails, TypeOK
<1>3. CASE EndPass
  BY <1>0, <1>3, QuietStep DEF EndPass, TypeOK
<1>4. QED
  BY <1>1, <1>2, <1>3

\* A visit which finds nothing to do for a client (handlingEvent).
LEMMA Passing ==
    ASSUME Core, NEW c \in Clients,
           ReadFails(c) \/ NothingToRead(c) \/ NothingToWrite(c) \/ StopsPolling(c)
    PROVE  Core'
<1>0. /\ \A d \in Clients : RdHup \in revents[d] => ~open[d]
      /\ kind = "bad" => Out \notin events["U"] /\ Out \notin revents["U"]
      /\ events \in [Clients -> SUBSET All] /\ revents \in [Clients -> SUBSET All]
      /\ TypeOK /\ Range(list) \subseteq Clients
  BY ListRange DEF Core, Course, HangUpsHappened, TypeOK, Clients
<1>1. /\ c \in Range(list) /\ c # "end"
      /\ After(list, c) \in Range(list) \union {"end"}
      /\ After(list, c) \in Clients \union {"end"}
      /\ at = c /\ pc \in {"visit", "status"}
  <2>1. at = c /\ pc \in {"visit", "status"} /\ c # "end"
    BY DEF ReadFails, NothingToRead, NothingToWrite, StopsPolling, Clients
  <2>2. c \in Range(list) /\ list \in Lists
    BY <1>0, <2>1 DEF TypeOK, Lists
  <2>3. QED
    BY <2>1, <2>2, ListRange, ListIterator DEF Clients, Lists
<1>2. /\ UNCHANGED <<list, linkVars, bufferVars, otherVars>>
      /\ \/ pc' = "visit" /\ at' = After(list, c)
         \/ pc' = "status" /\ at' = c
  BY <1>1 DEF ReadFails, NothingToRead, NothingToWrite, StopsPolling, Goes
<1>3. /\ revents' \in [Clients -> SUBSET All]
      /\ \A d \in Clients : revents'[d] \subseteq revents[d]
  <2>1. revents' = revents \/ \E e \in {{}, revents[c]} : revents' = [revents EXCEPT ![c] = e]
    BY DEF ReadFails, NothingToRead, NothingToWrite, StopsPolling
  <2>2. QED
    BY <1>0, <2>1
<1>4. /\ events' \in [Clients -> SUBSET All]
      /\ Out \in events'["U"] => Out \in events["U"]
  <2>1. events' = events \/ events' = [events EXCEPT ![c] = Quiet]
    BY DEF ReadFails, NothingToRead, NothingToWrite, StopsPolling
  <2>2. Quiet \in SUBSET All /\ Out \notin Quiet
    BY DEF Quiet, All, RdHup, Out, In
  <2>3. events["U"] \in SUBSET All /\ "U" \in Clients
    BY <1>0 DEF Clients
  <2>4. QED
    BY <1>0, <2>1, <2>2, <2>3
<1>5. /\ \A d \in Clients : RdHup \in revents'[d] => ~open[d]
      /\ kind = "bad" => Out \notin events'["U"] /\ Out \notin revents'["U"]
  BY <1>0, <1>3, <1>4 DEF Clients
<1>6. QED
  BY <1>1, <1>2, <1>3, <1>4, <1>5, QuietStep


-----------------------------------------------------------------------------
(* The peers. *)

\* How long everything is, and that nothing is read beyond what is said.
LEMMA LensFacts ==
    ASSUME Core
    PROVE  /\ Len(Request) \in Nat /\ Len(Request) >= 2
           /\ Len(Response) \in Nat /\ Len(Response) >= 2
           /\ Request \in Seq(Tokens) /\ Response \in Seq(Tokens)
           /\ \A c \in Clients :
                  /\ Len(sent[c]) \in Nat /\ Len(inbox[c]) \in Nat /\ Len(got[c]) \in Nat
                  /\ Read(c) \in Nat /\ Read(c) <= Len(Speech(c))
                  /\ Speech(c) \in Seq(Tokens)
           /\ Len(b.buf) \in Nat
<1>1. /\ Request \in Seq(Tokens) /\ Response \in Seq(Tokens)
      /\ Len(Request) >= 2 /\ Len(Response) >= 2
  <2>1. kind \in Kinds /\ reply \in Replies
    BY DEF Core, TypeOK
  <2>2. Posted \in Nat
    BY HandlerAssumption
  <2>3. /\ Request \in Seq(Tokens) /\ Response \in Seq(Tokens)
        /\ Len(Request) = IF kind = "post" THEN 2 + Posted ELSE 2
        /\ Len(Response) >= 2
    BY <2>1, SpeechFacts
  <2>4. QED
    BY <2>2, <2>3
<1>2. b.buf \in Seq(Tokens)
      /\ \A c \in Clients : sent[c] \in Seq(Tokens) /\ inbox[c] \in Seq(Tokens) /\ got[c] \in Seq(Tokens)
  BY TypeFacts DEF Core
<1>3. \A c \in Clients : Len(sent[c]) <= Len(Speech(c)) /\ Len(inbox[c]) <= Len(sent[c])
  BY <1>2 DEF Core, Flow, Spoken, Piece
<1>4. ASSUME NEW c \in Clients
      PROVE  /\ Len(sent[c]) \in Nat /\ Len(inbox[c]) \in Nat /\ Len(got[c]) \in Nat
             /\ Read(c) \in Nat /\ Read(c) <= Len(Speech(c))
             /\ Speech(c) \in Seq(Tokens)
  <2>1. /\ Len(sent[c]) \in Nat /\ Len(inbox[c]) \in Nat /\ Len(got[c]) \in Nat
        /\ Speech(c) \in Seq(Tokens)
    BY <1>1, <1>2 DEF Speech
  <2>2. QED
    BY <1>3, <2>1 DEF Read
<1>5. Len(Request) \in Nat /\ Len(Response) \in Nat /\ Len(b.buf) \in Nat
  BY <1>1, <1>2
<1>6. QED
  BY <1>1, <1>4, <1>5

\* A peer says its next token.
LEMMA Speaking ==
    ASSUME Core, NEW c \in Clients, Len(sent[c]) < Len(Speech(c)),
           Says(c, Speech(c)[Len(sent[c]) + 1]),
           UNCHANGED <<threadVars, caseVars, open, got>>,
           c = "S" => b.statusServer # "READ_REQUEST"
    PROVE  Core'
<1> USE DEF threadVars, linkVars, caseVars
<1>0. Request' = Request /\ Response' = Response /\ \A d \in Clients : Speech(d)' = Speech(d)
  BY DEF Request, Response, Speech
<1>a. /\ sent[c] \in Seq(Tokens) /\ inbox[c] \in Seq(Tokens) /\ Speech(c) \in Seq(Tokens)
      /\ Read(c) \in Nat /\ Read(c) + Len(inbox[c]) = Len(sent[c])
      /\ Piece(sent[c], Speech(c), 0) /\ Piece(inbox[c], Speech(c), Read(c))
  <2>1. /\ sent[c] \in Seq(Tokens) /\ inbox[c] \in Seq(Tokens) /\ Speech(c) \in Seq(Tokens)
        /\ Read(c) \in Nat /\ Len(sent[c]) \in Nat /\ Len(inbox[c]) \in Nat
    BY LensFacts, TypeFacts DEF Core
  <2>2. Read(c) + Len(inbox[c]) = Len(sent[c])
    BY <2>1 DEF Read
  <2>3. QED
    BY <2>1, <2>2 DEF Core, Flow, Spoken
<1>b. PICK tok : tok = Speech(c)[Len(sent[c]) + 1]
  OBVIOUS
<1>c. /\ Append(sent[c], tok) \in Seq(Tokens) /\ Append(inbox[c], tok) \in Seq(Tokens)
      /\ Len(Append(sent[c], tok)) = Len(sent[c]) + 1
      /\ Len(Append(inbox[c], tok)) = Len(inbox[c]) + 1
      /\ Piece(Append(sent[c], tok), Speech(c), 0)
      /\ Piece(Append(inbox[c], tok), Speech(c), Read(c))
  <2>1. 0 + Len(sent[c]) + 1 = Len(sent[c]) + 1 /\ Read(c) + Len(inbox[c]) + 1 = Len(sent[c]) + 1
        /\ 0 + Len(sent[c]) < Len(Speech(c)) /\ Read(c) + Len(inbox[c]) < Len(Speech(c)) /\ 0 \in Nat
    BY <1>a
  <2>2. LET t == Append(sent[c], Speech(c)[0 + Len(sent[c]) + 1])
        IN  t \in Seq(Tokens) /\ Len(t) = Len(sent[c]) + 1 /\ Piece(t, Speech(c), 0)
    BY <1>a, <2>1, PieceNext
  <2>3. LET t == Append(inbox[c], Speech(c)[Read(c) + Len(inbox[c]) + 1])
        IN  t \in Seq(Tokens) /\ Len(t) = Len(inbox[c]) + 1 /\ Piece(t, Speech(c), Read(c))
    BY <1>a, <2>1, PieceNext
  <2>4. QED
    BY <1>b, <2>1, <2>2, <2>3
<1>d. /\ sent' = [sent EXCEPT ![c] = Append(sent[c], tok)]
      /\ inbox' = [inbox EXCEPT ![c] = Append(inbox[c], tok)]
      /\ sent \in [Clients -> Seq(Tokens)] /\ inbox \in [Clients -> Seq(Tokens)]
  BY <1>b DEF Says, Core, TypeOK
<1>1. \A d \in Clients : Read(d)' = Read(d)
  BY <1>a, <1>c, <1>d DEF Read
<1>2. TypeOK'
  BY <1>c, <1>d DEF Core, TypeOK
<1>3. Links'
  BY DEF Core, Links, NoDanglingLink, BufferLifetime, AloneOnlyToFill, ElementHeld,
         Presence, Listed
<1>4. Course'
  BY <1>1 DEF Core, Course, OneServer, Positions, HangUpsHappened, Listed, Clients
<1>5. Spoken'
  <2> SUFFICES ASSUME NEW d \in Clients
      PROVE /\ Piece(sent'[d], Speech(d), 0)
            /\ Len(inbox'[d]) <= Len(sent'[d]) /\ Piece(inbox'[d], Speech(d), Read(d))
            /\ Len(got[Other(d)]) <= Read(d) /\ Piece(got[Other(d)], Speech(d), 0)
    BY <1>0, <1>1 DEF Spoken, Piece
  <2>1. CASE d = c
    BY <1>a, <1>c, <1>d, <2>1, LensFacts DEF Core, Flow, Spoken
  <2>2. CASE d # c
    BY <1>d, <2>2 DEF Core, Flow, Spoken
  <2>3. QED
    BY <2>1, <2>2
<1>6. RequestFlow'
  BY <1>0, <1>1, <1>d DEF Core, Flow, RequestFlow, Between, Piece, Clients
<1>7. HeadingFlow'
  BY <1>0, <1>1 DEF Core, Flow, HeadingFlow, Listed, Piece, Clients
<1>8. ResponseFlow'
  BY <1>0, <1>1 DEF Core, Flow, ResponseFlow, Between, Piece, Listed, Clients
<1>9. Endings' /\ Filling'
  BY <1>0, <1>1 DEF Core, Flow, Endings, Filling, Piece, Listed, Clients
<1>10. QED
  BY <1>2, <1>3, <1>4, <1>5, <1>6, <1>7, <1>8, <1>9 DEF Core, Flow

\* The user sends a token of its request.
LEMMA UserSpeaks == ASSUME Core, UserSends PROVE Core'
  BY Speaking DEF UserSends, Speech, Clients

\* The server sends a token of its response: the response phase has begun.
LEMMA ServerSpeaks == ASSUME Core, ServerSends PROVE Core'
<1>1. "S" \in Range(list) /\ Len(got["S"]) >= Len(Request)
  BY DEF ServerSends
<1>2. b.statusServer # "READ_REQUEST"
  <2> SUFFICES ASSUME b.statusServer = "READ_REQUEST" PROVE FALSE
    OBVIOUS
  <2>1. kind # "bad" /\ ~b.isDataGetCash
    BY <1>1, ListRange DEF Core, Course, HangUpsHappened, Positions, TypeOK, Listed
  <2>2. /\ Len(b.buf) <= Read("U") /\ Len(got["S"]) <= Read("U") - Len(b.buf)
        /\ b.isEndSend <=> Read("U") = Len(Request)
        /\ b.isEndSend => b.buf # <<>>
    BY <2>1 DEF Core, Flow, RequestFlow, Between, Other
  <2>3. Len(b.buf) \in Nat /\ Read("U") \in Nat /\ Len(Request) \in Nat
        /\ Read("U") <= Len(Request) /\ Len(got["S"]) \in Nat
    BY LensFacts DEF Speech, Clients
  <2>4. Len(b.buf) = 0 /\ b.isEndSend
    BY <1>1, <2>2, <2>3
  <2>5. b.buf \in Seq(Tokens)
    BY TypeFacts DEF Core
  <2>6. QED
    BY <2>2, <2>4, <2>5
<1>3. QED
  BY <1>2, Speaking DEF ServerSends, Speech, Clients

\* A peer closes: nobody's claims get stronger by it.
LEMMA Closing == ASSUME Core, NEW c \in Clients, PeerCloses(c) PROVE Core'
<1> USE DEF threadVars, linkVars, caseVars, PeerCloses
<1>0. Request' = Request /\ Response' = Response
  BY DEF Request, Response
<1>1. open \in [Clients -> BOOLEAN]
  BY DEF Core, TypeOK
<1>2. open' \in [Clients -> BOOLEAN] /\ \A d \in Clients : open'[d] => open[d]
  BY <1>1
<1>3. TypeOK'
  BY <1>2 DEF Core, TypeOK
<1>4. Links'
  BY DEF Core, Links, NoDanglingLink, BufferLifetime, AloneOnlyToFill, ElementHeld,
         Presence, Listed
<1>5. Course'
  BY <1>2 DEF Core, Course, OneServer, Positions, HangUpsHappened, Listed, Read
<1>6. Spoken' /\ Filling'
  BY <1>0 DEF Core, Flow, Spoken, Filling, Speech, Read, Piece, Listed
<1>7. RequestFlow'
  BY <1>0, <1>2 DEF Core, Flow, RequestFlow, Between, Speech, Read, Piece, Other, Clients
<1>8. HeadingFlow'
  BY <1>0 DEF Core, Flow, HeadingFlow, Listed, Read, Piece
<1>9. ResponseFlow'
  BY <1>0, <1>2 DEF Core, Flow, ResponseFlow, Between, Speech, Read, Piece, Listed, Other, Clients
<1>10. Endings'
  BY <1>0, <1>2 DEF Core, Flow, Endings, Listed, Clients
<1>11. QED
  BY <1>3, <1>4, <1>5, <1>6, <1>7, <1>8, <1>9, <1>10 DEF Core, Flow

-----------------------------------------------------------------------------
(* Clients leave. *)

\* The server is deleted, hung up on or done with the user gone
\* (deleteClientServer).
LEMMA ServerGone ==
    ASSUME Core, "S" \in Range(list), pc \in {"visit", "status"}, Listed("U") => ~open["S"],
           DeleteServer, GoesAfterDelete("S"), UNCHANGED <<revents, otherVars>>
    PROVE  Core'
<1> USE DEF otherVars, caseVars, peerVars
<1>0. Request' = Request /\ Response' = Response
  BY DEF Request, Response
<1>1. TypeOK /\ list \in Lists /\ kind # "bad"
      /\ (list = <<"S", "U">> => pair /\ watched) /\ (list = <<"S">> => ~watched)
  BY ListRange DEF Core, TypeOK, Lists, Course, HangUpsHappened, Listed,
     Links, NoDanglingLink, Presence
<1>2. \/ list = <<"S", "U">> /\ list' = <<"U">>
      \/ list = <<"S">> /\ list' = <<>>
  BY <1>1, ListRange, ListWithout DEF DeleteServer, Lists
<1>3. pc' = "visit" /\ at' = "end"
  BY <1>2, ListIterator DEF GoesAfterDelete
<1>4. /\ b' = [b EXCEPT !.statusServer = "END_WORK", !.isServerConnect = FALSE]
      /\ b \in Buffers /\ b' \in Buffers /\ elem \in Elements /\ elem' \in Elements
      /\ elem' = IF b.isAddDataToCash THEN [elem EXCEPT !.connected = FALSE] ELSE elem
  <2>1. b \in Buffers /\ elem \in Elements
    BY <1>1, TypeFacts
  <2>2. /\ b' = [b EXCEPT !.statusServer = "END_WORK", !.isServerConnect = FALSE]
        /\ elem' = IF b.isAddDataToCash THEN [elem EXCEPT !.connected = FALSE] ELSE elem
    BY DEF DeleteServer, ServerLeft, ReleaseElement
  <2>3. b' \in Buffers
    BY <2>1, <2>2 DEF Buffers, ClientStatuses, ServerStatuses
  <2>4. elem' \in Elements
    BY <2>1, <2>2 DEF Elements
  <2>5. QED
    BY <2>1, <2>2, <2>3, <2>4
<1>5. /\ b'.statusServer = "END_WORK" /\ b'.isServerConnect = FALSE
      /\ b'.statusClient = b.statusClient /\ b'.buf = b.buf
      /\ b'.isClientConnect = b.isClientConnect /\ b'.isReadyToSend = b.isReadyToSend
      /\ b'.isEndSend = b.isEndSend /\ b'.isReadyConnect = b.isReadyConnect
      /\ b'.lengthBody = b.lengthBody /\ b'.isAddDataToCash = b.isAddDataToCash
      /\ b'.isDataGetCash = b.isDataGetCash /\ b'.error = b.error
  BY <1>4 DEF Buffers
<1>6. /\ elem'.data = elem.data /\ elem'.downloadEnd = elem.downloadEnd
      /\ elem'.users = elem.users /\ (elem'.connected => elem.connected)
      /\ (b.isAddDataToCash => ~elem'.connected)
  BY <1>4 DEF Elements
<1>7. /\ pair' = (pair /\ ~watched) /\ watched' = FALSE
      /\ events' = IF watched THEN [events EXCEPT !["U"] = All] ELSE events
      /\ freed' = IF b.isClientConnect THEN freed ELSE freed + 1
  BY DEF DeleteServer, UnlinkUser, FreedUnless
<1>8. events' \in [Clients -> SUBSET All]
  BY <1>1, <1>7 DEF TypeOK
<1>9. TypeOK'
  <2>1. list' \in {<<"U">>, <<"S", "U">>, <<"S">>, <<>>} /\ freed' \in Nat
    BY <1>1, <1>2, <1>7 DEF TypeOK
  <2>2. pair' \in BOOLEAN /\ watched' \in BOOLEAN
    BY <1>7
  <2>3. QED
    BY <1>1, <1>3, <1>4, <1>8, <2>1, <2>2 DEF TypeOK
<1>10. Links'
  <2>1. NoDanglingLink'
    BY <1>1, <1>2, <1>7, ListRange DEF NoDanglingLink, Lists
  <2>2. BufferLifetime' /\ Presence'
    <3>1. /\ b.isClientConnect <=> "U" \in Range(list)
          /\ b.statusClient = "END_WORK" <=> "U" \notin Range(list)
          /\ freed = 0
      BY <1>2, ListRange DEF Core, Links, BufferLifetime, Presence, Listed
    <3>2. CASE list = <<"S", "U">> /\ list' = <<"U">>
      BY <1>1, <1>5, <1>7, <3>1, <3>2, ListRange DEF BufferLifetime, Presence, Listed, Clients
    <3>3. CASE list = <<"S">> /\ list' = <<>>
      BY <1>5, <1>7, <3>1, <3>3, ListRange DEF BufferLifetime, Presence, Listed
    <3>4. QED
      BY <1>2, <3>2, <3>3
  <2>3. AloneOnlyToFill' /\ ElementHeld'
    BY <1>1, <1>2, <1>5, <1>6, ListRange
       DEF Core, Links, AloneOnlyToFill, ElementHeld, Lists, Clients
  <2>4. QED
    BY <2>1, <2>2, <2>3 DEF Links
<1>11. Course'
  BY <1>1, <1>3, <1>5 DEF Core, Course, OneServer, Positions, HangUpsHappened
<1>12. Listed("S") /\ ~Listed("S")' /\ (Listed("U")' <=> Listed("U"))
  BY <1>2, ListRange DEF Listed, Clients
<1>13. \A c \in Clients : Read(c)' = Read(c) /\ Speech(c)' = Speech(c)
  BY <1>0 DEF Read, Speech
<1>14. Spoken' /\ RequestFlow'
  BY <1>0, <1>5 DEF Core, Flow, Spoken, RequestFlow, Read, Speech, Piece
<1>15. HeadingFlow'
  BY <1>0, <1>2, <1>5, <1>12, ListRange DEF Core, Flow, HeadingFlow, Read
<1>16. ResponseFlow'
  <2>1. b.statusClient = "READ_RESPONSE" => b.statusServer # "READ_REQUEST"
    BY <1>1, ListRange, <1>12 DEF Core, Flow, RequestFlow, Course, Positions, Listed
  <2>2. QED
    BY <1>0, <1>5, <1>12, <2>1 DEF Core, Flow, ResponseFlow, Between, Speech, Read, Piece
<1>17. Endings' /\ Filling'
  BY <1>0, <1>5, <1>6, <1>12 DEF Core, Flow, Endings, Filling, Read, Piece
<1>18. QED
  BY <1>9, <1>10, <1>11, <1>14, <1>15, <1>16, <1>17 DEF Core, Flow

\* Setting the count of users changes nothing else of an element.
LEMMA UsersSet ==
    ASSUME NEW e \in Elements, NEW n \in Int
    PROVE  LET f == [e EXCEPT !.users = n]
           IN  /\ f \in Elements /\ f.data = e.data /\ f.downloadEnd = e.downloadEnd
               /\ f.connected = e.connected /\ f.users = n
  BY DEF Elements

\* The user leaves; bb is the buffer as it is then.
LEMMA UserGone ==
    ASSUME Core, "U" \in Range(list), NEW bb \in Buffers, DeleteUser(bb),
           bb.isClientConnect = b.isClientConnect, bb.isServerConnect = b.isServerConnect,
           bb.isAddDataToCash = b.isAddDataToCash, bb.isDataGetCash = b.isDataGetCash,
           bb.isReadyConnect = b.isReadyConnect, bb.error = b.error,
           ~b.isReadyConnect,
           \/ pc' = "visit" /\ at' = After(list', After(list, "U")) /\ ~b.isDataGetCash
           \/ pc = "cash" /\ pc' = "done" /\ at' = at,
           revents' \in [Clients -> SUBSET All],
           \A c \in Clients : revents'[c] \subseteq revents[c],
           got' \in [Clients -> Seq(Tokens)], UNCHANGED <<caseVars, inbox, open, sent>>
    PROVE  /\ TypeOK' /\ Links' /\ Course'
           /\ Listed("U") /\ ~Listed("U")' /\ (Listed("S")' => Listed("S"))
           /\ b'.statusClient = "END_WORK" /\ b'.buf = bb.buf /\ b'.isEndSend = bb.isEndSend
           /\ b'.haveLength = bb.haveLength /\ b'.lengthBody = bb.lengthBody
           /\ b'.isAddDataToCash = b.isAddDataToCash /\ b'.isDataGetCash = b.isDataGetCash
           /\ elem'.data = elem.data /\ elem'.downloadEnd = elem.downloadEnd
           /\ elem'.connected = elem.connected
           /\ \/ b'.statusServer = "END_WORK" /\ list' = <<>>
              \/ b'.statusServer = bb.statusServer /\ (Listed("S") => b.isAddDataToCash)
                 /\ (Listed("S")' <=> Listed("S"))
<1> USE DEF caseVars
<1>1. /\ TypeOK /\ list \in Lists /\ b \in Buffers /\ elem \in Elements
      /\ \/ list = <<"S", "U">> /\ pair /\ watched
         \/ list = <<"U">> /\ ~pair /\ ~watched
      /\ freed = 0 /\ b.isClientConnect /\ (b.isServerConnect <=> list = <<"S", "U">>)
      /\ elem.connected => "S" \in Range(list) /\ b.isAddDataToCash
      /\ elem.users = IF b.isDataGetCash THEN 1 ELSE 0
  <2>1. TypeOK /\ list \in Lists /\ b \in Buffers /\ elem \in Elements
    BY TypeFacts DEF Core, TypeOK, Lists
  <2>2. list \in {<<"S", "U">>, <<"U">>}
    BY <2>1, ListRange DEF Lists
  <2>3. QED
    BY <2>1, <2>2, ListRange
       DEF Core, Links, NoDanglingLink, BufferLifetime, ElementHeld, Presence, Listed, Clients
<1>2. /\ list' = IF pair /\ ~bb.isAddDataToCash THEN <<>> ELSE Without(list, "U")
      /\ watched' = FALSE
      /\ elem' = IF bb.isDataGetCash THEN [elem EXCEPT !.users = @ - 1] ELSE elem
      /\ b' = UserLeft(IF pair /\ ~bb.isAddDataToCash THEN ServerLeft(bb) ELSE bb)
      /\ freed' = IF b'.isServerConnect THEN freed ELSE freed + 1
      /\ UNCHANGED <<pair, events>>
  BY DEF DeleteUser, TakesServer, FreedUnless
<1>3. \/ list = <<"S", "U">> /\ list' = <<"S">> /\ b.isAddDataToCash
      \/ list = <<"S", "U">> /\ list' = <<>> /\ ~b.isAddDataToCash
      \/ list = <<"U">> /\ list' = <<>>
  BY <1>1, <1>2, ListWithout
<1>4. pc' \in {"visit", "done"} /\ at' \in Clients \union {"end"}
      /\ (pc' = "visit" => at' \in Range(list') \union {"end"} /\ ~b.isDataGetCash)
      /\ (pc' = "done" => list' = <<>>)
  <2>1. CASE pc' = "visit" /\ at' = After(list', After(list, "U")) /\ ~b.isDataGetCash
    BY <1>3, <2>1, ListIterator, ListRange DEF Clients
  <2>2. CASE pc = "cash" /\ pc' = "done" /\ at' = at
    BY <1>1, <1>3, <2>2, ListRange DEF Core, Course, Positions, TypeOK
  <2>3. QED
    BY <2>1, <2>2
<1>5. /\ b' \in Buffers /\ b'.statusClient = "END_WORK" /\ b'.isClientConnect = FALSE
      /\ b'.buf = bb.buf /\ b'.isReadyToSend = bb.isReadyToSend
      /\ b'.isEndSend = bb.isEndSend /\ b'.isReadyConnect = bb.isReadyConnect
      /\ b'.lengthBody = bb.lengthBody /\ b'.haveLength = bb.haveLength
      /\ b'.isAddDataToCash = bb.isAddDataToCash
      /\ b'.isDataGetCash = bb.isDataGetCash /\ b'.error = bb.error
      /\ IF pair /\ ~bb.isAddDataToCash
            THEN b'.statusServer = "END_WORK" /\ b'.isServerConnect = FALSE
            ELSE b'.statusServer = bb.statusServer /\ b'.isServerConnect = bb.isServerConnect
  <2>1. CASE pair /\ ~bb.isAddDataToCash
    <3>1. PICK c \in Buffers : c = ServerLeft(bb)
      BY DEF ServerLeft, Buffers, ClientStatuses, ServerStatuses
    <3>2. b' = UserLeft(c)
      BY <1>2, <2>1, <3>1
    <3>3. /\ c.statusServer = "END_WORK" /\ c.isServerConnect = FALSE
          /\ c.buf = bb.buf /\ c.isReadyToSend = bb.isReadyToSend
          /\ c.isEndSend = bb.isEndSend /\ c.isReadyConnect = bb.isReadyConnect
          /\ c.lengthBody = bb.lengthBody /\ c.haveLength = bb.haveLength
          /\ c.isAddDataToCash = bb.isAddDataToCash
          /\ c.isDataGetCash = bb.isDataGetCash /\ c.error = bb.error
      BY <3>1 DEF ServerLeft, Buffers
    <3>4. /\ b' \in Buffers /\ b'.statusClient = "END_WORK" /\ b'.isClientConnect = FALSE
          /\ b'.buf = c.buf /\ b'.isReadyToSend = c.isReadyToSend
          /\ b'.isEndSend = c.isEndSend /\ b'.isReadyConnect = c.isReadyConnect
          /\ b'.lengthBody = c.lengthBody /\ b'.haveLength = c.haveLength
          /\ b'.isAddDataToCash = c.isAddDataToCash
          /\ b'.isDataGetCash = c.isDataGetCash /\ b'.error = c.error
          /\ b'.statusServer = c.statusServer /\ b'.isServerConnect = c.isServerConnect
      BY <3>2 DEF UserLeft, Buffers, ClientStatuses, ServerStatuses
    <3>5. QED
      BY <2>1, <3>3, <3>4
  <2>2. CASE ~(pair /\ ~bb.isAddDataToCash)
    <3>1. b' = UserLeft(bb)
      BY <1>2, <2>2
    <3>2. QED
      BY <2>2, <3>1 DEF UserLeft, Buffers, ClientStatuses, ServerStatuses
  <2>3. QED
    BY <2>1, <2>2
<1>6. /\ elem' \in Elements /\ elem'.data = elem.data /\ elem'.downloadEnd = elem.downloadEnd
      /\ elem'.connected = elem.connected /\ elem'.users = 0
  <2>1. CASE b.isDataGetCash
    <3>1. elem' = [elem EXCEPT !.users = elem.users - 1] /\ elem.users = 1
      BY <1>1, <1>2, <2>1
    <3>2. elem' = [elem EXCEPT !.users = 0]
      BY <3>1
    <3>3. elem \in Elements /\ 0 \in Int
      BY <1>1
    <3>4. QED
      BY <3>2, <3>3, UsersSet, Zenon
  <2>2. CASE ~b.isDataGetCash
    BY <1>1, <1>2, <2>2 DEF Elements
  <2>3. QED
    BY <2>1, <2>2
<1>7. Listed("U") /\ ~Listed("U")' /\ (Listed("S")' => Listed("S"))
  BY <1>3, ListRange DEF Listed, Clients
<1>8. TypeOK'
  <2>1. list' \in {<<"U">>, <<"S", "U">>, <<"S">>, <<>>}
    BY <1>3
  <2>2. freed' \in Nat
    <3>1. freed' = freed \/ freed' = freed + 1
      BY <1>2
    <3>2. QED
      BY <1>1, <3>1
  <2>3. pair' \in BOOLEAN /\ watched' \in BOOLEAN /\ events' \in [Clients -> SUBSET All]
    BY <1>1, <1>2 DEF TypeOK
  <2>4. QED
    BY <1>1, <1>4, <1>5, <1>6, <2>1, <2>2, <2>3 DEF TypeOK
<1>9. Links'
  <2>1. NoDanglingLink'
    BY <1>2, <1>7 DEF NoDanglingLink, Listed
  <2>a. /\ b'.isServerConnect <=> list' = <<"S">>
        /\ list' = <<"S">> \/ list' = <<>>
    BY <1>1, <1>3, <1>5, ListRange
  <2>b. BufferLifetime'
    <3>1. freed = 0 /\ freed' = IF b'.isServerConnect THEN freed ELSE freed + 1
      BY <1>1, <1>2
    <3>2. CASE b'.isServerConnect
      BY <2>a, <3>1, <3>2, ListRange DEF BufferLifetime
    <3>3. CASE ~b'.isServerConnect
      BY <2>a, <3>1, <3>3, ListRange DEF BufferLifetime
    <3>4. QED
      BY <3>2, <3>3
  <2>c. Presence'
    BY <1>5, <2>a, ListRange DEF Presence, Listed
  <2>2. AloneOnlyToFill' /\ ElementHeld'
    BY <1>1, <1>3, <1>5, <1>6, ListRange DEF AloneOnlyToFill, ElementHeld
  <2>3. QED
    BY <2>1, <2>2, <2>b, <2>c DEF Links
<1>10. Course'
  BY <1>2, <1>4, <1>5, <1>7, ListRange
     DEF Core, Course, OneServer, Positions, HangUpsHappened, Listed, Clients
<1>11. \/ b'.statusServer = "END_WORK" /\ list' = <<>>
       \/ b'.statusServer = bb.statusServer /\ (Listed("S") => b.isAddDataToCash)
          /\ (Listed("S")' <=> Listed("S"))
  BY <1>1, <1>3, <1>5, ListRange DEF Listed, Clients
<1>12. QED
  BY <1>5, <1>6, <1>7, <1>8, <1>9, <1>10, <1>11

\* A user who was hung up on, has been served from the cache, or is left with
\* an empty buffer.
LEMMA UserHangsUp ==
    ASSUME Core, "U" \in Range(list), ~b.isReadyConnect, DeleteUser(b),
           \/ pc' = "visit" /\ at' = After(list', After(list, "U")) /\ ~b.isDataGetCash
           \/ pc = "cash" /\ pc' = "done" /\ at' = at,
           ~open["U"] \/ ~open["S"] \/ got["S"] = <<>>, UNCHANGED <<revents, otherVars>>
    PROVE  Core'
<1> USE DEF otherVars, caseVars, peerVars
<1>0. Request' = Request /\ Response' = Response
  BY DEF Request, Response
<1>1. /\ TypeOK' /\ Links' /\ Course'
      /\ Listed("U") /\ ~Listed("U")' /\ (Listed("S")' => Listed("S"))
      /\ b'.statusClient = "END_WORK" /\ b'.buf = b.buf /\ b'.isEndSend = b.isEndSend
      /\ b'.haveLength = b.haveLength /\ b'.lengthBody = b.lengthBody
      /\ b'.isAddDataToCash = b.isAddDataToCash /\ b'.isDataGetCash = b.isDataGetCash
      /\ elem'.data = elem.data /\ elem'.downloadEnd = elem.downloadEnd
      /\ elem'.connected = elem.connected
      /\ \/ b'.statusServer = "END_WORK" /\ list' = <<>>
         \/ b'.statusServer = b.statusServer /\ (Listed("S") => b.isAddDataToCash)
            /\ (Listed("S")' <=> Listed("S"))
  <2>1. b \in Buffers /\ revents \in [Clients -> SUBSET All] /\ got \in [Clients -> Seq(Tokens)]
    BY TypeFacts DEF Core, TypeOK
  <2>2. QED
    BY <2>1, UserGone
<1>2. list' = <<>> => ~Listed("S")'
  BY ListRange DEF Listed
<1>3. Spoken'
  BY <1>0 DEF Core, Flow, Spoken, Read, Speech, Piece
<1>a. RequestFlow'
  BY <1>0, <1>1 DEF Core, Flow, RequestFlow, Between, Read, Speech, Piece
<1>b. HeadingFlow'
  BY <1>0, <1>1 DEF Core, Flow, HeadingFlow, Read
<1>4. ResponseFlow'
  BY <1>0, <1>1, <1>2, ListRange DEF Core, Flow, ResponseFlow, Read, Listed, Clients
<1>5. Endings' /\ Filling'
  BY <1>0, <1>1 DEF Core, Flow, Endings, Filling, Read, Piece
<1>6. QED
  BY <1>1, <1>3, <1>4, <1>5, <1>a, <1>b DEF Core, Flow

\* Every way a visit or the cache ends a client (deleteClient).
LEMMA Leaving ==
    ASSUME Core, FromCash \/ \E c \in Clients : HangsUp(c) \/ EndsWork(c)
    PROVE  Core'
<1>1. CASE FromCash
  BY <1>1, ListRange, UserHangsUp DEF FromCash, Core, Course, Positions
<1>2. ASSUME NEW c \in Clients, HangsUp(c) \/ EndsWork(c) PROVE Core'
  <2>1. /\ at = c /\ pc \in {"visit", "status"} /\ DeleteClient(c) /\ GoesAfterDelete(c)
        /\ UNCHANGED <<revents, otherVars>>
    BY <1>2 DEF HangsUp, EndsWork
  <2>2. c \in Range(list) /\ ~b.isReadyConnect /\ ~b.isDataGetCash
    BY <2>1 DEF Core, TypeOK, Course, Positions, Clients
  <2>3. \A d \in Clients : RdHup \in revents[d] => ~open[d]
    BY DEF Core, Course, HangUpsHappened
  <2>4. /\ Listed("U") /\ b.statusServer = "END_WORK" => ~open["S"] /\ ~Listed("S")
        /\ Listed("U") => b.statusClient # "END_WORK"
    BY DEF Core, Flow, Endings, Links, Presence
  <2>5. CASE c = "S"
    <3>1. Listed("U") => ~open["S"]
      BY <1>2, <2>2, <2>3, <2>4, <2>5 DEF HangsUp, EndsWork, Over, Listed
    <3>2. QED
      BY <2>1, <2>2, <2>5, <3>1, ServerGone DEF DeleteClient
  <2>6. CASE c = "U"
    <3>1. ~open["U"] \/ ~open["S"]
      BY <1>2, <2>2, <2>3, <2>4, <2>6 DEF HangsUp, EndsWork, Over, Listed
    <3>2. QED
      BY <2>1, <2>2, <2>6, <3>1, UserHangsUp DEF DeleteClient, GoesAfterDelete
  <2>7. QED
    BY <2>5, <2>6 DEF Clients
<1>3. QED
  BY <1>1, <1>2

\* The server cannot be reached: its user goes.
LEMMA NotConnecting == ASSUME Core, ConnectFails PROVE Core'
<1> USE DEF caseVars, peerVars, linkVars
<1>a. UNCHANGED <<at, events, revents, kind, reply, inbox, open, sent, got>>
  BY DEF ConnectFails
<1>0. Request' = Request /\ Response' = Response
  BY <1>a DEF Request, Response
<1>1. /\ pc = "connect" /\ list = <<"U">> /\ b.statusServer = "READ_REQUEST"
      /\ b.statusClient \in {"WRITE_REQUEST_HEADING", "WRITE_REQUEST_BODY"}
      /\ Read("U") >= 2 /\ Len(b.buf) = Read("U") /\ ~b.isDataGetCash
  BY DEF ConnectFails, Core, Course, Positions
<1>2. TypeOK /\ ~pair /\ ~watched /\ freed = 0 /\ b.isClientConnect /\ ~b.isServerConnect
      /\ b \in Buffers /\ ~elem.connected /\ elem.users = 0
  BY <1>1, ListRange, TypeFacts
     DEF Core, Links, NoDanglingLink, BufferLifetime, Presence, ElementHeld, Listed, Clients
<1>3. /\ list' = <<>> /\ freed' = 1 /\ pc' = "done" /\ UNCHANGED <<pair, watched, elem>>
      /\ b' = UserLeft([b EXCEPT !.isReadyConnect = FALSE])
  BY <1>1, <1>2, ListWithout DEF ConnectFails
<1>4. PICK c \in Buffers : c = [b EXCEPT !.isReadyConnect = FALSE]
  BY <1>2 DEF Buffers
<1>5. /\ c.statusServer = b.statusServer /\ c.isServerConnect = b.isServerConnect
      /\ c.buf = b.buf /\ c.isEndSend = b.isEndSend /\ c.isReadyConnect = FALSE
      /\ c.isAddDataToCash = b.isAddDataToCash
      /\ c.isDataGetCash = b.isDataGetCash /\ c.error = b.error
  BY <1>2, <1>4 DEF Buffers
<1>6. /\ b' \in Buffers /\ b'.statusClient = "END_WORK" /\ b'.isClientConnect = FALSE
      /\ b'.statusServer = b.statusServer /\ b'.isServerConnect = b.isServerConnect
      /\ b'.buf = b.buf /\ b'.isEndSend = b.isEndSend /\ b'.isReadyConnect = FALSE
      /\ b'.isAddDataToCash = b.isAddDataToCash
      /\ b'.isDataGetCash = b.isDataGetCash /\ b'.error = b.error
  BY <1>3, <1>4, <1>5 DEF UserLeft, Buffers, ClientStatuses, ServerStatuses
<1>7. TypeOK'
  BY <1>2, <1>3, <1>6 DEF TypeOK, ConnectFails
<1>8. Links'
  BY <1>2, <1>3, <1>6, ListRange
     DEF Links, NoDanglingLink, BufferLifetime, Presence, ElementHeld, AloneOnlyToFill, Listed
<1>9. ~Listed("U")' /\ ~Listed("S")' /\ Listed("U") /\ ~Listed("S")
  BY <1>1, <1>3, ListRange DEF Listed
<1>10. Course'
  BY <1>3, <1>6, <1>9
     DEF Core, Course, OneServer, Positions, HangUpsHappened, ConnectFails
<1>11. kind # "bad" /\ got["S"] = <<>>
  <2>1. kind # "bad"
    BY <1>1, LensFacts DEF Core, Flow, HeadingFlow
  <2>2. Len(got["S"]) <= Read("U") - Len(b.buf) /\ Len(got["S"]) \in Nat /\ Len(b.buf) \in Nat
    BY <1>1, <2>1, LensFacts DEF Core, Flow, RequestFlow, Between, Other, Clients
  <2>3. Len(got["S"]) = 0 /\ got["S"] \in Seq(Tokens)
    BY <1>1, <2>2, TypeFacts DEF Core
  <2>4. QED
    BY <2>1, <2>3
<1>12. Spoken' /\ HeadingFlow' /\ ResponseFlow'
  <2>1. Spoken'
    BY <1>0, <1>a DEF Core, Flow, Spoken, Read, Speech, Piece
  <2>2. HeadingFlow'
    BY <1>6, <1>9 DEF HeadingFlow
  <2>3. ResponseFlow'
    BY <1>1, <1>6, <1>9 DEF ResponseFlow
  <2>4. QED
    BY <2>1, <2>2, <2>3
<1>b. RequestFlow'
  BY <1>0, <1>1, <1>6, <1>a DEF Core, Flow, RequestFlow, Between, Read, Speech, Piece
<1>13. Endings' /\ Filling'
  BY <1>0, <1>1, <1>3, <1>6, <1>9, <1>11 DEF Core, Flow, Endings, Filling, Read, Piece, ConnectFails
<1>14. QED
  BY <1>7, <1>8, <1>10, <1>12, <1>13, <1>b DEF Core, Flow


-----------------------------------------------------------------------------
(* The cache grows, and the server joins. *)

\* The element this thread serves from has grown.
LEMMA Growing == ASSUME Core, CacheGrows PROVE Core'
<1> USE DEF linkVars, otherVars, caseVars, peerVars
<1>0. UNCHANGED <<list, pc, at, events, revents, pair, watched, freed, elem, kind, reply,
                  inbox, open, sent, got>>
  BY DEF CacheGrows
<1>a. Request' = Request /\ Response' = Response
  BY <1>0 DEF Request, Response
<1>1. list # <<>> /\ b.isDataGetCash /\ b' = [b EXCEPT !.isReadyToSend = TRUE] /\ b \in Buffers
  BY TypeFacts DEF CacheGrows, Core
<1>2. /\ b' \in Buffers
      /\ b'.statusClient = b.statusClient /\ b'.statusServer = b.statusServer
      /\ b'.buf = b.buf /\ b'.isClientConnect = b.isClientConnect
      /\ b'.isServerConnect = b.isServerConnect
      /\ b'.isEndSend = b.isEndSend /\ b'.isReadyConnect = b.isReadyConnect
      /\ b'.lengthBody = b.lengthBody /\ b'.haveLength = b.haveLength
      /\ b'.isAddDataToCash = b.isAddDataToCash
      /\ b'.isDataGetCash = b.isDataGetCash /\ b'.error = b.error
  BY <1>1 DEF Buffers
<1>3. list = <<"U">>
  BY <1>1 DEF Core, TypeOK, Course, Positions
<1>4. TypeOK'
  BY <1>0, <1>2 DEF Core, TypeOK
<1>5. Links'
  BY <1>0, <1>2 DEF Core, Links, NoDanglingLink, BufferLifetime, AloneOnlyToFill,
                    ElementHeld, Presence, Listed
<1>6. Course'
  BY <1>0, <1>2 DEF Core, Course, OneServer, Positions, HangUpsHappened, Listed, Read
<1>7. Spoken' /\ Endings' /\ Filling'
  BY <1>0, <1>a, <1>2 DEF Core, Flow, Spoken, Endings, Filling, Read, Speech, Piece, Listed
<1>8. RequestFlow'
  BY <1>0, <1>a, <1>2 DEF Core, Flow, RequestFlow, Between, Read, Speech, Piece
<1>9. HeadingFlow'
  BY <1>0, <1>a, <1>2 DEF Core, Flow, HeadingFlow, Read, Piece, Listed
<1>10. ResponseFlow'
  <2>1. b.statusServer \notin {"WRITE_RESPONSE_HEADING", "WRITE_RESPONSE_BODY"}
    BY <1>3, ListRange DEF Core, Flow, ResponseFlow, Listed
  <2>2. QED
    BY <1>0, <1>a, <1>2, <2>1 DEF Core, Flow, ResponseFlow, Between, Read, Speech, Piece, Listed
<1>11. QED
  BY <1>4, <1>5, <1>6, <1>7, <1>8, <1>9, <1>10 DEF Core, Flow

\* The server joins in front of its user.
LEMMA Connecting == ASSUME Core, Connects PROVE Core'
<1> USE DEF caseVars
<1>1. /\ pc = "connect" /\ list = <<"U">> /\ b.statusServer = "READ_REQUEST"
      /\ b.statusClient \in {"WRITE_REQUEST_HEADING", "WRITE_REQUEST_BODY"}
      /\ Read("U") >= 2 /\ Len(b.buf) = Read("U") /\ ~b.isDataGetCash
  BY DEF Connects, Core, Course, Positions
<1>2. /\ list' = <<"S">> \o list /\ pair' = TRUE /\ watched' = TRUE /\ pc' = "status"
      /\ events' = [events EXCEPT !["S"] = All] /\ revents' = [revents EXCEPT !["S"] = {}]
      /\ inbox' = [inbox EXCEPT !["S"] = <<>>] /\ open' = [open EXCEPT !["S"] = TRUE]
      /\ sent' = [sent EXCEPT !["S"] = <<>>] /\ got' = [got EXCEPT !["S"] = <<>>]
      /\ UNCHANGED <<at, freed, elem, kind, reply>>
      /\ b' = [b EXCEPT !.isReadyConnect = FALSE, !.isServerConnect = TRUE]
  BY DEF Connects, Joined, Connected
<1>0. Request' = Request /\ Response' = Response
  BY <1>2 DEF Request, Response
<1>3. list' = <<"S", "U">>
  <2>1. list' = <<"S">> \o list /\ list = <<"U">>
    BY <1>1, <1>2
  <2>2. <<"S">> \o <<"U">> = <<"S", "U">>
    <3>1. <<"S">> \in Seq({"S", "U"}) /\ <<"U">> \in Seq({"S", "U"})
      OBVIOUS
    <3>2. <<"S">> \o <<"U">> \in Seq({"S", "U"}) /\ Len(<<"S">> \o <<"U">>) = 2
          /\ (<<"S">> \o <<"U">>)[1] = "S" /\ (<<"S">> \o <<"U">>)[2] = "U"
      BY <3>1
    <3>3. QED
      BY <3>2, OfPair
  <2>3. QED
    BY <2>1, <2>2
<1>4. /\ TypeOK /\ b \in Buffers /\ freed = 0 /\ b.isClientConnect
      /\ b.statusClient # "END_WORK" /\ ~elem.connected /\ elem.users = 0
  BY <1>1, ListRange, TypeFacts
     DEF Core, Links, NoDanglingLink, BufferLifetime, Presence, ElementHeld, Listed, Clients
<1>5. /\ b' \in Buffers /\ b'.statusClient = b.statusClient /\ b'.isClientConnect = TRUE
      /\ b'.statusServer = b.statusServer /\ b'.isServerConnect = TRUE
      /\ b'.buf = b.buf /\ b'.isEndSend = b.isEndSend /\ b'.isReadyConnect = FALSE
      /\ b'.lengthBody = b.lengthBody
      /\ b'.isAddDataToCash = b.isAddDataToCash
      /\ b'.isDataGetCash = b.isDataGetCash /\ b'.error = b.error
  BY <1>2, <1>4 DEF Buffers
<1>6. kind # "bad" /\ b.isAddDataToCash = FALSE /\ sent["S"] = <<>>
  <2>1. kind # "bad"
    BY <1>1, LensFacts DEF Core, Flow, HeadingFlow
  <2>2. b \in Buffers
    BY <1>4
  <2>3. QED
    BY <1>1, <2>1, <2>2 DEF Core, Flow, RequestFlow, Buffers
<1>7. TypeOK'
  <2>1. events' \in [Clients -> SUBSET All] /\ revents' \in [Clients -> SUBSET All]
    BY <1>2, <1>4 DEF TypeOK
  <2>2. /\ inbox' \in [Clients -> Seq(Tokens)] /\ open' \in [Clients -> BOOLEAN]
        /\ sent' \in [Clients -> Seq(Tokens)] /\ got' \in [Clients -> Seq(Tokens)]
    <3>1. /\ inbox \in [Clients -> Seq(Tokens)] /\ open \in [Clients -> BOOLEAN]
          /\ sent \in [Clients -> Seq(Tokens)] /\ got \in [Clients -> Seq(Tokens)]
          /\ <<>> \in Seq(Tokens)
      BY <1>4 DEF TypeOK
    <3>2. inbox' \in [Clients -> Seq(Tokens)] /\ open' \in [Clients -> BOOLEAN]
      BY <1>2, <3>1
    <3>3. sent' \in [Clients -> Seq(Tokens)] /\ got' \in [Clients -> Seq(Tokens)]
      BY <1>2, <3>1
    <3>4. QED
      BY <3>2, <3>3
  <2>3. at' \in Range(list') /\ at' \in Clients
    BY <1>1, <1>2, <1>3, <1>4, ListRange DEF TypeOK, Clients
  <2>4. QED
    BY <1>2, <1>3, <1>4, <1>5, <2>1, <2>2, <2>3 DEF TypeOK
<1>8. Links'
  <2>1. "U" \in Range(list') /\ "S" \in Range(list') /\ list' # <<>> /\ list' # <<"U">>
    BY <1>3, ListRange DEF Clients
  <2>2. NoDanglingLink' /\ BufferLifetime'
    BY <1>2, <1>3, <1>4, <2>1 DEF NoDanglingLink, BufferLifetime
  <2>3. Presence'
    BY <1>2, <1>4, <1>5, <2>1 DEF Presence, Listed
  <2>4. ElementHeld' /\ AloneOnlyToFill'
    BY <1>1, <1>2, <1>4, <1>5, <2>1 DEF ElementHeld, AloneOnlyToFill
  <2>5. QED
    BY <2>2, <2>3, <2>4 DEF Links
<1>9. Course'
  <2>1. /\ \A c \in Clients : RdHup \in revents'[c] => ~open'[c]
        /\ b'.error => kind = "bad"
    BY <1>2, <1>4, <1>5 DEF Core, Course, HangUpsHappened, TypeOK
  <2>2. QED
    BY <1>1, <1>2, <1>5, <1>6, <2>1 DEF Course, OneServer, Positions, HangUpsHappened
<1>10. Listed("U") /\ Listed("U")' /\ Listed("S")' /\ ~Listed("S")
  BY <1>1, <1>3, ListRange DEF Listed, Clients
<1>11. /\ Len(got["U"]) = 0 /\ Len(Request) \in Nat /\ Len(Response) \in Nat
       /\ Read("U") \in Nat
  <2>1. Len(got["U"]) <= Read("S") /\ Len(got["U"]) \in Nat /\ Len(inbox["S"]) \in Nat
    BY LensFacts DEF Core, Flow, Spoken, Other, Clients
  <2>2. Read("S") <= 0
    BY <1>6, <2>1 DEF Read
  <2>3. QED
    BY <2>1, <2>2, LensFacts DEF Clients
<1>12. /\ got'["S"] = <<>> /\ sent'["S"] = <<>> /\ inbox'["S"] = <<>>
       /\ got'["U"] = got["U"] /\ sent'["U"] = sent["U"] /\ inbox'["U"] = inbox["U"]
       /\ open'["U"] = open["U"] /\ Read("U")' = Read("U") /\ Read("S")' = 0
  BY <1>2, <1>4 DEF TypeOK, Clients, Read
<1>13. Spoken'
  <2>1. /\ Piece(sent["U"], Request, 0)
        /\ Len(inbox["U"]) <= Len(sent["U"]) /\ Piece(inbox["U"], Request, Read("U"))
    BY DEF Core, Flow, Spoken, Speech, Clients
  <2>2. \A s, r : Len(s) = 0 /\ Len(r) \in Nat => Piece(s, r, 0)
    BY DEF Piece
  <2>3. Len(<<>>) = 0
    OBVIOUS
  <2>4. Piece(got["U"], Response, 0) /\ Piece(<<>>, Request, 0) /\ Piece(<<>>, Response, 0)
    BY <1>11, <2>2, <2>3
  <2>5. /\ Piece(sent["U"], Request, 0)'
        /\ Len(inbox["U"])' <= Len(sent["U"])' /\ Piece(inbox["U"], Request, Read("U"))'
        /\ Len(got["S"])' <= Read("U")' /\ Piece(got["S"], Request, 0)'
    BY <1>0, <1>11, <1>12, <2>1, <2>3, <2>4 DEF Piece
  <2>6. /\ Piece(sent["S"], Response, 0)'
        /\ Len(inbox["S"])' <= Len(sent["S"])' /\ Piece(inbox["S"], Response, Read("S"))'
        /\ Len(got["U"])' <= Read("S")' /\ Piece(got["U"], Response, 0)'
    BY <1>0, <1>11, <1>12, <2>3, <2>4 DEF Piece
  <2>7. QED
    BY <2>5, <2>6 DEF Spoken, Speech, Other, Clients
<1>14. RequestFlow'
  BY <1>0, <1>1, <1>2, <1>5, <1>6, <1>11, <1>12
     DEF Core, Flow, RequestFlow, Between, Speech, Piece, Other
<1>15. HeadingFlow'
  BY <1>0, <1>1, <1>2, <1>5, <1>11, <1>12 DEF Core, Flow, HeadingFlow
<1>16. ResponseFlow' /\ Endings'
  BY <1>1, <1>5, <1>10 DEF ResponseFlow, Endings
<1>17. Filling'
  BY <1>0, <1>2, <1>4, <1>5, <1>6, <1>12 DEF Core, Flow, Filling, Piece
<1>18. QED
  BY <1>7, <1>8, <1>9, <1>13, <1>14, <1>15, <1>16, <1>17 DEF Core, Flow

-----------------------------------------------------------------------------
(* Writing. *)

\* The fields which no write touches.
SameLinks(r, c) ==
    /\ r.isClientConnect = c.isClientConnect /\ r.isServerConnect = c.isServerConnect
    /\ r.isReadyConnect = c.isReadyConnect /\ r.lengthBody = c.lengthBody
    /\ r.haveLength = c.haveLength /\ r.isAddDataToCash = c.isAddDataToCash
    /\ r.isDataGetCash = c.isDataGetCash /\ r.error = c.error

\* proofSend leaves the links alone, and the statuses too unless the buffer is
\* empty and its end was in it.
LEMMA ProofSent ==
    ASSUME b \in Buffers, NEW n \in 0 .. Len(b.buf), NEW r, r = ProofSend(n)
    PROVE  /\ r \in Buffers /\ r.buf = SubSeq(b.buf, n + 1, Len(b.buf)) /\ SameLinks(r, b)
           /\ \/ /\ r.buf # <<>> \/ ~b.isEndSend
                 /\ r.statusClient = b.statusClient /\ r.statusServer = b.statusServer
                 /\ r.isEndSend = b.isEndSend
                 /\ r.isReadyToSend <=> b.isReadyToSend /\ r.buf # <<>>
              \/ /\ r.buf = <<>> /\ b.isEndSend /\ ~r.isReadyToSend
                 /\ b.statusServer = "READ_REQUEST"
                 /\ r.statusClient = "READ_RESPONSE"
                 /\ r.statusServer = "WRITE_RESPONSE_HEADING" /\ ~r.isEndSend
              \/ /\ r.buf = <<>> /\ b.isEndSend /\ ~r.isReadyToSend
                 /\ b.statusServer # "READ_REQUEST"
                 /\ b.statusClient = "READ_RESPONSE"
                 /\ r.statusClient = "END_WORK" /\ r.statusServer = "END_WORK"
                 /\ r.isEndSend
              \/ b.error
              \/ b.statusClient # "READ_RESPONSE" /\ b.statusServer # "READ_REQUEST"
<1>1. PICK c \in Buffers : c = [b EXCEPT !.buf = SubSeq(b.buf, n + 1, Len(b.buf))]
  <2>1. SubSeq(b.buf, n + 1, Len(b.buf)) \in Seq(Tokens)
    BY DEF Buffers
  <2>2. QED
    BY <2>1 DEF Buffers
<1>2. /\ c.buf = SubSeq(b.buf, n + 1, Len(b.buf))
      /\ c.statusClient = b.statusClient /\ c.statusServer = b.statusServer
      /\ c.isEndSend = b.isEndSend /\ c.isReadyToSend = b.isReadyToSend
      /\ SameLinks(c, b) /\ c.error \in BOOLEAN /\ c.isEndSend \in BOOLEAN
      /\ c.isReadyToSend \in BOOLEAN
  BY <1>1 DEF Buffers, SameLinks
<1>3. r = IF c.buf # <<>> THEN c
          ELSE IF ~c.isEndSend THEN [c EXCEPT !.isReadyToSend = FALSE]
          ELSE IF c.statusClient = "READ_RESPONSE" /\ c.error
             THEN [c EXCEPT !.statusClient = "END_WORK", !.isEndSend = FALSE]
          ELSE IF c.statusServer = "READ_REQUEST"
             THEN [c EXCEPT !.statusClient = "READ_RESPONSE",
                            !.statusServer = "WRITE_RESPONSE_HEADING",
                            !.isEndSend = FALSE, !.isReadyToSend = FALSE]
          ELSE IF c.statusClient = "READ_RESPONSE"
             THEN [c EXCEPT !.statusClient = "END_WORK",
                            !.statusServer = "END_WORK",
                            !.isReadyToSend = FALSE]
          ELSE [c EXCEPT !.isReadyToSend = FALSE]
  BY <1>1 DEF ProofSend
<1>4. CASE c.buf # <<>>
  <2>1. r = c
    BY <1>3, <1>4
  <2>2. QED
    BY <1>2, <1>4, <2>1
<1>5. CASE c.buf = <<>> /\ ~c.isEndSend
  <2>1. r = [c EXCEPT !.isReadyToSend = FALSE]
    BY <1>3, <1>5
  <2>2. r \in Buffers
    BY <2>1 DEF Buffers, ClientStatuses, ServerStatuses
  <2>3. /\ r.buf = c.buf /\ SameLinks(r, c)
        /\ r.statusClient = c.statusClient /\ r.statusServer = c.statusServer
        /\ r.isEndSend = c.isEndSend /\ ~r.isReadyToSend
    BY <2>1 DEF Buffers, SameLinks
  <2>4. QED
    BY <1>2, <1>5, <2>2, <2>3 DEF SameLinks
<1>6. CASE c.buf = <<>> /\ c.isEndSend /\ c.statusClient = "READ_RESPONSE" /\ c.error
  <2>1. r = [c EXCEPT !.statusClient = "END_WORK", !.isEndSend = FALSE]
    BY <1>3, <1>6
  <2>2. r \in Buffers
    BY <2>1 DEF Buffers, ClientStatuses, ServerStatuses
  <2>3. /\ r.buf = c.buf /\ SameLinks(r, c)
        /\ r.statusClient = "END_WORK" /\ r.statusServer = c.statusServer
        /\ ~r.isEndSend /\ r.isReadyToSend = c.isReadyToSend
    BY <2>1 DEF Buffers, SameLinks
  <2>4. b.error
    BY <1>2, <1>6 DEF SameLinks
  <2>5. r.buf = SubSeq(b.buf, n + 1, Len(b.buf)) /\ SameLinks(r, b)
    BY <1>2, <2>3 DEF SameLinks
  <2>6. QED
    BY <2>2, <2>4, <2>5
<1>7. CASE /\ c.buf = <<>> /\ c.isEndSend /\ ~(c.statusClient = "READ_RESPONSE" /\ c.error)
           /\ c.statusServer = "READ_REQUEST"
  <2>1. r = [c EXCEPT !.statusClient = "READ_RESPONSE",
                      !.statusServer = "WRITE_RESPONSE_HEADING",
                      !.isEndSend = FALSE, !.isReadyToSend = FALSE]
    BY <1>3, <1>7
  <2>2. r \in Buffers
    BY <2>1 DEF Buffers, ClientStatuses, ServerStatuses
  <2>3. /\ r.buf = c.buf /\ SameLinks(r, c)
        /\ r.statusClient = "READ_RESPONSE" /\ r.statusServer = "WRITE_RESPONSE_HEADING"
        /\ ~r.isEndSend /\ ~r.isReadyToSend
    BY <2>1 DEF Buffers, SameLinks
  <2>4. QED
    BY <1>2, <1>7, <2>2, <2>3 DEF SameLinks
<1>8. CASE /\ c.buf = <<>> /\ c.isEndSend /\ c.statusClient = "READ_RESPONSE" /\ ~c.error
           /\ c.statusServer # "READ_REQUEST"
  <2>1. r = [c EXCEPT !.statusClient = "END_WORK", !.statusServer = "END_WORK",
                      !.isReadyToSend = FALSE]
    BY <1>3, <1>8
  <2>2. r \in Buffers
    BY <2>1 DEF Buffers, ClientStatuses, ServerStatuses
  <2>3. /\ r.buf = c.buf /\ SameLinks(r, c)
        /\ r.statusClient = "END_WORK" /\ r.statusServer = "END_WORK"
        /\ r.isEndSend = c.isEndSend /\ ~r.isReadyToSend
    BY <2>1 DEF Buffers, SameLinks
  <2>4. QED
    BY <1>2, <1>8, <2>2, <2>3 DEF SameLinks
<1>9. CASE /\ c.buf = <<>> /\ c.isEndSend /\ c.statusClient # "READ_RESPONSE"
           /\ c.statusServer # "READ_REQUEST"
  <2>1. r = [c EXCEPT !.isReadyToSend = FALSE]
    BY <1>3, <1>9
  <2>2. r \in Buffers
    BY <2>1 DEF Buffers, ClientStatuses, ServerStatuses
  <2>3. /\ r.buf = c.buf /\ SameLinks(r, c)
        /\ r.statusClient = c.statusClient /\ r.statusServer = c.statusServer
        /\ r.isEndSend = c.isEndSend /\ ~r.isReadyToSend
    BY <2>1 DEF Buffers, SameLinks
  <2>4. QED
    BY <1>2, <1>9, <2>2, <2>3 DEF SameLinks
<1>10. QED
  BY <1>4, <1>5, <1>6, <1>7, <1>8, <1>9

\* Outside the cache a round sends the first n tokens of the buffer.
LEMMA RoundSent ==
    ASSUME Core, NEW c \in Clients, NEW round \in Rounds, Writes(c, round)
    PROVE  \E n \in 0 .. Len(b.buf) :
               /\ round.out = SubSeq(b.buf, 1, n) /\ round.b = ProofSend(n)
               /\ c \in Range(list) /\ ~b.isDataGetCash /\ b \in Buffers /\ b.isReadyToSend
               /\ Out \in revents[c] /\ ~b.isReadyConnect
               /\ b.buf \in Seq(Tokens) /\ round.out \in Seq(Tokens) /\ Len(round.out) = n
               /\ Len(SubSeq(b.buf, n + 1, Len(b.buf))) = Len(b.buf) - n
<1>1. pc = "status" /\ at = c /\ b.isReadyToSend /\ Out \in revents[c]
  BY DEF Writes
<1>2. c \in Range(list) /\ ~b.isDataGetCash /\ ~b.isReadyConnect
  BY <1>1 DEF Core, TypeOK, Course, Positions
<1>3. b \in Buffers /\ b.buf \in Seq(Tokens) /\ Len(b.buf) \in Nat
  BY TypeFacts DEF Core
<1>4. PICK n \in 0 .. Len(b.buf) : round = [out |-> SubSeq(b.buf, 1, n), b |-> ProofSend(n)]
  <2>1. PICK n \in (IF b.buf = <<>> THEN {0} ELSE 1 .. Len(b.buf)) :
            round = [out |-> SubSeq(b.buf, 1, n), b |-> ProofSend(n)]
    BY <1>2 DEF Rounds
  <2>2. n \in 0 .. Len(b.buf)
    BY <1>3, <2>1
  <2>3. QED
    BY <2>1, <2>2
<1>5. SubSeq(b.buf, 1, n) \in Seq(Tokens) /\ Len(SubSeq(b.buf, 1, n)) = n
      /\ Len(SubSeq(b.buf, n + 1, Len(b.buf))) = Len(b.buf) - n
  BY <1>3
<1>6. QED
  BY <1>1, <1>2, <1>3, <1>4, <1>5


\* What is taken from the buffer's front reaches the other side, or nobody.
LEMMA Passed ==
    ASSUME Core, NEW c \in Clients, NEW d, d = Other(c), Between(c),
           NEW n \in 0 .. Len(b.buf),
           got' = IF open[d] THEN [got EXCEPT ![d] = @ \o SubSeq(b.buf, 1, n)] ELSE got,
           b'.buf = SubSeq(b.buf, n + 1, Len(b.buf)),
           UNCHANGED <<caseVars, inbox, open, sent>>
    PROVE  /\ got' \in [Clients -> Seq(Tokens)] /\ Spoken' /\ Between(c)'
           /\ Len(b'.buf) = Len(b.buf) - n /\ got'[c] = got[c]
           /\ \A e \in Clients : Speech(e)' = Speech(e) /\ Read(e)' = Read(e)
<1>1. d \in Clients /\ d # c /\ Other(d) = c /\ \A e \in Clients : e = c \/ e = d
  BY DEF Other, Clients
<1>2. /\ b.buf \in Seq(Tokens) /\ got[d] \in Seq(Tokens) /\ Speech(c) \in Seq(Tokens)
      /\ Read(c) \in Nat /\ Len(b.buf) \in Nat /\ Len(got[d]) \in Nat
      /\ got \in [Clients -> Seq(Tokens)]
  BY <1>1, TypeFacts, LensFacts DEF Core, TypeOK
<1>a. PICK k \in Nat : k = Read(c) - Len(b.buf)
  BY <1>2 DEF Between
<1>b. PICK out : out = SubSeq(b.buf, 1, n)
  OBVIOUS
<1>3. /\ Piece(b.buf, Speech(c), k) /\ Len(got[d]) <= k
      /\ open[d] => Len(got[d]) = k
  BY <1>1, <1>2, <1>a DEF Between
<1>4. /\ out \in Seq(Tokens) /\ Len(out) = n /\ Piece(out, Speech(c), k)
      /\ Len(b'.buf) = Len(b.buf) - n /\ Piece(b'.buf, Speech(c), k + n)
  <2>1. /\ SubSeq(b.buf, 1, n) \in Seq(Tokens)
        /\ Len(SubSeq(b.buf, 1, n)) = n
        /\ Len(SubSeq(b.buf, n + 1, Len(b.buf))) = Len(b.buf) - n
        /\ Piece(SubSeq(b.buf, 1, n), Speech(c), k)
        /\ Piece(SubSeq(b.buf, n + 1, Len(b.buf)), Speech(c), k + n)
    <3>1. PICK s \in Seq(Tokens), r \in Seq(Tokens) : s = b.buf /\ r = Speech(c)
      BY <1>2
    <3>2. Piece(s, r, k) /\ n \in 0 .. Len(s)
      BY <1>3, <3>1
    <3>3. /\ SubSeq(s, 1, n) \in Seq(Tokens) /\ Len(SubSeq(s, 1, n)) = n
          /\ Len(SubSeq(s, n + 1, Len(s))) = Len(s) - n
          /\ Piece(SubSeq(s, 1, n), r, k) /\ Piece(SubSeq(s, n + 1, Len(s)), r, k + n)
      BY <3>2, PieceCut
    <3>4. QED
      BY <3>1, <3>3
  <2>2. QED
    BY <1>b, <2>1
<1>5. /\ Piece(got[d], Speech(c), 0) /\ Piece(got[c], Speech(d), 0)
      /\ Len(got[c]) <= Read(d)
  BY <1>1 DEF Core, Flow, Spoken
<1>6. UNCHANGED <<kind, reply, inbox, open, sent>>
  BY DEF caseVars
<1>7. \A e \in Clients : Speech(e)' = Speech(e) /\ Read(e)' = Read(e)
  BY <1>6 DEF Speech, Read, Request, Response
<1>8. /\ got' \in [Clients -> Seq(Tokens)] /\ got'[c] = got[c]
      /\ Piece(got'[d], Speech(c), 0)
      /\ open[d] => Len(got'[d]) = Len(got[d]) + n
      /\ ~open[d] => Len(got'[d]) = Len(got[d])
  <2>1. CASE open[d]
    <3>1. got' = [got EXCEPT ![d] = got[d] \o out]
      BY <1>b, <2>1
    <3>2. 0 + Len(got[d]) = k /\ 0 \in Nat
      BY <1>2, <1>3, <2>1
    <3>3. /\ got[d] \o out \in Seq(Tokens) /\ Len(got[d] \o out) = Len(got[d]) + Len(out)
          /\ Piece(got[d] \o out, Speech(c), 0)
      BY <1>2, <1>4, <1>5, <3>2, PieceJoin
    <3>4. QED
      BY <1>1, <1>2, <1>4, <2>1, <3>1, <3>3
  <2>2. CASE ~open[d]
    BY <1>2, <1>5, <2>2
  <2>3. QED
    BY <2>1, <2>2
<1>9. Between(c)'
  <2>1. /\ Len(b'.buf) <= Read(c) /\ Piece(b'.buf, Speech(c), Read(c) - Len(b'.buf))
        /\ Len(got'[d]) <= Read(c) - Len(b'.buf)
        /\ open[d] => Len(got'[d]) = Read(c) - Len(b'.buf)
    <3>1. Read(c) - Len(b'.buf) = k + n /\ Len(b'.buf) <= Read(c)
      BY <1>2, <1>4, <1>a
    <3>2. Len(got'[d]) <= k + n /\ (open[d] => Len(got'[d]) = k + n)
      <4>1. k \in Nat /\ n \in Nat /\ Len(got[d]) \in Nat /\ Len(got[d]) <= k
            /\ (open[d] => Len(got[d]) = k)
        BY <1>2, <1>3
      <4>2. CASE open[d]
        <5>1. Len(got'[d]) = k + n
          BY <1>8, <4>1, <4>2
        <5>2. QED
          BY <4>1, <5>1
      <4>3. CASE ~open[d]
        <5>1. Len(got'[d]) = Len(got[d])
          BY <1>8, <4>3
        <5>2. QED
          BY <4>1, <4>3, <5>1
      <4>4. QED
        BY <4>2, <4>3
    <3>3. QED
      BY <1>4, <3>1, <3>2
  <2>2. (Piece(b.buf, Speech(c), Read(c) - Len(b.buf)))'
    BY <1>7, <2>1 DEF Piece
  <2>3. QED
    BY <1>1, <1>6, <1>7, <2>1, <2>2 DEF Between
<1>10. Spoken'
  <2> SUFFICES ASSUME NEW e \in Clients
      PROVE (/\ Piece(sent[e], Speech(e), 0)
             /\ Len(inbox[e]) <= Len(sent[e]) /\ Piece(inbox[e], Speech(e), Read(e))
             /\ Len(got[Other(e)]) <= Read(e) /\ Piece(got[Other(e)], Speech(e), 0))'
    BY DEF Spoken
  <2> SUFFICES
            /\ Piece(sent[e], Speech(e), 0)
            /\ Len(inbox[e]) <= Len(sent[e]) /\ Piece(inbox[e], Speech(e), Read(e))
            /\ Len(got'[Other(e)]) <= Read(e) /\ Piece(got'[Other(e)], Speech(e), 0)
    BY <1>6, <1>7 DEF Piece, Other
  <2>1. /\ Piece(sent[e], Speech(e), 0)
        /\ Len(inbox[e]) <= Len(sent[e]) /\ Piece(inbox[e], Speech(e), Read(e))
    BY DEF Core, Flow, Spoken
  <2>2. CASE e = c
    <3>1. Len(got'[d]) <= Read(c)
      <4>1. k + n <= Read(c) /\ k \in Nat /\ n \in Nat /\ Len(got[d]) \in Nat
              /\ Read(c) \in Nat
        BY <1>2, <1>a
      <4>2. Len(got[d]) <= k
        BY <1>3
      <4>3. Len(got'[d]) = Len(got[d]) + n \/ Len(got'[d]) = Len(got[d])
        BY <1>8
      <4>4. QED
        BY <4>1, <4>2, <4>3
    <3>2. QED
      BY <1>8, <2>1, <2>2, <3>1
  <2>3. CASE e = d
    BY <1>1, <1>5, <1>8, <2>1, <2>3
  <2>4. QED
    BY <1>1, <2>2, <2>3
<1>11. QED
  BY <1>4, <1>7, <1>8, <1>9, <1>10

\* A piece of the request goes to the server; the last one starts the
\* response phase.
LEMMA WritingRequest == ASSUME Core, WritesRequest PROVE Core'
<1>1. PICK round \in Rounds :
          /\ Writes("S", round) /\ b' = round.b /\ Goes("S")
          /\ events' = IF b'.statusServer = "WRITE_RESPONSE_HEADING" /\ ~b'.isReadyToSend
                          THEN [c \in Clients |-> IF c = "S" THEN {In, RdHup}
                                                  ELSE IF watched THEN All ELSE events[c]]
                          ELSE events
          /\ UNCHANGED <<list, linkVars, freed, elem>>
  BY DEF WritesRequest
<1>2. PICK n \in 0 .. Len(b.buf) :
          /\ round.out = SubSeq(b.buf, 1, n) /\ round.b = ProofSend(n)
          /\ "S" \in Range(list) /\ ~b.isDataGetCash /\ b \in Buffers /\ b.isReadyToSend
          /\ ~b.isReadyConnect /\ b.buf \in Seq(Tokens)
  BY <1>1, RoundSent DEF Clients
<1>3. b.statusServer = "READ_REQUEST" /\ pc = "status"
  BY <1>1 DEF Writes, Takes
<1>4. /\ kind # "bad" /\ ~b.error /\ ~b.isAddDataToCash /\ sent["S"] = <<>>
      /\ Between("U") /\ (b.isEndSend <=> Read("U") = Len(Request))
      /\ (b.isEndSend => b.buf # <<>>) /\ b.statusClient # "READ_RESPONSE"
  BY <1>2, <1>3 DEF Core, Course, HangUpsHappened, Listed, Flow, RequestFlow
<1>5. list = <<"S", "U">> /\ TypeOK
  BY <1>2, <1>4, ListRange DEF Core, TypeOK, Links, AloneOnlyToFill
<1>6. /\ b' \in Buffers /\ b'.buf = SubSeq(b.buf, n + 1, Len(b.buf)) /\ SameLinks(b', b)
      /\ \/ /\ b'.buf # <<>> \/ ~b.isEndSend
            /\ b'.statusClient = b.statusClient /\ b'.statusServer = b.statusServer
            /\ b'.isEndSend = b.isEndSend
         \/ /\ b'.buf = <<>> /\ b.isEndSend /\ ~b'.isReadyToSend
            /\ b'.statusClient = "READ_RESPONSE"
            /\ b'.statusServer = "WRITE_RESPONSE_HEADING" /\ ~b'.isEndSend
  BY <1>1, <1>2, <1>3, <1>4, ProofSent
<1>7. /\ got' = IF open["S"] THEN [got EXCEPT !["S"] = @ \o round.out] ELSE got
      /\ revents' = [revents EXCEPT !["S"] = {}]
      /\ UNCHANGED <<kind, reply, inbox, open, sent>>
  BY <1>1 DEF Writes, caseVars
<1>8. /\ got' \in [Clients -> Seq(Tokens)] /\ Spoken' /\ Between("U")'
      /\ Len(b'.buf) = Len(b.buf) - n /\ got'["U"] = got["U"]
      /\ \A d \in Clients : Speech(d)' = Speech(d) /\ Read(d)' = Read(d)
  <2>1. "U" \in Clients /\ "S" = Other("U")
    BY DEF Clients, Other
  <2>2. QED
    BY <1>2, <1>4, <1>6, <1>7, <2>1, Passed DEF caseVars
<1>9. UNCHANGED <<pair, watched, list, freed, elem>> /\ pc' = "visit" /\ at' = "U"
  BY <1>1, <1>5, ListIterator DEF linkVars, Goes
<1>10. /\ events' \in [Clients -> SUBSET All] /\ revents' \in [Clients -> SUBSET All]
       /\ \A c \in Clients : revents'[c] \subseteq revents[c]
  BY <1>1, <1>5, <1>7 DEF TypeOK, All, Clients, In, RdHup
<1>11. TypeOK'
  BY <1>5, <1>6, <1>7, <1>8, <1>9, <1>10, ListRange DEF TypeOK, Clients
<1>12. Links'
  BY <1>4, <1>5, <1>6, <1>9, ListRange
     DEF Core, Links, NoDanglingLink, BufferLifetime, AloneOnlyToFill, ElementHeld,
         Presence, Listed, SameLinks, Clients
<1>13. Course'
  BY <1>2, <1>4, <1>6, <1>7, <1>9, <1>10
     DEF Core, Course, OneServer, Positions, HangUpsHappened, SameLinks
<1>14. /\ Len(Request) \in Nat /\ Len(Response) \in Nat /\ Read("U") \in Nat /\ Read("S") = 0
       /\ Len(got["U"]) = 0
       /\ Request' = Request /\ Response' = Response
  <2>1. /\ Len(Request) \in Nat /\ Len(Response) \in Nat /\ Read("U") \in Nat
        /\ Read("S") \in Nat /\ Len(got["U"]) \in Nat /\ Len(inbox["S"]) \in Nat
    BY LensFacts DEF Clients
  <2>2. Read("S") = 0
    BY <1>4, <2>1 DEF Read
  <2>3. Len(got["U"]) <= Read("S")
    BY DEF Core, Flow, Spoken, Other, Clients
  <2>4. QED
    BY <1>7, <2>1, <2>2, <2>3 DEF Request, Response
<1>15. CASE b'.statusServer = b.statusServer
  <2>1. RequestFlow'
    BY <1>3, <1>4, <1>6, <1>7, <1>8, <1>14, <1>15 DEF RequestFlow, SameLinks, Clients
  <2>2. HeadingFlow'
    <3>1. /\ b.statusClient = "WRITE_REQUEST_HEADING" =>
                 Read("U") = Len(Request) /\ kind = "get"
          /\ b.statusClient = "WRITE_REQUEST_BODY" =>
                 /\ kind = "post" /\ Read("U") >= 2
                 /\ b.lengthBody = Len(Request) - Read("U")
          /\ Read("U") >= 2
      BY <1>5, ListRange DEF Core, Flow, HeadingFlow, Clients, Listed
    <3>2. b'.statusClient = b.statusClient /\ b'.lengthBody = b.lengthBody
          /\ Read("U")' = Read("U")
      BY <1>3, <1>6, <1>8, <1>15 DEF SameLinks, Clients
    <3>3. QED
      BY <1>4, <1>7, <1>14, <3>1, <3>2 DEF HeadingFlow
  <2>3. ResponseFlow' /\ Endings'
    BY <1>3, <1>5, <1>9, <1>15, ListRange DEF ResponseFlow, Endings, Listed, Clients
  <2>4. Filling'
    BY <1>3, <1>4, <1>6, <1>8, <1>9, <1>14, <1>15
       DEF Core, Flow, Filling, SameLinks, Listed, Clients, Piece
  <2>5. QED
    BY <1>8, <1>11, <1>12, <1>13, <2>1, <2>2, <2>3, <2>4 DEF Core, Flow
<1>16. CASE b'.statusServer # b.statusServer
  <2>1. /\ b'.buf = <<>> /\ b.isEndSend /\ ~b'.isReadyToSend
        /\ b'.statusClient = "READ_RESPONSE"
        /\ b'.statusServer = "WRITE_RESPONSE_HEADING" /\ ~b'.isEndSend
    BY <1>6, <1>16
  <2>2. RequestFlow'
    BY <2>1 DEF RequestFlow
  <2>3. HeadingFlow'
    BY <1>4, <1>5, <1>8, <1>9, <1>14, <2>1, ListRange
       DEF Core, Flow, HeadingFlow, Listed, Clients
  <2>4. Len(b'.buf) = 0 /\ Read("U") = Len(Request) /\ Read("U")' = Read("U") /\ Read("S")' = 0
    BY <1>4, <1>8, <1>14, <2>1 DEF Clients
  <2>5. open'["S"] => Len(got'["S"]) = Len(Request)
    BY <1>8, <2>4 DEF Between, Other
  <2>6. Between("S")'
    <3>1. /\ Read("S")' = 0 /\ Len(b'.buf) = 0 /\ Len(got'["U"]) = 0
          /\ Len(Speech("S")') \in Nat /\ Other("S") = "U"
      BY <1>8, <1>14, <2>4 DEF Speech, Other
    <3>2. Read("S")' - Len(b'.buf) = 0
      BY <3>1
    <3>3. Piece(b'.buf, Speech("S")', 0)
      BY <3>1 DEF Piece
    <3>4. QED
      BY <3>1, <3>2, <3>3 DEF Between
  <2>7. ResponseFlow'
    BY <1>4, <1>5, <1>6, <1>7, <1>9, <1>14, <2>1, <2>4, <2>5, <2>6, ListRange
       DEF ResponseFlow, Listed, SameLinks, Clients
  <2>8. Endings'
    BY <1>5, <1>9, <2>1, ListRange DEF Endings, Listed, Clients
  <2>9. Filling'
    BY <1>4, <1>6, <1>8, <1>9, <1>14, <2>1
       DEF Core, Flow, Filling, SameLinks, Listed, Clients, Piece
  <2>10. QED
    BY <1>8, <1>11, <1>12, <1>13, <2>2, <2>3, <2>7, <2>8, <2>9 DEF Core, Flow
<1>17. QED
  BY <1>15, <1>16

\* A piece of the response goes to the user, who is let go after the last
\* one or when its server is gone.
LEMMA WritingResponse == ASSUME Core, WritesResponse PROVE Core'
<1>1. PICK round \in Rounds :
          /\ Writes("U", round)
          /\ \/ /\ round.b.statusServer = "END_WORK" /\ ~round.b.isReadyToSend
                /\ DeleteUser(round.b) /\ GoesAfterDelete("U")
             \/ /\ ~(round.b.statusServer = "END_WORK" /\ ~round.b.isReadyToSend)
                /\ b' = round.b /\ Goes("U") /\ UNCHANGED <<list, linkVars, events, freed, elem>>
  BY DEF WritesResponse
<1>2. PICK n \in 0 .. Len(b.buf) :
          /\ round.out = SubSeq(b.buf, 1, n) /\ round.b = ProofSend(n)
          /\ "U" \in Range(list) /\ ~b.isDataGetCash /\ b \in Buffers /\ b.isReadyToSend
          /\ Out \in revents["U"] /\ ~b.isReadyConnect /\ b.buf \in Seq(Tokens)
          /\ Len(SubSeq(b.buf, n + 1, Len(b.buf))) = Len(b.buf) - n
  BY <1>1, RoundSent DEF Clients
<1>3. b.statusClient = "READ_RESPONSE" /\ pc = "status"
  BY <1>1 DEF Writes, Takes
<1>4. kind # "bad" /\ ~b.error
  BY <1>2 DEF Core, Course, HangUpsHappened
<1>5. b.statusServer # "READ_REQUEST" /\ b.statusServer # "WRITE_RESPONSE_HEADING"
  BY <1>2, <1>3, <1>4 DEF Core, Flow, RequestFlow, ResponseFlow
<1>6. Between("S") /\ (b.isEndSend => Enough(Read("S")))
  BY <1>3, <1>5 DEF Core, Flow, ResponseFlow
<1>7. PICK r \in Buffers :
         /\ r = round.b /\ r.buf = SubSeq(b.buf, n + 1, Len(b.buf)) /\ SameLinks(r, b)
         /\ \/ /\ r.statusClient = b.statusClient /\ r.statusServer = b.statusServer
               /\ r.isEndSend = b.isEndSend
            \/ /\ r.buf = <<>> /\ b.isEndSend /\ ~r.isReadyToSend
               /\ r.statusClient = "END_WORK" /\ r.statusServer = "END_WORK"
  BY <1>2, <1>3, <1>4, <1>5, ProofSent
<1>8. /\ got' = IF open["U"] THEN [got EXCEPT !["U"] = @ \o SubSeq(b.buf, 1, n)] ELSE got
      /\ revents' = [revents EXCEPT !["U"] = {}]
      /\ UNCHANGED <<kind, reply, inbox, open, sent>>
  BY <1>1, <1>2 DEF Writes, caseVars
<1>9. /\ b'.buf = SubSeq(b.buf, n + 1, Len(b.buf)) =>
             /\ got' \in [Clients -> Seq(Tokens)] /\ Spoken' /\ Between("S")'
             /\ Len(b'.buf) = Len(b.buf) - n /\ got'["S"] = got["S"]
             /\ \A d \in Clients : Speech(d)' = Speech(d) /\ Read(d)' = Read(d)
  <2>1. "S" \in Clients /\ "U" = Other("S")
    BY DEF Clients, Other
  <2>2. QED
    BY <1>2, <1>6, <1>8, <2>1, Passed DEF caseVars
<1>10. TypeOK /\ revents' \in [Clients -> SUBSET All]
       /\ \A c \in Clients : revents'[c] \subseteq revents[c]
  BY <1>8 DEF Core, TypeOK
<1>11. Request' = Request /\ Response' = Response
  BY <1>8 DEF Request, Response
<1>12. CASE /\ r.statusServer = "END_WORK" /\ ~r.isReadyToSend
            /\ DeleteUser(r) /\ GoesAfterDelete("U")
  <2>1. got' \in [Clients -> Seq(Tokens)]
    <3>1. "U" \in Clients /\ got["U"] \o SubSeq(b.buf, 1, n) \in Seq(Tokens)
      BY <1>2, <1>10, TypeFacts
    <3>2. got \in [Clients -> Seq(Tokens)]
      BY <1>10 DEF TypeOK
    <3>3. got' = [got EXCEPT !["U"] = got["U"] \o SubSeq(b.buf, 1, n)] \/ got' = got
      BY <1>8
    <3>4. QED
      BY <3>1, <3>2, <3>3
  <2>2. /\ TypeOK' /\ Links' /\ Course'
        /\ Listed("U") /\ ~Listed("U")' /\ (Listed("S")' => Listed("S"))
        /\ b'.statusClient = "END_WORK" /\ b'.buf = r.buf /\ b'.isEndSend = r.isEndSend
        /\ b'.haveLength = r.haveLength /\ b'.lengthBody = r.lengthBody
        /\ b'.isAddDataToCash = b.isAddDataToCash /\ b'.isDataGetCash = b.isDataGetCash
        /\ elem'.data = elem.data /\ elem'.downloadEnd = elem.downloadEnd
        /\ elem'.connected = elem.connected
        /\ \/ b'.statusServer = "END_WORK" /\ list' = <<>>
           \/ b'.statusServer = r.statusServer /\ (Listed("S") => b.isAddDataToCash)
              /\ (Listed("S")' <=> Listed("S"))
    <3>1. UNCHANGED <<caseVars, inbox, open, sent>>
      BY <1>8 DEF caseVars
    <3>2. /\ pc' = "visit" /\ at' = After(list', After(list, "U")) /\ ~b.isDataGetCash
      BY <1>2, <1>12 DEF GoesAfterDelete
    <3>3. /\ r.isClientConnect = b.isClientConnect /\ r.isServerConnect = b.isServerConnect
          /\ r.isAddDataToCash = b.isAddDataToCash /\ r.isDataGetCash = b.isDataGetCash
          /\ r.isReadyConnect = b.isReadyConnect /\ r.error = b.error
      BY <1>7 DEF SameLinks
    <3>4. QED
      BY <1>2, <1>10, <1>12, <2>1, <3>1, <3>2, <3>3, UserGone
  <2>3. b'.statusServer = "END_WORK"
    BY <1>12, <2>2
  <2>4. /\ Spoken' /\ Between("S")' /\ got'["S"] = got["S"] /\ Len(b'.buf) = Len(b.buf) - n
        /\ \A d \in Clients : Speech(d)' = Speech(d) /\ Read(d)' = Read(d)
    BY <1>7, <1>9, <2>2
  <2>5. \/ ~Listed("S") /\ ~open["S"]
        \/ Enough(Read("S")) /\ Len(b'.buf) = 0
    <3>1. CASE r.statusServer = b.statusServer
      BY <1>12, <2>2, <3>1 DEF Core, Flow, Endings
    <3>2. CASE r.statusServer # b.statusServer
      <4>1. r.buf = <<>> /\ b.isEndSend
        BY <1>7, <3>2
      <4>2. b'.buf = <<>>
        BY <2>2, <4>1
      <4>3. QED
        BY <1>6, <4>1, <4>2
    <3>3. QED
      BY <3>1, <3>2
  <2>6. RequestFlow'
    BY <2>3 DEF RequestFlow
  <2>7. HeadingFlow'
    BY <2>2, <2>4 DEF Core, Flow, HeadingFlow, Clients
  <2>8. ResponseFlow'
    <3>1. ASSUME Listed("S")' PROVE Read("S") = Len(Response)
      <4>1. list' # <<>>
        BY <3>1 DEF Listed, Range
      <4>2. Listed("S") /\ b.isAddDataToCash
        BY <2>2, <3>1, <4>1
      <4>3. CASE b.statusServer = "END_WORK"
        BY <4>2, <4>3 DEF Core, Flow, ResponseFlow
      <4>4. CASE b.statusServer = "WRITE_RESPONSE_BODY"
        <5>1. b.haveLength /\ reply.len # NoLength
          BY <4>2, <4>4 DEF Core, Flow, Filling, ResponseFlow
        <5>2. QED
          BY <2>5, <4>2, <5>1
      <4>5. b.statusServer \in {"END_WORK", "WRITE_RESPONSE_BODY"}
        BY <1>2, <1>5 DEF Buffers, ServerStatuses
      <4>6. QED
        BY <4>3, <4>4, <4>5
    <3>2. ~(b'.statusServer # "READ_REQUEST" /\ b'.statusClient = "READ_RESPONSE")
      BY <2>2
    <3>3. QED
      BY <1>11, <2>3, <2>4, <3>1, <3>2 DEF ResponseFlow, Clients
  <2>9. Endings'
    <3>1. Len(Response) \in Nat
      BY LensFacts
    <3>2. open["U"] /\ open["S"] => Enough(Len(got'["U"]))
      <4>1. /\ open'["U"] => Len(got'["U"]) = Read("S")' - Len(b'.buf)
            /\ Read("S")' = Read("S") /\ open' = open
        BY <1>8, <2>4 DEF Between, Other, Clients
      <4>2. Read("S") \in Nat
        BY LensFacts DEF Clients
      <4>3. CASE Enough(Read("S")) /\ Len(b'.buf) = 0
        <5>1. ASSUME open["U"], open["S"] PROVE Len(got'["U"]) = Read("S")
          BY <4>1, <4>2, <4>3, <5>1
        <5>2. QED
          BY <4>3, <5>1
      <4>4. CASE ~Listed("S") /\ ~open["S"]
        BY <4>4
      <4>5. QED
        BY <2>5, <4>3, <4>4
    <3>3. QED
      BY <1>8, <1>11, <2>2, <3>2 DEF Endings
  <2>10. Filling'
    BY <1>11, <2>2, <2>3, <2>4 DEF Core, Flow, Filling, Clients, Piece
  <2>11. QED
    BY <2>2, <2>4, <2>6, <2>7, <2>8, <2>9, <2>10 DEF Core, Flow
<1>13. CASE /\ ~(r.statusServer = "END_WORK" /\ ~r.isReadyToSend)
            /\ b' = r /\ Goes("U") /\ UNCHANGED <<list, linkVars, events, freed, elem>>
  <2>1. /\ b' \in Buffers /\ b'.buf = SubSeq(b.buf, n + 1, Len(b.buf)) /\ SameLinks(b', b)
        /\ b'.statusClient = b.statusClient /\ b'.statusServer = b.statusServer
        /\ b'.isEndSend = b.isEndSend
    BY <1>7, <1>13
  <2>2. /\ got' \in [Clients -> Seq(Tokens)] /\ Spoken' /\ Between("S")'
        /\ Len(b'.buf) = Len(b.buf) - n /\ got'["S"] = got["S"]
        /\ \A d \in Clients : Speech(d)' = Speech(d) /\ Read(d)' = Read(d)
    BY <1>9, <2>1
  <2>3. UNCHANGED <<list, pair, watched, events, freed, elem>> /\ pc' = "visit" /\ at' = "end"
    <3>1. list \in {<<"U">>, <<"S", "U">>}
      BY <1>2, <1>10, ListRange DEF TypeOK
    <3>2. QED
      BY <1>13, <3>1, ListIterator DEF linkVars, Goes
  <2>4. TypeOK'
    BY <1>8, <1>10, <2>1, <2>2, <2>3 DEF TypeOK
  <2>5. Links'
    BY <2>1, <2>3
       DEF Core, Links, NoDanglingLink, BufferLifetime, AloneOnlyToFill, ElementHeld,
           Presence, Listed, SameLinks
  <2>6. Course'
    BY <1>2, <1>4, <1>8, <1>10, <2>1, <2>3
       DEF Core, Course, OneServer, Positions, HangUpsHappened, SameLinks, Listed
  <2>7. RequestFlow'
    BY <1>5, <2>1 DEF RequestFlow
  <2>8. HeadingFlow'
    BY <1>3, <1>11, <2>1, <2>2, <2>3 DEF Core, Flow, HeadingFlow, SameLinks, Listed, Clients
  <2>9. ResponseFlow'
    BY <1>3, <1>5, <1>6, <1>8, <1>11, <2>1, <2>2, <2>3
       DEF Core, Flow, ResponseFlow, SameLinks, Listed, Clients
  <2>10. Endings'
    <3>1. Listed("U") /\ Listed("U")'
      BY <1>2, <2>3 DEF Listed
    <3>2. QED
      BY <1>8, <2>1, <2>3, <3>1 DEF Core, Flow, Endings, Listed
  <2>11. Filling'
    BY <1>11, <2>1, <2>2, <2>3 DEF Core, Flow, Filling, SameLinks, Listed, Piece, Clients
  <2>12. QED
    BY <2>2, <2>4, <2>5, <2>6, <2>7, <2>8, <2>9, <2>10, <2>11 DEF Core, Flow
<1>14. QED
  BY <1>1, <1>7, <1>12, <1>13


-----------------------------------------------------------------------------
(* Reading: what the buffer is afterwards. *)

\* The first lines of readFromSocket: what is read is appended, or replaces
\* what the user can no longer get.
LEMMA AppendedFacts ==
    ASSUME b \in Buffers, NEW data \in Seq(Tokens), NEW r, r = Appended(data)
    PROVE  /\ r \in Buffers /\ SameLinks(r, b)
           /\ r.buf = IF ~b.isClientConnect /\ b.statusServer = "WRITE_RESPONSE_BODY"
                         THEN <<>> ELSE b.buf \o data
           /\ r.statusClient = b.statusClient /\ r.statusServer = b.statusServer
           /\ r.isEndSend = b.isEndSend /\ r.isReadyToSend = b.isReadyToSend
<1>1. b.buf \in Seq(Tokens) /\ b.buf \o data \in Seq(Tokens) /\ <<>> \in Seq(Tokens)
  BY DEF Buffers
<1>2. PICK s \in Seq(Tokens) :
         s = IF ~b.isClientConnect /\ b.statusServer = "WRITE_RESPONSE_BODY"
                THEN <<>> ELSE b.buf \o data
  BY <1>1
<1>3. r = [b EXCEPT !.buf = s]
  BY <1>2 DEF Appended
<1>4. r \in Buffers
  BY <1>3 DEF Buffers
<1>5. QED
  BY <1>2, <1>3, <1>4 DEF Buffers, SameLinks

\* wrightRequestHeading: nothing without the end of the heading; otherwise an
\* error, the cache, or the server has the user.
LEMMA RequestHeadingFacts ==
    ASSUME NEW bb \in Buffers, NEW hit \in BOOLEAN, NEW r, r = RequestHeading(bb, hit),
           kind \in {"get", "post", "bad"}, Posted \in Nat,
           HeadLength(bb.buf) \in Nat, Len(bb.buf) \in Nat
    PROVE  /\ r \in Buffers
           /\ r.isClientConnect = bb.isClientConnect /\ r.isServerConnect = bb.isServerConnect
           /\ r.isAddDataToCash = bb.isAddDataToCash /\ r.statusServer = bb.statusServer
           /\ \/ HeadLength(bb.buf) = 0 /\ r = bb
              \/ /\ HeadLength(bb.buf) # 0 /\ kind = "bad"
                 /\ r.error /\ r.statusClient = "READ_RESPONSE"
                 /\ r.isReadyConnect = bb.isReadyConnect
                 /\ r.isDataGetCash = bb.isDataGetCash
              \/ /\ HeadLength(bb.buf) # 0 /\ kind # "bad"
                 /\ r.isDataGetCash /\ r.statusClient = "READ_RESPONSE"
                 /\ r.isReadyConnect = bb.isReadyConnect /\ r.error = bb.error
              \/ /\ HeadLength(bb.buf) # 0 /\ kind = "get"
                 /\ r.isReadyConnect /\ r.isEndSend
                 /\ r.statusClient = bb.statusClient /\ r.buf = bb.buf
                 /\ r.isDataGetCash = bb.isDataGetCash /\ r.error = bb.error
              \/ /\ HeadLength(bb.buf) # 0 /\ kind = "post"
                 /\ r.isReadyConnect /\ r.statusClient = "WRITE_REQUEST_BODY"
                 /\ r.lengthBody = Posted - (Len(bb.buf) - HeadLength(bb.buf))
                 /\ r.isEndSend <=> bb.isEndSend \/ r.lengthBody <= 0
                 /\ r.buf = bb.buf
                 /\ r.isDataGetCash = bb.isDataGetCash /\ r.error = bb.error
<1>1. CASE HeadLength(bb.buf) = 0
  <2>1. r = bb
    BY <1>1 DEF RequestHeading
  <2>2. QED
    BY <1>1, <2>1
<1>2. CASE HeadLength(bb.buf) # 0 /\ kind = "bad"
  <2>1. r = [bb EXCEPT !.buf = <<"incorrect heading">>, !.error = TRUE,
                       !.statusClient = "READ_RESPONSE",
                       !.isReadyToSend = TRUE, !.isEndSend = TRUE]
    BY <1>2 DEF RequestHeading
  <2>2. <<"incorrect heading">> \in Seq(Tokens)
    BY DEF Tokens
  <2>3. r \in Buffers
    BY <2>1, <2>2 DEF Buffers, ClientStatuses, ServerStatuses
  <2>4. /\ r.isClientConnect = bb.isClientConnect /\ r.isServerConnect = bb.isServerConnect
        /\ r.isAddDataToCash = bb.isAddDataToCash /\ r.statusServer = bb.statusServer
        /\ r.error /\ r.statusClient = "READ_RESPONSE"
        /\ r.isReadyConnect = bb.isReadyConnect
        /\ r.isDataGetCash = bb.isDataGetCash
    BY <2>1 DEF Buffers
  <2>5. QED
    BY <1>2, <2>3, <2>4
<1>3. CASE HeadLength(bb.buf) # 0 /\ kind # "bad" /\ hit
  <2>1. r = [bb EXCEPT !.isDataGetCash = TRUE, !.buf = <<>>, !.statusClient = "READ_RESPONSE"]
    BY <1>3 DEF RequestHeading
  <2>2. <<>> \in Seq(Tokens)
    OBVIOUS
  <2>3. r \in Buffers
    BY <2>1, <2>2 DEF Buffers, ClientStatuses, ServerStatuses
  <2>4. /\ r.isClientConnect = bb.isClientConnect /\ r.isServerConnect = bb.isServerConnect
        /\ r.isAddDataToCash = bb.isAddDataToCash /\ r.statusServer = bb.statusServer
        /\ r.isDataGetCash /\ r.statusClient = "READ_RESPONSE"
        /\ r.isReadyConnect = bb.isReadyConnect /\ r.error = bb.error
    BY <2>1 DEF Buffers
  <2>5. QED
    BY <1>3, <2>3, <2>4
<1>4. CASE HeadLength(bb.buf) # 0 /\ kind = "get" /\ ~hit
  <2>1. r = [bb EXCEPT !.isReadyConnect = TRUE, !.isReadyToSend = TRUE, !.isEndSend = TRUE]
    BY <1>4 DEF RequestHeading
  <2>2. r \in Buffers
    BY <2>1 DEF Buffers
  <2>3. /\ r.isClientConnect = bb.isClientConnect /\ r.isServerConnect = bb.isServerConnect
        /\ r.isAddDataToCash = bb.isAddDataToCash /\ r.statusServer = bb.statusServer
        /\ r.isReadyConnect /\ r.isEndSend
        /\ r.statusClient = bb.statusClient /\ r.buf = bb.buf
        /\ r.isDataGetCash = bb.isDataGetCash /\ r.error = bb.error
    BY <2>1 DEF Buffers
  <2>4. QED
    BY <1>4, <2>2, <2>3
<1>5. CASE HeadLength(bb.buf) # 0 /\ kind = "post" /\ ~hit
  <2>1. PICK left \in Int : left = Posted - (Len(bb.buf) - HeadLength(bb.buf))
    OBVIOUS
  <2>2. r = [bb EXCEPT !.isReadyConnect = TRUE, !.isReadyToSend = TRUE,
                       !.statusClient = "WRITE_REQUEST_BODY",
                       !.lengthBody = left, !.isEndSend = @ \/ left <= 0]
    BY <1>5, <2>1 DEF RequestHeading
  <2>3. PICK e \in BOOLEAN : e = (bb.isEndSend \/ left <= 0)
    OBVIOUS
  <2>4. r = [bb EXCEPT !.isReadyConnect = TRUE, !.isReadyToSend = TRUE,
                       !.statusClient = "WRITE_REQUEST_BODY",
                       !.lengthBody = left, !.isEndSend = e]
    BY <2>2, <2>3
  <2>5. r \in Buffers
    BY <2>4 DEF Buffers, ClientStatuses, ServerStatuses
  <2>6. /\ r.isClientConnect = bb.isClientConnect /\ r.isServerConnect = bb.isServerConnect
        /\ r.isAddDataToCash = bb.isAddDataToCash /\ r.statusServer = bb.statusServer
        /\ r.isReadyConnect /\ r.statusClient = "WRITE_REQUEST_BODY"
        /\ r.lengthBody = left /\ r.isEndSend = e /\ r.buf = bb.buf
        /\ r.isDataGetCash = bb.isDataGetCash /\ r.error = bb.error
    BY <2>4 DEF Buffers
  <2>7. QED
    BY <1>5, <2>1, <2>3, <2>5, <2>6
<1>6. QED
  BY <1>1, <1>2, <1>3, <1>4, <1>5

\* r is bb after n tokens of the request's body.
RequestBodyRead(r, bb, n) ==
    /\ r \in Buffers
    /\ r.isClientConnect = bb.isClientConnect /\ r.isServerConnect = bb.isServerConnect
    /\ r.isAddDataToCash = bb.isAddDataToCash /\ r.statusServer = bb.statusServer
    /\ r.isReadyConnect = bb.isReadyConnect /\ r.statusClient = bb.statusClient
    /\ r.isDataGetCash = bb.isDataGetCash /\ r.error = bb.error /\ r.buf = bb.buf
    /\ r.lengthBody = bb.lengthBody - n
    /\ r.isEndSend <=> bb.isEndSend \/ r.lengthBody <= 0

\* wrightRequestBody counts down what is left of the body.
LEMMA RequestBodyFacts ==
    ASSUME NEW bb \in Buffers, NEW data \in Seq(Tokens), NEW r, r = RequestBody(bb, data)
    PROVE  RequestBodyRead(r, bb, Len(data))
<1>1. PICK left \in Int : left = bb.lengthBody - Len(data)
  BY DEF Buffers
<1>2. PICK e \in BOOLEAN : e = (bb.isEndSend \/ left <= 0)
  OBVIOUS
<1>3. r = [bb EXCEPT !.isReadyToSend = TRUE, !.lengthBody = left, !.isEndSend = e]
  BY <1>1, <1>2 DEF RequestBody
<1>4. r \in Buffers
  BY <1>3 DEF Buffers
<1>5. /\ r.isClientConnect = bb.isClientConnect /\ r.isServerConnect = bb.isServerConnect
      /\ r.isAddDataToCash = bb.isAddDataToCash /\ r.statusServer = bb.statusServer
      /\ r.isReadyConnect = bb.isReadyConnect /\ r.statusClient = bb.statusClient
      /\ r.isDataGetCash = bb.isDataGetCash /\ r.error = bb.error /\ r.buf = bb.buf
      /\ r.lengthBody = left /\ r.isEndSend = e
  BY <1>3 DEF Buffers
<1>6. QED
  BY <1>1, <1>2, <1>4, <1>5 DEF RequestBodyRead

\* r is bb after a piece of the response's heading.
ResponseHeadingRead(r, bb) ==
    /\ r \in Buffers
    /\ r.isClientConnect = bb.isClientConnect /\ r.isServerConnect = bb.isServerConnect
    /\ r.isReadyConnect = bb.isReadyConnect /\ r.statusClient = bb.statusClient
    /\ r.isDataGetCash = bb.isDataGetCash /\ r.error = bb.error /\ r.buf = bb.buf
    /\ \/ HeadLength(bb.buf) = 0 /\ r = bb
       \/ /\ HeadLength(bb.buf) = 2
          /\ r.statusServer = "WRITE_RESPONSE_BODY"
          /\ r.haveLength <=> reply.len # NoLength
          /\ r.haveLength => r.lengthBody = reply.len - (Len(bb.buf) - 2)
          /\ r.isAddDataToCash => r.haveLength
          /\ r.isEndSend /\ r.haveLength => r.lengthBody <= 0
          /\ r.isEndSend /\ ~r.haveLength => EndInside(bb.buf)

\* wrightResponseHeading: nothing without the end of the heading; otherwise
\* the length, the cache and the end of the body are known.
LEMMA ResponseHeadingFacts ==
    ASSUME NEW bb \in Buffers, NEW hit \in BOOLEAN, NEW r, r = ResponseHeading(bb, hit),
           reply \in Replies,
           HeadLength(bb.buf) \in {0, 2}, Len(bb.buf) \in Nat,
           HeadLength(bb.buf) = 2 => Len(bb.buf) >= 2 /\ bb.buf[2] \in {"rhead", "rhead0"},
           ~bb.isEndSend, ~bb.isAddDataToCash
    PROVE  ResponseHeadingRead(r, bb)
<1>1. CASE HeadLength(bb.buf) = 0
  <2>1. r = bb
    BY <1>1 DEF ResponseHeading
  <2>2. QED
    BY <1>1, <2>1 DEF ResponseHeadingRead
<1>2. CASE HeadLength(bb.buf) = 2
  <2>1. PICK head : head = SubSeq(bb.buf, 1, 2)
    OBVIOUS
  <2>2. {"rhead", "rhead0"} \intersect Range(head) # {}
    <3>1. bb.buf \in Seq(Tokens) /\ Len(bb.buf) >= 2 /\ bb.buf[2] \in {"rhead", "rhead0"}
      BY <1>2 DEF Buffers
    <3>2. head \in Seq(Tokens) /\ Len(head) = 2 /\ head[2] \in {"rhead", "rhead0"}
      BY <2>1, <3>1
    <3>3. head[2] \in Range(head)
      BY <3>2 DEF Range
    <3>4. QED
      BY <3>2, <3>3
  <2>3. ParseResponse(head).len = reply.len
    BY <2>2 DEF ParseResponse
  <2>4. PICK have \in BOOLEAN : have = (reply.len # NoLength)
    OBVIOUS
  <2>5. PICK left \in Int :
            left = IF have THEN reply.len - (Len(bb.buf) - 2) ELSE bb.lengthBody
    <3>1. have => reply.len \in Nat
      BY <2>4, HandlerAssumption
    <3>2. bb.lengthBody \in Int
      BY DEF Buffers
    <3>3. CASE have
      <4>1. reply.len - (Len(bb.buf) - 2) \in Int
        BY <3>1, <3>3
      <4>2. QED
        BY <3>3, <4>1
    <3>4. CASE ~have
      BY <3>2, <3>4
    <3>5. QED
      BY <3>3, <3>4
  <2>6. PICK add \in BOOLEAN : add = (bb.isAddDataToCash \/ Caches(head, hit))
    OBVIOUS
  <2>7. PICK e \in BOOLEAN : e = (bb.isEndSend \/ BodyEnds(bb, have, left))
    OBVIOUS
  <2>8. r = [bb EXCEPT !.isReadyToSend = TRUE, !.statusServer = "WRITE_RESPONSE_BODY",
                       !.haveLength = have, !.lengthBody = left,
                       !.isAddDataToCash = add, !.isEndSend = e]
    <3>1. ResponseHeading(bb, hit) =
              LET h == SubSeq(bb.buf, 1, 2)
                  p == ParseResponse(h)
                  l == IF p.len # NoLength THEN p.len - (Len(bb.buf) - 2) ELSE bb.lengthBody
              IN  [bb EXCEPT !.isReadyToSend = TRUE, !.statusServer = "WRITE_RESPONSE_BODY",
                             !.haveLength = (p.len # NoLength), !.lengthBody = l,
                             !.isAddDataToCash = @ \/ Caches(h, hit),
                             !.isEndSend = @ \/ BodyEnds(bb, p.len # NoLength, l)]
      BY <1>2 DEF ResponseHeading
    <3>2. ResponseHeading(bb, hit) =
              LET l == IF reply.len # NoLength THEN reply.len - (Len(bb.buf) - 2)
                                               ELSE bb.lengthBody
              IN  [bb EXCEPT !.isReadyToSend = TRUE, !.statusServer = "WRITE_RESPONSE_BODY",
                             !.haveLength = (reply.len # NoLength), !.lengthBody = l,
                             !.isAddDataToCash = @ \/ Caches(head, hit),
                             !.isEndSend = @ \/ BodyEnds(bb, reply.len # NoLength, l)]
      BY <2>1, <2>3, <3>1
    <3>3. ResponseHeading(bb, hit) =
              [bb EXCEPT !.isReadyToSend = TRUE, !.statusServer = "WRITE_RESPONSE_BODY",
                         !.haveLength = have, !.lengthBody = left,
                         !.isAddDataToCash = @ \/ Caches(head, hit),
                         !.isEndSend = @ \/ BodyEnds(bb, have, left)]
      BY <2>4, <2>5, <3>2
    <3>4. QED
      BY <2>6, <2>7, <3>3
  <2>9. r \in Buffers
    BY <2>8 DEF Buffers, ClientStatuses, ServerStatuses
  <2>10. /\ r.isClientConnect = bb.isClientConnect /\ r.isServerConnect = bb.isServerConnect
         /\ r.isReadyConnect = bb.isReadyConnect /\ r.statusClient = bb.statusClient
         /\ r.isDataGetCash = bb.isDataGetCash /\ r.error = bb.error /\ r.buf = bb.buf
         /\ r.statusServer = "WRITE_RESPONSE_BODY" /\ r.haveLength = have
         /\ r.lengthBody = left /\ r.isAddDataToCash = add /\ r.isEndSend = e
    BY <2>8 DEF Buffers
  <2>11. add => have
    BY <2>3, <2>4, <2>6 DEF Caches
  <2>12. e => IF have THEN left <= 0 ELSE EndInside(bb.buf)
    BY <2>7 DEF BodyEnds
  <2>13. QED
    BY <1>2, <2>4, <2>5, <2>9, <2>10, <2>11, <2>12 DEF ResponseHeadingRead
<1>3. QED
  BY <1>1, <1>2

\* r is bb after n tokens of the response's body.
ResponseBodyRead(r, bb, n) ==
    /\ r \in Buffers
    /\ r.isClientConnect = bb.isClientConnect /\ r.isServerConnect = bb.isServerConnect
    /\ r.isAddDataToCash = bb.isAddDataToCash /\ r.statusServer = bb.statusServer
    /\ r.isReadyConnect = bb.isReadyConnect /\ r.statusClient = bb.statusClient
    /\ r.isDataGetCash = bb.isDataGetCash /\ r.error = bb.error /\ r.buf = bb.buf
    /\ r.haveLength = bb.haveLength
    /\ r.haveLength => r.lengthBody = bb.lengthBody - n
    /\ r.isEndSend /\ r.haveLength => bb.isEndSend \/ r.lengthBody <= 0
    /\ r.isEndSend /\ ~r.haveLength => bb.isEndSend \/ EndInside(bb.buf)

\* wrightResponseBody counts down the body, or looks for its end.
LEMMA ResponseBodyFacts ==
    ASSUME NEW bb \in Buffers, NEW data \in Seq(Tokens), NEW r, r = ResponseBody(bb, data)
    PROVE  ResponseBodyRead(r, bb, Len(data))
<1>1. PICK left \in Int :
          left = IF bb.haveLength THEN bb.lengthBody - Len(data) ELSE bb.lengthBody
  <2>1. bb.lengthBody \in Int /\ Len(data) \in Int
    BY DEF Buffers
  <2>2. QED
    BY <2>1
<1>2. PICK e \in BOOLEAN : e = (bb.isEndSend \/ BodyEnds(bb, bb.haveLength, left))
  OBVIOUS
<1>3. r = [bb EXCEPT !.isReadyToSend = TRUE, !.lengthBody = left, !.isEndSend = e]
  BY <1>1, <1>2 DEF ResponseBody
<1>4. r \in Buffers
  BY <1>3 DEF Buffers
<1>5. /\ r.isClientConnect = bb.isClientConnect /\ r.isServerConnect = bb.isServerConnect
      /\ r.isAddDataToCash = bb.isAddDataToCash /\ r.statusServer = bb.statusServer
      /\ r.isReadyConnect = bb.isReadyConnect /\ r.statusClient = bb.statusClient
      /\ r.isDataGetCash = bb.isDataGetCash /\ r.error = bb.error /\ r.buf = bb.buf
      /\ r.haveLength = bb.haveLength /\ r.lengthBody = left /\ r.isEndSend = e
  BY <1>3 DEF Buffers
<1>6. QED
  BY <1>1, <1>2, <1>4, <1>5 DEF BodyEnds, ResponseBodyRead

\* What is read continues what was read before.
LEMMA Arrived ==
    ASSUME Core, NEW c \in Clients, NEW n \in 1 .. Len(inbox[c]),
           inbox' = [inbox EXCEPT ![c] = SubSeq(@, n + 1, Len(@))],
           UNCHANGED <<caseVars, open, sent, got>>
    PROVE  LET data == SubSeq(inbox[c], 1, n)
           IN  /\ data \in Seq(Tokens) /\ Len(data) = n /\ Piece(data, Speech(c), Read(c))
               /\ inbox' \in [Clients -> Seq(Tokens)] /\ Spoken'
               /\ Read(c)' = Read(c) + n /\ Read(c) + n <= Len(Speech(c))
               /\ \A e \in Clients : Speech(e)' = Speech(e) /\ (e # c => Read(e)' = Read(e))
<1> DEFINE data == SubSeq(inbox[c], 1, n)
<1>1. /\ inbox \in [Clients -> Seq(Tokens)] /\ inbox[c] \in Seq(Tokens)
      /\ Speech(c) \in Seq(Tokens) /\ Read(c) \in Nat /\ Len(sent[c]) \in Nat
      /\ Len(inbox[c]) \in Nat /\ Len(Speech(c)) \in Nat
  <2>1. TypeOK /\ inbox \in [Clients -> Seq(Tokens)]
    BY DEF Core, TypeOK
  <2>2. inbox[c] \in Seq(Tokens)
    BY <2>1
  <2>3. QED
    BY <2>1, <2>2, LensFacts
<1>2. /\ Piece(inbox[c], Speech(c), Read(c)) /\ Read(c) + Len(inbox[c]) <= Len(Speech(c))
  BY DEF Core, Flow, Spoken, Piece
<1>3. PICK rest : rest = SubSeq(inbox[c], n + 1, Len(inbox[c]))
  OBVIOUS
<1>4. /\ data \in Seq(Tokens) /\ Len(data) = n /\ Piece(data, Speech(c), Read(c))
      /\ rest \in Seq(Tokens) /\ Len(rest) = Len(inbox[c]) - n
      /\ Piece(rest, Speech(c), Read(c) + n)
  <2>1. n \in 0 .. Len(inbox[c])
    BY <1>1
  <2>2. QED
    BY <1>1, <1>2, <1>3, <2>1, PieceCut
<1>5. inbox' = [inbox EXCEPT ![c] = rest]
  BY <1>3
<1>6. UNCHANGED <<kind, reply, open, sent, got>>
  BY DEF caseVars
<1>7. /\ Read(c)' = Read(c) + n
      /\ \A e \in Clients : Speech(e)' = Speech(e) /\ (e # c => Read(e)' = Read(e))
  <2>1. Request' = Request /\ Response' = Response
    BY <1>6 DEF Request, Response
  <2>2. \A e \in Clients : Speech(e)' = Speech(e)
    BY <2>1 DEF Speech
  <2>3. inbox'[c] = rest /\ \A e \in Clients : e # c => inbox'[e] = inbox[e]
    BY <1>1, <1>5
  <2>4. \A e \in Clients : e # c => Read(e)' = Read(e)
    BY <1>6, <2>3 DEF Read
  <2>5. Read(c)' = Len(sent[c]) - Len(rest)
    BY <1>6, <2>3 DEF Read
  <2>6. Len(sent[c]) - (Len(inbox[c]) - n) = (Len(sent[c]) - Len(inbox[c])) + n
    BY <1>1
  <2>7. QED
    BY <1>4, <2>2, <2>4, <2>5, <2>6 DEF Read
<1>8. Read(c) + n <= Len(Speech(c))
  BY <1>1, <1>2
<1>9. inbox' \in [Clients -> Seq(Tokens)]
  BY <1>1, <1>4, <1>5
<1>10. Spoken'
  <2> SUFFICES ASSUME NEW e \in Clients
      PROVE (/\ Piece(sent[e], Speech(e), 0)
             /\ Len(inbox[e]) <= Len(sent[e]) /\ Piece(inbox[e], Speech(e), Read(e))
             /\ Len(got[Other(e)]) <= Read(e) /\ Piece(got[Other(e)], Speech(e), 0))'
    BY DEF Spoken
  <2> SUFFICES
            /\ Piece(sent[e], Speech(e), 0)
            /\ Len(inbox'[e]) <= Len(sent[e]) /\ Piece(inbox'[e], Speech(e), Read(e)')
            /\ Len(got[Other(e)]) <= Read(e)' /\ Piece(got[Other(e)], Speech(e), 0)
    BY <1>6, <1>7 DEF Piece, Other
  <2>1. /\ Piece(sent[e], Speech(e), 0)
        /\ Len(inbox[e]) <= Len(sent[e]) /\ Piece(inbox[e], Speech(e), Read(e))
        /\ Len(got[Other(e)]) <= Read(e) /\ Piece(got[Other(e)], Speech(e), 0)
    BY DEF Core, Flow, Spoken
  <2>2. CASE e = c
    <3>0. inbox'[e] = rest
      BY <1>1, <1>5, <2>2
    <3>1. Len(rest) <= Len(sent[e])
      <4>1. Len(inbox[c]) <= Len(sent[c])
        BY <2>1, <2>2
      <4>2. QED
        BY <1>1, <1>4, <2>2, <4>1
    <3>2. Len(got[Other(e)]) \in Nat
      BY LensFacts DEF Other, Clients
    <3>3. Len(got[Other(e)]) <= Read(e)'
      BY <1>1, <1>7, <2>1, <2>2, <3>2
    <3>4. QED
      BY <1>4, <1>7, <2>1, <2>2, <3>0, <3>1, <3>3
  <2>3. CASE e # c
    BY <1>1, <1>5, <1>7, <2>1, <2>3
  <2>4. QED
    BY <2>2, <2>3
<1>11. QED
  BY <1>4, <1>7, <1>8, <1>9, <1>10

-----------------------------------------------------------------------------
(* Reading. *)

\* Who has more to say decides what the statuses can be: a user which is not
\* through with its request, or a server which is not through with its
\* response (readFromSocket, BufferImpl.cpp:6-23).
LEMMA WhoSpeaks ==
    ASSUME Core, NEW c \in Clients, pc = "visit", Listed(c),
           NEW n \in 1 .. Len(inbox[c]), Read(c) + n <= Len(Speech(c))
    PROVE  /\ c = "U" => /\ b.statusServer \in {"READ_REQUEST", "END_WORK"}
                         /\ b.statusClient \in {"WRITE_REQUEST_HEADING", "WRITE_REQUEST_BODY"}
                         /\ b.statusClient = "WRITE_REQUEST_HEADING" =>
                              /\ Read("U") <= 1 /\ Len(b.buf) = Read("U")
                              /\ Piece(b.buf, Request, 0)
                              /\ list = <<"U">> /\ b.statusServer = "READ_REQUEST"
                              /\ got["S"] = <<>>
           /\ c = "S" => /\ b.statusServer \in {"WRITE_RESPONSE_HEADING", "WRITE_RESPONSE_BODY"}
                         /\ b.statusClient \in {"READ_RESPONSE", "END_WORK"}
                         /\ Read("U") = Len(Request) /\ kind # "bad"
<1>1. /\ Read(c) \in Nat /\ Len(Speech(c)) \in Nat /\ Len(inbox[c]) \in Nat
      /\ Len(sent[c]) \in Nat /\ n >= 1 /\ Len(inbox[c]) >= 1
      /\ Len(inbox[c]) <= Len(sent[c])
  <2>1. Len(inbox[c]) <= Len(sent[c])
    BY DEF Core, Flow, Spoken
  <2>2. Speech(c) \in Seq(Tokens) /\ Len(inbox[c]) \in Nat /\ Len(sent[c]) \in Nat
        /\ Read(c) \in Nat
    BY LensFacts
  <2>3. Len(Speech(c)) \in Nat
    BY <2>2
  <2>4. QED
    BY <2>1, <2>2, <2>3
<1>2. Read(c) # Len(Speech(c)) /\ sent[c] # <<>>
  BY <1>1
<1>3. b.statusClient \in ClientStatuses /\ b.statusServer \in ServerStatuses /\ ~b.isDataGetCash
  BY DEF Core, TypeOK, Buffers, Course, Positions
<1>4. CASE c = "U"
  <2>1. Read("U") # Len(Request)
    BY <1>2, <1>4 DEF Speech
  <2>2. b.statusClient # "END_WORK"
    BY <1>4 DEF Core, Links, Presence
  <2>3. b.statusClient # "READ_RESPONSE"
    BY <1>3, <2>1 DEF Core, Flow, HeadingFlow
  <2>4. b.statusServer \notin {"WRITE_RESPONSE_HEADING", "WRITE_RESPONSE_BODY"}
    BY <2>1 DEF Core, Flow, ResponseFlow
  <2>5. b.statusClient = "WRITE_REQUEST_HEADING" =>
          /\ Read("U") <= 1 /\ Len(b.buf) = Read("U") /\ Piece(b.buf, Request, 0)
          /\ list = <<"U">> /\ b.statusServer = "READ_REQUEST" /\ got["S"] = <<>>
    BY <2>1 DEF Core, Flow, HeadingFlow
  <2>6. QED
    BY <1>3, <1>4, <2>2, <2>3, <2>4, <2>5 DEF ClientStatuses, ServerStatuses
<1>5. CASE c = "S"
  <2>1. Read("S") # Len(Response) /\ sent["S"] # <<>>
    BY <1>2, <1>5 DEF Speech
  <2>2. b.statusServer # "READ_REQUEST"
    BY <2>1 DEF Core, Flow, RequestFlow
  <2>3. b.statusServer # "END_WORK"
    BY <1>5, <2>1 DEF Core, Flow, ResponseFlow
  <2>4. b.statusServer \in {"WRITE_RESPONSE_HEADING", "WRITE_RESPONSE_BODY"}
    BY <1>3, <2>2, <2>3 DEF ServerStatuses
  <2>5. QED
    BY <1>5, <2>4 DEF Core, Flow, ResponseFlow
<1>6. QED
  BY <1>4, <1>5 DEF Clients

\* Reading moves no client: what it may do to the links and to the position
\* of the thread, given what it made of the buffer and the element.
LEMMA ReadingCourse ==
    ASSUME Core, NEW c \in Clients, Reads(c), inbox' \in [Clients -> Seq(Tokens)],
           b' \in Buffers, elem' \in Elements,
           b'.isClientConnect = b.isClientConnect, b'.isServerConnect = b.isServerConnect,
           b'.statusClient = "END_WORK" <=> b.statusClient = "END_WORK",
           b.isAddDataToCash => b'.isAddDataToCash,
           elem'.connected => Listed("S") /\ b'.isAddDataToCash,
           elem'.users = IF b'.isDataGetCash THEN 1 ELSE 0,
           b'.error => kind = "bad",
           b'.isDataGetCash => /\ c = "U" /\ b'.statusClient = "READ_RESPONSE"
                               /\ list = <<"U">> /\ got["S"] = <<>> /\ ~b'.isReadyConnect,
           b'.isReadyConnect =>
               /\ list = <<"U">> /\ b'.statusServer = "READ_REQUEST"
               /\ b'.statusClient \in {"WRITE_REQUEST_HEADING", "WRITE_REQUEST_BODY"}
               /\ Read("U")' >= 2 /\ Len(b'.buf) = Read("U")'
    PROVE  TypeOK' /\ Links' /\ Course'
<1>1. /\ pc = "visit" /\ at = c /\ RdHup \notin revents[c]
      /\ revents' = [revents EXCEPT ![c] = {}]
      /\ pc' = IF c = "U" /\ b'.statusClient = "READ_RESPONSE" /\ b'.isDataGetCash
                  THEN "cash"
                  ELSE IF b'.isReadyConnect THEN "connect" ELSE "status"
      /\ \/ events' = events
         \/ events' = [events EXCEPT ![Other(c)] = All]
      /\ UNCHANGED <<list, at, pair, watched, freed, kind, reply, open, sent, got>>
  <2>1. /\ pc = "visit" /\ at = c /\ RdHup \notin revents[c]
        /\ revents' = [revents EXCEPT ![c] = {}]
        /\ pc' = IF c = "U" /\ b'.statusClient = "READ_RESPONSE" /\ b'.isDataGetCash
                    THEN "cash"
                    ELSE IF b'.isReadyConnect THEN "connect" ELSE "status"
    BY DEF Reads
  <2>2. events' = events \/ events' = [events EXCEPT ![Other(c)] = All]
    BY DEF Reads
  <2>3. UNCHANGED <<list, at, linkVars, freed, caseVars, open, sent, got>>
    BY DEF Reads
  <2>4. QED
    BY <2>1, <2>2, <2>3 DEF linkVars, caseVars
<1>2. TypeOK /\ c # "end" /\ c \in Range(list)
  BY <1>1 DEF Core, TypeOK, Clients
<1>3. events' \in [Clients -> SUBSET All] /\ revents' \in [Clients -> SUBSET All]
  <2>1. events \in [Clients -> SUBSET All] /\ revents \in [Clients -> SUBSET All]
    BY <1>2 DEF TypeOK
  <2>2. QED
    BY <1>1, <2>1
<1>4. TypeOK'
  <2>1. pc' \in {"status", "connect", "cash"}
    BY <1>1
  <2>2. QED
    BY <1>1, <1>2, <1>3, <2>1 DEF TypeOK
<1>5. Links'
  <2>1. NoDanglingLink' /\ BufferLifetime'
    BY <1>1 DEF Core, Links, NoDanglingLink, BufferLifetime
  <2>2. AloneOnlyToFill'
    BY <1>1 DEF Core, Links, AloneOnlyToFill
  <2>3. Presence'
    BY <1>1 DEF Core, Links, Presence, Listed
  <2>4. ElementHeld'
    BY <1>1, <1>2 DEF ElementHeld, Listed
  <2>5. QED
    BY <2>1, <2>2, <2>3, <2>4 DEF Links
<1>6. OneServer'
  BY <1>1, ListRange DEF OneServer
<1>7. Positions'
  <2>1. pc' = "connect" <=> b'.isReadyConnect
    BY <1>1
  <2>2. b'.isDataGetCash => pc' = "cash"
    BY <1>1
  <2>3. pc' = "cash" => b'.isDataGetCash
    BY <1>1
  <2>4. QED
    BY <1>1, <2>1, <2>2, <2>3 DEF Positions
<1>8. HangUpsHappened'
  <2>1. HangUpsHappened /\ revents \in [Clients -> SUBSET All] /\ events \in [Clients -> SUBSET All]
    BY <1>2 DEF Core, Course, TypeOK
  <2>2. \A d \in Clients : revents'[d] \subseteq revents[d]
    BY <1>1, <2>1
  <2>3. kind = "bad" => events'["U"] = events["U"]
    <3>1. kind = "bad" => c # "S"
      BY <1>2, <2>1 DEF HangUpsHappened, Listed
    <3>2. c = "U" => Other(c) = "S"
      BY DEF Other
    <3>3. QED
      BY <1>1, <2>1, <3>1, <3>2 DEF Clients
  <2>4. QED
    BY <1>1, <2>1, <2>2, <2>3 DEF HangUpsHappened, Listed, Clients
<1>9. QED
  BY <1>4, <1>5, <1>6, <1>7, <1>8 DEF Course

\* What is left in the inbox, and the element with one reader more.
Taken(c, n) == [inbox EXCEPT ![c] = SubSeq(@, n + 1, Len(@))]
Counted == [elem EXCEPT !.users = @ + 1]

\* What every read has in common.
LEMMA ReadingStarts ==
    ASSUME Core, NEW c \in Clients, Reads(c)
    PROVE  /\ pc = "visit" /\ at = c /\ Listed(c) /\ TypeOK /\ b \in Buffers /\ elem \in Elements
           /\ ~b.isReadyConnect /\ ~b.isDataGetCash /\ elem.users = 0
           /\ UNCHANGED <<list, at, pair, watched, freed, kind, reply, open, sent, got>>
           /\ UNCHANGED <<caseVars, open, sent, got>>
           /\ Request' = Request /\ Response' = Response
           /\ (Listed("U")' <=> Listed("U")) /\ (Listed("S")' <=> Listed("S"))
           /\ Posted \in Nat /\ kind \in {"get", "post", "bad"}
           /\ reply \in Replies
<1>1. pc = "visit" /\ at = c
  BY DEF Reads
<1>2. UNCHANGED <<list, at, linkVars, freed, caseVars, open, sent, got>>
  BY DEF Reads
<1>3. TypeOK /\ c # "end" /\ Listed(c)
  BY <1>1 DEF Core, TypeOK, Clients, Listed
<1>4. ~b.isReadyConnect /\ ~b.isDataGetCash
  BY <1>1 DEF Core, Course, Positions
<1>5. elem.users = 0
  BY <1>4 DEF Core, Links, ElementHeld
<1>6. kind \in {"get", "post", "bad"} /\ Posted \in Nat
  BY <1>3, HandlerAssumption DEF TypeOK
<1>7. Request' = Request /\ Response' = Response
  BY <1>2 DEF Request, Response, caseVars
<1>8. b \in Buffers /\ elem \in Elements /\ reply \in Replies
  BY <1>3 DEF TypeOK
<1>9. UNCHANGED <<list, at, pair, watched, freed, kind, reply, open, sent, got>>
  BY <1>2 DEF linkVars, caseVars
<1>10. (Listed("U")' <=> Listed("U")) /\ (Listed("S")' <=> Listed("S"))
  BY <1>9 DEF Listed
<1>11. QED
  BY <1>1, <1>2, <1>3, <1>4, <1>5, <1>6, <1>7, <1>8, <1>9, <1>10

\* A piece of the request's heading is read: the heading still waits for its
\* end, cannot be parsed, is answered by the cache, or wants its server.
LEMMA ReadingRequestHeading ==
    ASSUME Core, Reads("U"), NEW n \in 1 .. Len(inbox["U"]), NEW hit \in BOOLEAN,
           NEW data, data = SubSeq(inbox["U"], 1, n),
           inbox' = Taken("U", n),
           b.statusClient = "WRITE_REQUEST_HEADING",
           b' = RequestHeading(Appended(data), hit),
           elem' = IF b'.isDataGetCash THEN Counted ELSE elem
    PROVE  Core'
<1>0. "U" \in Clients /\ "S" \in Clients /\ Other("U") = "S" /\ Other("S") = "U"
  BY DEF Clients, Other
<1>1. /\ pc = "visit" /\ Listed("U") /\ TypeOK /\ b \in Buffers /\ elem \in Elements
      /\ ~b.isReadyConnect /\ ~b.isDataGetCash /\ elem.users = 0
      /\ UNCHANGED <<list, at, pair, watched, freed, kind, reply, open, sent, got>>
      /\ UNCHANGED <<caseVars, open, sent, got>>
      /\ Request' = Request /\ Response' = Response
      /\ (Listed("U")' <=> Listed("U")) /\ (Listed("S")' <=> Listed("S"))
      /\ Posted \in Nat /\ kind \in {"get", "post", "bad"}
  BY <1>0, ReadingStarts
<1>2. /\ data \in Seq(Tokens) /\ Len(data) = n /\ Piece(data, Request, Read("U"))
      /\ inbox' \in [Clients -> Seq(Tokens)] /\ Spoken'
      /\ Read("U")' = Read("U") + n /\ Read("U") + n <= Len(Request)
      /\ Read("S")' = Read("S")
  <2>1. inbox' = [inbox EXCEPT !["U"] = SubSeq(@, n + 1, Len(@))]
    BY DEF Taken
  <2>2. QED
    BY <1>0, <1>1, <2>1, Arrived DEF Speech
<1>3. /\ Read("U") <= 1 /\ Len(b.buf) = Read("U") /\ Piece(b.buf, Request, 0)
      /\ list = <<"U">> /\ b.statusServer = "READ_REQUEST" /\ got["S"] = <<>>
  <2>1. Read("U") + n <= Len(Speech("U"))
    BY <1>2 DEF Speech
  <2>2. QED
    BY <1>0, <1>1, <2>1, WhoSpeaks
<1>4. /\ Request \in Seq(Tokens) /\ Len(Request) \in Nat /\ Len(Request) >= 2
      /\ Read("U") \in Nat /\ Read("S") \in Nat /\ n \in Nat /\ n >= 1
      /\ b.buf \in Seq(Tokens) /\ Len(Response) \in Nat
      /\ Len(Request) = IF kind = "post" THEN 2 + Posted ELSE 2
      /\ \A i \in 1 .. Len(Request) : Request[i] \in HeadEnds <=> i = 2
  <2>1. kind \in Kinds /\ reply \in Replies
    BY <1>1 DEF TypeOK
  <2>2. /\ Len(Request) = IF kind = "post" THEN 2 + Posted ELSE 2
        /\ \A i \in 1 .. Len(Request) : Request[i] \in HeadEnds <=> i = 2
    BY <2>1, SpeechFacts
  <2>3. Read("U") \in Nat /\ Read("S") \in Nat /\ Len(inbox["U"]) \in Nat
    BY <1>0, LensFacts
  <2>4. QED
    BY <1>1, <2>2, <2>3, LensFacts, TypeFacts
<1>5. PICK bb \in Buffers :
        /\ bb = Appended(data) /\ bb.buf = b.buf \o data /\ SameLinks(bb, b)
        /\ bb.statusClient = b.statusClient /\ bb.statusServer = b.statusServer
        /\ bb.isEndSend = b.isEndSend
  <2>1. PICK r : r = Appended(data)
    OBVIOUS
  <2>2. /\ r \in Buffers /\ SameLinks(r, b)
        /\ r.buf = IF ~b.isClientConnect /\ b.statusServer = "WRITE_RESPONSE_BODY"
                      THEN <<>> ELSE b.buf \o data
        /\ r.statusClient = b.statusClient /\ r.statusServer = b.statusServer
        /\ r.isEndSend = b.isEndSend
    BY <1>1, <1>2, <2>1, AppendedFacts
  <2>3. QED
    BY <1>3, <2>1, <2>2
<1>6. /\ bb.buf \in Seq(Tokens) /\ Len(bb.buf) = Read("U") + n /\ Piece(bb.buf, Request, 0)
  <2>1. Piece(data, Request, 0 + Len(b.buf))
    BY <1>2, <1>3, <1>4
  <2>2. /\ b.buf \in Seq(Tokens) /\ data \in Seq(Tokens) /\ Request \in Seq(Tokens)
        /\ 0 \in Nat /\ Piece(b.buf, Request, 0)
    BY <1>2, <1>3, <1>4
  <2>3. /\ b.buf \o data \in Seq(Tokens) /\ Len(b.buf \o data) = Len(b.buf) + Len(data)
        /\ Piece(b.buf \o data, Request, 0)
    BY <2>1, <2>2, PieceJoin
  <2>4. QED
    BY <1>2, <1>3, <1>5, <2>3
<1>7. /\ Read("U") + n <= 1 => HeadLength(bb.buf) = 0
      /\ Read("U") + n >= 2 => HeadLength(bb.buf) = 2
      /\ HeadLength(bb.buf) \in Nat
  <2>1. /\ Len(bb.buf) <= 1 => HeadLength(bb.buf) = 0
        /\ Len(bb.buf) >= 2 => HeadLength(bb.buf) = 2
    BY <1>4, <1>6, HeadFound
  <2>2. QED
    BY <1>4, <1>6, <2>1
<1>h. /\ HeadLength(bb.buf) = 0 => Read("U") + n <= 1 /\ Read("U") + n # Len(Request)
      /\ HeadLength(bb.buf) # 0 => HeadLength(bb.buf) = 2 /\ Read("U") + n >= 2
      /\ HeadLength(bb.buf) # 0 /\ kind # "post" => Read("U") + n = Len(Request)
      /\ HeadLength(bb.buf) # 0 /\ kind = "post" =>
            Posted - (Len(bb.buf) - HeadLength(bb.buf)) = Len(Request) - (Read("U") + n)
      /\ Len(Request) - (Read("U") + n) <= 0 <=> Read("U") + n = Len(Request)
  <2>1. PICK m \in Nat, L \in Nat, h \in Nat :
            m = Read("U") + n /\ L = Len(Request) /\ h = HeadLength(bb.buf)
    BY <1>4, <1>7
  <2>2. m <= 1 => h = 0
    BY <1>7, <2>1
  <2>3. m >= 2 => h = 2
    BY <1>7, <2>1
  <2>4. m <= L /\ L >= 2 /\ Len(bb.buf) = m
    BY <1>2, <1>4, <1>6, <2>1
  <2>5. /\ kind # "post" => L = 2
        /\ kind = "post" => L = 2 + Posted
    BY <1>4, <2>1
  <2>6. h = 0 => m <= 1 /\ m # L
    BY <2>2, <2>3, <2>4
  <2>7. h # 0 => h = 2 /\ m >= 2
    BY <2>2, <2>3
  <2>8. h # 0 /\ kind # "post" => m = L
    BY <2>4, <2>5, <2>7
  <2>9. h # 0 /\ kind = "post" => Posted - (m - h) = L - m
    BY <1>1, <2>5, <2>7
  <2>10. L - m <= 0 <=> m = L
    BY <2>4
  <2>11. QED
    BY <2>1, <2>4, <2>6, <2>7, <2>8, <2>9, <2>10
<1>8. /\ b' \in Buffers
      /\ b'.isClientConnect = bb.isClientConnect /\ b'.isServerConnect = bb.isServerConnect
      /\ b'.isAddDataToCash = bb.isAddDataToCash /\ b'.statusServer = bb.statusServer
      /\ \/ HeadLength(bb.buf) = 0 /\ b' = bb
         \/ /\ HeadLength(bb.buf) # 0 /\ kind = "bad"
            /\ b'.error /\ b'.statusClient = "READ_RESPONSE"
            /\ b'.isReadyConnect = bb.isReadyConnect
            /\ b'.isDataGetCash = bb.isDataGetCash
         \/ /\ HeadLength(bb.buf) # 0 /\ kind # "bad"
            /\ b'.isDataGetCash /\ b'.statusClient = "READ_RESPONSE"
            /\ b'.isReadyConnect = bb.isReadyConnect /\ b'.error = bb.error
         \/ /\ HeadLength(bb.buf) # 0 /\ kind = "get"
            /\ b'.isReadyConnect /\ b'.isEndSend
            /\ b'.statusClient = bb.statusClient /\ b'.buf = bb.buf
            /\ b'.isDataGetCash = bb.isDataGetCash /\ b'.error = bb.error
         \/ /\ HeadLength(bb.buf) # 0 /\ kind = "post"
            /\ b'.isReadyConnect /\ b'.statusClient = "WRITE_REQUEST_BODY"
            /\ b'.lengthBody = Posted - (Len(bb.buf) - HeadLength(bb.buf))
            /\ b'.isEndSend <=> bb.isEndSend \/ b'.lengthBody <= 0
            /\ b'.buf = bb.buf
            /\ b'.isDataGetCash = bb.isDataGetCash /\ b'.error = bb.error
  <2>1. Len(bb.buf) \in Nat
    BY <1>6
  <2>2. b' = RequestHeading(bb, hit)
    BY <1>5
  <2>3. QED
    BY <1>1, <1>7, <2>1, <2>2, RequestHeadingFacts
<1>9. /\ b.error => kind = "bad"
      /\ ~b.isAddDataToCash /\ sent["S"] = <<>>
      /\ kind # "bad" => (b.isEndSend <=> Read("U") = Len(Request))
      /\ b.isClientConnect /\ ~Listed("S") /\ ~elem.connected
  <2>1. b.error => kind = "bad"
    BY DEF Core, Course, HangUpsHappened
  <2>2. /\ ~b.isAddDataToCash /\ sent["S"] = <<>>
        /\ kind # "bad" => (b.isEndSend <=> Read("U") = Len(Request))
    BY <1>1, <1>3 DEF Core, Flow, RequestFlow
  <2>3. ~Listed("S")
    BY <1>3, ListRange DEF Listed
  <2>4. b.isClientConnect /\ ~elem.connected
    BY <1>1, <2>3 DEF Core, Links, Presence, ElementHeld, Listed
  <2>5. QED
    BY <2>1, <2>2, <2>3, <2>4
<1>10. kind # "bad" => ~b.isEndSend
  BY <1>3, <1>4, <1>9
<1>11. /\ bb.isReadyConnect = b.isReadyConnect /\ bb.isDataGetCash = b.isDataGetCash
       /\ bb.isAddDataToCash = b.isAddDataToCash /\ bb.error = b.error
       /\ bb.isClientConnect = b.isClientConnect /\ bb.isServerConnect = b.isServerConnect
       /\ bb.statusClient = "WRITE_REQUEST_HEADING" /\ bb.statusServer = "READ_REQUEST"
       /\ bb.isEndSend = b.isEndSend
  BY <1>3, <1>5 DEF SameLinks
<1>12. /\ elem' \in Elements /\ elem'.data = elem.data /\ elem'.downloadEnd = elem.downloadEnd
       /\ elem'.connected = elem.connected
       /\ elem'.users = IF b'.isDataGetCash THEN 1 ELSE 0
  <2>1. CASE b'.isDataGetCash
    <3>1. elem' = [elem EXCEPT !.users = 1]
      BY <1>1, <2>1 DEF Counted
    <3>2. QED
      BY <1>1, <2>1, <3>1 DEF Elements
  <2>2. CASE ~b'.isDataGetCash
    BY <1>1, <2>2
  <2>3. QED
    BY <2>1, <2>2
<1>13. /\ b'.isDataGetCash => /\ b'.statusClient = "READ_RESPONSE" /\ ~b'.isReadyConnect
       /\ b'.isReadyConnect => /\ b'.statusClient \in {"WRITE_REQUEST_HEADING", "WRITE_REQUEST_BODY"}
                               /\ Read("U") + n >= 2 /\ b'.buf = bb.buf
       /\ b'.error => kind = "bad"
       /\ b'.statusClient # "END_WORK"
       /\ ~b'.isAddDataToCash /\ b'.statusServer = "READ_REQUEST"
  <2>1. ~b'.isAddDataToCash /\ b'.statusServer = "READ_REQUEST"
    BY <1>8, <1>9, <1>11
  <2>2. HeadLength(bb.buf) # 0 => Read("U") + n >= 2
    BY <1>4, <1>7
  <2>3. QED
    BY <1>1, <1>8, <1>9, <1>11, <2>1, <2>2
<1>14. TypeOK' /\ Links' /\ Course'
  <2>1. /\ b'.isClientConnect = b.isClientConnect /\ b'.isServerConnect = b.isServerConnect
        /\ b'.statusClient = "END_WORK" <=> b.statusClient = "END_WORK"
        /\ b.isAddDataToCash => b'.isAddDataToCash
        /\ elem'.connected => Listed("S") /\ b'.isAddDataToCash
    BY <1>8, <1>9, <1>11, <1>12, <1>13
  <2>2. /\ b'.isDataGetCash => /\ "U" = "U" /\ b'.statusClient = "READ_RESPONSE"
                               /\ list = <<"U">> /\ got["S"] = <<>> /\ ~b'.isReadyConnect
        /\ b'.isReadyConnect =>
               /\ list = <<"U">> /\ b'.statusServer = "READ_REQUEST"
               /\ b'.statusClient \in {"WRITE_REQUEST_HEADING", "WRITE_REQUEST_BODY"}
               /\ Read("U")' >= 2 /\ Len(b'.buf) = Read("U")'
    BY <1>2, <1>3, <1>6, <1>13
  <2>3. QED
    BY <1>0, <1>2, <1>8, <1>12, <1>13, <2>1, <2>2, ReadingCourse
<1>15. RequestFlow'
  <2>1. sent'["S"] = <<>> /\ ~b'.isAddDataToCash
    BY <1>1, <1>9, <1>13
  <2>2. ASSUME kind # "bad", ~b'.isDataGetCash
        PROVE  /\ b'.buf = bb.buf /\ (b'.isEndSend <=> Read("U") + n = Len(Request))
               /\ b'.statusClient # "READ_RESPONSE"
    <3>1. CASE HeadLength(bb.buf) = 0 /\ b' = bb
      <4>1. Read("U") + n # Len(Request)
        BY <1>h, <3>1
      <4>2. QED
        BY <1>10, <1>11, <2>2, <3>1, <4>1
    <3>2. CASE /\ HeadLength(bb.buf) # 0 /\ kind = "get"
               /\ b'.isReadyConnect /\ b'.isEndSend
               /\ b'.statusClient = bb.statusClient /\ b'.buf = bb.buf
      <4>1. Read("U") + n = Len(Request)
        BY <1>h, <3>2
      <4>2. QED
        BY <1>11, <3>2, <4>1
    <3>3. CASE /\ HeadLength(bb.buf) # 0 /\ kind = "post" /\ b'.statusClient = "WRITE_REQUEST_BODY"
               /\ b'.lengthBody = Posted - (Len(bb.buf) - HeadLength(bb.buf))
               /\ b'.isEndSend <=> bb.isEndSend \/ b'.lengthBody <= 0
               /\ b'.buf = bb.buf
      <4>1. b'.lengthBody <= 0 <=> Read("U") + n = Len(Request)
        BY <1>h, <3>3
      <4>2. QED
        BY <1>10, <1>11, <2>2, <3>3, <4>1
    <3>4. QED
      BY <1>1, <1>8, <1>11, <2>2, <3>1, <3>2, <3>3
  <2>3. ASSUME kind # "bad", ~b'.isDataGetCash
        PROVE  Between("U")' /\ b'.buf # <<>>
    <3>1. Len(b'.buf) = Read("U")' /\ Piece(b'.buf, Request, 0) /\ b'.buf # <<>>
      <4>1. b'.buf = bb.buf
        BY <2>2, <2>3
      <4>2. Len(bb.buf) = Read("U")' /\ Piece(bb.buf, Request, 0) /\ Len(bb.buf) >= 1
        BY <1>2, <1>4, <1>6
      <4>3. bb.buf # <<>>
        BY <4>2
      <4>4. QED
        BY <4>1, <4>2, <4>3
    <3>2. Read("U")' \in Nat /\ Len(got["S"]) = 0
      BY <1>2, <1>3, <1>4
    <3>3. QED
      BY <1>0, <1>1, <3>1, <3>2 DEF Between, Speech, Piece
  <2>4. QED
    BY <1>1, <1>2, <2>1, <2>2, <2>3 DEF RequestFlow
<1>16. HeadingFlow'
  <2>1. /\ b'.statusClient = "WRITE_REQUEST_HEADING" =>
             \/ /\ Read("U")' <= 1 /\ Len(b'.buf) = Read("U")' /\ Piece(b'.buf, Request, 0)
                /\ list = <<"U">> /\ b'.statusServer = "READ_REQUEST" /\ got["S"] = <<>>
             \/ Read("U")' = Len(Request) /\ kind = "get"
    <3>1. CASE HeadLength(bb.buf) = 0 /\ b' = bb
      <4>1. Read("U")' <= 1
        BY <1>2, <1>h, <3>1
      <4>2. QED
        BY <1>2, <1>3, <1>6, <1>11, <3>1, <4>1
    <3>2. CASE HeadLength(bb.buf) # 0 /\ kind = "get"
      <4>1. Read("U")' = Len(Request)
        BY <1>2, <1>h, <3>2
      <4>2. QED
        BY <3>2, <4>1
    <3>3. QED
      BY <1>1, <1>8, <3>1, <3>2
  <2>2. b'.statusClient = "WRITE_REQUEST_BODY" =>
             kind = "post" /\ Read("U")' >= 2 /\ b'.lengthBody = Len(Request) - Read("U")'
    <3>1. CASE /\ HeadLength(bb.buf) # 0 /\ kind = "post"
               /\ b'.lengthBody = Posted - (Len(bb.buf) - HeadLength(bb.buf))
      <4>1. b'.lengthBody = Len(Request) - (Read("U") + n) /\ Read("U") + n >= 2
        BY <1>h, <3>1
      <4>2. QED
        BY <1>2, <3>1, <4>1
    <3>2. QED
      BY <1>8, <1>11, <3>1
  <2>3. b'.statusClient = "READ_RESPONSE" => Read("U")' = Len(Request) \/ b'.isDataGetCash
    <3>1. CASE HeadLength(bb.buf) # 0 /\ kind = "bad"
      <4>1. Read("U")' = Len(Request)
        BY <1>2, <1>h, <3>1
      <4>2. QED
        BY <4>1
    <3>2. QED
      BY <1>8, <1>11, <3>1
  <2>4. QED
    BY <1>1, <1>9, <2>1, <2>2, <2>3 DEF HeadingFlow, Piece
<1>17. ResponseFlow'
  BY <1>1, <1>9, <1>13 DEF ResponseFlow
<1>18. Endings'
  BY <1>1, <1>13 DEF Endings
<1>19. Filling'
  BY <1>1, <1>2, <1>9, <1>12, <1>13 DEF Core, Flow, Filling, Piece
<1>20. QED
  BY <1>2, <1>14, <1>15, <1>16, <1>17, <1>18, <1>19 DEF Core, Flow

\* A piece of the request's body is read: it joins what waits in the buffer,
\* and the end is known when nothing is left to come.
LEMMA ReadingRequestBody ==
    ASSUME Core, Reads("U"), NEW n \in 1 .. Len(inbox["U"]),
           NEW data, data = SubSeq(inbox["U"], 1, n),
           inbox' = Taken("U", n),
           b.statusClient = "WRITE_REQUEST_BODY",
           b' = RequestBody(Appended(data), data),
           UNCHANGED elem
    PROVE  Core'
<1>0. "U" \in Clients /\ "S" \in Clients /\ Other("U") = "S" /\ Other("S") = "U"
  BY DEF Clients, Other
<1>1. /\ pc = "visit" /\ Listed("U") /\ TypeOK /\ b \in Buffers /\ elem \in Elements
      /\ ~b.isReadyConnect /\ ~b.isDataGetCash /\ elem.users = 0
      /\ UNCHANGED <<list, at, pair, watched, freed, kind, reply, open, sent, got>>
      /\ UNCHANGED <<caseVars, open, sent, got>>
      /\ Request' = Request /\ Response' = Response
      /\ (Listed("U")' <=> Listed("U")) /\ (Listed("S")' <=> Listed("S"))
  BY <1>0, ReadingStarts
<1>2. /\ data \in Seq(Tokens) /\ Len(data) = n /\ Piece(data, Request, Read("U"))
      /\ inbox' \in [Clients -> Seq(Tokens)] /\ Spoken'
      /\ Read("U")' = Read("U") + n /\ Read("U") + n <= Len(Request)
      /\ Read("S")' = Read("S")
  <2>1. inbox' = [inbox EXCEPT !["U"] = SubSeq(@, n + 1, Len(@))]
    BY DEF Taken
  <2>2. QED
    BY <1>0, <1>1, <2>1, Arrived DEF Speech
<1>3. b.statusServer \in {"READ_REQUEST", "END_WORK"}
  <2>1. Read("U") + n <= Len(Speech("U"))
    BY <1>2 DEF Speech
  <2>2. QED
    BY <1>0, <1>1, <2>1, WhoSpeaks
<1>4. /\ Request \in Seq(Tokens) /\ Len(Request) \in Nat
      /\ Read("U") \in Nat /\ n \in Nat /\ n >= 1
      /\ b.buf \in Seq(Tokens) /\ Len(b.buf) \in Nat /\ b.lengthBody \in Int
      /\ Len(got["S"]) \in Nat
  <2>1. Read("U") \in Nat /\ Len(inbox["U"]) \in Nat /\ Len(got["S"]) \in Nat
    BY <1>0, LensFacts
  <2>2. QED
    BY <1>1, <2>1, LensFacts, TypeFacts
<1>5. kind = "post" /\ Read("U") >= 2 /\ b.lengthBody = Len(Request) - Read("U")
  BY DEF Core, Flow, HeadingFlow
<1>6. PICK bb \in Buffers :
        /\ bb = Appended(data) /\ bb.buf = b.buf \o data /\ SameLinks(bb, b)
        /\ bb.statusClient = b.statusClient /\ bb.statusServer = b.statusServer
        /\ bb.isEndSend = b.isEndSend
  <2>1. PICK r : r = Appended(data)
    OBVIOUS
  <2>2. /\ r \in Buffers /\ SameLinks(r, b)
        /\ r.buf = IF ~b.isClientConnect /\ b.statusServer = "WRITE_RESPONSE_BODY"
                      THEN <<>> ELSE b.buf \o data
        /\ r.statusClient = b.statusClient /\ r.statusServer = b.statusServer
        /\ r.isEndSend = b.isEndSend
    BY <1>1, <1>2, <2>1, AppendedFacts
  <2>3. QED
    BY <1>3, <2>1, <2>2
<1>7. /\ b' \in Buffers
      /\ b'.isClientConnect = b.isClientConnect /\ b'.isServerConnect = b.isServerConnect
      /\ b'.isAddDataToCash = b.isAddDataToCash /\ b'.statusServer = b.statusServer
      /\ b'.isReadyConnect = b.isReadyConnect /\ b'.statusClient = "WRITE_REQUEST_BODY"
      /\ b'.isDataGetCash = b.isDataGetCash /\ b'.error = b.error
      /\ b'.buf = b.buf \o data
      /\ b'.lengthBody = b.lengthBody - n
      /\ b'.isEndSend <=> b.isEndSend \/ b'.lengthBody <= 0
  <2>1. b' = RequestBody(bb, data)
    BY <1>6
  <2>2. /\ b' \in Buffers
        /\ b'.isClientConnect = bb.isClientConnect /\ b'.isServerConnect = bb.isServerConnect
        /\ b'.isAddDataToCash = bb.isAddDataToCash /\ b'.statusServer = bb.statusServer
        /\ b'.isReadyConnect = bb.isReadyConnect /\ b'.statusClient = bb.statusClient
        /\ b'.isDataGetCash = bb.isDataGetCash /\ b'.error = bb.error /\ b'.buf = bb.buf
        /\ b'.lengthBody = bb.lengthBody - Len(data)
        /\ b'.isEndSend <=> bb.isEndSend \/ b'.lengthBody <= 0
    <3>1. bb \in Buffers /\ data \in Seq(Tokens)
      BY <1>2
    <3>2. RequestBodyRead(b', bb, Len(data))
      BY <2>1, <3>1, RequestBodyFacts
    <3>3. QED
      BY <3>2 DEF RequestBodyRead
  <2>3. QED
    BY <1>2, <1>6, <2>2 DEF SameLinks
<1>8. /\ b'.lengthBody = Len(Request) - Read("U")'
      /\ b'.lengthBody <= 0 <=> Read("U")' = Len(Request)
      /\ Read("U") # Len(Request) /\ Read("U")' >= 2 /\ Read("U")' \in Nat
  <2>1. PICK m \in Nat, L \in Nat : m = Read("U") /\ L = Len(Request)
    BY <1>4
  <2>2. b'.lengthBody = (L - m) - n /\ Read("U")' = m + n /\ m + n <= L /\ m >= 2
    BY <1>2, <1>5, <1>7, <2>1
  <2>3. (L - m) - n = L - (m + n) /\ (L - (m + n) <= 0 <=> m + n = L) /\ m # L
    BY <1>4, <2>2
  <2>4. b'.lengthBody = Len(Request) - Read("U")'
    BY <2>1, <2>2, <2>3
  <2>5. b'.lengthBody <= 0 <=> Read("U")' = Len(Request)
    BY <2>1, <2>2, <2>3
  <2>6. Read("U") # Len(Request) /\ Read("U")' >= 2 /\ Read("U")' \in Nat
    <3>1. m + n >= 2 /\ m + n \in Nat
      BY <1>4, <2>2
    <3>2. QED
      BY <2>1, <2>2, <2>3, <3>1
  <2>7. QED
    BY <2>4, <2>5, <2>6
<1>9. TypeOK' /\ Links' /\ Course'
  <2>1. b.error => kind = "bad"
    BY DEF Core, Course, HangUpsHappened
  <2>2. elem.connected => Listed("S") /\ b.isAddDataToCash
    BY DEF Core, Links, ElementHeld, Listed
  <2>3. /\ b'.statusClient = "END_WORK" <=> b.statusClient = "END_WORK"
        /\ b.isAddDataToCash => b'.isAddDataToCash
        /\ elem'.connected => Listed("S") /\ b'.isAddDataToCash
        /\ elem'.users = IF b'.isDataGetCash THEN 1 ELSE 0
        /\ b'.error => kind = "bad"
        /\ ~b'.isDataGetCash /\ ~b'.isReadyConnect /\ elem' \in Elements
    BY <1>1, <1>7, <2>1, <2>2
  <2>4. QED
    BY <1>0, <1>2, <1>7, <2>3, ReadingCourse
<1>10. RequestFlow'
  <2>1. ASSUME b.statusServer = "READ_REQUEST"
        PROVE  /\ sent["S"] = <<>> /\ ~b.isAddDataToCash /\ Between("U")
               /\ b.isEndSend <=> Read("U") = Len(Request)
    BY <1>1, <1>5, <2>1 DEF Core, Flow, RequestFlow
  <2>2. ASSUME b.statusServer = "READ_REQUEST"
        PROVE  /\ Between("U")' /\ b'.buf # <<>>
               /\ b'.isEndSend <=> Read("U")' = Len(Request)
    <3>1. /\ Len(b.buf) <= Read("U") /\ Piece(b.buf, Request, Read("U") - Len(b.buf))
          /\ Len(got["S"]) <= Read("U") - Len(b.buf)
          /\ open["S"] => Len(got["S"]) = Read("U") - Len(b.buf)
      BY <1>0, <2>1, <2>2 DEF Between, Speech
    <3>2. PICK k \in Nat : k = Read("U") - Len(b.buf)
      BY <1>4, <3>1
    <3>3. k + Len(b.buf) = Read("U")
      BY <1>4, <3>2
    <3>4. /\ b.buf \o data \in Seq(Tokens) /\ Len(b.buf \o data) = Len(b.buf) + Len(data)
          /\ Piece(b.buf \o data, Request, k)
      <4>1. Piece(b.buf, Request, k) /\ Piece(data, Request, k + Len(b.buf))
        BY <1>2, <3>1, <3>2, <3>3
      <4>2. QED
        BY <1>2, <1>4, <4>1, PieceJoin
    <3>5. /\ Len(b'.buf) = Len(b.buf) + n /\ Piece(b'.buf, Request, k)
      BY <1>2, <1>7, <3>4
    <3>6. /\ Len(b'.buf) <= Read("U")' /\ Read("U")' - Len(b'.buf) = k /\ b'.buf # <<>>
      <4>1. PICK m \in Nat, l \in Nat : m = Read("U") /\ l = Len(b.buf)
        BY <1>4
      <4>2. k + l = m /\ Len(b'.buf) = l + n /\ Read("U")' = m + n
        BY <1>2, <3>3, <3>5, <4>1
      <4>3. l + n <= m + n /\ (m + n) - (l + n) = k /\ l + n # 0
        BY <1>4, <4>2
      <4>4. Len(b'.buf) # 0
        BY <4>2, <4>3
      <4>5. b'.buf # <<>>
        BY <4>4
      <4>6. QED
        BY <4>2, <4>3, <4>5
    <3>7. Between("U")'
      <4>1. Piece(b.buf, Speech("U"), Read("U") - Len(b.buf))'
        BY <1>1, <3>5, <3>6 DEF Piece, Speech
      <4>2. /\ Len(got'["S"]) <= Read("U")' - Len(b'.buf)
            /\ open'["S"] => Len(got'["S"]) = Read("U")' - Len(b'.buf)
        BY <1>1, <3>1, <3>2, <3>6
      <4>3. QED
        BY <1>0, <3>6, <4>1, <4>2 DEF Between
    <3>8. b'.isEndSend <=> Read("U")' = Len(Request)
      BY <1>7, <1>8, <2>1, <2>2
    <3>9. QED
      BY <3>6, <3>7, <3>8
  <2>3. QED
    BY <1>1, <1>7, <2>1, <2>2 DEF RequestFlow
<1>11. HeadingFlow'
  BY <1>1, <1>5, <1>7, <1>8 DEF HeadingFlow
<1>12. ResponseFlow'
  BY <1>1, <1>2, <1>3, <1>7 DEF Core, Flow, ResponseFlow
<1>13. Endings'
  BY <1>1, <1>7 DEF Core, Flow, Endings
<1>14. Filling'
  BY <1>1, <1>2, <1>3, <1>7 DEF Core, Flow, Filling, Piece
<1>15. QED
  BY <1>2, <1>9, <1>10, <1>11, <1>12, <1>13, <1>14 DEF Core, Flow

\* The element after data went into it (wrightResponseHeading,
\* wrightResponseBody), and after the heading opened it.
Opened(data) == [Cached(data) EXCEPT !.connected = TRUE]

\* What the element takes is put behind what it holds; it is complete when
\* the buffer says that nothing is left.
LEMMA CachedFacts ==
    ASSUME elem \in Elements, b' \in Buffers, NEW data \in Seq(Tokens),
           NEW e, e = Cached(data) \/ e = Opened(data)
    PROVE  /\ e \in Elements /\ e.data = elem.data \o data
           /\ e.downloadEnd <=> b'.haveLength /\ b'.lengthBody <= 0
           /\ e.users = elem.users
           /\ e = Cached(data) => e.connected = elem.connected
<1>1. PICK d \in Seq(Tokens) : d = elem.data \o data
  <2>1. elem.data \in Seq(Tokens)
    BY DEF Elements
  <2>2. elem.data \o data \in Seq(Tokens)
    BY <2>1
  <2>3. QED
    BY <2>2
<1>2. PICK f \in BOOLEAN : f = (b'.haveLength /\ b'.lengthBody <= 0)
  OBVIOUS
<1>3. Cached(data) = [elem EXCEPT !.data = d, !.downloadEnd = f]
  BY <1>1, <1>2 DEF Cached
<1>4. PICK x \in Elements : x = [elem EXCEPT !.data = d, !.downloadEnd = f]
  BY DEF Elements
<1>5. x.data = d /\ x.downloadEnd = f /\ x.users = elem.users /\ x.connected = elem.connected
  BY <1>4 DEF Elements
<1>6. CASE e = Cached(data)
  <2>1. e = x
    BY <1>3, <1>4, <1>6
  <2>2. QED
    BY <1>1, <1>2, <1>5, <2>1
<1>7. CASE e = Opened(data)
  <2>1. e = [x EXCEPT !.connected = TRUE]
    BY <1>3, <1>4, <1>7 DEF Opened
  <2>2. e \in Elements
    BY <2>1 DEF Elements
  <2>3. e.data = x.data /\ e.downloadEnd = x.downloadEnd /\ e.users = x.users
    BY <2>1 DEF Elements
  <2>4. e = Cached(data) => e.connected = elem.connected
    BY <1>3, <1>4, <1>5
  <2>5. QED
    BY <1>1, <1>2, <1>5, <2>2, <2>3, <2>4
<1>8. QED
  BY <1>6, <1>7

\* A piece of the response's heading is read: it waits for its end, or what
\* follows is known: length, cache, end.
LEMMA ReadingResponseHeading ==
    ASSUME Core, Reads("S"), NEW n \in 1 .. Len(inbox["S"]), NEW hit \in BOOLEAN,
           NEW data, data = SubSeq(inbox["S"], 1, n),
           inbox' = Taken("S", n),
           b.statusServer = "WRITE_RESPONSE_HEADING",
           NEW bb, bb = Appended(data),
           b' = ResponseHeading(bb, hit),
           elem' = IF b'.isAddDataToCash /\ HeadLength(bb.buf) > 0 THEN Opened(bb.buf) ELSE elem
    PROVE  Core'
<1>0. "U" \in Clients /\ "S" \in Clients /\ Other("U") = "S" /\ Other("S") = "U"
  BY DEF Clients, Other
<1>1. /\ pc = "visit" /\ Listed("S") /\ TypeOK /\ b \in Buffers /\ elem \in Elements
      /\ ~b.isReadyConnect /\ ~b.isDataGetCash /\ elem.users = 0
      /\ UNCHANGED <<list, at, pair, watched, freed, kind, reply, open, sent, got>>
      /\ UNCHANGED <<caseVars, open, sent, got>>
      /\ Request' = Request /\ Response' = Response
      /\ (Listed("U")' <=> Listed("U")) /\ (Listed("S")' <=> Listed("S"))
      /\ reply \in Replies
  BY <1>0, ReadingStarts
<1>2. /\ data \in Seq(Tokens) /\ Len(data) = n /\ Piece(data, Response, Read("S"))
      /\ inbox' \in [Clients -> Seq(Tokens)] /\ Spoken'
      /\ Read("S")' = Read("S") + n /\ Read("S") + n <= Len(Response)
      /\ Read("U")' = Read("U")
  <2>1. inbox' = [inbox EXCEPT !["S"] = SubSeq(@, n + 1, Len(@))]
    BY DEF Taken
  <2>2. QED
    BY <1>0, <1>1, <2>1, Arrived DEF Speech
<1>3. /\ Response \in Seq(Tokens) /\ Len(Response) \in Nat /\ Len(Response) >= 2
      /\ Read("S") \in Nat /\ n \in Nat /\ n >= 1
      /\ b.buf \in Seq(Tokens) /\ Len(b.buf) \in Nat /\ Len(got["U"]) \in Nat
  <2>1. Read("S") \in Nat /\ Len(inbox["S"]) \in Nat /\ Len(got["U"]) \in Nat
    BY <1>0, LensFacts
  <2>2. QED
    BY <1>1, <2>1, LensFacts, TypeFacts
<1>4. /\ list = <<"S", "U">> /\ ~b.isReadyToSend /\ ~b.isEndSend
      /\ Len(b.buf) = Read("S") /\ Read("S") <= 1 /\ ~b.isAddDataToCash
      /\ Read("U") = Len(Request) /\ kind # "bad"
      /\ b.statusClient \in {"READ_RESPONSE", "END_WORK"}
      /\ open["S"] => Len(got["S"]) = Len(Request)
  BY DEF Core, Flow, ResponseFlow
<1>5. Listed("U") /\ b.statusClient = "READ_RESPONSE"
  <2>1. Listed("U")
    BY <1>4, ListRange DEF Listed, Clients
  <2>2. QED
    BY <1>4, <2>1 DEF Core, Links, Presence
<1>6. /\ Piece(b.buf, Response, 0) /\ Len(got["U"]) = 0 /\ ~elem.connected
      /\ elem.data = <<>> /\ ~elem.downloadEnd
  <2>1. Between("S")
    BY <1>4, <1>5 DEF Core, Flow, ResponseFlow
  <2>2. Read("S") - Len(b.buf) = 0
    BY <1>3, <1>4
  <2>3. Piece(b.buf, Response, 0) /\ Len(got["U"]) <= 0
    BY <1>0, <2>1, <2>2 DEF Between, Speech
  <2>4. ~elem.connected
    BY <1>4 DEF Core, Links, ElementHeld
  <2>5. elem.data = <<>> /\ ~elem.downloadEnd
    BY <1>4 DEF Core, Flow, Filling
  <2>6. QED
    BY <1>3, <2>3, <2>4, <2>5
<1>7. /\ bb \in Buffers /\ bb.buf = b.buf \o data /\ SameLinks(bb, b)
      /\ bb.statusClient = b.statusClient /\ bb.statusServer = b.statusServer
      /\ bb.isEndSend = b.isEndSend
  <2>1. /\ bb \in Buffers /\ SameLinks(bb, b)
        /\ bb.buf = IF ~b.isClientConnect /\ b.statusServer = "WRITE_RESPONSE_BODY"
                       THEN <<>> ELSE b.buf \o data
        /\ bb.statusClient = b.statusClient /\ bb.statusServer = b.statusServer
        /\ bb.isEndSend = b.isEndSend
    BY <1>1, <1>2, AppendedFacts
  <2>2. QED
    BY <2>1
<1>8. /\ bb.buf \in Seq(Tokens) /\ Len(bb.buf) = Read("S") + n /\ Piece(bb.buf, Response, 0)
  <2>1. Piece(data, Response, 0 + Len(b.buf))
    BY <1>2, <1>3, <1>4
  <2>2. /\ b.buf \in Seq(Tokens) /\ data \in Seq(Tokens) /\ Response \in Seq(Tokens)
        /\ 0 \in Nat /\ Piece(b.buf, Response, 0)
    BY <1>2, <1>3, <1>6
  <2>3. /\ b.buf \o data \in Seq(Tokens) /\ Len(b.buf \o data) = Len(b.buf) + Len(data)
        /\ Piece(b.buf \o data, Response, 0)
    BY <2>1, <2>2, PieceJoin
  <2>4. QED
    BY <1>2, <1>4, <1>7, <2>3
<1>9. /\ \A i \in 1 .. Len(Response) : Response[i] \in HeadEnds <=> i = 2
      /\ \A i \in 1 .. Len(Response) : Response[i] \in {"rhead", "rhead0"} <=> i = 2
      /\ reply.len # NoLength => reply.len \in Nat /\ Len(Response) <= 2 + reply.len
  <2>1. kind \in Kinds /\ reply \in Replies
    BY <1>1 DEF TypeOK
  <2>2. QED
    BY <2>1, SpeechFacts
<1>10. /\ Read("S") + n <= 1 => HeadLength(bb.buf) = 0
       /\ Read("S") + n >= 2 => HeadLength(bb.buf) = 2
       /\ HeadLength(bb.buf) \in {0, 2}
       /\ HeadLength(bb.buf) = 2 => Read("S") + n >= 2
       /\ HeadLength(bb.buf) = 0 => Read("S") + n <= 1
       /\ Len(bb.buf) \in Nat
  <2>1. /\ Len(bb.buf) <= 1 => HeadLength(bb.buf) = 0
        /\ Len(bb.buf) >= 2 => HeadLength(bb.buf) = 2
    BY <1>3, <1>8, <1>9, HeadFound
  <2>2. PICK m \in Nat : m = Read("S") + n /\ m = Len(bb.buf)
    BY <1>3, <1>8
  <2>3. m <= 1 \/ m >= 2
    OBVIOUS
  <2>4. QED
    BY <2>1, <2>2, <2>3
<1>11. HeadLength(bb.buf) = 2 => Len(bb.buf) >= 2 /\ bb.buf[2] \in {"rhead", "rhead0"}
  <2>1. HAVE HeadLength(bb.buf) = 2
  <2>2. Len(bb.buf) >= 2 /\ 2 \in 1 .. Len(bb.buf) /\ 2 \in 1 .. Len(Response)
    BY <1>3, <1>8, <1>10, <2>1
  <2>3. bb.buf[2] = Response[0 + 2]
    BY <1>8, <2>2 DEF Piece
  <2>4. QED
    BY <1>9, <2>2, <2>3
<1>12. ResponseHeadingRead(b', bb)
  <2>1. ~bb.isEndSend /\ ~bb.isAddDataToCash
    BY <1>4, <1>7 DEF SameLinks
  <2>2. QED
    BY <1>1, <1>7, <1>10, <1>11, <2>1, ResponseHeadingFacts
<1>13. /\ b' \in Buffers
       /\ b'.isClientConnect = b.isClientConnect /\ b'.isServerConnect = b.isServerConnect
       /\ b'.isReadyConnect = b.isReadyConnect /\ b'.statusClient = "READ_RESPONSE"
       /\ b'.isDataGetCash = b.isDataGetCash /\ b'.error = b.error /\ b'.buf = bb.buf
  BY <1>5, <1>7, <1>12 DEF ResponseHeadingRead, SameLinks
<1>14. \/ HeadLength(bb.buf) = 0 /\ b' = bb
       \/ /\ HeadLength(bb.buf) = 2
          /\ b'.statusServer = "WRITE_RESPONSE_BODY"
          /\ b'.haveLength <=> reply.len # NoLength
          /\ b'.haveLength => b'.lengthBody = reply.len - (Len(bb.buf) - 2)
          /\ b'.isAddDataToCash => b'.haveLength
          /\ b'.isEndSend /\ b'.haveLength => b'.lengthBody <= 0
          /\ b'.isEndSend /\ ~b'.haveLength => EndInside(bb.buf)
  BY <1>12 DEF ResponseHeadingRead
<1>15. Between("S")'
  <2>1. /\ Len(b'.buf) = Read("S")' /\ Piece(b'.buf, Response, 0) /\ Read("S")' \in Nat
    BY <1>2, <1>3, <1>8, <1>13
  <2>2. Read("S")' - Len(b'.buf) = 0 /\ Len(b'.buf) <= Read("S")'
    BY <2>1
  <2>3. Piece(b.buf, Speech("S"), Read("S") - Len(b.buf))'
    BY <1>1, <2>1, <2>2 DEF Piece, Speech
  <2>4. /\ Len(got'["U"]) <= Read("S")' - Len(b'.buf)
        /\ open'["U"] => Len(got'["U"]) = Read("S")' - Len(b'.buf)
    BY <1>1, <1>6, <2>2
  <2>5. QED
    BY <1>0, <2>2, <2>3, <2>4 DEF Between
<1>16. CASE HeadLength(bb.buf) = 0 /\ b' = bb
  <2>1. /\ elem' = elem /\ b'.statusServer = "WRITE_RESPONSE_HEADING" /\ ~b'.isAddDataToCash
        /\ ~b'.isReadyToSend /\ ~b'.isEndSend /\ Read("S")' <= 1
    <3>1. ~bb.isReadyToSend
      BY <1>1, <1>2, <1>4, AppendedFacts
    <3>2. QED
      BY <1>2, <1>4, <1>7, <1>10, <1>16, <3>1 DEF SameLinks
  <2>2. TypeOK' /\ Links' /\ Course'
    <3>1. b.error => kind = "bad"
      BY DEF Core, Course, HangUpsHappened
    <3>2. /\ b'.statusClient = "END_WORK" <=> b.statusClient = "END_WORK"
          /\ b.isAddDataToCash => b'.isAddDataToCash
          /\ elem'.connected => Listed("S") /\ b'.isAddDataToCash
          /\ elem'.users = IF b'.isDataGetCash THEN 1 ELSE 0
          /\ b'.error => kind = "bad"
          /\ ~b'.isDataGetCash /\ ~b'.isReadyConnect /\ elem' \in Elements
      BY <1>1, <1>4, <1>5, <1>6, <1>13, <2>1, <3>1
    <3>3. QED
      BY <1>0, <1>2, <1>13, <3>2, ReadingCourse
  <2>3. RequestFlow'
    BY <2>1 DEF RequestFlow
  <2>4. HeadingFlow'
    BY <1>1, <1>2, <1>4, <1>13 DEF Core, Flow, HeadingFlow
  <2>5. ResponseFlow'
    BY <1>1, <1>2, <1>4, <1>8, <1>13, <1>15, <2>1 DEF ResponseFlow
  <2>6. Endings'
    BY <1>1, <2>1 DEF Core, Flow, Endings
  <2>7. Filling'
    <3>1. Len(elem.data) = 0 /\ Read("S")' >= 0 /\ Piece(elem.data, Response, 0)
      BY <1>2, <1>3, <1>6 DEF Piece
    <3>2. Len(elem.data) <= Read("S")'
      BY <1>2, <1>3, <3>1
    <3>3. QED
      BY <1>1, <1>6, <2>1, <3>1, <3>2 DEF Filling, Piece
  <2>8. QED
    BY <1>2, <2>2, <2>3, <2>4, <2>5, <2>6, <2>7 DEF Core, Flow
<1>17. CASE /\ HeadLength(bb.buf) = 2
            /\ b'.statusServer = "WRITE_RESPONSE_BODY"
            /\ b'.haveLength <=> reply.len # NoLength
            /\ b'.haveLength => b'.lengthBody = reply.len - (Len(bb.buf) - 2)
            /\ b'.isAddDataToCash => b'.haveLength
            /\ b'.isEndSend /\ b'.haveLength => b'.lengthBody <= 0
            /\ b'.isEndSend /\ ~b'.haveLength => EndInside(bb.buf)
  <2>1. /\ b'.haveLength => b'.lengthBody = 2 + reply.len - Read("S")'
        /\ b'.haveLength /\ b'.lengthBody <= 0 => Read("S")' = Len(Response)
        /\ Read("S")' >= 2
    <3>1. PICK m \in Nat, L \in Nat : m = Read("S")' /\ L = Len(Response)
      BY <1>2, <1>3
    <3>2. m = Len(bb.buf) /\ m <= L /\ m >= 2
      BY <1>2, <1>8, <1>10, <1>17, <3>1
    <3>3. ASSUME b'.haveLength
          PROVE  b'.lengthBody = 2 + reply.len - m /\ (b'.lengthBody <= 0 => m = L)
      <4>1. PICK l \in Nat : l = reply.len
        BY <1>9, <1>17, <3>3
      <4>2. L <= 2 + l
        BY <1>9, <1>17, <3>1, <3>3, <4>1
      <4>3. b'.lengthBody = l - (m - 2)
        BY <1>17, <3>2, <3>3, <4>1
      <4>4. l - (m - 2) = 2 + l - m /\ (2 + l - m <= 0 => m = L)
        BY <3>2, <4>2
      <4>5. QED
        BY <4>1, <4>3, <4>4
    <3>4. QED
      BY <3>1, <3>2, <3>3
  <2>2. b'.isEndSend => Enough(Read("S")')
    <3>1. ASSUME b'.isEndSend, ~b'.haveLength
          PROVE  reply.len = NoLength /\ EndInside(SubSeq(Response, 1, Read("S")'))
      <4>1. EndInside(bb.buf) /\ reply.len = NoLength
        BY <1>17, <3>1
      <4>2. /\ bb.buf \in Seq(Tokens) /\ Response \in Seq(Tokens) /\ Read("S")' \in Nat
            /\ Piece(bb.buf, Response, 0) /\ Read("S")' <= Len(Response)
            /\ 0 + Len(bb.buf) <= Read("S")'
        BY <1>2, <1>3, <1>8
      <4>3. QED
        BY <4>1, <4>2, EndFound
    <3>2. CASE b'.haveLength
      BY <1>17, <2>1, <3>2
    <3>3. CASE ~b'.haveLength
      BY <3>1, <3>3
    <3>4. QED
      BY <3>2, <3>3
  <2>3. /\ elem' \in Elements /\ elem'.users = elem.users
        /\ b'.isAddDataToCash =>
               /\ elem'.data = bb.buf /\ elem'.connected
               /\ elem'.downloadEnd => b'.haveLength /\ b'.lengthBody <= 0
        /\ ~b'.isAddDataToCash => elem' = elem
    <3>1. CASE b'.isAddDataToCash
      <4>1. elem' = Opened(bb.buf)
        BY <1>17, <3>1
      <4>2. PICK e : e = elem'
        OBVIOUS
      <4>3. /\ e \in Elements /\ e.data = elem.data \o bb.buf
            /\ e.downloadEnd <=> b'.haveLength /\ b'.lengthBody <= 0
            /\ e.users = elem.users
        BY <1>1, <1>8, <1>13, <4>1, <4>2, CachedFacts
      <4>4. elem.data \o bb.buf = bb.buf
        BY <1>6, <1>8
      <4>5. elem'.connected
        <5>1. PICK x : x = Cached(bb.buf)
          OBVIOUS
        <5>2. x \in Elements
          BY <1>1, <1>8, <1>13, <5>1, CachedFacts
        <5>3. elem' = [x EXCEPT !.connected = TRUE]
          BY <4>1, <5>1 DEF Opened
        <5>4. QED
          BY <5>2, <5>3 DEF Elements
      <4>6. QED
        BY <3>1, <4>2, <4>3, <4>4, <4>5
    <3>2. CASE ~b'.isAddDataToCash
      BY <1>1, <3>2
    <3>3. QED
      BY <3>1, <3>2
  <2>4. TypeOK' /\ Links' /\ Course'
    <3>1. b.error => kind = "bad"
      BY DEF Core, Course, HangUpsHappened
    <3>2. /\ b'.statusClient = "END_WORK" <=> b.statusClient = "END_WORK"
          /\ b.isAddDataToCash => b'.isAddDataToCash
          /\ elem'.connected => Listed("S") /\ b'.isAddDataToCash
          /\ elem'.users = IF b'.isDataGetCash THEN 1 ELSE 0
          /\ b'.error => kind = "bad"
          /\ ~b'.isDataGetCash /\ ~b'.isReadyConnect /\ elem' \in Elements
      BY <1>1, <1>4, <1>5, <1>6, <1>13, <2>3, <3>1
    <3>3. QED
      BY <1>0, <1>2, <1>13, <3>2, ReadingCourse
  <2>5. RequestFlow'
    BY <1>17 DEF RequestFlow
  <2>6. HeadingFlow'
    BY <1>1, <1>2, <1>4, <1>13 DEF Core, Flow, HeadingFlow
  <2>7. ResponseFlow'
    BY <1>1, <1>2, <1>4, <1>13, <1>15, <1>17, <2>1, <2>2 DEF ResponseFlow
  <2>8. Endings'
    BY <1>1, <1>17 DEF Core, Flow, Endings
  <2>9. Filling'
    <3>1. CASE b'.isAddDataToCash
      <4>1. /\ elem'.data = bb.buf /\ elem'.connected
            /\ elem'.downloadEnd => b'.haveLength /\ b'.lengthBody <= 0
            /\ b'.haveLength
        BY <1>17, <2>3, <3>1
      <4>2. Len(elem'.data) = Read("S")' /\ Piece(elem'.data, Response, 0)
        BY <1>2, <1>8, <4>1
      <4>3. elem'.data # <<>>
        <5>1. Len(elem'.data) >= 2
          BY <2>1, <4>2
        <5>2. QED
          BY <5>1
      <4>4. Read("S")' \in Nat
        BY <1>2, <1>3
      <4>5. Piece(elem.data, Response, 0)'
        BY <1>1, <4>2 DEF Piece
      <4>6. elem'.downloadEnd => Len(elem'.data) = Len(Response)
        BY <2>1, <4>1, <4>2
      <4>7. QED
        BY <1>1, <3>1, <4>1, <4>2, <4>3, <4>4, <4>5, <4>6 DEF Filling
    <3>2. CASE ~b'.isAddDataToCash
      <4>1. Len(elem.data) = 0 /\ Piece(elem.data, Response, 0) /\ elem' = elem
        BY <1>2, <1>3, <1>6, <2>3, <3>2 DEF Piece
      <4>2. Len(elem.data) <= Read("S")'
        BY <1>2, <1>3, <4>1
      <4>3. QED
        BY <1>1, <1>6, <3>2, <4>1, <4>2 DEF Filling, Piece
    <3>3. QED
      BY <3>1, <3>2
  <2>10. QED
    BY <1>2, <2>4, <2>5, <2>6, <2>7, <2>8, <2>9 DEF Core, Flow
<1>18. QED
  BY <1>14, <1>16, <1>17

\* A piece of the response's body is read: it joins what waits in the buffer,
\* or goes to the cache alone once the user left.
LEMMA ReadingResponseBody ==
    ASSUME Core, Reads("S"), NEW n \in 1 .. Len(inbox["S"]),
           NEW data, data = SubSeq(inbox["S"], 1, n),
           inbox' = Taken("S", n),
           b.statusServer = "WRITE_RESPONSE_BODY",
           NEW bb, bb = Appended(data),
           b' = ResponseBody(bb, data),
           elem' = IF b.isAddDataToCash THEN Cached(data) ELSE elem
    PROVE  Core'
<1>0. "U" \in Clients /\ "S" \in Clients /\ Other("U") = "S" /\ Other("S") = "U"
  BY DEF Clients, Other
<1>1. /\ pc = "visit" /\ Listed("S") /\ TypeOK /\ b \in Buffers /\ elem \in Elements
      /\ ~b.isReadyConnect /\ ~b.isDataGetCash /\ elem.users = 0
      /\ UNCHANGED <<list, at, pair, watched, freed, kind, reply, open, sent, got>>
      /\ UNCHANGED <<caseVars, open, sent, got>>
      /\ Request' = Request /\ Response' = Response
      /\ (Listed("U")' <=> Listed("U")) /\ (Listed("S")' <=> Listed("S"))
      /\ reply \in Replies
  BY <1>0, ReadingStarts
<1>2. /\ data \in Seq(Tokens) /\ Len(data) = n /\ Piece(data, Response, Read("S"))
      /\ inbox' \in [Clients -> Seq(Tokens)] /\ Spoken'
      /\ Read("S")' = Read("S") + n /\ Read("S") + n <= Len(Response)
      /\ Read("U")' = Read("U")
  <2>1. inbox' = [inbox EXCEPT !["S"] = SubSeq(@, n + 1, Len(@))]
    BY DEF Taken
  <2>2. QED
    BY <1>0, <1>1, <2>1, Arrived DEF Speech
<1>3. /\ Response \in Seq(Tokens) /\ Len(Response) \in Nat /\ Len(Response) >= 2
      /\ Read("S") \in Nat /\ n \in Nat /\ n >= 1
      /\ b.buf \in Seq(Tokens) /\ Len(b.buf) \in Nat /\ Len(got["U"]) \in Nat
      /\ elem.data \in Seq(Tokens) /\ Len(elem.data) \in Nat /\ b.lengthBody \in Int
  <2>1. Read("S") \in Nat /\ Len(inbox["S"]) \in Nat /\ Len(got["U"]) \in Nat
    BY <1>0, LensFacts
  <2>2. elem.data \in Seq(Tokens) /\ b.lengthBody \in Int
    BY <1>1, TypeFacts
  <2>3. Len(elem.data) \in Nat
    BY <2>2
  <2>4. QED
    BY <1>1, <2>1, <2>2, <2>3, LensFacts, TypeFacts
<1>4. /\ Read("U") = Len(Request) /\ kind # "bad"
      /\ b.statusClient \in {"READ_RESPONSE", "END_WORK"}
      /\ open["S"] => Len(got["S"]) = Len(Request)
      /\ Read("S") >= 2 /\ (b.haveLength <=> reply.len # NoLength)
      /\ b.haveLength => b.lengthBody = 2 + reply.len - Read("S")
      /\ reply.len # NoLength => reply.len \in Nat /\ Len(Response) <= 2 + reply.len
  <2>1. kind \in Kinds /\ reply \in Replies
    BY <1>1 DEF TypeOK
  <2>2. QED
    BY <2>1, SpeechFacts DEF Core, Flow, ResponseFlow
<1>5. Listed("U") <=> b.statusClient = "READ_RESPONSE"
  BY <1>4 DEF Core, Links, Presence
<1>6. /\ Piece(elem.data, Response, 0) /\ Len(elem.data) <= Read("S")
      /\ b.isAddDataToCash => elem.connected
      /\ ~b.isAddDataToCash => elem.data = <<>> /\ ~elem.downloadEnd
      /\ elem.connected => elem.data # <<>>
      /\ b.isAddDataToCash => Len(elem.data) = Read("S") /\ b.haveLength
  BY <1>1 DEF Core, Flow, Filling
<1>7. /\ bb \in Buffers /\ SameLinks(bb, b)
      /\ bb.buf = IF ~b.isClientConnect /\ b.statusServer = "WRITE_RESPONSE_BODY"
                     THEN <<>> ELSE b.buf \o data
      /\ bb.statusClient = b.statusClient /\ bb.statusServer = b.statusServer
      /\ bb.isEndSend = b.isEndSend
  BY <1>1, <1>2, AppendedFacts
<1>8. Listed("U") => bb.buf = b.buf \o data
  BY <1>7 DEF Core, Links, Presence
<1>9. ResponseBodyRead(b', bb, n)
  <2>1. ResponseBodyRead(b', bb, Len(data))
    BY <1>2, <1>7, ResponseBodyFacts
  <2>2. QED
    BY <1>2, <2>1
<1>10. /\ b' \in Buffers
       /\ b'.isClientConnect = b.isClientConnect /\ b'.isServerConnect = b.isServerConnect
       /\ b'.isAddDataToCash = b.isAddDataToCash /\ b'.statusServer = "WRITE_RESPONSE_BODY"
       /\ b'.isReadyConnect = b.isReadyConnect /\ b'.statusClient = b.statusClient
       /\ b'.isDataGetCash = b.isDataGetCash /\ b'.error = b.error /\ b'.buf = bb.buf
       /\ b'.haveLength = b.haveLength
  BY <1>7, <1>9 DEF ResponseBodyRead, SameLinks
<1>11. /\ b'.haveLength => b'.lengthBody = b.lengthBody - n
       /\ b'.isEndSend /\ b'.haveLength => b.isEndSend \/ b'.lengthBody <= 0
       /\ b'.isEndSend /\ ~b'.haveLength => b.isEndSend \/ EndInside(bb.buf)
  BY <1>7, <1>9 DEF ResponseBodyRead, SameLinks
<1>12. /\ b'.haveLength => b'.lengthBody = 2 + reply.len - Read("S")'
       /\ b'.haveLength /\ b'.lengthBody <= 0 => Read("S")' = Len(Response)
       /\ Read("S")' >= 2 /\ Read("S")' \in Nat /\ Read("S") # Len(Response)
  <2>1. PICK m \in Nat, L \in Nat : m = Read("S") /\ L = Len(Response)
    BY <1>3
  <2>2. m + n <= L /\ m >= 2 /\ Read("S")' = m + n
    BY <1>2, <1>4, <2>1
  <2>3. m + n >= 2 /\ m + n \in Nat /\ m # L
    BY <1>3, <2>2
  <2>4. ASSUME b'.haveLength
        PROVE  b'.lengthBody = 2 + reply.len - (m + n) /\ (b'.lengthBody <= 0 => m + n = L)
    <3>1. PICK l \in Nat : l = reply.len /\ L <= 2 + l
      BY <1>4, <1>10, <2>1, <2>4
    <3>2. b'.lengthBody = (2 + l - m) - n
      BY <1>4, <1>10, <1>11, <2>1, <2>4, <3>1
    <3>3. (2 + l - m) - n = 2 + l - (m + n) /\ (2 + l - (m + n) <= 0 => m + n = L)
      BY <1>3, <2>2, <3>1
    <3>4. QED
      BY <3>1, <3>2, <3>3
  <2>5. QED
    BY <2>1, <2>2, <2>3, <2>4
<1>13. Listed("U") =>
           /\ Between("S")'
           /\ b'.isEndSend => Enough(Read("S")')
  <2> HAVE Listed("U")
  <2>1. /\ Between("S")
        /\ b.isEndSend => Enough(Read("S"))
    BY <1>5 DEF Core, Flow, ResponseFlow
  <2>2. /\ Len(b.buf) <= Read("S") /\ Piece(b.buf, Response, Read("S") - Len(b.buf))
        /\ Len(got["U"]) <= Read("S") - Len(b.buf)
        /\ open["U"] => Len(got["U"]) = Read("S") - Len(b.buf)
    BY <1>0, <2>1 DEF Between, Speech
  <2>3. PICK k \in Nat : k = Read("S") - Len(b.buf)
    BY <1>3, <2>2
  <2>4. k + Len(b.buf) = Read("S")
    BY <1>3, <2>3
  <2>5. /\ b.buf \o data \in Seq(Tokens) /\ Len(b.buf \o data) = Len(b.buf) + Len(data)
        /\ Piece(b.buf \o data, Response, k)
    <3>1. Piece(b.buf, Response, k) /\ Piece(data, Response, k + Len(b.buf))
      BY <1>2, <2>2, <2>3, <2>4
    <3>2. QED
      BY <1>2, <1>3, <3>1, PieceJoin
  <2>6. /\ bb.buf \in Seq(Tokens) /\ Len(bb.buf) = Len(b.buf) + n /\ Piece(bb.buf, Response, k)
    BY <1>2, <1>8, <2>5
  <2>7. /\ Len(b'.buf) <= Read("S")' /\ Read("S")' - Len(b'.buf) = k
        /\ k + Len(bb.buf) = Read("S")'
    <3>1. PICK m \in Nat, l \in Nat : m = Read("S") /\ l = Len(b.buf)
      BY <1>3
    <3>2. k + l = m /\ Len(b'.buf) = l + n /\ Len(bb.buf) = l + n /\ Read("S")' = m + n
      BY <1>2, <1>10, <2>4, <2>6, <3>1
    <3>3. l + n <= m + n /\ (m + n) - (l + n) = k /\ k + (l + n) = m + n
      BY <1>3, <3>2
    <3>4. QED
      BY <3>2, <3>3
  <2>8. Between("S")'
    <3>1. Piece(b'.buf, Response, k)
      BY <1>10, <2>6
    <3>2. Piece(b.buf, Speech("S"), Read("S") - Len(b.buf))'
      BY <1>1, <2>7, <3>1 DEF Piece, Speech
    <3>3. /\ Len(got'["U"]) <= Read("S")' - Len(b'.buf)
          /\ open'["U"] => Len(got'["U"]) = Read("S")' - Len(b'.buf)
      BY <1>1, <2>2, <2>3, <2>7
    <3>4. QED
      BY <1>0, <2>7, <3>2, <3>3 DEF Between
  <2>9. ASSUME b.isEndSend PROVE Enough(Read("S")')
    BY <1>2, <1>3, <1>12, <2>1, <2>9, EnoughMore
  <2>10. ASSUME EndInside(bb.buf) PROVE EndInside(SubSeq(Response, 1, Read("S")'))
    <3>1. /\ bb.buf \in Seq(Tokens) /\ Response \in Seq(Tokens) /\ Piece(bb.buf, Response, k)
          /\ Read("S")' \in Nat /\ Read("S")' <= Len(Response) /\ k + Len(bb.buf) <= Read("S")'
      BY <1>2, <1>3, <1>12, <2>6, <2>7
    <3>2. QED
      BY <2>10, <3>1, EndFound
  <2>11. b'.isEndSend => Enough(Read("S")')
    <3>1. CASE b'.haveLength
      BY <1>4, <1>10, <1>11, <1>12, <2>9, <3>1
    <3>2. CASE ~b'.haveLength
      BY <1>4, <1>10, <1>11, <2>9, <2>10, <3>2
    <3>3. QED
      BY <3>1, <3>2
  <2>12. QED
    BY <2>8, <2>11
<1>14. /\ elem' \in Elements /\ elem'.users = elem.users /\ elem'.connected = elem.connected
       /\ b.isAddDataToCash =>
              /\ elem'.data = elem.data \o data
              /\ elem'.downloadEnd => b'.haveLength /\ b'.lengthBody <= 0
       /\ ~b.isAddDataToCash => elem' = elem
  <2>1. CASE b.isAddDataToCash
    <3>1. elem' = Cached(data)
      BY <2>1
    <3>2. PICK e : e = elem'
      OBVIOUS
    <3>3. /\ e \in Elements /\ e.data = elem.data \o data
          /\ e.downloadEnd <=> b'.haveLength /\ b'.lengthBody <= 0
          /\ e.users = elem.users
          /\ e = Cached(data) => e.connected = elem.connected
      <4>1. /\ elem \in Elements /\ b' \in Buffers /\ data \in Seq(Tokens)
            /\ e = Cached(data) \/ e = Opened(data)
        BY <1>1, <1>2, <1>10, <3>1, <3>2
      <4>2. QED
        BY <4>1, CachedFacts
    <3>4. e.connected = elem.connected
      BY <3>1, <3>2, <3>3
    <3>5. QED
      BY <2>1, <3>2, <3>3, <3>4
  <2>2. CASE ~b.isAddDataToCash
    BY <1>1, <2>2
  <2>3. QED
    BY <2>1, <2>2
<1>15. TypeOK' /\ Links' /\ Course'
  <2>1. b.error => kind = "bad"
    BY DEF Core, Course, HangUpsHappened
  <2>2. elem.connected => Listed("S") /\ b.isAddDataToCash
    BY DEF Core, Links, ElementHeld, Listed
  <2>3. /\ b'.statusClient = "END_WORK" <=> b.statusClient = "END_WORK"
        /\ b.isAddDataToCash => b'.isAddDataToCash
        /\ elem'.connected => Listed("S") /\ b'.isAddDataToCash
        /\ elem'.users = IF b'.isDataGetCash THEN 1 ELSE 0
        /\ b'.error => kind = "bad"
        /\ ~b'.isDataGetCash /\ ~b'.isReadyConnect /\ elem' \in Elements
    BY <1>1, <1>10, <1>14, <2>1, <2>2
  <2>4. QED
    BY <1>0, <1>2, <1>10, <2>3, ReadingCourse
<1>16. RequestFlow'
  BY <1>10 DEF RequestFlow
<1>17. HeadingFlow'
  BY <1>1, <1>2, <1>4, <1>10 DEF Core, Flow, HeadingFlow
<1>18. ResponseFlow'
  BY <1>1, <1>2, <1>4, <1>5, <1>10, <1>12, <1>13 DEF ResponseFlow
<1>19. Endings'
  BY <1>1, <1>10 DEF Core, Flow, Endings
<1>20. Filling'
  <2>1. CASE b.isAddDataToCash
    <3>1. /\ elem.data \o data \in Seq(Tokens)
          /\ Len(elem.data \o data) = Len(elem.data) + Len(data)
          /\ Piece(elem.data \o data, Response, 0)
      <4>1. 0 + Len(elem.data) = Read("S")
        BY <1>3, <1>6, <2>1
      <4>2. /\ Piece(data, Response, 0 + Len(elem.data)) /\ Piece(elem.data, Response, 0)
            /\ elem.data \in Seq(Tokens) /\ data \in Seq(Tokens) /\ Response \in Seq(Tokens)
            /\ 0 \in Nat
        BY <1>2, <1>3, <1>6, <4>1
      <4>3. QED
        BY <4>2, PieceJoin
    <3>2. Len(elem'.data) = Read("S")' /\ Piece(elem'.data, Response, 0)
      BY <1>2, <1>6, <1>14, <2>1, <3>1
    <3>3. elem'.data # <<>>
      <4>1. Len(elem'.data) >= 2
        BY <1>12, <3>2
      <4>2. QED
        BY <4>1
    <3>4. Piece(elem.data, Response, 0)'
      BY <1>1, <3>2 DEF Piece
    <3>5. elem'.downloadEnd => Len(elem'.data) = Len(Response)
      BY <1>12, <1>14, <2>1, <3>2
    <3>6. /\ b'.isAddDataToCash /\ b'.haveLength /\ elem'.connected
          /\ Len(elem'.data) <= Read("S")'
      <4>1. b'.isAddDataToCash /\ b'.haveLength
        BY <1>6, <1>10, <2>1
      <4>2. elem'.connected
        BY <1>6, <1>14, <2>1
      <4>3. Len(elem'.data) <= Read("S")'
        BY <1>12, <3>2
      <4>4. QED
        BY <4>1, <4>2, <4>3
    <3>7. Len(Response)' = Len(Response)
      BY <1>1
    <3>8. QED
      BY <3>2, <3>3, <3>4, <3>5, <3>6, <3>7 DEF Filling
  <2>2. CASE ~b.isAddDataToCash
    <3>1. elem' = elem /\ Len(elem.data) <= Read("S")'
      <4>1. Len(elem.data) <= Read("S") + n
        BY <1>3, <1>6
      <4>2. QED
        BY <1>2, <1>14, <2>2, <4>1
    <3>2. elem.data = <<>> /\ ~elem.downloadEnd
      BY <1>6, <2>2
    <3>3. QED
      BY <1>1, <1>6, <1>10, <2>2, <3>1, <3>2 DEF Filling, Piece
  <2>3. QED
    BY <2>1, <2>2
<1>21. QED
  BY <1>2, <1>15, <1>16, <1>17, <1>18, <1>19, <1>20 DEF Core, Flow

\* Whatever is read from whom, by whichever branch (readFromSocket).
LEMMA Reading == ASSUME Core, NEW c \in Clients, Reads(c) PROVE Core'
<1>1. PICK n \in 1 .. Len(inbox[c]), hit \in BOOLEAN :
         /\ inbox' = [inbox EXCEPT ![c] = SubSeq(@, n + 1, Len(@))]
         /\ ReadFromSocket(SubSeq(inbox[c], 1, n), hit)
  BY DEF Reads
<1>2. PICK data : data = SubSeq(inbox[c], 1, n)
  OBVIOUS
<1>3. inbox' = Taken(c, n) /\ ReadFromSocket(data, hit)
  BY <1>1, <1>2 DEF Taken
<1>4. pc = "visit" /\ Listed(c) /\ UNCHANGED <<caseVars, open, sent, got>>
  BY ReadingStarts
<1>5. Read(c) + n <= Len(Speech(c))
  BY <1>1, <1>4, Arrived
<1>6. PICK bb : bb = Appended(data)
  OBVIOUS
<1>7. \/ /\ b.statusClient = "WRITE_REQUEST_HEADING"
         /\ b' = RequestHeading(bb, hit)
         /\ elem' = IF b'.isDataGetCash THEN Counted ELSE elem
      \/ /\ b.statusClient = "WRITE_REQUEST_BODY"
         /\ b' = RequestBody(bb, data)
         /\ UNCHANGED elem
      \/ /\ b.statusClient \in {"READ_RESPONSE", "END_WORK"}
         /\ b.statusServer = "WRITE_RESPONSE_HEADING"
         /\ b' = ResponseHeading(bb, hit)
         /\ elem' = IF b'.isAddDataToCash /\ HeadLength(bb.buf) > 0
                       THEN Opened(bb.buf) ELSE elem
      \/ /\ b.statusClient \in {"READ_RESPONSE", "END_WORK"}
         /\ b.statusServer = "WRITE_RESPONSE_BODY"
         /\ b' = ResponseBody(bb, data)
         /\ elem' = IF b.isAddDataToCash THEN Cached(data) ELSE elem
      \/ /\ b.statusClient \in {"READ_RESPONSE", "END_WORK"}
         /\ b.statusServer \in {"READ_REQUEST", "END_WORK"}
  BY <1>3, <1>6 DEF ReadFromSocket, Counted, Opened
<1>8. CASE c = "U"
  <2>1. /\ b.statusServer \in {"READ_REQUEST", "END_WORK"}
        /\ b.statusClient \in {"WRITE_REQUEST_HEADING", "WRITE_REQUEST_BODY"}
    BY <1>4, <1>5, <1>8, WhoSpeaks
  <2>2. CASE /\ b.statusClient = "WRITE_REQUEST_HEADING"
             /\ b' = RequestHeading(bb, hit)
             /\ elem' = IF b'.isDataGetCash THEN Counted ELSE elem
    BY <1>2, <1>3, <1>6, <1>8, <2>2, ReadingRequestHeading
  <2>3. CASE /\ b.statusClient = "WRITE_REQUEST_BODY"
             /\ b' = RequestBody(bb, data)
             /\ UNCHANGED elem
    BY <1>2, <1>3, <1>6, <1>8, <2>3, ReadingRequestBody
  <2>4. QED
    BY <1>7, <2>1, <2>2, <2>3
<1>9. CASE c = "S"
  <2>1. /\ b.statusServer \in {"WRITE_RESPONSE_HEADING", "WRITE_RESPONSE_BODY"}
        /\ b.statusClient \in {"READ_RESPONSE", "END_WORK"}
    BY <1>4, <1>5, <1>9, WhoSpeaks
  <2>2. CASE /\ b.statusServer = "WRITE_RESPONSE_HEADING"
             /\ b' = ResponseHeading(bb, hit)
             /\ elem' = IF b'.isAddDataToCash /\ HeadLength(bb.buf) > 0
                           THEN Opened(bb.buf) ELSE elem
    BY <1>2, <1>3, <1>6, <1>9, <2>2, ReadingResponseHeading
  <2>3. CASE /\ b.statusServer = "WRITE_RESPONSE_BODY"
             /\ b' = ResponseBody(bb, data)
             /\ elem' = IF b.isAddDataToCash THEN Cached(data) ELSE elem
    BY <1>2, <1>3, <1>6, <1>9, <2>3, ReadingResponseBody
  <2>4. QED
    BY <1>7, <2>1, <2>2, <2>3
<1>10. QED
  BY <1>8, <1>9 DEF Clients

-----------------------------------------------------------------------------
(* The invariant. *)

\* The invariant holds initially.
LEMMA Starting == ASSUME Init PROVE Core
<1>1. /\ list = <<"U">> /\ pc = "poll" /\ at = "end" /\ pair = FALSE /\ watched = FALSE
      /\ freed = 0 /\ kind \in Kinds /\ reply \in Replies
      /\ events = [c \in Clients |-> IF c = "U" THEN {In, RdHup} ELSE All]
      /\ revents = [c \in Clients |-> {}]
      /\ inbox = [c \in Clients |-> <<>>] /\ open = [c \in Clients |-> TRUE]
      /\ sent = [c \in Clients |-> <<>>] /\ got = [c \in Clients |-> <<>>]
  BY DEF Init
<1>2. /\ b \in Buffers /\ b.statusClient = "WRITE_REQUEST_HEADING"
      /\ b.statusServer = "READ_REQUEST" /\ b.buf = <<>> /\ b.isClientConnect
      /\ ~b.isServerConnect /\ ~b.isReadyToSend /\ ~b.isEndSend /\ ~b.isReadyConnect
      /\ ~b.isAddDataToCash /\ ~b.isDataGetCash /\ ~b.error
  BY DEF Init, Buffers, ClientStatuses, ServerStatuses
<1>3. /\ elem \in Elements /\ elem.data = <<>> /\ ~elem.downloadEnd /\ ~elem.connected
      /\ elem.users = 0
  BY DEF Init, Elements
<1>4. /\ <<>> \in Seq(Tokens) /\ Len(<<>>) = 0
      /\ \A r : Len(r) \in Nat => Piece(<<>>, r, 0)
  BY DEF Piece
<1>5. Listed("U") /\ ~Listed("S") /\ list # <<"S", "U">> /\ list # <<>>
  BY <1>1, ListRange DEF Listed
<1>6. TypeOK
  <2>1. events \in [Clients -> SUBSET All] /\ revents \in [Clients -> SUBSET All]
    BY <1>1 DEF All
  <2>2. /\ inbox \in [Clients -> Seq(Tokens)] /\ open \in [Clients -> BOOLEAN]
        /\ sent \in [Clients -> Seq(Tokens)] /\ got \in [Clients -> Seq(Tokens)]
    BY <1>1, <1>4
  <2>3. QED
    BY <1>1, <1>2, <1>3, <2>1, <2>2 DEF TypeOK
<1>7. Links
  BY <1>1, <1>2, <1>3, <1>5
     DEF Links, NoDanglingLink, BufferLifetime, AloneOnlyToFill, ElementHeld, Presence, Listed
<1>8. /\ Request \in Seq(Tokens) /\ Response \in Seq(Tokens)
      /\ Len(Request) \in Nat /\ Len(Response) \in Nat /\ Len(Request) >= 2
  <2>1. Posted \in Nat
    BY HandlerAssumption
  <2>2. Request \in Seq(Tokens) /\ Response \in Seq(Tokens)
        /\ Len(Request) = IF kind = "post" THEN 2 + Posted ELSE 2
    BY <1>1, SpeechFacts
  <2>3. QED
    BY <2>1, <2>2
<1>9. /\ \A c \in Clients : /\ sent[c] = <<>> /\ inbox[c] = <<>> /\ got[c] = <<>>
                            /\ open[c] /\ Read(c) = 0 /\ Other(c) \in Clients
      /\ "U" \in Clients /\ "S" \in Clients
  BY <1>1, <1>4 DEF Read, Other, Clients
<1>10. Course
  <2>1. \A c \in Clients : RdHup \in revents[c] => ~open[c]
    BY <1>1
  <2>2. Out \notin events["U"] /\ Out \notin revents["U"]
    BY <1>1, <1>9 DEF Out, In, RdHup
  <2>3. QED
    BY <1>1, <1>2, <1>5, <2>1, <2>2 DEF Course, OneServer, Positions, HangUpsHappened
<1>11. Spoken
  <2>1. \A c \in Clients : Piece(<<>>, Speech(c), 0)
    BY <1>4, <1>8 DEF Speech
  <2>2. QED
    BY <1>4, <1>9, <2>1 DEF Spoken
<1>12. RequestFlow
  <2>1. Between("U")
    BY <1>2, <1>4, <1>8, <1>9 DEF Between, Speech
  <2>2. Read("U") # Len(Request)
    BY <1>8, <1>9
  <2>3. QED
    BY <1>2, <1>9, <2>1, <2>2 DEF RequestFlow
<1>13. HeadingFlow
  BY <1>1, <1>2, <1>4, <1>5, <1>8, <1>9 DEF HeadingFlow
<1>14. ResponseFlow /\ Endings
  BY <1>2, <1>5 DEF ResponseFlow, Endings
<1>15. Filling
  BY <1>2, <1>3, <1>4, <1>8, <1>9 DEF Filling
<1>16. QED
  BY <1>6, <1>7, <1>10, <1>11, <1>12, <1>13, <1>14, <1>15 DEF Core, Flow

\* Every step keeps the invariant.
LEMMA Stepping == ASSUME Core, [Next]_vars PROVE Core'
<1>1. CASE Thread
  <2>1. CASE (\E w \in SUBSET Clients : Poll(w)) \/ EndPass
    BY <2>1, Waiting
  <2>2. ASSUME NEW c \in Clients, Handles(c) PROVE Core'
    <3>1. CASE HangsUp(c) \/ EndsWork(c)
      BY <3>1, Leaving
    <3>2. CASE Reads(c)
      BY <3>2, Reading
    <3>3. CASE ReadFails(c) \/ NothingToRead(c) \/ NothingToWrite(c) \/ StopsPolling(c)
      BY <3>3, Passing
    <3>4. QED
      BY <2>2, <3>1, <3>2, <3>3 DEF Handles
  <2>4. CASE Connects
    BY <2>4, Connecting
  <2>5. CASE ConnectFails
    BY <2>5, NotConnecting
  <2>6. CASE WritesRequest
    BY <2>6, WritingRequest
  <2>7. CASE WritesResponse
    BY <2>7, WritingResponse
  <2>8. QED
    BY <1>1, <2>1, <2>2, <2>4, <2>5, <2>6, <2>7 DEF Thread
<1>2. CASE PollFails
  BY <1>2, Waiting
<1>9. CASE FromCash
  BY <1>9, Leaving
<1>3. CASE CacheGrows
  BY <1>3, Growing
<1>4. CASE UserSends
  BY <1>4, UserSpeaks
<1>5. CASE ServerSends
  BY <1>5, ServerSpeaks
<1>6. ASSUME NEW c \in Clients, PeerCloses(c) PROVE Core'
  BY <1>6, Closing
<1>7. CASE UNCHANGED vars
  <2>1. UNCHANGED <<list, pc, at, events, revents, pair, watched, b, freed, elem,
                    kind, reply, inbox, open, sent, got>>
    BY <1>7 DEF vars, threadVars, linkVars, caseVars, peerVars
  <2>2. TypeOK' /\ Links'
    BY <2>1 DEF Core, TypeOK, Links, NoDanglingLink, BufferLifetime, AloneOnlyToFill,
                ElementHeld, Presence, Listed
  <2>3. Course'
    BY <2>1 DEF Core, Course, OneServer, Positions, HangUpsHappened, Listed, Read
  <2>4. Flow'
    <3>1. UNCHANGED <<b, elem, list, otherVars>>
      BY <2>1 DEF otherVars, caseVars, peerVars
    <3>2. QED
      BY <3>1, FlowFrame DEF Core
  <2>5. QED
    BY <2>2, <2>3, <2>4 DEF Core
<1>8. QED
  BY <1>1, <1>2, <1>3, <1>4, <1>5, <1>6, <1>7, <1>9 DEF Next

\* What each side got so far is a prefix of what the other one sent.
LEMMA CoreInOrder == ASSUME Core PROVE InOrder
<1>1. ASSUME NEW c \in Clients PROVE IsPrefix(got[Other(c)], sent[c])
  <2>1. /\ got[Other(c)] \in Seq(Tokens) /\ sent[c] \in Seq(Tokens)
        /\ Speech(c) \in Seq(Tokens) /\ Len(inbox[c]) \in Nat /\ Len(sent[c]) \in Nat
        /\ Len(got[Other(c)]) \in Nat
    <3>1. TypeOK /\ Other(c) \in Clients
      BY DEF Core, Other, Clients
    <3>2. QED
      BY <3>1, TypeFacts, LensFacts
  <2>2. /\ Piece(sent[c], Speech(c), 0) /\ Piece(got[Other(c)], Speech(c), 0)
        /\ Len(got[Other(c)]) <= Read(c)
    BY DEF Core, Flow, Spoken
  <2>3. Len(got[Other(c)]) <= Len(sent[c])
    <3>1. PICK g \in Nat, s \in Nat, i \in Nat :
             g = Len(got[Other(c)]) /\ s = Len(sent[c]) /\ i = Len(inbox[c])
      BY <2>1
    <3>2. g <= s - i
      BY <2>2, <3>1 DEF Read
    <3>3. g <= s
      BY <3>2
    <3>4. QED
      BY <3>1, <3>3
  <2>4. QED
    BY <2>1, <2>2, <2>3, PiecePrefix
<1>2. QED
  BY <1>1 DEF InOrder, Other, Clients

\* The inductive invariant holds, whatever the user asks, whatever the server
\* answers, however both are cut into reads and writes, whoever leaves when.
THEOREM CoreHolds == Spec => []Core
  BY Starting, Stepping, PTL DEF Spec

\* No link to a client outlives it, the buffer is deleted once, with its last
\* client, one connection is made, a thread without its user only fills the
\* cache and gives its element back when it comes to its end, which a poll
\* that fails keeps it from, and each side gets what the other one sends in
\* order (Inv; HandlerOneClientImpl.cpp:59-251, BufferImpl.cpp:6-212).
THEOREM InvHolds == Spec => []Inv
<1>1. ASSUME Core PROVE ElementReleased
  <2>1. pc = "done" => ~Listed("U") /\ ~Listed("S")
    BY <1>1, ListRange DEF Core, TypeOK, Listed
  <2>2. QED
    BY <1>1, <2>1 DEF Core, Links, ElementHeld, ElementReleased, Listed
<1>2. Core => Inv
  BY <1>1, CoreInOrder DEF Core, Links, Course, Flow, Inv
<1>3. QED
  BY <1>2, CoreHolds, PTL


-----------------------------------------------------------------------------
(* What arrives. *)

\* When the receiver is still there, what it got, what the buffer holds and
\* what is unread are all that c sent, in order.
LEMMA Assembled ==
    ASSUME Core, NEW c \in Clients, Between(c), open[Other(c)]
    PROVE  got[Other(c)] \o b.buf \o inbox[c] = sent[c]
<1>1. /\ got[Other(c)] \in Seq(Tokens) /\ b.buf \in Seq(Tokens) /\ inbox[c] \in Seq(Tokens)
      /\ sent[c] \in Seq(Tokens) /\ Speech(c) \in Seq(Tokens)
  <2>1. TypeOK /\ Other(c) \in Clients
    BY DEF Core, Other, Clients
  <2>2. QED
    BY <2>1, TypeFacts, LensFacts
<1>2. PICK g \in Nat, f \in Nat, i \in Nat, s \in Nat :
         /\ g = Len(got[Other(c)]) /\ f = Len(b.buf)
         /\ i = Len(inbox[c]) /\ s = Len(sent[c])
  BY <1>1
<1>3. g = (s - i) - f
  BY <1>2 DEF Between, Read
<1>4. /\ Read(c) - Len(b.buf) = 0 + Len(got[Other(c)]) /\ Read(c) = 0 + (g + f)
      /\ g + f + i = s
  BY <1>2, <1>3 DEF Read
<1>5. /\ Piece(got[Other(c)], Speech(c), 0) /\ Piece(sent[c], Speech(c), 0)
      /\ Piece(inbox[c], Speech(c), 0 + (g + f))
      /\ Piece(b.buf, Speech(c), 0 + Len(got[Other(c)]))
  BY <1>4 DEF Core, Flow, Spoken, Between
<1>6. PICK t : t = got[Other(c)] \o b.buf
  OBVIOUS
<1>7. t \in Seq(Tokens) /\ Len(t) = g + f /\ Piece(t, Speech(c), 0)
  BY <1>1, <1>2, <1>5, <1>6, PieceJoin
<1>8. Piece(inbox[c], Speech(c), 0 + Len(t))
  BY <1>5, <1>7
<1>9. /\ t \o inbox[c] \in Seq(Tokens) /\ Len(t \o inbox[c]) = Len(t) + Len(inbox[c])
      /\ Piece(t \o inbox[c], Speech(c), 0)
  BY <1>1, <1>7, <1>8, PieceJoin
<1>10. Len(t \o inbox[c]) = Len(sent[c])
  BY <1>2, <1>4, <1>7, <1>9
<1>11. t \o inbox[c] = sent[c]
  BY <1>1, <1>5, <1>9, <1>10, PieceEqual
<1>12. QED
  BY <1>6, <1>11

\* While everybody stays, no token is lost or misplaced between the user and
\* the server, and the response phase starts only after the whole request,
\* however both are cut into reads and writes (BufferImpl.cpp:6-212).
THEOREM NothingLostHolds == Spec => []NothingLost
<1>1. Core => NothingLost
  <2> SUFFICES ASSUME Core, kind # "bad", open["U"], open["S"], "U" \in Range(list),
                      ~b.isDataGetCash
               PROVE  CASE b.statusServer = "READ_REQUEST" ->
                             got["S"] \o b.buf \o inbox["U"] = sent["U"]
                        [] b.statusServer \in {"WRITE_RESPONSE_HEADING", "WRITE_RESPONSE_BODY"} ->
                             /\ got["S"] = Request
                             /\ got["U"] \o b.buf \o inbox["S"] = sent["S"]
                        [] OTHER -> TRUE
    BY DEF NothingLost
  <2>0. "U" \in Clients /\ "S" \in Clients /\ Other("U") = "S" /\ Other("S") = "U"
    BY DEF Clients, Other
  <2>1. ASSUME b.statusServer = "READ_REQUEST"
        PROVE  got["S"] \o b.buf \o inbox["U"] = sent["U"]
    <3>1. Between("U")
      BY <2>1 DEF Core, Flow, RequestFlow
    <3>2. QED
      BY <2>0, <3>1, Assembled
  <2>2. ASSUME b.statusServer \in {"WRITE_RESPONSE_HEADING", "WRITE_RESPONSE_BODY"}
        PROVE  got["S"] = Request /\ got["U"] \o b.buf \o inbox["S"] = sent["S"]
    <3>1. b.statusClient = "READ_RESPONSE" /\ Len(got["S"]) = Len(Request)
      BY <2>2 DEF Core, Flow, ResponseFlow, Links, Presence, Listed
    <3>2. Between("S")
      BY <2>2, <3>1 DEF Core, Flow, ResponseFlow
    <3>3. got["U"] \o b.buf \o inbox["S"] = sent["S"]
      BY <2>0, <3>2, Assembled
    <3>4. got["S"] \in Seq(Tokens) /\ Request \in Seq(Tokens)
      BY <2>0, TypeFacts, LensFacts DEF Core
    <3>5. Piece(got["S"], Request, 0)
      BY <2>0 DEF Core, Flow, Spoken, Speech
    <3>6. Piece(Request, Request, 0)
      BY <3>4 DEF Piece
    <3>7. got["S"] = Request
      BY <3>1, <3>4, <3>5, <3>6, PieceEqual
    <3>8. QED
      BY <3>3, <3>7
  <2>3. QED
    BY <2>1, <2>2
<1>2. QED
  BY <1>1, CoreHolds, PTL

\* A user who was answered and was let go while both stayed has the whole
\* response when the thread ends, or, if it has no length, all of it up to
\* bytes that look like its end, which the code takes for it wherever they
\* are (HandlerOneClientImpl.cpp:122-177, BufferImpl.cpp:93-110, 119-136).
THEOREM CompleteHolds == Spec => []CompleteUnlessClosed
<1>1. Core => CompleteUnlessClosed
  <2> SUFFICES ASSUME Core, pc = "done", open["U"], open["S"], got["S"] # <<>>
               PROVE  Enough(Len(got["U"]))
    BY DEF CompleteUnlessClosed
  <2>1. ~Listed("U")
    BY ListRange DEF Core, TypeOK, Listed
  <2>2. QED
    BY <2>1 DEF Core, Flow, Endings
<1>2. QED
  BY <1>1, CoreHolds, PTL

-----------------------------------------------------------------------------
(* The element of the cache. *)

\* What went into the element is a prefix of what the server sent, and all of
\* the response when it is marked as downloaded.
LEMMA CoreCached == ASSUME Core PROVE CachedIsResponse
<1>1. /\ elem.data \in Seq(Tokens) /\ sent["S"] \in Seq(Tokens) /\ Response \in Seq(Tokens)
      /\ Len(inbox["S"]) \in Nat
  BY TypeFacts, LensFacts DEF Core
<1>2. Piece(elem.data, Response, 0) /\ Piece(sent["S"], Response, 0)
  BY DEF Core, Flow, Filling, Spoken, Speech, Clients
<1>3. Len(elem.data) <= Len(sent["S"])
  <2>1. PICK e \in Nat, s \in Nat, i \in Nat :
           e = Len(elem.data) /\ s = Len(sent["S"]) /\ i = Len(inbox["S"])
    BY <1>1
  <2>2. e <= s - i
    BY <2>1 DEF Core, Flow, Filling, Read
  <2>3. e <= s
    BY <2>2
  <2>4. QED
    BY <2>1, <2>3
<1>4. IsPrefix(elem.data, sent["S"])
  BY <1>1, <1>2, <1>3, PiecePrefix
<1>5. ASSUME elem.downloadEnd PROVE elem.data = Response
  <2>1. Len(elem.data) = Len(Response) /\ Piece(Response, Response, 0)
    BY <1>1, <1>5 DEF Core, Flow, Filling, Piece
  <2>2. QED
    BY <1>1, <1>2, <2>1, PieceEqual
<1>6. QED
  BY <1>4, <1>5 DEF CachedIsResponse

\* What may happen to the element as its readers see it.
Streams ==
    /\ IsPrefix(elem.data, elem'.data)
    /\ \/ Stream!Grow /\ Phase = "open"
       \/ Stream!Close
       \/ Phase = "unopened" /\ Phase' = "open"
Same == elem'.data = elem.data /\ elem'.connected = elem.connected

\* Every sequence continues itself, the empty one and its beginnings.
LEMMA Continues ==
    ASSUME NEW T, NEW s \in Seq(T), NEW t \in Seq(T)
    PROVE  IsPrefix(s, s) /\ IsPrefix(s, s \o t) /\ Len(s \o t) = Len(s) + Len(t)
<1>1. /\ s \o t \in Seq(T) /\ Len(s \o t) = Len(s) + Len(t)
      /\ \A i \in 1 .. Len(s) : (s \o t)[i] = s[i]
  OBVIOUS
<1>2. Piece(s, s, 0) /\ Piece(s, s \o t, 0) /\ Piece(s \o t, s \o t, 0)
  BY <1>1 DEF Piece
<1>3. IsPrefix(s, s)
  BY <1>2, PiecePrefix
<1>4. Len(s) <= Len(s \o t)
  BY <1>1
<1>5. IsPrefix(s, s \o t)
  BY <1>1, <1>2, <1>4, PiecePrefix
<1>6. QED
  BY <1>1, <1>3, <1>5

\* The heading of a response that the cache wants opens the stream, and what
\* follows is put behind it while it is open.
LEMMA ReadingStreams ==
    ASSUME Core, Core', NEW c \in Clients, Reads(c)
    PROVE  Same \/ Streams
<1>1. PICK n \in 1 .. Len(inbox[c]), hit \in BOOLEAN :
         /\ inbox' = [inbox EXCEPT ![c] = SubSeq(@, n + 1, Len(@))]
         /\ ReadFromSocket(SubSeq(inbox[c], 1, n), hit)
  BY DEF Reads
<1>2. PICK data : data = SubSeq(inbox[c], 1, n)
  OBVIOUS
<1>3. PICK bb : bb = Appended(data)
  OBVIOUS
<1>4. /\ pc = "visit" /\ Listed(c) /\ b \in Buffers /\ elem \in Elements
      /\ UNCHANGED <<caseVars, open, sent, got>> /\ Response' = Response
      /\ elem.data \in Seq(Tokens) /\ b' \in Buffers /\ elem' \in Elements
  BY ReadingStarts, TypeFacts DEF Core, TypeOK
<1>5. data \in Seq(Tokens) /\ Len(data) = n /\ Read(c) + n <= Len(Speech(c))
  BY <1>1, <1>2, <1>4, Arrived
<1>6. bb.buf \in Seq(Tokens)
  BY <1>3, <1>4, <1>5, AppendedFacts DEF Buffers
<1>7. \/ elem' = elem
      \/ elem' = Counted
      \/ /\ b.statusServer = "WRITE_RESPONSE_HEADING"
         /\ b.statusClient \in {"READ_RESPONSE", "END_WORK"}
         /\ elem' = Opened(bb.buf)
      \/ /\ b.statusServer = "WRITE_RESPONSE_BODY" /\ b.isAddDataToCash
         /\ elem' = Cached(data)
  BY <1>1, <1>2, <1>3 DEF ReadFromSocket, Counted, Opened
<1>8. CASE elem' = elem \/ elem' = Counted
  BY <1>4, <1>8 DEF Same, Counted, Elements
<1>9. CASE /\ b.statusServer = "WRITE_RESPONSE_HEADING"
           /\ elem' = Opened(bb.buf)
  <2>1. ~b.isAddDataToCash
    BY <1>9 DEF Core, Flow, ResponseFlow
  <2>2. elem.data = <<>> /\ ~elem.connected
    BY <2>1 DEF Core, Flow, Filling, Links, ElementHeld
  <2>3. elem'.connected
    <3>1. PICK e \in Elements : e = Cached(bb.buf)
      BY <1>4, <1>6, CachedFacts
    <3>2. elem' = [e EXCEPT !.connected = TRUE]
      BY <1>9, <3>1 DEF Opened
    <3>3. QED
      BY <3>2 DEF Elements
  <2>4. elem'.data = elem.data \o bb.buf
    BY <1>4, <1>6, <1>9, CachedFacts
  <2>5. IsPrefix(elem.data, elem'.data)
    BY <1>4, <1>6, <2>4, Continues
  <2>6. Phase = "unopened" /\ Phase' = "open"
    BY <2>2, <2>3 DEF Phase
  <2>7. QED
    BY <2>5, <2>6 DEF Streams
<1>10. CASE /\ b.statusServer = "WRITE_RESPONSE_BODY" /\ b.isAddDataToCash
            /\ elem' = Cached(data)
  <2>1. elem.connected
    <3>1. Listed("S")
      BY <1>10 DEF Core, Flow, ResponseFlow
    <3>2. QED
      BY <1>10, <3>1 DEF Core, Flow, Filling
  <2>2. elem'.data = elem.data \o data /\ elem'.connected
    <3>1. /\ elem' \in Elements /\ elem'.data = elem.data \o data
          /\ elem'.connected = elem.connected
      BY <1>4, <1>5, <1>10, CachedFacts
    <3>2. QED
      BY <2>1, <3>1
  <2>3. IsPrefix(elem.data, elem'.data)
    BY <1>4, <1>5, <2>2, Continues
  <2>4. Phase = "open" /\ Phase' = "open"
    BY <2>1, <2>2 DEF Phase
  <2>5. n \in Nat /\ n >= 1 /\ Len(elem.data) \in Nat /\ Len(elem'.data) = Len(elem.data) + n
    <3>1. Len(inbox[c]) \in Nat
      BY LensFacts
    <3>2. Len(elem.data \o data) = Len(elem.data) + Len(data)
      BY <1>4, <1>5, Continues
    <3>3. QED
      BY <1>4, <1>5, <2>2, <3>1, <3>2
  <2>6. Len(elem'.data) <= Longest /\ Longest \in Nat
    <3>1. Len(elem'.data) <= Len(Response)
      <4>1. (Piece(elem.data, Response, 0))'
        BY DEF Core, Flow, Filling
      <4>2. 0 + Len(elem'.data) <= Len(Response)
        BY <1>4, <4>1 DEF Piece
      <4>3. QED
        BY <1>4, <2>5, <4>2
    <3>2. Len(Response) <= Longest /\ Longest \in Nat
      <4>1. kind \in Kinds /\ reply \in Replies
        BY DEF Core, TypeOK
      <4>2. QED
        BY <4>1, SpeechFacts, HandlerAssumption
    <3>3. Len(Response) \in Nat
      BY LensFacts
    <3>4. QED
      BY <2>5, <3>1, <3>2, <3>3
  <2>7. n \in 1 .. Longest /\ Len(elem.data) + n <= Longest
    BY <2>5, <2>6
  <2>8. Stream!Grow
    BY <2>4, <2>5, <2>7 DEF Stream!Grow
  <2>9. QED
    BY <2>3, <2>4, <2>8 DEF Streams
<1>11. QED
  BY <1>7, <1>8, <1>9, <1>10

\* The server's going closes the stream, the user's leaves it as it is.
LEMMA DeletingStreams ==
    ASSUME Core, DeleteServer \/ \E bb \in Buffers : DeleteUser(bb)
    PROVE  Same \/ Streams
<1>1. elem \in Elements /\ elem.data \in Seq(Tokens)
  BY TypeFacts DEF Core
<1>2. CASE DeleteServer
  <2>1. elem' = IF b.isAddDataToCash THEN [elem EXCEPT !.connected = FALSE] ELSE elem
    BY <1>2 DEF DeleteServer, ReleaseElement
  <2>2. CASE b.isAddDataToCash /\ elem.connected
    <3>1. elem'.data = elem.data /\ ~elem'.connected
      BY <1>1, <2>1, <2>2 DEF Elements
    <3>2. elem.data # <<>>
      BY <2>2 DEF Core, Flow, Filling
    <3>3. Phase = "open" /\ Phase' = "closed"
      BY <2>2, <3>1, <3>2 DEF Phase
    <3>4. Stream!Close
      BY <3>1, <3>3 DEF Stream!Close
    <3>5. IsPrefix(elem.data, elem'.data)
      BY <1>1, <3>1, Continues
    <3>6. QED
      BY <3>4, <3>5 DEF Streams
  <2>3. CASE ~(b.isAddDataToCash /\ elem.connected)
    <3>1. elem'.data = elem.data /\ (elem'.connected <=> elem.connected)
      BY <1>1, <2>1, <2>3 DEF Elements
    <3>2. elem'.connected = elem.connected
      BY <1>1, <2>1, <2>3 DEF Elements
    <3>3. QED
      BY <3>1, <3>2 DEF Same
  <2>4. QED
    BY <2>2, <2>3
<1>3. CASE \E bb \in Buffers : DeleteUser(bb)
  <2>1. elem' = elem \/ elem' = [elem EXCEPT !.users = @ - 1]
    BY <1>3 DEF DeleteUser
  <2>2. elem'.data = elem.data /\ elem'.connected = elem.connected
    BY <1>1, <2>1 DEF Elements
  <2>3. QED
    BY <2>2 DEF Same
<1>4. QED
  BY <1>2, <1>3

\* Every step leaves the element to its readers as CashStream allows.
LEMMA SteppingStreams == ASSUME Core, Core', [Next]_vars PROVE Same \/ Streams
<1>1. ASSUME elem' = elem PROVE Same
  BY <1>1 DEF Same
<1>2. b \in Buffers
  BY TypeFacts DEF Core
<1>3. CASE Thread
  <2>1. CASE (\E w \in SUBSET Clients : Poll(w)) \/ EndPass \/ Connects \/ ConnectFails
    BY <1>1, <2>1 DEF Poll, EndPass, Connects, ConnectFails, bufferVars
  <2>3. ASSUME NEW c \in Clients, Handles(c) PROVE Same \/ Streams
    <3>1. CASE HangsUp(c) \/ EndsWork(c)
      BY <1>2, <3>1, DeletingStreams DEF HangsUp, EndsWork, DeleteClient
    <3>2. CASE Reads(c)
      BY <3>2, ReadingStreams
    <3>3. CASE ReadFails(c) \/ NothingToRead(c) \/ NothingToWrite(c) \/ StopsPolling(c)
      BY <1>1, <3>3 DEF ReadFails, NothingToRead, NothingToWrite, StopsPolling, bufferVars
    <3>4. QED
      BY <2>3, <3>1, <3>2, <3>3 DEF Handles
  <2>4. CASE WritesRequest
    BY <1>1, <2>4 DEF WritesRequest
  <2>5. CASE WritesResponse
    <3>1. PICK round \in Rounds :
             IF round.b.statusServer = "END_WORK" /\ ~round.b.isReadyToSend
                THEN DeleteUser(round.b)
                ELSE UNCHANGED elem
      BY <2>5 DEF WritesResponse
    <3>2. CASE UNCHANGED elem
      BY <1>1, <3>2
    <3>3. CASE DeleteUser(round.b)
      <4>1. elem' = elem \/ elem' = [elem EXCEPT !.users = @ - 1]
        BY <3>3 DEF DeleteUser
      <4>2. elem \in Elements
        BY TypeFacts DEF Core
      <4>3. elem'.data = elem.data /\ elem'.connected = elem.connected
        BY <4>1, <4>2 DEF Elements
      <4>4. QED
        BY <4>3 DEF Same
    <3>4. QED
      BY <3>1, <3>2, <3>3
  <2>6. QED
    BY <1>3, <2>1, <2>3, <2>4, <2>5 DEF Thread
<1>7. CASE FromCash
  BY <1>2, <1>7, DeletingStreams DEF FromCash
<1>4. CASE PollFails \/ CacheGrows \/ UserSends \/ ServerSends \/ \E c \in Clients : PeerCloses(c)
  BY <1>1, <1>4 DEF PollFails, CacheGrows, UserSends, ServerSends, PeerCloses, bufferVars, threadVars
<1>5. CASE UNCHANGED vars
  BY <1>1, <1>5 DEF vars, threadVars
<1>6. QED
  BY <1>3, <1>4, <1>5, <1>7 DEF Next

\* The thread fills its element with the response as the server sends it and
\* as CashStream says: the heading opens the stream, pieces are added behind
\* each other while it is open, and once closed it stays as it is, whoever of
\* user and server leaves first (BufferImpl.cpp:76-125).
THEOREM FillsHolds == Spec => FillsAStream
<1>1. Core => CachedIsResponse
  BY CoreCached
<1>2. Core /\ Core' /\ [Next]_vars =>
        [ /\ IsPrefix(elem.data, elem'.data)
          /\ \/ Stream!Grow /\ Phase = "open"
             \/ Stream!Close
             \/ Phase = "unopened" /\ Phase' = "open" ]_<<elem.data, elem.connected>>
  BY SteppingStreams DEF Same, Streams
<1>3. QED
  BY <1>1, <1>2, CoreHolds, PTL DEF Spec, FillsAStream

=============================================================================
