----------------------------- MODULE ProProofs -----------------------------
(***************************************************************************)
(* What module Pro claims, for any number of clients, users, servers and   *)
(* titles, any lengths and any cut into reads: Inv holds, and a page once  *)
(* whole stays as it is until its entry is used again.  IInv is the        *)
(* inductive invariant; below it, one lemma per action of Next.            *)
(***************************************************************************)
EXTENDS Pro, FiniteSetTheorems, SequenceTheorems, NaturalsInduction, TLAPS

\* The constants, and the numbers that name things.
LEMMA Sizes ==
    /\ MaxClients \in Nat /\ MaxClients >= 1 /\ BufferSize \in Nat /\ BufferSize >= 1
    /\ Length \in Nat /\ Length >= 1 /\ Conns \in Nat /\ Conns >= 1
    /\ Connects \in Nat /\ Connects >= 1 /\ CacheSize \in Nat /\ CacheSize >= 1
    /\ EMPTY = 0 - 1 /\ EMPTY \notin Entries /\ Cleaning = MaxClients + 1
    /\ NoTitle \notin Titles /\ Old \notin Titles
    /\ RangeOf \in [Titles -> {EMPTY} \union Nat]
<1>1. RangeOf \in [Titles -> {EMPTY} \union (Nat \ {0})]
  BY ProAssumption
<1>2. RangeOf \in [Titles -> {EMPTY} \union Nat]
  BY <1>1
<1>3. MaxClients \in Nat \ {0} /\ BufferSize \in Nat \ {0} /\ Length \in Nat \ {0}
      /\ Conns \in Nat \ {0} /\ Connects \in Nat \ {0} /\ CacheSize \in Nat \ {0}
  BY ProAssumption
<1>4. QED
  BY <1>2, <1>3, ProAssumption DEF EMPTY, Entries, Cleaning

LEMMA Numbers ==
    /\ \A u \in Users : u \in Nat /\ u >= 1 /\ u <= Conns /\ u \notin Servers /\ u # 0
    /\ \A s \in Servers : s \in Nat /\ s > Conns /\ s <= Conns + Connects /\ s # 0
                          /\ s \notin Users
    /\ \A c \in Slots : c \in Nat /\ c >= 1 /\ c <= MaxClients /\ c \in 0..MaxClients
    /\ \A e \in Entries : e \in Nat /\ e < CacheSize /\ e # EMPTY
    /\ 0 \notin Users /\ 0 \notin Servers /\ 0 \notin Slots /\ Cleaning \notin Slots
  BY Sizes DEF Users, Servers, Slots, Entries

\* A set of numbers has a least one.
LEMMA Least ==
    ASSUME NEW I \in SUBSET Nat, I # {}
    PROVE  Min(I) \in I /\ \A m \in I : Min(I) <= m
<1> DEFINE R == {ss \in Nat \X Nat : ss[1] < ss[2]}
<1>1. IsWellFoundedOn(R, Nat)
  BY NatLessThanWellFounded DEF OpToRel
<1>2. ASSUME NEW m \in Nat, NEW k \in Nat, ~ (<<m, k>> \in R) PROVE k <= m
  BY <1>2
<1> HIDE DEF R
<1>3. PICK n \in I : \A m \in I : ~ (<<m, n>> \in R)
  BY <1>1, WFMin
<1>4. ASSUME NEW m \in I PROVE n <= m
  <2>1. m \in Nat /\ n \in Nat /\ ~ (<<m, n>> \in R)
    BY <1>3
  <2>2. QED
    BY <1>2, <2>1
<1>5. \E k \in I : \A m \in I : k <= m
  BY <1>4
<1>6. QED
  BY <1>5 DEF Min

-----------------------------------------------------------------------------
(* The invariant. *)

Token == (Titles \union {NoTitle}) \X Nat

SlotRec == [fd : {0} \union Users, http : {0} \union Servers,
            length : {EMPTY} \union Nat,
            ends : {"EMPTY", "WORKING", "END_SOCKET_INPUT"},
            cached : Entries \union {EMPTY},
            sent : {EMPTY} \union Nat]
EntryRec == [title : Titles \union {NoTitle, Old}, page : Seq(Token)]
UserRec == [state : {"away", "open", "still", "shut", "reset", "gone"},
            ask : Titles \union {NoTitle}, unread : BOOLEAN, got : Seq(Token)]
ServerRec == [state : {"unused", "open", "reset", "gone"},
              title : Titles \union {NoTitle}, said : Nat, unread : Nat]

Typed ==
    /\ slot \in [Slots -> SlotRec] /\ number \in Int /\ refused \in Nat
    /\ cache \in [Entries -> EntryRec]
    /\ cacheProperty \in [Entries \union {EMPTY} ->
                             {"EMPTY", "DOWNLOADING", "DOWNLOADED", "CLEAN"}]
    /\ at \in 0..Cleaning /\ stage \in {"user", "load", "send"}
    /\ fds \subseteq Users \union Servers
    /\ user \in [Users -> UserRec] /\ server \in [Servers -> ServerRec]
    /\ astray \in BOOLEAN

\* The cache is full from the first download on.
Allocated ==
    \/ /\ cacheIndex = CacheSize - 1 /\ cacheSize = CacheSize - 1
       /\ \A e \in Entries : cache[e].title \notin Titles
    \/ cacheIndex \in 1..CacheSize /\ cacheSize = CacheSize

\* The loop is at a client that is there.
Visiting ==
    /\ at \in Slots => slot[at].fd # 0
    /\ at \notin Slots => stage = "user"

Clients ==
    /\ \A c \in Slots :
          /\ slot[c].fd = 0 => slot[c].cached = EMPTY
          /\ slot[c].fd # 0 => slot[c].fd \in fds /\ user[slot[c].fd].state # "away"
          /\ slot[c].http # 0 => server[slot[c].http].state \in {"open", "reset"}
          /\ slot[c].cached # EMPTY =>
                /\ slot[c].sent \in Nat
                /\ slot[c].fd \notin misled =>
                      slot[c].sent <= Len(cache[slot[c].cached].page)
    /\ \A c, d \in Slots : c # d =>
          /\ slot[c].fd # 0 => slot[c].fd # slot[d].fd
          /\ slot[c].http # 0 => slot[c].http # slot[d].http

Speech ==
    /\ \A u \in Users : user[u].unread => user[u].ask \in Titles
    /\ \A s \in Servers :
          /\ server[s].unread <= server[s].said /\ server[s].said <= Length
          /\ server[s].state = "unused" => server[s].said = 0

\* The page of slot d's download is what its server said of it, and not whole.
Downloads(d) ==
    /\ cacheProperty[slot[d].cached] = "DOWNLOADING"
    /\ cache[slot[d].cached].title = server[slot[d].http].title
    /\ Len(cache[slot[d].cached].page) =
          server[slot[d].http].said - server[slot[d].http].unread

\* As long as no server goes astray, every download has an owner, and a page of
\* its own unless its entry is mixed.
Owners ==
    /\ cacheProperty[EMPTY] = "DOWNLOADING"
    /\ \A c \in Slots : slot[c].http # 0 =>
          /\ slot[c].cached # EMPTY
          /\ cacheProperty[slot[c].cached] \in {"DOWNLOADING", "DOWNLOADED"}
          /\ cache[slot[c].cached].title \in Titles
          /\ slot[c].ends = "WORKING"
          /\ slot[c].cached \notin mixed => Downloads(c)
    /\ \A c, d \in Slots : c # d /\ slot[c].http # 0 /\ slot[d].http # 0 =>
          slot[c].cached # slot[d].cached \/ slot[c].cached \in mixed

\* CountIsExact, said of one descriptor at a time.
Counted ==
    ~astray => /\ number = Cardinality(Used) + refused
               /\ \A u \in Users : u \in fds <=> \E c \in Slots : slot[c].fd = u
               /\ \A s \in Servers : s \in fds <=> \E c \in Slots : slot[c].http = s
               /\ \A c \in Slots : slot[c].fd = 0 => slot[c].http = 0

IInv ==
    /\ Typed /\ Allocated /\ Visiting /\ Clients /\ Speech /\ InOrder
    /\ ~astray => Owners
    /\ Counted /\ PagesPure /\ DownloadHasOwner

LEMMA SlotFacts ==
    ASSUME NEW r \in SlotRec
    PROVE  /\ r.fd \in {0} \union Users /\ r.http \in {0} \union Servers
           /\ r.length \in {EMPTY} \union Nat
           /\ r.ends \in {"EMPTY", "WORKING", "END_SOCKET_INPUT"}
           /\ r.cached \in Entries \union {EMPTY} /\ r.sent \in {EMPTY} \union Nat
           /\ r.sent \in Int
<1>1. r.sent \in {EMPTY} \union Nat
  BY DEF SlotRec
<1>2. r.sent \in Int
  BY <1>1, Sizes
<1>3. QED
  BY <1>1, <1>2 DEF SlotRec

LEMMA EntryFacts ==
    ASSUME NEW r \in EntryRec
    PROVE  /\ r.page \in Seq(Token) /\ Len(r.page) \in Nat /\ DOMAIN r.page = 1..Len(r.page)
           /\ r.title \in Titles \union {NoTitle, Old}
  BY DEF EntryRec

LEMMA UserFacts ==
    ASSUME NEW r \in UserRec
    PROVE  /\ r.got \in Seq(Token) /\ Len(r.got) \in Nat
           /\ r.unread \in BOOLEAN /\ r.ask \in Titles \union {NoTitle}
           /\ r.state \in {"away", "open", "still", "shut", "reset", "gone"}
  BY DEF UserRec

LEMMA ServerFacts ==
    ASSUME NEW r \in ServerRec
    PROVE  /\ r.said \in Nat /\ r.unread \in Nat /\ r.title \in Titles \union {NoTitle}
           /\ r.state \in {"unused", "open", "reset", "gone"}
  BY DEF ServerRec

LEMMA Nothing == <<>> \in Seq(Token) /\ Len(<<>>) = 0 /\ NoTitle \in Titles \union {NoTitle}
  OBVIOUS

\* The sets that are counted are finite.
LEMMA Countable ==
    /\ IsFiniteSet(Slots) /\ Cardinality(Slots) = MaxClients
    /\ \A S \in SUBSET Slots : IsFiniteSet(S) /\ Cardinality(S) \in Nat
<1>1. IsFiniteSet(Slots) /\ Cardinality(Slots) = MaxClients
  <2>1. IsFiniteSet(1..MaxClients)
        /\ Cardinality(1..MaxClients) = IF 1 > MaxClients THEN 0 ELSE MaxClients - 1 + 1
    BY Sizes, FS_Interval
  <2>2. QED
    BY <2>1, Sizes DEF Slots
<1>2. QED
  BY <1>1, FS_Subset, FS_CardinalityType

\* The loop goes on to a client.
LEMMA GoesOn ==
    ASSUME NEW sl \in [Slots -> SlotRec], NEW k \in 0..MaxClients, Goes(sl, k)
    PROVE  /\ slot' = sl /\ stage' = "user" /\ at' \in 0..Cleaning /\ at' # 0
           /\ Visiting'
<1> DEFINE rest == {j \in k + 1..MaxClients : sl[j].fd # 0}
<1>0. MaxClients \in Nat /\ MaxClients >= 1 /\ Cleaning = MaxClients + 1
  BY Sizes
<1>1. at' \in rest \union {Cleaning}
  <2>1. rest \union {Cleaning} \in SUBSET Nat /\ rest \union {Cleaning} # {}
    BY <1>0
  <2>2. Min(rest \union {Cleaning}) \in rest \union {Cleaning}
    BY <2>1, Least
  <2>3. QED
    BY <2>2 DEF Goes
<1>2. slot' = sl /\ stage' = "user"
  BY DEF Goes
<1>3. at' \in 1..Cleaning /\ (at' # Cleaning => sl[at'].fd # 0)
  BY <1>0, <1>1
<1>4. at' \in Slots => slot'[at'].fd # 0
  BY <1>0, <1>2, <1>3 DEF Slots
<1>5. QED
  BY <1>0, <1>2, <1>3, <1>4 DEF Visiting

-----------------------------------------------------------------------------
(* Steps that leave clients, pages and descriptors alone. *)

\* Slot d is r after a step, but for the number of its request.
Same(d, r) ==
    /\ slot'[d].fd = r.fd /\ slot'[d].http = r.http
    /\ slot'[d].cached = r.cached /\ slot'[d].sent = r.sent
    /\ slot'[d].ends \in {r.ends, "WORKING"}

\* A user whose client need not notice what it did.
Quiet(u) ==
    /\ user'[u].state = "away" => user[u].state = "away"
    /\ user'[u].unread => user'[u].ask \in Titles
    /\ user[u].state # "away" /\ user'[u].state \in {"open", "still"} =>
          /\ user[u].state \in {"open", "still"} /\ user'[u].got = user[u].got
          /\ user'[u].unread \/ (~user[u].unread /\ user'[u].ask = user[u].ask)

\* A server that goes on with the same page.
Kept(s) ==
    /\ server'[s].title = server[s].title
    /\ server'[s].state = "unused" <=> server[s].state = "unused"
    /\ server[s].state \in {"open", "reset"} => server'[s].state \in {"open", "reset"}
    /\ server'[s].said - server'[s].unread = server[s].said - server[s].unread
    /\ server'[s].unread <= server'[s].said /\ server'[s].said <= Length
    /\ server'[s].state = "unused" => server'[s].said = 0

LEMMA Calm ==
    ASSUME IInv, Typed', Visiting', at # 0 => at' # 0,
           \A d \in Slots : Same(d, slot[d]),
           UNCHANGED <<cache, cacheProperty, cacheIndex, cacheSize, fds, readVars>>,
           number' - refused' = number - refused,
           \A u \in Users : Quiet(u), \A s \in Servers : Kept(s)
    PROVE  IInv'
<1>0. /\ cache' = cache /\ cacheProperty' = cacheProperty /\ cacheIndex' = cacheIndex
      /\ cacheSize' = cacheSize /\ fds' = fds /\ astray' = astray
      /\ mixed' = mixed /\ misled' = misled
  BY DEF readVars
<1>1. /\ Typed /\ slot \in [Slots -> SlotRec] /\ user \in [Users -> UserRec]
      /\ server \in [Servers -> ServerRec]
      /\ slot' \in [Slots -> SlotRec] /\ user' \in [Users -> UserRec]
      /\ server' \in [Servers -> ServerRec]
  BY DEF IInv, Typed
<1>2. /\ \A d \in Slots : slot[d].fd # 0 => slot[d].fd \in Users
      /\ \A d \in Slots : slot[d].http # 0 => slot[d].http \in Servers
  BY <1>1, SlotFacts
<1>3. /\ \A d \in Slots : slot'[d].fd = slot[d].fd /\ slot'[d].http = slot[d].http
                          /\ slot'[d].cached = slot[d].cached /\ slot'[d].sent = slot[d].sent
                          /\ slot'[d].ends \in {slot[d].ends, "WORKING"}
  BY DEF Same
<1>4. Allocated'
  BY <1>0 DEF IInv, Allocated
<1>5. Clients'
  <2>1. \A c \in Slots : slot[c].fd # 0 => user'[slot[c].fd].state # "away"
    BY <1>2 DEF IInv, Clients, Quiet
  <2>2. \A c \in Slots : slot[c].http # 0 => server'[slot[c].http].state \in {"open", "reset"}
    BY <1>2 DEF IInv, Clients, Kept
  <2>3. QED
    BY <1>0, <1>3, <2>1, <2>2 DEF IInv, Clients
<1>6. Speech'
  BY DEF Speech, Quiet, Kept
<1>7. InOrder'
  <2> SUFFICES ASSUME NEW c \in Slots, slot'[c].fd # 0, slot'[c].cached # EMPTY,
                      user'[slot'[c].fd].state \in {"open", "still"},
                      slot'[c].fd \notin misled'
               PROVE  /\ user'[slot'[c].fd].got = SubSeq(Entry(c)'.page, 1, slot'[c].sent)
                      /\ user'[slot'[c].fd].unread
                            \/ Entry(c)'.title \in {user'[slot'[c].fd].ask, NoTitle}
    BY DEF InOrder, Used
  <2>1. PICK u \in Users : u = slot[c].fd /\ slot'[c].fd = u
    BY <1>2, <1>3
  <2>2. user[u].state # "away" /\ slot[c].cached # EMPTY
    BY <1>3, <2>1 DEF IInv, Clients
  <2>3. /\ user[u].state \in {"open", "still"} /\ user'[u].got = user[u].got
        /\ user'[u].unread \/ (~user[u].unread /\ user'[u].ask = user[u].ask)
    BY <2>1, <2>2 DEF Quiet
  <2>4. /\ user[u].got = SubSeq(Entry(c).page, 1, slot[c].sent)
        /\ user[u].unread \/ Entry(c).title \in {user[u].ask, NoTitle}
    BY <2>1, <2>2, <2>3, <1>0, <1>3 DEF IInv, InOrder, Used
  <2>5. Entry(c)' = Entry(c) /\ slot'[c].sent = slot[c].sent
    BY <1>0, <1>3 DEF Entry
  <2>6. QED
    BY <2>1, <2>3, <2>4, <2>5
<1>8. ~astray' => Owners'
  <2>1. \A c \in Slots : slot[c].http # 0 =>
            /\ server'[slot[c].http].title = server[slot[c].http].title
            /\ server'[slot[c].http].said - server'[slot[c].http].unread =
                   server[slot[c].http].said - server[slot[c].http].unread
    BY <1>2 DEF Kept
  <2>2. QED
    BY <1>0, <1>3, <2>1 DEF IInv, Owners, Downloads
<1>9. Counted'
  <2>1. Used' = Used
    BY <1>3 DEF Used
  <2>2. number = Cardinality(Used) + refused => number' = Cardinality(Used) + refused'
    <3>1. number \in Int /\ number' \in Int /\ refused \in Nat /\ refused' \in Nat
      BY <1>1 DEF Typed
    <3>2. Cardinality(Used) \in Nat
      BY Countable DEF Used
    <3>3. QED
      BY <3>1, <3>2
  <2>3. QED
    BY <1>0, <1>3, <2>1, <2>2 DEF IInv, Counted
<1>10. PagesPure'
  BY <1>0 DEF IInv, PagesPure
<1>11. DownloadHasOwner'
  <2>1. \A t \in Titles : With(t)' = With(t)
    BY <1>0 DEF With
  <2>2. QED
    BY <1>0, <1>3, <2>1 DEF IInv, DownloadHasOwner
<1>12. QED
  BY <1>4, <1>5, <1>6, <1>7, <1>8, <1>9, <1>10, <1>11 DEF IInv

LEMMA PeerSteps ==
    ASSUME IInv, UNCHANGED procVars,
           user' \in [Users -> UserRec], server' \in [Servers -> ServerRec],
           \A u \in Users : Quiet(u), \A s \in Servers : Kept(s)
    PROVE  IInv'
<1>0. /\ slot' = slot /\ number' = number /\ cache' = cache /\ cacheProperty' = cacheProperty
      /\ cacheIndex' = cacheIndex /\ cacheSize' = cacheSize /\ at' = at /\ stage' = stage
      /\ fds' = fds /\ dead' = dead /\ refused' = refused
      /\ astray' = astray /\ mixed' = mixed /\ misled' = misled
  BY DEF procVars, cacheVars, readVars
<1>1. Typed'
  BY <1>0 DEF IInv, Typed
<1>2. Visiting'
  BY <1>0 DEF IInv, Visiting
<1>3. \A d \in Slots : Same(d, slot[d])
  BY <1>0 DEF Same
<1>4. number' - refused' = number - refused
  BY <1>0
<1>5. QED
  BY <1>0, <1>1, <1>2, <1>3, <1>4, Calm DEF readVars

\* Users and servers who do nothing.
LEMMA StillQuiet ==
    ASSUME IInv
    PROVE  /\ \A u \in Users : user'[u] = user[u] => Quiet(u)
           /\ \A s \in Servers : server'[s] = server[s] => Kept(s)
<1>1. \A u \in Users : user'[u] = user[u] => Quiet(u)
  BY DEF IInv, Speech, Quiet
<1>2. \A s \in Servers : server'[s] = server[s] => Kept(s)
  BY DEF IInv, Speech, Kept
<1>3. QED
  BY <1>1, <1>2

LEMMA UserSteps ==
    ASSUME IInv, NEW u \in Users, NEW w \in UserRec,
           UNCHANGED <<procVars, server>>, user' = [user EXCEPT ![u] = w],
           Quiet(u)
    PROVE  IInv'
<1>1. user \in [Users -> UserRec] /\ server \in [Servers -> ServerRec]
  BY DEF IInv, Typed
<1>2. user' \in [Users -> UserRec] /\ server' \in [Servers -> ServerRec]
  BY <1>1
<1>3. \A v \in Users : v # u => user'[v] = user[v]
  BY <1>1
<1>4. \A v \in Users : Quiet(v)
  BY <1>3, StillQuiet
<1>5. \A s \in Servers : Kept(s)
  BY StillQuiet
<1>6. QED
  BY <1>2, <1>4, <1>5, PeerSteps

LEMMA UsersStep ==
    ASSUME IInv, NEW u \in Users,
           \/ UserConnects(u) \/ UserStops(u) \/ UserLeaves(u) \/ UserResets(u)
           \/ \E t \in Titles : UserAsks(u, t)
    PROVE  IInv'
<1>0. user \in [Users -> UserRec] /\ user[u] \in UserRec
  BY DEF IInv, Typed
<1>a. user[u].unread => user[u].ask \in Titles
  BY DEF IInv, Speech
<1>1. CASE UserConnects(u)
  <2> DEFINE w == [user[u] EXCEPT !.state = "open"]
  <2>1. w \in UserRec
    BY <1>0 DEF UserRec
  <2>1a. /\ w.state = "open"
        /\ w.ask = user[u].ask
        /\ w.unread = user[u].unread
    BY <1>0 DEF UserRec
  <2> HIDE DEF w
  <2>2. user' = [user EXCEPT ![u] = w] /\ UNCHANGED <<procVars, server>>
    BY <1>1 DEF UserConnects, w
  <2>3. user'[u] = w /\ user[u].state = "away"
    BY <1>0, <1>1, <2>2 DEF UserConnects
  <2>4. Quiet(u)
    BY <1>a, <2>1a, <2>3 DEF Quiet
  <2>5. QED
    BY <2>1, <2>2, <2>4, UserSteps
<1>2. CASE UserStops(u)
  <2> DEFINE w == [user[u] EXCEPT !.state = IF @ = "open" THEN "still" ELSE "open"]
  <2>1. w \in UserRec
    BY <1>0 DEF UserRec
  <2>1a. /\ w.state \in {"open", "still"}
        /\ w.got = user[u].got
        /\ w.ask = user[u].ask
        /\ w.unread = user[u].unread
    BY <1>0 DEF UserRec
  <2> HIDE DEF w
  <2>2. user' = [user EXCEPT ![u] = w] /\ UNCHANGED <<procVars, server>>
    BY <1>2 DEF UserStops, w
  <2>3. user'[u] = w /\ user[u].state \in {"open", "still"}
    BY <1>0, <1>2, <2>2 DEF UserStops, Polled
  <2>4. Quiet(u)
    BY <1>a, <2>1a, <2>3 DEF Quiet
  <2>5. QED
    BY <2>1, <2>2, <2>4, UserSteps
<1>3. CASE UserLeaves(u)
  <2> DEFINE w == [user[u] EXCEPT !.state = "shut", !.got = <<>>]
  <2>1. w \in UserRec
    BY <1>0, Nothing DEF UserRec
  <2>1a. /\ w.state = "shut"
        /\ w.ask = user[u].ask
        /\ w.unread = user[u].unread
    BY <1>0 DEF UserRec
  <2> HIDE DEF w
  <2>2. user' = [user EXCEPT ![u] = w] /\ UNCHANGED <<procVars, server>>
    BY <1>3 DEF UserLeaves, w
  <2>3. user'[u] = w
    BY <1>0, <2>2
  <2>4. Quiet(u)
    BY <1>a, <2>1a, <2>3 DEF Quiet
  <2>5. QED
    BY <2>1, <2>2, <2>4, UserSteps
<1>4. CASE UserResets(u)
  <2> DEFINE w == [user[u] EXCEPT !.state = "reset", !.got = <<>>]
  <2>1. w \in UserRec
    BY <1>0, Nothing DEF UserRec
  <2>1a. /\ w.state = "reset"
        /\ w.ask = user[u].ask
        /\ w.unread = user[u].unread
    BY <1>0 DEF UserRec
  <2> HIDE DEF w
  <2>2. user' = [user EXCEPT ![u] = w] /\ UNCHANGED <<procVars, server>>
    BY <1>4 DEF UserResets, w
  <2>3. user'[u] = w
    BY <1>0, <2>2
  <2>4. Quiet(u)
    BY <1>a, <2>1a, <2>3 DEF Quiet
  <2>5. QED
    BY <2>1, <2>2, <2>4, UserSteps
<1>5. ASSUME NEW t \in Titles, UserAsks(u, t) PROVE IInv'
  <2> DEFINE w == [user[u] EXCEPT !.ask = t, !.unread = TRUE]
  <2>1. w \in UserRec
    BY <1>0 DEF UserRec
  <2>1a. /\ w.state = user[u].state
        /\ w.ask = t
        /\ w.unread = TRUE
        /\ w.got = user[u].got
    BY <1>0 DEF UserRec
  <2> HIDE DEF w
  <2>2. user' = [user EXCEPT ![u] = w] /\ UNCHANGED <<procVars, server>>
    BY <1>5 DEF UserAsks, w
  <2>b. user[u].state \in {"open", "still"}
    BY <1>5 DEF UserAsks, Polled
  <2>3. user'[u] = w /\ user[u].state \in {"open", "still"}
    BY <1>0, <2>2, <2>b
  <2>4. Quiet(u)
    BY <2>1a, <2>3 DEF Quiet
  <2>5. QED
    BY <2>1, <2>2, <2>4, UserSteps
<1>6. QED
  BY <1>1, <1>2, <1>3, <1>4, <1>5

\* A server is awaited by the client that is visited.
LEMMA AwaitedOpen ==
    ASSUME IInv, NEW s \in Servers, Awaited(s)
    PROVE  at \in Slots /\ server[s].state = "open"
  BY DEF Awaited, IInv, Visiting

LEMMA ServersStep ==
    ASSUME IInv, NEW s \in Servers, ServerSends(s) \/ ServerResets(s)
    PROVE  IInv'
<1>0. /\ user \in [Users -> UserRec] /\ server \in [Servers -> ServerRec]
      /\ server[s] \in ServerRec
  BY DEF IInv, Typed
<1>1. /\ server[s].said \in Nat /\ server[s].unread \in Nat
      /\ server[s].unread <= server[s].said /\ server[s].said <= Length
  BY <1>0, ServerFacts DEF IInv, Speech
<1>2. PICK w \in ServerRec :
          /\ w.title = server[s].title /\ w.state \in {"open", "reset"}
          /\ w.said - w.unread = server[s].said - server[s].unread
          /\ w.unread <= w.said /\ w.said <= Length
          /\ server' = [server EXCEPT ![s] = w]
  <2>1. CASE ServerSends(s)
    <3>1. server[s].state = "open" /\ server[s].said < Length
      BY <2>1 DEF ServerSends, Awaited
    <3> DEFINE w == [server[s] EXCEPT !.said = @ + 1, !.unread = @ + 1]
    <3>b. server[s].said + 1 \in Nat /\ server[s].unread + 1 \in Nat
      BY <1>1
    <3>2. w \in ServerRec
      BY <1>0, <3>b DEF ServerRec
    <3>2a. /\ w.title = server[s].title
          /\ w.state = server[s].state
          /\ w.said = server[s].said + 1
          /\ w.unread = server[s].unread + 1
      BY <1>0, <1>1 DEF ServerRec
    <3> HIDE DEF w
    <3>3. server' = [server EXCEPT ![s] = w]
      BY <2>1 DEF ServerSends, w
    <3>4. w.said - w.unread = server[s].said - server[s].unread
          /\ w.unread <= w.said /\ w.said <= Length
      BY <1>1, <3>1, <3>2a, Sizes
    <3>5. QED
      BY <3>1, <3>2, <3>2a, <3>3, <3>4
  <2>2. CASE ServerResets(s)
    <3> DEFINE w == [server[s] EXCEPT !.state = "reset"]
    <3>1. w \in ServerRec
      BY <1>0, <1>1 DEF ServerRec
    <3>1a. /\ w.state = "reset"
          /\ w.title = server[s].title
          /\ w.said = server[s].said
          /\ w.unread = server[s].unread
      BY <1>0, <1>1 DEF ServerRec
    <3> HIDE DEF w
    <3>2. server' = [server EXCEPT ![s] = w]
      BY <2>2 DEF ServerResets, w
    <3>3. QED
      BY <1>1, <3>1, <3>1a, <3>2
  <2>3. QED
    BY <2>1, <2>2
<1>3. server' \in [Servers -> ServerRec] /\ server'[s] = w
      /\ \A q \in Servers : q # s => server'[q] = server[q]
  BY <1>0, <1>2
<1>4. UNCHANGED <<procVars, user>> /\ server[s].state = "open"
  BY DEF ServerSends, ServerResets, Awaited
<1>5. Kept(s)
  BY <1>2, <1>3, <1>4 DEF Kept
<1>6. \A q \in Servers : Kept(q)
  BY <1>3, <1>5, StillQuiet
<1>7. \A u \in Users : Quiet(u) /\ user' = user
  BY <1>4, StillQuiet
<1>8. QED
  BY <1>0, <1>3, <1>4, <1>6, <1>7, PeerSteps

-----------------------------------------------------------------------------
(* Steps of the loop that leave clients, pages and descriptors alone. *)

LEMMA Facts ==
    ASSUME IInv
    PROVE  /\ slot \in [Slots -> SlotRec] /\ user \in [Users -> UserRec]
           /\ server \in [Servers -> ServerRec] /\ cache \in [Entries -> EntryRec]
           /\ cacheProperty \in [Entries \union {EMPTY} ->
                             {"EMPTY", "DOWNLOADING", "DOWNLOADED", "CLEAN"}]
           /\ number \in Int /\ refused \in Nat /\ fds \subseteq Users \union Servers
           /\ \A d \in Slots : slot[d].fd # 0 => slot[d].fd \in Users
           /\ \A d \in Slots : slot[d].http # 0 => slot[d].http \in Servers
           /\ \A d \in Slots : slot[d].cached # EMPTY => slot[d].cached \in Entries
<1>1. slot \in [Slots -> SlotRec]
  BY DEF IInv, Typed
<1>2. /\ \A d \in Slots : slot[d].fd # 0 => slot[d].fd \in Users
      /\ \A d \in Slots : slot[d].http # 0 => slot[d].http \in Servers
      /\ \A d \in Slots : slot[d].cached # EMPTY => slot[d].cached \in Entries
  BY <1>1, SlotFacts
<1>3. QED
  BY <1>1, <1>2 DEF IInv, Typed

\* The client that is visited is there.
LEMMA Visited ==
    ASSUME IInv, NEW c \in Slots, at = c
    PROVE  /\ slot[c].fd \in Users /\ slot[c] \in SlotRec /\ user[slot[c].fd] \in UserRec
           /\ slot[c].fd # 0 /\ at # 0 /\ c \in 0..MaxClients /\ at \in 0..Cleaning
<1>1. slot[c].fd # 0
  BY DEF IInv, Visiting
<1>2. at # 0 /\ at \in 0..Cleaning
  BY Sizes, Numbers
<1>3. QED
  BY <1>1, <1>2, Facts, Numbers

LEMMA Steady ==
    ASSUME IInv, slot' \in [Slots -> SlotRec], \A d \in Slots : Same(d, slot[d]),
           at' \in 0..Cleaning, at # 0 => at' # 0, stage' \in {"user", "load", "send"},
           Visiting', UNCHANGED <<cacheVars, fds, server, readVars>>,
           number' \in Int, refused' \in Nat, number' - refused' = number - refused,
           user' = user \/ \E u \in Users : user' = [user EXCEPT ![u].state = "shut"]
    PROVE  IInv'
<1>0. /\ cache' = cache /\ cacheProperty' = cacheProperty /\ cacheIndex' = cacheIndex
      /\ cacheSize' = cacheSize /\ fds' = fds /\ server' = server
      /\ astray' = astray /\ mixed' = mixed /\ misled' = misled
  BY DEF cacheVars, readVars
<1>1. user' \in [Users -> UserRec] /\ \A u \in Users : Quiet(u)
  <2>1. CASE user' = user
    BY <2>1, Facts, StillQuiet
  <2>2. ASSUME NEW u \in Users, user' = [user EXCEPT ![u].state = "shut"]
        PROVE  user' \in [Users -> UserRec] /\ \A v \in Users : Quiet(v)
    <3> DEFINE w == [user[u] EXCEPT !.state = "shut"]
    <3>0. user \in [Users -> UserRec] /\ user[u] \in UserRec
      BY Facts
    <3>1. w \in UserRec
      BY <3>0 DEF UserRec
    <3>2. w.state = "shut" /\ w.ask = user[u].ask /\ w.unread = user[u].unread
      BY <3>0 DEF UserRec
    <3>3. user' = [user EXCEPT ![u] = w]
      BY <2>2
    <3> HIDE DEF w
    <3>4. user' \in [Users -> UserRec] /\ user'[u] = w
          /\ \A v \in Users : v # u => user'[v] = user[v]
      BY <3>0, <3>1, <3>3
    <3>5. user[u].unread => user[u].ask \in Titles
      BY DEF IInv, Speech
    <3>6. Quiet(u)
      BY <3>2, <3>4, <3>5 DEF Quiet
    <3>7. QED
      BY <3>4, <3>6, StillQuiet
  <2>3. QED
    BY <2>1, <2>2
<1>2. \A s \in Servers : Kept(s)
  BY <1>0, StillQuiet
<1>3. Typed'
  BY <1>0, <1>1 DEF IInv, Typed
<1>4. QED
  BY <1>0, <1>1, <1>2, <1>3, Calm DEF readVars

\* ... which go on at once.
LEMMA Passes ==
    ASSUME IInv, NEW k \in 0..MaxClients, Goes(slot, k),
           UNCHANGED <<cacheVars, fds, server, readVars>>,
           number' \in Int, refused' \in Nat, number' - refused' = number - refused,
           user' = user \/ \E u \in Users : user' = [user EXCEPT ![u].state = "shut"]
    PROVE  IInv'
<1>1. slot' = slot /\ stage' = "user" /\ at' \in 0..Cleaning /\ at' # 0 /\ Visiting'
  BY Facts, GoesOn
<1>2. \A d \in Slots : Same(d, slot[d])
  BY <1>1 DEF Same
<1>3. QED
  BY <1>1, <1>2, Facts, Steady

LEMMA AcceptsNobodySteps == ASSUME IInv, AcceptsNobody PROVE IInv'
<1>1. /\ Goes(slot, 0) /\ UNCHANGED <<number, cacheVars, fds, server, readVars, refused, user>>
  BY DEF AcceptsNobody, peerVars, histVars
<1>2. 0 \in 0..MaxClients
  BY Sizes
<1>3. number' \in Int /\ refused' \in Nat /\ number' - refused' = number - refused
  BY <1>1, Facts
<1>4. QED
  BY <1>1, <1>2, <1>3, Passes

LEMMA AcceptFailsSteps == ASSUME IInv, AcceptFails PROVE IInv'
<1>1. /\ Goes(slot, 0) /\ UNCHANGED <<cacheVars, fds, server, readVars, user>>
      /\ number' = number + 1 /\ refused' = refused + 1
  BY DEF AcceptFails, peerVars
<1>2. 0 \in 0..MaxClients
  BY Sizes
<1>3. number' \in Int /\ refused' \in Nat /\ number' - refused' = number - refused
  BY <1>1, Facts
<1>4. QED
  BY <1>1, <1>2, <1>3, Passes

LEMMA ReadFailsSteps == ASSUME IInv, NEW c \in Slots, ReadFails(c) PROVE IInv'
<1>1. /\ Goes(slot, c) /\ UNCHANGED <<cacheVars, fds, server, readVars, number, refused>>
      /\ user' = [user EXCEPT ![slot[c].fd].state = "shut"] /\ at = c
  BY DEF ReadFails, Visit, histVars
<1>2. slot[c].fd \in Users /\ c \in 0..MaxClients
  BY <1>1, Visited
<1>3. number' \in Int /\ refused' \in Nat /\ number' - refused' = number - refused
  BY <1>1, Facts
<1>4. QED
  BY <1>1, <1>2, <1>3, Passes

\* What only raises SIGPIPE.
LEMMA DiesSteps ==
    ASSUME IInv, UNCHANGED <<slot, number, cacheVars, at, stage, fds, peerVars, histVars>>
    PROVE  IInv'
<1>1. /\ slot' = slot /\ number' = number /\ at' = at /\ stage' = stage /\ fds' = fds
      /\ user' = user /\ server' = server /\ refused' = refused /\ UNCHANGED readVars
      /\ UNCHANGED cacheVars
  BY DEF peerVars, histVars
<1>2. number' \in Int /\ refused' \in Nat /\ number' - refused' = number - refused
  BY <1>1, Facts
<1>3. \A d \in Slots : Same(d, slot[d])
  BY <1>1 DEF Same
<1>4. Visiting' /\ at' \in 0..Cleaning /\ stage' \in {"user", "load", "send"}
  BY <1>1 DEF IInv, Visiting, Typed
<1>5. QED
  BY <1>1, <1>2, <1>3, <1>4, Facts, Steady

LEMMA SendFailsSteps == ASSUME IInv, NEW c \in Slots, SendFails(c) PROVE IInv'
<1>1. /\ UNCHANGED <<number, cacheVars, fds, server, histVars>> /\ at = c
      /\ \/ Goes(slot, c) /\ user' = [user EXCEPT ![slot[c].fd].state = "shut"]
         \/ UNCHANGED <<slot, at, stage, user>>
  BY DEF SendFails, Send
<1>2. slot[c].fd \in Users /\ c \in 0..MaxClients
  BY <1>1, Visited
<1>3. UNCHANGED <<cacheVars, fds, server, readVars, number, refused>>
  BY <1>1 DEF histVars
<1>4. number' \in Int /\ refused' \in Nat /\ number' - refused' = number - refused
  BY <1>3, Facts
<1>5. CASE Goes(slot, c) /\ user' = [user EXCEPT ![slot[c].fd].state = "shut"]
  BY <1>2, <1>3, <1>4, <1>5, Passes
<1>6. CASE UNCHANGED <<slot, at, stage, user>>
  BY <1>1, <1>6, DiesSteps DEF peerVars
<1>7. QED
  BY <1>1, <1>5, <1>6

\* A visit goes on to its next part.
LEMMA Continues ==
    ASSUME IInv, NEW c \in Slots, at = c, slot' \in [Slots -> SlotRec],
           \A d \in Slots : Same(d, slot[d]), stage' \in {"load", "send"},
           UNCHANGED <<at, number, cacheVars, fds, dead, peerVars, histVars>>
    PROVE  IInv'
<1>1. /\ UNCHANGED <<cacheVars, fds, server, readVars, number, refused>> /\ user' = user
      /\ at' = at
  BY DEF peerVars, histVars
<1>2. number' \in Int /\ refused' \in Nat /\ number' - refused' = number - refused
  BY <1>1, Facts
<1>3. slot[c].fd # 0 /\ at # 0 /\ at \in 0..Cleaning
  BY Visited
<1>4. Visiting'
  BY <1>1, <1>3 DEF Visiting, Same
<1>5. QED
  BY <1>1, <1>2, <1>3, <1>4, Steady

LEMMA NothingToReadSteps == ASSUME IInv, NEW c \in Slots, NothingToRead(c) PROVE IInv'
<1>1. /\ slot' = slot /\ stage' = "load" /\ at = c
      /\ UNCHANGED <<at, number, cacheVars, fds, dead, peerVars, histVars>>
  BY DEF NothingToRead, Visit, Loads
<1>2. \A d \in Slots : Same(d, slot[d])
  BY <1>1 DEF Same
<1>3. QED
  BY <1>1, <1>2, Facts, Continues

LEMMA LoadsNothingSteps == ASSUME IInv, NEW c \in Slots, LoadsNothing(c) PROVE IInv'
<1>1. /\ stage' = "send" /\ at = c
      /\ slot' = IF slot[c].http = 0 THEN slot ELSE [slot EXCEPT ![c].ends = "WORKING"]
      /\ UNCHANGED <<at, number, cacheVars, fds, dead, peerVars, histVars>>
  BY DEF LoadsNothing, Load, Sends
<1>2. slot' \in [Slots -> SlotRec] /\ \A d \in Slots : Same(d, slot[d])
  <2>0. slot \in [Slots -> SlotRec] /\ slot[c] \in SlotRec
    BY Facts
  <2> DEFINE r == [slot[c] EXCEPT !.ends = "WORKING"]
  <2>1. r \in SlotRec
    BY <2>0 DEF SlotRec
  <2>2. r.fd = slot[c].fd /\ r.http = slot[c].http /\ r.cached = slot[c].cached
        /\ r.sent = slot[c].sent /\ r.ends = "WORKING"
    BY <2>0 DEF SlotRec
  <2>3. slot' = slot \/ slot' = [slot EXCEPT ![c] = r]
    BY <1>1
  <2> HIDE DEF r
  <2>4. QED
    BY <2>0, <2>1, <2>2, <2>3 DEF Same
<1>3. QED
  BY <1>1, <1>2, Continues

-----------------------------------------------------------------------------
(* A new client. *)

\* Every page has what it needs as long as downloads and pages stay.
LEMMA DownloadsStay ==
    ASSUME IInv, UNCHANGED <<cacheVars, readVars>>, server' = server,
           \A d \in Slots : slot'[d].http = slot[d].http /\ slot'[d].ends = slot[d].ends,
           \A d \in Slots : slot[d].http # 0 \/ slot'[d].cached # EMPTY =>
                            slot'[d].cached = slot[d].cached,
           at' # 0
    PROVE  /\ Allocated' /\ (~astray' => Owners') /\ PagesPure' /\ DownloadHasOwner'
<1>0. /\ cache' = cache /\ cacheProperty' = cacheProperty /\ cacheIndex' = cacheIndex
      /\ cacheSize' = cacheSize /\ astray' = astray /\ mixed' = mixed
  BY DEF cacheVars, readVars
<1>1. Allocated'
  BY <1>0 DEF IInv, Allocated
<1>2. ~astray' => Owners'
  BY <1>0 DEF IInv, Owners, Downloads
<1>3. PagesPure'
  BY <1>0 DEF IInv, PagesPure
<1>4. DownloadHasOwner'
  <2>1. \A t \in Titles : With(t)' = With(t)
    BY <1>0 DEF With
  <2>2. QED
    BY <1>0, <2>1 DEF IInv, DownloadHasOwner
<1>5. QED
  BY <1>1, <1>2, <1>3, <1>4

\* Used slots and their number.
LEMMA OneMore ==
    ASSUME NEW e \in Slots, slot[e].fd = 0, slot'[e].fd # 0,
           \A d \in Slots : d # e => slot'[d].fd = slot[d].fd
    PROVE  Cardinality(Used') = Cardinality(Used) + 1
<1>1. Used' = Used \union {e} /\ e \notin Used
  BY DEF Used
<1>2. IsFiniteSet(Used)
  BY Countable DEF Used
<1>3. QED
  BY <1>1, <1>2, FS_AddElement

LEMMA AcceptsSteps == ASSUME IInv, Accepts PROVE IInv'
<1> DEFINE q == Min(Queue)
<1>0. /\ UNCHANGED <<cacheVars, dead, peerVars, histVars>> /\ at = 0
      /\ fds' = fds \union {q} /\ number' = number + 1 /\ number < MaxClients
      /\ Queue # {}
      /\ Goes(IF Empty = {} THEN slot ELSE [slot EXCEPT ![Min(Empty)].fd = q], 0)
  BY DEF Accepts, Accepting, CanAccept
<1>1. /\ user' = user /\ server' = server /\ refused' = refused /\ astray' = astray
      /\ mixed' = mixed /\ misled' = misled
      /\ cache' = cache /\ cacheProperty' = cacheProperty /\ cacheIndex' = cacheIndex
      /\ cacheSize' = cacheSize
  BY <1>0 DEF peerVars, histVars, cacheVars, readVars
<1>2. q \in Users /\ user[q].state = "open" /\ q \notin fds /\ q # 0
  <2>1. Queue \in SUBSET Nat
    BY Numbers DEF Queue
  <2>2. q \in Queue
    BY <1>0, <2>1, Least
  <2>3. QED
    BY <2>2, Numbers DEF Queue
<1> HIDE DEF q
<1>3. \A d \in Slots : slot[d].fd # q
  BY <1>2 DEF IInv, Clients
<1>4. 0 \in 0..MaxClients
  BY Sizes
<1>5. /\ slot' \in [Slots -> SlotRec] /\ stage' = "user" /\ at' \in 0..Cleaning /\ at' # 0
      /\ Visiting'
      /\ \/ Empty = {} /\ slot' = slot
         \/ \E e \in Slots :
               /\ slot[e].fd = 0 /\ slot'[e].fd = q /\ slot'[e].http = slot[e].http
               /\ slot'[e].cached = slot[e].cached /\ slot'[e].sent = slot[e].sent
               /\ slot'[e].ends = slot[e].ends
               /\ \A d \in Slots : d # e => slot'[d] = slot[d]
  <2>1. CASE Empty = {}
    <3>1. Goes(slot, 0)
      BY <1>0, <2>1
    <3>2. QED
      BY <1>4, <2>1, <3>1, Facts, GoesOn
  <2>2. CASE Empty # {}
    <3> DEFINE e == Min(Empty)
    <3>1. Empty \in SUBSET Nat
      BY Numbers DEF Empty
    <3>2. e \in Empty
      BY <2>2, <3>1, Least
    <3>3. e \in Slots /\ slot[e].fd = 0
      BY <3>2 DEF Empty
    <3>4. Goes([slot EXCEPT ![e].fd = q], 0)
      BY <1>0, <2>2
    <3> HIDE DEF e
    <3> DEFINE r == [slot[e] EXCEPT !.fd = q]
    <3>5. slot \in [Slots -> SlotRec] /\ slot[e] \in SlotRec
      BY <3>3, Facts
    <3>6. r \in SlotRec
      BY <1>2, <3>5 DEF SlotRec
    <3>7. r.fd = q /\ r.http = slot[e].http /\ r.cached = slot[e].cached /\ r.sent = slot[e].sent
          /\ r.ends = slot[e].ends
      BY <3>5 DEF SlotRec
    <3>8. Goes([slot EXCEPT ![e] = r], 0)
      BY <3>4
    <3> HIDE DEF r
    <3>9. [slot EXCEPT ![e] = r] \in [Slots -> SlotRec]
      BY <3>3, <3>5, <3>6
    <3>10. /\ slot' = [slot EXCEPT ![e] = r] /\ stage' = "user" /\ at' \in 0..Cleaning
           /\ at' # 0 /\ Visiting'
      BY <1>4, <3>8, <3>9, GoesOn
    <3>11. slot'[e] = r /\ \A d \in Slots : d # e => slot'[d] = slot[d]
      BY <3>3, <3>5, <3>10
    <3>12. QED
      BY <3>3, <3>7, <3>9, <3>10, <3>11
  <2>3. QED
    BY <2>1, <2>2
<1>6. \A d \in Slots : /\ slot'[d].http = slot[d].http /\ slot'[d].cached = slot[d].cached
                       /\ slot'[d].sent = slot[d].sent /\ slot'[d].ends = slot[d].ends
                       /\ \/ slot'[d].fd = slot[d].fd
                          \/ slot[d].fd = 0 /\ slot'[d].fd = q
  BY <1>5
<1>7. \A c, d \in Slots : c # d /\ slot'[c].fd # 0 => slot'[c].fd # slot'[d].fd
  <2>1. \A c, d \in Slots : c # d /\ slot[c].fd # 0 => slot[c].fd # slot[d].fd
    BY DEF IInv, Clients
  <2>2. QED
    BY <1>2, <1>3, <1>5, <2>1
<1>8. Typed'
  BY <1>0, <1>1, <1>2, <1>5 DEF IInv, Typed
<1>9. /\ Allocated' /\ (~astray' => Owners') /\ PagesPure' /\ DownloadHasOwner'
  BY <1>0, <1>1, <1>5, <1>6, DownloadsStay DEF readVars
<1>10. Clients'
  <2>1. \A c \in Slots :
           /\ slot'[c].fd = 0 => slot'[c].cached = EMPTY
           /\ slot'[c].fd # 0 => slot'[c].fd \in fds' /\ user'[slot'[c].fd].state # "away"
           /\ slot'[c].http # 0 => server'[slot'[c].http].state \in {"open", "reset"}
           /\ slot'[c].cached # EMPTY =>
                 /\ slot'[c].sent \in Nat
                 /\ slot'[c].fd \notin misled' =>
                       slot'[c].sent <= Len(cache'[slot'[c].cached].page)
    BY <1>0, <1>1, <1>2, <1>6 DEF IInv, Clients
  <2>2. \A c, d \in Slots : c # d /\ slot'[c].http # 0 => slot'[c].http # slot'[d].http
    BY <1>6 DEF IInv, Clients
  <2>3. QED
    BY <1>7, <2>1, <2>2 DEF Clients
<1>11. Speech'
  BY <1>1 DEF IInv, Speech
<1>12. InOrder'
  <2> SUFFICES ASSUME NEW c \in Slots, slot'[c].fd # 0, slot'[c].cached # EMPTY,
                      user'[slot'[c].fd].state \in {"open", "still"},
                      slot'[c].fd \notin misled'
               PROVE  /\ user'[slot'[c].fd].got = SubSeq(Entry(c)'.page, 1, slot'[c].sent)
                      /\ user'[slot'[c].fd].unread
                            \/ Entry(c)'.title \in {user'[slot'[c].fd].ask, NoTitle}
    BY DEF InOrder, Used
  <2>1. slot[c].cached # EMPTY /\ slot'[c].fd = slot[c].fd /\ slot[c].fd # 0
    BY <1>6 DEF IInv, Clients
  <2>2. Entry(c)' = Entry(c) /\ slot'[c].sent = slot[c].sent
    BY <1>1, <1>6 DEF Entry
  <2>3. QED
    BY <1>1, <2>1, <2>2 DEF IInv, InOrder, Used
<1>13. Counted'
  <2> SUFFICES ASSUME ~astray
               PROVE  /\ number' = Cardinality(Used') + refused'
                      /\ \A u \in Users : u \in fds' <=> \E c \in Slots : slot'[c].fd = u
                      /\ \A s \in Servers : s \in fds' <=> \E c \in Slots : slot'[c].http = s
                      /\ \A c \in Slots : slot'[c].fd = 0 => slot'[c].http = 0
    BY <1>1 DEF Counted
  <2>1. /\ number = Cardinality(Used) + refused
        /\ \A u \in Users : u \in fds <=> \E c \in Slots : slot[c].fd = u
        /\ \A s \in Servers : s \in fds <=> \E c \in Slots : slot[c].http = s
        /\ \A c \in Slots : slot[c].fd = 0 => slot[c].http = 0
    BY DEF IInv, Counted
  <2>2. Empty # {}
    <3> SUFFICES ASSUME Empty = {} PROVE FALSE
      OBVIOUS
    <3>1. Used = Slots
      BY DEF Empty, Used
    <3>2. Cardinality(Used) = MaxClients
      BY <3>1, Countable
    <3>3. QED
      BY <1>0, <2>1, <3>2, Facts, Sizes
  <2>3. PICK e \in Slots :
            /\ slot[e].fd = 0 /\ slot'[e].fd = q
            /\ \A d \in Slots : d # e => slot'[d] = slot[d]
    BY <1>5, <2>2
  <2>4. Cardinality(Used') = Cardinality(Used) + 1
    BY <1>2, <2>3, OneMore
  <2>5. number' = Cardinality(Used') + refused'
    <3>1. Cardinality(Used) \in Nat
      BY Countable DEF Used
    <3>2. QED
      BY <1>0, <1>1, <2>1, <2>4, <3>1, Facts
  <2>6. \A u \in Users : u \in fds' <=> \E c \in Slots : slot'[c].fd = u
    <3> SUFFICES ASSUME NEW u \in Users
                 PROVE  u \in fds' <=> \E c \in Slots : slot'[c].fd = u
      OBVIOUS
    <3>1. CASE u = q
      BY <1>0, <2>3, <3>1
    <3>2. CASE u # q
      BY <1>0, <2>1, <2>3, <3>2, Numbers
    <3>3. QED
      BY <3>1, <3>2
  <2>7. \A s \in Servers : s \in fds' <=> \E c \in Slots : slot'[c].http = s
    BY <1>0, <1>2, <1>6, <2>1, Numbers
  <2>8. \A c \in Slots : slot'[c].fd = 0 => slot'[c].http = 0
    BY <1>2, <1>6, <2>1
  <2>9. QED
    BY <2>5, <2>6, <2>7, <2>8
<1>14. QED
  BY <1>5, <1>8, <1>9, <1>10, <1>11, <1>12, <1>13 DEF IInv

-----------------------------------------------------------------------------
(* Clients that go. *)

IsGone(s) == /\ server'[s].state = "gone" /\ server'[s].title = NoTitle
             /\ server'[s].said = 0 /\ server'[s].unread = 0

\* The clients C leave their slots at the end of a visit of c, whose server is
\* closed or forgotten.
Depart(C, c) ==
    /\ C \subseteq Slots /\ c \in C /\ slot[c].fd # 0
    /\ \A d \in Slots \ C : Same(d, slot[d])
    /\ \A d \in C : /\ slot'[d].fd = 0 /\ slot'[d].cached = EMPTY
                    /\ slot'[d].http \in {slot[d].http, 0}
    /\ \A u \in Users : \/ user'[u] = user[u]
                        \/ user'[u] = Gone /\ \E d \in C : slot[d].fd = u
    /\ \A s \in Servers : \/ server'[s] = server[s]
                          \/ IsGone(s) /\ s = slot[c].http /\ slot'[c].http = 0
    /\ \A d \in Slots \ C : slot[d].fd # 0 => slot[d].fd \in fds'
    /\ \A e \in Entries \union {EMPTY} :
          \/ cacheProperty'[e] = cacheProperty[e]
          \/ /\ e = slot[c].cached /\ slot[c].http # 0
             /\ cacheProperty'[e] = "CLEAN"
    /\ UNCHANGED <<cache, cacheIndex, cacheSize, refused, mixed, misled>>
    /\ at' # 0 /\ (astray => astray')

\* ... unless a server goes astray, no other owner is among them, and nobody
\* reads on what c leaves unfinished.
DepartCleanly(C, c) ==
    /\ number' = number - Cardinality(C)
    /\ \A d \in C : slot[d].fd # 0 /\ slot'[d].http = 0 /\ (d # c => slot[d].http = 0)
    /\ \A u \in Users : u \in fds' <=> u \in fds /\ \A d \in C : slot[d].fd # u
    /\ \A s \in Servers : s \in fds' <=> s \in fds /\ s # slot[c].http
    /\ slot[c].http # 0 => cacheProperty'[slot[c].cached] \in {"CLEAN", "DOWNLOADED"}
    /\ \A d \in Slots \ C : slot[d].http # 0 => cacheProperty'[slot[d].cached] # "CLEAN"

LEMMA FewerUsed ==
    ASSUME NEW C \in SUBSET Slots, \A d \in C : slot[d].fd # 0 /\ slot'[d].fd = 0,
           \A d \in Slots \ C : slot'[d].fd = slot[d].fd
    PROVE  Cardinality(Used') = Cardinality(Used) - Cardinality(C)
<1>1. Used = Used' \union C /\ Used' \intersect C = {}
  BY DEF Used
<1>2. IsFiniteSet(Used') /\ IsFiniteSet(C) /\ Cardinality(Used') \in Nat /\ Cardinality(C) \in Nat
  BY Countable DEF Used
<1>3. Cardinality(Used) = Cardinality(Used') + Cardinality(C) - Cardinality(Used' \intersect C)
  BY <1>1, <1>2, FS_Union
<1>4. Cardinality(Used' \intersect C) = 0
  BY <1>1, FS_EmptySet
<1>5. QED
  BY <1>2, <1>3, <1>4

LEMMA Departing ==
    ASSUME IInv, NEW C, NEW c, Depart(C, c), Typed', Visiting',
           ~astray' => DepartCleanly(C, c)
    PROVE  IInv'
<1> USE DEF Depart
<1>0. /\ cache' = cache /\ cacheIndex' = cacheIndex /\ cacheSize' = cacheSize
      /\ refused' = refused /\ mixed' = mixed /\ misled' = misled /\ c \in Slots
  OBVIOUS
<1>1. /\ \A d \in Slots \ C : /\ slot'[d].fd = slot[d].fd /\ slot'[d].http = slot[d].http
                              /\ slot'[d].cached = slot[d].cached /\ slot'[d].sent = slot[d].sent
                              /\ slot'[d].ends \in {slot[d].ends, "WORKING"}
      /\ \A d \in Slots : slot'[d].http \in {slot[d].http, 0}
      /\ \A d \in Slots : slot'[d].cached # EMPTY \/ slot'[d].fd # 0 => d \notin C
  BY DEF Same
<1>2. \A d \in Slots \ C : slot[d].fd # 0 =>
          slot[d].fd \in Users /\ user'[slot[d].fd] = user[slot[d].fd]
  <2> SUFFICES ASSUME NEW d \in Slots \ C, slot[d].fd # 0
               PROVE  slot[d].fd \in Users /\ user'[slot[d].fd] = user[slot[d].fd]
    OBVIOUS
  <2>1. slot[d].fd \in Users
    BY Facts
  <2>2. \A b \in C : slot[b].fd # slot[d].fd
    BY DEF IInv, Clients
  <2>3. QED
    BY <2>1, <2>2
<1>3. \A d \in Slots : slot'[d].http # 0 =>
          /\ slot'[d].http = slot[d].http /\ slot[d].http \in Servers
          /\ server'[slot[d].http] = server[slot[d].http]
  <2> SUFFICES ASSUME NEW d \in Slots, slot'[d].http # 0
               PROVE  /\ slot'[d].http = slot[d].http /\ slot[d].http \in Servers
                      /\ server'[slot[d].http] = server[slot[d].http]
    OBVIOUS
  <2>1. slot'[d].http = slot[d].http /\ slot[d].http \in Servers
    BY <1>1, Facts
  <2>2. slot'[c].http = 0 => d # c /\ slot[d].http # slot[c].http
    BY <2>1 DEF IInv, Clients
  <2>3. QED
    BY <2>1, <2>2
<1>4. Allocated'
  BY <1>0 DEF IInv, Allocated
<1>5. Clients'
  <2>1. \A d \in Slots :
           /\ slot'[d].fd = 0 => slot'[d].cached = EMPTY
           /\ slot'[d].fd # 0 => slot'[d].fd \in fds' /\ user'[slot'[d].fd].state # "away"
           /\ slot'[d].http # 0 => server'[slot'[d].http].state \in {"open", "reset"}
           /\ slot'[d].cached # EMPTY =>
                 /\ slot'[d].sent \in Nat
                 /\ slot'[d].fd \notin misled' =>
                       slot'[d].sent <= Len(cache'[slot'[d].cached].page)
    <3> SUFFICES ASSUME NEW d \in Slots
                 PROVE
           /\ slot'[d].fd = 0 => slot'[d].cached = EMPTY
           /\ slot'[d].fd # 0 => slot'[d].fd \in fds' /\ user'[slot'[d].fd].state # "away"
           /\ slot'[d].http # 0 => server'[slot'[d].http].state \in {"open", "reset"}
           /\ slot'[d].cached # EMPTY =>
                 /\ slot'[d].sent \in Nat
                 /\ slot'[d].fd \notin misled' =>
                       slot'[d].sent <= Len(cache'[slot'[d].cached].page)
      OBVIOUS
    <3>1. /\ slot[d].fd = 0 => slot[d].cached = EMPTY
          /\ slot[d].fd # 0 => user[slot[d].fd].state # "away"
          /\ slot[d].http # 0 => server[slot[d].http].state \in {"open", "reset"}
          /\ slot[d].cached # EMPTY =>
                /\ slot[d].sent \in Nat
                /\ slot[d].fd \notin misled =>
                      slot[d].sent <= Len(cache[slot[d].cached].page)
      BY DEF IInv, Clients
    <3>2. slot'[d].http # 0 => server'[slot'[d].http].state \in {"open", "reset"}
      BY <1>3, <3>1
    <3>3. CASE d \in C
      BY <3>2, <3>3
    <3>4. CASE d \notin C
      BY <1>0, <1>1, <1>2, <3>1, <3>2, <3>4
    <3>5. QED
      BY <3>3, <3>4
  <2>2. \A a, d \in Slots : a # d =>
           /\ slot[a].fd # 0 => slot[a].fd # slot[d].fd
           /\ slot[a].http # 0 => slot[a].http # slot[d].http
    BY DEF IInv, Clients
  <2>3. \A a, d \in Slots : a # d /\ slot'[a].fd # 0 => slot'[a].fd # slot'[d].fd
    <3>1. \A d \in Slots : slot'[d].fd = slot[d].fd \/ slot'[d].fd = 0
      BY <1>1
    <3>2. QED
      BY <2>2, <3>1
  <2>4. \A a, d \in Slots : a # d /\ slot'[a].http # 0 => slot'[a].http # slot'[d].http
    BY <1>1, <2>2
  <2>5. QED
    BY <2>1, <2>3, <2>4 DEF Clients
<1>6. Speech'
  <2>1. /\ \A u \in Users : user[u].unread => user[u].ask \in Titles
        /\ \A s \in Servers :
              /\ server[s].unread <= server[s].said /\ server[s].said <= Length
              /\ server[s].state = "unused" => server[s].said = 0
    BY DEF IInv, Speech
  <2>2. Gone.unread = FALSE
    BY DEF Gone
  <2>3. \A u \in Users : user'[u].unread => user'[u].ask \in Titles
    BY <2>1, <2>2
  <2>4. \A s \in Servers :
              /\ server'[s].unread <= server'[s].said /\ server'[s].said <= Length
              /\ server'[s].state = "unused" => server'[s].said = 0
    BY <2>1, Sizes DEF IsGone
  <2>5. QED
    BY <2>3, <2>4 DEF Speech
<1>7. InOrder'
  <2> SUFFICES ASSUME NEW d \in Slots, slot'[d].fd # 0, slot'[d].cached # EMPTY,
                      user'[slot'[d].fd].state \in {"open", "still"},
                      slot'[d].fd \notin misled'
               PROVE  /\ user'[slot'[d].fd].got = SubSeq(Entry(d)'.page, 1, slot'[d].sent)
                      /\ user'[slot'[d].fd].unread
                            \/ Entry(d)'.title \in {user'[slot'[d].fd].ask, NoTitle}
    BY DEF InOrder, Used
  <2>1. d \notin C /\ slot'[d].fd = slot[d].fd /\ slot'[d].cached = slot[d].cached
        /\ slot'[d].sent = slot[d].sent
    BY <1>1
  <2>2. user'[slot'[d].fd] = user[slot[d].fd]
    BY <1>2, <2>1
  <2>3. Entry(d)' = Entry(d)
    BY <1>0, <2>1 DEF Entry
  <2>4. QED
    BY <1>0, <2>1, <2>2, <2>3 DEF IInv, InOrder, Used
<1>8. PagesPure'
  BY <1>0 DEF IInv, PagesPure
<1>9. Counted' /\ (~astray' => Owners') /\ DownloadHasOwner'
  <2>1. CASE astray'
    BY <2>1 DEF Counted, DownloadHasOwner
  <2>2. CASE ~astray'
    <3>0. ~astray /\ DepartCleanly(C, c)
      BY <2>2
    <3>1. /\ number = Cardinality(Used) + refused
          /\ \A u \in Users : u \in fds <=> \E d \in Slots : slot[d].fd = u
          /\ \A s \in Servers : s \in fds <=> \E d \in Slots : slot[d].http = s
          /\ \A d \in Slots : slot[d].fd = 0 => slot[d].http = 0
      BY <3>0 DEF IInv, Counted
    <3>2. /\ \A d \in C : slot[d].fd # 0 /\ slot'[d].http = 0 /\ (d # c => slot[d].http = 0)
          /\ \A u \in Users : u \in fds' <=> u \in fds /\ \A d \in C : slot[d].fd # u
          /\ \A s \in Servers : s \in fds' <=> s \in fds /\ s # slot[c].http
          /\ slot[c].http # 0 => cacheProperty'[slot[c].cached] \in {"CLEAN", "DOWNLOADED"}
          /\ \A d \in Slots \ C : slot[d].http # 0 => cacheProperty'[slot[d].cached] # "CLEAN"
      BY <3>0 DEF DepartCleanly
    <3>3. number' = Cardinality(Used') + refused'
      <4>1. Cardinality(Used') = Cardinality(Used) - Cardinality(C)
        BY <1>1, <3>2, FewerUsed
      <4>2. Cardinality(Used) \in Nat /\ Cardinality(C) \in Nat
        BY Countable DEF Used
      <4>3. QED
        BY <1>0, <3>0, <3>1, <4>1, <4>2, Facts DEF DepartCleanly
    <3>4. \A u \in Users : u \in fds' <=> \E d \in Slots : slot'[d].fd = u
      <4> SUFFICES ASSUME NEW u \in Users
                   PROVE  u \in fds' <=> \E d \in Slots : slot'[d].fd = u
        OBVIOUS
      <4>0. u # 0
        BY Numbers
      <4>1. ASSUME u \in fds' PROVE \E d \in Slots : slot'[d].fd = u
        BY <1>1, <3>1, <3>2, <4>1
      <4>2. ASSUME NEW d \in Slots, slot'[d].fd = u PROVE u \in fds'
        BY <1>1, <4>0, <4>2
      <4>3. QED
        BY <4>1, <4>2
    <3>5. \A s \in Servers : s \in fds' <=> \E d \in Slots : slot'[d].http = s
      <4> SUFFICES ASSUME NEW s \in Servers
                   PROVE  s \in fds' <=> \E d \in Slots : slot'[d].http = s
        OBVIOUS
      <4>0. s # 0
        BY Numbers
      <4>1. ASSUME s \in fds' PROVE \E d \in Slots : slot'[d].http = s
        <5>1. PICK d \in Slots : slot[d].http = s
          BY <3>1, <3>2, <4>1
        <5>2. d # c /\ d \notin C
          BY <3>2, <4>0, <4>1, <5>1
        <5>3. QED
          BY <1>1, <5>1, <5>2
      <4>2. ASSUME NEW d \in Slots, slot'[d].http = s PROVE s \in fds'
        <5>1. slot[d].http = s /\ d \notin C
          BY <1>1, <3>2, <4>0, <4>2
        <5>2. s # slot[c].http
          BY <4>0, <5>1 DEF IInv, Clients
        <5>3. QED
          BY <3>1, <3>2, <5>1, <5>2
      <4>3. QED
        BY <4>1, <4>2
    <3>6. \A d \in Slots : slot'[d].fd = 0 => slot'[d].http = 0
      BY <1>1, <3>1, <3>2
    <3>7. Counted'
      BY <3>3, <3>4, <3>5, <3>6 DEF Counted
    <3>8. /\ cacheProperty[EMPTY] = "DOWNLOADING"
          /\ \A d \in Slots : slot[d].http # 0 =>
                /\ slot[d].cached # EMPTY
                /\ cacheProperty[slot[d].cached] \in {"DOWNLOADING", "DOWNLOADED"}
                /\ cache[slot[d].cached].title \in Titles
                /\ slot[d].ends = "WORKING"
                /\ slot[d].cached \notin mixed => Downloads(d)
          /\ \A a, d \in Slots : a # d /\ slot[a].http # 0 /\ slot[d].http # 0 =>
                slot[a].cached # slot[d].cached \/ slot[a].cached \in mixed
      BY <3>0 DEF IInv, Owners
    <3>9. Owners'
      <4>1. cacheProperty'[EMPTY] = "DOWNLOADING"
        BY <3>8
      <4>2. ASSUME NEW d \in Slots, slot'[d].http # 0
            PROVE  /\ d \notin C /\ slot'[d].cached = slot[d].cached
                   /\ slot'[d].http = slot[d].http /\ slot[d].http # 0
                   /\ server'[slot[d].http] = server[slot[d].http]
                   /\ cacheProperty'[slot[d].cached] = cacheProperty[slot[d].cached]
                   /\ slot'[d].ends \in {slot[d].ends, "WORKING"}
        <5>1. d \notin C /\ slot'[d].http = slot[d].http
          BY <1>1, <3>2, <4>2
        <5>2. cacheProperty'[slot[d].cached] # "CLEAN"
          BY <3>2, <4>2, <5>1
        <5>3. slot[d].cached \in Entries
          BY <3>8, <4>2, <5>1, Facts
        <5>4. QED
          BY <1>1, <1>3, <4>2, <5>1, <5>2, <5>3
      <4>3. QED
        BY <1>0, <3>8, <4>1, <4>2 DEF Owners, Downloads
    <3>10. DownloadHasOwner'
      <4> SUFFICES ASSUME NEW t \in Titles, NEW e \in With(t)
                   PROVE  \/ cacheProperty'[e] = "DOWNLOADED"
                          \/ cacheProperty'[e] = "CLEAN" /\ at' # 0
                          \/ /\ cacheProperty'[e] = "DOWNLOADING"
                             /\ \E d \in Slots : slot'[d].http # 0 /\ slot'[d].cached = e
        <5>1. \A t \in Titles : With(t)' = With(t)
          BY <1>0 DEF With
        <5>2. QED
          BY <5>1 DEF DownloadHasOwner
      <4>0. e \in Entries
        <5>1. cacheSize \in Nat /\ cacheSize <= CacheSize
          BY Sizes DEF IInv, Allocated
        <5>2. QED
          BY <5>1, Sizes DEF With, Entries
      <4>1. cacheProperty'[e] = cacheProperty[e]
            \/ cacheProperty'[e] = "CLEAN"
        BY <4>0
      <4>2. CASE cacheProperty'[e] = "CLEAN"
        BY <4>2
      <4>3. CASE cacheProperty'[e] = cacheProperty[e] /\ cacheProperty'[e] # "CLEAN"
        <5>1. \/ cacheProperty[e] = "DOWNLOADED"
              \/ /\ cacheProperty[e] = "DOWNLOADING"
                 /\ \E d \in Slots : slot[d].http # 0 /\ slot[d].cached = e
          BY <3>0, <4>3 DEF IInv, DownloadHasOwner
        <5>2. ASSUME cacheProperty[e] = "DOWNLOADING",
                     NEW d \in Slots, slot[d].http # 0, slot[d].cached = e
              PROVE  slot'[d].http # 0 /\ slot'[d].cached = e
          <6>1. d # c
            BY <3>2, <4>3, <5>2
          <6>2. d \notin C
            BY <3>2, <5>2, <6>1
          <6>3. QED
            BY <1>1, <5>2, <6>2
        <5>3. QED
          BY <4>3, <5>1, <5>2
      <4>4. QED
        BY <4>1, <4>2, <4>3
    <3>11. QED
      BY <3>7, <3>9, <3>10
  <2>3. QED
    BY <2>1, <2>2
<1>10. QED
  BY <1>4, <1>5, <1>6, <1>7, <1>8, <1>9 DEF IInv

LEMMA Forgetting ==
    ASSUME NEW sv \in [Servers -> ServerRec], sv = server, NEW s \in {0} \union Servers
    PROVE  /\ Forgotten(s) \in [Servers -> ServerRec]
           /\ \A q \in Servers : q # s => Forgotten(s)[q] = server[q]
           /\ s # 0 => /\ Forgotten(s)[s].state = "gone" /\ Forgotten(s)[s].title = NoTitle
                       /\ Forgotten(s)[s].said = 0 /\ Forgotten(s)[s].unread = 0
<1> DEFINE g == [state |-> "gone", title |-> NoTitle, said |-> 0, unread |-> 0]
<1>1. g \in ServerRec /\ g.state = "gone" /\ g.title = NoTitle /\ g.said = 0 /\ g.unread = 0
  BY DEF ServerRec
<1>2. Forgotten(s) = IF s = 0 THEN sv ELSE [sv EXCEPT ![s] = g]
  BY DEF Forgotten
<1> HIDE DEF g
<1>3. CASE s = 0
  BY <1>2, <1>3, Numbers
<1>4. CASE s # 0
  <2>1. s \in Servers /\ Forgotten(s) = [sv EXCEPT ![s] = g]
    BY <1>2, <1>4
  <2>2. Forgotten(s)[s] = g /\ Forgotten(s) \in [Servers -> ServerRec]
        /\ \A q \in Servers : q # s => Forgotten(s)[q] = sv[q]
    BY <1>1, <2>1
  <2>3. QED
    BY <1>1, <2>2
<1>5. QED
  BY <1>3, <1>4

LEMMA GoneTyped == Gone \in UserRec /\ Gone.unread = FALSE /\ Gone.state = "gone"
  BY Nothing DEF Gone, UserRec

LEMMA LeftTyped ==
    ASSUME NEW r \in SlotRec
    PROVE  /\ Left(r) \in SlotRec /\ Left(r).fd = 0 /\ Left(r).cached = EMPTY
           /\ Left(r).http = r.http
<1> DEFINE r1 == [r EXCEPT !.fd = 0, !.length = EMPTY]
           r2 == [r1 EXCEPT !.ends = "EMPTY", !.cached = EMPTY]
           r3 == [r2 EXCEPT !.sent = 0]
<1>0. 0 \in {0} \union Users /\ EMPTY \in {EMPTY} \union Nat /\ EMPTY \in Entries \union {EMPTY}
      /\ 0 \in {EMPTY} \union Nat
  OBVIOUS
<1>1. Left(r) = r3
  BY DEF Left
<1>2. r1 \in SlotRec /\ r1.fd = 0 /\ r1.http = r.http
  BY <1>0 DEF SlotRec
<1> HIDE DEF r1
<1>3. r2 \in SlotRec /\ r2.fd = 0 /\ r2.http = r.http /\ r2.cached = EMPTY
  BY <1>0, <1>2 DEF SlotRec
<1> HIDE DEF r2
<1>4. r3 \in SlotRec /\ r3.fd = 0 /\ r3.http = r.http /\ r3.cached = EMPTY
  BY <1>0, <1>3 DEF SlotRec
<1> HIDE DEF r3
<1>5. QED
  BY <1>1, <1>4

LEMMA ClosesTyped ==
    ASSUME IInv, NEW c \in Slots
    PROVE  /\ ClosesServer(c) \in [Slots -> SlotRec]
           /\ \A d \in Slots : d # c => ClosesServer(c)[d] = slot[d]
           /\ ClosesServer(c)[c].http = 0 /\ ClosesServer(c)[c].fd = slot[c].fd
<1> DEFINE r == [slot[c] EXCEPT !.http = 0]
<1>1. slot \in [Slots -> SlotRec] /\ slot[c] \in SlotRec
  BY Facts
<1>2. r \in SlotRec /\ r.http = 0 /\ r.fd = slot[c].fd
  BY <1>1 DEF SlotRec
<1>3. ClosesServer(c) = [slot EXCEPT ![c] = r]
  BY DEF ClosesServer
<1> HIDE DEF r
<1>4. QED
  BY <1>1, <1>2, <1>3

LEMMA Disconnecting ==
    ASSUME IInv, NEW c \in Slots, at = c, NEW C \in SUBSET Slots, c \in C,
           NEW sl, sl = slot \/ sl = ClosesServer(c), Disconnects(C, c, sl),
           UNCHANGED <<cache, cacheIndex, cacheSize, refused, mixed, misled>>,
           astray' \in BOOLEAN, astray => astray',
           cacheProperty' \in [Entries \union {EMPTY} ->
                             {"EMPTY", "DOWNLOADING", "DOWNLOADED", "CLEAN"}],
           \A e \in Entries \union {EMPTY} :
              \/ cacheProperty'[e] = cacheProperty[e]
              \/ /\ e = slot[c].cached /\ slot[c].http # 0
                 /\ cacheProperty'[e] = "CLEAN",
           ~astray' => /\ \A d \in C : slot[d].fd # 0 /\ (d # c => slot[d].http = 0)
                       /\ slot[c].http # 0 =>
                             /\ sl[c].http = 0
                             /\ cacheProperty'[slot[c].cached] \in {"CLEAN", "DOWNLOADED"}
                       /\ \A d \in Slots \ C : slot[d].http # 0 =>
                             cacheProperty'[slot[d].cached] # "CLEAN"
    PROVE  IInv'
<1> DEFINE closed == {slot[d].fd : d \in C}
           left == [d \in Slots |-> IF d \in C THEN Left(sl[d]) ELSE sl[d]]
           x == IF sl[c].http = 0 THEN slot[c].http ELSE 0
<1>0. /\ fds' = fds \ (closed \union ({slot[c].http} \ {sl[c].http}))
      /\ server' = Forgotten(x) /\ number' = number - Cardinality(C) /\ Goes(left, c)
      /\ user' = [u \in Users |-> IF u \in closed THEN Gone ELSE user[u]]
  BY DEF Disconnects
<1>1. /\ sl \in [Slots -> SlotRec] /\ \A d \in Slots : d # c => sl[d] = slot[d]
      /\ sl[c].http \in {slot[c].http, 0} /\ sl[c] \in SlotRec /\ slot[c] \in SlotRec
      /\ \A d \in Slots : sl[d] \in SlotRec /\ sl[d].http \in {slot[d].http, 0}
  <2>1. CASE sl = slot
    BY <2>1, Facts
  <2>2. CASE sl = ClosesServer(c)
    BY <2>2, Facts, ClosesTyped
  <2>3. QED
    BY <2>1, <2>2
<1>2. /\ left \in [Slots -> SlotRec]
      /\ \A d \in C : left[d].fd = 0 /\ left[d].cached = EMPTY /\ left[d].http = sl[d].http
      /\ \A d \in Slots \ C : left[d] = slot[d]
  <2>1. \A d \in Slots : /\ Left(sl[d]) \in SlotRec /\ Left(sl[d]).fd = 0
                         /\ Left(sl[d]).cached = EMPTY /\ Left(sl[d]).http = sl[d].http
    BY <1>1, LeftTyped
  <2>2. QED
    BY <1>1, <2>1
<1>3. /\ slot' = left /\ stage' = "user" /\ at' \in 0..Cleaning /\ at' # 0 /\ Visiting'
  <2>1. Goes(left, c) /\ c \in 0..MaxClients
    BY <1>0, Numbers
  <2> HIDE DEF left
  <2>2. QED
    BY <1>2, <2>1, GoesOn
<1>4. x \in {0} \union Servers /\ (x # 0 => x = slot[c].http /\ sl[c].http = 0)
  BY Facts
<1>5. server' \in [Servers -> ServerRec]
      /\ \A s \in Servers : \/ server'[s] = server[s]
                            \/ IsGone(s) /\ s = slot[c].http /\ sl[c].http = 0
  <2> HIDE DEF x
  <2>1. server \in [Servers -> ServerRec]
    BY Facts
  <2>2. /\ server' \in [Servers -> ServerRec] /\ \A q \in Servers : q # x => server'[q] = server[q]
        /\ x # 0 => /\ server'[x].state = "gone" /\ server'[x].title = NoTitle
                    /\ server'[x].said = 0 /\ server'[x].unread = 0
    BY <1>0, <1>4, <2>1, Forgetting
  <2>3. QED
    BY <1>4, <2>2, Numbers DEF IsGone
<1>6. user' \in [Users -> UserRec]
      /\ \A u \in Users : \/ user'[u] = user[u]
                          \/ user'[u] = Gone /\ \E d \in C : slot[d].fd = u
  BY <1>0, Facts, GoneTyped
<1>7. closed \subseteq {0} \union Users
  BY Facts
<1>8. Typed'
  <2>1. number' \in Int
    BY <1>0, Countable, Facts
  <2>2. fds' \subseteq Users \union Servers
    BY <1>0, Facts
  <2>3. cache' \in [Entries -> EntryRec] /\ refused' \in Nat /\ astray' \in BOOLEAN
    BY DEF IInv, Typed
  <2>4. QED
    BY <1>2, <1>3, <1>5, <1>6, <2>1, <2>2, <2>3 DEF Typed
<1>9. Depart(C, c)
  <2>1. slot[c].fd # 0
    BY Visited
  <2>2. \A d \in Slots \ C : Same(d, slot[d])
    BY <1>2, <1>3 DEF Same
  <2>3. \A d \in C : /\ slot'[d].fd = 0 /\ slot'[d].cached = EMPTY
                     /\ slot'[d].http \in {slot[d].http, 0}
    BY <1>1, <1>2, <1>3
  <2>4. slot'[c].http = sl[c].http
    BY <1>2, <1>3
  <2>5. ASSUME NEW d \in Slots \ C, slot[d].fd # 0 PROVE slot[d].fd \in fds'
    <3>1. slot[d].fd \in fds /\ slot[d].fd \in Users /\ \A b \in C : slot[b].fd # slot[d].fd
      BY <2>5, Facts DEF IInv, Clients
    <3>2. slot[d].fd # slot[c].http
      BY <2>5, <3>1, Facts, Numbers
    <3>3. QED
      BY <1>0, <3>1, <3>2
  <2>6. QED
    BY <1>3, <1>5, <1>6, <2>1, <2>2, <2>3, <2>4, <2>5 DEF Depart
<1>10. ~astray' => DepartCleanly(C, c)
  <2> SUFFICES ASSUME ~astray' PROVE DepartCleanly(C, c)
    OBVIOUS
  <2>1. /\ \A d \in C : slot[d].fd # 0 /\ (d # c => slot[d].http = 0)
        /\ slot[c].http # 0 =>
              /\ sl[c].http = 0
              /\ cacheProperty'[slot[c].cached] \in {"CLEAN", "DOWNLOADED"}
        /\ \A d \in Slots \ C : slot[d].http # 0 => cacheProperty'[slot[d].cached] # "CLEAN"
    OBVIOUS
  <2>2. \A d \in C : slot'[d].http = 0
    BY <1>1, <1>2, <1>3, <2>1
  <2>3. \A u \in Users : u \in fds' <=> u \in fds /\ \A d \in C : slot[d].fd # u
    <3>1. \A u \in Users : u # slot[c].http
      BY Facts, Numbers
    <3>2. QED
      BY <1>0, <3>1
  <2>4. \A s \in Servers : s \in fds' <=> s \in fds /\ s # slot[c].http
    <3>1. \A s \in Servers : s \notin closed /\ s # 0
      BY <1>7, Numbers
    <3>2. \A s \in Servers : s \in {slot[c].http} \ {sl[c].http} <=> s = slot[c].http
      BY <2>1, <3>1
    <3>3. QED
      BY <1>0, <3>1, <3>2
  <2>5. QED
    BY <1>0, <2>1, <2>2, <2>3, <2>4 DEF DepartCleanly
<1>11. QED
  BY <1>3, <1>8, <1>9, <1>10, Departing

LEMMA DropsDownloadSteps == ASSUME IInv, NEW c \in Slots, DropsDownload(c) PROVE IInv'
<1> DEFINE C == {d \in Slots : d = c \/ cacheProperty'[slot[d].cached] = "CLEAN"}
<1>0. /\ at = c /\ slot[c].http # 0
      /\ cacheProperty' = [cacheProperty EXCEPT ![slot[c].cached] = "CLEAN"]
      /\ Disconnects(C, c, ClosesServer(c))
      /\ astray' = (astray \/ \E d \in C \ {c} : slot[d].http # 0)
      /\ UNCHANGED <<cache, cacheIndex, cacheSize, refused, mixed, misled>>
  BY DEF DropsDownload, ReadsEnd, Visit, LeavesDownload
<1>1. slot[c].cached \in Entries \union {EMPTY}
  BY Facts, SlotFacts
<1>2. /\ cacheProperty' \in [Entries \union {EMPTY} ->
                             {"EMPTY", "DOWNLOADING", "DOWNLOADED", "CLEAN"}]
      /\ \A e \in Entries \union {EMPTY} :
            \/ cacheProperty'[e] = cacheProperty[e] /\ e # slot[c].cached
            \/ e = slot[c].cached /\ cacheProperty'[e] = "CLEAN"
  BY <1>0, <1>1, Facts
<1>3. ASSUME ~astray'
      PROVE  /\ \A d \in C : slot[d].fd # 0 /\ (d # c => slot[d].http = 0)
             /\ ClosesServer(c)[c].http = 0
             /\ \A d \in Slots \ C : cacheProperty'[slot[d].cached] # "CLEAN"
  <2>1. cacheProperty[EMPTY] = "DOWNLOADING" /\ slot[c].cached # EMPTY
    BY <1>0, <1>3 DEF IInv, Owners
  <2>2. \A d \in Slots : slot[d].fd = 0 => slot[d].cached = EMPTY
    BY DEF IInv, Clients
  <2>3. cacheProperty'[EMPTY] = "DOWNLOADING"
    BY <1>0, <1>2, <2>1
  <2>4. slot[c].fd # 0
    BY <1>0, Visited
  <2>5. \A d \in C : slot[d].fd # 0
    BY <2>2, <2>3, <2>4
  <2>6. \A d \in C : d # c => slot[d].http = 0
    BY <1>0, <1>3
  <2>7. QED
    BY <2>5, <2>6, ClosesTyped
<1>4. C \in SUBSET Slots /\ c \in C
  OBVIOUS
<1>5. cacheProperty'[slot[c].cached] = "CLEAN"
  BY <1>1, <1>2
<1>6. astray \in BOOLEAN
  BY DEF IInv, Typed
<1> HIDE DEF C
<1>7. astray' \in BOOLEAN /\ (astray => astray')
  BY <1>0, <1>6
<1>8. QED
  BY <1>0, <1>2, <1>3, <1>4, <1>5, <1>7, Disconnecting

LEMMA LeavesSteps == ASSUME IInv, NEW c \in Slots, Leaves(c) PROVE IInv'
<1>0. /\ at = c /\ ~LeavesDownload(c) /\ Disconnects({c}, c, ClosesServer(c))
      /\ UNCHANGED <<cache, cacheProperty, cacheIndex, cacheSize, refused>>
      /\ UNCHANGED <<astray, mixed, misled>>
  BY DEF Leaves, ReadsEnd, Visit, cacheVars, histVars, readVars
<1>1. slot[c].fd # 0 /\ astray \in BOOLEAN
  BY <1>0, Visited DEF IInv, Typed
<1>2. ~astray =>
         /\ slot[c].http # 0 => cacheProperty[slot[c].cached] = "DOWNLOADED"
         /\ \A d \in Slots : slot[d].http # 0 => cacheProperty[slot[d].cached] # "CLEAN"
  BY <1>0 DEF LeavesDownload, IInv, Owners
<1>2a. ClosesServer(c)[c].http = 0
  BY ClosesTyped
<1>3. {c} \in SUBSET Slots /\ c \in {c} /\ \A d \in {c} : slot[d].fd # 0 /\ ~(d # c)
  BY <1>1
<1>4. cacheProperty' = cacheProperty
  BY <1>0
<1>5. QED
  BY <1>0, <1>1, <1>2, <1>2a, <1>3, <1>4, Facts, Disconnecting

LEMMA SendsNothingSteps == ASSUME IInv, NEW c \in Slots, SendsNothing(c) PROVE IInv'
<1>0. /\ at = c
      /\ UNCHANGED <<cache, cacheProperty, cacheIndex, cacheSize, refused>>
      /\ UNCHANGED <<astray, mixed, misled>>
  BY DEF SendsNothing, Send, cacheVars, histVars, readVars
<1>1. slot[c].fd # 0 /\ c \in 0..MaxClients /\ astray \in BOOLEAN
  BY <1>0, Visited DEF IInv, Typed
<1>2. CASE Finished(c) \/ Freed(c)
  <2>1. Disconnects({c}, c, slot)
    BY <1>2 DEF SendsNothing
  <2>2. ~astray =>
           /\ slot[c].http = 0
           /\ \A d \in Slots : slot[d].http # 0 => cacheProperty[slot[d].cached] # "CLEAN"
    BY <1>2 DEF Finished, Freed, IInv, Owners
  <2>3. {c} \in SUBSET Slots /\ c \in {c} /\ \A d \in {c} : slot[d].fd # 0 /\ ~(d # c)
    BY <1>1
  <2>4. cacheProperty' = cacheProperty
    BY <1>0
  <2>5. QED
    BY <1>0, <1>1, <2>1, <2>2, <2>3, <2>4, Facts, Disconnecting
<1>3. CASE ~(Finished(c) \/ Freed(c))
  <2>1. Goes(slot, c) /\ UNCHANGED <<number, fds, peerVars, cacheVars, histVars>>
    BY <1>3 DEF SendsNothing
  <2>2. UNCHANGED <<cacheVars, fds, server, readVars, number, refused, user>>
    BY <2>1 DEF peerVars, histVars
  <2>3. number' \in Int /\ refused' \in Nat /\ number' - refused' = number - refused
    BY <2>2, Facts
  <2>4. QED
    BY <1>1, <2>1, <2>2, <2>3, Passes
<1>4. QED
  BY <1>2, <1>3

LEMMA ConnectFailsSteps == ASSUME IInv, NEW c \in Slots, ConnectFails(c) PROVE IInv'
<1> DEFINE f == slot[c].fd
<1>0. /\ at = c /\ fds' = fds \ {f} /\ number' = number - 1
      /\ Goes([slot EXCEPT ![c] = [Left(@) EXCEPT !.http = 0]], c)
      /\ user' = [user EXCEPT ![f] = Gone] /\ server' = Forgotten(slot[c].http)
      /\ astray' = (astray \/ slot[c].http # 0)
      /\ UNCHANGED <<cache, cacheProperty, cacheIndex, cacheSize, refused, mixed, misled>>
  BY DEF ConnectFails, Misses, ReadsRequest, Visit, cacheVars
<1>1. f \in Users /\ f # 0 /\ slot[c] \in SlotRec /\ c \in 0..MaxClients
  BY <1>0, Visited
<1> HIDE DEF f
<1> DEFINE l == Left(slot[c])
           r == [l EXCEPT !.http = 0]
<1>2. l \in SlotRec /\ l.fd = 0 /\ l.cached = EMPTY
  BY <1>1, LeftTyped
<1>3. Goes([slot EXCEPT ![c] = r], c)
  BY <1>0
<1> HIDE DEF l
<1>4. r \in SlotRec /\ r.fd = 0 /\ r.cached = EMPTY /\ r.http = 0
  BY <1>2 DEF SlotRec
<1> HIDE DEF r
<1>5. [slot EXCEPT ![c] = r] \in [Slots -> SlotRec]
  BY <1>4, Facts
<1>6. /\ slot' = [slot EXCEPT ![c] = r] /\ stage' = "user" /\ at' \in 0..Cleaning /\ at' # 0
      /\ Visiting'
  BY <1>1, <1>3, <1>5, GoesOn
<1>7. slot'[c] = r /\ (\A d \in Slots : d # c => slot'[d] = slot[d])
      /\ slot' \in [Slots -> SlotRec]
  BY <1>5, <1>6, Facts
<1>8. user' \in [Users -> UserRec] /\ user'[f] = Gone
      /\ \A u \in Users : u # f => user'[u] = user[u]
  BY <1>0, <1>1, Facts, GoneTyped
<1>9. server' \in [Servers -> ServerRec]
      /\ \A s \in Servers : server'[s] = server[s] \/ (IsGone(s) /\ s = slot[c].http)
  <2>1. slot[c].http \in {0} \union Servers /\ server \in [Servers -> ServerRec]
    BY Facts
  <2>2. PICK x \in {0} \union Servers : x = slot[c].http
    BY <2>1
  <2>3. /\ server' \in [Servers -> ServerRec] /\ \A q \in Servers : q # x => server'[q] = server[q]
        /\ x # 0 => /\ server'[x].state = "gone" /\ server'[x].title = NoTitle
                    /\ server'[x].said = 0 /\ server'[x].unread = 0
    BY <1>0, <2>1, <2>2, Forgetting
  <2>4. QED
    BY <2>2, <2>3, Numbers DEF IsGone
<1>10. Typed'
  <2>1. number' \in Int /\ fds' \subseteq Users \union Servers
    BY <1>0, Facts
  <2>2. refused' \in Nat /\ astray' \in BOOLEAN /\ cache' \in [Entries -> EntryRec]
        /\ cacheProperty' \in [Entries \union {EMPTY} ->
                             {"EMPTY", "DOWNLOADING", "DOWNLOADED", "CLEAN"}]
    BY <1>0, Facts DEF IInv, Typed
  <2>3. QED
    BY <1>6, <1>7, <1>8, <1>9, <2>1, <2>2 DEF Typed
<1>11. Depart({c}, c)
  <2>1. \A d \in Slots \ {c} : Same(d, slot[d])
    BY <1>7 DEF Same
  <2>2. \A d \in Slots \ {c} : slot[d].fd # 0 => slot[d].fd \in fds'
    <3>1. \A d \in Slots \ {c} : slot[d].fd # 0 => slot[d].fd \in fds /\ slot[d].fd # f
      BY DEF IInv, Clients, f
    <3>2. QED
      BY <1>0, <3>1
  <2>3. \A u \in Users : \/ user'[u] = user[u]
                         \/ user'[u] = Gone /\ \E d \in {c} : slot[d].fd = u
    BY <1>8 DEF f
  <2>4. slot[c].fd # 0 /\ {c} \subseteq Slots
    BY <1>1 DEF f
  <2>5. \A d \in {c} : /\ slot'[d].fd = 0 /\ slot'[d].cached = EMPTY
                       /\ slot'[d].http \in {slot[d].http, 0}
    BY <1>4, <1>7
  <2>6. QED
    BY <1>0, <1>4, <1>6, <1>7, <1>9, <2>1, <2>2, <2>3, <2>4, <2>5 DEF Depart
<1>12. ~astray' => DepartCleanly({c}, c)
  <2> SUFFICES ASSUME ~astray' PROVE DepartCleanly({c}, c)
    OBVIOUS
  <2>1. slot[c].http = 0
    BY <1>0
  <2>2. Cardinality({c}) = 1
    BY FS_Singleton
  <2>3. \A d \in {c} : slot[d].fd # 0 /\ slot'[d].http = 0 /\ ~(d # c)
    BY <1>1, <1>4, <1>7 DEF f
  <2>4. \A u \in Users : u \in fds' <=> u \in fds /\ \A d \in {c} : slot[d].fd # u
    BY <1>0 DEF f
  <2>5. \A s \in Servers : s \in fds' <=> s \in fds /\ s # slot[c].http
    BY <1>0, <1>1, <2>1, Numbers
  <2>6. \A d \in Slots : slot[d].http # 0 => cacheProperty[slot[d].cached] # "CLEAN"
    BY <1>0 DEF IInv, Owners
  <2>7. QED
    BY <1>0, <2>1, <2>2, <2>3, <2>4, <2>5, <2>6 DEF DepartCleanly
<1>13. QED
  BY <1>6, <1>10, <1>11, <1>12, Departing

-----------------------------------------------------------------------------
(* Requests. *)

LEMMA InCache == ASSUME IInv PROVE \A t : With(t) \subseteq Entries
<1>1. cacheSize \in Nat /\ cacheSize <= CacheSize
  BY Sizes DEF IInv, Allocated
<1>2. QED
  BY <1>1, Sizes DEF With, Entries

\* Reading the request of user f, which asks for title t.
Reading(f, t) ==
    /\ user' \in [Users -> UserRec] /\ t \in Titles
    /\ user'[f].state = user[f].state /\ user'[f].ask = t /\ user'[f].got = <<>>
    /\ user'[f].unread = FALSE /\ \A u \in Users : u # f => user'[u] = user[u]
    /\ \A u \in Users : user'[u].unread => user'[u].ask \in Titles

LEMMA Reads ==
    ASSUME IInv, NEW c \in Slots, ReadsRequest(c), Read(c)
    PROVE  /\ Reading(slot[c].fd, Asked(c)) /\ astray' = (astray \/ slot[c].http # 0)
           /\ Parsed(c) \in {EMPTY} \union Nat /\ at = c
<1>0. at = c /\ user[slot[c].fd].unread
  BY DEF ReadsRequest, Visit
<1>1. PICK f \in Users : f = slot[c].fd
  BY <1>0, Visited
<1>2. user \in [Users -> UserRec] /\ user[f] \in UserRec
  BY Facts
<1>3. user[f].ask \in Titles
  BY <1>0, <1>1 DEF IInv, Speech
<1> DEFINE w == [user[f] EXCEPT !.unread = FALSE, !.got = <<>>]
<1>4. w \in UserRec
  BY <1>2, Nothing DEF UserRec
<1>5. w.state = user[f].state /\ w.ask = user[f].ask /\ w.got = <<>> /\ w.unread = FALSE
  BY <1>2 DEF UserRec
<1>6. user' = [user EXCEPT ![f] = w]
  BY <1>1 DEF Read
<1> HIDE DEF w
<1>7. user'[f] = w /\ user' \in [Users -> UserRec] /\ \A u \in Users : u # f => user'[u] = user[u]
  BY <1>2, <1>4, <1>6
<1>8. \A u \in Users : user'[u].unread => user'[u].ask \in Titles
  BY <1>5, <1>7 DEF IInv, Speech
<1>9. Reading(slot[c].fd, Asked(c))
  BY <1>1, <1>3, <1>5, <1>7, <1>8 DEF Reading, Asked
<1>10. Parsed(c) \in {EMPTY} \union Nat
  <2>1. slot[c].length \in {EMPTY} \union Nat
    BY Facts, SlotFacts
  <2>2. QED
    BY <1>1, <1>3, <2>1, Sizes DEF Parsed, Asked
<1>11. QED
  BY <1>0, <1>9, <1>10 DEF Read

\* Slot c is r after a step, and the others stay.
LEMMA Becomes ==
    ASSUME IInv, NEW c \in Slots, NEW r \in SlotRec, slot' = [slot EXCEPT ![c] = r]
    PROVE  slot' \in [Slots -> SlotRec] /\ slot'[c] = r
           /\ \A d \in Slots : d # c => slot'[d] = slot[d]
  BY Facts

\* In order, for a client c that begins with the page of an entry: others whose
\* page changes are misled.
LEMMA BeginsInOrder ==
    ASSUME IInv, NEW c \in Slots, NEW t, Reading(slot[c].fd, t), slot[c].fd # 0,
           slot'[c].fd = slot[c].fd, slot'[c].sent = 0, slot'[c].cached \in Entries,
           cache'[slot'[c].cached].title = t,
           \A d \in Slots : d # c =>
              /\ slot'[d] = slot[d]
              /\ slot[d].cached # EMPTY /\ slot[d].fd \notin misled' =>
                    /\ cache'[slot[d].cached] = cache[slot[d].cached]
                    /\ slot[d].fd \notin misled
    PROVE  InOrder'
<1> USE DEF Reading
<1> SUFFICES ASSUME NEW d \in Slots, slot'[d].fd # 0, slot'[d].cached # EMPTY,
                    user'[slot'[d].fd].state \in {"open", "still"},
                    slot'[d].fd \notin misled'
             PROVE  /\ user'[slot'[d].fd].got = SubSeq(Entry(d)'.page, 1, slot'[d].sent)
                    /\ user'[slot'[d].fd].unread
                          \/ Entry(d)'.title \in {user'[slot'[d].fd].ask, NoTitle}
  BY DEF InOrder, Used
<1>1. CASE d = c
  <2>1. SubSeq(Entry(c)'.page, 1, 0) = <<>>
    BY SubSeqEmpty
  <2>2. Entry(c)'.title = t
    BY DEF Entry
  <2>3. QED
    BY <1>1, <2>1, <2>2
<1>2. CASE d # c
  <2>1. slot'[d] = slot[d] /\ Entry(d)' = Entry(d) /\ slot[d].fd \notin misled
    BY <1>2 DEF Entry
  <2>2. slot[d].fd # slot[c].fd /\ slot[d].fd \in Users
    BY <1>2, <2>1, Facts DEF IInv, Clients
  <2>3. user'[slot[d].fd] = user[slot[d].fd]
    BY <2>2
  <2>4. QED
    BY <2>1, <2>3 DEF IInv, InOrder, Used
<1>3. QED
  BY <1>1, <1>2

FindsSlot(o, e, p, r) ==
    /\ r = [o EXCEPT !.cached = e, !.sent = 0, !.length = p, !.ends = "END_SOCKET_INPUT"]
    /\ r.fd = o.fd /\ r.http = o.http /\ r.cached = e /\ r.sent = 0

LEMMA SlotFinds ==
    ASSUME NEW o \in SlotRec, NEW e \in Entries, NEW p \in {EMPTY} \union Nat
    PROVE  \E r \in SlotRec : FindsSlot(o, e, p, r)
<1>0. 0 \in {EMPTY} \union Nat /\ e \in Entries \union {EMPTY}
  OBVIOUS
<1> DEFINE r1 == [o EXCEPT !.cached = e, !.sent = 0]
           r2 == [r1 EXCEPT !.length = p, !.ends = "END_SOCKET_INPUT"]
<1>1. r1 \in SlotRec /\ r1.fd = o.fd /\ r1.http = o.http /\ r1.cached = e /\ r1.sent = 0
  BY <1>0 DEF SlotRec
<1>2. r2 = [o EXCEPT !.cached = e, !.sent = 0, !.length = p, !.ends = "END_SOCKET_INPUT"]
  OBVIOUS
<1> HIDE DEF r1
<1>3. r2 \in SlotRec /\ r2.fd = o.fd /\ r2.http = o.http /\ r2.cached = e /\ r2.sent = 0
  BY <1>0, <1>1 DEF SlotRec
<1> HIDE DEF r2
<1>4. FindsSlot(o, e, p, r2)
  BY <1>2, <1>3 DEF FindsSlot
<1>5. QED
  BY <1>3, <1>4

OwnsSlot(o, e, p, h, r) ==
    /\ r = [o EXCEPT !.http = h, !.ends = "WORKING", !.length = p, !.cached = e, !.sent = 0]
    /\ r.fd = o.fd /\ r.http = h /\ r.cached = e /\ r.sent = 0 /\ r.ends = "WORKING"

LEMMA SlotOwns ==
    ASSUME NEW o \in SlotRec, NEW e \in Entries, NEW p \in {EMPTY} \union Nat,
           NEW h \in Servers
    PROVE  \E r \in SlotRec : OwnsSlot(o, e, p, h, r)
<1>0. 0 \in {EMPTY} \union Nat /\ e \in Entries \union {EMPTY}
  OBVIOUS
<1> DEFINE q1 == [o EXCEPT !.http = h, !.ends = "WORKING"]
           q2 == [q1 EXCEPT !.length = p, !.cached = e]
           q3 == [q2 EXCEPT !.sent = 0]
<1>1. q1 \in SlotRec /\ q1.fd = o.fd /\ q1.http = h /\ q1.ends = "WORKING"
  BY <1>0 DEF SlotRec
<1>2. q3 = [o EXCEPT !.http = h, !.ends = "WORKING", !.length = p, !.cached = e, !.sent = 0]
  OBVIOUS
<1> HIDE DEF q1
<1>3. q2 \in SlotRec /\ q2.fd = o.fd /\ q2.http = h /\ q2.cached = e /\ q2.ends = "WORKING"
  BY <1>0, <1>1 DEF SlotRec
<1> HIDE DEF q2
<1>4. /\ q3 \in SlotRec /\ q3.fd = o.fd /\ q3.http = h /\ q3.cached = e /\ q3.sent = 0
      /\ q3.ends = "WORKING"
  BY <1>0, <1>3 DEF SlotRec
<1> HIDE DEF q3
<1>5. OwnsSlot(o, e, p, h, q3)
  BY <1>2, <1>4 DEF OwnsSlot
<1>6. QED
  BY <1>4, <1>5

LEMMA FindsSteps == ASSUME IInv, NEW c \in Slots, Finds(c) PROVE IInv'
<1> DEFINE f == slot[c].fd
           t == Asked(c)
           e == Min(With(t))
<1>0. /\ With(t) # {} /\ Read(c) /\ ReadsRequest(c) /\ stage' = "load" /\ at' = at
      /\ slot' = [slot EXCEPT ![c].cached = e, ![c].sent = 0,
                          ![c].length = Parsed(c), ![c].ends = "END_SOCKET_INPUT"]
      /\ misled' = misled \ {f}
      /\ UNCHANGED <<number, cacheVars, fds, refused, server, mixed>>
  BY DEF Finds, Loads
<1>1. /\ cache' = cache /\ cacheProperty' = cacheProperty /\ cacheIndex' = cacheIndex
      /\ cacheSize' = cacheSize /\ number' = number /\ fds' = fds /\ refused' = refused
      /\ server' = server /\ mixed' = mixed
  BY <1>0 DEF cacheVars
<1>2. Reading(f, t) /\ astray' = (astray \/ slot[c].http # 0)
      /\ Parsed(c) \in {EMPTY} \union Nat /\ at = c
  BY <1>0, Reads
<1>3. e \in Entries /\ cache[e].title = t /\ t \in Titles /\ e \in Nat
  <2>1. With(t) \in SUBSET Nat /\ With(t) \subseteq Entries
    BY InCache, Numbers
  <2>2. e \in With(t)
    BY <1>0, <2>1, Least
  <2>3. e \in Entries
    BY <2>1, <2>2
  <2>4. cache[e].title = t
    BY <2>2 DEF With
  <2>5. t \in Titles
    BY <1>2 DEF Reading
  <2>6. QED
    BY <2>3, <2>4, <2>5, Numbers
<1>4. f \in Users /\ f # 0 /\ slot[c] \in SlotRec /\ at # 0 /\ at \in 0..Cleaning
  BY <1>2, Visited
<1> HIDE DEF f, t, e
<1>a. PICK p \in {EMPTY} \union Nat : p = Parsed(c)
  BY <1>2
<1>b. PICK r \in SlotRec : FindsSlot(slot[c], e, p, r)
  BY <1>3, <1>4, SlotFinds
<1>5. r.fd = slot[c].fd /\ r.http = slot[c].http /\ r.cached = e /\ r.sent = 0
  BY <1>b DEF FindsSlot
<1>6. slot' = [slot EXCEPT ![c] = r]
  BY <1>0, <1>a, <1>b DEF FindsSlot
<1>7. slot' \in [Slots -> SlotRec] /\ slot'[c] = r
      /\ \A d \in Slots : d # c => slot'[d] = slot[d]
  BY <1>6, Becomes
<1>8. \A d \in Slots : slot'[d].fd = slot[d].fd /\ slot'[d].http = slot[d].http
  BY <1>5, <1>7
<1>9. Typed'
  <2>1. user' \in [Users -> UserRec]
    BY <1>2 DEF Reading
  <2>2. astray' \in BOOLEAN
    BY <1>2 DEF IInv, Typed
  <2>3. QED
    BY <1>0, <1>1, <1>4, <1>7, <2>1, <2>2 DEF IInv, Typed
<1>10. Allocated'
  BY <1>1 DEF IInv, Allocated
<1>10a. \A d \in Slots : d # c /\ slot[d].cached # EMPTY /\ slot[d].fd \notin misled' =>
            slot[d].fd \notin misled
  <2>1. \A d \in Slots : d # c /\ slot[d].cached # EMPTY => slot[d].fd # f
    BY <1>4 DEF IInv, Clients, f
  <2>2. QED
    BY <1>0, <2>1
<1>11. Visiting'
  BY <1>0, <1>2, <1>4, <1>5, <1>7 DEF Visiting, f
<1>12. Clients'
  <2>1. Len(cache[e].page) \in Nat
    BY <1>3, Facts, EntryFacts
  <2>2. \A u \in Users : user'[u].state = user[u].state
    BY <1>2 DEF Reading
  <2>3. \A d \in Slots : slot[d].fd # 0 => user'[slot[d].fd].state = user[slot[d].fd].state
    BY <2>2, Facts
  <2>4. slot'[c].sent \in Nat /\ slot'[c].sent <= Len(cache[slot'[c].cached].page)
    BY <1>5, <1>7, <2>1
  <2>5. \A d \in Slots : d # c => slot'[d].cached = slot[d].cached /\ slot'[d].sent = slot[d].sent
    BY <1>7
  <2>6. slot'[c].fd # 0
    BY <1>4, <1>8 DEF f
  <2>7. QED
    BY <1>1, <1>8, <1>10a, <2>3, <2>4, <2>5, <2>6 DEF IInv, Clients
<1>13. Speech'
  BY <1>1, <1>2 DEF IInv, Speech, Reading
<1>14. InOrder'
  <2>1. \A d \in Slots : d # c =>
              /\ slot'[d] = slot[d]
              /\ slot[d].cached # EMPTY /\ slot[d].fd \notin misled' =>
                    /\ cache'[slot[d].cached] = cache[slot[d].cached]
                    /\ slot[d].fd \notin misled
    BY <1>1, <1>7, <1>10a
  <2>2. slot'[c].cached = e /\ slot'[c].sent = 0 /\ slot'[c].fd = slot[c].fd /\ slot[c].fd # 0
    BY <1>4, <1>5, <1>7 DEF f
  <2>3. cache'[slot'[c].cached].title = t
    BY <1>1, <1>3, <2>2
  <2>4. QED
    BY <1>2, <1>3, <2>1, <2>2, <2>3, BeginsInOrder DEF f
<1>15. ASSUME ~astray'
       PROVE  /\ ~astray /\ slot[c].http = 0
              /\ \A d \in Slots : slot[d].http # 0 =>
                    slot'[d].cached = slot[d].cached /\ slot'[d].ends = slot[d].ends
  BY <1>2, <1>7, <1>15
<1>16. ~astray' => Owners'
  BY <1>1, <1>8, <1>15 DEF IInv, Owners, Downloads
<1>17. Counted'
  <2>1. Used' = Used
    BY <1>8 DEF Used
  <2>2. QED
    BY <1>1, <1>8, <1>15, <2>1 DEF IInv, Counted
<1>18. PagesPure'
  BY <1>1, <1>15 DEF IInv, PagesPure
<1>19. DownloadHasOwner'
  <2>1. \A z \in Titles : With(z)' = With(z)
    BY <1>1 DEF With
  <2> SUFFICES ASSUME ~astray', NEW z \in Titles, NEW n \in With(z)
               PROVE  \/ cacheProperty'[n] = "DOWNLOADED"
                      \/ cacheProperty'[n] = "CLEAN" /\ at' # 0
                      \/ /\ cacheProperty'[n] = "DOWNLOADING"
                         /\ \E d \in Slots : slot'[d].http # 0 /\ slot'[d].cached = n
    BY <2>1 DEF DownloadHasOwner
  <2>2. \/ cacheProperty[n] = "DOWNLOADED"
        \/ cacheProperty[n] = "CLEAN" /\ at # 0
        \/ /\ cacheProperty[n] = "DOWNLOADING"
           /\ \E d \in Slots : slot[d].http # 0 /\ slot[d].cached = n
    BY <1>15 DEF IInv, DownloadHasOwner
  <2>3. QED
    BY <1>0, <1>1, <1>8, <1>15, <2>2
<1>20. QED
  BY <1>9, <1>10, <1>11, <1>12, <1>13, <1>14, <1>16, <1>17, <1>18, <1>19 DEF IInv

\* The server that is asked next.
LEMMA NextServer ==
    ASSUME Unused # {}
    PROVE  Min(Unused) \in Servers /\ server[Min(Unused)].state = "unused"
<1>1. Unused \in SUBSET Nat
  BY Numbers DEF Unused
<1>2. Min(Unused) \in Unused
  BY <1>1, Least
<1>3. QED
  BY <1>2 DEF Unused

\* The entry of the next page; the cache is full once there is a page.
LEMMA NextEntry ==
    ASSUME IInv, cacheIndex' = NewEntry + 1, cacheSize' = Min({cacheSize + 1, CacheSize})
    PROVE  /\ NewEntry \in Entries /\ cacheIndex' \in 1..CacheSize /\ cacheSize' = CacheSize
           /\ \A n \in Entries : cache[n].title \in Titles => cacheSize = CacheSize
<1>1. CacheSize \in Nat /\ CacheSize >= 1
  BY Sizes
<1>2. NewEntry \in Entries
  <2>1. cacheIndex = CacheSize - 1 \/ cacheIndex \in 1..CacheSize
    BY DEF IInv, Allocated
  <2>2. CASE cacheIndex = CacheSize
    BY <1>1, <2>2 DEF NewEntry, Entries
  <2>3. CASE cacheIndex # CacheSize
    BY <1>1, <2>1, <2>3 DEF NewEntry, Entries
  <2>4. QED
    BY <2>2, <2>3
<1>3. cacheIndex' \in 1..CacheSize
  BY <1>1, <1>2 DEF Entries
<1>4. cacheSize' = CacheSize
  <2>1. CASE cacheSize = CacheSize - 1
    <3>1. cacheSize + 1 = CacheSize
      BY <1>1, <2>1
    <3>2. Min({CacheSize, CacheSize}) = CacheSize
      BY <1>1, Least
    <3>3. QED
      BY <3>1, <3>2
  <2>2. CASE cacheSize = CacheSize
    <3>1. {CacheSize + 1, CacheSize} \in SUBSET Nat
      BY <1>1
    <3>2. Min({CacheSize + 1, CacheSize}) \in {CacheSize + 1, CacheSize}
          /\ Min({CacheSize + 1, CacheSize}) <= CacheSize
      BY <3>1, Least
    <3>3. QED
      BY <1>1, <2>2, <3>2
  <2>3. QED
    BY <2>1, <2>2 DEF IInv, Allocated
<1>5. \A n \in Entries : cache[n].title \in Titles => cacheSize = CacheSize
  BY DEF IInv, Allocated
<1>6. QED
  BY <1>2, <1>3, <1>4, <1>5

\* The server of a new download, once that of an earlier one is forgotten.
ConnectsTo(s, x, t) ==
    server' = [Forgotten(x) EXCEPT ![s].state = "open", ![s].title = t]

Connected(s, x, t) ==
    /\ server' \in [Servers -> ServerRec]
    /\ server'[s].state = "open" /\ server'[s].title = t
    /\ server'[s].said = server[s].said /\ server'[s].unread = server[s].unread
    /\ \A q \in Servers : q # s /\ q # x => server'[q] = server[q]
    /\ x # 0 => IsGone(x)

LEMMA Connecting ==
    ASSUME IInv, NEW x \in {0} \union Servers, NEW s \in Servers, s # x, NEW t \in Titles,
           ConnectsTo(s, x, t)
    PROVE  Connected(s, x, t)
<1>1. PICK sv : sv = server /\ sv \in [Servers -> ServerRec]
  BY Facts
<1>2. PICK fo : fo = Forgotten(x) /\ fo \in [Servers -> ServerRec]
                /\ (\A q \in Servers : q # x => fo[q] = server[q])
                /\ (x # 0 => /\ fo[x].state = "gone" /\ fo[x].title = NoTitle
                             /\ fo[x].said = 0 /\ fo[x].unread = 0)
  BY <1>1, Forgetting
<1>3. fo[s] = server[s] /\ fo[s] \in ServerRec
  BY <1>2
<1> DEFINE w == [fo[s] EXCEPT !.state = "open", !.title = t]
<1>4. w \in ServerRec /\ w.state = "open" /\ w.title = t
  BY <1>3 DEF ServerRec
<1>5. w.said = fo[s].said /\ w.unread = fo[s].unread
  BY <1>3 DEF ServerRec
<1>6. server' = [fo EXCEPT ![s] = w]
  BY <1>2 DEF ConnectsTo
<1> HIDE DEF w
<1>7. server'[s] = w /\ server' \in [Servers -> ServerRec]
      /\ \A q \in Servers : q # s => server'[q] = fo[q]
  BY <1>2, <1>4, <1>6
<1>8. x # 0 => IsGone(x)
  BY <1>2, <1>7 DEF IsGone
<1>9. QED
  BY <1>2, <1>3, <1>4, <1>5, <1>7, <1>8 DEF Connected

\* Client c becomes the owner of a download by server s into entry e, which
\* other clients may still use.
Owning(c, s, e, t, x) ==
    /\ s \in Servers /\ server[s].state = "unused" /\ e \in Entries
    /\ x = slot[c].http /\ s # x /\ server[s].said = 0
    /\ slot'[c].ends = "WORKING"
    /\ slot' \in [Slots -> SlotRec] /\ slot'[c].fd = slot[c].fd /\ slot'[c].http = s
    /\ slot'[c].cached = e /\ slot'[c].sent = 0
    /\ \A d \in Slots : d # c => slot'[d] = slot[d]
    /\ Reading(slot[c].fd, t) /\ astray' = (astray \/ x # 0)
    /\ server' \in [Servers -> ServerRec]
    /\ server'[s].state = "open" /\ server'[s].title = t
    /\ server'[s].said = 0 /\ server'[s].unread = 0
    /\ \A q \in Servers : q # s /\ q # x => server'[q] = server[q]
    /\ x # 0 => IsGone(x)
    /\ cache' \in [Entries -> EntryRec] /\ cache'[e].title = t /\ cache'[e].page = <<>>
    /\ \A n \in Entries : n # e => cache'[n] = cache[n]
    /\ cacheProperty' \in [Entries \union {EMPTY} ->
                             {"EMPTY", "DOWNLOADING", "DOWNLOADED", "CLEAN"}]
    /\ cacheProperty'[e] = "DOWNLOADING"
    /\ \A n \in Entries \union {EMPTY} : n # e => cacheProperty'[n] = cacheProperty[n]
    /\ cacheIndex' \in 1..CacheSize /\ cacheSize' = CacheSize
    /\ \A n \in Entries : cache[n].title \in Titles => cacheSize = CacheSize
    /\ \A n \in Entries : n # e => (n \in mixed' <=> n \in mixed)
    /\ \A d \in Slots : d # c /\ slot[d].cached = e /\ slot[d].http # 0 => e \in mixed'
    /\ \A d \in Slots : d # c /\ slot[d].fd # 0 /\ slot[d].fd \notin misled' =>
                          slot[d].fd \notin misled /\ slot[d].cached # e
    /\ at = c /\ at' = at /\ stage' = "load" /\ fds' = fds \union {s}
    /\ number' = number /\ refused' = refused

LEMMA OwningSteps ==
    ASSUME IInv, NEW c \in Slots, NEW s, NEW e, NEW t, NEW x, Owning(c, s, e, t, x)
    PROVE  IInv'
<1> USE DEF Owning
<1>0. /\ slot[c].fd \in Users /\ slot[c].fd # 0 /\ at # 0 /\ at \in 0..Cleaning
      /\ s # 0 /\ t \in Titles /\ s \notin Users
  BY Visited, Numbers DEF Reading
<1>1. \A d \in Slots : d # c /\ slot[d].cached # EMPTY /\ slot[d].fd \notin misled' =>
          slot[d].fd \notin misled /\ slot[d].cached # e
  BY DEF IInv, Clients
<1>2. \A d \in Slots : slot[d].http # s
  BY <1>0 DEF IInv, Clients
<1>3. \A d \in Slots : d # c /\ slot[d].http # 0 =>
          slot[d].http \in Servers /\ server'[slot[d].http] = server[slot[d].http]
  <2>1. \A d \in Slots : d # c /\ slot[d].http # 0 => slot[d].http # x
    BY DEF IInv, Clients
  <2>2. QED
    BY <1>2, <2>1, Facts
<1>4. \A d \in Slots : d # c /\ slot[d].cached # EMPTY /\ slot[d].fd \notin misled' =>
          /\ cache'[slot[d].cached] = cache[slot[d].cached]
          /\ slot[d].fd \notin misled
  BY <1>1, Facts
<1>5. \A d \in Slots : slot'[d].fd = slot[d].fd
  OBVIOUS
<1>6. Typed'
  <2>1. user' \in [Users -> UserRec] /\ fds' \subseteq Users \union Servers
    BY Facts DEF Reading
  <2>2. astray' \in BOOLEAN
    BY DEF IInv, Typed
  <2>3. QED
    BY <1>0, <2>1, <2>2, Facts DEF Typed
<1>7. Allocated'
  BY DEF Allocated
<1>8. Visiting'
  BY <1>0 DEF Visiting
<1>9. Clients'
  <2>1. \A u \in Users : user'[u].state = user[u].state
    BY DEF Reading
  <2>2. \A d \in Slots : slot[d].fd # 0 => user'[slot[d].fd].state = user[slot[d].fd].state
    BY <2>1, Facts
  <2>3. \A d \in Slots :
           /\ slot'[d].fd = 0 => slot'[d].cached = EMPTY
           /\ slot'[d].fd # 0 => slot'[d].fd \in fds' /\ user'[slot'[d].fd].state # "away"
    BY <1>0, <1>5, <2>2 DEF IInv, Clients
  <2>4. \A d \in Slots : slot'[d].http # 0 => server'[slot'[d].http].state \in {"open", "reset"}
    BY <1>3 DEF IInv, Clients
  <2>5. Len(<<>>) = 0 /\ 0 \in Nat
    OBVIOUS
  <2>6. \A d \in Slots : slot'[d].cached # EMPTY =>
           /\ slot'[d].sent \in Nat
           /\ slot'[d].fd \notin misled' =>
                 slot'[d].sent <= Len(cache'[slot'[d].cached].page)
    BY <1>4, <1>5, <2>5 DEF IInv, Clients
  <2>7. \A a, d \in Slots : a # d =>
          /\ slot'[a].fd # 0 => slot'[a].fd # slot'[d].fd
          /\ slot'[a].http # 0 => slot'[a].http # slot'[d].http
    BY <1>2, <1>5 DEF IInv, Clients
  <2>8. QED
    BY <2>3, <2>4, <2>6, <2>7 DEF Clients
<1>10. Speech'
  <2>1. \A u \in Users : user'[u].unread => user'[u].ask \in Titles
    BY DEF Reading
  <2>2. ASSUME NEW q \in Servers
        PROVE  /\ server'[q].unread <= server'[q].said /\ server'[q].said <= Length
               /\ server'[q].state = "unused" => server'[q].said = 0
    <3>1. CASE q = s
      BY <3>1, Sizes
    <3>2. CASE q = x /\ x # s
      BY <3>2, Numbers, Sizes DEF IsGone
    <3>3. CASE q # x /\ q # s
      BY <3>3 DEF IInv, Speech
    <3>4. QED
      BY <3>1, <3>2, <3>3
  <2>3. QED
    BY <2>1, <2>2 DEF Speech
<1>11. InOrder'
  BY <1>0, <1>4, BeginsInOrder
<1>12. ASSUME ~astray' PROVE ~astray /\ x = 0
  BY <1>12
<1>13. ~astray' => Owners'
  <2> SUFFICES ASSUME ~astray' PROVE Owners'
    OBVIOUS
  <2>1. Owners /\ x = 0
    BY <1>12 DEF IInv
  <2>2. cacheProperty'[EMPTY] = "DOWNLOADING" /\ e # EMPTY
    BY <2>1, Numbers DEF Owners
  <2>3. ASSUME NEW d \in Slots, slot'[d].http # 0
        PROVE  /\ slot'[d].cached # EMPTY
               /\ cacheProperty'[slot'[d].cached] \in {"DOWNLOADING", "DOWNLOADED"}
               /\ cache'[slot'[d].cached].title \in Titles
               /\ slot'[d].ends = "WORKING"
               /\ slot'[d].cached \notin mixed' => Downloads(d)'
    <3>1. CASE d = c
      <4>1. Len(<<>>) = 0 - 0
        OBVIOUS
      <4>2. QED
        BY <1>0, <2>2, <3>1, <4>1 DEF Downloads
    <3>2. CASE d # c
      <4>1. slot'[d] = slot[d] /\ slot[d].cached \in Entries /\ slot[d].http # 0
        BY <2>1, <2>3, <3>2, Facts DEF Owners
      <4>2. /\ cacheProperty[slot[d].cached] \in {"DOWNLOADING", "DOWNLOADED"}
            /\ cache[slot[d].cached].title \in Titles
            /\ slot[d].ends = "WORKING"
            /\ slot[d].cached \notin mixed => Downloads(d)
        BY <2>1, <4>1 DEF Owners
      <4>3. CASE slot[d].cached = e
        BY <1>0, <2>2, <3>2, <4>1, <4>2, <4>3
      <4>4. CASE slot[d].cached # e
        <5>1. /\ cacheProperty'[slot[d].cached] = cacheProperty[slot[d].cached]
              /\ cache'[slot[d].cached] = cache[slot[d].cached]
              /\ slot[d].cached \in mixed' <=> slot[d].cached \in mixed
          BY <4>1, <4>4
        <5>2. server'[slot[d].http] = server[slot[d].http]
          BY <1>3, <3>2, <4>1
        <5>3. QED
          BY <4>1, <4>2, <5>1, <5>2, Numbers DEF Downloads
      <4>5. QED
        BY <4>3, <4>4
    <3>3. QED
      BY <3>1, <3>2
  <2>4. ASSUME NEW a \in Slots, NEW d \in Slots, a # d, slot'[a].http # 0, slot'[d].http # 0
        PROVE  slot'[a].cached # slot'[d].cached \/ slot'[a].cached \in mixed'
    <3>1. CASE slot'[a].cached = e /\ slot'[d].cached = e
      <4>1. PICK b \in Slots : b # c /\ slot[b].cached = e /\ slot[b].http # 0
        BY <2>4, <3>1
      <4>2. QED
        BY <3>1, <4>1
    <3>2. CASE slot'[a].cached = slot'[d].cached /\ slot'[a].cached # e
      <4>1. a # c /\ d # c
        BY <3>2
      <4>2. slot[a].cached = slot[d].cached /\ slot[a].http # 0 /\ slot[d].http # 0
            /\ slot[a].cached \in Entries
        BY <2>1, <2>4, <3>2, <4>1, Facts DEF Owners
      <4>3. slot[a].cached \in mixed
        BY <2>1, <2>4, <4>2 DEF Owners
      <4>4. QED
        BY <3>2, <4>1, <4>2, <4>3
    <3>3. QED
      BY <3>1, <3>2
  <2>5. QED
    BY <2>2, <2>3, <2>4 DEF Owners
<1>14. Counted'
  <2> SUFFICES ASSUME ~astray'
               PROVE  /\ number' = Cardinality(Used') + refused'
                      /\ \A u \in Users : u \in fds' <=> \E d \in Slots : slot'[d].fd = u
                      /\ \A q \in Servers : q \in fds' <=> \E d \in Slots : slot'[d].http = q
                      /\ \A d \in Slots : slot'[d].fd = 0 => slot'[d].http = 0
    BY DEF Counted
  <2>1. /\ number = Cardinality(Used) + refused
        /\ \A u \in Users : u \in fds <=> \E d \in Slots : slot[d].fd = u
        /\ \A q \in Servers : q \in fds <=> \E d \in Slots : slot[d].http = q
        /\ \A d \in Slots : slot[d].fd = 0 => slot[d].http = 0
    BY <1>12 DEF IInv, Counted
  <2>2. Used' = Used
    BY <1>5 DEF Used
  <2>3. \A u \in Users : u \in fds' <=> \E d \in Slots : slot'[d].fd = u
    BY <1>0, <1>5, <2>1
  <2>4. \A q \in Servers : q \in fds' <=> \E d \in Slots : slot'[d].http = q
    <3> SUFFICES ASSUME NEW q \in Servers
                 PROVE  q \in fds' <=> \E d \in Slots : slot'[d].http = q
      OBVIOUS
    <3>1. q # 0 /\ slot[c].http = 0
      BY <1>12, Numbers
    <3>2. CASE q = s
      BY <3>2
    <3>3. CASE q # s
      <4>1. q \in fds' <=> \E d \in Slots : slot[d].http = q
        BY <2>1, <3>3
      <4>2. \A d \in Slots : slot[d].http = q => slot'[d].http = q
        BY <3>1
      <4>3. \A d \in Slots : slot'[d].http = q => slot[d].http = q
        BY <3>3
      <4>4. QED
        BY <4>1, <4>2, <4>3
    <3>4. QED
      BY <3>2, <3>3
  <2>5. ASSUME NEW d \in Slots, slot'[d].fd = 0 PROVE slot'[d].http = 0
    <3>1. d # c /\ slot'[d] = slot[d]
      BY <1>0, <2>5
    <3>2. QED
      BY <2>1, <2>5, <3>1
  <2>6. QED
    BY <2>1, <2>2, <2>3, <2>4, <2>5
<1>15. PagesPure'
  <2> SUFFICES ASSUME ~astray', NEW n \in Entries \ mixed', cache'[n].title \in Titles
               PROVE  /\ Len(cache'[n].page) <= Length
                      /\ \A i \in DOMAIN cache'[n].page :
                            cache'[n].page[i] = <<cache'[n].title, i>>
    BY DEF PagesPure
  <2>1. CASE n = e
    <3>1. Len(<<>>) <= Length /\ DOMAIN <<>> = {}
      BY Sizes
    <3>2. QED
      BY <2>1, <3>1
  <2>2. CASE n # e
    BY <1>12, <2>2 DEF IInv, PagesPure
  <2>3. QED
    BY <2>1, <2>2
<1>16. DownloadHasOwner'
  <2> SUFFICES ASSUME ~astray', NEW z \in Titles, NEW n \in With(z)'
               PROVE  \/ cacheProperty'[n] = "DOWNLOADED"
                      \/ cacheProperty'[n] = "CLEAN" /\ at' # 0
                      \/ /\ cacheProperty'[n] = "DOWNLOADING"
                         /\ \E d \in Slots : slot'[d].http # 0 /\ slot'[d].cached = n
    BY DEF DownloadHasOwner
  <2>1. n \in Entries /\ cache'[n].title = z
    BY DEF With, Entries
  <2>2. CASE n = e
    BY <1>0, <2>2
  <2>3. CASE n # e
    <3>1. cache[n].title = z
      BY <2>1, <2>3
    <3>4. cacheSize = CacheSize
      BY <2>1, <3>1
    <3>5. n \in With(z)
      BY <2>1, <3>1, <3>4 DEF With, Entries
    <3>6. \/ cacheProperty[n] = "DOWNLOADED"
          \/ cacheProperty[n] = "CLEAN" /\ at # 0
          \/ /\ cacheProperty[n] = "DOWNLOADING"
             /\ \E d \in Slots : slot[d].http # 0 /\ slot[d].cached = n
      BY <1>12, <3>5 DEF IInv, DownloadHasOwner
    <3>7. cacheProperty'[n] = cacheProperty[n]
      BY <2>1, <2>3
    <3>8. \A d \in Slots : slot[d].http # 0 => slot'[d] = slot[d]
      BY <1>12
    <3>9. QED
      BY <3>6, <3>7, <3>8
  <2>4. QED
    BY <2>2, <2>3
<1>17. QED
  BY <1>6, <1>7, <1>8, <1>9, <1>10, <1>11, <1>13, <1>14, <1>15, <1>16 DEF IInv

LEMMA OwnsSteps == ASSUME IInv, NEW c \in Slots, Owns(c) PROVE IInv'
<1> DEFINE s == Min(Unused)
           x == slot[c].http
           e == NewEntry
           t == Asked(c)
<1>0. /\ ReadsRequest(c) /\ Read(c) /\ Unused # {} /\ at' = at /\ stage' = "load"
      /\ server' = [Forgotten(x) EXCEPT ![s].state = "open", ![s].title = t]
      /\ fds' = fds \union {s}
      /\ slot' = [slot EXCEPT ![c].http = s, ![c].ends = "WORKING", ![c].length = Parsed(c),
                              ![c].cached = e, ![c].sent = 0]
      /\ cache' = [cache EXCEPT ![e] = [title |-> t, page |-> <<>>]]
      /\ cacheProperty' = [cacheProperty EXCEPT ![e] = "DOWNLOADING"]
      /\ cacheIndex' = e + 1 /\ cacheSize' = Min({cacheSize + 1, CacheSize})
      /\ number' = number /\ refused' = refused /\ Overtakes(c)
  BY DEF Owns, Misses, Loads, Allocates
<1>1. Reading(slot[c].fd, t) /\ astray' = (astray \/ x # 0)
      /\ Parsed(c) \in {EMPTY} \union Nat /\ at = c
  BY <1>0, Reads
<1>3. s \in Servers /\ server[s].state = "unused"
  BY <1>0, NextServer
<1>4. /\ e \in Entries /\ cacheIndex' \in 1..CacheSize /\ cacheSize' = CacheSize
      /\ \A n \in Entries : cache[n].title \in Titles => cacheSize = CacheSize
  BY <1>0, NextEntry
<1>4a. /\ \A n \in Entries : n # e => (n \in mixed' <=> n \in mixed)
       /\ \A d \in Slots : d # c /\ slot[d].cached = e /\ slot[d].http # 0 => e \in mixed'
  <2>1. mixed' = IF \E d \in {b \in Slots \ {c} : slot[b].cached = e} : slot[d].http # 0
                    THEN mixed \union {e} ELSE mixed \ {e}
    BY <1>0 DEF Overtakes
  <2>2. QED
    BY <2>1
<1>4b. \A d \in Slots : d # c /\ slot[d].fd # 0 /\ slot[d].fd \notin misled' =>
                         slot[d].fd \notin misled /\ slot[d].cached # e
  <2>1. misled' = (misled \union {slot[d].fd : d \in {b \in Slots \ {c} : slot[b].cached = e}})
                     \ {slot[c].fd}
    BY <1>0 DEF Overtakes
  <2>2. \A d \in Slots : d # c /\ slot[d].fd # 0 => slot[d].fd # slot[c].fd
    BY DEF IInv, Clients
  <2>3. QED
    BY <2>1, <2>2
<1>5. t \in Titles /\ t \in Titles \union {NoTitle, Old}
  BY <1>1 DEF Reading
<1>6. x \in {0} \union Servers /\ s # x
  <2>1. x # 0 => server[x].state # "unused"
    BY DEF IInv, Clients
  <2>2. QED
    BY <1>3, <2>1, Facts, Numbers
<1>7. server[s].said = 0 /\ server[s].unread = 0
  <2>1. server[s] \in ServerRec
    BY <1>3, Facts
  <2>2. server[s].said = 0 /\ server[s].unread <= 0
    BY <1>3 DEF IInv, Speech
  <2>3. QED
    BY <2>1, <2>2, ServerFacts
<1> HIDE DEF s, x, e, t
<1>8. /\ server' \in [Servers -> ServerRec]
      /\ server'[s].state = "open" /\ server'[s].title = t
      /\ server'[s].said = 0 /\ server'[s].unread = 0
      /\ \A q \in Servers : q # s /\ q # x => server'[q] = server[q]
      /\ x # 0 => IsGone(x)
  <2>1. ConnectsTo(s, x, t)
    BY <1>0 DEF ConnectsTo
  <2>2. Connected(s, x, t)
    BY <1>3, <1>5, <1>6, <2>1, Connecting
  <2>3. QED
    BY <1>7, <2>2 DEF Connected
<1>9. PICK p \in {EMPTY} \union Nat : p = Parsed(c)
  BY <1>1
<1>10. PICK r \in SlotRec : OwnsSlot(slot[c], e, p, s, r)
  BY <1>3, <1>4, Facts, SlotOwns
<1>11. r.fd = slot[c].fd /\ r.http = s /\ r.cached = e /\ r.sent = 0 /\ r.ends = "WORKING"
  BY <1>10 DEF OwnsSlot
<1>12. slot' = [slot EXCEPT ![c] = r]
  BY <1>0, <1>9, <1>10 DEF OwnsSlot
<1>13. slot' \in [Slots -> SlotRec] /\ slot'[c] = r
       /\ \A d \in Slots : d # c => slot'[d] = slot[d]
  BY <1>12, Becomes
<1>14. PICK b \in EntryRec : b = [title |-> t, page |-> <<>>] /\ b.title = t /\ b.page = <<>>
  <2>1. [title |-> t, page |-> <<>>] \in EntryRec
    BY <1>5, Nothing DEF EntryRec
  <2>2. QED
    BY <2>1
<1>15. cache' \in [Entries -> EntryRec] /\ cache'[e] = b
       /\ \A n \in Entries : n # e => cache'[n] = cache[n]
  <2>1. cache' = [cache EXCEPT ![e] = b]
    BY <1>0, <1>14
  <2>2. QED
    BY <1>4, <2>1, Facts
<1>16. /\ cacheProperty' \in [Entries \union {EMPTY} ->
                             {"EMPTY", "DOWNLOADING", "DOWNLOADED", "CLEAN"}]
       /\ cacheProperty'[e] = "DOWNLOADING"
       /\ \A n \in Entries \union {EMPTY} : n # e => cacheProperty'[n] = cacheProperty[n]
  BY <1>0, <1>4, Facts
<1>19. Owning(c, s, e, t, x)
  BY <1>0, <1>1, <1>3, <1>4, <1>4a, <1>4b, <1>6, <1>7, <1>8, <1>11, <1>13, <1>14, <1>15, <1>16
  DEF Owning, x
<1>20. QED
  BY <1>19, OwningSteps

-----------------------------------------------------------------------------
(* Pages that grow. *)

\* What was sent of a page stays as it was when the page grows.
LEMMA PrefixStays ==
    ASSUME NEW p \in Seq(Token), NEW q \in Seq(Token), NEW n \in Nat, n <= Len(p)
    PROVE  /\ SubSeq(p \o q, 1, n) = SubSeq(p, 1, n)
           /\ p \o q \in Seq(Token) /\ Len(p \o q) = Len(p) + Len(q)
           /\ Len(p) <= Len(p \o q)
<1>1. p \o q \in Seq(Token) /\ Len(p \o q) = Len(p) + Len(q)
  BY ConcatProperties
<1>2. CASE n = 0
  <2>1. SubSeq(p \o q, 1, 0) = <<>> /\ SubSeq(p, 1, 0) = <<>>
    BY SubSeqEmpty
  <2>2. QED
    BY <1>1, <1>2, <2>1
<1>3. CASE n # 0
  <2>1. n \in 1..Len(p) /\ 1 \in 1..Len(p)
    BY <1>3
  <2>2. SubSeq(p \o q, 1, n) = SubSeq(p, 1, n)
    BY <2>1, SubSeqOfConcat1
  <2>3. QED
    BY <1>1, <2>2
<1>4. QED
  BY <1>2, <1>3

\* The page of entry e, if there is one, goes on with the tokens q.
PageGrows(e, q) ==
    \A n \in Entries :
        /\ cache'[n].title = cache[n].title
        /\ cache'[n].page = IF n = e THEN cache[n].page \o q ELSE cache[n].page

\* It is then still a page of its own title and no longer than a response.
GrowsPurely(e, q) ==
    /\ Len(cache[e].page \o q) <= Length
    /\ \A i \in 1..Len(cache[e].page \o q) : (cache[e].page \o q)[i] = <<cache[e].title, i>>

LEMMA Growing ==
    ASSUME IInv, cache' \in [Entries -> EntryRec], NEW e, NEW q \in Seq(Token), PageGrows(e, q)
    PROVE  \A n \in Entries :
             /\ cache'[n].title = cache[n].title
             /\ n # e => cache'[n].page = cache[n].page
             /\ n = e => Len(cache'[n].page) = Len(cache[n].page) + Len(q)
             /\ Len(cache[n].page) \in Nat /\ Len(cache'[n].page) \in Nat
             /\ Len(cache[n].page) <= Len(cache'[n].page)
             /\ \A m \in Nat : m <= Len(cache[n].page) =>
                    SubSeq(cache'[n].page, 1, m) = SubSeq(cache[n].page, 1, m)
<1> SUFFICES ASSUME NEW n \in Entries
             PROVE
             /\ cache'[n].title = cache[n].title
             /\ n # e => cache'[n].page = cache[n].page
             /\ n = e => Len(cache'[n].page) = Len(cache[n].page) + Len(q)
             /\ Len(cache[n].page) \in Nat /\ Len(cache'[n].page) \in Nat
             /\ Len(cache[n].page) <= Len(cache'[n].page)
             /\ \A m \in Nat : m <= Len(cache[n].page) =>
                    SubSeq(cache'[n].page, 1, m) = SubSeq(cache[n].page, 1, m)
  OBVIOUS
<1>1. PICK p \in Seq(Token) : p = cache[n].page
  BY Facts, EntryFacts
<1>2. PICK w \in Seq(Token) : w = cache'[n].page
  BY EntryFacts
<1>3. cache'[n].title = cache[n].title
  BY DEF PageGrows
<1>4. CASE n # e
  <2>1. w = p
    BY <1>1, <1>2, <1>4 DEF PageGrows
  <2>2. Len(p) \in Nat
    OBVIOUS
  <2>3. QED
    BY <1>1, <1>2, <1>3, <1>4, <2>1, <2>2
<1>5. CASE n = e
  <2>1. w = p \o q
    BY <1>1, <1>2, <1>5 DEF PageGrows
  <2>2. Len(p \o q) = Len(p) + Len(q) /\ Len(p) \in Nat /\ Len(q) \in Nat
    BY ConcatProperties
  <2>3. \A m \in Nat : m <= Len(p) => SubSeq(p \o q, 1, m) = SubSeq(p, 1, m)
    <3>1. 0 \in Nat /\ 0 <= Len(p)
      BY <2>2
    <3>2. QED
      BY <3>1, PrefixStays
  <2>4. /\ Len(w) = Len(p) + Len(q) /\ Len(w) \in Nat /\ Len(p) \in Nat /\ Len(p) <= Len(w)
        /\ \A m \in Nat : m <= Len(p) => SubSeq(w, 1, m) = SubSeq(p, 1, m)
    BY <2>1, <2>2, <2>3
  <2>5. QED
    BY <1>1, <1>2, <1>3, <1>5, <2>4
<1>6. QED
  BY <1>4, <1>5

LEMMA Purely ==
    ASSUME cache' \in [Entries -> EntryRec], NEW e \in Entries, NEW q,
           PageGrows(e, q), GrowsPurely(e, q)
    PROVE  /\ Len(cache'[e].page) <= Length
           /\ \A i \in DOMAIN cache'[e].page : cache'[e].page[i] = <<cache'[e].title, i>>
<1>1. PICK w : w = cache[e].page \o q
  OBVIOUS
<1>2. cache'[e].page = w /\ cache'[e].title = cache[e].title
  BY <1>1 DEF PageGrows
<1>3. Len(w) <= Length /\ \A i \in 1..Len(w) : w[i] = <<cache[e].title, i>>
  BY <1>1 DEF GrowsPurely
<1>4. DOMAIN w = 1..Len(w)
  BY <1>2, EntryFacts
<1>5. QED
  BY <1>2, <1>3, <1>4

\* Client c reads from its server s: its page goes on with the tokens q.
Loading(c, s, q) ==
    /\ at = c /\ at' = c /\ stage' \in {"load", "send"} /\ s \in Servers /\ s = slot[c].http
    /\ slot' \in [Slots -> SlotRec] /\ \A d \in Slots : d # c => slot'[d] = slot[d]
    /\ slot'[c].fd = slot[c].fd /\ slot'[c].cached = slot[c].cached
    /\ slot'[c].sent = slot[c].sent
    /\ q \in Seq(Token)
    /\ cache' \in [Entries -> EntryRec]
    /\ PageGrows(slot[c].cached, q)
    /\ server' \in [Servers -> ServerRec] /\ \A z \in Servers : z # s => server'[z] = server[z]
    /\ cacheProperty' \in [Entries \union {EMPTY} ->
                             {"EMPTY", "DOWNLOADING", "DOWNLOADED", "CLEAN"}]
    /\ \/ /\ slot'[c].http = s /\ server'[s].state = server[s].state
          /\ server'[s].title = server[s].title /\ server'[s].said = server[s].said
          /\ server'[s].unread = server[s].unread - Len(q) /\ slot'[c].ends = "WORKING"
          /\ cacheProperty' = cacheProperty /\ fds' = fds
       \/ /\ slot'[c].http = 0 /\ IsGone(s) /\ fds' = fds \ {s}
          /\ cacheProperty' = [cacheProperty EXCEPT ![slot[c].cached] = "DOWNLOADED"]
    /\ ~astray /\ slot[c].cached \notin mixed => GrowsPurely(slot[c].cached, q)
    /\ UNCHANGED <<cacheIndex, cacheSize, number, refused, astray, mixed, misled, user>>

LEMMA LoadingSteps ==
    ASSUME IInv, NEW c \in Slots, NEW s, NEW q, Loading(c, s, q)
    PROVE  IInv'
<1> USE DEF Loading
<1>0. /\ slot[c].fd \in Users /\ slot[c].fd # 0 /\ at # 0 /\ at \in 0..Cleaning /\ s # 0
      /\ s \notin Users
  BY Visited, Numbers
<1>1. \A d \in Slots : /\ slot'[d].fd = slot[d].fd /\ slot'[d].cached = slot[d].cached
                       /\ slot'[d].sent = slot[d].sent /\ slot'[d].http \in {slot[d].http, 0}
                       /\ d # c => slot'[d].http = slot[d].http
  OBVIOUS
<1>2. \A d \in Slots : d # c => slot[d].http # s
  BY <1>0 DEF IInv, Clients
<1>3. \A n \in Entries :
          /\ cache'[n].title = cache[n].title
          /\ n # slot[c].cached => cache'[n].page = cache[n].page
          /\ n = slot[c].cached => Len(cache'[n].page) = Len(cache[n].page) + Len(q)
          /\ Len(cache[n].page) \in Nat /\ Len(cache'[n].page) \in Nat
          /\ Len(cache[n].page) <= Len(cache'[n].page)
          /\ \A m \in Nat : m <= Len(cache[n].page) =>
                 SubSeq(cache'[n].page, 1, m) = SubSeq(cache[n].page, 1, m)
  BY Growing
<1>4. Typed'
  BY <1>0, Facts DEF IInv, Typed
<1>5. Allocated'
  <2>1. /\ cacheIndex' = cacheIndex /\ cacheSize' = cacheSize
        /\ \A n \in Entries : cache'[n].title = cache[n].title
    BY <1>3
  <2> HIDE DEF Loading
  <2>2. QED
    BY <2>1 DEF IInv, Allocated
<1>6. Visiting'
  BY <1>0 DEF Visiting
<1>7. Clients'
  <2>1. \A d \in Slots :
           /\ slot'[d].fd = 0 => slot'[d].cached = EMPTY
           /\ slot'[d].fd # 0 => slot'[d].fd \in fds' /\ user'[slot'[d].fd].state # "away"
    <3>1. \A d \in Slots : slot[d].fd # 0 => slot[d].fd \in fds /\ slot[d].fd # s
      BY <1>0, Facts DEF IInv, Clients
    <3>2. QED
      BY <1>1, <3>1 DEF IInv, Clients
  <2>2. \A d \in Slots : slot'[d].http # 0 => server'[slot'[d].http].state \in {"open", "reset"}
    <3>1. slot'[c].http # 0 => slot'[c].http = s /\ server'[s].state = server[s].state
      BY <1>0
    <3>2. \A d \in Slots : slot[d].http # 0 => slot[d].http \in Servers
              /\ server[slot[d].http].state \in {"open", "reset"}
      BY Facts DEF IInv, Clients
    <3>3. QED
      BY <1>0, <1>2, <3>1, <3>2
  <2>3. \A d \in Slots : slot'[d].cached # EMPTY =>
           /\ slot'[d].sent \in Nat
           /\ slot'[d].fd \notin misled' =>
                 slot'[d].sent <= Len(cache'[slot'[d].cached].page)
    <3> SUFFICES ASSUME NEW d \in Slots, slot[d].cached # EMPTY
                 PROVE  /\ slot[d].sent \in Nat
                        /\ slot[d].fd \notin misled =>
                              slot[d].sent <= Len(cache'[slot[d].cached].page)
      BY <1>1
    <3>1. /\ slot[d].sent \in Nat /\ slot[d].cached \in Entries
          /\ slot[d].fd \notin misled => slot[d].sent <= Len(cache[slot[d].cached].page)
      BY Facts DEF IInv, Clients
    <3>2. QED
      BY <1>3, <3>1
  <2>4. \A a, d \in Slots : a # d =>
          /\ slot'[a].fd # 0 => slot'[a].fd # slot'[d].fd
          /\ slot'[a].http # 0 => slot'[a].http # slot'[d].http
    BY <1>1 DEF IInv, Clients
  <2>5. QED
    BY <2>1, <2>2, <2>3, <2>4 DEF Clients
<1>8. Speech'
  <2>1. ASSUME NEW z \in Servers
        PROVE  /\ server'[z].unread <= server'[z].said /\ server'[z].said <= Length
               /\ server'[z].state = "unused" => server'[z].said = 0
    <3>1. /\ server[z].unread <= server[z].said /\ server[z].said <= Length
          /\ server[z].state = "unused" => server[z].said = 0
      BY DEF IInv, Speech
    <3>2. CASE z # s
      BY <3>1, <3>2
    <3>3. CASE z = s /\ IsGone(s)
      BY <3>3, Sizes DEF IsGone
    <3>4. CASE z = s /\ ~IsGone(s)
      <4>1. server[s].said \in Nat /\ server[s].unread \in Nat /\ Len(q) \in Nat
        BY Facts, ServerFacts
      <4>2. QED
        BY <3>1, <3>4, <4>1
    <3>5. QED
      BY <3>2, <3>3, <3>4
  <2>2. QED
    BY <2>1 DEF IInv, Speech
<1>9. InOrder'
  <2> SUFFICES ASSUME NEW d \in Slots, slot'[d].fd # 0, slot'[d].cached # EMPTY,
                      user'[slot'[d].fd].state \in {"open", "still"},
                      slot'[d].fd \notin misled
               PROVE  /\ user'[slot'[d].fd].got = SubSeq(Entry(d)'.page, 1, slot'[d].sent)
                      /\ user'[slot'[d].fd].unread
                            \/ Entry(d)'.title \in {user'[slot'[d].fd].ask, NoTitle}
    BY DEF InOrder, Used
  <2>1. /\ slot[d].cached \in Entries /\ slot[d].sent \in Nat
        /\ slot[d].sent <= Len(cache[slot[d].cached].page)
    BY <1>1, Facts DEF IInv, Clients
  <2>2. Entry(d)'.title = Entry(d).title
        /\ SubSeq(Entry(d)'.page, 1, slot'[d].sent) = SubSeq(Entry(d).page, 1, slot[d].sent)
    BY <1>1, <1>3, <2>1 DEF Entry
  <2>3. /\ user[slot[d].fd].got = SubSeq(Entry(d).page, 1, slot[d].sent)
        /\ user[slot[d].fd].unread
              \/ Entry(d).title \in {user[slot[d].fd].ask, NoTitle}
    BY <1>1 DEF IInv, InOrder, Used
  <2>4. QED
    BY <1>1, <2>2, <2>3
<1>10. ASSUME ~astray
       PROVE  Owners /\ slot[c].cached \in Entries /\ slot[c].cached # EMPTY
  BY <1>0, <1>10, Facts DEF IInv, Owners
<1>11. ~astray' => Owners'
  <2> SUFFICES ASSUME ~astray PROVE Owners'
    OBVIOUS
  <2>1. cacheProperty'[EMPTY] = "DOWNLOADING"
    BY <1>10, Facts DEF Owners
  <2>2. ASSUME NEW d \in Slots, slot'[d].http # 0
        PROVE  /\ slot'[d].cached # EMPTY
               /\ cacheProperty'[slot'[d].cached] \in {"DOWNLOADING", "DOWNLOADED"}
               /\ cache'[slot'[d].cached].title \in Titles
               /\ slot'[d].ends = "WORKING"
               /\ slot'[d].cached \notin mixed' => Downloads(d)'
    <3>0. slot'[d].http = slot[d].http /\ slot[d].http # 0 /\ slot'[d].cached = slot[d].cached
      BY <1>1, <2>2
    <3>1. PICK e \in Entries : e = slot[d].cached /\ e # EMPTY
      BY <1>10, <3>0, Facts DEF Owners
    <3>2. /\ cacheProperty[e] \in {"DOWNLOADING", "DOWNLOADED"} /\ cache[e].title \in Titles
          /\ slot[d].ends = "WORKING" /\ (e \notin mixed => Downloads(d))
      BY <1>10, <3>0, <3>1 DEF Owners
    <3>3. cacheProperty'[e] \in {"DOWNLOADING", "DOWNLOADED"}
      BY <3>2, Facts
    <3>4. cache'[e].title = cache[e].title /\ slot'[d].ends = "WORKING"
      <4>1. d = c => slot'[c].http = s
        BY <1>0, <2>2
      <4>2. slot'[d].ends = "WORKING"
        BY <1>0, <3>2, <4>1
      <4>3. QED
        BY <1>3, <4>2
    <3>5. ASSUME e \notin mixed PROVE Downloads(d)'
      <4>0. /\ cacheProperty[e] = "DOWNLOADING" /\ cache[e].title = server[slot[d].http].title
            /\ Len(cache[e].page) = server[slot[d].http].said - server[slot[d].http].unread
        BY <3>1, <3>2, <3>5 DEF Downloads
      <4>1. CASE d = c
        <5>1. slot[c].http = s /\ slot'[c].http = s /\ e = slot[c].cached
          BY <1>0, <3>0, <3>1, <4>1
        <5>2. /\ server'[s].title = server[s].title /\ server'[s].said = server[s].said
              /\ server'[s].unread = server[s].unread - Len(q)
              /\ cacheProperty' = cacheProperty
          BY <1>0, <5>1
        <5>3. Len(cache'[e].page) = Len(cache[e].page) + Len(q)
          BY <1>3, <5>1
        <5>4. server[s].said \in Nat /\ server[s].unread \in Nat /\ Len(q) \in Nat
          BY Facts, ServerFacts
        <5>5. Len(cache'[e].page) = server'[s].said - server'[s].unread
          <6> HIDE DEF Loading
          <6>1. Len(cache[e].page) = server[s].said - server[s].unread
            BY <4>0, <4>1, <5>1
          <6>2. QED
            BY <5>2, <5>3, <5>4, <6>1
        <5> HIDE DEF Loading
        <5>6. QED
          BY <3>0, <3>1, <3>4, <4>0, <4>1, <5>1, <5>2, <5>5 DEF Downloads
      <4>2. CASE d # c
        <5>0. slot[c].http # 0
          BY <1>0
        <5>1. slot[c].cached # e
          <6> HIDE DEF Loading
          <6>1. slot[c].cached # slot[d].cached \/ slot[d].cached \in mixed
            BY <1>10, <3>0, <4>2, <5>0 DEF Owners
          <6>2. QED
            BY <3>1, <3>5, <6>1
        <5>2. slot[d].http \in Servers /\ slot[d].http # s
          BY <1>2, <3>0, <4>2, Facts
        <5>3. server'[slot[d].http] = server[slot[d].http]
              /\ cacheProperty'[e] = cacheProperty[e] /\ cache'[e].page = cache[e].page
          BY <1>3, <5>1, <5>2, Facts
        <5> HIDE DEF Loading
        <5>4. QED
          BY <3>0, <3>1, <3>4, <4>0, <5>3 DEF Downloads
      <4>3. QED
        BY <4>1, <4>2
    <3> HIDE DEF Loading
    <3>6. mixed' = mixed
      BY DEF Loading
    <3>7. QED
      BY <3>0, <3>1, <3>2, <3>3, <3>4, <3>5, <3>6
  <2>3. \A a, d \in Slots : a # d /\ slot'[a].http # 0 /\ slot'[d].http # 0 =>
            slot'[a].cached # slot'[d].cached \/ slot'[a].cached \in mixed'
    BY <1>1, <1>10 DEF Owners
  <2>4. QED
    BY <2>1, <2>2, <2>3 DEF Owners
<1>12. Counted'
  <2> SUFFICES ASSUME ~astray
               PROVE  /\ number' = Cardinality(Used') + refused'
                      /\ \A u \in Users : u \in fds' <=> \E d \in Slots : slot'[d].fd = u
                      /\ \A z \in Servers : z \in fds' <=> \E d \in Slots : slot'[d].http = z
                      /\ \A d \in Slots : slot'[d].fd = 0 => slot'[d].http = 0
    BY DEF Counted
  <2>1. /\ number = Cardinality(Used) + refused
        /\ \A u \in Users : u \in fds <=> \E d \in Slots : slot[d].fd = u
        /\ \A z \in Servers : z \in fds <=> \E d \in Slots : slot[d].http = z
        /\ \A d \in Slots : slot[d].fd = 0 => slot[d].http = 0
    BY DEF IInv, Counted
  <2>2. Used' = Used
    BY <1>1 DEF Used
  <2>3. \A u \in Users : u \in fds' <=> \E d \in Slots : slot'[d].fd = u
    BY <1>0, <1>1, <2>1
  <2>4. \A z \in Servers : z \in fds' <=> \E d \in Slots : slot'[d].http = z
    <3> SUFFICES ASSUME NEW z \in Servers
                 PROVE  z \in fds' <=> \E d \in Slots : slot'[d].http = z
      OBVIOUS
    <3>0. z # 0 /\ (z \in fds <=> \E d \in Slots : slot[d].http = z)
      BY <2>1, Numbers
    <3>1. CASE z # s
      <4>1. z \in fds' <=> z \in fds
        BY <3>1
      <4>2. \A d \in Slots : slot'[d].http = z <=> slot[d].http = z
        BY <1>1, <3>0, <3>1
      <4>3. QED
        BY <3>0, <4>1, <4>2
    <3>2. CASE z = s
      <4>1. (\E d \in Slots : slot'[d].http = z) <=> slot'[c].http = s
        BY <1>1, <1>2, <3>2
      <4>2. z \in fds' <=> slot'[c].http = s
        BY <1>0, <3>0, <3>2
      <4>3. QED
        BY <4>1, <4>2
    <3>3. QED
      BY <3>1, <3>2
  <2>5. \A d \in Slots : slot'[d].fd = 0 => slot'[d].http = 0
    BY <1>1, <2>1
  <2>6. QED
    BY <2>1, <2>2, <2>3, <2>4, <2>5
<1>13. PagesPure'
  <2> SUFFICES ASSUME ~astray, NEW n \in Entries \ mixed, cache'[n].title \in Titles
               PROVE  /\ Len(cache'[n].page) <= Length
                      /\ \A i \in DOMAIN cache'[n].page :
                            cache'[n].page[i] = <<cache'[n].title, i>>
    BY DEF PagesPure
  <2>1. CASE n = slot[c].cached
    BY <2>1, Purely
  <2>2. CASE n # slot[c].cached
    BY <1>3, <2>2 DEF IInv, PagesPure
  <2>3. QED
    BY <2>1, <2>2
<1>14. DownloadHasOwner'
  <2>1. \A z \in Titles : With(z)' = With(z)
    <3>1. \A z \in Titles : With(z) \subseteq Entries
      BY InCache
    <3>2. cacheSize' = cacheSize /\ 0..cacheSize - 1 \subseteq Entries
      <4>1. cacheSize \in Nat /\ cacheSize <= CacheSize
        BY Sizes DEF IInv, Allocated
      <4>2. QED
        BY <4>1, Sizes DEF Entries
    <3>3. \A n \in Entries : cache'[n].title = cache[n].title
      BY <1>3
    <3> HIDE DEF Loading
    <3>4. QED
      BY <3>2, <3>3 DEF With
  <2> SUFFICES ASSUME ~astray, NEW z \in Titles, NEW n \in With(z)
               PROVE  \/ cacheProperty'[n] = "DOWNLOADED"
                      \/ cacheProperty'[n] = "CLEAN" /\ at' # 0
                      \/ /\ cacheProperty'[n] = "DOWNLOADING"
                         /\ \E d \in Slots : slot'[d].http # 0 /\ slot'[d].cached = n
    BY <2>1 DEF DownloadHasOwner
  <2>2. n \in Entries
    BY InCache
  <2>3. \/ cacheProperty[n] = "DOWNLOADED"
        \/ cacheProperty[n] = "CLEAN" /\ at # 0
        \/ /\ cacheProperty[n] = "DOWNLOADING"
           /\ \E d \in Slots : slot[d].http # 0 /\ slot[d].cached = n
    BY DEF IInv, DownloadHasOwner
  <2>4. CASE cacheProperty' = cacheProperty /\ slot'[c].http = s
    <3>1. \A d \in Slots : slot'[d].http = slot[d].http
      BY <1>1, <2>4
    <3>2. QED
      BY <1>0, <1>1, <2>3, <2>4, <3>1
  <2>5. CASE cacheProperty' = [cacheProperty EXCEPT ![slot[c].cached] = "DOWNLOADED"]
    <3>1. CASE n = slot[c].cached
      BY <2>2, <2>5, <3>1, Facts
    <3>2. CASE n # slot[c].cached
      <4>1. cacheProperty'[n] = cacheProperty[n]
        BY <2>2, <2>5, <3>2, Facts
      <4>2. \A d \in Slots : slot[d].http # 0 /\ slot[d].cached = n =>
                slot'[d].http # 0 /\ slot'[d].cached = n
        BY <1>1, <3>2
      <4>3. QED
        BY <1>0, <2>3, <4>1, <4>2
    <3>3. QED
      BY <3>1, <3>2
  <2>6. QED
    BY <2>4, <2>5
<1>15. QED
  BY <1>4, <1>5, <1>6, <1>7, <1>8, <1>9, <1>11, <1>12, <1>13, <1>14 DEF IInv
\* What becomes of a client whose page ends.
Ending(c, s) ==
    /\ stage' = "send" /\ at' = at /\ slot' \in [Slots -> SlotRec]
    /\ slot'[c].fd = slot[c].fd /\ slot'[c].cached = slot[c].cached
    /\ slot'[c].sent = slot[c].sent /\ slot'[c].http = 0
    /\ \A d \in Slots : d # c => slot'[d] = slot[d]
    /\ server' \in [Servers -> ServerRec] /\ \A z \in Servers : z # s => server'[z] = server[z]
    /\ IsGone(s) /\ fds' = fds \ {s}
    /\ cacheProperty' \in [Entries \union {EMPTY} ->
                             {"EMPTY", "DOWNLOADING", "DOWNLOADED", "CLEAN"}]
    /\ cacheProperty' = [cacheProperty EXCEPT ![slot[c].cached] = "DOWNLOADED"]

LEMMA Ends ==
    ASSUME IInv, NEW c \in Slots, NEW s \in Servers, s = slot[c].http, EndsInput(c)
    PROVE  Ending(c, s)
<1>0. /\ slot' = [slot EXCEPT ![c].http = 0, ![c].ends = "END_SOCKET_INPUT"]
      /\ stage' = "send" /\ at' = at /\ fds' = fds \ {s} /\ server' = Forgotten(s)
      /\ cacheProperty' = [cacheProperty EXCEPT ![slot[c].cached] = "DOWNLOADED"]
  BY DEF EndsInput, Sends, Downloaded
<1> DEFINE r == [slot[c] EXCEPT !.http = 0, !.ends = "END_SOCKET_INPUT"]
<1>1. slot[c] \in SlotRec
  BY Facts
<1>2. /\ r \in SlotRec /\ r.fd = slot[c].fd /\ r.cached = slot[c].cached
      /\ r.sent = slot[c].sent /\ r.http = 0
  BY <1>1 DEF SlotRec
<1>3. slot' = [slot EXCEPT ![c] = r]
  BY <1>0
<1> HIDE DEF r
<1>4. slot' \in [Slots -> SlotRec] /\ slot'[c] = r
      /\ \A d \in Slots : d # c => slot'[d] = slot[d]
  BY <1>2, <1>3, Becomes
<1>5. /\ server' \in [Servers -> ServerRec] /\ \A z \in Servers : z # s => server'[z] = server[z]
      /\ IsGone(s)
  <2>1. PICK sv \in [Servers -> ServerRec] : sv = server
    BY Facts
  <2>2. s # 0 /\ s \in {0} \union Servers
    BY Numbers
  <2>3. QED
    BY <1>0, <2>1, <2>2, Forgetting DEF IsGone
<1>6. cacheProperty' \in [Entries \union {EMPTY} ->
                             {"EMPTY", "DOWNLOADING", "DOWNLOADED", "CLEAN"}]
  BY <1>0, Facts
<1>7. QED
  BY <1>0, <1>2, <1>4, <1>5, <1>6 DEF Ending

LEMMA ServerHangsUpSteps == ASSUME IInv, NEW c \in Slots, ServerHangsUp(c) PROVE IInv'
<1>1. /\ at = c /\ slot[c].http # 0 /\ EndsInput(c) /\ cache' = cache
      /\ UNCHANGED <<cacheIndex, cacheSize, number, refused, astray, mixed, misled, user>>
  BY DEF ServerHangsUp, Load, ServerIs, histVars, readVars
<1>2. PICK s \in Servers : s = slot[c].http
  BY <1>1, Facts
<1>3. Ending(c, s)
  BY <1>1, <1>2, Ends
<1>4. PICK q : q = <<>> /\ q \in Seq(Token)
  BY Nothing
<1>5. \A p \in Seq(Token) : p \o q = p
  BY <1>4, ConcatEmptySeq
<1>6. \A n \in Entries : cache[n].page \in Seq(Token) /\ cache[n].page \o q = cache[n].page
  BY <1>5, Facts, EntryFacts
<1>7. PageGrows(slot[c].cached, q)
  BY <1>1, <1>6 DEF PageGrows
<1>8. ~astray /\ slot[c].cached \notin mixed => GrowsPurely(slot[c].cached, q)
  <2> SUFFICES ASSUME ~astray, slot[c].cached \notin mixed
               PROVE  GrowsPurely(slot[c].cached, q)
    OBVIOUS
  <2>1. PICK e \in Entries : e = slot[c].cached /\ cache[e].title \in Titles
    BY <1>1, Facts DEF IInv, Owners
  <2>2. Len(cache[e].page) <= Length /\ DOMAIN cache[e].page = 1..Len(cache[e].page)
        /\ \A i \in DOMAIN cache[e].page : cache[e].page[i] = <<cache[e].title, i>>
    BY <2>1, Facts, EntryFacts DEF IInv, PagesPure
  <2>3. QED
    BY <1>6, <2>1, <2>2 DEF GrowsPurely
<1>9. Loading(c, s, q)
  BY <1>1, <1>2, <1>3, <1>4, <1>7, <1>8, Facts DEF Loading, Ending
<1>10. QED
  BY <1>9, LoadingSteps

\* What is read of a response.
LEMMA Chunks ==
    ASSUME IInv, NEW c \in Slots, NEW s \in Servers, s = slot[c].http, slot[c].cached \in Entries,
           NEW q, q = Chunk(c)
    PROVE  /\ q \in Seq(Token) /\ Len(q) = Taken(c) /\ Len(q) <= server[s].unread
           /\ ~astray /\ slot[c].cached \notin mixed => GrowsPurely(slot[c].cached, q)
<1>1. PICK b \in ServerRec : b = server[s]
  BY Facts
<1>2. PICK a, n \in Nat : a = b.said /\ n = b.unread /\ n <= a /\ a <= Length
  BY <1>1, ServerFacts DEF IInv, Speech
<1>3. PICK m \in Nat : m = Taken(c) /\ m <= n
  <2>1. {BufferSize, n} \in SUBSET Nat
    BY Sizes
  <2>2. Min({BufferSize, n}) \in {BufferSize, n} /\ Min({BufferSize, n}) <= n
    BY <2>1, Least
  <2>3. Taken(c) = Min({BufferSize, n})
    BY <1>1, <1>2 DEF Taken
  <2>4. QED
    BY <2>1, <2>2, <2>3
<1>4. PICK T \in Titles \union {NoTitle} : T = b.title
  BY <1>1, ServerFacts
<1>5. PICK L \in Nat : L = a - n
  BY <1>2
<1>6. q = [i \in 1..m |-> <<T, L + i>>]
  BY <1>1, <1>2, <1>3, <1>4, <1>5 DEF Chunk
<1>7. q \in Seq(Token) /\ Len(q) = m
  <2>1. \A i \in 1..m : <<T, L + i>> \in Token
    BY DEF Token
  <2>2. [i \in 1..m |-> <<T, L + i>>] \in [1..m -> Token]
    BY <2>1
  <2>3. q \in [1..m -> Token]
    BY <1>6, <2>2, Zenon
  <2>4. QED
    BY <2>3
<1>8. ASSUME ~astray, slot[c].cached \notin mixed PROVE GrowsPurely(slot[c].cached, q)
  <2>1. PICK e \in Entries : e = slot[c].cached
    OBVIOUS
  <2>2. cache[e].title = T /\ cache[e].title \in Titles /\ Len(cache[e].page) = L
    <3>1. slot[c].http # 0
      BY Numbers
    <3>2. QED
      BY <1>1, <1>2, <1>4, <1>5, <1>8, <2>1, <3>1 DEF IInv, Owners, Downloads
  <2>3. PICK g \in Seq(Token) : g = cache[e].page
    BY Facts, EntryFacts
  <2>4. DOMAIN g = 1..L /\ Len(g) = L
    BY <2>2, <2>3
  <2>5. /\ g \o q \in Seq(Token) /\ Len(g \o q) = Len(g) + Len(q)
        /\ \A i \in 1..Len(g) + Len(q) : (g \o q)[i] = IF i <= Len(g) THEN g[i] ELSE q[i - Len(g)]
    BY <1>7, ConcatProperties
  <2>6. PICK p : p = g \o q
    OBVIOUS
  <2>7. Len(p) = L + m /\ \A i \in 1..L + m : p[i] = IF i <= L THEN g[i] ELSE q[i - L]
    BY <1>7, <2>4, <2>5, <2>6
  <2>8. ASSUME NEW i \in 1..L + m PROVE p[i] = <<T, i>>
    <3>1. CASE i <= L
      <4>1. i \in DOMAIN g
        BY <2>4, <3>1
      <4>2. g[i] = <<T, i>>
        BY <1>8, <2>1, <2>2, <2>3, <4>1 DEF IInv, PagesPure
      <4>3. QED
        BY <2>7, <3>1, <4>2
    <3>2. CASE ~(i <= L)
      <4>1. PICK j \in 1..m : j = i - L /\ i = L + j
        <5>1. i - L \in 1..m /\ i = L + (i - L)
          BY <3>2
        <5>2. QED
          BY <5>1
      <4>2. p[i] = q[j]
        BY <2>7, <3>2, <4>1
      <4>3. q[j] = <<T, L + j>>
        BY <1>6
      <4>4. QED
        BY <4>1, <4>2, <4>3
    <3>3. QED
      BY <3>1, <3>2
  <2>9. L + m <= Length
    BY <1>2, <1>3, <1>5, Sizes
  <2>10. Len(p) <= Length /\ \A i \in 1..Len(p) : p[i] = <<cache[e].title, i>>
    <3>1. Len(p) = L + m
      BY <2>7
    <3>2. QED
      BY <2>2, <2>8, <2>9, <3>1
  <2>11. p = cache[slot[c].cached].page \o q
    BY <2>1, <2>3, <2>6
  <2>12. \A i \in 1..Len(p) : p[i] = <<cache[slot[c].cached].title, i>>
    BY <2>1, <2>10
  <2>13. QED
    BY <2>10, <2>11, <2>12, ZenonT(30) DEF GrowsPurely
<1>9. QED
  BY <1>1, <1>2, <1>3, <1>7, <1>8

LEMMA LoadsPageSteps == ASSUME IInv, NEW c \in Slots, LoadsPage(c) PROVE IInv'
<1>1. /\ at = c /\ slot[c].http # 0 /\ slot[c].cached # EMPTY
      /\ cache' = [cache EXCEPT ![slot[c].cached].page = Grown(c)]
      /\ UNCHANGED <<cacheIndex, cacheSize, number, refused, astray, mixed, misled, user>>
  BY DEF LoadsPage, Load, CanLoad, ServerIs, histVars, readVars
<1>2. PICK s \in Servers : s = slot[c].http
  BY <1>1, Facts
<1>3. PICK e \in Entries : e = slot[c].cached
  BY <1>1, Facts
<1>4. PICK q : q = Chunk(c)
  OBVIOUS
<1>5. /\ q \in Seq(Token) /\ Len(q) = Taken(c) /\ Len(q) <= server[s].unread
      /\ ~astray /\ slot[c].cached \notin mixed => GrowsPurely(slot[c].cached, q)
  BY <1>2, <1>3, <1>4, Chunks
<1>6. cache' \in [Entries -> EntryRec] /\ PageGrows(slot[c].cached, q)
  <2>1. PICK o \in EntryRec : o = cache[e]
    BY Facts
  <2>2. PICK p \in Seq(Token) : p = o.page \o q
    BY <1>5, EntryFacts, ConcatProperties
  <2> DEFINE w == [o EXCEPT !.page = p]
  <2>3. w \in EntryRec /\ w.title = o.title /\ w.page = p
    BY DEF EntryRec
  <2>4. cache' = [cache EXCEPT ![e] = w]
    BY <1>1, <1>3, <1>4, <2>1, <2>2 DEF Grown
  <2> HIDE DEF w
  <2>5. cache' \in [Entries -> EntryRec] /\ cache'[e] = w
        /\ \A n \in Entries : n # e => cache'[n] = cache[n]
    BY <2>3, <2>4, Facts
  <2>6. QED
    BY <1>3, <2>1, <2>2, <2>3, <2>5 DEF PageGrows
<1>7. CASE EndsPage(c)
  <2>1. Ending(c, s)
    BY <1>2, <1>7, Ends DEF LoadsPage
  <2>2. Loading(c, s, q)
    BY <1>1, <1>2, <1>5, <1>6, <2>1 DEF Loading, Ending
  <2>3. QED
    BY <2>2, LoadingSteps
<1>8. CASE ~EndsPage(c)
  <2>1. /\ slot' = [slot EXCEPT ![c].ends = "WORKING"] /\ stage' = "send" /\ at' = at
        /\ server' = [server EXCEPT ![s].unread = @ - Taken(c)]
        /\ fds' = fds /\ cacheProperty' = cacheProperty
    BY <1>2, <1>8 DEF LoadsPage, Sends
  <2>2. /\ slot' \in [Slots -> SlotRec] /\ \A d \in Slots : d # c => slot'[d] = slot[d]
        /\ slot'[c].fd = slot[c].fd /\ slot'[c].cached = slot[c].cached
        /\ slot'[c].sent = slot[c].sent /\ slot'[c].http = slot[c].http
        /\ slot'[c].ends = "WORKING"
    <3> DEFINE r == [slot[c] EXCEPT !.ends = "WORKING"]
    <3>1. slot[c] \in SlotRec
      BY Facts
    <3>2. /\ r \in SlotRec /\ r.fd = slot[c].fd /\ r.cached = slot[c].cached
          /\ r.sent = slot[c].sent /\ r.http = slot[c].http /\ r.ends = "WORKING"
      BY <3>1 DEF SlotRec
    <3>3. slot' = [slot EXCEPT ![c] = r]
      BY <2>1
    <3> HIDE DEF r
    <3>4. slot' \in [Slots -> SlotRec] /\ slot'[c] = r
          /\ \A d \in Slots : d # c => slot'[d] = slot[d]
      BY <3>2, <3>3, Becomes
    <3>5. QED
      BY <3>2, <3>4
  <2>3. /\ server' \in [Servers -> ServerRec]
        /\ \A z \in Servers : z # s => server'[z] = server[z]
        /\ server'[s].state = server[s].state /\ server'[s].title = server[s].title
        /\ server'[s].said = server[s].said
        /\ server'[s].unread = server[s].unread - Len(q)
    <3>1. PICK b \in ServerRec : b = server[s]
      BY Facts
    <3>2. PICK u \in Nat : u = b.unread - Len(q)
      BY <1>5, <3>1, ServerFacts
    <3> DEFINE w == [b EXCEPT !.unread = u]
    <3>3. /\ w \in ServerRec /\ w.state = b.state /\ w.title = b.title /\ w.said = b.said
          /\ w.unread = u
      BY DEF ServerRec
    <3>4. server' = [server EXCEPT ![s] = w]
      BY <1>5, <2>1, <3>1, <3>2
    <3> HIDE DEF w
    <3>5. server' \in [Servers -> ServerRec] /\ server'[s] = w
          /\ \A z \in Servers : z # s => server'[z] = server[z]
      BY <3>3, <3>4, Facts
    <3>6. QED
      BY <3>1, <3>2, <3>3, <3>5
  <2>4. Loading(c, s, q)
    BY <1>1, <1>2, <1>5, <1>6, <2>1, <2>2, <2>3, Facts DEF Loading
  <2>5. QED
    BY <2>4, LoadingSteps
<1>9. QED
  BY <1>7, <1>8
\* What one write is given.
LEMMA Offers ==
    ASSUME IInv, NEW c \in Slots, Offered(c) # <<>>
    PROVE  /\ slot[c].cached \in Entries
           /\ \E n \in Nat :
                /\ slot[c].sent \in Nat /\ n <= Len(Entry(c).page)
                /\ Len(Offered(c)) \in Nat /\ slot[c].sent + Len(Offered(c)) = n
                /\ SubSeq(Entry(c).page, 1, slot[c].sent) \o Offered(c)
                      = SubSeq(Entry(c).page, 1, n)
                /\ SubSeq(Entry(c).page, 1, n) \in Seq(Token) /\ Offered(c) \in Seq(Token)
<1>1. slot[c].cached # EMPTY
  BY DEF Offered
<1>2. PICK e \in Entries : e = slot[c].cached
  BY <1>1, Facts
<1>3. PICK p \in Seq(Token) : p = Entry(c).page
  BY <1>2, Facts, EntryFacts DEF Entry
<1>4. PICK x \in Nat : x = slot[c].sent /\ x <= Len(p)
  <2>1. PICK x \in Nat : x = slot[c].sent
    BY <1>1 DEF IInv, Clients
  <2>2. PICK n \in Nat : n = Min({x + BufferSize, Len(p)}) /\ n <= Len(p)
    <3>1. {x + BufferSize, Len(p)} \in SUBSET Nat
      BY Sizes
    <3>2. QED
      BY <3>1, Least
  <2>3. Offered(c) = SubSeq(p, x + 1, n)
    BY <1>1, <1>3, <2>1, <2>2 DEF Offered
  <2>4. n < x + 1 => SubSeq(p, x + 1, n) = <<>>
    BY SubSeqEmpty
  <2>5. x <= Len(p)
    BY <2>2, <2>3, <2>4
  <2>6. QED
    BY <2>1, <2>5
<1>5. PICK n \in Nat : n = Min({x + BufferSize, Len(p)}) /\ x <= n /\ n <= Len(p)
  <2>1. {x + BufferSize, Len(p)} \in SUBSET Nat
    BY Sizes
  <2>2. Min({x + BufferSize, Len(p)}) \in {x + BufferSize, Len(p)}
        /\ Min({x + BufferSize, Len(p)}) <= Len(p)
    BY <2>1, Least
  <2>3. QED
    BY <1>4, <2>1, <2>2, Sizes
<1>6. Offered(c) = SubSeq(p, x + 1, n)
  BY <1>3, <1>4, <1>5 DEF Offered
<1>7. 1 \in 1..Len(p) + 1 /\ x \in (1 - 1)..Len(p) /\ n \in x..Len(p) /\ Len(p) \in Nat
  BY <1>4, <1>5
<1>8. SubSeq(p, 1, x) \o SubSeq(p, x + 1, n) = SubSeq(p, 1, n)
  BY <1>7, ConcatAdjacentSubSeq
<1>9. SubSeq(p, 1, n) \in Seq(Token)
  <2>1. 1 \in 1..Len(p) + 1 /\ n \in (1 - 1)..Len(p)
    BY <1>5, <1>7
  <2>2. QED
    BY <2>1, SubSeqProperties
<1>10. Len(SubSeq(p, x + 1, n)) = n - x /\ SubSeq(p, x + 1, n) \in Seq(Token)
  <2>1. x + 1 \in 1..Len(p) + 1 /\ n \in (x + 1 - 1)..Len(p)
    BY <1>4, <1>5, <1>7
  <2>2. QED
    BY <2>1, SubSeqProperties
<1>11. Len(Offered(c)) = n - x /\ Offered(c) \in Seq(Token)
  BY <1>6, <1>10
<1>12. /\ slot[c].sent \in Nat /\ n <= Len(Entry(c).page)
       /\ Len(Offered(c)) \in Nat /\ slot[c].sent + Len(Offered(c)) = n
       /\ SubSeq(Entry(c).page, 1, n) \in Seq(Token) /\ Offered(c) \in Seq(Token)
  <2>1. n - x \in Nat /\ x + (n - x) = n
    BY <1>5
  <2>2. Len(Offered(c)) \in Nat /\ slot[c].sent + Len(Offered(c)) = n
    BY <1>4, <1>11, <2>1
  <2>3. n <= Len(Entry(c).page) /\ SubSeq(Entry(c).page, 1, n) \in Seq(Token)
    BY <1>3, <1>5, <1>9
  <2>4. QED
    BY <1>4, <1>11, <2>2, <2>3
<1>13. SubSeq(Entry(c).page, 1, slot[c].sent) \o Offered(c) = SubSeq(Entry(c).page, 1, n)
  BY <1>3, <1>4, <1>6, <1>8
<1>14. QED
  BY <1>2, <1>12, <1>13

LEMMA SendsPageSteps == ASSUME IInv, NEW c \in Slots, SendsPage(c) PROVE IInv'
<1>1. /\ at = c /\ Offered(c) # <<>> /\ user[slot[c].fd].state \in {"open", "shut"}
      /\ Goes([slot EXCEPT ![c].sent = @ + Len(Offered(c))], c)
      /\ user' = IF user[slot[c].fd].state = "open"
                    THEN [user EXCEPT ![slot[c].fd].got = @ \o Offered(c)] ELSE user
      /\ UNCHANGED <<number, cache, cacheProperty, cacheIndex, cacheSize, fds, server,
                     refused, astray, mixed, misled>>
  BY DEF SendsPage, Send, cacheVars, histVars, readVars
<1>2. PICK e \in Entries : e = slot[c].cached
  BY <1>1, Offers
<1>3. PICK n \in Nat :
         /\ slot[c].sent \in Nat /\ n <= Len(Entry(c).page)
         /\ Len(Offered(c)) \in Nat /\ slot[c].sent + Len(Offered(c)) = n
         /\ SubSeq(Entry(c).page, 1, slot[c].sent) \o Offered(c) = SubSeq(Entry(c).page, 1, n)
         /\ SubSeq(Entry(c).page, 1, n) \in Seq(Token) /\ Offered(c) \in Seq(Token)
  BY <1>1, Offers
<1>4. PICK u \in Users : u = slot[c].fd
  BY <1>1, Visited
<1>5. PICK g \in Seq(Token) : g = SubSeq(Entry(c).page, 1, n)
  BY <1>3
<1>6. /\ Visiting' /\ stage' = "user" /\ at' \in 0..Cleaning /\ at' # 0
      /\ slot' \in [Slots -> SlotRec] /\ slot'[c].fd = u /\ slot'[c].http = slot[c].http
      /\ slot'[c].cached = e /\ slot'[c].sent = n /\ slot'[c].ends = slot[c].ends
      /\ \A d \in Slots : d # c => slot'[d] = slot[d]
  <2> DEFINE r == [slot[c] EXCEPT !.sent = n]
  <2>1. slot[c] \in SlotRec /\ c \in 0..MaxClients
    BY Facts, Numbers
  <2>2. /\ r \in SlotRec /\ r.fd = slot[c].fd /\ r.http = slot[c].http
        /\ r.cached = slot[c].cached /\ r.sent = n /\ r.ends = slot[c].ends
    BY <2>1 DEF SlotRec
  <2>3. PICK sl : sl = [slot EXCEPT ![c] = r]
    OBVIOUS
  <2>4. Goes(sl, c)
    BY <1>1, <1>3, <2>3
  <2> HIDE DEF r
  <2>5. sl \in [Slots -> SlotRec]
    BY <2>2, <2>3, Facts
  <2>6. /\ slot' = sl /\ stage' = "user" /\ at' \in 0..Cleaning /\ at' # 0 /\ Visiting'
    BY <2>1, <2>4, <2>5, GoesOn
  <2>7. slot' = [slot EXCEPT ![c] = r]
    BY <2>3, <2>6
  <2>8. slot' \in [Slots -> SlotRec] /\ slot'[c] = r
        /\ \A d \in Slots : d # c => slot'[d] = slot[d]
    BY <2>2, <2>7, Becomes
  <2>9. QED
    BY <1>2, <1>4, <2>2, <2>6, <2>8
<1>7. /\ user' \in [Users -> UserRec] /\ \A v \in Users : v # u => user'[v] = user[v]
      /\ user'[u].state = user[u].state /\ user'[u].ask = user[u].ask
      /\ user'[u].unread = user[u].unread
      /\ user'[u].state \in {"open", "still"} /\ u \notin misled => user'[u].got = g
  <2>1. CASE user[u].state = "open"
    <3>1. PICK o \in UserRec : o = user[u]
      BY Facts
    <3>2. u \notin misled => o.got = SubSeq(Entry(c).page, 1, slot[c].sent)
      BY <1>2, <1>4, <2>1, <3>1, Numbers DEF IInv, InOrder, Used
    <3>3. PICK h \in Seq(Token) : h = o.got \o Offered(c) /\ (u \notin misled => h = g)
      <4>1. o.got \o Offered(c) \in Seq(Token)
        BY <1>3, <3>1, UserFacts, ConcatProperties
      <4>2. QED
        BY <1>3, <1>5, <3>2, <4>1
    <3> DEFINE w == [o EXCEPT !.got = h]
    <3>4. /\ w \in UserRec /\ w.state = o.state /\ w.ask = o.ask /\ w.unread = o.unread
          /\ w.got = h
      BY DEF UserRec
    <3>5. user' = [user EXCEPT ![u] = w]
      BY <1>1, <1>4, <2>1, <3>1, <3>3
    <3> HIDE DEF w
    <3>6. /\ user' \in [Users -> UserRec] /\ user'[u] = w
          /\ \A v \in Users : v # u => user'[v] = user[v]
      BY <3>4, <3>5, Facts
    <3>7. QED
      BY <3>1, <3>3, <3>4, <3>6
  <2>2. CASE user[u].state # "open"
    BY <1>1, <1>4, <2>2, Facts
  <2>3. QED
    BY <2>1, <2>2
<1>8. \A d \in Slots : /\ slot'[d].fd = slot[d].fd /\ slot'[d].http = slot[d].http
                       /\ slot'[d].cached = slot[d].cached /\ slot'[d].ends = slot[d].ends
  BY <1>2, <1>4, <1>6
<1>9. \A v \in Users : /\ user'[v].state = user[v].state /\ user'[v].ask = user[v].ask
                       /\ user'[v].unread = user[v].unread
  BY <1>7
<1>10. /\ cache' = cache /\ cacheProperty' = cacheProperty /\ cacheIndex' = cacheIndex
       /\ cacheSize' = cacheSize /\ fds' = fds /\ server' = server /\ number' = number
       /\ refused' = refused /\ astray' = astray /\ mixed' = mixed /\ misled' = misled
  BY <1>1
<1>11. Typed'
  BY <1>6, <1>7, <1>10 DEF IInv, Typed
<1>12. Allocated'
  BY <1>10 DEF IInv, Allocated
<1>13. Clients'
  <2>1. \A d \in Slots :
          /\ slot'[d].fd = 0 => slot'[d].cached = EMPTY
          /\ slot'[d].fd # 0 => slot'[d].fd \in fds' /\ user'[slot'[d].fd].state # "away"
          /\ slot'[d].http # 0 => server'[slot'[d].http].state \in {"open", "reset"}
    BY <1>8, <1>9, <1>10, Facts DEF IInv, Clients
  <2>2. \A d \in Slots : slot'[d].cached # EMPTY =>
          /\ slot'[d].sent \in Nat
          /\ slot'[d].fd \notin misled' =>
                slot'[d].sent <= Len(cache'[slot'[d].cached].page)
    <3>1. n <= Len(cache[e].page)
      BY <1>2, <1>3 DEF Entry
    <3>2. QED
      BY <1>6, <1>10, <3>1 DEF IInv, Clients
  <2>3. \A a, d \in Slots : a # d =>
          /\ slot'[a].fd # 0 => slot'[a].fd # slot'[d].fd
          /\ slot'[a].http # 0 => slot'[a].http # slot'[d].http
    BY <1>8 DEF IInv, Clients
  <2>4. QED
    BY <2>1, <2>2, <2>3 DEF Clients
<1>14. Speech'
  BY <1>9, <1>10 DEF IInv, Speech
<1>15. InOrder'
  <2> SUFFICES ASSUME NEW d \in Slots, slot'[d].fd # 0, slot'[d].cached # EMPTY,
                      user'[slot'[d].fd].state \in {"open", "still"},
                      slot'[d].fd \notin misled
               PROVE  /\ user'[slot'[d].fd].got = SubSeq(Entry(d)'.page, 1, slot'[d].sent)
                      /\ user'[slot'[d].fd].unread
                            \/ Entry(d)'.title \in {user'[slot'[d].fd].ask, NoTitle}
    BY <1>10 DEF InOrder, Used
  <2>0. Entry(d)' = Entry(d)
    BY <1>8, <1>10 DEF Entry
  <2>1. PICK v \in Users : v = slot[d].fd /\ v = slot'[d].fd
    BY <1>8, Facts
  <2>2. user[v].unread \/ Entry(d).title \in {user[v].ask, NoTitle}
    BY <1>8, <1>9, <2>1 DEF IInv, InOrder, Used
  <2>3. user'[v].got = SubSeq(Entry(d).page, 1, slot'[d].sent)
    <3>1. CASE d = c
      BY <1>4, <1>5, <1>6, <1>7, <2>1, <3>1
    <3>2. CASE d # c
      <4>1. v # u
        BY <1>4, <2>1, <3>2, Numbers DEF IInv, Clients
      <4>2. user'[v] = user[v] /\ slot'[d] = slot[d]
        BY <1>6, <1>7, <3>2, <4>1
      <4>3. QED
        BY <2>1, <4>2 DEF IInv, InOrder, Used
    <3>3. QED
      BY <3>1, <3>2
  <2>4. QED
    BY <1>9, <2>0, <2>1, <2>2, <2>3
<1>16. ~astray' => Owners'
  BY <1>8, <1>10 DEF IInv, Owners, Downloads
<1>17. Counted'
  <2>1. Used' = Used
    BY <1>8 DEF Used
  <2>2. QED
    BY <1>8, <1>10, <2>1 DEF IInv, Counted
<1>18. PagesPure'
  BY <1>10 DEF IInv, PagesPure
<1>19. DownloadHasOwner'
  <2>1. \A z \in Titles : With(z)' = With(z)
    BY <1>10 DEF With
  <2>2. QED
    BY <1>6, <1>8, <1>10, <2>1 DEF IInv, DownloadHasOwner
<1>20. QED
  BY <1>11, <1>12, <1>6, <1>13, <1>14, <1>15, <1>16, <1>17, <1>18, <1>19 DEF IInv
-----------------------------------------------------------------------------
(* Entries that are freed. *)

LEMMA CleansSteps == ASSUME IInv, Cleans PROVE IInv'
<1> DEFINE C == {e \in Entries : cacheProperty[e] = "CLEAN"}
<1>1. /\ at = Cleaning /\ at' = 0
      /\ cache' = [e \in Entries |-> IF e \in C THEN [cache[e] EXCEPT !.title = NoTitle]
                                                ELSE cache[e]]
      /\ cacheProperty' = [e \in Entries \union {EMPTY} |->
                             IF e \in C THEN "EMPTY" ELSE cacheProperty[e]]
      /\ slot' = slot /\ number' = number /\ cacheIndex' = cacheIndex /\ fds' = fds
      /\ cacheSize' = cacheSize /\ stage' = stage /\ user' = user /\ server' = server
      /\ refused' = refused /\ astray' = astray /\ mixed' = mixed /\ misled' = misled
  BY DEF Cleans, peerVars, histVars, readVars
<1>2. /\ cacheProperty' \in [Entries \union {EMPTY} ->
                             {"EMPTY", "DOWNLOADING", "DOWNLOADED", "CLEAN"}]
      /\ \A e \in Entries : e \in C => cacheProperty'[e] = "EMPTY"
      /\ \A e \in Entries : e \notin C =>
            cacheProperty'[e] = cacheProperty[e] /\ cacheProperty[e] # "CLEAN"
      /\ cacheProperty'[EMPTY] = cacheProperty[EMPTY]
  BY <1>1, Facts, Sizes
<1>3. /\ cache' \in [Entries -> EntryRec]
      /\ \A e \in Entries : /\ cache'[e].page = cache[e].page
                            /\ e \in C => cache'[e].title = NoTitle
                            /\ e \notin C => cache'[e] = cache[e]
  <2>1. ASSUME NEW e \in Entries
        PROVE  /\ cache'[e] \in EntryRec /\ cache'[e].page = cache[e].page
               /\ e \in C => cache'[e].title = NoTitle
               /\ e \notin C => cache'[e] = cache[e]
    <3>1. cache[e] \in EntryRec
      BY Facts
    <3>2. CASE e \in C
      <4>1. cache'[e] = [cache[e] EXCEPT !.title = NoTitle]
        BY <1>1, <3>2
      <4> HIDE DEF C
      <4>2. QED
        BY <3>1, <3>2, <4>1 DEF EntryRec
    <3>3. CASE e \notin C
      <4>1. cache'[e] = cache[e]
        BY <1>1, <3>3
      <4>2. QED
        BY <3>1, <3>3, <4>1
    <3>4. QED
      BY <3>2, <3>3
  <2> HIDE DEF C
  <2>2. QED
    BY <1>1, <2>1
<1>4. \A e \in C : cacheProperty[e] = "CLEAN" /\ e \in Entries
  OBVIOUS
<1>5. at' \in 0..Cleaning /\ stage = "user"
  BY <1>1, Sizes, Numbers DEF IInv, Visiting
<1> HIDE DEF C
<1>6. Typed'
  BY <1>1, <1>2, <1>3, <1>5 DEF IInv, Typed
<1>7. Allocated'
  BY <1>1, <1>3, Sizes DEF IInv, Allocated
<1>8. Visiting'
  BY <1>1, <1>5, Numbers DEF Visiting
<1>9. Clients'
  BY <1>1, <1>3, Facts DEF IInv, Clients
<1>10. Speech'
  BY <1>1 DEF IInv, Speech
<1>11. InOrder'
  <2> SUFFICES ASSUME NEW d \in Slots, slot[d].fd # 0, slot[d].cached # EMPTY,
                      user[slot[d].fd].state \in {"open", "still"}, slot[d].fd \notin misled
               PROVE  /\ user[slot[d].fd].got = SubSeq(Entry(d)'.page, 1, slot[d].sent)
                      /\ user[slot[d].fd].unread
                            \/ Entry(d)'.title \in {user[slot[d].fd].ask, NoTitle}
    BY <1>1 DEF InOrder, Used
  <2>1. PICK e \in Entries : e = slot[d].cached
    BY Facts
  <2>2. Entry(d)' = cache'[e] /\ Entry(d) = cache[e]
    BY <1>1, <2>1 DEF Entry
  <2>3. /\ user[slot[d].fd].got = SubSeq(cache[e].page, 1, slot[d].sent)
        /\ user[slot[d].fd].unread \/ cache[e].title \in {user[slot[d].fd].ask, NoTitle}
    BY <2>2 DEF IInv, InOrder, Used
  <2>4. cache'[e].page = cache[e].page /\ cache'[e].title \in {cache[e].title, NoTitle}
    BY <1>3
  <2>5. QED
    BY <2>2, <2>3, <2>4
<1>12. ~astray' => Owners'
  <2> SUFFICES ASSUME ~astray PROVE Owners'
    BY <1>1
  <2>1. \A d \in Slots : slot[d].http # 0 => slot[d].cached \in Entries /\ slot[d].cached \notin C
    BY <1>4, Facts DEF IInv, Owners
  <2>2. QED
    BY <1>1, <1>2, <1>3, <2>1 DEF IInv, Owners, Downloads
<1>13. Counted'
  BY <1>1 DEF IInv, Counted, Used
<1>14. PagesPure'
  BY <1>1, <1>3, Sizes DEF IInv, PagesPure
<1>15. DownloadHasOwner'
  <2> SUFFICES ASSUME ~astray, NEW z \in Titles, NEW n \in With(z)'
               PROVE  \/ cacheProperty'[n] = "DOWNLOADED"
                      \/ cacheProperty'[n] = "CLEAN" /\ at' # 0
                      \/ /\ cacheProperty'[n] = "DOWNLOADING"
                         /\ \E d \in Slots : slot'[d].http # 0 /\ slot'[d].cached = n
    BY <1>1 DEF DownloadHasOwner
  <2>1. n \in 0..cacheSize - 1 /\ cache'[n].title = z
    BY <1>1 DEF With
  <2>2. n \in Entries
    <3>1. cacheSize \in Nat /\ cacheSize <= CacheSize
      BY Sizes DEF IInv, Allocated
    <3>2. QED
      BY <2>1, <3>1, Sizes DEF Entries
  <2>3. n \notin C
    BY <1>3, <2>1, <2>2, Sizes
  <2>4. n \in With(z)
    BY <1>3, <2>1, <2>2, <2>3 DEF With
  <2>5. \/ cacheProperty[n] = "DOWNLOADED"
        \/ cacheProperty[n] = "CLEAN" /\ at # 0
        \/ /\ cacheProperty[n] = "DOWNLOADING"
           /\ \E d \in Slots : slot[d].http # 0 /\ slot[d].cached = n
    BY <2>4 DEF IInv, DownloadHasOwner
  <2>6. QED
    BY <1>1, <1>2, <2>2, <2>3, <2>5
<1>16. QED
  BY <1>6, <1>7, <1>8, <1>9, <1>10, <1>11, <1>12, <1>13, <1>14, <1>15 DEF IInv
-----------------------------------------------------------------------------
(* The theorems. *)

LEMMA Starting == ASSUME Init PROVE IInv
<1> DEFINE sl0 == [fd |-> 0, http |-> 0, length |-> EMPTY, ends |-> "EMPTY",
                   cached |-> EMPTY, sent |-> EMPTY]
           us0 == [state |-> "away", ask |-> NoTitle, unread |-> FALSE, got |-> <<>>]
           sv0 == [state |-> "unused", title |-> NoTitle, said |-> 0, unread |-> 0]
           old == [title |-> Old, page |-> <<>>]
<1>1. /\ slot = [c \in Slots |-> sl0] /\ number = 0 /\ cacheIndex = CacheSize - 1
      /\ cacheSize = CacheSize - 1 /\ at = 0 /\ stage = "user" /\ fds = {} /\ refused = 0
      /\ user = [u \in Users |-> us0] /\ server = [s \in Servers |-> sv0] /\ astray = FALSE
      /\ cache = [e \in Entries |-> IF e < CacheSize - 1 THEN old ELSE NoPage]
  BY DEF Init
<1>2. /\ sl0 \in SlotRec /\ sl0.fd = 0 /\ sl0.http = 0 /\ sl0.cached = EMPTY
  BY DEF SlotRec
<1>3. us0 \in UserRec /\ us0.unread = FALSE /\ us0.state = "away"
  BY Nothing DEF UserRec
<1>4. sv0 \in ServerRec /\ sv0.said = 0 /\ sv0.unread = 0 /\ sv0.state = "unused"
  BY DEF ServerRec
<1>5. /\ old \in EntryRec /\ old.title \notin Titles
      /\ NoPage \in EntryRec /\ NoPage.title \notin Titles
  BY Nothing, Sizes DEF EntryRec, NoPage
<1> HIDE DEF sl0, us0, sv0, old
<1>6. /\ \A c \in Slots : slot[c] = sl0
      /\ \A u \in Users : user[u] = us0
      /\ \A s \in Servers : server[s] = sv0
      /\ \A e \in Entries : cache[e] \in EntryRec /\ cache[e].title \notin Titles
  BY <1>1, <1>5
<1>7. /\ cacheProperty \in [Entries \union {EMPTY} ->
                             {"EMPTY", "DOWNLOADING", "DOWNLOADED", "CLEAN"}]
      /\ cacheProperty[EMPTY] = "DOWNLOADING"
  <2> DEFINE v(e) == CASE e = EMPTY -> "DOWNLOADING"
                       [] e = CacheSize - 1 -> "EMPTY"
                       [] OTHER -> "DOWNLOADED"
  <2>1. \A e : v(e) \in {"EMPTY", "DOWNLOADING", "DOWNLOADED", "CLEAN"}
    OBVIOUS
  <2>2. v(EMPTY) = "DOWNLOADING"
    BY Sizes
  <2>3. cacheProperty = [e \in Entries \union {EMPTY} |-> v(e)]
    BY DEF Init
  <2> HIDE DEF v
  <2>4. QED
    BY <2>1, <2>2, <2>3
<1>8. Typed
  <2>1. slot \in [Slots -> SlotRec] /\ user \in [Users -> UserRec]
        /\ server \in [Servers -> ServerRec]
    BY <1>1, <1>2, <1>3, <1>4
  <2>2. cache \in [Entries -> EntryRec]
    BY <1>1, <1>5
  <2>3. 0 \in 0..Cleaning
    BY Sizes
  <2>4. /\ number \in Int /\ refused \in Nat /\ at \in 0..Cleaning
        /\ stage \in {"user", "load", "send"} /\ fds \subseteq Users \union Servers
        /\ astray \in BOOLEAN
    <3>1. number = 0 /\ refused = 0 /\ at = 0 /\ stage = "user" /\ fds = {} /\ astray = FALSE
      BY <1>1
    <3>2. astray \in BOOLEAN
      BY <3>1, Zenon
    <3>3. /\ number \in Int /\ refused \in Nat /\ at \in 0..Cleaning
          /\ stage \in {"user", "load", "send"} /\ fds \subseteq Users \union Servers
      BY <2>3, <3>1
    <3>4. QED
      BY <3>2, <3>3
  <2>5. QED
    BY <1>7, <2>1, <2>2, <2>4 DEF Typed
<1>9. Allocated
  BY <1>1, <1>6 DEF Allocated
<1>10. Visiting
  BY <1>1, Numbers DEF Visiting
<1>11. Clients
  BY <1>2, <1>6 DEF Clients
<1>12. Speech
  BY <1>3, <1>4, <1>6, Sizes DEF Speech
<1>13. Used = {} /\ Cardinality(Used) = 0
  <2>1. Used = {}
    BY <1>2, <1>6 DEF Used
  <2>2. QED
    BY <2>1, FS_EmptySet
<1>14. InOrder
  BY <1>13 DEF InOrder
<1>15. Owners
  BY <1>2, <1>6, <1>7 DEF Owners
<1>16. Counted
  BY <1>1, <1>2, <1>6, <1>13, Numbers DEF Counted
<1>17. PagesPure
  BY <1>6 DEF PagesPure
<1>18. DownloadHasOwner
  <2>1. \A t \in Titles : With(t) = {}
    <3>1. 0..cacheSize - 1 \subseteq Entries
      BY <1>1, Sizes DEF Entries
    <3>2. QED
      BY <1>6, <3>1 DEF With
  <2>2. QED
    BY <2>1 DEF DownloadHasOwner
<1>19. QED
  BY <1>8, <1>9, <1>10, <1>11, <1>12, <1>14, <1>15, <1>16, <1>17, <1>18 DEF IInv

LEMMA Stepping == ASSUME IInv, [Next]_vars PROVE IInv'
<1>1. CASE UNCHANGED vars
  <2>1. UNCHANGED <<slot, number, cacheVars, at, stage, fds, peerVars, histVars>>
    BY <1>1 DEF vars, procVars, histVars
  <2>2. QED
    BY <2>1, DiesSteps
<1>2. ASSUME NEW c \in Slots, Visits(c) PROVE IInv'
  <2>1. CASE NothingToRead(c)
    BY <2>1, NothingToReadSteps
  <2>2. CASE ReadFails(c)
    BY <2>2, ReadFailsSteps
  <2>3. CASE DropsDownload(c)
    BY <2>3, DropsDownloadSteps
  <2>4. CASE Leaves(c)
    BY <2>4, LeavesSteps
  <2>5. CASE Finds(c)
    BY <2>5, FindsSteps
  <2>6. CASE Owns(c)
    BY <2>6, OwnsSteps
  <2>7. CASE ConnectFails(c)
    BY <2>7, ConnectFailsSteps
  <2>8. CASE ConnectRefused(c)
    BY <2>8, DiesSteps DEF ConnectRefused
  <2>9. CASE LoadsNothing(c)
    BY <2>9, LoadsNothingSteps
  <2>10. CASE ServerHangsUp(c)
    BY <2>10, ServerHangsUpSteps
  <2>11. CASE LoadsPage(c)
    BY <2>11, LoadsPageSteps
  <2>12. CASE SendsNothing(c)
    BY <2>12, SendsNothingSteps
  <2>13. CASE SendsPage(c)
    BY <2>13, SendsPageSteps
  <2>14. CASE SendFails(c)
    BY <2>14, SendFailsSteps
  <2>15. QED
    BY <1>2, <2>1, <2>2, <2>3, <2>4, <2>5, <2>6, <2>7, <2>8, <2>9, <2>10, <2>11, <2>12,
       <2>13, <2>14 DEF Visits
<1>3. CASE Loop
  <2>1. CASE Accepts
    BY <2>1, AcceptsSteps
  <2>2. CASE AcceptFails
    BY <2>2, AcceptFailsSteps
  <2>3. CASE AcceptsNobody
    BY <2>3, AcceptsNobodySteps
  <2>4. CASE Cleans
    BY <2>4, CleansSteps
  <2>5. QED
    BY <1>2, <1>3, <2>1, <2>2, <2>3, <2>4 DEF Loop
<1>4. CASE Peers
  <2>1. CASE \E u \in Users : \/ UserConnects(u) \/ UserStops(u)
                              \/ UserLeaves(u) \/ UserResets(u)
                              \/ \E t \in Titles : UserAsks(u, t)
    BY <2>1, UsersStep
  <2>2. CASE \E s \in Servers : ServerSends(s) \/ ServerResets(s)
    BY <2>2, ServersStep
  <2>3. QED
    BY <1>4, <2>1, <2>2 DEF Peers
<1>5. QED
  BY <1>1, <1>3, <1>4 DEF Next

LEMMA IInvHolds == Spec => []IInv
<1>1. Init => IInv
  BY Starting
<1>2. IInv /\ [Next]_vars => IInv'
  BY Stepping
<1>3. QED
  BY <1>1, <1>2, PTL DEF Spec

LEMMA Counting == ASSUME IInv PROVE TypeOK /\ CountIsExact
<1>1. TypeOK
  <2>1. \A e \in Entries : cache[e].title \in Titles \union {NoTitle, Old}
    BY Facts, EntryFacts
  <2>2. QED
    BY <2>1 DEF IInv, Typed, TypeOK, SlotRec
<1>2. ASSUME ~astray
      PROVE  /\ number = Cardinality(Used) + refused
             /\ fds \intersect Users = {slot[c].fd : c \in Used}
             /\ fds \intersect Servers = {slot[c].http : c \in Slots} \ {0}
             /\ \A c \in Slots \ Used : slot[c].http = 0
  <2>1. /\ number = Cardinality(Used) + refused
        /\ \A u \in Users : u \in fds <=> \E c \in Slots : slot[c].fd = u
        /\ \A s \in Servers : s \in fds <=> \E c \in Slots : slot[c].http = s
        /\ \A c \in Slots : slot[c].fd = 0 => slot[c].http = 0
    BY <1>2 DEF IInv, Counted
  <2>2. fds \intersect Users = {slot[c].fd : c \in Used}
    BY <2>1, Facts, Numbers DEF Used
  <2>3. fds \intersect Servers = {slot[c].http : c \in Slots} \ {0}
    BY <2>1, Facts, Numbers
  <2>4. QED
    BY <2>1, <2>2, <2>3 DEF Used
<1>3. QED
  BY <1>1, <1>2 DEF CountIsExact

\* Between any two steps of the first proxy, for any number of downloads and
\* entries: its counter is the number of its clients and of failed accepts and
\* no descriptor is forgotten, as long as no server went astray; pages hold their
\* own response from its beginning, unless two downloads write to their entry;
\* users have what was sent of the page they asked for until their entry is given
\* to another; and every page that can be found is whole, about to be freed or
\* has an owner who fills it (main, readToCache, resendFromCache, :622-632).
THEOREM InvHolds == Spec => []Inv
<1>1. IInv => Inv
  <2> SUFFICES ASSUME IInv PROVE Inv
    OBVIOUS
  <2>1. QED
    BY Counting DEF Inv, IInv
<1>2. QED
  BY <1>1, IInvHolds, PTL

\* A page that was taken for whole does not grow any more, unless a server went
\* astray or another download writes to its entry (readToCache, :561-575).
THEOREM WholeStaysHolds == Spec => WholeStays
<1>1. ASSUME IInv, [Next]_vars, ~astray', NEW e \in Entries \ mixed,
             cacheProperty[e] = "DOWNLOADED", cache[e].title = cache'[e].title
      PROVE  cache'[e].page = cache[e].page
  <2>1. ASSUME NEW c \in Slots, Owns(c) PROVE cache'[e].page = cache[e].page
    <3>1. /\ ReadsRequest(c) /\ Read(c) /\ With(Asked(c)) = {} /\ Allocates(Asked(c))
      BY <2>1 DEF Owns, Misses
    <3>2. /\ NewEntry \in Entries
          /\ \A n \in Entries : cache[n].title \in Titles => cacheSize = CacheSize
      BY <1>1, <3>1, NextEntry DEF Allocates
    <3>3. Asked(c) \in Titles
      BY <1>1, <3>1, Reads DEF Reading
    <3>4. cache' = [cache EXCEPT ![NewEntry] = [title |-> Asked(c), page |-> <<>>]]
      BY <3>1 DEF Allocates
    <3>5. cache'[NewEntry].title = Asked(c)
      BY <1>1, <3>2, <3>4, Facts
    <3>6. ASSUME e = NewEntry PROVE FALSE
      <4>1. cache[e].title = Asked(c) /\ cacheSize = CacheSize
        BY <1>1, <3>2, <3>3, <3>5, <3>6
      <4>2. e \in With(Asked(c))
        BY <1>1, <4>1 DEF With, Entries
      <4>3. QED
        BY <3>1, <4>2
    <3>7. QED
      BY <1>1, <3>4, <3>6, Facts
  <2>2. ASSUME NEW c \in Slots, LoadsPage(c) PROVE cache'[e].page = cache[e].page
    <3>1. /\ slot[c].http # 0 /\ astray' = astray
          /\ cache' = [cache EXCEPT ![slot[c].cached].page = Grown(c)]
      BY <2>2 DEF LoadsPage, CanLoad, ServerIs, histVars, readVars
    <3>2. slot[c].cached \notin mixed => cacheProperty[slot[c].cached] = "DOWNLOADING"
      BY <1>1, <3>1 DEF IInv, Owners, Downloads
    <3>3. e # slot[c].cached
      BY <1>1, <3>2
    <3>4. QED
      BY <1>1, <3>1, <3>3, Facts
  <2>3. CASE Cleans
    BY <1>1, <2>3, Facts DEF Cleans
  <2>4. CASE UNCHANGED cache
    BY <2>4
  <2>5. ASSUME NEW c \in Slots, Visits(c), ~Owns(c), ~LoadsPage(c) PROVE UNCHANGED cache
    <3>1. CASE NothingToRead(c) \/ ReadFails(c) \/ DropsDownload(c) \/ Leaves(c) \/ Finds(c)
      BY <3>1 DEF NothingToRead, ReadFails, DropsDownload, Leaves, Finds, cacheVars
    <3>2. CASE ConnectFails(c) \/ ConnectRefused(c) \/ LoadsNothing(c) \/ ServerHangsUp(c)
      BY <3>2 DEF ConnectFails, ConnectRefused, LoadsNothing, ServerHangsUp, cacheVars
    <3>3. CASE SendsNothing(c) \/ SendsPage(c) \/ SendFails(c)
      BY <3>3 DEF SendsNothing, SendsPage, SendFails, cacheVars
    <3>4. QED
      BY <2>5, <3>1, <3>2, <3>3 DEF Visits
  <2>6. CASE Loop
    <3>1. CASE Accepts \/ AcceptFails \/ AcceptsNobody
      BY <2>4, <3>1 DEF Accepts, AcceptFails, AcceptsNobody, cacheVars
    <3>2. QED
      BY <2>1, <2>2, <2>3, <2>4, <2>5, <2>6, <3>1 DEF Loop
  <2>7. CASE Peers
    BY <2>4, <2>7 DEF Peers, UserConnects, UserStops, UserLeaves, UserResets, UserAsks,
       ServerSends, ServerResets, procVars, cacheVars
  <2>8. CASE UNCHANGED vars
    BY <2>4, <2>8 DEF vars, procVars, cacheVars
  <2>9. QED
    BY <1>1, <2>6, <2>7, <2>8 DEF Next
<1>2. IInv /\ [Next]_vars =>
        [~astray' => \A e \in Entries \ mixed :
           cacheProperty[e] = "DOWNLOADED" /\ cache[e].title = cache'[e].title
             => cache'[e].page = cache[e].page]_vars
  BY <1>1
<1>3. QED
  BY <1>2, IInvHolds, PTL DEF Spec, WholeStays

=============================================================================
