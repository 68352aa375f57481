---------------------------- MODULE Pro31Proofs ----------------------------
(***************************************************************************)
(* What module Pro31 claims of proxy/pro31.c, for any number of slots,     *)
(* entries, titles and users, any length of pages and any buffer.          *)
(***************************************************************************)
EXTENDS Pro31, FiniteSetTheorems, SequenceTheorems, NaturalsInduction, TLAPS

USE DEF readVars

\* The constants, and the numbers that name things.
LEMMA Sizes ==
    /\ MaxClients \in Nat /\ MaxClients >= 1 /\ CacheSize \in Nat /\ MaxClients < CacheSize
    /\ BufferSize \in Nat /\ BufferSize >= 1 /\ Length \in Nat /\ Length >= 1
    /\ Conns \in Nat /\ Conns >= 1
    /\ Ranges \subseteq {EMPTY} \union Nat
    /\ EMPTY = 0 - 1 /\ EMPTY \notin Entries
    /\ NoTitle \notin Titles /\ Old \notin Titles /\ Titles \intersect Others = {}
  BY Pro31Assumption DEF EMPTY, Entries

LEMMA Numbers ==
    /\ \A u \in Users : u \in Nat /\ u >= 1 /\ u <= Conns /\ u \notin Servers /\ u # 0
                        /\ Conns + u \in Servers
    /\ \A u, v \in Users : Conns + u = Conns + v => u = v
    /\ \A s \in Servers : s \in Nat /\ s > Conns /\ s # 0 /\ s \notin Users
    /\ \A c \in Slots : c \in Nat /\ c >= 1 /\ c <= MaxClients /\ c \in Entries
                        /\ c + MaxClients \in MaxClients + 1..2 * MaxClients
    /\ 0 \notin Users /\ 0 \notin Servers
  BY Sizes DEF Users, Servers, Slots, Entries

\* A set of numbers has a least one.
LEMMA Least ==
    ASSUME NEW I \in SUBSET Nat, I # {}
    PROVE  Min(I) \in I /\ \A m \in I : Min(I) <= m
<1> DEFINE R == {ss \in Nat \X Nat : ss[1] < ss[2]}
<1>1. IsWellFoundedOn(R, Nat)
  BY NatLessThanWellFounded DEF OpToRel
<1>2. ASSUME NEW m \in Nat, NEW k \in Nat, ~ (<<m, k>> \in R) PROVE k <= m
  BY <1>2
<1> HIDE DEF R
<1>3. PICK n \in I : \A m \in I : ~ (<<m, n>> \in R)
  BY <1>1, WFMin
<1>4. ASSUME NEW m \in I PROVE n <= m
  <2>1. m \in Nat /\ n \in Nat /\ ~ (<<m, n>> \in R)
    BY <1>3
  <2>2. QED
    BY <1>2, <2>1
<1>5. \E k \in I : \A m \in I : k <= m
  BY <1>4
<1>6. QED
  BY <1>5 DEF Min

-----------------------------------------------------------------------------
(* Slots. *)

SlotRec == [fd : -1..Conns, events : SUBSET {"POLLIN", "POLLOUT"},
            revents : SUBSET {"POLLIN", "POLLOUT", "POLLHUP"},
            http : {0} \union Servers,
            hrevents : SUBSET {"POLLIN", "POLLHUP"},
            length : {EMPTY} \union Nat,
            ends : {"EMPTY", "WORKING", "END_SOCKET_INPUT"},
            cached : Entries \union {EMPTY},
            sent : {EMPTY} \union Nat]
UserRec == [state : {"away", "open", "shut", "reset"},
            ask : Titles \union Others \union {NoTitle},
            unread : BOOLEAN, got : Seq(Token)]
ServerRec == [state : {"unused", "open", "shut", "reset"},
              title : Titles \union {NoTitle}, said : 0..Length, unread : 0..Length]
EntryRec == [title : Titles \union {NoTitle, Old}, page : Seq(Token)]

\* Slot d is r after a step, but for what was announced of it and is asked of poll.
Same(d, r) ==
    /\ slot'[d].fd = r.fd /\ slot'[d].http = r.http /\ slot'[d].cached = r.cached
    /\ slot'[d].sent = r.sent /\ slot'[d].ends = r.ends

\* ... and what was announced is as in r or taken back.
After(d, r) ==
    /\ Same(d, r)
    /\ slot'[d].revents \in {r.revents, {}} /\ slot'[d].hrevents \in {r.hrevents, {}}

\* A record with the announcements taken back.
LEMMA Cleared ==
    ASSUME NEW o \in SlotRec
    PROVE  /\ \E r \in SlotRec :
                  /\ r = [o EXCEPT !.revents = {}] /\ r.fd = o.fd /\ r.http = o.http
                  /\ r.cached = o.cached /\ r.sent = o.sent /\ r.ends = o.ends
                  /\ r.revents = {} /\ r.hrevents = o.hrevents
           /\ \E r \in SlotRec :
                  /\ r = [o EXCEPT !.hrevents = {}] /\ r.fd = o.fd /\ r.http = o.http
                  /\ r.cached = o.cached /\ r.sent = o.sent /\ r.ends = o.ends
                  /\ r.revents = o.revents /\ r.hrevents = {}
<1>1. [o EXCEPT !.revents = {}] \in SlotRec /\ [o EXCEPT !.hrevents = {}] \in SlotRec
  BY DEF SlotRec
<1>2. QED
  BY <1>1 DEF SlotRec

\* The loop goes on to a descriptor that poll has announced.
Going ==
    /\ slot' \in [Slots -> SlotRec]
    /\ at' \in 1..Polling
    /\ at' \in Slots => slot'[at'].revents # {}
    /\ at' \in MaxClients + 1..2 * MaxClients => slot'[at' - MaxClients].hrevents # {}

LEMMA GoesOn ==
    ASSUME NEW sl \in [Slots -> SlotRec], NEW k \in 0..2 * MaxClients, Goes(sl, k)
    PROVE  /\ Going /\ \A d \in Slots : After(d, sl[d])
           /\ k \in Slots => slot'[k].revents = {}
           /\ \A d \in Slots : k = d + MaxClients => slot'[d].hrevents = {}
<1> DEFINE rest == {j \in k + 1..2 * MaxClients : Ready(sl, j)}
<1>0. MaxClients \in Nat /\ MaxClients >= 1 /\ Polling = 2 * MaxClients + 1
  BY Sizes DEF Polling
<1>1. at' \in rest \union {Polling}
  <2>1. rest \union {Polling} \in SUBSET Nat /\ rest \union {Polling} # {}
    BY <1>0
  <2>2. Min(rest \union {Polling}) \in rest \union {Polling}
    BY <2>1, Least
  <2>3. QED
    BY <2>2 DEF Goes
<1>2. PICK n \in 1..Polling : n = at' /\ n > k /\ (n # Polling => Ready(sl, n))
  <2>1. at' \in 1..Polling /\ at' > k /\ (at' # Polling => Ready(sl, at'))
    BY <1>0, <1>1
  <2>2. QED
    BY <2>1
<1>3. CASE k \in Slots
  <2>1. slot' = [sl EXCEPT ![k].revents = {}]
    BY <1>3 DEF Goes
  <2>2. sl[k] \in SlotRec
    BY <1>3
  <2>3. PICK r \in SlotRec :
            /\ r = [sl[k] EXCEPT !.revents = {}] /\ r.fd = sl[k].fd /\ r.http = sl[k].http
            /\ r.cached = sl[k].cached /\ r.sent = sl[k].sent /\ r.ends = sl[k].ends
            /\ r.revents = {} /\ r.hrevents = sl[k].hrevents
    BY <2>2, Cleared
  <2>4. slot' = [sl EXCEPT ![k] = r]
    BY <2>1, <2>3
  <2>5. slot' \in [Slots -> SlotRec] /\ slot'[k] = r /\ \A d \in Slots \ {k} : slot'[d] = sl[d]
    BY <1>3, <2>4
  <2>6. \A d \in Slots : After(d, sl[d])
    BY <2>3, <2>5 DEF After, Same
  <2>7. n \in Slots => slot'[n].revents # {}
    BY <1>0, <1>2, <2>5 DEF Ready, Slots
  <2>8. n \in MaxClients + 1..2 * MaxClients => slot'[n - MaxClients].hrevents # {}
    <3> SUFFICES ASSUME n \in MaxClients + 1..2 * MaxClients
                 PROVE  slot'[n - MaxClients].hrevents # {}
      OBVIOUS
    <3>0. n - MaxClients \in Slots
      BY <1>0 DEF Slots
    <3>1. PICK d \in Slots : d = n - MaxClients
      BY <3>0, Zenon
    <3>2. sl[d].hrevents # {}
      BY <1>0, <1>2, <3>1 DEF Ready
    <3>3. slot'[d].hrevents = sl[d].hrevents
      BY <2>3, <2>5
    <3>4. QED
      BY <3>1, <3>2, <3>3
  <2>9. slot'[k].revents = {} /\ \A d \in Slots : k # d + MaxClients
    BY <1>0, <1>3, <2>3, <2>5 DEF Slots
  <2>10. QED
    BY <1>2, <2>5, <2>6, <2>7, <2>8, <2>9 DEF Going
<1>4. CASE k > MaxClients
  <2>1. PICK c \in Slots : c = k - MaxClients
    BY <1>0, <1>4 DEF Slots
  <2>2. slot' = [sl EXCEPT ![c].hrevents = {}]
    BY <1>0, <1>4, <2>1 DEF Goes, Slots
  <2>3. sl[c] \in SlotRec
    OBVIOUS
  <2>4. PICK r \in SlotRec :
            /\ r = [sl[c] EXCEPT !.hrevents = {}] /\ r.fd = sl[c].fd /\ r.http = sl[c].http
            /\ r.cached = sl[c].cached /\ r.sent = sl[c].sent /\ r.ends = sl[c].ends
            /\ r.revents = sl[c].revents /\ r.hrevents = {}
    BY <2>3, Cleared
  <2>5. slot' = [sl EXCEPT ![c] = r]
    BY <2>2, <2>4
  <2>6. slot' \in [Slots -> SlotRec] /\ slot'[c] = r /\ \A d \in Slots \ {c} : slot'[d] = sl[d]
    BY <2>5
  <2>7. \A d \in Slots : After(d, sl[d])
    BY <2>4, <2>6 DEF After, Same
  <2>8. n \notin Slots
    BY <1>0, <1>2, <1>4 DEF Slots
  <2>9. n \in MaxClients + 1..2 * MaxClients => slot'[n - MaxClients].hrevents # {}
    <3> SUFFICES ASSUME n \in MaxClients + 1..2 * MaxClients
                 PROVE  slot'[n - MaxClients].hrevents # {}
      OBVIOUS
    <3>a. n - MaxClients \in Slots
      BY <1>0 DEF Slots
    <3>b. n \in Nat /\ k \in Nat /\ n > k
      BY <1>0, <1>2
    <3>c. n - MaxClients # k - MaxClients
      BY <1>0, <3>b
    <3>d. n - MaxClients # c
      BY <2>1, <3>c
    <3>0. n - MaxClients \in Slots /\ n - MaxClients # c
      BY <3>a, <3>d
    <3>1. PICK d \in Slots : d = n - MaxClients /\ d # c
      BY <3>0, Zenon
    <3>2. sl[d].hrevents # {}
      BY <1>0, <1>2, <3>1 DEF Ready
    <3>3. QED
      BY <2>6, <3>1, <3>2
  <2>10. k \notin Slots /\ \A d \in Slots : k = d + MaxClients => d = c
    BY <1>0, <1>4, <2>1 DEF Slots
  <2>11. QED
    BY <1>2, <2>4, <2>6, <2>7, <2>8, <2>9, <2>10 DEF Going
<1>5. CASE k = 0
  <2>1. slot' = sl
    BY <1>0, <1>5 DEF Goes, Slots
  <2>2. \A d \in Slots : After(d, sl[d])
    BY <2>1 DEF After, Same
  <2>3. n \in Slots => slot'[n].revents # {}
    BY <1>0, <1>2, <2>1 DEF Ready, Slots
  <2>4. n \in MaxClients + 1..2 * MaxClients => slot'[n - MaxClients].hrevents # {}
    <3> SUFFICES ASSUME n \in MaxClients + 1..2 * MaxClients
                 PROVE  slot'[n - MaxClients].hrevents # {}
      OBVIOUS
    <3>0. n - MaxClients \in Slots
      BY <1>0 DEF Slots
    <3>1. PICK d \in Slots : d = n - MaxClients
      BY <3>0, Zenon
    <3>2. QED
      BY <1>0, <1>2, <2>1, <3>1 DEF Ready
  <2>5. k \notin Slots /\ \A d \in Slots : k # d + MaxClients
    BY <1>0, <1>5 DEF Slots
  <2>6. QED
    BY <1>2, <2>1, <2>2, <2>3, <2>4, <2>5 DEF Going
<1>6. QED
  BY <1>0, <1>3, <1>4, <1>5 DEF Slots

-----------------------------------------------------------------------------
(* The invariant. *)

\* SlotsApart, said of one user or slot at a time.
Apart ==
    /\ \A c, d \in Slots : c # d /\ slot[c].fd \in Users => slot[c].fd # slot[d].fd
    /\ \A c, d \in Slots : c # d /\ slot[c].http # 0 => slot[c].http # slot[d].http
    /\ \A u \in Users : u \in fds <=> \E c \in Slots : slot[c].fd = u
    /\ \A c \in Slots : slot[c].http # 0 =>
          slot[c].fd \in Users /\ slot[c].cached # EMPTY /\ slot[c].http \in fds

\* The servers that LeakOnlyByHangUp counts.
Lost == {s \in Servers : s \in fds /\ \A c \in Slots : slot[c].http # s}
Leak == Cardinality(Lost) <= Cardinality(HungUp)

IInv ==
    /\ TypeOK /\ Apart /\ Announcements /\ Downloads /\ Requests /\ Speech /\ Entered
    /\ Pages /\ Readers /\ Leak /\ FreeOnlyAfterReset /\ InOrder /\ FoundIsServed

\* What the types say.
LEMMA SlotFacts ==
    ASSUME NEW r \in SlotRec
    PROVE  /\ r.fd \in Int /\ (r.fd \in Users \/ r.fd = 0 \/ r.fd = 0 - 1)
           /\ r.http \in {0} \union Servers /\ r.cached \in Entries \union {EMPTY}
           /\ r.sent \in Int
           /\ r.revents \in SUBSET {"POLLIN", "POLLOUT", "POLLHUP"}
           /\ r.hrevents \in SUBSET {"POLLIN", "POLLHUP"}
<1>1. r.fd \in -1..Conns /\ r.sent \in {EMPTY} \union Nat
  BY DEF SlotRec
<1>2. r.fd \in Int /\ (r.fd \in Users \/ r.fd = 0 \/ r.fd = 0 - 1)
  BY <1>1, Sizes DEF Users
<1>3. r.sent \in Int
  BY <1>1, Sizes
<1>4. r.http \in {0} \union Servers /\ r.cached \in Entries \union {EMPTY}
  BY DEF SlotRec
<1>5. r.revents \in SUBSET {"POLLIN", "POLLOUT", "POLLHUP"}
      /\ r.hrevents \in SUBSET {"POLLIN", "POLLHUP"}
  BY DEF SlotRec
<1>6. QED
  BY <1>2, <1>3, <1>4, <1>5

LEMMA Types ==
    ASSUME TypeOK
    PROVE  /\ slot \in [Slots -> SlotRec] /\ user \in [Users -> UserRec]
           /\ server \in [Servers -> ServerRec] /\ cache \in [Entries -> EntryRec]
           /\ cacheProperty \in [Entries -> {"EMPTY", "DOWNLOADING", "DOWNLOADED"}]
           /\ cacheIndex \in 0..CacheSize /\ cacheSize \in 0..CacheSize
           /\ accepted \in Nat /\ accepted <= Conns
           /\ fds \subseteq Users \union Servers /\ heirs \subseteq Users
           /\ rangeOf \in [Titles -> Ranges]
           /\ mixed \subseteq Entries /\ misled \subseteq Users
  BY Sizes DEF TypeOK, SlotRec, UserRec, ServerRec, EntryRec

LEMMA EntryFacts ==
    ASSUME NEW r \in EntryRec
    PROVE  /\ r.page \in Seq(Token) /\ Len(r.page) \in Nat /\ DOMAIN r.page = 1..Len(r.page)
           /\ r.title \in Titles \union {NoTitle, Old}
  BY DEF EntryRec

LEMMA UserFacts ==
    ASSUME NEW r \in UserRec
    PROVE  /\ r.got \in Seq(Token) /\ Len(r.got) \in Nat /\ DOMAIN r.got = 1..Len(r.got)
           /\ r.unread \in BOOLEAN /\ r.ask \in Titles \union Others \union {NoTitle}
           /\ r.state \in {"away", "open", "shut", "reset"}
           /\ Len(r.got) = 0 <=> r.got = <<>>
  BY DEF UserRec

LEMMA ServerFacts ==
    ASSUME NEW r \in ServerRec
    PROVE  /\ r.said \in Nat /\ r.unread \in Nat /\ r.said <= Length
           /\ r.title \in Titles \union {NoTitle}
           /\ r.state \in {"unused", "open", "shut", "reset"}
  BY Sizes DEF ServerRec

\* The sets that are counted are finite.
LEMMA Countable ==
    /\ IsFiniteSet(Users) /\ IsFiniteSet(Servers)
    /\ Cardinality(Servers) = Conns
<1>1. Conns \in Nat
  BY Sizes
<1>2. IsFiniteSet(1..Conns) /\ IsFiniteSet(Conns + 1..2 * Conns)
  BY <1>1, FS_Interval
<1>3. Cardinality(Conns + 1..2 * Conns) = Conns
  <2>1. Conns + 1 \in Int /\ 2 * Conns \in Int
    BY <1>1
  <2>2. Cardinality(Conns + 1..2 * Conns) =
            IF Conns + 1 > 2 * Conns THEN 0 ELSE (2 * Conns) - (Conns + 1) + 1
    BY <2>1, FS_Interval
  <2>3. QED
    BY <1>1, <2>2
<1>4. QED
  BY <1>2, <1>3 DEF Users, Servers

\* Fewer servers are lost, or more users were hung up on.
LEMMA LeakKept ==
    ASSUME Leak, Lost' \subseteq Lost, HungUp \subseteq HungUp', TypeOK'
    PROVE  Leak'
<1>1. IsFiniteSet(Lost) /\ IsFiniteSet(HungUp')
  <2>1. Lost \subseteq Servers /\ HungUp' \subseteq Users
    BY DEF Lost, HungUp
  <2>2. QED
    BY <2>1, Countable, FS_Subset
<1>2. /\ IsFiniteSet(Lost') /\ Cardinality(Lost') <= Cardinality(Lost)
      /\ IsFiniteSet(HungUp) /\ Cardinality(HungUp) <= Cardinality(HungUp')
  BY <1>1, FS_Subset
<1>3. /\ Cardinality(Lost') \in Nat /\ Cardinality(Lost) \in Nat
      /\ Cardinality(HungUp) \in Nat /\ Cardinality(HungUp') \in Nat
  BY <1>1, <1>2, FS_CardinalityType
<1>4. QED
  BY <1>2, <1>3 DEF Leak

-----------------------------------------------------------------------------
(* Steps that leave the pages alone. *)

\* Nobody who was reset is otherwise afterwards.
ResetsStay ==
    /\ \A u \in Users : user[u].state = "reset" => user'[u].state = "reset"
    /\ \A s \in Servers : server[s].state = "reset" => server'[s].state = "reset"

\* What is announced of slot d after a step is there and true.
Told(d) ==
    /\ slot'[d].revents # {} => slot'[d].fd \in Users
    /\ slot'[d].hrevents # {} => slot'[d].http # 0
    /\ "POLLHUP" \in slot'[d].revents => user'[slot'[d].fd].state = "reset"
    /\ "POLLHUP" \in slot'[d].hrevents => server'[slot'[d].http].state = "reset"

LEMMA StillTold ==
    ASSUME IInv, ResetsStay, NEW d \in Slots, After(d, slot[d])
    PROVE  Told(d)
<1>1. /\ slot[d].revents # {} => slot[d].fd \in Users
      /\ slot[d].hrevents # {} => slot[d].http # 0
      /\ "POLLHUP" \in slot[d].revents => user[slot[d].fd].state = "reset"
      /\ "POLLHUP" \in slot[d].hrevents => server[slot[d].http].state = "reset"
  BY DEF IInv, Announcements
<1>2. slot[d] \in SlotRec
  BY Types DEF IInv
<1>3. slot[d].http # 0 => slot[d].http \in Servers
  BY <1>2, SlotFacts
<1>4. /\ slot'[d].fd = slot[d].fd /\ slot'[d].http = slot[d].http
      /\ slot'[d].revents \in {slot[d].revents, {}}
      /\ slot'[d].hrevents \in {slot[d].hrevents, {}}
  BY DEF After, Same
<1>5. /\ slot'[d].revents # {} => slot'[d].fd \in Users
      /\ "POLLHUP" \in slot'[d].revents => user'[slot'[d].fd].state = "reset"
  BY <1>1, <1>4 DEF ResetsStay
<1>6. /\ slot'[d].hrevents # {} => slot'[d].http # 0
      /\ "POLLHUP" \in slot'[d].hrevents => server'[slot'[d].http].state = "reset"
  BY <1>1, <1>3, <1>4 DEF ResetsStay
<1>7. QED
  BY <1>5, <1>6 DEF Told

LEMMA AllTold ==
    ASSUME Going, \A d \in Slots : Told(d)
    PROVE  Announcements'
<1>1. at' # 0
  BY Sizes DEF Going, Polling
<1>2. QED
  BY <1>1 DEF Going, Told, Announcements
-----------------------------------------------------------------------------
(* Steps that leave slots, pages and servers alone. *)

LEMMA Calm ==
    ASSUME IInv, TypeOK', Announcements', FreeOnlyAfterReset',
           \A d \in Slots : Same(d, slot[d]),
           UNCHANGED <<cacheVars, accepted, fds, server, heirs, readVars>>,
           \A u \in Users : /\ user'[u].state = user[u].state /\ user'[u].ask = user[u].ask
                            /\ user'[u].got = user[u].got
                            /\ user'[u].unread => user[u].unread
    PROVE  IInv'
<1> USE DEF Same
<1>0. /\ cache' = cache /\ cacheProperty' = cacheProperty /\ cacheIndex' = cacheIndex
      /\ cacheSize' = cacheSize /\ accepted' = accepted /\ fds' = fds /\ server' = server
      /\ heirs' = heirs /\ mixed' = mixed /\ misled' = misled
  BY DEF cacheVars
<1>1. Apart'
  BY <1>0 DEF IInv, Apart
<1>2. Downloads'
  BY <1>0 DEF IInv, Downloads
<1>3. Requests'
  <2>1. ASSUME NEW u \in Users, Waiting(u)' PROVE Waiting(u)
    BY <1>0, <2>1 DEF Waiting
  <2>2. QED
    BY <1>0, <2>1 DEF IInv, Requests
<1>4. Speech'
  BY <1>0 DEF IInv, Speech, Used
<1>5. Entered'
  BY <1>0 DEF IInv, Entered
<1>6. Pages'
  BY <1>0 DEF IInv, Pages
<1>7. Readers'
  BY <1>0 DEF IInv, Readers
<1>8. Leak'
  BY <1>0 DEF IInv, Leak, Lost, HungUp
<1>9. InOrder'
  BY <1>0 DEF IInv, InOrder
<1>10. FoundIsServed'
  BY <1>0 DEF IInv, FoundIsServed, Patient, With
<1>11. QED
  BY <1>1, <1>2, <1>3, <1>4, <1>5, <1>6, <1>7, <1>8, <1>9, <1>10 DEF IInv

\* The types of the variables after a step.
LEMMA Typed ==
    ASSUME slot' \in [Slots -> SlotRec], user' \in [Users -> UserRec],
           server' \in [Servers -> ServerRec], cache' \in [Entries -> EntryRec],
           cacheProperty' \in [Entries -> {"EMPTY", "DOWNLOADING", "DOWNLOADED"}],
           cacheIndex' \in 0..CacheSize, cacheSize' \in 0..CacheSize,
           at' \in 0..Polling, accepted' \in 0..Conns, fds' \subseteq Users \union Servers,
           dead' \in {"no", "pipe", "free"}, rangeOf' \in [Titles -> Ranges],
           heirs' \subseteq Users, mixed' \subseteq Entries, misled' \subseteq Users
    PROVE  TypeOK'
  BY DEF TypeOK, SlotRec, UserRec, ServerRec, EntryRec

\* Who is visited at index c, and at index c + MAX_CLIENTS_AMOUNT.
LEMMA Visited ==
    ASSUME IInv, NEW c \in Slots
    PROVE  /\ at = c => slot[c].revents # {} /\ slot[c].fd \in Users /\ slot[c].fd \in fds
           /\ at = c + MaxClients =>
                  /\ slot[c].hrevents # {} /\ slot[c].http \in Servers /\ slot[c].http \in fds
                  /\ slot[c].fd \in Users /\ slot[c].fd \in fds /\ slot[c].cached \in Entries
                  /\ "POLLHUP" \in slot[c].hrevents => server[slot[c].http].state = "reset"
<1>1. slot[c] \in SlotRec
  BY Types DEF IInv
<1>2. CASE at = c
  <2>1. slot[c].revents # {}
    BY <1>2 DEF IInv, Announcements
  <2>2. slot[c].fd \in Users
    BY <2>1 DEF IInv, Announcements
  <2>3. slot[c].fd \in fds
    BY <2>2 DEF IInv, Apart
  <2>4. at # c + MaxClients
    BY <1>2, Sizes, Numbers
  <2>5. QED
    BY <2>1, <2>2, <2>3, <2>4
<1>3. CASE at = c + MaxClients
  <2>0. at \in MaxClients + 1..2 * MaxClients /\ at - MaxClients = c /\ at # c
    BY <1>3, Sizes, Numbers
  <2>1. slot[c].hrevents # {}
    BY <2>0 DEF IInv, Announcements
  <2>2. slot[c].http # 0 /\ ("POLLHUP" \in slot[c].hrevents => server[slot[c].http].state = "reset")
    BY <2>1 DEF IInv, Announcements
  <2>3. slot[c].fd \in Users /\ slot[c].cached # EMPTY /\ slot[c].http \in fds
    BY <2>2 DEF IInv, Apart
  <2>4. slot[c].fd \in fds
    BY <2>3 DEF IInv, Apart
  <2>5. slot[c].http \in Servers /\ slot[c].cached \in Entries
    BY <1>1, <2>2, <2>3, SlotFacts
  <2>6. QED
    BY <2>0, <2>1, <2>2, <2>3, <2>4, <2>5
<1>4. QED
  BY <1>2, <1>3

\* The visit of a descriptor that changes nothing, or takes the request in.
LEMMA Passes ==
    ASSUME IInv, NEW k \in 0..2 * MaxClients, Goes(slot, k), TypeOK',
           UNCHANGED <<cacheVars, accepted, fds, dead, server, heirs, readVars>>,
           \A u \in Users : /\ user'[u].state = user[u].state /\ user'[u].ask = user[u].ask
                            /\ user'[u].got = user[u].got
                            /\ user'[u].unread => user[u].unread
    PROVE  IInv'
<1>1. slot \in [Slots -> SlotRec]
  BY Types DEF IInv
<1>2. Going /\ \A d \in Slots : After(d, slot[d])
  BY <1>1, GoesOn
<1>3. ResetsStay
  BY DEF ResetsStay
<1>4. Announcements'
  BY <1>2, <1>3, StillTold, AllTold
<1>5. FreeOnlyAfterReset'
  BY DEF IInv, FreeOnlyAfterReset
<1>6. QED
  BY <1>2, <1>4, <1>5, Calm DEF After

LEMMA AcceptsNobodySteps ==
    ASSUME IInv, AcceptsNobody \/ \E c \in Slots : ReadFails(c)
    PROVE  IInv'
<1>1. PICK k \in 0..MaxClients : Goes(slot, k)
  BY Sizes DEF AcceptsNobody, ReadFails, Slots
<1>2. UNCHANGED <<cacheVars, accepted, fds, dead, user, server, rangeOf, heirs, readVars>>
  BY DEF AcceptsNobody, ReadFails, peerVars
<1>3. k \in 0..2 * MaxClients
  BY Sizes
<1>4. slot \in [Slots -> SlotRec]
  BY Types DEF IInv
<1>5. slot' \in [Slots -> SlotRec] /\ at' \in 0..Polling
  <2>1. Going
    BY <1>1, <1>3, <1>4, GoesOn
  <2>2. QED
    BY <2>1, Sizes DEF Going, Polling
<1>6. TypeOK'
  BY <1>2, <1>5 DEF IInv, TypeOK, cacheVars, SlotRec
<1>7. QED
  BY <1>1, <1>2, <1>3, <1>6, Passes

\* The process dies where it is.
LEMMA Dies ==
    ASSUME IInv, dead' \in {"pipe", "free"}, FreeOnlyAfterReset',
           UNCHANGED <<slot, at, cacheVars, accepted, fds, peerVars, heirs, readVars>>
    PROVE  IInv'
<1>1. TypeOK'
  BY DEF IInv, TypeOK, cacheVars, peerVars
<1>2. Announcements'
  BY DEF IInv, Announcements, peerVars
<1>3. \A d \in Slots : Same(d, slot[d])
  BY DEF Same
<1>4. UNCHANGED <<cacheVars, accepted, fds, server, heirs, readVars>> /\ user' = user
  BY DEF peerVars
<1>5. QED
  BY <1>1, <1>2, <1>3, <1>4, Calm

LEMMA DiesSteps ==
    ASSUME IInv, NEW c \in Slots, ConnectRefused(c) \/ FreesNothing(c)
    PROVE  IInv'
<1>1. CASE ConnectRefused(c)
  <2>1. dead' = "pipe" /\ UNCHANGED <<slot, at, cacheVars, accepted, fds, peerVars, heirs, readVars>>
    BY <1>1 DEF ConnectRefused
  <2>2. FreeOnlyAfterReset'
    BY <2>1 DEF FreeOnlyAfterReset
  <2>3. QED
    BY <2>1, <2>2, Dies
<1>2. CASE FreesNothing(c)
  <2>1. dead' = "free" /\ UNCHANGED <<slot, at, cacheVars, accepted, fds, peerVars, heirs, readVars>>
    BY <1>2 DEF FreesNothing
  <2>2. at = c + MaxClients
        /\ (slot[c].hrevents = {"POLLHUP"} \/ server[slot[c].http].state = "reset")
    BY <1>2 DEF FreesNothing, ServerFails, Loads
  <2>3. slot[c].http \in Servers /\ server[slot[c].http].state = "reset"
    BY <2>2, Visited
  <2>4. server' = server
    BY <2>1 DEF peerVars
  <2>5. FreeOnlyAfterReset'
    BY <2>3, <2>4 DEF FreeOnlyAfterReset
  <2>6. QED
    BY <2>1, <2>5, Dies
<1>3. QED
  BY <1>1, <1>2

LEMMA SendFailsSteps ==
    ASSUME IInv, NEW c \in Slots, SendFails(c)
    PROVE  IInv'
<1>0. UNCHANGED <<cacheVars, accepted, fds, peerVars, heirs, readVars>>
  BY DEF SendFails
<1>1. CASE Goes(slot, c) /\ dead' = dead
  <2>1. c \in 0..2 * MaxClients
    BY Sizes, Numbers
  <2>2. slot \in [Slots -> SlotRec]
    BY Types DEF IInv
  <2>3. slot' \in [Slots -> SlotRec] /\ at' \in 0..Polling
    <3>1. Going
      BY <1>1, <2>1, <2>2, GoesOn
    <3>2. QED
      BY <3>1, Sizes DEF Going, Polling
  <2>4. TypeOK'
    BY <1>0, <1>1, <2>3 DEF IInv, TypeOK, cacheVars, peerVars, SlotRec
  <2>5. UNCHANGED <<cacheVars, accepted, fds, dead, server, heirs, readVars>> /\ user' = user
    BY <1>0, <1>1 DEF peerVars
  <2>6. QED
    BY <1>1, <2>1, <2>4, <2>5, Passes
<1>2. CASE dead' = "pipe" /\ UNCHANGED <<slot, at>>
  <2>1. FreeOnlyAfterReset'
    BY <1>2 DEF FreeOnlyAfterReset
  <2>2. UNCHANGED <<slot, at, cacheVars, accepted, fds, peerVars, heirs, readVars>>
    BY <1>0, <1>2
  <2>3. QED
    BY <1>2, <2>1, <2>2, Dies
<1>3. QED
  BY <1>1, <1>2 DEF SendFails

\* Taking a request in.
LEMMA ReadIn ==
    ASSUME IInv, NEW c \in Slots, at = c
    PROVE  /\ Read(c) \in [Users -> UserRec]
           /\ \A u \in Users :
                 /\ Read(c)[u].state = user[u].state /\ Read(c)[u].ask = user[u].ask
                 /\ Read(c)[u].got = user[u].got
                 /\ Read(c)[u].unread <=> (user[u].unread /\ u # slot[c].fd)
<1>1. slot[c].fd \in Users /\ user \in [Users -> UserRec]
  BY Visited, Types DEF IInv
<1>2. PICK f \in Users : f = slot[c].fd
  BY <1>1
<1>3. user[f] \in UserRec
  BY <1>1
<1>4. PICK r : r = [user[f] EXCEPT !.unread = FALSE]
  OBVIOUS
<1>5. /\ r \in UserRec /\ r.state = user[f].state /\ r.ask = user[f].ask
      /\ r.got = user[f].got /\ (r.unread <=> FALSE)
  BY <1>3, <1>4 DEF UserRec
<1>6. Read(c) = [user EXCEPT ![f] = r]
  BY <1>2, <1>4 DEF Read
<1>7. Read(c) \in [Users -> UserRec] /\ Read(c)[f] = r
      /\ \A u \in Users : u # f => Read(c)[u] = user[u]
  BY <1>1, <1>5, <1>6
<1>8. QED
  BY <1>2, <1>5, <1>7

LEMMA RefusesHttpsSteps ==
    ASSUME IInv, NEW c \in Slots, Refuses(c), user[slot[c].fd].ask = "https"
    PROVE  IInv'
<1>1. /\ at = c /\ Goes(slot, c) /\ user' = Read(c)
      /\ UNCHANGED <<cacheVars, accepted, fds, dead, server, rangeOf, heirs, readVars>>
  BY DEF Refuses, ReadsRequest, Reads
<1>2. c \in 0..2 * MaxClients
  BY Sizes, Numbers
<1>3. slot \in [Slots -> SlotRec]
  BY Types DEF IInv
<1>4. slot' \in [Slots -> SlotRec] /\ at' \in 0..Polling
  <2>1. Going
    BY <1>1, <1>2, <1>3, GoesOn
  <2>2. QED
    BY <2>1, Sizes DEF Going, Polling
<1>5. user' \in [Users -> UserRec]
      /\ \A u \in Users : /\ user'[u].state = user[u].state /\ user'[u].ask = user[u].ask
                          /\ user'[u].got = user[u].got
                          /\ user'[u].unread => user[u].unread
  BY <1>1, ReadIn
<1>6. TypeOK'
  BY <1>1, <1>4, <1>5 DEF IInv, TypeOK, cacheVars, SlotRec, UserRec
<1>7. UNCHANGED <<cacheVars, accepted, fds, dead, server, heirs, readVars>>
  BY <1>1
<1>8. QED
  BY <1>1, <1>2, <1>5, <1>6, <1>7, Passes

\* What poll announces is there and true.
LEMMA PollTells ==
    ASSUME IInv, NEW c \in Slots, NEW W \in SUBSET Slots
    PROVE  /\ UserEvents(c, c \in W) \in SUBSET {"POLLIN", "POLLOUT", "POLLHUP"}
           /\ UserEvents(c, c \in W) # {} => slot[c].fd \in Users
           /\ "POLLHUP" \in UserEvents(c, c \in W) => user[slot[c].fd].state = "reset"
           /\ ServerEvents(c) \in SUBSET {"POLLIN", "POLLHUP"}
           /\ ServerEvents(c) # {} => slot[c].http # 0
           /\ "POLLHUP" \in ServerEvents(c) => server[slot[c].http].state = "reset"
<1>1. slot[c].events \in SUBSET {"POLLIN", "POLLOUT"}
  <2>1. slot[c] \in SlotRec
    BY Types DEF IInv
  <2>2. QED
    BY <2>1 DEF SlotRec
<1>2. "POLLHUP" \notin slot[c].events
  BY <1>1
<1>3. /\ UserEvents(c, c \in W) \in SUBSET {"POLLIN", "POLLOUT", "POLLHUP"}
      /\ UserEvents(c, c \in W) # {} => slot[c].fd \in Users
  BY <1>1 DEF UserEvents
<1>4. "POLLHUP" \in UserEvents(c, c \in W) => user[slot[c].fd].state = "reset"
  BY <1>2 DEF UserEvents
<1>5. /\ ServerEvents(c) \in SUBSET {"POLLIN", "POLLHUP"}
      /\ ServerEvents(c) # {} => slot[c].http # 0
      /\ "POLLHUP" \in ServerEvents(c) => server[slot[c].http].state = "reset"
  BY DEF ServerEvents
<1>6. QED
  BY <1>3, <1>4, <1>5

LEMMA PollSteps ==
    ASSUME IInv, NEW W \in SUBSET Slots, Poll(W)
    PROVE  IInv'
<1> DEFINE sl == Polled(W)
<1>1. UNCHANGED <<cacheVars, accepted, fds, dead, user, server, rangeOf, heirs, readVars>>
  BY DEF Poll, peerVars
<1>2. \A c \in Slots :
        \E r \in SlotRec :
          /\ sl[c] = r /\ r.fd = slot[c].fd /\ r.http = slot[c].http
          /\ r.cached = slot[c].cached /\ r.sent = slot[c].sent /\ r.ends = slot[c].ends
          /\ r.revents = UserEvents(c, c \in W) /\ r.hrevents = ServerEvents(c)
  <2> SUFFICES ASSUME NEW c \in Slots
               PROVE  \E r \in SlotRec :
          /\ sl[c] = r /\ r.fd = slot[c].fd /\ r.http = slot[c].http
          /\ r.cached = slot[c].cached /\ r.sent = slot[c].sent /\ r.ends = slot[c].ends
          /\ r.revents = UserEvents(c, c \in W) /\ r.hrevents = ServerEvents(c)
    OBVIOUS
  <2>1. PICK ev \in SUBSET {"POLLIN", "POLLOUT", "POLLHUP"} : ev = UserEvents(c, c \in W)
    BY PollTells
  <2>2. PICK he \in SUBSET {"POLLIN", "POLLHUP"} : he = ServerEvents(c)
    BY PollTells
  <2>3. PICK o : o = slot[c]
    OBVIOUS
  <2>4. o \in SlotRec
    BY <2>3, Types DEF IInv
  <2>5. PICK r : r = [o EXCEPT !.revents = ev, !.hrevents = he]
    OBVIOUS
  <2>6. /\ r \in SlotRec /\ r.fd = o.fd /\ r.http = o.http /\ r.cached = o.cached
        /\ r.sent = o.sent /\ r.ends = o.ends /\ r.revents = ev /\ r.hrevents = he
    BY <2>4, <2>5 DEF SlotRec
  <2>7. sl[c] = r
    BY <2>1, <2>2, <2>3, <2>5 DEF Polled
  <2>8. QED
    BY <2>1, <2>2, <2>3, <2>6, <2>7
<1>3. sl \in [Slots -> SlotRec]
  <2>1. sl = [c \in Slots |-> sl[c]]
    BY DEF Polled
  <2>2. \A c \in Slots : sl[c] \in SlotRec
    BY <1>2
  <2> HIDE DEF sl
  <2>3. QED
    BY <2>1, <2>2
<1>4. /\ slot' \in [Slots -> SlotRec] /\ at' \in 0..Polling /\ \A d \in Slots : Same(d, slot[d])
      /\ Announcements'
  <2>a. \A c \in Slots : /\ UserEvents(c, c \in W) # {} => slot[c].fd \in Users
                         /\ "POLLHUP" \in UserEvents(c, c \in W) =>
                                user[slot[c].fd].state = "reset"
                         /\ ServerEvents(c) # {} => slot[c].http # 0
                         /\ "POLLHUP" \in ServerEvents(c) =>
                                server[slot[c].http].state = "reset"
    BY PollTells
  <2>1. CASE Queue # {}
    <3>1. at' = 0 /\ slot' = sl
      BY <2>1 DEF Poll
    <3>2. accepted' < Conns
      <4>1. accepted \in Nat /\ accepted' = accepted
        BY <1>1, Types DEF IInv
      <4>2. QED
        BY <2>1, <4>1, Numbers, Sizes DEF Queue
    <3>3. \A d \in Slots : Same(d, slot[d]) /\ Told(d)
      BY <1>1, <1>2, <2>a, <3>1 DEF Same, Told
    <3>4. Announcements'
      BY <3>1, <3>2, <3>3, Sizes, Numbers DEF Announcements, Told
    <3>5. QED
      BY <1>3, <3>1, <3>3, <3>4, Sizes DEF Polling
  <2>2. CASE Queue = {}
    <3>0. 0 \in 0..2 * MaxClients
      BY Sizes
    <3>1. Goes(sl, 0)
      BY <2>2 DEF Poll
    <3>2. Going /\ \A d \in Slots : After(d, sl[d])
      BY <1>3, <3>0, <3>1, GoesOn
    <3>3. \A d \in Slots : Same(d, slot[d]) /\ Told(d)
      BY <1>1, <1>2, <2>a, <3>2 DEF After, Same, Told
    <3>4. Announcements'
      BY <3>2, <3>3, AllTold
    <3>5. QED
      BY <3>2, <3>3, <3>4, Sizes DEF Going, Polling
  <2>3. QED
    BY <2>1, <2>2
<1>5. TypeOK'
  BY <1>1, <1>4 DEF IInv, TypeOK, cacheVars, SlotRec
<1>6. FreeOnlyAfterReset'
  BY <1>1 DEF IInv, FreeOnlyAfterReset
<1>7. QED
  BY <1>1, <1>4, <1>5, <1>6, Calm

-----------------------------------------------------------------------------
(* The peers. *)

\* A user changes: it is not waiting again, and what it has is its page or nothing.
LEMMA UserSteps ==
    ASSUME IInv, NEW u \in Users, NEW r \in UserRec, user' = [user EXCEPT ![u] = r],
           UNCHANGED <<procVars, server, rangeOf>>,
           user[u].state = "reset" => r.state = "reset",
           r.state \in {"away", "open"} => user[u].state \in {"away", "open"},
           r.state = "away" => user[u].state = "away" /\ r.ask = NoTitle,
           u > accepted => r.state \in {"away", "open"} /\ r.ask = NoTitle /\ ~r.unread,
           r.unread => u \in fds /\ r.ask # NoTitle /\ r.state \in {"open", "shut"},
           r.ask = NoTitle /\ r.state = "open" => user[u].ask = NoTitle,
           r.unread => Waiting(u),
           r.got # <<>> => r.got = user[u].got /\ r.ask = user[u].ask /\ r.state = "open",
           r.state = "open" => \/ /\ user[u].state = "open" /\ r.got = user[u].got
                                  /\ r.ask = user[u].ask
                               \/ Waiting(u) \/ u \notin fds
    PROVE  IInv'
<1>0. /\ slot' = slot /\ cache' = cache /\ cacheProperty' = cacheProperty
      /\ cacheIndex' = cacheIndex /\ cacheSize' = cacheSize /\ at' = at
      /\ accepted' = accepted /\ fds' = fds /\ dead' = dead /\ heirs' = heirs
      /\ server' = server /\ rangeOf' = rangeOf /\ mixed' = mixed /\ misled' = misled
  BY DEF procVars, cacheVars
<1>1. user' \in [Users -> UserRec] /\ user'[u] = r /\ \A v \in Users : v # u => user'[v] = user[v]
  BY Types DEF IInv
<1>2. TypeOK'
  BY <1>0, <1>1 DEF IInv, TypeOK, UserRec
<1>3. Apart' /\ Downloads' /\ Speech' /\ Entered' /\ Pages' /\ FreeOnlyAfterReset'
  <2>1. Apart' /\ Downloads'
    BY <1>0 DEF IInv, Apart, Downloads
  <2>2. Speech' /\ Entered' /\ Pages'
    BY <1>0 DEF IInv, Speech, Used, Entered, Pages
  <2>3. FreeOnlyAfterReset'
    BY <1>0 DEF IInv, FreeOnlyAfterReset
  <2>4. QED
    BY <2>1, <2>2, <2>3
<1>4. Announcements'
  <2>1. ResetsStay
    BY <1>0, <1>1 DEF ResetsStay
  <2>2. \A d \in Slots : After(d, slot[d])
    BY <1>0 DEF After, Same
  <2>3. \A d \in Slots : Told(d)
    BY <2>1, <2>2, StillTold
  <2>4. QED
    BY <1>0, <2>3 DEF IInv, Announcements, Told
<1>5. Requests'
  <2>1. ASSUME NEW v \in Users, Waiting(v)' PROVE Waiting(v)
    <3>1. CASE v # u
      BY <1>0, <1>1, <2>1, <3>1 DEF Waiting
    <3>2. CASE v = u
      <4>1. user[u].state = "away" => user[u].ask = NoTitle
        BY DEF IInv, Requests
      <4>2. r.state = "away" => user[u].ask = NoTitle
        BY <4>1
      <4>3. \/ u \in fds /\ r.state \in {"away", "open"} /\ r.ask = NoTitle
            \/ r.unread \/ u > accepted
        BY <1>0, <1>1, <2>1, <3>2 DEF Waiting
      <4>4. QED
        BY <3>2, <4>2, <4>3 DEF Waiting
    <3>3. QED
      BY <3>1, <3>2
  <2>2. ASSUME NEW v \in Users, Waiting(v)'
        PROVE  /\ server'[Conns + v].state = "unused" /\ user'[v].got = <<>>
               /\ \A c \in Slots : slot'[c].fd = v =>
                      slot'[c].http = 0 /\ slot'[c].cached = EMPTY
    BY <1>0, <1>1, <2>1, <2>2 DEF IInv, Requests
  <2>3. ASSUME NEW v \in Users
        PROVE  /\ v > accepted' => /\ v \notin fds' /\ user'[v].state \in {"away", "open"}
                                   /\ user'[v].ask = NoTitle /\ ~user'[v].unread
               /\ user'[v].unread =>
                      v \in fds' /\ user'[v].ask # NoTitle /\ user'[v].state \in {"open", "shut"}
               /\ user'[v].state = "away" => user'[v].ask = NoTitle
               /\ user'[v].got # <<>> => user'[v].state = "open" /\ user'[v].ask \in Titles
    <3>1. CASE v # u
      BY <1>0, <1>1, <3>1 DEF IInv, Requests
    <3>2. CASE v = u
      BY <1>0, <1>1, <3>2 DEF IInv, Requests
    <3>3. QED
      BY <3>1, <3>2
  <2>4. QED
    BY <2>2, <2>3 DEF Requests
<1>6. Readers'
  <2>1. ASSUME NEW c \in Slots, slot[c].cached # EMPTY, slot[c].fd = u, r.state = "open"
        PROVE  user[u].state = "open" /\ r.got = user[u].got /\ r.ask = user[u].ask
    <3>1. ~Waiting(u) /\ u \in fds
      BY <2>1 DEF IInv, Requests, Apart
    <3>2. QED
      BY <2>1, <3>1
  <2>2. QED
    BY <1>0, <1>1, <2>1 DEF IInv, Readers
<1>7. Leak'
  <2>1. Lost' = Lost
    BY <1>0 DEF Lost
  <2>2. user[u].state \in {"shut", "reset"} => r.state \in {"shut", "reset"}
    BY UserFacts
  <2>3. HungUp \subseteq HungUp'
    BY <1>0, <1>1, <2>2 DEF HungUp
  <2>4. QED
    BY <1>2, <2>1, <2>3, LeakKept DEF IInv
<1>8. InOrder'
  <2>1. r.got # <<>> \/ \A i \in DOMAIN r.got : FALSE
    BY UserFacts
  <2>2. \A v \in Users : v # u => user'[v] = user[v]
    BY <1>1
  <2>3. QED
    BY <1>0, <1>1, <2>1 DEF IInv, InOrder
<1>9. FoundIsServed'
  <2>1. Patient' => Patient
    BY <1>0, <1>1 DEF Patient
  <2>2. QED
    BY <1>0, <2>1 DEF IInv, FoundIsServed, With
<1>10. QED
  BY <1>2, <1>3, <1>4, <1>5, <1>6, <1>7, <1>8, <1>9 DEF IInv

LEMMA UsersStep ==
    ASSUME IInv, NEW u \in Users,
           \/ UserConnects(u) \/ UserLeaves(u) \/ UserResets(u)
           \/ \E a \in Titles \union Others : UserAsks(u, a)
    PROVE  IInv'
<1>1. PICK o : o = user[u]
  OBVIOUS
<1>2. o \in UserRec
  BY <1>1, Types DEF IInv
<1>3. u \in fds => ~(u > accepted)
  BY DEF IInv, Requests
<1>4. o.unread => u \in fds /\ o.ask # NoTitle /\ o.state \in {"open", "shut"}
  BY <1>1 DEF IInv, Requests
<1>5. o.got # <<>> => o.state = "open"
  BY <1>1 DEF IInv, Requests
<1>6. o.state = "away" => o.ask = NoTitle
  BY <1>1 DEF IInv, Requests
<1>7. u > accepted => o.ask = NoTitle /\ ~o.unread
  BY <1>1 DEF IInv, Requests
<1>8. CASE UserConnects(u)
  <2>1. PICK r : r = [o EXCEPT !.state = "open"]
    OBVIOUS
  <2>2. /\ r \in UserRec /\ r.state = "open" /\ r.ask = o.ask /\ (r.unread <=> o.unread)
        /\ r.got = o.got
    BY <1>2, <2>1 DEF UserRec
  <2>3. /\ user' = [user EXCEPT ![u] = r] /\ user[u].state = "away"
        /\ UNCHANGED <<procVars, server, rangeOf>>
    BY <1>1, <1>8, <2>1 DEF UserConnects
  <2>4. ~r.unread /\ r.got = <<>> /\ o.ask = NoTitle
    BY <1>1, <1>4, <1>5, <1>6, <2>2, <2>3
  <2>5. u \in fds => Waiting(u)
    BY <1>1, <2>3, <2>4 DEF Waiting
  <2>6. QED
    BY <1>1, <2>2, <2>3, <2>4, <2>5, UserSteps
<1>9. CASE UserLeaves(u)
  <2>1. PICK r : r = [o EXCEPT !.state = "shut", !.got = <<>>]
    OBVIOUS
  <2>2. /\ r \in UserRec /\ r.state = "shut" /\ r.ask = o.ask /\ (r.unread <=> o.unread)
        /\ r.got = <<>>
    <3>1. PICK z \in Seq(Token) : z = <<>>
      BY EmptySeq
    <3>2. r = [o EXCEPT !.state = "shut", !.got = z]
      BY <2>1, <3>1
    <3>3. /\ r \in UserRec /\ r.state = "shut" /\ r.ask = o.ask /\ (r.unread <=> o.unread)
          /\ r.got = z
      BY <1>2, <3>2 DEF UserRec
    <3>4. QED
      BY <3>1, <3>3
  <2>3. /\ user' = [user EXCEPT ![u] = r] /\ user[u].state = "open" /\ u \in fds
        /\ UNCHANGED <<procVars, server, rangeOf>>
    BY <1>1, <1>9, <2>1 DEF UserLeaves, Accepted
  <2>4. r.unread => u \in fds /\ r.ask # NoTitle
    BY <1>4, <2>2
  <2>5. r.unread => Waiting(u)
    BY <1>1, <2>2 DEF Waiting
  <2>6. QED
    BY <1>1, <1>3, <2>2, <2>3, <2>4, <2>5, UserSteps
<1>10. CASE UserResets(u)
  <2>1. PICK r : r = [state |-> "reset", ask |-> NoTitle, unread |-> FALSE, got |-> <<>>]
    OBVIOUS
  <2>2. /\ r \in UserRec /\ r.state = "reset" /\ r.ask = NoTitle /\ (r.unread <=> FALSE)
        /\ r.got = <<>>
    BY <2>1 DEF UserRec
  <2>3. /\ user' = [user EXCEPT ![u] = r] /\ user[u].state \in {"open", "shut"} /\ u \in fds
        /\ UNCHANGED <<procVars, server, rangeOf>>
    BY <1>10, <2>1 DEF UserResets, Accepted
  <2>4. QED
    BY <1>1, <1>3, <2>2, <2>3, UserSteps
<1>11. ASSUME NEW a \in Titles \union Others, UserAsks(u, a) PROVE IInv'
  <2>1. PICK r : r = [o EXCEPT !.ask = a, !.unread = TRUE]
    OBVIOUS
  <2>2. /\ r \in UserRec /\ r.state = o.state /\ r.ask = a /\ (r.unread <=> TRUE)
        /\ r.got = o.got
    BY <1>2, <2>1 DEF UserRec
  <2>3. /\ user' = [user EXCEPT ![u] = r] /\ o.state = "open" /\ u \in fds
        /\ o.ask = NoTitle /\ UNCHANGED <<procVars, server, rangeOf>>
    BY <1>1, <1>11, <2>1 DEF UserAsks, Accepted
  <2>4. a # NoTitle
    BY Pro31Assumption DEF NoTitle
  <2>5. Waiting(u)
    BY <1>1, <2>3 DEF Waiting
  <2>6. o.got = <<>>
    BY <1>1, <2>5 DEF IInv, Requests
  <2>7. QED
    BY <1>1, <1>3, <2>2, <2>3, <2>4, <2>5, <2>6, UserSteps
<1>12. QED
  BY <1>8, <1>9, <1>10, <1>11

\* A server changes: it keeps its title, and what was read of it.
LEMMA ServerStep31 ==
    ASSUME IInv, NEW s \in Servers, NEW r \in ServerRec, server' = [server EXCEPT ![s] = r],
           UNCHANGED <<procVars, user, rangeOf>>,
           server[s].state # "unused", r.state # "unused", r.title = server[s].title,
           server[s].state = "reset" => r.state = "reset",
           r.unread <= r.said, r.state = "reset" => r.unread = 0,
           r.state # "reset" => r.said - r.unread = server[s].said - server[s].unread
    PROVE  IInv'
<1>0. /\ slot' = slot /\ cache' = cache /\ cacheProperty' = cacheProperty
      /\ cacheIndex' = cacheIndex /\ cacheSize' = cacheSize /\ at' = at
      /\ accepted' = accepted /\ fds' = fds /\ dead' = dead /\ heirs' = heirs
      /\ user' = user /\ rangeOf' = rangeOf /\ mixed' = mixed /\ misled' = misled
  BY DEF procVars, cacheVars
<1>1. server' \in [Servers -> ServerRec] /\ server'[s] = r
      /\ \A v \in Servers : v # s => server'[v] = server[v]
  BY Types DEF IInv
<1>2. TypeOK'
  BY <1>0, <1>1 DEF IInv, TypeOK, ServerRec
<1>3. Used' = Used /\ \A v \in Servers : server'[v].state = "unused" <=> server[v].state = "unused"
  BY <1>1 DEF Used
<1>4. Apart' /\ Entered' /\ Pages' /\ Readers' /\ InOrder'
  <2>1. Apart' /\ Readers' /\ InOrder'
    BY <1>0 DEF IInv, Apart, Readers, InOrder
  <2>2. Entered' /\ Pages'
    BY <1>0, <1>3 DEF IInv, Entered, Pages
  <2>3. QED
    BY <2>1, <2>2
<1>5. ResetsStay
  BY <1>0, <1>1 DEF ResetsStay
<1>6. Announcements'
  <2>1. \A d \in Slots : After(d, slot[d])
    BY <1>0 DEF After, Same
  <2>2. \A d \in Slots : Told(d)
    BY <1>5, <2>1, StillTold
  <2>3. QED
    BY <1>0, <2>2 DEF IInv, Announcements, Told
<1>7. Downloads'
  <2>1. ASSUME NEW v \in Servers
        PROVE  /\ server'[v].title = server[v].title
               /\ server'[v].state # "reset" =>
                     /\ server[v].state # "reset"
                     /\ server'[v].said - server'[v].unread = server[v].said - server[v].unread
    BY <1>1
  <2>2. \A c \in Slots : slot[c].http # 0 => slot[c].http \in Servers
    BY Types, SlotFacts DEF IInv
  <2>3. QED
    BY <1>0, <2>1, <2>2 DEF IInv, Downloads
<1>8. Requests'
  <2>1. \A v \in Users : Waiting(v)' => Waiting(v)
    BY <1>0 DEF Waiting
  <2>2. \A v \in Users : Conns + v \in Servers
    BY Numbers
  <2>3. QED
    BY <1>0, <1>3, <2>1, <2>2 DEF IInv, Requests
<1>9. Speech'
  <2>1. ASSUME NEW v \in Servers
        PROVE  /\ v \notin Used' => v \notin fds' /\ server'[v].said = 0
               /\ server'[v].unread <= server'[v].said
               /\ server'[v].state = "reset" => server'[v].unread = 0
    <3>1. CASE v = s
      <4>1. s \in Used'
        BY <1>3 DEF Used
      <4>2. QED
        BY <1>1, <3>1, <4>1
    <3>2. CASE v # s
      BY <1>0, <1>1, <1>3, <3>2 DEF IInv, Speech
    <3>3. QED
      BY <3>1, <3>2
  <2>2. QED
    BY <2>1 DEF Speech
<1>10. Leak'
  BY <1>0 DEF IInv, Leak, Lost, HungUp
<1>11. FreeOnlyAfterReset'
  BY <1>0, <1>5 DEF IInv, FreeOnlyAfterReset, ResetsStay
<1>12. FoundIsServed'
  <2>1. Patient' => Patient
    BY <1>0, <1>5 DEF Patient, ResetsStay
  <2>2. QED
    BY <1>0, <2>1 DEF IInv, FoundIsServed, With
<1>13. QED
  BY <1>2, <1>4, <1>6, <1>7, <1>8, <1>9, <1>10, <1>11, <1>12 DEF IInv

LEMMA ServersStep ==
    ASSUME IInv, NEW s \in Servers, ServerSends(s) \/ ServerLeaves(s) \/ ServerResets(s)
    PROVE  IInv'
<1>1. PICK o : o = server[s]
  OBVIOUS
<1>2. o \in ServerRec
  BY <1>1, Types DEF IInv
<1>3. PICK n \in Nat, m \in Nat : n = o.said /\ m = o.unread /\ m <= n /\ n <= Length
  <2>1. o.said \in Nat /\ o.unread \in Nat /\ o.said <= Length
    BY <1>2, ServerFacts
  <2>2. o.unread <= o.said
    BY <1>1 DEF IInv, Speech
  <2>3. QED
    BY <2>1, <2>2
<1>4. CASE ServerSends(s)
  <2>1. /\ o.state = "open" /\ n < Length /\ UNCHANGED <<procVars, user, rangeOf>>
        /\ server' = [server EXCEPT ![s].said = @ + 1, ![s].unread = @ + 1]
    BY <1>1, <1>3, <1>4 DEF ServerSends
  <2>2. PICK r : r = [o EXCEPT !.said = n + 1, !.unread = m + 1]
    OBVIOUS
  <2>3. n + 1 \in 0..Length /\ m + 1 \in 0..Length
    BY <1>3, <2>1, Sizes
  <2>4. /\ r \in ServerRec /\ r.state = o.state /\ r.title = o.title
        /\ r.said = n + 1 /\ r.unread = m + 1
    BY <1>2, <2>2, <2>3 DEF ServerRec
  <2>5. server' = [server EXCEPT ![s] = r]
    BY <1>1, <1>3, <2>1, <2>2
  <2>6. r.unread <= r.said /\ r.said - r.unread = o.said - o.unread
    BY <1>3, <2>4
  <2>7. QED
    BY <1>1, <2>1, <2>4, <2>5, <2>6, ServerStep31
<1>5. CASE ServerLeaves(s)
  <2>1. /\ o.state = "open" /\ UNCHANGED <<procVars, user, rangeOf>>
        /\ server' = [server EXCEPT ![s].state = "shut"]
    BY <1>1, <1>5 DEF ServerLeaves
  <2>2. PICK r : r = [o EXCEPT !.state = "shut"]
    OBVIOUS
  <2>3. /\ r \in ServerRec /\ r.state = "shut" /\ r.title = o.title
        /\ r.said = o.said /\ r.unread = o.unread
    BY <1>2, <2>2 DEF ServerRec
  <2>4. server' = [server EXCEPT ![s] = r]
    BY <1>1, <2>1, <2>2
  <2>5. QED
    BY <1>1, <1>3, <2>1, <2>3, <2>4, ServerStep31
<1>6. CASE ServerResets(s)
  <2>1. /\ o.state \in {"open", "shut"} /\ UNCHANGED <<procVars, user, rangeOf>>
        /\ server' = [server EXCEPT ![s].state = "reset", ![s].unread = 0]
    BY <1>1, <1>6 DEF ServerResets
  <2>2. PICK r : r = [o EXCEPT !.state = "reset", !.unread = 0]
    OBVIOUS
  <2>3. 0 \in 0..Length
    BY Sizes
  <2>4. /\ r \in ServerRec /\ r.state = "reset" /\ r.title = o.title
        /\ r.said = o.said /\ r.unread = 0
    BY <1>2, <2>2, <2>3 DEF ServerRec
  <2>5. server' = [server EXCEPT ![s] = r]
    BY <1>1, <2>1, <2>2
  <2>6. r.unread <= r.said
    BY <1>3, <2>4
  <2>7. QED
    BY <1>1, <2>1, <2>4, <2>5, <2>6, ServerStep31
<1>7. QED
  BY <1>4, <1>5, <1>6

-----------------------------------------------------------------------------
(* Steps that change a slot. *)

LEMMA PutOn ==
    ASSUME IInv, NEW c \in Slots, NEW r \in SlotRec, NEW k \in 0..2 * MaxClients,
           Goes([slot EXCEPT ![c] = r], k)
    PROVE  /\ Going /\ slot' \in [Slots -> SlotRec] /\ at' \in 0..Polling
           /\ After(c, r) /\ \A d \in Slots : d # c => After(d, slot[d])
           /\ k = c => slot'[c].revents = {}
           /\ k = c + MaxClients => slot'[c].hrevents = {}
<1>1. PICK sl \in [Slots -> SlotRec] : sl = [slot EXCEPT ![c] = r]
  BY Types DEF IInv
<1>2. sl[c] = r /\ \A d \in Slots : d # c => sl[d] = slot[d]
  <2>1. slot \in [Slots -> SlotRec]
    BY Types DEF IInv
  <2>2. QED
    BY <1>1, <2>1
<1>3. Goes(sl, k)
  BY <1>1
<1>4. /\ Going /\ \A d \in Slots : After(d, sl[d])
      /\ k \in Slots => slot'[k].revents = {}
      /\ \A d \in Slots : k = d + MaxClients => slot'[d].hrevents = {}
  BY <1>3, GoesOn
<1>5. slot' \in [Slots -> SlotRec] /\ at' \in 0..Polling
  BY <1>4, Sizes DEF Going, Polling
<1>6. QED
  BY <1>2, <1>4, <1>5

\* A free slot has nothing.
LEMMA FreeIsFree ==
    ASSUME IInv, NEW c \in Slots, slot[c].fd \notin Users
    PROVE  slot[c].http = 0 /\ slot[c].cached = EMPTY /\ slot[c].revents = {}
           /\ slot[c].hrevents = {}
<1>1. slot[c].http = 0 /\ slot[c].cached = EMPTY
  BY DEF IInv, Apart, Readers
<1>2. slot[c].revents = {} /\ slot[c].hrevents = {}
  BY <1>1 DEF IInv, Announcements
<1>3. QED
  BY <1>1, <1>2

\* accept gives a free slot v: the next user, or -1.
LEMMA Accepting ==
    ASSUME IInv, NEW c \in Slots, slot[c].fd = 0, NEW v, NEW r \in SlotRec,
           Goes([slot EXCEPT ![c] = r], 0),
           r.fd = v, r.http = slot[c].http, r.cached = slot[c].cached,
           r.revents = slot[c].revents, r.hrevents = slot[c].hrevents,
           UNCHANGED <<cacheVars, dead, peerVars, heirs, readVars>>,
           \/ /\ v \in Users /\ v = accepted + 1 /\ accepted' = accepted + 1
              /\ fds' = fds \union {v}
           \/ v = 0 - 1 /\ accepted' = accepted /\ fds' = fds
    PROVE  IInv'
<1>0. /\ cache' = cache /\ cacheProperty' = cacheProperty /\ cacheIndex' = cacheIndex
      /\ cacheSize' = cacheSize /\ dead' = dead /\ heirs' = heirs
      /\ mixed' = mixed /\ misled' = misled
      /\ user' = user /\ server' = server /\ rangeOf' = rangeOf
  BY DEF cacheVars, peerVars
<1>1. /\ slot[c].fd \notin Users /\ slot[c].http = 0 /\ slot[c].cached = EMPTY
      /\ slot[c].revents = {} /\ slot[c].hrevents = {}
  BY FreeIsFree, Numbers
<1>3. v \in Int /\ v # 0 /\ (v \in Users \/ v = 0 - 1)
  BY Sizes, Numbers DEF Users
<1>4. /\ r.fd = v /\ r.http = 0 /\ r.cached = EMPTY /\ r.revents = {} /\ r.hrevents = {}
  BY <1>1
<1>5. 0 \in 0..2 * MaxClients
  BY Sizes
<1>6. /\ Going /\ slot' \in [Slots -> SlotRec] /\ at' \in 0..Polling
      /\ After(c, r) /\ \A d \in Slots : d # c => After(d, slot[d])
  BY <1>4, <1>5, PutOn
<1>7. /\ slot'[c].fd = v /\ slot'[c].http = 0 /\ slot'[c].cached = EMPTY
      /\ slot'[c].revents = {} /\ slot'[c].hrevents = {}
      /\ \A d \in Slots : d # c => Same(d, slot[d])
  BY <1>4, <1>6 DEF After, Same
<1>8. \A d \in Slots : slot'[d].http = slot[d].http /\ slot'[d].cached = slot[d].cached
  BY <1>1, <1>7 DEF Same
<1>9. accepted \in Nat /\ \A u \in Users : u > accepted => u \notin fds
  BY Types DEF IInv, Requests
<1>10. v \in Users => v \notin fds /\ ~(v <= accepted) /\ \A d \in Slots : slot[d].fd # v
  <2>1. v \in Users => v > accepted
    BY <1>3, <1>9, Numbers
  <2>2. v \in Users => v \notin fds
    BY <1>9, <2>1
  <2>3. v \in Users => \A d \in Slots : slot[d].fd # v
    BY <2>2 DEF IInv, Apart
  <2>4. v \in Users => ~(v <= accepted)
    BY <1>9, <2>1, Numbers
  <2>5. QED
    BY <2>2, <2>3, <2>4
<1>11. accepted' \in 0..Conns /\ fds' \subseteq Users \union Servers
  <2>1. fds \subseteq Users \union Servers /\ accepted <= Conns
    BY Types DEF IInv
  <2>2. QED
    BY <1>9, <2>1, Sizes, Numbers
<1>12. TypeOK'
  BY <1>0, <1>6, <1>11 DEF IInv, TypeOK, SlotRec
<1>13. \A u \in Users : u \in fds' <=> u \in fds \/ u = v
  <2>1. 0 - 1 \notin Users
    BY Numbers
  <2>2. QED
    BY <1>3, <2>1
<1>14. \A u \in Users : u > accepted' => u > accepted /\ u # v
  BY <1>9, Numbers
<1>15. Apart'
  <2>1. \A a, d \in Slots : a # d /\ slot'[a].fd \in Users => slot'[a].fd # slot'[d].fd
    BY <1>7, <1>10 DEF Same, IInv, Apart
  <2>2. \A a, d \in Slots : a # d /\ slot'[a].http # 0 => slot'[a].http # slot'[d].http
    BY <1>8 DEF IInv, Apart
  <2>3. \A u \in Users : u \in fds' <=> \E d \in Slots : slot'[d].fd = u
    BY <1>1, <1>7, <1>13 DEF Same, IInv, Apart
  <2>4. \A d \in Slots : slot'[d].http # 0 =>
            slot'[d].fd \in Users /\ slot'[d].cached # EMPTY /\ slot'[d].http \in fds'
    BY <1>7, <1>8 DEF Same, IInv, Apart
  <2>5. QED
    BY <2>1, <2>2, <2>3, <2>4 DEF Apart
<1>16. Announcements'
  <2>1. ResetsStay
    BY <1>0 DEF ResetsStay
  <2>2. \A d \in Slots : d # c => Told(d)
    BY <1>6, <2>1, StillTold
  <2>3. Told(c)
    BY <1>7 DEF Told
  <2>4. QED
    BY <1>6, <2>2, <2>3, AllTold
<1>17. Downloads'
  BY <1>0, <1>7, <1>8 DEF Same, IInv, Downloads
<1>18. Requests'
  <2>1. ASSUME NEW u \in Users, Waiting(u)' PROVE Waiting(u)
    <3>1. CASE u = v
      <4>1. u > accepted
        BY <1>9, <1>10, <3>1, Numbers
      <4>2. QED
        BY <4>1 DEF Waiting
    <3>2. CASE u # v
      BY <1>0, <1>13, <1>14, <2>1, <3>2 DEF Waiting
    <3>3. QED
      BY <3>1, <3>2
  <2>2. ASSUME NEW u \in Users, Waiting(u)'
        PROVE  /\ server'[Conns + u].state = "unused" /\ user'[u].got = <<>>
               /\ \A d \in Slots : slot'[d].fd = u =>
                      slot'[d].http = 0 /\ slot'[d].cached = EMPTY
    BY <1>0, <1>7, <2>1, <2>2 DEF Same, IInv, Requests
  <2>3. ASSUME NEW u \in Users
        PROVE  /\ u > accepted' => /\ u \notin fds' /\ user'[u].state \in {"away", "open"}
                                   /\ user'[u].ask = NoTitle /\ ~user'[u].unread
               /\ user'[u].unread =>
                      u \in fds' /\ user'[u].ask # NoTitle /\ user'[u].state \in {"open", "shut"}
               /\ user'[u].state = "away" => user'[u].ask = NoTitle
               /\ user'[u].got # <<>> => user'[u].state = "open" /\ user'[u].ask \in Titles
    BY <1>0, <1>13, <1>14 DEF IInv, Requests
  <2>4. QED
    BY <2>2, <2>3 DEF Requests
<1>19. Speech' /\ Entered' /\ Pages' /\ FreeOnlyAfterReset'
  <2>1. \A s \in Servers : s \in fds' => s \in fds
    BY <1>3, Numbers
  <2>2. Speech'
    BY <1>0, <2>1 DEF IInv, Speech, Used
  <2>3. Entered' /\ Pages'
    BY <1>0 DEF IInv, Entered, Pages
  <2>4. FreeOnlyAfterReset'
    BY <1>0 DEF IInv, FreeOnlyAfterReset
  <2>5. QED
    BY <2>2, <2>3, <2>4
<1>20. Readers'
  BY <1>0, <1>7 DEF Same, IInv, Readers
<1>21. Leak'
  <2>1. Lost' \subseteq Lost
    <3>1. \A s \in Servers : s \in fds' => s \in fds
      BY <1>3, Numbers
    <3>2. QED
      BY <1>8, <3>1 DEF Lost
  <2>2. HungUp \subseteq HungUp'
    <3>1. ASSUME NEW u \in Users, user[u].state \in {"shut", "reset"}, u \notin fds
          PROVE  u \notin fds'
      <4>1. ~(u > accepted)
        BY <3>1 DEF IInv, Requests
      <4>2. u # v
        BY <1>9, <4>1, Numbers
      <4>3. QED
        BY <1>13, <3>1, <4>2
    <3>2. QED
      BY <1>0, <3>1 DEF HungUp
  <2>3. QED
    BY <1>12, <2>1, <2>2, LeakKept DEF IInv
<1>22. InOrder'
  BY <1>0 DEF IInv, InOrder
<1>23. FoundIsServed'
  BY <1>0, <1>8 DEF IInv, FoundIsServed, Patient, With
<1>24. QED
  BY <1>12, <1>15, <1>16, <1>17, <1>18, <1>19, <1>20, <1>21, <1>22, <1>23 DEF IInv

LEMMA AcceptsSteps ==
    ASSUME IInv, Accepts \/ AcceptFails
    PROVE  IInv'
<1>1. at = 0 /\ Empty # {}
  BY DEF Accepts, AcceptFails
<1>2. PICK c \in Slots : c = Min(Empty) /\ slot[c].fd = 0
  <2>1. Empty \in SUBSET Nat
    BY Numbers DEF Empty
  <2>2. Min(Empty) \in Empty
    BY <1>1, <2>1, Least
  <2>3. QED
    BY <2>2 DEF Empty
<1>3. accepted \in Nat /\ accepted < Conns
  BY <1>1, Types DEF IInv, Announcements
<1>4. PICK o : o = slot[c]
  OBVIOUS
<1>5. slot \in [Slots -> SlotRec] /\ o \in SlotRec
  BY <1>4, Types DEF IInv
<1>6. ASSUME NEW v \in -1..Conns
      PROVE  \E r \in SlotRec :
               /\ r = [o EXCEPT !.fd = v, !.events = {"POLLIN"}]
               /\ r.fd = v /\ r.http = o.http /\ r.cached = o.cached
               /\ r.revents = o.revents /\ r.hrevents = o.hrevents
               /\ [slot EXCEPT ![c].fd = v, ![c].events = {"POLLIN"}] = [slot EXCEPT ![c] = r]
  <2>1. PICK r : r = [o EXCEPT !.fd = v, !.events = {"POLLIN"}]
    OBVIOUS
  <2>2. /\ r \in SlotRec /\ r.fd = v /\ r.http = o.http /\ r.cached = o.cached
        /\ r.revents = o.revents /\ r.hrevents = o.hrevents
    BY <1>5, <2>1 DEF SlotRec
  <2>3. [slot EXCEPT ![c].fd = v, ![c].events = {"POLLIN"}] = [slot EXCEPT ![c] = r]
    BY <1>4, <1>5, <2>1
  <2>4. QED
    BY <2>1, <2>2, <2>3
<1>7. CASE Accepts
  <2>1. PICK v \in Users : v = accepted + 1 /\ v \in -1..Conns
    BY <1>3, Sizes DEF Users
  <2>2. Goes([slot EXCEPT ![c].fd = v, ![c].events = {"POLLIN"}], 0)
    BY <1>2, <1>7, <2>1 DEF Accepts
  <2>3. UNCHANGED <<cacheVars, dead, peerVars, heirs, readVars>> /\ accepted' = accepted + 1
        /\ fds' = fds \union {v}
    BY <1>7, <2>1 DEF Accepts
  <2>4. PICK r \in SlotRec :
               /\ r.fd = v /\ r.http = o.http /\ r.cached = o.cached
               /\ r.revents = o.revents /\ r.hrevents = o.hrevents
               /\ [slot EXCEPT ![c].fd = v, ![c].events = {"POLLIN"}] = [slot EXCEPT ![c] = r]
    BY <1>6, <2>1, Zenon
  <2>5. /\ Goes([slot EXCEPT ![c] = r], 0)
        /\ r.http = slot[c].http /\ r.cached = slot[c].cached
        /\ r.revents = slot[c].revents /\ r.hrevents = slot[c].hrevents
    BY <1>4, <2>2, <2>4
  <2>6. QED
    BY <1>2, <2>1, <2>3, <2>4, <2>5, Accepting
<1>8. CASE AcceptFails
  <2>1. PICK v \in -1..Conns : v = -1 /\ v = 0 - 1
    BY Sizes
  <2>2. Goes([slot EXCEPT ![c].fd = v, ![c].events = {"POLLIN"}], 0)
    BY <1>2, <1>8, <2>1 DEF AcceptFails
  <2>3. UNCHANGED <<cacheVars, dead, peerVars, heirs, readVars>> /\ accepted' = accepted /\ fds' = fds
    BY <1>8 DEF AcceptFails
  <2>4. PICK r \in SlotRec :
               /\ r.fd = v /\ r.http = o.http /\ r.cached = o.cached
               /\ r.revents = o.revents /\ r.hrevents = o.hrevents
               /\ [slot EXCEPT ![c].fd = v, ![c].events = {"POLLIN"}] = [slot EXCEPT ![c] = r]
    BY <1>6, <2>1, Zenon
  <2>5. /\ Goes([slot EXCEPT ![c] = r], 0)
        /\ r.http = slot[c].http /\ r.cached = slot[c].cached
        /\ r.revents = slot[c].revents /\ r.hrevents = slot[c].hrevents
    BY <1>4, <2>2, <2>4
  <2>6. QED
    BY <1>2, <2>1, <2>3, <2>4, <2>5, Accepting
<1>9. QED
  BY <1>7, <1>8

\* One server more is lost, and one user more hung up on.
LEMMA LeakGrows ==
    ASSUME Leak, NEW h, Lost' \subseteq Lost \union {h},
           NEW f, f \notin HungUp, HungUp \union {f} \subseteq HungUp'
    PROVE  Leak'
<1>1. IsFiniteSet(Lost) /\ IsFiniteSet(HungUp') /\ IsFiniteSet(HungUp)
  <2>1. Lost \subseteq Servers /\ HungUp' \subseteq Users /\ HungUp \subseteq Users
    BY DEF Lost, HungUp
  <2>2. QED
    BY <2>1, Countable, FS_Subset
<1>2. IsFiniteSet(Lost \union {h}) /\ Cardinality(Lost \union {h}) <= Cardinality(Lost) + 1
  <2>1. /\ IsFiniteSet(Lost \union {h})
        /\ \/ Cardinality(Lost \union {h}) = Cardinality(Lost)
           \/ Cardinality(Lost \union {h}) = Cardinality(Lost) + 1
    BY <1>1, FS_AddElement
  <2>2. Cardinality(Lost) \in Nat
    BY <1>1, FS_CardinalityType
  <2>3. QED
    BY <2>1, <2>2
<1>3. IsFiniteSet(HungUp \union {f}) /\ Cardinality(HungUp \union {f}) = Cardinality(HungUp) + 1
  BY <1>1, FS_AddElement
<1>4. /\ IsFiniteSet(Lost') /\ Cardinality(Lost') <= Cardinality(Lost \union {h})
      /\ Cardinality(HungUp \union {f}) <= Cardinality(HungUp')
  BY <1>1, <1>2, FS_Subset
<1>5. /\ Cardinality(Lost') \in Nat /\ Cardinality(Lost) \in Nat
      /\ Cardinality(Lost \union {h}) \in Nat
      /\ Cardinality(HungUp) \in Nat /\ Cardinality(HungUp') \in Nat
  BY <1>1, <1>2, <1>4, FS_CardinalityType
<1>6. QED
  BY <1>2, <1>3, <1>4, <1>5 DEF Leak

\* What a server that is forgotten leaves.
LEMMA Forgetting ==
    ASSUME IInv, NEW c \in Slots, Forgets(c)
    PROVE  /\ server' \in [Servers -> ServerRec]
           /\ \A s \in Servers : server'[s].state = server[s].state
           /\ \A s \in Servers : s # slot[c].http => server'[s] = server[s]
           /\ \A s \in Servers : s = slot[c].http => server'[s].said = 0 /\ server'[s].unread = 0
<1>1. server \in [Servers -> ServerRec] /\ slot[c] \in SlotRec
  BY Types DEF IInv
<1>2. CASE slot[c].http = 0
  BY <1>1, <1>2, Numbers DEF Forgets
<1>3. CASE slot[c].http # 0
  <2>1. PICK h \in Servers : h = slot[c].http
    BY <1>1, <1>3, SlotFacts
  <2>2. PICK o : o = server[h]
    OBVIOUS
  <2>3. PICK r : r = [o EXCEPT !.title = NoTitle, !.said = 0, !.unread = 0]
    OBVIOUS
  <2>4. 0 \in 0..Length /\ o \in ServerRec
    BY <1>1, <2>2, Sizes
  <2>5. r \in ServerRec /\ r.state = o.state /\ r.said = 0 /\ r.unread = 0
    BY <2>3, <2>4 DEF ServerRec
  <2>6. server' = [server EXCEPT ![h] = r]
    BY <1>1, <1>3, <2>1, <2>2, <2>3 DEF Forgets, Without
  <2>7. QED
    BY <1>1, <2>1, <2>2, <2>5, <2>6
<1>4. QED
  BY <1>2, <1>3

LEMMA FreeSlotFacts ==
    /\ FreeSlot \in SlotRec /\ FreeSlot.fd = 0 /\ FreeSlot.http = 0 /\ FreeSlot.cached = EMPTY
    /\ FreeSlot.revents = {} /\ FreeSlot.hrevents = {}
<1>1. 0 \in -1..Conns /\ 0 \in {EMPTY} \union Nat
  BY Sizes
<1>2. QED
  BY <1>1 DEF FreeSlot, SlotRec

\* Slot c is freed, with its user f, who keeps w, and its page and server.
LEMMA Freeing ==
    ASSUME IInv, NEW c \in Slots, NEW f \in Users, f = slot[c].fd, NEW k \in 0..2 * MaxClients,
           Goes([slot EXCEPT ![c] = FreeSlot], k), Forgets(c),
           NEW w \in UserRec, user' = [user EXCEPT ![f] = w],
           fds' = fds \ {f} \/ fds' = fds \ {f, slot[c].http},
           UNCHANGED <<cacheIndex, cacheSize, accepted, dead, rangeOf, heirs, readVars>>,
           cache' \in [Entries -> EntryRec],
           \A e \in Entries : \/ cache'[e] = cache[e]
                              \/ /\ slot[c].http # 0 /\ e = slot[c].cached /\ Clones(c) = {}
                                 /\ cache'[e] = NoPage,
           cacheProperty' \in [Entries -> {"EMPTY", "DOWNLOADING", "DOWNLOADED"}],
           \A e \in Entries : \/ cacheProperty'[e] = cacheProperty[e]
                              \/ /\ e = slot[c].cached
                                 /\ cacheProperty'[e] = "EMPTY" \/ slot[c].http # 0,
           w.state = user[f].state, ~w.unread, w.state = "away" => w.ask = NoTitle,
           w.got # <<>> => w.state = "open" /\ w.ask \in Titles,
           f \notin heirs \union misled => \A i \in DOMAIN w.got : w.got[i] = <<w.ask, i>>,
           \/ slot[c].http = 0 \/ slot[c].http \notin fds' \/ user[f].state = "reset",
           Patient => /\ cache' = cache
                      /\ \/ slot[c].http = 0 /\ cacheProperty' = cacheProperty
                         \/ /\ slot[c].cached \in Entries
                            /\ cacheProperty' = [cacheProperty EXCEPT ![slot[c].cached] =
                                                     "DOWNLOADED"]
    PROVE  IInv'
<1>1. /\ Going /\ slot' \in [Slots -> SlotRec] /\ at' \in 0..Polling
      /\ After(c, FreeSlot) /\ \A d \in Slots : d # c => After(d, slot[d])
  BY FreeSlotFacts, PutOn
<1>2. /\ slot'[c].fd = 0 /\ slot'[c].http = 0 /\ slot'[c].cached = EMPTY
      /\ slot'[c].revents = {} /\ slot'[c].hrevents = {}
      /\ \A d \in Slots : d # c => Same(d, slot[d])
  BY <1>1, FreeSlotFacts DEF After, Same
<1>3. user' \in [Users -> UserRec] /\ user'[f] = w /\ \A u \in Users : u # f => user'[u] = user[u]
  BY Types DEF IInv
<1>4. /\ server' \in [Servers -> ServerRec]
      /\ \A s \in Servers : server'[s].state = server[s].state
      /\ \A s \in Servers : s # slot[c].http => server'[s] = server[s]
      /\ \A s \in Servers : s = slot[c].http => server'[s].said = 0 /\ server'[s].unread = 0
  BY Forgetting
<1>5. TypeOK'
  <2>1. /\ cacheIndex' \in 0..CacheSize /\ cacheSize' \in 0..CacheSize
        /\ fds' \subseteq Users \union Servers /\ heirs' \subseteq Users
        /\ rangeOf' \in [Titles -> Ranges]
        /\ mixed' \subseteq Entries /\ misled' \subseteq Users
    BY Types DEF IInv
  <2>2. accepted' \in 0..Conns /\ dead' \in {"no", "pipe", "free"}
    BY DEF IInv, TypeOK
  <2>3. QED
    BY <1>1, <1>3, <1>4, <2>1, <2>2, Typed
<1>6. /\ f \in fds /\ ~(f > accepted) /\ f \notin fds'
      /\ \A d \in Slots : d # c => slot[d].fd # f
  BY DEF IInv, Apart, Requests
<1>7. \A u \in Users : u # f => (u \in fds' <=> u \in fds)
  <2>1. \A u \in Users : u # slot[c].http
    BY Types, SlotFacts, Numbers DEF IInv
  <2>2. QED
    BY <2>1
<1>8. \A s \in Servers : /\ s \in fds' => s \in fds
                         /\ s # slot[c].http /\ s \in fds => s \in fds'
  BY Numbers
<1>9. \A d \in Slots : slot[d].http \in {0} \union Servers /\ slot[d].cached \in Entries \union {EMPTY}
  BY Types, SlotFacts DEF IInv
<1>10. Apart'
  <2>1. \A a, d \in Slots : a # d /\ slot'[a].fd \in Users => slot'[a].fd # slot'[d].fd
    <3>1. \A a, d \in Slots : a # d /\ slot[a].fd \in Users => slot[a].fd # slot[d].fd
      BY DEF IInv, Apart
    <3>2. \A d \in Slots : d # c => slot'[d].fd = slot[d].fd
      BY <1>2 DEF Same
    <3>3. QED
      BY <1>2, <3>1, <3>2, Numbers
  <2>2. \A a, d \in Slots : a # d /\ slot'[a].http # 0 => slot'[a].http # slot'[d].http
    BY <1>2 DEF Same, IInv, Apart
  <2>3. \A u \in Users : u \in fds' <=> \E d \in Slots : slot'[d].fd = u
    <3> SUFFICES ASSUME NEW u \in Users PROVE u \in fds' <=> \E d \in Slots : slot'[d].fd = u
      OBVIOUS
    <3>1. CASE u = f
      BY <1>2, <1>6, <3>1, Numbers DEF Same
    <3>2. CASE u # f
      <4>1. u \in fds <=> \E d \in Slots : slot[d].fd = u
        BY DEF IInv, Apart
      <4>2. (\E d \in Slots : slot[d].fd = u) <=> \E d \in Slots : slot'[d].fd = u
        BY <1>2, <3>2, Numbers DEF Same
      <4>3. QED
        BY <1>7, <3>2, <4>1, <4>2
    <3>3. QED
      BY <3>1, <3>2
  <2>4. ASSUME NEW d \in Slots, slot'[d].http # 0
        PROVE  slot'[d].fd \in Users /\ slot'[d].cached # EMPTY /\ slot'[d].http \in fds'
    <3>1. d # c /\ Same(d, slot[d])
      BY <1>2, <2>4
    <3>2. slot[d].fd \in Users /\ slot[d].cached # EMPTY /\ slot[d].http \in fds
          /\ slot[d].http # slot[c].http
      BY <2>4, <3>1 DEF Same, IInv, Apart
    <3>3. slot[d].http \in fds'
      BY <1>8, <1>9, <2>4, <3>1, <3>2 DEF Same
    <3>4. QED
      BY <3>1, <3>2, <3>3 DEF Same
  <2>5. QED
    BY <2>1, <2>2, <2>3, <2>4 DEF Apart
<1>11. Announcements'
  <2>1. ResetsStay
    BY <1>3, <1>4 DEF ResetsStay
  <2>2. \A d \in Slots : d # c => Told(d)
    BY <1>1, <2>1, StillTold
  <2>3. Told(c)
    BY <1>2 DEF Told
  <2>4. QED
    BY <1>1, <2>2, <2>3, AllTold
<1>12. \A d \in Slots : d # c /\ slot[d].cached # EMPTY => cache'[slot[d].cached] = cache[slot[d].cached]
  BY <1>9 DEF Clones
<1>13. Downloads'
  <2> SUFFICES ASSUME NEW d \in Slots, slot'[d].http # 0
               PROVE  /\ slot'[d].ends = "WORKING"
                      /\ slot'[d].http = Conns + slot'[d].fd \/ slot'[d].fd \in heirs'
                      /\ server'[slot'[d].http].title \in Titles
                      /\ slot'[d].cached \notin mixed =>
                            /\ server'[slot'[d].http].title = cache'[slot'[d].cached].title
                            /\ server'[slot'[d].http].state # "reset" =>
                                  server'[slot'[d].http].said - server'[slot'[d].http].unread
                                      = Len(cache'[slot'[d].cached].page)
                            /\ cacheProperty'[slot'[d].cached] # "DOWNLOADED"
                            /\ slot'[d].sent <= Len(cache'[slot'[d].cached].page)
                            /\ \A b \in Slots \ {d} :
                                  slot'[b].http # 0 => slot'[b].cached # slot'[d].cached
    BY DEF Downloads
  <2>1. d # c /\ Same(d, slot[d]) /\ slot[d].http # 0 /\ slot[d].http \in Servers
    BY <1>2, <1>9 DEF Same
  <2>2. slot[d].http # slot[c].http /\ slot[d].cached # EMPTY /\ slot[d].cached \in Entries
    BY <1>9, <2>1 DEF IInv, Apart
  <2>3. server'[slot[d].http] = server[slot[d].http] /\ cache'[slot[d].cached] = cache[slot[d].cached]
    BY <1>4, <1>12, <2>1, <2>2
  <2>4. /\ slot[d].ends = "WORKING" /\ (slot[d].http = Conns + slot[d].fd \/ slot[d].fd \in heirs)
        /\ server[slot[d].http].title \in Titles
    BY <2>1 DEF IInv, Downloads
  <2>5. CASE slot[d].cached \in mixed
    BY <2>1, <2>3, <2>4, <2>5 DEF Same
  <2>6. CASE slot[d].cached \notin mixed
    <3>1. slot[c].http # 0 => slot[c].cached # slot[d].cached
      BY <2>1, <2>6 DEF IInv, Downloads
    <3>2. /\ server[slot[d].http].title = cache[slot[d].cached].title
          /\ server[slot[d].http].state # "reset" =>
                server[slot[d].http].said - server[slot[d].http].unread
                    = Len(cache[slot[d].cached].page)
          /\ cacheProperty[slot[d].cached] # "DOWNLOADED"
          /\ slot[d].sent <= Len(cache[slot[d].cached].page)
          /\ \A b \in Slots \ {d} : slot[b].http # 0 => slot[b].cached # slot[d].cached
      BY <2>1, <2>6 DEF IInv, Downloads
    <3>3. cacheProperty'[slot[d].cached] # "DOWNLOADED"
      BY <2>2, <3>1, <3>2
    <3>4. \A b \in Slots \ {d} : slot'[b].http # 0 => slot'[b].cached # slot'[d].cached
      BY <1>2, <2>1, <3>2 DEF Same
    <3>5. QED
      BY <2>1, <2>3, <2>4, <3>2, <3>3, <3>4 DEF Same
  <2>7. QED
    BY <2>5, <2>6
<1>14. Requests'
  <2>1. ~Waiting(f)'
    BY <1>3, <1>6 DEF Waiting
  <2>2. ASSUME NEW u \in Users, u # f, Waiting(u)' PROVE Waiting(u)
    BY <1>3, <1>7, <2>2 DEF Waiting
  <2>3. ASSUME NEW u \in Users, Waiting(u)'
        PROVE  /\ server'[Conns + u].state = "unused" /\ user'[u].got = <<>>
               /\ \A d \in Slots : slot'[d].fd = u =>
                      slot'[d].http = 0 /\ slot'[d].cached = EMPTY
    <3>1. u # f /\ Waiting(u) /\ Conns + u \in Servers
      BY <2>1, <2>2, <2>3, Numbers
    <3>2. /\ server[Conns + u].state = "unused" /\ user[u].got = <<>>
          /\ \A d \in Slots : slot[d].fd = u => slot[d].http = 0 /\ slot[d].cached = EMPTY
      BY <3>1 DEF IInv, Requests
    <3>3. QED
      BY <1>2, <1>3, <1>4, <3>1, <3>2 DEF Same
  <2>4. ASSUME NEW u \in Users
        PROVE  /\ u > accepted' => /\ u \notin fds' /\ user'[u].state \in {"away", "open"}
                                   /\ user'[u].ask = NoTitle /\ ~user'[u].unread
               /\ user'[u].unread =>
                      u \in fds' /\ user'[u].ask # NoTitle /\ user'[u].state \in {"open", "shut"}
               /\ user'[u].state = "away" => user'[u].ask = NoTitle
               /\ user'[u].got # <<>> => user'[u].state = "open" /\ user'[u].ask \in Titles
    <3>1. CASE u = f
      BY <1>3, <1>6, <3>1
    <3>2. CASE u # f
      BY <1>3, <1>7, <3>2 DEF IInv, Requests
    <3>3. QED
      BY <3>1, <3>2
  <2>5. QED
    BY <2>3, <2>4 DEF Requests
<1>15. Speech' /\ Entered'
  <2>1. Used' = Used
    BY <1>4 DEF Used
  <2>2. ASSUME NEW s \in Servers
        PROVE  /\ s \notin Used' => s \notin fds' /\ server'[s].said = 0
               /\ server'[s].unread <= server'[s].said
               /\ server'[s].state = "reset" => server'[s].unread = 0
    <3>1. /\ s \notin Used => s \notin fds /\ server[s].said = 0
          /\ server[s].unread <= server[s].said
          /\ server[s].state = "reset" => server[s].unread = 0
      BY DEF IInv, Speech
    <3>2. CASE s = slot[c].http
      BY <1>4, <1>8, <2>1, <3>1, <3>2
    <3>3. CASE s # slot[c].http
      BY <1>4, <1>8, <2>1, <3>1, <3>3
    <3>4. QED
      BY <3>2, <3>3
  <2>3. \A e \in Entries : cache'[e].title \in Titles => cache[e].title \in Titles
    BY Sizes DEF NoPage
  <2>4. Entered'
    BY <2>3 DEF IInv, Entered
  <2>5. QED
    BY <2>2, <2>4 DEF Speech
<1>16. Pages'
  <2>2. NoPage.title \notin Titles /\ NoPage.page = <<>>
    BY Sizes DEF NoPage
  <2>3. \A e \in Entries : cache'[e] = cache[e] \/ cache'[e] = NoPage
    OBVIOUS
  <2> HIDE DEF NoPage
  <2>4. ASSUME NEW e \in Entries
        PROVE  /\ cache'[e].title \notin Titles => cache'[e].page = <<>>
               /\ e \notin mixed' =>
                     \A i \in DOMAIN cache'[e].page : cache'[e].page[i] = <<cache'[e].title, i>>
               /\ \A g \in Entries \ {e} :
                      cache'[e].title \in Titles => cache'[g].title # cache'[e].title
    <3>1. CASE cache'[e] = NoPage
      <4>1. \A i \in DOMAIN cache'[e].page : cache'[e].page[i] = <<cache'[e].title, i>>
        BY <2>2, <3>1, EmptySeq
      <4>2. QED
        BY <2>2, <3>1, <4>1
    <3>2. CASE cache'[e] = cache[e]
      <4>1. /\ cache[e].title \notin Titles => cache[e].page = <<>>
            /\ e \notin mixed =>
                  \A i \in DOMAIN cache[e].page : cache[e].page[i] = <<cache[e].title, i>>
            /\ \A g \in Entries \ {e} :
                  cache[e].title \in Titles => cache[g].title # cache[e].title
        BY DEF IInv, Pages
      <4>2. \A g \in Entries \ {e} :
                cache'[e].title \in Titles => cache'[g].title # cache'[e].title
        BY <2>2, <2>3, <3>2, <4>1
      <4>3. QED
        BY <3>2, <4>1, <4>2
    <3>3. QED
      BY <2>3, <3>1, <3>2
  <2>5. QED
    BY <2>4 DEF Pages
<1>17. Readers'
  <2> SUFFICES ASSUME NEW d \in Slots, slot'[d].cached # EMPTY
               PROVE  /\ slot'[d].fd \in Users
                      /\ cache'[slot'[d].cached].title \in Titles
                      /\ slot'[d].sent \in Nat
                      /\ slot'[d].cached \in mixed' => slot'[d].fd \in misled'
                      /\ user'[slot'[d].fd].state = "open" => user'[slot'[d].fd].ask \in Titles
                      /\ slot'[d].fd \notin misled' =>
                            /\ slot'[d].sent <= Len(cache'[slot'[d].cached].page)
                            /\ user'[slot'[d].fd].state = "open" =>
                                  /\ user'[slot'[d].fd].ask = cache'[slot'[d].cached].title
                                  /\ slot'[d].fd \notin heirs' =>
                                        Len(user'[slot'[d].fd].got) = slot'[d].sent
    BY DEF Readers
  <2>1. d # c /\ Same(d, slot[d]) /\ slot[d].cached # EMPTY
    BY <1>2 DEF Same
  <2>2. slot[d].fd # f /\ cache'[slot[d].cached] = cache[slot[d].cached]
    BY <1>6, <1>12, <2>1
  <2>3. /\ slot[d].fd \in Users
        /\ cache[slot[d].cached].title \in Titles
        /\ slot[d].sent \in Nat
        /\ slot[d].cached \in mixed => slot[d].fd \in misled
        /\ user[slot[d].fd].state = "open" => user[slot[d].fd].ask \in Titles
        /\ slot[d].fd \notin misled =>
              /\ slot[d].sent <= Len(cache[slot[d].cached].page)
              /\ user[slot[d].fd].state = "open" =>
                    /\ user[slot[d].fd].ask = cache[slot[d].cached].title
                    /\ slot[d].fd \notin heirs => Len(user[slot[d].fd].got) = slot[d].sent
    BY <2>1 DEF IInv, Readers
  <2>4. user'[slot[d].fd] = user[slot[d].fd]
    BY <1>3, <2>2, <2>3
  <2>5. QED
    BY <2>1, <2>2, <2>3, <2>4 DEF Same
<1>18. Leak'
  <2>1. HungUp \subseteq HungUp'
    BY <1>3, <1>6, <1>7 DEF HungUp
  <2>2. \A s \in Servers : s # slot[c].http /\ s \in Lost' => s \in Lost
    BY <1>2, <1>8 DEF Same, Lost
  <2>3. CASE slot[c].http = 0 \/ slot[c].http \notin fds'
    <3>1. Lost' \subseteq Lost
      BY <2>2, <2>3, Numbers DEF Lost
    <3>2. QED
      BY <1>5, <2>1, <3>1, LeakKept DEF IInv
  <2>4. CASE user[f].state = "reset"
    <3>1. Lost' \subseteq Lost \union {slot[c].http}
      BY <2>2 DEF Lost
    <3>2. f \notin HungUp /\ HungUp \union {f} \subseteq HungUp'
      BY <1>3, <1>6, <2>1, <2>4 DEF HungUp
    <3>3. QED
      BY <3>1, <3>2, LeakGrows DEF IInv
  <2>5. QED
    BY <2>3, <2>4
<1>19. FreeOnlyAfterReset'
  BY <1>4 DEF IInv, FreeOnlyAfterReset
<1>20. InOrder'
  BY <1>3 DEF IInv, InOrder
<1>21. FoundIsServed'
  <2> SUFFICES ASSUME Patient', NEW t \in Titles, NEW e \in With(t)'
               PROVE  \/ cacheProperty'[e] = "DOWNLOADED"
                      \/ /\ cacheProperty'[e] = "DOWNLOADING"
                         /\ \E d \in Slots : slot'[d].http # 0 /\ slot'[d].cached = e
    BY DEF FoundIsServed
  <2>1. Patient
    <3>1. \A u \in Users : user'[u].state = user[u].state
      BY <1>3
    <3>2. QED
      BY <1>4, <3>1 DEF Patient
  <2>2. cache' = cache /\ cacheSize' = cacheSize
    BY <2>1
  <2>3. e \in With(t)
    BY <2>2 DEF With
  <2>4. \/ cacheProperty[e] = "DOWNLOADED"
        \/ /\ cacheProperty[e] = "DOWNLOADING"
           /\ \E d \in Slots : slot[d].http # 0 /\ slot[d].cached = e
    BY <2>1, <2>3 DEF IInv, FoundIsServed
  <2>5. e \in Entries
    BY <2>3, Types, Sizes DEF IInv, With, Entries
  <2>6. CASE slot[c].http = 0 /\ cacheProperty' = cacheProperty
    <3>1. \A d \in Slots : slot[d].http # 0 => Same(d, slot[d])
      BY <1>2, <2>6
    <3>2. QED
      BY <2>4, <2>6, <3>1 DEF Same
  <2>7. CASE /\ slot[c].cached \in Entries
             /\ cacheProperty' = [cacheProperty EXCEPT ![slot[c].cached] = "DOWNLOADED"]
    <3>1. CASE e = slot[c].cached
      <4>1. cacheProperty \in [Entries -> {"EMPTY", "DOWNLOADING", "DOWNLOADED"}]
        BY Types DEF IInv
      <4>2. QED
        BY <2>7, <3>1, <4>1
    <3>2. CASE e # slot[c].cached
      <4>0. cacheProperty \in [Entries -> {"EMPTY", "DOWNLOADING", "DOWNLOADED"}]
        BY Types DEF IInv
      <4>1. cacheProperty'[e] = cacheProperty[e]
        BY <2>5, <2>7, <3>2, <4>0
      <4>2. \A d \in Slots : slot[d].cached = e => Same(d, slot[d])
        BY <1>2, <3>2
      <4>3. QED
        BY <2>4, <4>1, <4>2 DEF Same
    <3>3. QED
      BY <3>1, <3>2
  <2>8. QED
    BY <2>1, <2>6, <2>7
<1>22. QED
  BY <1>5, <1>10, <1>11, <1>13, <1>14, <1>15, <1>16, <1>17, <1>18, <1>19, <1>20, <1>21
     DEF IInv

\* What Closed leaves of a user.
ClosedAs(us, f, w) ==
    /\ Closed(us, f) = [us EXCEPT ![f] = w]
    /\ w.state = us[f].state /\ w.got = us[f].got
    /\ us[f].got = <<>> => w.ask = NoTitle /\ ~w.unread
    /\ us[f].got # <<>> => w.ask = us[f].ask /\ (w.unread <=> us[f].unread)

LEMMA Closing ==
    ASSUME NEW us \in [Users -> UserRec], NEW f \in Users
    PROVE  \E w \in UserRec : ClosedAs(us, f, w)
<1>1. PICK o : o = us[f]
  OBVIOUS
<1>2. o \in UserRec
  BY <1>1
<1>3. CASE o.got = <<>>
  <2>1. PICK w : w = [o EXCEPT !.ask = NoTitle, !.unread = FALSE]
    OBVIOUS
  <2>2. w \in UserRec /\ w.state = o.state /\ w.got = o.got /\ w.ask = NoTitle
        /\ (w.unread <=> FALSE)
    BY <1>2, <2>1 DEF UserRec
  <2>3. Closed(us, f) = [us EXCEPT ![f].ask = NoTitle, ![f].unread = FALSE]
    BY <1>1, <1>3 DEF Closed
  <2>4. Closed(us, f) = [us EXCEPT ![f] = w]
    <3>1. PICK v : v = [o EXCEPT !.ask = NoTitle]
      OBVIOUS
    <3>2. PICK ut : ut = [us EXCEPT ![f] = v]
      OBVIOUS
    <3>3. ut[f] = v
      BY <3>2
    <3>4. w = [v EXCEPT !.unread = FALSE]
      BY <2>1, <3>1
    <3>5. Closed(us, f) = [ut EXCEPT ![f] = [ut[f] EXCEPT !.unread = FALSE]]
      BY <1>1, <2>3, <3>1, <3>2
    <3>6. Closed(us, f) = [ut EXCEPT ![f] = w]
      BY <3>3, <3>4, <3>5
    <3>7. QED
      BY <3>2, <3>6
  <2>5. QED
    BY <1>1, <1>3, <2>2, <2>4 DEF ClosedAs
<1>4. CASE o.got # <<>>
  <2>1. Closed(us, f) = us
    BY <1>1, <1>4 DEF Closed
  <2>2. us = [us EXCEPT ![f] = o]
    BY <1>1
  <2>3. QED
    BY <1>1, <1>2, <1>4, <2>1, <2>2 DEF ClosedAs
<1>5. QED
  BY <1>3, <1>4

\* What is left of user f, whose slot is freed.
Parted(c, f, us, w) ==
    /\ Closed(us, f) = [user EXCEPT ![f] = w]
    /\ w.state = user[f].state /\ ~w.unread /\ (w.state = "away" => w.ask = NoTitle)
    /\ w.got # <<>> => w.state = "open" /\ w.ask \in Titles
    /\ f \notin heirs \union misled => \A i \in DOMAIN w.got : w.got[i] = <<w.ask, i>>
    /\ ~(f \notin heirs /\ w.got # <<>> /\ server[Conns + f].state = "unused")

\* A user is let go with what it had.
LEMMA Parting ==
    ASSUME IInv, NEW c \in Slots, NEW f \in Users, f = slot[c].fd,
           NEW us \in [Users -> UserRec], \A u \in Users : u # f => us[u] = user[u],
           us[f].state = user[f].state, us[f].ask = user[f].ask, us[f].got = user[f].got,
           us[f].unread => user[f].unread,
           user[f].got = <<>> \/ slot[c].http # 0
    PROVE  \E w \in UserRec : Parted(c, f, us, w)
<1>0. PICK w \in UserRec : ClosedAs(us, f, w)
  BY Closing, Zenon
<1>1. /\ Closed(us, f) = [us EXCEPT ![f] = w]
      /\ w.state = us[f].state /\ w.got = us[f].got
      /\ us[f].got = <<>> => w.ask = NoTitle /\ ~w.unread
      /\ us[f].got # <<>> => w.ask = us[f].ask /\ (w.unread <=> us[f].unread)
  BY <1>0 DEF ClosedAs
<1>2. Closed(us, f) = [user EXCEPT ![f] = w]
  <2>1. user \in [Users -> UserRec]
    BY Types DEF IInv
  <2>2. [us EXCEPT ![f] = w] = [user EXCEPT ![f] = w]
    BY <2>1
  <2>3. QED
    BY <1>1, <2>2
<1>3. user[f].unread => user[f].got = <<>>
  BY DEF IInv, Requests, Waiting
<1>4. ~w.unread
  BY <1>1, <1>3
<1>5. user[f].got # <<>> => user[f].state = "open" /\ user[f].ask \in Titles
  BY DEF IInv, Requests
<1>6. w.got # <<>> => w.state = "open" /\ w.ask \in Titles
  BY <1>1, <1>5
<1>7. w.state = "away" => w.ask = NoTitle
  BY <1>1, <1>5
<1>8. f \notin heirs \union misled => \A i \in DOMAIN w.got : w.got[i] = <<w.ask, i>>
  <2>1. CASE w.got = <<>>
    <3>1. DOMAIN w.got = 1..Len(w.got) /\ Len(w.got) = 0
      BY <1>1, <2>1, UserFacts, EmptySeq
    <3>2. QED
      BY <3>1
  <2>2. CASE w.got # <<>>
    <3>1. w.got = user[f].got /\ w.ask = user[f].ask
      BY <1>1, <2>2
    <3>2. QED
      BY <3>1 DEF IInv, InOrder
  <2>3. QED
    BY <2>1, <2>2
<1>9. ~(f \notin heirs /\ w.got # <<>> /\ server[Conns + f].state = "unused")
  <2> SUFFICES ASSUME f \notin heirs, w.got # <<>> PROVE server[Conns + f].state # "unused"
    OBVIOUS
  <2>1. slot[c].http # 0
    BY <1>1
  <2>2. slot[c].http = Conns + f /\ slot[c].http \in fds
    BY <2>1 DEF IInv, Downloads, Apart
  <2>3. Conns + f \in Servers
    BY Numbers
  <2>4. QED
    BY <2>2, <2>3 DEF IInv, Speech, Used
<1>10. w.state = user[f].state
  BY <1>1
<1>11. QED
  BY <1>2, <1>4, <1>6, <1>7, <1>8, <1>9, <1>10 DEF Parted

\* A user who has left, was reset or just asked has nothing.
LEMMA HasNothing ==
    ASSUME IInv, NEW u \in Users, user[u].state \in {"shut", "reset"} \/ user[u].unread
    PROVE  user[u].got = <<>>
  BY DEF IInv, Requests, Waiting

\* Who asks has no server and no page.
LEMMA Asking ==
    ASSUME IInv, NEW c \in Slots, slot[c].fd \in Users, user[slot[c].fd].unread
    PROVE  /\ slot[c].http = 0 /\ slot[c].cached = EMPTY
           /\ server[Conns + slot[c].fd].state = "unused"
  BY DEF IInv, Requests, Waiting

\* Slot c is freed in a visit of index k that writes no page to its user f; us are
\* the users after that visit.
Freed(c, f, k, us) ==
    /\ Goes([slot EXCEPT ![c] = FreeSlot], k) /\ Forgets(c) /\ user' = Closed(us, f)
    /\ \A u \in Users : u # f => us[u] = user[u]
    /\ us[f].state = user[f].state /\ us[f].ask = user[f].ask /\ us[f].got = user[f].got
    /\ us[f].unread => user[f].unread
    /\ user[f].got = <<>> \/ slot[c].http # 0
    /\ fds' = fds \ {f} \/ fds' = fds \ {f, slot[c].http}
    /\ UNCHANGED <<cacheIndex, cacheSize, accepted, dead, rangeOf, heirs, readVars>>
    /\ cache' \in [Entries -> EntryRec]
    /\ \A e \in Entries : \/ cache'[e] = cache[e]
                          \/ /\ slot[c].http # 0 /\ e = slot[c].cached /\ Clones(c) = {}
                             /\ cache'[e] = NoPage
    /\ cacheProperty' \in [Entries -> {"EMPTY", "DOWNLOADING", "DOWNLOADED"}]
    /\ \A e \in Entries : \/ cacheProperty'[e] = cacheProperty[e]
                          \/ /\ e = slot[c].cached
                             /\ cacheProperty'[e] = "EMPTY" \/ slot[c].http # 0
    /\ \/ slot[c].http = 0 \/ slot[c].http \notin fds' \/ user[f].state = "reset"
    /\ Patient => /\ cache' = cache
                  /\ \/ slot[c].http = 0 /\ cacheProperty' = cacheProperty
                     \/ /\ slot[c].cached \in Entries
                        /\ cacheProperty' = [cacheProperty EXCEPT ![slot[c].cached] =
                                                 "DOWNLOADED"]

LEMMA Frees ==
    ASSUME IInv, NEW c \in Slots, NEW f \in Users, f = slot[c].fd, NEW k \in 0..2 * MaxClients,
           NEW us \in [Users -> UserRec], Freed(c, f, k, us)
    PROVE  IInv'
<1>a. /\ \A u \in Users : u # f => us[u] = user[u]
      /\ us[f].state = user[f].state /\ us[f].ask = user[f].ask /\ us[f].got = user[f].got
      /\ user[f].got = <<>> \/ slot[c].http # 0
  BY DEF Freed
<1>b. us[f].unread => user[f].unread
  BY DEF Freed
<1>0. PICK w \in UserRec : Parted(c, f, us, w)
  BY <1>a, <1>b, Parting, Zenon
<1>1. /\ Closed(us, f) = [user EXCEPT ![f] = w]
      /\ w.state = user[f].state /\ ~w.unread /\ (w.state = "away" => w.ask = NoTitle)
      /\ w.got # <<>> => w.state = "open" /\ w.ask \in Titles
      /\ f \notin heirs \union misled => \A i \in DOMAIN w.got : w.got[i] = <<w.ask, i>>
  BY <1>0 DEF Parted
<1>2. user' = [user EXCEPT ![f] = w]
  BY <1>1 DEF Freed
<1>3. QED
  BY <1>1, <1>2, Freeing, ZenonT(60) DEF Freed

LEMMA NoPageTyped == NoPage \in EntryRec /\ NoPage.title \notin Titles /\ NoPage.page = <<>>
  BY Sizes, EmptySeq DEF NoPage, EntryRec

\* Without a change of the cache.
LEMMA FreesOnly ==
    ASSUME IInv, NEW c \in Slots, at = c, NEW us, us = user \/ us = Read(c),
           Disconnects(c, c, us), user[slot[c].fd].got = <<>>,
           slot[c].http = 0 \/ user[slot[c].fd].state = "reset",
           UNCHANGED <<cacheVars, accepted, dead, rangeOf, heirs, readVars>>
    PROVE  IInv'
<1>0. PICK ut \in [Users -> UserRec] : ut = us
  BY ReadIn, Types DEF IInv
<1>1. PICK f \in Users : f = slot[c].fd
  BY Visited
<1>2. c \in 0..2 * MaxClients
  BY Sizes, Numbers
<1>3. /\ Goes([slot EXCEPT ![c] = FreeSlot], c) /\ Forgets(c) /\ user' = Closed(ut, f)
      /\ fds' = fds \ {f}
  BY <1>0, <1>1 DEF Disconnects
<1>5. \A u \in Users : u # f => ut[u] = user[u]
  <2>1. user \in [Users -> UserRec]
    BY Types DEF IInv
  <2>2. CASE us = Read(c)
    BY <1>0, <1>1, <2>1, <2>2 DEF Read
  <2>3. QED
    BY <1>0, <2>2
<1>6. ut[f].state = user[f].state /\ ut[f].ask = user[f].ask /\ ut[f].got = user[f].got
  BY <1>0, ReadIn
<1>7. ut[f].unread => user[f].unread
  BY <1>0, ReadIn
<1>8. /\ cache' = cache /\ cacheProperty' = cacheProperty
      /\ UNCHANGED <<cacheIndex, cacheSize, accepted, dead, rangeOf, heirs, readVars>>
  BY DEF cacheVars
<1>9. /\ cache' \in [Entries -> EntryRec]
      /\ cacheProperty' \in [Entries -> {"EMPTY", "DOWNLOADING", "DOWNLOADED"}]
  BY <1>8, Types DEF IInv
<1>10. Patient => slot[c].http = 0
  BY <1>1 DEF Patient
<1>11. /\ user[f].got = <<>> \/ slot[c].http # 0
       /\ \/ slot[c].http = 0 \/ slot[c].http \notin fds' \/ user[f].state = "reset"
  BY <1>1
<1>12. Patient => /\ cache' = cache
                  /\ \/ slot[c].http = 0 /\ cacheProperty' = cacheProperty
                     \/ /\ slot[c].cached \in Entries
                        /\ cacheProperty' = [cacheProperty EXCEPT ![slot[c].cached] =
                                                 "DOWNLOADED"]
  BY <1>8, <1>10
<1>13. /\ \A e \in Entries : \/ cache'[e] = cache[e]
                             \/ /\ slot[c].http # 0 /\ e = slot[c].cached /\ Clones(c) = {}
                                /\ cache'[e] = NoPage
       /\ \A e \in Entries : \/ cacheProperty'[e] = cacheProperty[e]
                             \/ /\ e = slot[c].cached
                                /\ cacheProperty'[e] = "EMPTY" \/ slot[c].http # 0
  BY <1>8
<1>14. UNCHANGED <<cacheIndex, cacheSize, accepted, dead, rangeOf, heirs, readVars>>
  BY DEF cacheVars
<1>15. Freed(c, f, c, ut)
  BY <1>3, <1>5, <1>6, <1>7, <1>9, <1>11, <1>12, <1>13, <1>14 DEF Freed
<1>16. QED
  BY <1>1, <1>2, <1>15, Frees

LEMMA FreesOnlySteps ==
    ASSUME IInv, NEW c \in Slots,
           \/ UserHangsUp(c) \/ ConnectFails(c)
           \/ Refuses(c) /\ user[slot[c].fd].ask # "https"
    PROVE  IInv'
<1>1. CASE UserHangsUp(c)
  <2>1. /\ at = c /\ Disconnects(c, c, user) /\ "POLLHUP" \in slot[c].revents
        /\ UNCHANGED <<cacheVars, accepted, dead, rangeOf, heirs, readVars>>
    BY <1>1 DEF UserHangsUp
  <2>2. slot[c].fd \in Users /\ user[slot[c].fd].state = "reset"
    BY <2>1, Visited DEF IInv, Announcements
  <2>3. user[slot[c].fd].got = <<>>
    BY <2>2, HasNothing
  <2>4. QED
    BY <2>1, <2>2, <2>3, FreesOnly
<1>2. CASE ConnectFails(c) \/ (Refuses(c) /\ user[slot[c].fd].ask # "https")
  <2>1. /\ at = c /\ Disconnects(c, c, Read(c)) /\ user[slot[c].fd].unread
        /\ UNCHANGED <<cacheVars, accepted, dead, rangeOf, heirs, readVars>>
    BY <1>2 DEF ConnectFails, Refuses, Misses, ReadsRequest, Reads
  <2>2. slot[c].fd \in Users
    BY <2>1, Visited
  <2>3. user[slot[c].fd].got = <<>> /\ slot[c].http = 0
    BY <2>1, <2>2, HasNothing, Asking
  <2>4. QED
    BY <2>1, <2>3, FreesOnly
<1>3. QED
  BY <1>1, <1>2

\* The user leaves, alone with its page.
LEMMA LeavesAloneSteps ==
    ASSUME IInv, NEW c \in Slots, LeavesAlone(c)
    PROVE  IInv'
<1>0. /\ at = c /\ user[slot[c].fd].state = "shut"
      /\ slot[c].http = 0 \/ Clones(c) = {}
      /\ cache' = IF slot[c].http # 0 THEN [cache EXCEPT ![slot[c].cached] = NoPage] ELSE cache
      /\ cacheProperty' = [e \in Entries |-> IF e = slot[c].cached THEN "EMPTY"
                                                                 ELSE cacheProperty[e]]
      /\ ClosesBoth(c, c)
      /\ UNCHANGED <<cacheIndex, cacheSize, accepted, dead, rangeOf, heirs, readVars>>
  BY DEF LeavesAlone, ReadsEnd, Reads
<1>1. PICK f \in Users : f = slot[c].fd
  BY <1>0, Visited
<1>2. c \in 0..2 * MaxClients
  BY Sizes, Numbers
<1>3. /\ Goes([slot EXCEPT ![c] = FreeSlot], c) /\ Forgets(c) /\ user' = Closed(user, f)
      /\ fds' = fds \ {f, slot[c].http}
  BY <1>0, <1>1 DEF ClosesBoth
<1>4. user \in [Users -> UserRec] /\ cache \in [Entries -> EntryRec]
      /\ cacheProperty \in [Entries -> {"EMPTY", "DOWNLOADING", "DOWNLOADED"}]
  BY Types DEF IInv
<1>5. user[f].got = <<>>
  BY <1>0, <1>1, HasNothing
<1>6. cacheProperty' \in [Entries -> {"EMPTY", "DOWNLOADING", "DOWNLOADED"}]
      /\ \A e \in Entries : \/ cacheProperty'[e] = cacheProperty[e]
                            \/ /\ e = slot[c].cached
                               /\ cacheProperty'[e] = "EMPTY" \/ slot[c].http # 0
  BY <1>0, <1>4
<1>7. cache' \in [Entries -> EntryRec]
  BY <1>0, <1>4, NoPageTyped
<1>8. \A e \in Entries : \/ cache'[e] = cache[e]
                         \/ /\ slot[c].http # 0 /\ e = slot[c].cached /\ Clones(c) = {}
                            /\ cache'[e] = NoPage
  BY <1>0, <1>4
<1>9. slot[c].http = 0 \/ slot[c].http \notin fds' \/ user[f].state = "reset"
  BY <1>3
<1>10. ~Patient
  BY <1>0, <1>1 DEF Patient
<1>11. /\ \A u \in Users : u # f => user[u] = user[u]
       /\ user[f].state = user[f].state /\ user[f].ask = user[f].ask /\ user[f].got = user[f].got
       /\ user[f].unread => user[f].unread
  OBVIOUS
<1>12. UNCHANGED <<cacheIndex, cacheSize, accepted, dead, rangeOf, heirs, readVars>>
  BY <1>0
<1>13. QED
  BY <1>1, <1>2, <1>3, <1>4, <1>5, <1>6, <1>7, <1>8, <1>9, <1>10, <1>11, <1>12, Frees
     DEF Freed

\* The server ends or fails.
LEMMA ServerEndsSteps ==
    ASSUME IInv, NEW c \in Slots, EndsFile(c) \/ DropsPage(c)
    PROVE  IInv'
<1>0. /\ at = c + MaxClients /\ ClosesBoth(c, c + MaxClients)
      /\ UNCHANGED <<cacheIndex, cacheSize, accepted, dead, rangeOf, heirs, readVars>>
  BY DEF EndsFile, DropsPage, ServerFails, Loads
<1>1. PICK f \in Users : f = slot[c].fd
  BY <1>0, Visited
<1>2. c + MaxClients \in 0..2 * MaxClients
  BY Sizes, Numbers
<1>3. /\ Goes([slot EXCEPT ![c] = FreeSlot], c + MaxClients) /\ Forgets(c)
      /\ user' = Closed(user, f) /\ fds' = fds \ {f, slot[c].http}
  BY <1>0, <1>1 DEF ClosesBoth
<1>4. user \in [Users -> UserRec] /\ cache \in [Entries -> EntryRec]
      /\ cacheProperty \in [Entries -> {"EMPTY", "DOWNLOADING", "DOWNLOADED"}]
  BY Types DEF IInv
<1>5. slot[c].http \in Servers /\ slot[c].http # 0 /\ slot[c].cached \in Entries
      /\ ("POLLHUP" \in slot[c].hrevents => server[slot[c].http].state = "reset")
  BY <1>0, Visited, Numbers
<1>6. CASE EndsFile(c)
  <2>1. cache' = cache /\ cacheProperty' = [cacheProperty EXCEPT ![slot[c].cached] = "DOWNLOADED"]
    BY <1>6 DEF EndsFile, Downloaded
  <2>2. cacheProperty' \in [Entries -> {"EMPTY", "DOWNLOADING", "DOWNLOADED"}]
        /\ \A e \in Entries : \/ cacheProperty'[e] = cacheProperty[e]
                              \/ /\ e = slot[c].cached
                                 /\ cacheProperty'[e] = "EMPTY" \/ slot[c].http # 0
    BY <1>4, <1>5, <2>1
  <2>3. /\ cache' \in [Entries -> EntryRec]
        /\ \A e \in Entries : \/ cache'[e] = cache[e]
                              \/ /\ slot[c].http # 0 /\ e = slot[c].cached /\ Clones(c) = {}
                                 /\ cache'[e] = NoPage
    BY <1>4, <2>1
  <2>4. slot[c].http = 0 \/ slot[c].http \notin fds' \/ user[f].state = "reset"
    BY <1>3
  <2>5. /\ \A u \in Users : u # f => user[u] = user[u]
        /\ user[f].state = user[f].state /\ user[f].ask = user[f].ask
        /\ user[f].got = user[f].got /\ (user[f].unread => user[f].unread)
    OBVIOUS
  <2>6. user[f].got = <<>> \/ slot[c].http # 0
    BY <1>5
  <2>7. UNCHANGED <<cacheIndex, cacheSize, accepted, dead, rangeOf, heirs, readVars>>
    BY <1>0
  <2>8. Patient => /\ cache' = cache
                   /\ \/ slot[c].http = 0 /\ cacheProperty' = cacheProperty
                      \/ /\ slot[c].cached \in Entries
                         /\ cacheProperty' = [cacheProperty EXCEPT ![slot[c].cached] =
                                                  "DOWNLOADED"]
    BY <1>5, <2>1
  <2>9. QED
    BY <1>1, <1>2, <1>3, <1>4, <2>2, <2>3, <2>4, <2>5, <2>6, <2>7, <2>8, Frees DEF Freed
<1>7. CASE DropsPage(c)
  <2>1. \/ /\ cache' = [cache EXCEPT ![slot[c].cached] = NoPage]
           /\ cacheProperty' = [cacheProperty EXCEPT ![slot[c].cached] = "EMPTY"]
           /\ Clones(c) = {}
        \/ cache' = cache /\ cacheProperty' = cacheProperty
    BY <1>7 DEF DropsPage, SurelyCleaned
  <2>2. cacheProperty' \in [Entries -> {"EMPTY", "DOWNLOADING", "DOWNLOADED"}]
        /\ \A e \in Entries : \/ cacheProperty'[e] = cacheProperty[e]
                              \/ /\ e = slot[c].cached
                                 /\ cacheProperty'[e] = "EMPTY" \/ slot[c].http # 0
    BY <1>4, <1>5, <2>1
  <2>3. /\ cache' \in [Entries -> EntryRec]
        /\ \A e \in Entries : \/ cache'[e] = cache[e]
                              \/ /\ slot[c].http # 0 /\ e = slot[c].cached /\ Clones(c) = {}
                                 /\ cache'[e] = NoPage
    BY <1>4, <1>5, <2>1, NoPageTyped
  <2>4. slot[c].http = 0 \/ slot[c].http \notin fds' \/ user[f].state = "reset"
    BY <1>3
  <2>5. /\ \A u \in Users : u # f => user[u] = user[u]
        /\ user[f].state = user[f].state /\ user[f].ask = user[f].ask
        /\ user[f].got = user[f].got /\ (user[f].unread => user[f].unread)
    OBVIOUS
  <2>6. user[f].got = <<>> \/ slot[c].http # 0
    BY <1>5
  <2>7. UNCHANGED <<cacheIndex, cacheSize, accepted, dead, rangeOf, heirs, readVars>>
    BY <1>0
  <2>8. ~Patient
    <3>1. server[slot[c].http].state = "reset"
      BY <1>5, <1>7 DEF DropsPage, ServerFails
    <3>2. QED
      BY <1>5, <3>1 DEF Patient
  <2>9. QED
    BY <1>1, <1>2, <1>3, <1>4, <2>2, <2>3, <2>4, <2>5, <2>6, <2>7, <2>8, Frees DEF Freed
<1>8. QED
  BY <1>6, <1>7

-----------------------------------------------------------------------------
(* Reading from the cache. *)

\* Slot c becomes r, which reads a page, and its user f becomes w.
Reading(c, f, r, w) ==
    /\ Goes([slot EXCEPT ![c] = r], c) /\ user' = [user EXCEPT ![f] = w]
    /\ UNCHANGED <<cacheVars, accepted, fds, dead, server, rangeOf, heirs, mixed>>
    /\ misled' \in {misled, misled \union {f}}
    /\ r.fd = f /\ r.http = slot[c].http /\ r.revents = slot[c].revents
    /\ r.hrevents = slot[c].hrevents
    /\ r.cached \in Entries /\ cache[r.cached].title \in Titles /\ r.sent \in Nat
    /\ r.cached \in mixed => f \in misled'
    /\ r.http # 0 => /\ r.ends = "WORKING" /\ r.cached = slot[c].cached
                     /\ r.cached \notin mixed => r.sent <= Len(cache[r.cached].page)
    /\ w.state = user[f].state /\ w.state # "away" /\ ~w.unread
    /\ w.got # <<>> => w.state = "open"
    /\ w.state = "open" => w.ask \in Titles
    /\ f \notin misled' =>
          /\ r.sent <= Len(cache[r.cached].page)
          /\ w.state = "open" => /\ w.ask = cache[r.cached].title
                                 /\ f \notin heirs => Len(w.got) = r.sent
    /\ f \notin heirs \union misled' => \A i \in DOMAIN w.got : w.got[i] = <<w.ask, i>>

LEMMA ReadingSteps ==
    ASSUME IInv, NEW c \in Slots, NEW f \in Users, f = slot[c].fd, NEW r \in SlotRec,
           NEW w \in UserRec, Reading(c, f, r, w)
    PROVE  IInv'
<1> USE DEF Reading
<1>0. /\ cache' = cache /\ cacheProperty' = cacheProperty /\ cacheIndex' = cacheIndex
      /\ cacheSize' = cacheSize /\ accepted' = accepted /\ fds' = fds /\ dead' = dead
      /\ server' = server /\ rangeOf' = rangeOf /\ heirs' = heirs /\ mixed' = mixed
  BY DEF cacheVars
<1>m. \A u \in Users : /\ u \in misled => u \in misled'
                       /\ u # f => (u \in misled' <=> u \in misled)
  OBVIOUS
<1>1. /\ Going /\ slot' \in [Slots -> SlotRec] /\ at' \in 0..Polling
      /\ After(c, r) /\ \A d \in Slots : d # c => After(d, slot[d])
  <2>1. c \in 0..2 * MaxClients
    BY Sizes, Numbers
  <2>2. QED
    BY <2>1, PutOn
<1>2. /\ Same(c, r) /\ \A d \in Slots : d # c => Same(d, slot[d])
      /\ \A d \in Slots : slot'[d].fd = slot[d].fd /\ slot'[d].http = slot[d].http
  BY <1>1 DEF After, Same
<1>3. user' \in [Users -> UserRec] /\ user'[f] = w /\ \A u \in Users : u # f => user'[u] = user[u]
  BY Types DEF IInv
<1>4. f \in fds /\ (\A d \in Slots : d # c => slot[d].fd # f) /\ ~(f > accepted)
  BY DEF IInv, Apart, Requests
<1>5. r.cached # EMPTY /\ NoTitle \notin Titles
  BY Sizes
<1>6. TypeOK'
  <2>1. /\ server' \in [Servers -> ServerRec] /\ cache' \in [Entries -> EntryRec]
        /\ cacheProperty' \in [Entries -> {"EMPTY", "DOWNLOADING", "DOWNLOADED"}]
        /\ cacheIndex' \in 0..CacheSize /\ cacheSize' \in 0..CacheSize
        /\ fds' \subseteq Users \union Servers /\ heirs' \subseteq Users
        /\ rangeOf' \in [Titles -> Ranges]
        /\ mixed' \subseteq Entries /\ misled' \subseteq Users
    BY <1>0, Types DEF IInv
  <2>2. accepted' \in 0..Conns /\ dead' \in {"no", "pipe", "free"}
    BY <1>0 DEF IInv, TypeOK
  <2>3. QED
    BY <1>1, <1>3, <2>1, <2>2, Typed
<1>7. Apart'
  <2>1. \A d \in Slots : slot'[d].http # 0 =>
            slot'[d].fd \in Users /\ slot'[d].cached # EMPTY /\ slot'[d].http \in fds'
    BY <1>0, <1>2, <1>5 DEF Same, IInv, Apart
  <2>2. QED
    BY <1>0, <1>2, <2>1 DEF IInv, Apart
<1>8. Announcements'
  <2>1. ResetsStay
    BY <1>0, <1>3 DEF ResetsStay
  <2>2. \A d \in Slots : d # c => Told(d)
    BY <1>1, <2>1, StillTold
  <2>4. Told(c)
    <3>1. /\ slot[c].hrevents # {} => slot[c].http # 0
          /\ "POLLHUP" \in slot[c].revents => user[slot[c].fd].state = "reset"
          /\ "POLLHUP" \in slot[c].hrevents => server[slot[c].http].state = "reset"
      BY DEF IInv, Announcements
    <3>2. /\ slot'[c].revents \in {slot[c].revents, {}} /\ slot'[c].fd = f
          /\ slot'[c].hrevents \in {slot[c].hrevents, {}} /\ slot'[c].http = slot[c].http
      BY <1>1, <1>2 DEF After, Same
    <3>3. QED
      BY <1>0, <1>3, <3>1, <3>2 DEF Told
  <2>5. QED
    BY <1>1, <2>2, <2>4, AllTold
<1>9. Downloads'
  <2>1. \A d \in Slots : slot'[d].http # 0 =>
            slot[d].http # 0 /\ slot'[d].cached = slot[d].cached /\ slot'[d].ends = "WORKING"
    BY <1>2 DEF Same, IInv, Downloads
  <2>2. \A d \in Slots : slot'[d].http # 0 /\ slot[d].cached \notin mixed =>
            slot'[d].sent <= Len(cache[slot[d].cached].page)
    BY <1>2 DEF Same, IInv, Downloads
  <2>3. QED
    BY <1>0, <1>2, <2>1, <2>2 DEF IInv, Downloads
<1>10. Requests'
  <2>1. ~Waiting(f)'
    BY <1>0, <1>3, <1>4, <1>5 DEF Waiting
  <2>2. ASSUME NEW u \in Users, u # f, Waiting(u)' PROVE Waiting(u)
    BY <1>0, <1>3, <2>2 DEF Waiting
  <2>3. ASSUME NEW u \in Users, Waiting(u)'
        PROVE  /\ server'[Conns + u].state = "unused" /\ user'[u].got = <<>>
               /\ \A d \in Slots : slot'[d].fd = u =>
                      slot'[d].http = 0 /\ slot'[d].cached = EMPTY
    <3>1. u # f /\ Waiting(u)
      BY <2>1, <2>2, <2>3
    <3>2. /\ server[Conns + u].state = "unused" /\ user[u].got = <<>>
          /\ \A d \in Slots : slot[d].fd = u => slot[d].http = 0 /\ slot[d].cached = EMPTY
      BY <3>1 DEF IInv, Requests
    <3>3. QED
      BY <1>0, <1>2, <1>3, <3>1, <3>2 DEF Same
  <2>4. ASSUME NEW u \in Users
        PROVE  /\ u > accepted' => /\ u \notin fds' /\ user'[u].state \in {"away", "open"}
                                   /\ user'[u].ask = NoTitle /\ ~user'[u].unread
               /\ user'[u].unread =>
                      u \in fds' /\ user'[u].ask # NoTitle /\ user'[u].state \in {"open", "shut"}
               /\ user'[u].state = "away" => user'[u].ask = NoTitle
               /\ user'[u].got # <<>> => user'[u].state = "open" /\ user'[u].ask \in Titles
    <3>1. CASE u = f
      BY <1>0, <1>3, <1>4, <3>1
    <3>2. CASE u # f
      BY <1>0, <1>3, <3>2 DEF IInv, Requests
    <3>3. QED
      BY <3>1, <3>2
  <2>5. QED
    BY <2>3, <2>4 DEF Requests
<1>11. Speech' /\ Entered' /\ Pages' /\ FreeOnlyAfterReset'
  <2>1. Speech' /\ Entered'
    BY <1>0 DEF IInv, Speech, Used, Entered
  <2>2. Pages'
    BY <1>0 DEF IInv, Pages
  <2>3. FreeOnlyAfterReset'
    BY <1>0 DEF IInv, FreeOnlyAfterReset
  <2>4. QED
    BY <2>1, <2>2, <2>3
<1>12. Readers'
  <2>1. ASSUME NEW d \in Slots, d # c, slot'[d].cached # EMPTY
        PROVE  /\ slot'[d].fd \in Users
               /\ cache'[slot'[d].cached].title \in Titles
               /\ slot'[d].sent \in Nat
               /\ slot'[d].cached \in mixed' => slot'[d].fd \in misled'
               /\ user'[slot'[d].fd].state = "open" => user'[slot'[d].fd].ask \in Titles
               /\ slot'[d].fd \notin misled' =>
                     /\ slot'[d].sent <= Len(cache'[slot'[d].cached].page)
                     /\ user'[slot'[d].fd].state = "open" =>
                           /\ user'[slot'[d].fd].ask = cache'[slot'[d].cached].title
                           /\ slot'[d].fd \notin heirs' =>
                                 Len(user'[slot'[d].fd].got) = slot'[d].sent
    <3>1. Same(d, slot[d]) /\ slot[d].cached # EMPTY /\ slot[d].fd # f
      BY <1>2, <1>4, <2>1 DEF Same
    <3>2. /\ slot[d].fd \in Users
          /\ cache[slot[d].cached].title \in Titles
          /\ slot[d].sent \in Nat
          /\ slot[d].cached \in mixed => slot[d].fd \in misled
          /\ user[slot[d].fd].state = "open" => user[slot[d].fd].ask \in Titles
          /\ slot[d].fd \notin misled =>
                /\ slot[d].sent <= Len(cache[slot[d].cached].page)
                /\ user[slot[d].fd].state = "open" =>
                      /\ user[slot[d].fd].ask = cache[slot[d].cached].title
                      /\ slot[d].fd \notin heirs => Len(user[slot[d].fd].got) = slot[d].sent
      BY <3>1 DEF IInv, Readers
    <3>3. user'[slot[d].fd] = user[slot[d].fd] /\ (slot[d].fd \in misled' <=> slot[d].fd \in misled)
      BY <1>3, <1>m, <3>1, <3>2
    <3> HIDE DEF Reading
    <3>4. QED
      BY <1>0, <3>1, <3>2, <3>3 DEF Same
  <2>2. /\ slot'[c].fd \in Users
        /\ cache'[slot'[c].cached].title \in Titles
        /\ slot'[c].sent \in Nat
        /\ slot'[c].cached \in mixed' => slot'[c].fd \in misled'
        /\ user'[slot'[c].fd].state = "open" => user'[slot'[c].fd].ask \in Titles
        /\ slot'[c].fd \notin misled' =>
              /\ slot'[c].sent <= Len(cache'[slot'[c].cached].page)
              /\ user'[slot'[c].fd].state = "open" =>
                    /\ user'[slot'[c].fd].ask = cache'[slot'[c].cached].title
                    /\ slot'[c].fd \notin heirs' =>
                          Len(user'[slot'[c].fd].got) = slot'[c].sent
    BY <1>0, <1>2, <1>3 DEF Same
  <2>3. QED
    BY <2>1, <2>2 DEF Readers
<1>13. Leak'
  <2>1. Lost' = Lost
    BY <1>0, <1>2 DEF Lost
  <2>2. \A u \in Users : u \in HungUp' <=> u \in HungUp
    BY <1>0, <1>3, <1>4, <1>m DEF HungUp
  <2>3. HungUp' = HungUp
    BY <2>2 DEF HungUp
  <2>4. QED
    BY <2>1, <2>3 DEF IInv, Leak
<1>14. InOrder'
  BY <1>0, <1>3, <1>m DEF IInv, InOrder
<1>15. FoundIsServed'
  <2>1. Patient' => Patient
    BY <1>0, <1>3 DEF Patient
  <2>2. \A d \in Slots : slot[d].http # 0 => slot'[d].http # 0 /\ slot'[d].cached = slot[d].cached
    BY <1>2 DEF Same
  <2>3. QED
    BY <1>0, <2>1, <2>2 DEF IInv, FoundIsServed, With
<1>16. QED
  BY <1>6, <1>7, <1>8, <1>9, <1>10, <1>11, <1>12, <1>13, <1>14, <1>15 DEF IInv

\* tryFindAtCache.
LEMMA FindsSteps ==
    ASSUME IInv, NEW c \in Slots, Finds(c)
    PROVE  IInv'
<1> DEFINE found == With(Asked(c))
<1>1. /\ at = c /\ user[slot[c].fd].unread /\ Asked(c) \in Titles /\ found # {}
      /\ Goes([slot EXCEPT ![c].cached = Min(found), ![c].sent = 0,
                           ![c].length = Parsed(c), ![c].ends = "END_SOCKET_INPUT",
                           ![c].events = {"POLLOUT"}], c)
      /\ user' = Read(c)
      /\ misled' = IF Min(found) \in mixed THEN misled \union {slot[c].fd} ELSE misled
      /\ UNCHANGED <<cacheVars, accepted, fds, dead, server, rangeOf, heirs, mixed>>
  BY DEF Finds, ReadsRequest, Reads
<1>2. PICK f \in Users : f = slot[c].fd
  BY <1>1, Visited
<1>3. slot[c].http = 0 /\ user[f].got = <<>>
  BY <1>1, <1>2, Asking, HasNothing
<1>4. PICK e \in Entries : e = Min(found) /\ cache[e].title = Asked(c)
  <2>1. \A e \in found : e \in Nat /\ e \in Entries /\ cache[e].title = Asked(c)
    BY Types, Sizes DEF IInv, With, Entries
  <2>2. Min(found) \in found
    BY <1>1, <2>1, Least
  <2>3. QED
    BY <2>1, <2>2
<1>5. slot \in [Slots -> SlotRec] /\ rangeOf \in [Titles -> Ranges]
  BY Types DEF IInv
<1>6. PICK o \in SlotRec : o = slot[c]
  BY <1>5
<1>7. PICK n \in {EMPTY} \union Nat : n = Parsed(c)
  <2>1. o.length \in {EMPTY} \union Nat
    BY DEF SlotRec
  <2>2. rangeOf[Asked(c)] \in {EMPTY} \union Nat
    BY <1>1, <1>5, Sizes
  <2>3. QED
    BY <1>6, <2>1, <2>2 DEF Parsed
<1>8. PICK r : r = [o EXCEPT !.cached = e, !.sent = 0, !.length = n,
                             !.ends = "END_SOCKET_INPUT", !.events = {"POLLOUT"}]
  OBVIOUS
<1>9. /\ r \in SlotRec /\ r.fd = o.fd /\ r.http = o.http /\ r.revents = o.revents
      /\ r.hrevents = o.hrevents /\ r.cached = e /\ r.sent = 0
  <2>1. 0 \in {EMPTY} \union Nat
    BY Sizes
  <2>2. QED
    BY <1>8, <2>1 DEF SlotRec
<1>10. Goes([slot EXCEPT ![c] = r], c)
  <2>1. [slot EXCEPT ![c].cached = e, ![c].sent = 0, ![c].length = n,
                     ![c].ends = "END_SOCKET_INPUT", ![c].events = {"POLLOUT"}]
            = [slot EXCEPT ![c] = r]
    BY <1>5, <1>6, <1>8
  <2>2. Goes([slot EXCEPT ![c].cached = e, ![c].sent = 0, ![c].length = n,
                     ![c].ends = "END_SOCKET_INPUT", ![c].events = {"POLLOUT"}], c)
    BY <1>1, <1>4, <1>7
  <2>3. QED
    BY <2>1, <2>2
<1>11. PICK w : w = Read(c)[f]
  OBVIOUS
<1>12. /\ w \in UserRec /\ w.state = user[f].state /\ w.ask = Asked(c) /\ w.got = <<>>
       /\ ~w.unread
  BY <1>1, <1>2, <1>3, <1>11, ReadIn DEF Asked
<1>13. user' = [user EXCEPT ![f] = w]
  <2>1. user \in [Users -> UserRec]
    BY Types DEF IInv
  <2>2. user' = [user EXCEPT ![f].unread = FALSE]
    BY <1>1, <1>2 DEF Read
  <2>3. w = user'[f]
    BY <1>1, <1>11
  <2>4. QED
    BY <2>1, <2>2, <2>3
<1>14. w.state # "away"
  <2>1. user[f].unread => user[f].state \in {"open", "shut"}
    BY DEF IInv, Requests
  <2>2. QED
    BY <1>1, <1>2, <1>12, <2>1
<1>15. Len(w.got) = 0 /\ DOMAIN w.got = {}
  BY <1>12, UserFacts, EmptySeq
<1>16. 0 <= Len(cache[e].page)
  <2>1. cache[e] \in EntryRec
    BY Types DEF IInv
  <2>2. QED
    BY <2>1, EntryFacts
<1>17. misled' \in {misled, misled \union {f}} /\ (e \in mixed => f \in misled')
  BY <1>1, <1>2, <1>4
<1>18. Reading(c, f, r, w)
  BY <1>1, <1>2, <1>3, <1>4, <1>6, <1>9, <1>10, <1>12, <1>13, <1>14, <1>15, <1>16, <1>17
     DEF Reading
<1>19. QED
  BY <1>2, <1>9, <1>12, <1>18, ReadingSteps

\* A sequence with some of the elements of another one behind it.
Joined(g, p, n, m, h) ==
    /\ h = g \o SubSeq(p, n + 1, n + m) /\ Len(h) = Len(g) + m
    /\ \A i \in 1..Len(g) : h[i] = g[i]
    /\ \A i \in 1..m : h[Len(g) + i] = p[n + i]

LEMMA Extended ==
    ASSUME NEW V, NEW g \in Seq(V), NEW p \in Seq(V), NEW n \in Nat, NEW m \in Nat,
           m = 0 \/ n + m <= Len(p)
    PROVE  \E h \in Seq(V) : Joined(g, p, n, m, h)
<1>1. PICK q \in Seq(V) : /\ q = SubSeq(p, n + 1, n + m) /\ Len(q) = m
                          /\ \A i \in 1..m : q[i] = p[n + i]
  <2>1. CASE n + m <= Len(p)
    <3>1. n + 1 \in Int /\ n + m \in Int /\ \A i \in n + 1..n + m : p[i] \in V
      BY <2>1
    <3>2. /\ SubSeq(p, n + 1, n + m) \in Seq(V)
          /\ Len(SubSeq(p, n + 1, n + m)) =
                 IF n + 1 <= n + m THEN n + m - (n + 1) + 1 ELSE 0
          /\ \A i \in 1..n + m - (n + 1) + 1 :
                 SubSeq(p, n + 1, n + m)[i] = p[n + 1 + i - 1]
      BY <3>1, SubSeqProperties
    <3>3. n + m - (n + 1) + 1 = m /\ (~(n + 1 <= n + m) => m = 0)
          /\ \A i \in 1..m : n + 1 + i - 1 = n + i
      OBVIOUS
    <3>4. Len(SubSeq(p, n + 1, n + m)) = m
      BY <3>2, <3>3
    <3>5. \A i \in 1..m : SubSeq(p, n + 1, n + m)[i] = p[n + i]
      BY <3>2, <3>3
    <3>6. QED
      BY <3>2, <3>4, <3>5
  <2>2. CASE m = 0
    <3>1. n + 1 \in Int /\ n + m \in Int /\ n + m < n + 1 /\ 1..m = {}
      BY <2>2
    <3>2. SubSeq(p, n + 1, n + m) = <<>>
      BY <3>1, SubSeqEmpty
    <3>3. QED
      BY <2>2, <3>1, <3>2, EmptySeq
  <2>3. QED
    BY <2>1, <2>2
<1>2. /\ g \o q \in Seq(V) /\ Len(g \o q) = Len(g) + Len(q)
      /\ \A i \in 1..Len(g) + Len(q) : (g \o q)[i] = IF i <= Len(g) THEN g[i] ELSE q[i - Len(g)]
  BY ConcatProperties
<1>3. PICK h \in Seq(V) :
         /\ h = g \o q /\ Len(h) = Len(g) + m
         /\ \A i \in 1..Len(g) + m : h[i] = IF i <= Len(g) THEN g[i] ELSE q[i - Len(g)]
  BY <1>1, <1>2, Zenon
<1>4. PICK l \in Nat : l = Len(g)
  OBVIOUS
<1>5. \A i \in 1..Len(g) : h[i] = g[i]
  BY <1>3, <1>4
<1>6. ASSUME NEW i \in 1..m PROVE h[Len(g) + i] = p[n + i]
  <2>1. l + i \in 1..l + m /\ ~(l + i <= l) /\ l + i - l = i
    OBVIOUS
  <2>2. h[l + i] = q[i]
    BY <1>3, <1>4, <2>1
  <2>3. q[i] = p[n + i]
    BY <1>1
  <2>4. QED
    BY <1>4, <2>2, <2>3
<1>7. QED
  BY <1>1, <1>3, <1>5, <1>6 DEF Joined

\* What a write of the tokens of entry e leaves of user f.
WritesTo(c, f, e, sent, w) ==
    /\ (IF user[f].state = "open"
           THEN [user EXCEPT ![f].got = @ \o SubSeq(Page(c), slot[c].sent + 1, sent)]
           ELSE user) = [user EXCEPT ![f] = w]
    /\ w.state = user[f].state /\ w.ask = user[f].ask /\ ~w.unread
    /\ w.state # "away"
    /\ w.got # <<>> => w.state = "open"
    /\ w.state = "open" => w.ask \in Titles
    /\ f \notin misled /\ w.state = "open" => /\ w.ask = cache[e].title
                                              /\ f \notin heirs => Len(w.got) = sent
    /\ f \notin heirs \union misled => \A i \in DOMAIN w.got : w.got[i] = <<w.ask, i>>

LEMMA Writing ==
    ASSUME IInv, NEW c \in Slots, Resends(c), NEW f \in Users, f = slot[c].fd,
           NEW e \in Entries, e = slot[c].cached, NEW sent, sent = slot[c].sent + Written(c)
    PROVE  /\ sent \in Nat /\ cache[e].title \in Titles
           /\ slot[c].sent <= Len(cache[e].page) => sent <= Len(cache[e].page)
           /\ \E w \in UserRec : WritesTo(c, f, e, sent, w)
<1>1. PICK p \in Seq(Token) : p = Page(c) /\ p = cache[e].page
  <2>1. cache[e] \in EntryRec
    BY Types DEF IInv
  <2>2. QED
    BY <2>1, EntryFacts DEF Page
<1>2. PICK L \in Nat : L = Len(p)
  OBVIOUS
<1>3. /\ cache[e].title \in Titles /\ slot[c].sent \in Nat /\ e # EMPTY
      /\ e \in mixed => f \in misled
      /\ user[f].state = "open" => user[f].ask \in Titles
      /\ f \notin misled /\ user[f].state = "open" =>
             /\ user[f].ask = cache[e].title
             /\ f \notin heirs => Len(user[f].got) = slot[c].sent
  BY Sizes DEF IInv, Readers
<1>4. PICK n \in Nat : n = slot[c].sent
  BY <1>3
<1>5. PICK m \in Nat : m = Written(c) /\ (m = 0 \/ n + m <= L)
  <2>1. CASE n < L
    <3>1. PICK k \in Nat : k = L - n
      BY <2>1
    <3>2. Written(c) = Min({BufferSize, k})
      BY <1>1, <1>2, <1>4, <2>1, <3>1 DEF Written
    <3>3. Min({BufferSize, k}) \in {BufferSize, k} /\ Min({BufferSize, k}) <= k
      BY Sizes, Least
    <3>4. QED
      BY <3>1, <3>2, <3>3, Sizes
  <2>2. CASE ~(n < L)
    BY <1>1, <1>2, <1>4, <2>2 DEF Written
  <2>3. QED
    BY <2>1, <2>2
<1>6. sent = n + m /\ sent \in Nat
  BY <1>4, <1>5
<1>7. e \notin mixed => \A i \in 1..L : p[i] = <<cache[e].title, i>>
  BY <1>1, <1>2 DEF IInv, Pages
<1>8. slot[c].sent <= Len(cache[e].page) => sent <= Len(cache[e].page)
  BY <1>1, <1>2, <1>4, <1>5, <1>6
<1>9. PICK o \in UserRec : o = user[f]
  BY Types DEF IInv
<1>10. ~o.unread /\ o.state # "away"
  <2>1. ~Waiting(f)
    BY <1>3 DEF IInv, Requests
  <2>2. f \in fds
    BY DEF IInv, Apart
  <2>3. user[f].state = "away" => user[f].ask = NoTitle
    BY DEF IInv, Requests
  <2>4. QED
    BY <1>9, <2>1, <2>2, <2>3 DEF Waiting
<1>11. CASE o.state # "open"
  <2>1. o.got = <<>>
    BY <1>9, <1>11 DEF IInv, Requests
  <2>2. DOMAIN o.got = {}
    BY <2>1, UserFacts, EmptySeq
  <2>3. (IF user[f].state = "open"
             THEN [user EXCEPT ![f].got = @ \o SubSeq(Page(c), slot[c].sent + 1, sent)]
             ELSE user) = [user EXCEPT ![f] = o]
    BY <1>9, <1>11, Types DEF IInv
  <2>4. WritesTo(c, f, e, sent, o)
    BY <1>9, <1>10, <1>11, <2>1, <2>2, <2>3 DEF WritesTo
  <2>5. QED
    BY <1>3, <1>6, <1>8, <2>4
<1>12. CASE o.state = "open"
  <2>2. PICK g \in Seq(Token) : g = o.got
    BY UserFacts
  <2>a. PICK h \in Seq(Token) : Joined(g, p, n, m, h)
    <3>1. m = 0 \/ n + m <= Len(p)
      BY <1>2, <1>5
    <3>2. QED
      BY <3>1, Extended, Zenon
  <2>3. /\ h = g \o SubSeq(p, n + 1, n + m) /\ Len(h) = Len(g) + m
        /\ \A i \in 1..Len(g) : h[i] = g[i]
        /\ \A i \in 1..m : h[Len(g) + i] = p[n + i]
    BY <2>a DEF Joined
  <2>4. PICK w : w = [o EXCEPT !.got = h]
    OBVIOUS
  <2>5. w \in UserRec /\ w.state = o.state /\ w.ask = o.ask /\ (w.unread <=> o.unread)
        /\ w.got = h
    BY <2>4 DEF UserRec
  <2>6. (IF user[f].state = "open"
             THEN [user EXCEPT ![f].got = @ \o SubSeq(Page(c), slot[c].sent + 1, sent)]
             ELSE user) = [user EXCEPT ![f] = w]
    <3>1. user[f].got \o SubSeq(Page(c), slot[c].sent + 1, sent) = h
      <4>1. user[f].got = g /\ Page(c) = p /\ slot[c].sent = n /\ sent = n + m
        BY <1>1, <1>4, <1>6, <1>9, <2>2
      <4>2. h = g \o SubSeq(p, n + 1, n + m)
        BY <2>3
      <4>3. QED
        BY <4>1, <4>2, Zenon
    <3>2. [user EXCEPT ![f].got = @ \o SubSeq(Page(c), slot[c].sent + 1, sent)]
              = [user EXCEPT ![f] = w]
      BY <1>9, <2>4, <3>1, Zenon
    <3>3. QED
      BY <1>9, <1>12, <3>2
  <2>7. f \notin heirs \union misled => Len(g) = n
    BY <1>3, <1>4, <1>9, <1>12, <2>2
  <2>8. f \notin heirs \union misled => Len(h) = sent
    BY <1>6, <2>3, <2>7
  <2>9. o.ask \in Titles /\ (f \notin misled => o.ask = cache[e].title)
    BY <1>3, <1>9, <1>12
  <2>10. f \notin heirs \union misled => \A i \in DOMAIN h : h[i] = <<o.ask, i>>
    <3> SUFFICES ASSUME f \notin heirs \union misled, NEW i \in 1..n + m
                 PROVE  h[i] = <<o.ask, i>>
      <4>1. DOMAIN h = 1..Len(h)
        OBVIOUS
      <4>2. QED
        BY <1>6, <2>8, <4>1
    <3>1. CASE i <= n
      <4>1. i \in 1..Len(g) /\ h[i] = g[i]
        BY <2>3, <2>7, <3>1
      <4>2. i \in DOMAIN user[f].got /\ g[i] = user[f].got[i]
        <5>1. DOMAIN g = 1..Len(g)
          OBVIOUS
        <5>2. QED
          BY <1>9, <2>2, <4>1, <5>1
      <4>3. user[f].got[i] = <<user[f].ask, i>>
        BY <4>2 DEF IInv, InOrder
      <4>4. QED
        BY <1>9, <4>1, <4>2, <4>3
    <3>2. CASE ~(i <= n)
      <4>1. PICK k \in 1..m : i = n + k
        <5>1. i - n \in 1..m /\ i = n + (i - n)
          BY <3>2
        <5>2. QED
          BY <5>1
      <4>2. h[i] = p[n + k]
        BY <2>3, <2>7, <4>1
      <4>3. n + k \in 1..L
        BY <1>5, <4>1
      <4>4. p[n + k] = <<cache[e].title, n + k>>
        BY <1>3, <1>7, <4>3
      <4>5. QED
        BY <2>9, <4>1, <4>2, <4>4
    <3>3. QED
      BY <3>1, <3>2
  <2>11. WritesTo(c, f, e, sent, w)
    BY <1>3, <1>9, <1>10, <1>12, <2>5, <2>6, <2>8, <2>9, <2>10 DEF WritesTo
  <2>12. QED
    BY <1>3, <1>6, <1>8, <2>5, <2>11
<1>13. QED
  BY <1>11, <1>12

\* What ServedWhole says of a step.
LetsGoWhole ==
    \A u \in Users \ (heirs \union misled) :
         /\ LetGo(u)' /\ ~LetGo(u)
         /\ user'[u].got # <<>> /\ server[Conns + u].state = "unused"
         => \E e \in Entries :
               /\ cache'[e] = [title |-> user[u].ask, page |-> user'[u].got]
               /\ \A c \in Slots : slot'[c].cached = e => slot'[c].http = 0

\* Nobody is let go with something but a user who had a server or inherited one.
Keeps ==
    \A u \in Users :
        /\ user'[u].got # <<>> => user[u].got # <<>>
        /\ u \in fds /\ u \notin fds' => \/ user'[u].got = <<>> \/ u \in heirs
                                         \/ server[Conns + u].state # "unused"
        /\ u \notin fds /\ u <= accepted' => u <= accepted \/ u \in fds'

LEMMA Keeping ==
    ASSUME IInv, Keeps
    PROVE  LetsGoWhole
<1> SUFFICES ASSUME NEW u \in Users, u \notin heirs, LetGo(u)', ~LetGo(u), user'[u].got # <<>>,
                    server[Conns + u].state = "unused"
             PROVE  FALSE
  BY DEF LetsGoWhole
<1>1. u <= accepted' /\ u \notin fds' /\ user[u].got # <<>>
  BY DEF LetGo, Keeps
<1>2. user[u].state = "open"
  BY <1>1 DEF IInv, Requests
<1>3. u \notin fds
  BY <1>1 DEF Keeps
<1>4. u <= accepted
  BY <1>1, <1>3 DEF Keeps
<1>5. QED
  BY <1>2, <1>3, <1>4 DEF LetGo

\* resendFromCache.
LEMMA SendsSteps ==
    ASSUME IInv, NEW c \in Slots, Sends(c)
    PROVE  IInv' /\ LetsGoWhole
<1>1. /\ Resends(c) /\ at = c /\ slot[c].cached # EMPTY
      /\ UNCHANGED <<cacheVars, accepted, dead, rangeOf, heirs, readVars>>
  BY DEF Sends, Resends
<1>2. PICK f \in Users : f = slot[c].fd
  BY <1>1, Visited
<1>3. PICK o \in SlotRec : o = slot[c]
  BY Types DEF IInv
<1>4. PICK e \in Entries : e = slot[c].cached
  BY <1>1, <1>3, SlotFacts
<1>5. PICK sent : sent = slot[c].sent + Written(c)
  OBVIOUS
<1>6. /\ sent \in Nat /\ cache[e].title \in Titles
      /\ slot[c].sent <= Len(cache[e].page) => sent <= Len(cache[e].page)
      /\ \E w \in UserRec : WritesTo(c, f, e, sent, w)
  BY <1>1, <1>2, <1>4, <1>5, Writing
<1>7. PICK w \in UserRec : WritesTo(c, f, e, sent, w)
  BY <1>6
<1>8. PICK us : us = IF user[f].state = "open"
                        THEN [user EXCEPT ![f].got = @ \o SubSeq(Page(c), slot[c].sent + 1, sent)]
                        ELSE user
  OBVIOUS
<1>9. us = [user EXCEPT ![f] = w]
  BY <1>7, <1>8, Zenon DEF WritesTo
<1>10. /\ w.state = user[f].state /\ w.ask = user[f].ask /\ ~w.unread
       /\ w.state # "away"
       /\ w.got # <<>> => w.state = "open"
       /\ w.state = "open" => w.ask \in Titles
       /\ f \notin misled /\ w.state = "open" => /\ w.ask = cache[e].title
                                                 /\ f \notin heirs => Len(w.got) = sent
       /\ f \notin heirs \union misled => \A i \in DOMAIN w.got : w.got[i] = <<w.ask, i>>
  BY <1>7 DEF WritesTo
<1>11. user \in [Users -> UserRec] /\ slot \in [Slots -> SlotRec] /\ cache \in [Entries -> EntryRec]
  BY Types DEF IInv
<1>12. /\ Len(cache[e].page) \in Nat
       /\ e \in mixed => f \in misled
       /\ f \notin misled => sent <= Len(cache[e].page)
  <2>1. Len(cache[e].page) \in Nat
    BY <1>11, EntryFacts
  <2>2. /\ e \in mixed => f \in misled
        /\ f \notin misled => slot[c].sent <= Len(cache[e].page)
    BY <1>1, <1>2, <1>4 DEF IInv, Readers
  <2>3. QED
    BY <1>6, <2>1, <2>2
<1>13. IF Finished(c, sent)
          THEN Disconnects(c, c, us)
          ELSE /\ Goes([slot EXCEPT ![c].sent = sent], c)
               /\ user' = us
               /\ UNCHANGED <<fds, server>>
  BY <1>2, <1>5, <1>8, Zenon DEF Sends
<1>14. CASE ~Finished(c, sent)
  <2>1. /\ Goes([slot EXCEPT ![c].sent = sent], c) /\ user' = us /\ UNCHANGED <<fds, server>>
    BY <1>13, <1>14
  <2>2. PICK r : r = [o EXCEPT !.sent = sent]
    OBVIOUS
  <2>3. /\ r \in SlotRec /\ r.fd = o.fd /\ r.http = o.http /\ r.revents = o.revents
        /\ r.hrevents = o.hrevents /\ r.cached = o.cached /\ r.sent = sent /\ r.ends = o.ends
    BY <1>6, <2>2 DEF SlotRec
  <2>4. Goes([slot EXCEPT ![c] = r], c)
    BY <1>3, <1>11, <2>1, <2>2
  <2>5. r.http # 0 => /\ r.ends = "WORKING"
                      /\ e \notin mixed => r.sent <= Len(cache[e].page)
    <3>1. slot[c].http # 0 => /\ slot[c].ends = "WORKING"
                              /\ e \notin mixed => slot[c].sent <= Len(cache[e].page)
      BY <1>4 DEF IInv, Downloads
    <3>2. QED
      BY <1>3, <1>6, <2>3, <3>1
  <2>6. user' = [user EXCEPT ![f] = w]
    BY <1>9, <2>1
  <2>7. UNCHANGED <<cacheVars, accepted, fds, dead, server, rangeOf, heirs, mixed>>
        /\ misled' = misled
    BY <1>1, <2>1
  <2>8. /\ r.fd = f /\ r.http = slot[c].http /\ r.revents = slot[c].revents
        /\ r.hrevents = slot[c].hrevents /\ r.cached = e /\ r.cached = slot[c].cached
    BY <1>2, <1>3, <1>4, <2>3
  <2>9. Reading(c, f, r, w)
    BY <1>6, <1>10, <1>12, <2>3, <2>4, <2>5, <2>6, <2>7, <2>8 DEF Reading
  <2>10. IInv'
    BY <1>2, <2>3, <2>9, ReadingSteps
  <2>11. LetsGoWhole
    <3> SUFFICES ASSUME NEW u \in Users, LetGo(u)', ~LetGo(u) PROVE FALSE
      BY DEF LetsGoWhole
    <3>1. \A x \in Users : user'[x].state = user[x].state
      BY <1>10, <1>11, <2>6
    <3>2. QED
      BY <2>7, <3>1 DEF LetGo
  <2>12. QED
    BY <2>10, <2>11
<1>15. CASE Finished(c, sent)
  <2>1. /\ Goes([slot EXCEPT ![c] = FreeSlot], c) /\ Forgets(c) /\ user' = Closed(us, f)
        /\ fds' = fds \ {f}
    BY <1>2, <1>13, <1>15 DEF Disconnects
  <2>2. /\ sent >= Len(cache[e].page) /\ slot[c].ends = "END_SOCKET_INPUT"
        /\ cacheProperty[e] = "DOWNLOADED"
    BY <1>4, <1>15 DEF Finished, Page
  <2>3. f \notin misled => sent = Len(cache[e].page)
    BY <1>6, <1>12, <2>2
  <2>4. slot[c].http = 0
    BY <2>2 DEF IInv, Downloads
  <2>5. us \in [Users -> UserRec] /\ us[f] = w
    BY <1>9, <1>11
  <2>6. PICK v \in UserRec : ClosedAs(us, f, v)
    BY <2>5, Closing, Zenon
  <2>7. /\ Closed(us, f) = [us EXCEPT ![f] = v]
        /\ v.state = w.state /\ v.got = w.got
        /\ w.got = <<>> => v.ask = NoTitle /\ ~v.unread
        /\ w.got # <<>> => v.ask = w.ask /\ (v.unread <=> w.unread)
    BY <2>5, <2>6 DEF ClosedAs
  <2>8. user' = [user EXCEPT ![f] = v]
    <3>1. [us EXCEPT ![f] = v] = [user EXCEPT ![f] = v]
      BY <1>9, <1>11
    <3>2. QED
      BY <2>1, <2>7, <3>1
  <2>9. v.state = user[f].state /\ ~v.unread /\ v.state # "away"
    BY <1>10, <2>7
  <2>10. v.got # <<>> => v.state = "open" /\ v.ask \in Titles
    BY <1>10, <2>7
  <2>11. f \notin heirs \union misled => \A i \in DOMAIN v.got : v.got[i] = <<v.ask, i>>
    <3>1. CASE w.got = <<>>
      <4>1. DOMAIN v.got = {}
        BY <2>7, <3>1, UserFacts, EmptySeq
      <4>2. QED
        BY <4>1
    <3>2. CASE w.got # <<>>
      BY <1>10, <2>7, <3>2
    <3>3. QED
      BY <3>1, <3>2
  <2>12. cache' = cache /\ cacheProperty' = cacheProperty
         /\ UNCHANGED <<cacheIndex, cacheSize, accepted, dead, rangeOf, heirs, readVars>>
    BY <1>1 DEF cacheVars
  <2>13. f \notin heirs \union misled /\ v.got # <<>> =>
            /\ cache'[e] = [title |-> v.ask, page |-> v.got]
            /\ \A d \in Slots : d # c /\ slot[d].cached = e => slot[d].http = 0
    <3> SUFFICES ASSUME f \notin heirs \union misled, v.got # <<>>
                 PROVE  /\ cache'[e] = [title |-> v.ask, page |-> v.got]
                        /\ \A d \in Slots : d # c /\ slot[d].cached = e => slot[d].http = 0
      OBVIOUS
    <3>0. e \notin mixed
      BY <1>12
    <3>1. w.got # <<>> /\ w.state = "open" /\ v.ask = cache[e].title /\ Len(v.got) = sent
      BY <1>10, <2>7
    <3>2. PICK g \in Seq(Token) : g = v.got /\ DOMAIN g = 1..Len(g)
      BY UserFacts
    <3>3. PICK p \in Seq(Token) : p = cache[e].page /\ DOMAIN p = 1..Len(p)
      BY <1>11, EntryFacts
    <3>4. Len(g) = Len(p)
      BY <2>3, <3>1, <3>2, <3>3
    <3>5. \A i \in 1..Len(g) : g[i] = p[i]
      <4>1. \A i \in DOMAIN g : g[i] = <<v.ask, i>>
        BY <2>11, <3>2
      <4>2. \A i \in DOMAIN p : p[i] = <<v.ask, i>>
        BY <3>0, <3>1, <3>3 DEF IInv, Pages
      <4>3. QED
        BY <3>2, <3>3, <3>4, <4>1, <4>2
    <3>6. g = p
      BY <3>4, <3>5, SeqEqual
    <3>7. cache[e] = [title |-> v.ask, page |-> v.got]
      <4>1. cache[e] \in EntryRec /\ cache[e].title = v.ask /\ cache[e].page = v.got
        BY <1>11, <3>1, <3>2, <3>3, <3>6
      <4>2. QED
        BY <4>1 DEF EntryRec
    <3>8. \A d \in Slots : slot[d].cached = e => slot[d].http = 0
      BY <2>2, <3>0 DEF IInv, Downloads
    <3>9. QED
      BY <2>12, <3>7, <3>8
  <2>14. \A d \in Slots : slot'[d].http # 0 =>
             d # c /\ slot[d].http # 0 /\ slot'[d].cached = slot[d].cached
    <3>1. After(c, FreeSlot) /\ \A d \in Slots : d # c => After(d, slot[d])
      BY <2>1, FreeSlotFacts, PutOn, Sizes, Numbers
    <3>2. QED
      BY <3>1, FreeSlotFacts DEF After, Same
  <2>15. /\ \A x \in Entries : \/ cache'[x] = cache[x]
                               \/ /\ slot[c].http # 0 /\ x = slot[c].cached /\ Clones(c) = {}
                                  /\ cache'[x] = NoPage
         /\ \A x \in Entries : \/ cacheProperty'[x] = cacheProperty[x]
                               \/ /\ x = slot[c].cached
                                  /\ cacheProperty'[x] = "EMPTY" \/ slot[c].http # 0
    BY <2>12
  <2>16. cache' \in [Entries -> EntryRec]
         /\ cacheProperty' \in [Entries -> {"EMPTY", "DOWNLOADING", "DOWNLOADED"}]
    BY <2>12, Types DEF IInv
  <2>17. /\ \/ slot[c].http = 0 \/ slot[c].http \notin fds' \/ user[f].state = "reset"
         /\ Patient => /\ cache' = cache
                       /\ \/ slot[c].http = 0 /\ cacheProperty' = cacheProperty
                          \/ /\ slot[c].cached \in Entries
                             /\ cacheProperty' = [cacheProperty EXCEPT ![slot[c].cached] =
                                                      "DOWNLOADED"]
    BY <2>4, <2>12
  <2>18. UNCHANGED <<cacheIndex, cacheSize, accepted, dead, rangeOf, heirs, readVars>>
         /\ (v.state = "away" => v.ask = NoTitle) /\ c \in 0..2 * MaxClients
    BY <2>9, <2>12, Sizes, Numbers
  <2>19. /\ Goes([slot EXCEPT ![c] = FreeSlot], c) /\ Forgets(c)
         /\ fds' = fds \ {f} \/ fds' = fds \ {f, slot[c].http}
    BY <2>1
  <2>20. IInv'
    BY <1>2, <2>8, <2>9, <2>10, <2>11, <2>15, <2>16, <2>17, <2>18, <2>19, Freeing,
       ZenonT(60)
  <2>21. LetsGoWhole
    <3> SUFFICES ASSUME NEW u \in Users, u \notin heirs \union misled, LetGo(u)', ~LetGo(u),
                        user'[u].got # <<>>
                 PROVE  \E x \in Entries :
                           /\ cache'[x] = [title |-> user[u].ask, page |-> user'[u].got]
                           /\ \A d \in Slots : slot'[d].cached = x => slot'[d].http = 0
      BY DEF LetsGoWhole
    <3>1. u = f
      <4>1. u # f => user'[u] = user[u]
        BY <1>11, <2>8
      <4>2. u # f => (u \in fds' <=> u \in fds)
        BY <2>1
      <4>3. QED
        BY <2>12, <4>1, <4>2 DEF LetGo
    <3>2. user'[u] = v /\ v.ask = user[u].ask
      BY <1>10, <1>11, <2>7, <2>8, <3>1
    <3>3. /\ cache'[e] = [title |-> user[u].ask, page |-> user'[u].got]
          /\ \A d \in Slots : d # c /\ slot[d].cached = e => slot[d].http = 0
      BY <2>13, <3>1, <3>2
    <3>4. \A d \in Slots : slot'[d].cached = e => slot'[d].http = 0
      BY <2>14, <3>3
    <3>5. QED
      BY <3>3, <3>4
  <2>22. QED
    BY <2>20, <2>21
<1>16. QED
  BY <1>14, <1>15

-----------------------------------------------------------------------------
(* The owner of a download leaves it to another reader. *)

LEMMA HandsOverSteps ==
    ASSUME IInv, NEW c \in Slots, HandsOver(c)
    PROVE  IInv'
<1>1. /\ at = c /\ user[slot[c].fd].state = "shut" /\ slot[c].http # 0 /\ Clones(c) # {}
      /\ fds' = fds \ {slot[c].fd} /\ user' = Closed(user, slot[c].fd)
      /\ UNCHANGED <<cache, cacheIndex, cacheSize, accepted, dead, server, rangeOf, readVars>>
  BY DEF HandsOver, ReadsEnd, Reads
<1>2. PICK i \in Slots : i = Min(Clones(c)) /\ i # c /\ slot[i].cached = slot[c].cached
  <2>1. Clones(c) \in SUBSET Nat
    BY Numbers DEF Clones
  <2>2. Min(Clones(c)) \in Clones(c)
    BY <1>1, <2>1, Least
  <2>3. QED
    BY <2>2 DEF Clones
<1>3. /\ Goes([slot EXCEPT ![c].fd = slot[i].fd, ![c].events = slot[i].events,
                           ![i] = FreeSlot], c)
      /\ cacheProperty' = [cacheProperty EXCEPT ![i] = "EMPTY"]
      /\ heirs' = heirs \union {slot[i].fd}
  BY <1>2 DEF HandsOver
<1>4. PICK f \in Users : f = slot[c].fd
  BY <1>1, Visited
<1>5. PICK g \in Users : g = slot[i].fd /\ g # f
  <2>1. slot[c].cached # EMPTY
    BY <1>1 DEF IInv, Apart
  <2>2. slot[i].fd \in Users
    BY <1>2, <2>1 DEF IInv, Readers
  <2>3. slot[i].fd # slot[c].fd
    BY <1>2, <2>2 DEF IInv, Apart
  <2>4. QED
    BY <1>4, <2>2, <2>3
<1>6. slot \in [Slots -> SlotRec] /\ user \in [Users -> UserRec]
      /\ cacheProperty \in [Entries -> {"EMPTY", "DOWNLOADING", "DOWNLOADED"}] /\ i \in Entries
  BY Types, Numbers DEF IInv
<1>7. slot[i].http # 0 => slot[c].cached \in mixed
  BY <1>1, <1>2 DEF IInv, Downloads
<1>8. PICK o \in SlotRec : o = slot[c]
  BY <1>6
<1>9. PICK r : r = [o EXCEPT !.fd = slot[i].fd, !.events = slot[i].events]
  OBVIOUS
<1>10. /\ r \in SlotRec /\ r.fd = g /\ r.http = o.http /\ r.cached = o.cached
       /\ r.sent = o.sent /\ r.ends = o.ends /\ r.revents = o.revents
       /\ r.hrevents = o.hrevents
  <2>1. PICK b \in SlotRec : b = slot[i]
    BY <1>6
  <2>2. b.fd \in -1..Conns /\ b.events \in SUBSET {"POLLIN", "POLLOUT"}
    BY DEF SlotRec
  <2>3. QED
    BY <1>5, <1>9, <2>1, <2>2 DEF SlotRec
<1>11. PICK sl : sl = [slot EXCEPT ![c].fd = slot[i].fd, ![c].events = slot[i].events,
                                   ![i] = FreeSlot]
  OBVIOUS
<1>12. /\ sl \in [Slots -> SlotRec] /\ sl[c] = r /\ sl[i] = FreeSlot
       /\ \A d \in Slots : d # c /\ d # i => sl[d] = slot[d]
  <2>1. sl = [slot EXCEPT ![c] = r, ![i] = FreeSlot]
    BY <1>6, <1>8, <1>9, <1>11
  <2>2. QED
    BY <1>2, <1>6, <1>10, <2>1, FreeSlotFacts
<1>13. /\ Going /\ slot' \in [Slots -> SlotRec] /\ at' \in 0..Polling
       /\ After(c, r) /\ After(i, FreeSlot) /\ slot'[c].revents = {}
       /\ \A d \in Slots : d # c /\ d # i => After(d, slot[d])
  <2>1. c \in 0..2 * MaxClients /\ Goes(sl, c)
    BY <1>3, <1>11, Sizes, Numbers
  <2>2. Going /\ (\A d \in Slots : After(d, sl[d])) /\ slot'[c].revents = {}
    BY <1>12, <2>1, GoesOn
  <2>3. QED
    BY <1>12, <2>2, Sizes DEF Going, Polling
<1>14. /\ slot'[c].fd = g /\ slot'[c].http = slot[c].http /\ slot'[c].cached = slot[c].cached
       /\ slot'[c].sent = slot[c].sent /\ slot'[c].ends = slot[c].ends
       /\ slot'[c].hrevents \in {slot[c].hrevents, {}}
       /\ slot'[i].fd = 0 /\ slot'[i].http = 0 /\ slot'[i].cached = EMPTY
       /\ slot'[i].revents = {} /\ slot'[i].hrevents = {}
       /\ \A d \in Slots : d # c /\ d # i => Same(d, slot[d])
       /\ \A d \in Slots : d # i => slot'[d].http = slot[d].http
  BY <1>8, <1>10, <1>13, FreeSlotFacts DEF After, Same
<1>15. PICK w \in UserRec : ClosedAs(user, f, w)
  BY <1>6, Closing, Zenon
<1>16. user[f].got = <<>>
  BY <1>1, <1>4, HasNothing
<1>17. /\ user' = [user EXCEPT ![f] = w] /\ w.state = "shut" /\ w.got = <<>> /\ ~w.unread
  BY <1>1, <1>4, <1>15, <1>16 DEF ClosedAs
<1>18. user' \in [Users -> UserRec] /\ user'[f] = w /\ \A u \in Users : u # f => user'[u] = user[u]
  BY <1>6, <1>17
<1>19. cacheProperty' \in [Entries -> {"EMPTY", "DOWNLOADING", "DOWNLOADED"}]
       /\ \A e \in Entries : cacheProperty'[e] = cacheProperty[e] \/ cacheProperty'[e] = "EMPTY"
  BY <1>3, <1>6
<1>20. /\ f \in fds /\ f \notin fds' /\ ~(f > accepted)
       /\ \A d \in Slots : d # c => slot[d].fd # f
       /\ \A d \in Slots : d # i => slot[d].fd # g
       /\ \A x : x # f => (x \in fds' <=> x \in fds)
  BY <1>1, <1>4, <1>5 DEF IInv, Apart, Requests
<1>21. /\ cache' = cache /\ cacheIndex' = cacheIndex /\ cacheSize' = cacheSize
       /\ accepted' = accepted /\ dead' = dead /\ server' = server /\ rangeOf' = rangeOf
       /\ mixed' = mixed /\ misled' = misled
  BY <1>1
<1>22. TypeOK'
  <2>1. /\ server' \in [Servers -> ServerRec] /\ cache' \in [Entries -> EntryRec]
        /\ cacheIndex' \in 0..CacheSize /\ cacheSize' \in 0..CacheSize
        /\ fds' \subseteq Users \union Servers /\ heirs' \subseteq Users
        /\ rangeOf' \in [Titles -> Ranges]
        /\ mixed' \subseteq Entries /\ misled' \subseteq Users
    BY <1>1, <1>3, <1>5, Types DEF IInv
  <2>2. accepted' \in 0..Conns /\ dead' \in {"no", "pipe", "free"}
    BY <1>21 DEF IInv, TypeOK
  <2>3. QED
    BY <1>13, <1>18, <1>19, <2>1, <2>2, Typed
<1>23. Apart'
  <2>1. \A a, d \in Slots : a # d /\ slot'[a].fd \in Users => slot'[a].fd # slot'[d].fd
    <3>1. ASSUME NEW a \in Slots, NEW d \in Slots, a # d, slot'[a].fd \in Users, a # i
          PROVE  slot'[a].fd # slot'[d].fd
      <4>1. CASE d = i
        BY <1>14, <3>1, <4>1, Numbers
      <4>2. CASE a = c /\ d # i
        BY <1>14, <1>20, <3>1, <4>2 DEF Same
      <4>3. CASE a # c /\ d = c
        BY <1>14, <1>20, <3>1, <4>3 DEF Same
      <4>4. CASE a # c /\ d # c /\ d # i
        BY <1>14, <3>1, <4>4 DEF Same, IInv, Apart
      <4>5. QED
        BY <3>1, <4>1, <4>2, <4>3, <4>4
    <3>2. slot'[i].fd \notin Users
      BY <1>14, Numbers
    <3>3. QED
      BY <3>1, <3>2
  <2>2. \A a, d \in Slots : a # d /\ slot'[a].http # 0 => slot'[a].http # slot'[d].http
    BY <1>14 DEF IInv, Apart
  <2>3. ASSUME NEW u \in Users PROVE u \in fds' <=> \E d \in Slots : slot'[d].fd = u
    <3>1. CASE u = f
      <4>1. \A d \in Slots : slot'[d].fd # f
        BY <1>5, <1>14, <1>20, Numbers DEF Same
      <4>2. QED
        BY <1>20, <3>1, <4>1
    <3>2. CASE u = g
      <4>1. g \in fds
        BY <1>5 DEF IInv, Apart
      <4>2. QED
        BY <1>5, <1>14, <1>20, <3>2, <4>1
    <3>3. CASE u # f /\ u # g
      <4>1. u \in fds <=> \E d \in Slots : slot[d].fd = u
        BY DEF IInv, Apart
      <4>2. ASSUME NEW d \in Slots PROVE slot[d].fd = u <=> slot'[d].fd = u
        BY <1>4, <1>5, <1>14, <3>3, Numbers DEF Same
      <4>3. QED
        BY <1>20, <3>3, <4>1, <4>2
    <3>4. QED
      BY <3>1, <3>2, <3>3
  <2>4. ASSUME NEW d \in Slots, slot'[d].http # 0
        PROVE  slot'[d].fd \in Users /\ slot'[d].cached # EMPTY /\ slot'[d].http \in fds'
    <3>1. d # i /\ slot[d].http # 0
      BY <1>14, <2>4
    <3>2. slot[d].fd \in Users /\ slot[d].cached # EMPTY /\ slot[d].http \in fds
      BY <3>1 DEF IInv, Apart
    <3>3. slot[d].http \in Servers
      BY <1>6, <3>1, SlotFacts
    <3>4. slot[d].http \in fds'
      BY <1>20, <3>2, <3>3, Numbers
    <3>5. QED
      BY <1>14, <3>1, <3>2, <3>4 DEF Same
  <2>5. QED
    BY <2>1, <2>2, <2>3, <2>4 DEF Apart
<1>24. Announcements'
  <2>1. ResetsStay
    BY <1>1, <1>4, <1>18, <1>21 DEF ResetsStay
  <2>2. \A d \in Slots : d # c /\ d # i => Told(d)
    BY <1>13, <2>1, StillTold
  <2>3. Told(i)
    BY <1>14 DEF Told
  <2>4. Told(c)
    <3>1. /\ slot[c].hrevents # {} => slot[c].http # 0
          /\ "POLLHUP" \in slot[c].hrevents => server[slot[c].http].state = "reset"
      BY DEF IInv, Announcements
    <3>2. QED
      BY <1>13, <1>14, <1>21, <3>1 DEF Told
  <2>5. QED
    BY <1>13, <2>2, <2>3, <2>4, AllTold
<1>25. Downloads'
  <2> SUFFICES ASSUME NEW d \in Slots, slot'[d].http # 0
               PROVE  /\ slot'[d].ends = "WORKING"
                      /\ slot'[d].http = Conns + slot'[d].fd \/ slot'[d].fd \in heirs'
                      /\ server[slot'[d].http].title \in Titles
                      /\ slot'[d].cached \notin mixed =>
                            /\ server[slot'[d].http].title = cache[slot'[d].cached].title
                            /\ server[slot'[d].http].state # "reset" =>
                                  server[slot'[d].http].said - server[slot'[d].http].unread
                                      = Len(cache[slot'[d].cached].page)
                            /\ cacheProperty'[slot'[d].cached] # "DOWNLOADED"
                            /\ slot'[d].sent <= Len(cache[slot'[d].cached].page)
                            /\ \A b \in Slots \ {d} :
                                  slot'[b].http # 0 => slot'[b].cached # slot'[d].cached
    BY <1>21 DEF Downloads
  <2>1. d # i /\ slot[d].http # 0
    BY <1>14
  <2>2. /\ slot[d].ends = "WORKING" /\ (slot[d].http = Conns + slot[d].fd \/ slot[d].fd \in heirs)
        /\ server[slot[d].http].title \in Titles
        /\ slot[d].cached \notin mixed =>
              /\ server[slot[d].http].title = cache[slot[d].cached].title
              /\ server[slot[d].http].state # "reset" =>
                    server[slot[d].http].said - server[slot[d].http].unread
                        = Len(cache[slot[d].cached].page)
              /\ cacheProperty[slot[d].cached] # "DOWNLOADED"
              /\ slot[d].sent <= Len(cache[slot[d].cached].page)
              /\ \A b \in Slots \ {d} : slot[b].http # 0 => slot[b].cached # slot[d].cached
    BY <2>1 DEF IInv, Downloads
  <2>3. /\ slot'[d].http = slot[d].http /\ slot'[d].cached = slot[d].cached
        /\ slot'[d].ends = slot[d].ends /\ slot'[d].sent = slot[d].sent
    BY <1>14, <2>1 DEF Same
  <2>4. slot'[d].http = Conns + slot'[d].fd \/ slot'[d].fd \in heirs'
    <3>1. CASE d = c
      BY <1>3, <1>5, <1>14, <3>1
    <3>2. CASE d # c
      BY <1>3, <1>14, <2>1, <2>2, <3>2 DEF Same
    <3>3. QED
      BY <3>1, <3>2
  <2>5. slot[d].cached \in Entries
    <3>1. slot[d].cached # EMPTY
      BY <2>1 DEF IInv, Apart
    <3>2. QED
      BY <1>6, <3>1, SlotFacts
  <2>6. slot[d].cached \notin mixed => cacheProperty'[slot[d].cached] # "DOWNLOADED"
    BY <1>19, <2>2, <2>5
  <2>7. slot[d].cached \notin mixed =>
            \A b \in Slots \ {d} : slot'[b].http # 0 => slot'[b].cached # slot'[d].cached
    BY <1>14, <2>1, <2>2, <2>3 DEF Same
  <2>8. QED
    BY <2>2, <2>3, <2>4, <2>6, <2>7
<1>26. Requests'
  <2>1. ~Waiting(f)'
    BY <1>18, <1>17, <1>20, <1>21 DEF Waiting
  <2>2. ASSUME NEW u \in Users, u # f, Waiting(u)' PROVE Waiting(u)
    BY <1>18, <1>20, <1>21, <2>2 DEF Waiting
  <2>3. ~Waiting(g)
    <3>1. slot[i].cached # EMPTY
      BY <1>1, <1>2 DEF IInv, Apart
    <3>2. QED
      BY <1>5, <3>1 DEF IInv, Requests
  <2>4. ASSUME NEW u \in Users, Waiting(u)'
        PROVE  /\ server'[Conns + u].state = "unused" /\ user'[u].got = <<>>
               /\ \A d \in Slots : slot'[d].fd = u =>
                      slot'[d].http = 0 /\ slot'[d].cached = EMPTY
    <3>1. u # f /\ u # g /\ Waiting(u)
      BY <1>5, <2>1, <2>2, <2>3, <2>4
    <3>2. /\ server[Conns + u].state = "unused" /\ user[u].got = <<>>
          /\ \A d \in Slots : slot[d].fd = u => slot[d].http = 0 /\ slot[d].cached = EMPTY
      BY <3>1 DEF IInv, Requests
    <3>3. QED
      BY <1>14, <1>18, <1>21, <3>1, <3>2, Numbers DEF Same
  <2>5. ASSUME NEW u \in Users
        PROVE  /\ u > accepted' => /\ u \notin fds' /\ user'[u].state \in {"away", "open"}
                                   /\ user'[u].ask = NoTitle /\ ~user'[u].unread
               /\ user'[u].unread =>
                      u \in fds' /\ user'[u].ask # NoTitle /\ user'[u].state \in {"open", "shut"}
               /\ user'[u].state = "away" => user'[u].ask = NoTitle
               /\ user'[u].got # <<>> => user'[u].state = "open" /\ user'[u].ask \in Titles
    <3>1. CASE u = f
      BY <1>17, <1>18, <1>20, <1>21, <3>1
    <3>2. CASE u # f
      BY <1>18, <1>20, <1>21, <3>2 DEF IInv, Requests
    <3>3. QED
      BY <3>1, <3>2
  <2>6. QED
    BY <2>4, <2>5 DEF Requests
<1>27. Speech' /\ Entered' /\ Pages' /\ FreeOnlyAfterReset'
  <2>1. \A s \in Servers : s \in fds' => s \in fds
    BY <1>1
  <2>2. Speech' /\ Entered'
    BY <1>21, <2>1 DEF IInv, Speech, Used, Entered
  <2>3. Pages'
    BY <1>21 DEF IInv, Pages
  <2>4. FreeOnlyAfterReset'
    BY <1>21 DEF IInv, FreeOnlyAfterReset
  <2>5. QED
    BY <2>2, <2>3, <2>4
<1>28. Readers'
  <2>1. ASSUME NEW d \in Slots, d # c, slot'[d].cached # EMPTY
        PROVE  /\ slot'[d].fd \in Users
               /\ cache'[slot'[d].cached].title \in Titles
               /\ slot'[d].sent \in Nat
               /\ slot'[d].cached \in mixed' => slot'[d].fd \in misled'
               /\ user'[slot'[d].fd].state = "open" => user'[slot'[d].fd].ask \in Titles
               /\ slot'[d].fd \notin misled' =>
                     /\ slot'[d].sent <= Len(cache'[slot'[d].cached].page)
                     /\ user'[slot'[d].fd].state = "open" =>
                           /\ user'[slot'[d].fd].ask = cache'[slot'[d].cached].title
                           /\ slot'[d].fd \notin heirs' =>
                                 Len(user'[slot'[d].fd].got) = slot'[d].sent
    <3>1. Same(d, slot[d]) /\ slot[d].cached # EMPTY /\ slot[d].fd # f
      BY <1>14, <1>20, <2>1 DEF Same
    <3>2. /\ slot[d].fd \in Users
          /\ cache[slot[d].cached].title \in Titles
          /\ slot[d].sent \in Nat
          /\ slot[d].cached \in mixed => slot[d].fd \in misled
          /\ user[slot[d].fd].state = "open" => user[slot[d].fd].ask \in Titles
          /\ slot[d].fd \notin misled =>
                /\ slot[d].sent <= Len(cache[slot[d].cached].page)
                /\ user[slot[d].fd].state = "open" =>
                      /\ user[slot[d].fd].ask = cache[slot[d].cached].title
                      /\ slot[d].fd \notin heirs => Len(user[slot[d].fd].got) = slot[d].sent
      BY <3>1 DEF IInv, Readers
    <3>3. user'[slot[d].fd] = user[slot[d].fd]
      BY <1>18, <3>1, <3>2
    <3>4. QED
      BY <1>3, <1>21, <3>1, <3>2, <3>3 DEF Same
  <2>2. /\ slot'[c].fd \in Users
        /\ cache'[slot'[c].cached].title \in Titles
        /\ slot'[c].sent \in Nat
        /\ slot'[c].cached \in mixed' => slot'[c].fd \in misled'
        /\ user'[slot'[c].fd].state = "open" => user'[slot'[c].fd].ask \in Titles
        /\ slot'[c].fd \notin misled' =>
              /\ slot'[c].sent <= Len(cache'[slot'[c].cached].page)
              /\ user'[slot'[c].fd].state = "open" =>
                    /\ user'[slot'[c].fd].ask = cache'[slot'[c].cached].title
                    /\ slot'[c].fd \notin heirs' =>
                          Len(user'[slot'[c].fd].got) = slot'[c].sent
    <3>1. slot[c].cached # EMPTY
      BY <1>1 DEF IInv, Apart
    <3>2. /\ cache[slot[c].cached].title \in Titles
          /\ slot[c].sent \in Nat
          /\ slot[c].cached \notin mixed => slot[c].sent <= Len(cache[slot[c].cached].page)
      BY <1>1, <3>1 DEF IInv, Readers, Downloads
    <3>3. /\ slot[c].cached \in mixed => g \in misled
          /\ user[g].state = "open" => user[g].ask \in Titles
          /\ g \notin misled /\ user[g].state = "open" =>
                user[g].ask = cache[slot[c].cached].title
      BY <1>2, <1>5, <3>1 DEF IInv, Readers
    <3>4. user'[g] = user[g] /\ g \in heirs'
      BY <1>3, <1>5, <1>18
    <3>5. QED
      BY <1>14, <1>21, <3>2, <3>3, <3>4
  <2>3. QED
    BY <2>1, <2>2 DEF Readers
<1>29. Leak'
  <2>1. f \notin HungUp
    BY <1>20 DEF HungUp
  <2>2. HungUp \subseteq HungUp'
    <3>1. ASSUME NEW u \in HungUp PROVE u \in HungUp'
      <4>1. u \in Users /\ u # f /\ user'[u] = user[u] /\ u \notin fds'
        BY <1>18, <1>20, <2>1, <3>1 DEF HungUp
      <4>2. QED
        BY <1>21, <3>1, <4>1 DEF HungUp
    <3>2. QED
      BY <3>1
  <2>3. CASE slot[i].http = 0
    <3>1. Lost' \subseteq Lost
      BY <1>1, <1>14, <2>3 DEF Lost
    <3>2. QED
      BY <1>22, <2>2, <3>1, LeakKept DEF IInv
  <2>4. CASE slot[i].http # 0
    <3>1. f \in misled
      <4>1. slot[c].cached # EMPTY
        BY <1>1 DEF IInv, Apart
      <4>2. QED
        BY <1>4, <1>7, <2>4, <4>1 DEF IInv, Readers
    <3>2. HungUp \union {f} \subseteq HungUp'
      BY <1>17, <1>18, <1>20, <1>21, <2>2, <3>1 DEF HungUp
    <3>3. Lost' \subseteq Lost \union {slot[i].http}
      BY <1>1, <1>14 DEF Lost
    <3>4. QED
      BY <2>1, <3>2, <3>3, LeakGrows DEF IInv
  <2>5. QED
    BY <2>3, <2>4
<1>30. InOrder'
  <2>1. DOMAIN w.got = {}
    BY <1>17, UserFacts, EmptySeq
  <2>2. QED
    BY <1>3, <1>18, <1>21, <2>1 DEF IInv, InOrder
<1>31. FoundIsServed'
  <2>1. ~Patient'
    BY <1>17, <1>18 DEF Patient
  <2>2. QED
    BY <2>1 DEF FoundIsServed
<1>32. QED
  BY <1>22, <1>23, <1>24, <1>25, <1>26, <1>27, <1>28, <1>29, <1>30, <1>31 DEF IInv

-----------------------------------------------------------------------------
(* A download begins. *)

\* Its entry is the last one of a cache that is not full yet, or any.
LEMMA Taking ==
    ASSUME IInv, cacheIndex' = NewEntry + 1, cacheSize' = Min({cacheSize + 1, CacheSize})
    PROVE  /\ NewEntry \in Entries /\ Entered'
           /\ cacheIndex' \in 0..CacheSize /\ cacheSize' = CacheSize
<1>1. PICK C \in Nat : C = CacheSize /\ C >= 2
  BY Sizes
<1>2. CASE cacheSize = C - 1 /\ cacheIndex = C - 1
  <2>1. NewEntry = C - 1
    BY <1>1, <1>2 DEF NewEntry
  <2>2. cacheSize' = C
    <3>1. Min({C, C}) = C
      BY Least
    <3>2. cacheSize + 1 = C
      BY <1>2
    <3>3. QED
      BY <1>1, <3>1, <3>2
  <2>3. cacheIndex' = C
    BY <2>1
  <2>4. QED
    BY <1>1, <2>1, <2>2, <2>3 DEF Entries, Entered
<1>3. CASE cacheSize = C /\ cacheIndex \in 1..C
  <2>1. cacheSize' = C
    <3>1. Min({C + 1, C}) \in {C + 1, C} /\ Min({C + 1, C}) <= C
      BY Least
    <3>2. Min({C + 1, C}) = C
      BY <3>1
    <3>3. QED
      BY <1>1, <1>3, <3>2
  <2>2. NewEntry \in 0..C - 1
    BY <1>1, <1>3 DEF NewEntry
  <2>3. cacheIndex' \in 1..C
    BY <2>2
  <2>4. QED
    BY <1>1, <2>1, <2>2, <2>3 DEF Entries, Entered
<1>4. QED
  BY <1>1, <1>2, <1>3 DEF IInv, Entered

\* A title that is not found is nowhere in the cache.
LEMMA Missing ==
    ASSUME IInv, NEW t \in Titles, With(t) = {}, NEW e \in Entries
    PROVE  cache[e].title # t
<1>1. CASE cacheSize = CacheSize
  <2>1. cache[e].title = t => e \in With(t)
    BY <1>1 DEF With, Entries
  <2>2. QED
    BY <2>1
<1>2. QED
  BY <1>1 DEF IInv, Entered

\* User f of slot c becomes the owner of the download of title t from server s to
\* entry e, and the slot becomes r.
Owning(c, f, s, t, e, r, w) ==
    /\ Goes([slot EXCEPT ![c] = r], c) /\ user' = [user EXCEPT ![f] = w]
    /\ r.fd = f /\ r.http = s /\ r.ends = "WORKING" /\ r.cached = e /\ r.sent = 0
    /\ r.hrevents = {}
    /\ w.state = user[f].state /\ w.state # "away" /\ w.ask = t /\ w.got = <<>> /\ ~w.unread
    /\ slot[c].http = 0 /\ slot[c].cached = EMPTY
    /\ s = Conns + f /\ s \notin Used /\ Used' = Used \union {s} /\ fds' = fds \union {s}
    /\ server' \in [Servers -> ServerRec] /\ server'[s].state = "open"
    /\ server'[s].title = t /\ server'[s].said = 0 /\ server'[s].unread = 0
    /\ \A z \in Servers : z # s => server'[z] = server[z]
    /\ t \in Titles /\ \A x \in Entries : cache[x].title # t
    /\ cache' \in [Entries -> EntryRec] /\ cache'[e].title = t /\ cache'[e].page = <<>>
    /\ cacheProperty' \in [Entries -> {"EMPTY", "DOWNLOADING", "DOWNLOADED"}]
    /\ cacheProperty'[e] = "DOWNLOADING"
    /\ \A x \in Entries : x # e => /\ cache'[x] = cache[x]
                                   /\ cacheProperty'[x] = cacheProperty[x]
    /\ cacheIndex' \in 0..CacheSize /\ cacheSize' = CacheSize /\ Entered'
    /\ mixed' \subseteq Entries /\ \A x \in Entries : x # e => (x \in mixed' <=> x \in mixed)
    /\ misled' \subseteq Users /\ misled \subseteq misled'
    /\ \A d \in Slots : slot[d].cached = e => slot[d].fd \in misled'
    /\ e \notin mixed' => \A d \in Slots : slot[d].cached = e => slot[d].http = 0
    /\ e \in mixed' => f \in misled'
    /\ UNCHANGED <<accepted, dead, rangeOf, heirs>>

LEMMA OwningSteps ==
    ASSUME IInv, NEW c \in Slots, NEW f \in Users, f = slot[c].fd, NEW s \in Servers,
           NEW t, NEW e \in Entries, NEW r \in SlotRec, NEW w \in UserRec,
           Owning(c, f, s, t, e, r, w)
    PROVE  IInv'
<1> USE DEF Owning
<1>1. /\ Going /\ slot' \in [Slots -> SlotRec] /\ at' \in 0..Polling
      /\ After(c, r) /\ (\A d \in Slots : d # c => After(d, slot[d])) /\ slot'[c].revents = {}
  <2>1. c \in 0..2 * MaxClients
    BY Sizes, Numbers
  <2>2. QED
    BY <2>1, PutOn
<1>2. /\ slot'[c].fd = f /\ slot'[c].http = s /\ slot'[c].cached = e /\ slot'[c].sent = 0
      /\ slot'[c].ends = "WORKING" /\ slot'[c].hrevents = {}
      /\ \A d \in Slots : d # c => Same(d, slot[d])
      /\ \A d \in Slots : slot'[d].fd = slot[d].fd
  BY <1>1 DEF After, Same
<1>3. user' \in [Users -> UserRec] /\ user'[f] = w /\ \A u \in Users : u # f => user'[u] = user[u]
  BY Types DEF IInv
<1>4. f \in fds /\ (\A d \in Slots : d # c => slot[d].fd # f) /\ ~(f > accepted)
  BY DEF IInv, Apart, Requests
<1>5. s \notin fds /\ (\A d \in Slots : slot[d].http # s) /\ s # 0 /\ s \notin Users
      /\ server[s].state = "unused"
  <2>1. s \notin fds /\ server[s].state = "unused"
    BY DEF IInv, Speech, Used
  <2>2. s # 0 /\ s \notin Users
    BY Numbers
  <2>3. \A d \in Slots : slot[d].http # s
    BY <2>1, <2>2 DEF IInv, Apart
  <2>4. QED
    BY <2>1, <2>2, <2>3
<1>6. /\ accepted' = accepted /\ dead' = dead /\ rangeOf' = rangeOf /\ heirs' = heirs
  OBVIOUS
<1>7. \A x : x # s => (x \in fds' <=> x \in fds)
  OBVIOUS
<1>8. e # EMPTY /\ t # NoTitle
  BY Sizes
<1>9. \A d \in Slots : slot[d].cached # EMPTY => slot[d].cached \in Entries
  <2>1. ASSUME NEW d \in Slots PROVE slot[d] \in SlotRec
    BY Types DEF IInv
  <2>2. QED
    BY <2>1, SlotFacts
<1>10. Len(cache'[e].page) = 0
  BY EmptySeq
<1>11. TypeOK'
  <2>1. fds' \subseteq Users \union Servers /\ heirs' \subseteq Users
        /\ rangeOf' \in [Titles -> Ranges]
    BY Types DEF IInv
  <2>2. accepted' \in 0..Conns /\ dead' \in {"no", "pipe", "free"}
    BY <1>6 DEF IInv, TypeOK
  <2>3. cacheSize' \in 0..CacheSize
    BY Sizes
  <2>4. QED
    BY <1>1, <1>3, <2>1, <2>2, <2>3, Typed
<1>12. Apart'
  <2>1. \A a, d \in Slots : a # d /\ slot'[a].fd \in Users => slot'[a].fd # slot'[d].fd
    BY <1>2 DEF IInv, Apart
  <2>2. \A a, d \in Slots : a # d /\ slot'[a].http # 0 => slot'[a].http # slot'[d].http
    BY <1>2, <1>5 DEF Same, IInv, Apart
  <2>3. \A u \in Users : u \in fds' <=> \E d \in Slots : slot'[d].fd = u
    BY <1>2, <1>5, <1>7 DEF IInv, Apart
  <2>4. \A d \in Slots : slot'[d].http # 0 =>
            slot'[d].fd \in Users /\ slot'[d].cached # EMPTY /\ slot'[d].http \in fds'
    BY <1>2, <1>5, <1>7, <1>8 DEF Same, IInv, Apart
  <2>5. QED
    BY <2>1, <2>2, <2>3, <2>4 DEF Apart
<1>13. Announcements'
  <2>1. ResetsStay
    BY <1>3, <1>5 DEF ResetsStay
  <2>2. \A d \in Slots : d # c => Told(d)
    BY <1>1, <2>1, StillTold
  <2>3. Told(c)
    BY <1>1, <1>2 DEF Told
  <2>4. QED
    BY <1>1, <2>2, <2>3, AllTold
<1>14. Downloads'
  <2>1. ASSUME NEW d \in Slots, d # c, slot'[d].http # 0
        PROVE  /\ slot'[d].ends = "WORKING"
               /\ slot'[d].http = Conns + slot'[d].fd \/ slot'[d].fd \in heirs'
               /\ server'[slot'[d].http].title \in Titles
               /\ slot'[d].cached \notin mixed' =>
                     /\ server'[slot'[d].http].title = cache'[slot'[d].cached].title
                     /\ server'[slot'[d].http].state # "reset" =>
                           server'[slot'[d].http].said - server'[slot'[d].http].unread
                               = Len(cache'[slot'[d].cached].page)
                     /\ cacheProperty'[slot'[d].cached] # "DOWNLOADED"
                     /\ slot'[d].sent <= Len(cache'[slot'[d].cached].page)
                     /\ \A b \in Slots \ {d} :
                           slot'[b].http # 0 => slot'[b].cached # slot'[d].cached
    <3>1. slot[d].http # 0 /\ Same(d, slot[d]) /\ slot[d].http # s
      BY <1>2, <1>5, <2>1 DEF Same
    <3>2. /\ slot[d].ends = "WORKING"
          /\ slot[d].http = Conns + slot[d].fd \/ slot[d].fd \in heirs
          /\ server[slot[d].http].title \in Titles
          /\ slot[d].cached \notin mixed =>
                /\ server[slot[d].http].title = cache[slot[d].cached].title
                /\ server[slot[d].http].state # "reset" =>
                      server[slot[d].http].said - server[slot[d].http].unread
                          = Len(cache[slot[d].cached].page)
                /\ cacheProperty[slot[d].cached] # "DOWNLOADED"
                /\ slot[d].sent <= Len(cache[slot[d].cached].page)
                /\ \A b \in Slots \ {d} : slot[b].http # 0 => slot[b].cached # slot[d].cached
      BY <3>1 DEF IInv, Downloads
    <3>3. slot[d].cached \in Entries
      BY <1>9, <3>1 DEF IInv, Apart
    <3>4. slot[d].http \in Servers
      <4>1. slot[d] \in SlotRec
        BY Types DEF IInv
      <4>2. QED
        BY <3>1, <4>1, SlotFacts
    <3>5. server'[slot[d].http] = server[slot[d].http]
      BY <3>1, <3>4
    <3>6. ASSUME slot[d].cached \notin mixed'
          PROVE  /\ slot[d].cached \notin mixed
                 /\ cache'[slot[d].cached] = cache[slot[d].cached]
                 /\ cacheProperty'[slot[d].cached] = cacheProperty[slot[d].cached]
                 /\ \A b \in Slots \ {d} : slot'[b].http # 0 => slot'[b].cached # slot[d].cached
      <4>1. slot[d].cached # e
        BY <3>1, <3>6
      <4>2. slot[d].cached \notin mixed
        BY <3>3, <3>6, <4>1
      <4>3. \A b \in Slots \ {d} : slot'[b].http # 0 => slot'[b].cached # slot[d].cached
        BY <1>2, <3>2, <4>1, <4>2 DEF Same
      <4>4. QED
        BY <3>3, <4>1, <4>2, <4>3
    <3>7. /\ slot'[d].http = slot[d].http /\ slot'[d].cached = slot[d].cached
          /\ slot'[d].ends = slot[d].ends /\ slot'[d].fd = slot[d].fd
          /\ slot'[d].sent = slot[d].sent
      BY <3>1 DEF Same
    <3>8. QED
      BY <1>6, <3>2, <3>5, <3>6, <3>7
  <2>2. /\ slot'[c].ends = "WORKING"
        /\ slot'[c].http = Conns + slot'[c].fd
        /\ server'[slot'[c].http].title \in Titles
        /\ server'[slot'[c].http].title = cache'[slot'[c].cached].title
        /\ server'[slot'[c].http].said - server'[slot'[c].http].unread
               = Len(cache'[slot'[c].cached].page)
        /\ cacheProperty'[slot'[c].cached] # "DOWNLOADED"
        /\ slot'[c].sent <= Len(cache'[slot'[c].cached].page)
    BY <1>2, <1>10
  <2>3. slot'[c].cached \notin mixed' =>
            \A b \in Slots \ {c} : slot'[b].http # 0 => slot'[b].cached # slot'[c].cached
    BY <1>2 DEF Same
  <2>4. QED
    BY <2>1, <2>2, <2>3 DEF Downloads
<1>15. Requests'
  <2>1. ~Waiting(f)'
    BY <1>3, <1>4, <1>6, <1>8 DEF Waiting
  <2>2. ASSUME NEW u \in Users, u # f, Waiting(u)' PROVE Waiting(u)
    <3>1. u \in fds' <=> u \in fds
      BY <1>5, <1>7
    <3>2. QED
      BY <1>3, <1>6, <2>2, <3>1 DEF Waiting
  <2>3. ASSUME NEW u \in Users, Waiting(u)'
        PROVE  /\ server'[Conns + u].state = "unused" /\ user'[u].got = <<>>
               /\ \A d \in Slots : slot'[d].fd = u =>
                      slot'[d].http = 0 /\ slot'[d].cached = EMPTY
    <3>1. u # f /\ Waiting(u)
      BY <2>1, <2>2, <2>3
    <3>2. /\ server[Conns + u].state = "unused" /\ user[u].got = <<>>
          /\ \A d \in Slots : slot[d].fd = u => slot[d].http = 0 /\ slot[d].cached = EMPTY
      BY <3>1 DEF IInv, Requests
    <3>3. Conns + u \in Servers /\ Conns + u # s
      BY <3>1, Numbers
    <3>4. \A d \in Slots : slot'[d].fd = u => d # c
      BY <1>2, <3>1
    <3>5. server'[Conns + u] = server[Conns + u] /\ user'[u] = user[u]
      BY <1>3, <3>1, <3>3
    <3>6. \A d \in Slots : slot'[d].fd = u => slot'[d].http = 0 /\ slot'[d].cached = EMPTY
      BY <1>2, <3>2, <3>4 DEF Same
    <3>7. QED
      BY <3>2, <3>5, <3>6
  <2>4. ASSUME NEW u \in Users
        PROVE  /\ u > accepted' => /\ u \notin fds' /\ user'[u].state \in {"away", "open"}
                                   /\ user'[u].ask = NoTitle /\ ~user'[u].unread
               /\ user'[u].unread =>
                      u \in fds' /\ user'[u].ask # NoTitle /\ user'[u].state \in {"open", "shut"}
               /\ user'[u].state = "away" => user'[u].ask = NoTitle
               /\ user'[u].got # <<>> => user'[u].state = "open" /\ user'[u].ask \in Titles
    <3>0. u \in fds' <=> u \in fds
      BY <1>5, <1>7
    <3>1. CASE u = f
      BY <1>3, <1>4, <1>6, <3>1
    <3>2. CASE u # f
      BY <1>3, <1>6, <3>0, <3>2 DEF IInv, Requests
    <3>3. QED
      BY <3>1, <3>2
  <2>5. QED
    BY <2>3, <2>4 DEF Requests
<1>16. Speech'
  <2> SUFFICES ASSUME NEW z \in Servers
               PROVE  /\ z \notin Used' => z \notin fds' /\ server'[z].said = 0
                      /\ server'[z].unread <= server'[z].said
                      /\ server'[z].state = "reset" => server'[z].unread = 0
    BY DEF Speech
  <2>1. CASE z = s
    BY <2>1
  <2>2. CASE z # s
    BY <1>7, <2>2 DEF IInv, Speech
  <2>3. QED
    BY <2>1, <2>2
<1>17. Pages'
  <2> SUFFICES ASSUME NEW x \in Entries
               PROVE  /\ cache'[x].title \notin Titles => cache'[x].page = <<>>
                      /\ x \notin mixed' =>
                            \A i \in DOMAIN cache'[x].page :
                               cache'[x].page[i] = <<cache'[x].title, i>>
                      /\ \A y \in Entries \ {x} :
                             cache'[x].title \in Titles => cache'[y].title # cache'[x].title
    BY DEF Pages
  <2>1. CASE x = e
    <3>1. DOMAIN cache'[e].page = {}
      BY <1>10, EntryFacts
    <3>2. \A y \in Entries \ {e} : cache'[y].title # t
      OBVIOUS
    <3>3. QED
      BY <2>1, <3>1, <3>2
  <2>2. CASE x # e
    <3>1. /\ cache[x].title \notin Titles => cache[x].page = <<>>
          /\ x \notin mixed =>
                \A i \in DOMAIN cache[x].page : cache[x].page[i] = <<cache[x].title, i>>
          /\ \A y \in Entries \ {x} :
                 cache[x].title \in Titles => cache[y].title # cache[x].title
      BY DEF IInv, Pages
    <3>2. cache'[x] = cache[x] /\ cache[x].title # t /\ (x \in mixed' <=> x \in mixed)
      BY <2>2
    <3>3. \A y \in Entries \ {x} : cache[x].title \in Titles => cache'[y].title # cache[x].title
      BY <3>1, <3>2
    <3>4. QED
      BY <3>1, <3>2, <3>3
  <2>3. QED
    BY <2>1, <2>2
<1>18. FreeOnlyAfterReset'
  BY <1>5, <1>6 DEF IInv, FreeOnlyAfterReset
<1>19. Readers'
  <2>1. ASSUME NEW d \in Slots, d # c, slot'[d].cached # EMPTY
        PROVE  /\ slot'[d].fd \in Users
               /\ cache'[slot'[d].cached].title \in Titles
               /\ slot'[d].sent \in Nat
               /\ slot'[d].cached \in mixed' => slot'[d].fd \in misled'
               /\ user'[slot'[d].fd].state = "open" => user'[slot'[d].fd].ask \in Titles
               /\ slot'[d].fd \notin misled' =>
                     /\ slot'[d].sent <= Len(cache'[slot'[d].cached].page)
                     /\ user'[slot'[d].fd].state = "open" =>
                           /\ user'[slot'[d].fd].ask = cache'[slot'[d].cached].title
                           /\ slot'[d].fd \notin heirs' =>
                                 Len(user'[slot'[d].fd].got) = slot'[d].sent
    <3>1. Same(d, slot[d]) /\ slot[d].cached # EMPTY /\ slot[d].fd # f
      BY <1>2, <1>4, <2>1 DEF Same
    <3>2. /\ slot[d].fd \in Users
          /\ cache[slot[d].cached].title \in Titles
          /\ slot[d].sent \in Nat
          /\ slot[d].cached \in mixed => slot[d].fd \in misled
          /\ user[slot[d].fd].state = "open" => user[slot[d].fd].ask \in Titles
          /\ slot[d].fd \notin misled =>
                /\ slot[d].sent <= Len(cache[slot[d].cached].page)
                /\ user[slot[d].fd].state = "open" =>
                      /\ user[slot[d].fd].ask = cache[slot[d].cached].title
                      /\ slot[d].fd \notin heirs => Len(user[slot[d].fd].got) = slot[d].sent
      BY <3>1 DEF IInv, Readers
    <3>3. user'[slot[d].fd] = user[slot[d].fd]
      BY <1>3, <3>1, <3>2
    <3>4. CASE slot[d].cached = e
      <4>1. slot[d].fd \in misled'
        BY <3>4
      <4>2. QED
        BY <3>1, <3>2, <3>3, <3>4, <4>1 DEF Same
    <3>5. CASE slot[d].cached # e
      <4>1. /\ cache'[slot[d].cached] = cache[slot[d].cached]
            /\ slot[d].cached \in mixed' => slot[d].cached \in mixed
        BY <1>9, <3>1, <3>5
      <4>2. slot[d].fd \notin misled' => slot[d].fd \notin misled
        OBVIOUS
      <4>3. QED
        BY <1>6, <3>1, <3>2, <3>3, <4>1, <4>2 DEF Same
    <3>6. QED
      BY <3>4, <3>5
  <2>2. /\ slot'[c].fd \in Users
        /\ cache'[slot'[c].cached].title \in Titles
        /\ slot'[c].sent \in Nat
        /\ slot'[c].cached \in mixed' => slot'[c].fd \in misled'
        /\ user'[slot'[c].fd].state = "open" => user'[slot'[c].fd].ask \in Titles
        /\ slot'[c].fd \notin misled' =>
              /\ slot'[c].sent <= Len(cache'[slot'[c].cached].page)
              /\ user'[slot'[c].fd].state = "open" =>
                    /\ user'[slot'[c].fd].ask = cache'[slot'[c].cached].title
                    /\ slot'[c].fd \notin heirs' =>
                          Len(user'[slot'[c].fd].got) = slot'[c].sent
    <3>1. Len(w.got) = 0
      BY EmptySeq
    <3>2. QED
      BY <1>2, <1>3, <1>10, <3>1
  <2>3. QED
    BY <2>1, <2>2 DEF Readers
<1>20. Leak'
  <2>1. Lost' \subseteq Lost
    <3> SUFFICES ASSUME NEW z \in Servers, z \in fds', \A d \in Slots : slot'[d].http # z
                 PROVE  z \in Lost
      BY DEF Lost
    <3>1. z # s /\ z \in fds /\ z # 0
      BY <1>2, <1>7, Numbers
    <3>2. \A d \in Slots : slot[d].http # z
      BY <1>2, <3>1 DEF Same
    <3>3. QED
      BY <3>1, <3>2 DEF Lost
  <2>2. HungUp \subseteq HungUp'
    <3>1. ASSUME NEW u \in HungUp PROVE u \in HungUp'
      <4>1. u \in Users /\ u \notin fds
        BY <3>1 DEF HungUp
      <4>2. u # s /\ u # f
        BY <1>4, <1>5, <4>1
      <4>3. user'[u] = user[u] /\ u \notin fds' /\ (u \in misled => u \in misled')
        BY <1>3, <1>7, <4>1, <4>2
      <4>4. QED
        BY <3>1, <4>3 DEF HungUp
    <3>2. QED
      BY <3>1
  <2>3. QED
    BY <1>11, <2>1, <2>2, LeakKept DEF IInv
<1>21. InOrder'
  <2>1. DOMAIN w.got = {}
    BY UserFacts, EmptySeq
  <2>2. QED
    BY <1>3, <1>6, <2>1 DEF IInv, InOrder
<1>22. FoundIsServed'
  <2> SUFFICES ASSUME Patient', NEW q \in Titles, NEW x \in With(q)'
               PROVE  \/ cacheProperty'[x] = "DOWNLOADED"
                      \/ /\ cacheProperty'[x] = "DOWNLOADING"
                         /\ \E d \in Slots : slot'[d].http # 0 /\ slot'[d].cached = x
    BY DEF FoundIsServed
  <2>0. x \in 0..CacheSize - 1 /\ cache'[x].title = q /\ x \in Entries
    BY DEF With, Entries
  <2>1. CASE x = e
    BY <1>2, <1>5, <2>1
  <2>2. CASE x # e
    <3>1. cache'[x] = cache[x] /\ cacheProperty'[x] = cacheProperty[x] /\ cache[x].title = q
      BY <2>0, <2>2
    <3>2. cacheSize = CacheSize
      BY <2>0, <3>1 DEF IInv, Entered
    <3>3. x \in With(q)
      BY <2>0, <3>1, <3>2 DEF With
    <3>4. Patient
      <4>1. \A u \in Users : user[u].state \in {"away", "open"}
        BY <1>3 DEF Patient
      <4>2. \A z \in Servers : server[z].state # "reset"
        BY <1>5 DEF Patient
      <4>3. QED
        BY <4>1, <4>2 DEF Patient
    <3>5. \/ cacheProperty[x] = "DOWNLOADED"
          \/ /\ cacheProperty[x] = "DOWNLOADING"
             /\ \E d \in Slots : slot[d].http # 0 /\ slot[d].cached = x
      BY <3>3, <3>4 DEF IInv, FoundIsServed
    <3>6. \A d \in Slots : slot[d].http # 0 => d # c
      OBVIOUS
    <3>7. QED
      BY <1>2, <3>1, <3>5, <3>6 DEF Same
  <2>3. QED
    BY <2>1, <2>2
<1>23. Entered'
  OBVIOUS
<1>24. QED
  BY <1>11, <1>12, <1>13, <1>14, <1>15, <1>16, <1>17, <1>18, <1>19, <1>20, <1>21, <1>22, <1>23
     DEF IInv

\* A user whose page is not in the cache asks a server of its own for it.
LEMMA OwnsSteps ==
    ASSUME IInv, NEW c \in Slots, Owns(c)
    PROVE  IInv'
<1>1. /\ at = c /\ user[slot[c].fd].unread /\ Asked(c) \in Titles /\ With(Asked(c)) = {}
      /\ Allocates(Asked(c)) /\ user' = Read(c)
      /\ Overtakes(c) /\ UNCHANGED <<accepted, dead, rangeOf, heirs>>
  BY DEF Owns, Misses, ReadsRequest, Reads
<1>2. PICK f \in Users : f = slot[c].fd
  BY <1>1, Visited
<1>3. PICK s \in Servers : s = Conns + f
  BY Numbers
<1>4. /\ server' = [server EXCEPT ![s].state = "open", ![s].title = Asked(c)]
      /\ fds' = fds \union {s}
      /\ Goes([slot EXCEPT ![c].http = s, ![c].ends = "WORKING", ![c].length = Parsed(c),
                           ![c].cached = NewEntry, ![c].sent = 0], c)
  BY <1>2, <1>3 DEF Owns
<1>5. PICK t \in Titles : t = Asked(c)
  BY <1>1
<1>6. /\ slot[c].http = 0 /\ slot[c].cached = EMPTY /\ server[s].state = "unused"
      /\ user[f].got = <<>>
  BY <1>1, <1>2, <1>3, Asking, HasNothing
<1>7. s \notin Used
  BY <1>6 DEF Used
<1>8. PICK b \in ServerRec : b = server[s] /\ b.said = 0 /\ b.unread = 0
  <2>1. server[s] \in ServerRec
    BY Types DEF IInv
  <2>2. server[s].said = 0 /\ server[s].unread <= server[s].said
    BY <1>7 DEF IInv, Speech
  <2>3. server[s].unread \in Nat
    BY <2>1, ServerFacts
  <2>4. QED
    BY <2>1, <2>2, <2>3
<1>9. PICK q : q = [b EXCEPT !.state = "open", !.title = t]
  OBVIOUS
<1>10. /\ q \in ServerRec /\ q.state = "open" /\ q.title = t /\ q.said = 0 /\ q.unread = 0
  BY <1>8, <1>9 DEF ServerRec
<1>11. /\ server' \in [Servers -> ServerRec] /\ server'[s] = q
       /\ \A z \in Servers : z # s => server'[z] = server[z]
  <2>1. server \in [Servers -> ServerRec]
    BY Types DEF IInv
  <2>2. server' = [server EXCEPT ![s] = q]
    BY <1>4, <1>5, <1>8, <1>9, <2>1
  <2>3. QED
    BY <1>10, <2>1, <2>2
<1>12. Used' = Used \union {s}
  <2>1. \A z \in Servers : z \in Used' <=> z \in Used \/ z = s
    BY <1>10, <1>11 DEF Used
  <2>2. Used \subseteq Servers /\ Used' \subseteq Servers
    BY DEF Used
  <2>3. QED
    BY <2>1, <2>2
<1>13. /\ NewEntry \in Entries /\ Entered'
       /\ cacheIndex' \in 0..CacheSize /\ cacheSize' = CacheSize
  <2>1. cacheIndex' = NewEntry + 1 /\ cacheSize' = Min({cacheSize + 1, CacheSize})
    BY <1>1 DEF Allocates
  <2>2. QED
    BY <2>1, Taking
<1>14. PICK e \in Entries : e = NewEntry
  BY <1>13
<1>15. PICK n \in {EMPTY} \union Nat : n = Parsed(c)
  <2>1. slot[c] \in SlotRec /\ rangeOf \in [Titles -> Ranges]
    BY Types DEF IInv
  <2>2. slot[c].length \in {EMPTY} \union Nat
    BY <2>1 DEF SlotRec
  <2>3. rangeOf[Asked(c)] \in {EMPTY} \union Nat
    BY <1>1, <2>1, Sizes
  <2>4. QED
    BY <2>2, <2>3 DEF Parsed
<1>16. slot \in [Slots -> SlotRec] /\ user \in [Users -> UserRec]
       /\ cache \in [Entries -> EntryRec]
       /\ cacheProperty \in [Entries -> {"EMPTY", "DOWNLOADING", "DOWNLOADED"}]
  BY Types DEF IInv
<1>17. PICK o \in SlotRec : o = slot[c]
  BY <1>16
<1>18. PICK r : r = [o EXCEPT !.http = s, !.ends = "WORKING", !.length = n,
                              !.cached = e, !.sent = 0]
  OBVIOUS
<1>19. /\ r \in SlotRec /\ r.fd = o.fd /\ r.http = s /\ r.ends = "WORKING" /\ r.cached = e
       /\ r.sent = 0 /\ r.hrevents = o.hrevents
  <2>1. 0 \in EMPTY..Length
    BY Sizes
  <2>2. QED
    BY <1>18, <2>1 DEF SlotRec
<1>20. Goes([slot EXCEPT ![c] = r], c)
  <2>1. [slot EXCEPT ![c].http = s, ![c].ends = "WORKING", ![c].length = n,
                     ![c].cached = e, ![c].sent = 0] = [slot EXCEPT ![c] = r]
    BY <1>16, <1>17, <1>18
  <2>2. Goes([slot EXCEPT ![c].http = s, ![c].ends = "WORKING", ![c].length = n,
                          ![c].cached = e, ![c].sent = 0], c)
    BY <1>4, <1>14, <1>15
  <2>3. QED
    BY <2>1, <2>2
<1>21. o.hrevents = {}
  BY <1>6, <1>17 DEF IInv, Announcements
<1>22. PICK w : w = Read(c)[f]
  OBVIOUS
<1>23. /\ w \in UserRec /\ w.state = user[f].state /\ w.ask = t /\ w.got = <<>> /\ ~w.unread
  BY <1>1, <1>2, <1>5, <1>6, <1>22, ReadIn DEF Asked
<1>24. user' = [user EXCEPT ![f] = w]
  <2>1. user' = [user EXCEPT ![f].unread = FALSE]
    BY <1>1, <1>2 DEF Read
  <2>2. w = user'[f]
    BY <1>1, <1>22
  <2>3. QED
    BY <1>16, <2>1, <2>2
<1>25. w.state # "away"
  <2>1. user[f].unread => user[f].state \in {"open", "shut"}
    BY DEF IInv, Requests
  <2>2. QED
    BY <1>1, <1>2, <1>23, <2>1
<1>26. PICK a : a = [title |-> t, page |-> <<>>]
  OBVIOUS
<1>27. a \in EntryRec /\ a.title = t /\ a.page = <<>>
  BY <1>26, EmptySeq DEF EntryRec
<1>28. cache' = [cache EXCEPT ![e] = a]
       /\ cacheProperty' = [cacheProperty EXCEPT ![e] = "DOWNLOADING"]
  BY <1>1, <1>5, <1>14, <1>26 DEF Allocates
<1>29. /\ cache' \in [Entries -> EntryRec] /\ cache'[e].title = t /\ cache'[e].page = <<>>
       /\ cacheProperty' \in [Entries -> {"EMPTY", "DOWNLOADING", "DOWNLOADED"}]
       /\ cacheProperty'[e] = "DOWNLOADING"
       /\ \A x \in Entries : x # e => /\ cache'[x] = cache[x]
                                      /\ cacheProperty'[x] = cacheProperty[x]
  BY <1>16, <1>27, <1>28
<1>30. \A x \in Entries : cache[x].title # t
  BY <1>1, <1>5, Missing
<1>31. /\ mixed' \subseteq Entries /\ \A x \in Entries : x # e => (x \in mixed' <=> x \in mixed)
       /\ misled' \subseteq Users /\ misled \subseteq misled'
       /\ \A d \in Slots : slot[d].cached = e => slot[d].fd \in misled'
       /\ e \notin mixed' => \A d \in Slots : slot[d].cached = e => slot[d].http = 0
       /\ e \in mixed' => f \in misled'
  <2>1. PICK readers : readers = {d \in Slots : slot[d].cached = e}
    OBVIOUS
  <2>2. PICK written \in BOOLEAN : written = \E d \in readers : slot[d].http # 0
    OBVIOUS
  <2>3. /\ mixed' = IF written THEN mixed \union {e} ELSE mixed \ {e}
        /\ misled' = misled \union {slot[d].fd : d \in readers}
                            \union (IF written THEN {f} ELSE {})
    BY <1>1, <1>2, <1>14, <2>1, <2>2, Zenon DEF Overtakes
  <2>4. \A d \in readers : slot[d].fd \in Users
    BY <1>8, <2>1, Sizes DEF IInv, Readers
  <2>5. mixed \subseteq Entries /\ misled \subseteq Users
    BY Types DEF IInv
  <2>6. QED
    BY <2>1, <2>2, <2>3, <2>4, <2>5
<1>32. Owning(c, f, s, t, e, r, w)
  <2>1. r.fd = f /\ r.hrevents = {}
    BY <1>2, <1>17, <1>19, <1>21
  <2>2. /\ server'[s].state = "open" /\ server'[s].title = t /\ server'[s].said = 0
        /\ server'[s].unread = 0
    BY <1>10, <1>11
  <2>3. QED
    BY <1>1, <1>3, <1>4, <1>6, <1>7, <1>11, <1>12, <1>13, <1>14, <1>19, <1>20, <1>23, <1>24,
       <1>25, <1>29, <1>30, <1>31, <2>1, <2>2, ZenonT(60) DEF Owning
<1>33. QED
  BY <1>2, <1>19, <1>23, <1>32, OwningSteps

-----------------------------------------------------------------------------
(* A download goes on. *)

\* What readToCache makes of the page of entry e.
Grows(c, s, e, m, p) ==
    /\ p = Grown(c) /\ m = Taken(c) /\ m <= server[s].unread
    /\ server[s].state # "reset" /\ Len(p) = Len(cache[e].page) + m
    /\ e \notin mixed => /\ server[s].said - server[s].unread = Len(cache[e].page)
                         /\ \A i \in 1..Len(p) : p[i] = <<cache[e].title, i>>

LEMMA Growing ==
    ASSUME IInv, NEW c \in Slots, at = c + MaxClients, NEW s \in Servers, s = slot[c].http,
           NEW e \in Entries, e = slot[c].cached, server[s].unread > 0
    PROVE  \E p \in Seq(Token), m \in Nat : Grows(c, s, e, m, p)
<1>1. PICK b \in ServerRec : b = server[s]
  BY Types DEF IInv
<1>2. PICK g \in Seq(Token) : g = cache[e].page /\ DOMAIN g = 1..Len(g)
  BY Types, EntryFacts DEF IInv
<1>3. PICK L \in Nat : L = Len(g)
  OBVIOUS
<1>4. PICK a, n \in Nat : a = b.said /\ n = b.unread /\ n > 0 /\ a <= Length
  BY <1>1, ServerFacts
<1>5. server[s].state # "reset"
  BY <1>1, <1>4 DEF IInv, Speech
<1>6. /\ b.title \in Titles
      /\ e \notin mixed => b.title = cache[e].title /\ a - n = L
  <2>1. slot[c].http # 0
    BY Numbers
  <2>2. QED
    BY <1>1, <1>2, <1>3, <1>4, <1>5, <2>1 DEF IInv, Downloads
<1>7. PICK T \in Titles, B \in Nat : T = b.title /\ B = a - n
  <2>1. n <= a
    BY <1>1, <1>4 DEF IInv, Speech
  <2>2. a - n \in Nat
    BY <2>1
  <2>3. QED
    BY <1>6, <2>2
<1>8. PICK m \in Nat : m = Taken(c) /\ m <= n
  <2>1. Min({BufferSize, n}) \in {BufferSize, n} /\ Min({BufferSize, n}) <= n
    BY Sizes, Least
  <2>2. Taken(c) = Min({BufferSize, n})
    BY <1>1, <1>4 DEF Taken
  <2>3. QED
    BY <2>1, <2>2, Sizes
<1>9. PICK q : q = [i \in 1..m |-> <<T, B + i>>]
  OBVIOUS
<1>10. q \in Seq(Token) /\ Len(q) = m
  <2>1. ASSUME NEW i \in 1..m PROVE B + i \in 1..Length
    <3>1. i \in Nat /\ 1 <= i /\ i <= n
      BY <1>8
    <3>2. B + n <= Length
      <4>1. a <= Length /\ B = a - n
        BY <1>4, <1>7
      <4>2. Length \in Nat
        BY Sizes
      <4>3. QED
        BY <4>1, <4>2
    <3>3. Length \in Nat
      BY Sizes
    <3>4. QED
      BY <3>1, <3>2, <3>3
  <2>2. \A i \in 1..m : <<T, B + i>> \in Token
    BY <2>1 DEF Token
  <2>3. q \in [1..m -> Token]
    BY <1>9, <2>2
  <2>4. QED
    BY <2>3
<1>11. Grown(c) = g \o q
  <2>1. [i \in 1..Taken(c) |-> <<server[slot[c].http].title,
              server[slot[c].http].said - server[slot[c].http].unread + i>>] = q
    <3>1. /\ server[slot[c].http].title = T /\ Taken(c) = m
          /\ server[slot[c].http].said - server[slot[c].http].unread = B
      BY <1>1, <1>4, <1>7, <1>8
    <3>2. QED
      BY <1>9, <3>1, Zenon
  <2>2. QED
    BY <1>2, <2>1 DEF Grown
<1>12. /\ g \o q \in Seq(Token) /\ Len(g \o q) = Len(g) + Len(q)
       /\ \A i \in 1..Len(g) + Len(q) : (g \o q)[i] = IF i <= Len(g) THEN g[i] ELSE q[i - Len(g)]
  BY <1>10, ConcatProperties
<1>13. PICK p \in Seq(Token) : p = g \o q
  BY <1>12
<1>14. Len(p) = L + m /\ \A i \in 1..L + m : p[i] = IF i <= L THEN g[i] ELSE q[i - L]
  BY <1>3, <1>10, <1>12, <1>13
<1>15. e \notin mixed => \A i \in 1..L + m : p[i] = <<T, i>>
  <2> SUFFICES ASSUME e \notin mixed, NEW i \in 1..L + m PROVE p[i] = <<T, i>>
    OBVIOUS
  <2>0. T = cache[e].title /\ B = L
    BY <1>6, <1>7
  <2>1. CASE i <= L
    <3>1. i \in DOMAIN g
      BY <1>2, <1>3, <2>1
    <3>2. g[i] = <<T, i>>
      BY <1>2, <2>0, <3>1 DEF IInv, Pages
    <3>3. QED
      BY <1>14, <2>1, <3>2
  <2>2. CASE ~(i <= L)
    <3>1. PICK j \in 1..m : j = i - L /\ i = L + j
      <4>1. i - L \in 1..m /\ i = L + (i - L)
        BY <2>2
      <4>2. QED
        BY <4>1
    <3>2. p[i] = q[j]
      BY <1>14, <2>2, <3>1
    <3>3. q[j] = <<T, L + j>>
      BY <1>9, <2>0
    <3>4. QED
      BY <3>1, <3>2, <3>3
  <2>3. QED
    BY <2>1, <2>2
<1>16. Grows(c, s, e, m, p)
  <2>1. p = Grown(c) /\ m = Taken(c) /\ m <= server[s].unread
    BY <1>1, <1>4, <1>8, <1>11, <1>13
  <2>2. Len(cache[e].page) = L
    BY <1>2, <1>3
  <2>3. e \notin mixed => /\ server[s].said - server[s].unread = L
                          /\ T = cache[e].title
    BY <1>1, <1>4, <1>6, <1>7
  <2>4. e \notin mixed => \A i \in 1..Len(p) : p[i] = <<cache[e].title, i>>
    BY <1>14, <1>15, <2>3
  <2>5. QED
    BY <1>5, <1>14, <2>1, <2>2, <2>3, <2>4 DEF Grows
<1>17. QED
  BY <1>16

\* Slot c becomes r, and the page of its entry e becomes p; server s goes on or
\* is closed.
Loading(c, s, e, p, r) ==
    /\ Goes([slot EXCEPT ![c] = r], c + MaxClients)
    /\ s = slot[c].http /\ e = slot[c].cached /\ server[s].state # "reset"
    /\ r.fd = slot[c].fd /\ r.cached = e /\ r.sent = slot[c].sent
    /\ r.revents = slot[c].revents
    /\ Len(p) >= Len(cache[e].page)
    /\ e \notin mixed => \A i \in 1..Len(p) : p[i] = <<cache[e].title, i>>
    /\ cache' \in [Entries -> EntryRec] /\ cache'[e].title = cache[e].title
    /\ cache'[e].page = p /\ \A x \in Entries : x # e => cache'[x] = cache[x]
    /\ server' \in [Servers -> ServerRec] /\ server'[s].unread <= server'[s].said
    /\ \A z \in Servers : server'[z].state = server[z].state
    /\ \A z \in Servers : z # s => server'[z] = server[z]
    /\ UNCHANGED <<cacheIndex, cacheSize, accepted, dead, user, rangeOf, heirs, readVars>>
    /\ \/ /\ r.http = s /\ r.ends = "WORKING" /\ cacheProperty' = cacheProperty /\ fds' = fds
          /\ server'[s].title = server[s].title
          /\ e \notin mixed => server'[s].said - server'[s].unread = Len(p)
       \/ /\ r.http = 0 /\ cacheProperty' = [cacheProperty EXCEPT ![e] = "DOWNLOADED"]
          /\ fds' = fds \ {s}

LEMMA LoadingSteps ==
    ASSUME IInv, NEW c \in Slots, NEW s \in Servers, NEW e \in Entries, NEW p \in Seq(Token),
           NEW r \in SlotRec, Loading(c, s, e, p, r)
    PROVE  IInv'
<1> USE DEF Loading
<1>1. /\ Going /\ slot' \in [Slots -> SlotRec] /\ at' \in 0..Polling
      /\ After(c, r) /\ (\A d \in Slots : d # c => After(d, slot[d])) /\ slot'[c].hrevents = {}
  <2>1. c + MaxClients \in 0..2 * MaxClients
    BY Sizes, Numbers
  <2>2. QED
    BY <2>1, PutOn
<1>2. /\ \A d \in Slots : d # c => Same(d, slot[d])
      /\ \A d \in Slots : /\ slot'[d].fd = slot[d].fd /\ slot'[d].cached = slot[d].cached
                          /\ slot'[d].sent = slot[d].sent
                          /\ slot'[d].http = slot[d].http \/ slot'[d].http = 0
      /\ slot'[c].http = r.http /\ slot'[c].ends = r.ends /\ slot'[c].revents \in {slot[c].revents, {}}
  BY <1>1 DEF After, Same
<1>3. /\ cacheIndex' = cacheIndex /\ cacheSize' = cacheSize /\ accepted' = accepted
      /\ dead' = dead /\ user' = user /\ rangeOf' = rangeOf /\ heirs' = heirs
      /\ mixed' = mixed /\ misled' = misled
  OBVIOUS
<1>4. s # 0 /\ s \notin Users /\ \A x : x # s => (x \in fds' <=> x \in fds)
  BY Numbers
<1>5. \A d \in Slots : d # c => slot[d].http # s
  BY <1>4 DEF IInv, Apart
<1>6. e \notin mixed => \A d \in Slots : d # c /\ slot[d].http # 0 => slot[d].cached # e
  BY <1>4 DEF IInv, Downloads
<1>7. /\ \A x \in Entries : cache'[x].title = cache[x].title
      /\ \A x \in Entries : Len(cache'[x].page) >= Len(cache[x].page)
  <2>1. \A x \in Entries : Len(cache[x].page) \in Nat
    BY Types, EntryFacts DEF IInv
  <2>2. QED
    BY <2>1
<1>8. cacheProperty' \in [Entries -> {"EMPTY", "DOWNLOADING", "DOWNLOADED"}]
      /\ \A x \in Entries : x # e => cacheProperty'[x] = cacheProperty[x]
  BY Types DEF IInv
<1>9. \A d \in Slots : slot[d].cached \in Entries \union {EMPTY} /\ slot[d].http \in {0} \union Servers
  BY Types, SlotFacts DEF IInv
<1>10. TypeOK'
  <2>1. /\ fds' \subseteq Users \union Servers /\ heirs' \subseteq Users
        /\ rangeOf' \in [Titles -> Ranges] /\ user' \in [Users -> UserRec]
        /\ cacheIndex' \in 0..CacheSize /\ cacheSize' \in 0..CacheSize
        /\ mixed' \subseteq Entries /\ misled' \subseteq Users
    BY Types DEF IInv
  <2>2. accepted' \in 0..Conns /\ dead' \in {"no", "pipe", "free"}
    BY <1>3 DEF IInv, TypeOK
  <2>3. QED
    BY <1>1, <1>8, <2>1, <2>2, Typed
<1>11. Apart'
  <2>1. \A a, d \in Slots : a # d /\ slot'[a].fd \in Users => slot'[a].fd # slot'[d].fd
    BY <1>2 DEF IInv, Apart
  <2>2. ASSUME NEW a \in Slots, NEW d \in Slots, a # d, slot'[a].http # 0
        PROVE  slot'[a].http # slot'[d].http
    <3>1. slot'[a].http = slot[a].http /\ slot[a].http # slot[d].http
      BY <1>2, <2>2 DEF IInv, Apart
    <3>2. QED
      BY <1>2, <2>2, <3>1
  <2>3. \A u \in Users : u \in fds' <=> \E d \in Slots : slot'[d].fd = u
    BY <1>2, <1>4 DEF IInv, Apart
  <2>4. ASSUME NEW d \in Slots, slot'[d].http # 0
        PROVE  slot'[d].fd \in Users /\ slot'[d].cached # EMPTY /\ slot'[d].http \in fds'
    <3>1. /\ slot'[d].http = slot[d].http /\ slot[d].fd \in Users /\ slot[d].cached # EMPTY
          /\ slot[d].http \in fds
      BY <1>2, <2>4 DEF IInv, Apart
    <3>2. slot[d].http \in fds'
      <4>1. CASE d = c
        BY <1>2, <2>4, <3>1, <4>1
      <4>2. CASE d # c
        BY <1>4, <1>5, <3>1, <4>2
      <4>3. QED
        BY <4>1, <4>2
    <3>3. QED
      BY <1>2, <3>1, <3>2
  <2>5. QED
    BY <2>1, <2>2, <2>3, <2>4 DEF Apart
<1>12. Announcements'
  <2>1. ResetsStay
    BY <1>3 DEF ResetsStay
  <2>2. \A d \in Slots : d # c => Told(d)
    BY <1>1, <2>1, StillTold
  <2>3. Told(c)
    <3>1. /\ slot[c].revents # {} => slot[c].fd \in Users
          /\ "POLLHUP" \in slot[c].revents => user[slot[c].fd].state = "reset"
      BY DEF IInv, Announcements
    <3>2. QED
      BY <1>1, <1>2, <1>3, <3>1 DEF Told
  <2>4. QED
    BY <1>1, <2>2, <2>3, AllTold
<1>13. Downloads'
  <2>1. ASSUME NEW d \in Slots, d # c, slot'[d].http # 0
        PROVE  /\ slot'[d].ends = "WORKING"
               /\ slot'[d].http = Conns + slot'[d].fd \/ slot'[d].fd \in heirs'
               /\ server'[slot'[d].http].title \in Titles
               /\ slot'[d].cached \notin mixed' =>
                     /\ server'[slot'[d].http].title = cache'[slot'[d].cached].title
                     /\ server'[slot'[d].http].state # "reset" =>
                           server'[slot'[d].http].said - server'[slot'[d].http].unread
                               = Len(cache'[slot'[d].cached].page)
                     /\ cacheProperty'[slot'[d].cached] # "DOWNLOADED"
                     /\ slot'[d].sent <= Len(cache'[slot'[d].cached].page)
                     /\ \A b \in Slots \ {d} :
                           slot'[b].http # 0 => slot'[b].cached # slot'[d].cached
    <3>1. slot[d].http # 0 /\ Same(d, slot[d]) /\ slot[d].http # s
      BY <1>2, <1>5, <2>1 DEF Same
    <3>2. /\ slot[d].ends = "WORKING"
          /\ slot[d].http = Conns + slot[d].fd \/ slot[d].fd \in heirs
          /\ server[slot[d].http].title \in Titles
          /\ slot[d].cached \notin mixed =>
                /\ server[slot[d].http].title = cache[slot[d].cached].title
                /\ server[slot[d].http].state # "reset" =>
                      server[slot[d].http].said - server[slot[d].http].unread
                          = Len(cache[slot[d].cached].page)
                /\ cacheProperty[slot[d].cached] # "DOWNLOADED"
                /\ slot[d].sent <= Len(cache[slot[d].cached].page)
                /\ \A b \in Slots \ {d} : slot[b].http # 0 => slot[b].cached # slot[d].cached
      BY <3>1 DEF IInv, Downloads
    <3>3. slot[d].cached \in Entries /\ slot[d].http \in Servers
      BY <1>9, <3>1 DEF IInv, Apart
    <3>4. server'[slot[d].http] = server[slot[d].http]
      BY <3>1, <3>3
    <3>5. slot[d].cached \notin mixed =>
              /\ cache'[slot[d].cached] = cache[slot[d].cached]
              /\ cacheProperty'[slot[d].cached] = cacheProperty[slot[d].cached]
              /\ \A b \in Slots \ {d} : slot'[b].http # 0 => slot'[b].cached # slot[d].cached
      <4>1. slot[d].cached \notin mixed => slot[d].cached # e
        BY <1>6, <2>1, <3>1
      <4>2. QED
        BY <1>2, <1>8, <3>2, <3>3, <4>1
    <3>6. /\ slot'[d].http = slot[d].http /\ slot'[d].cached = slot[d].cached
          /\ slot'[d].ends = slot[d].ends /\ slot'[d].fd = slot[d].fd
          /\ slot'[d].sent = slot[d].sent
      BY <3>1 DEF Same
    <3>7. QED
      BY <1>3, <3>2, <3>4, <3>5, <3>6
  <2>2. ASSUME slot'[c].http # 0
        PROVE  /\ slot'[c].ends = "WORKING"
               /\ slot'[c].http = Conns + slot'[c].fd \/ slot'[c].fd \in heirs'
               /\ server'[slot'[c].http].title \in Titles
               /\ slot'[c].cached \notin mixed' =>
                     /\ server'[slot'[c].http].title = cache'[slot'[c].cached].title
                     /\ server'[slot'[c].http].said - server'[slot'[c].http].unread
                            = Len(cache'[slot'[c].cached].page)
                     /\ cacheProperty'[slot'[c].cached] # "DOWNLOADED"
                     /\ slot'[c].sent <= Len(cache'[slot'[c].cached].page)
                     /\ \A b \in Slots \ {c} :
                           slot'[b].http # 0 => slot'[b].cached # slot'[c].cached
    <3>1. /\ slot'[c].http = s /\ r.ends = "WORKING" /\ cacheProperty' = cacheProperty
          /\ server'[s].title = server[s].title
          /\ e \notin mixed => server'[s].said - server'[s].unread = Len(p)
      BY <1>2, <2>2
    <3>2. /\ slot[c].http = Conns + slot[c].fd \/ slot[c].fd \in heirs
          /\ server[s].title \in Titles
          /\ e \notin mixed => /\ server[s].title = cache[e].title
                               /\ cacheProperty[e] # "DOWNLOADED"
                               /\ slot[c].sent <= Len(cache[e].page)
      BY <1>4 DEF IInv, Downloads
    <3>3. e \notin mixed => \A b \in Slots \ {c} : slot'[b].http # 0 => slot'[b].cached # e
      BY <1>2, <1>6
    <3>4. e \notin mixed => slot[c].sent <= Len(p)
      <4>1. slot[c].sent \in Int /\ Len(cache[e].page) \in Nat /\ Len(p) \in Nat
        BY Types, SlotFacts, EntryFacts DEF IInv
      <4>2. QED
        BY <3>2, <4>1
    <3>5. slot'[c].cached = e /\ slot'[c].sent = slot[c].sent /\ cache'[e].title = cache[e].title
          /\ cache'[e].page = p
      BY <1>2
    <3>6. /\ slot'[c].ends = "WORKING"
          /\ slot'[c].http = Conns + slot'[c].fd \/ slot'[c].fd \in heirs'
          /\ server'[slot'[c].http].title \in Titles
      BY <1>2, <1>3, <3>1, <3>2
    <3>7. ASSUME e \notin mixed
          PROVE  /\ server'[s].title = cache'[e].title
                 /\ server'[s].said - server'[s].unread = Len(p)
                 /\ cacheProperty'[e] # "DOWNLOADED"
      BY <3>1, <3>2, <3>5, <3>7
    <3>8. QED
      BY <1>3, <3>1, <3>3, <3>4, <3>5, <3>6, <3>7
  <2>3. QED
    BY <2>1, <2>2 DEF Downloads
<1>14. Requests'
  <2>0. \A u \in Users : u \in fds' <=> u \in fds
    BY <1>4
  <2>1. ASSUME NEW u \in Users, Waiting(u)' PROVE Waiting(u)
    BY <1>3, <2>0, <2>1 DEF Waiting
  <2>2. ASSUME NEW u \in Users, Waiting(u)'
        PROVE  /\ server'[Conns + u].state = "unused" /\ user'[u].got = <<>>
               /\ \A d \in Slots : slot'[d].fd = u =>
                      slot'[d].http = 0 /\ slot'[d].cached = EMPTY
    <3>1. Waiting(u) /\ Conns + u \in Servers
      BY <2>1, <2>2, Numbers
    <3>2. /\ server[Conns + u].state = "unused" /\ user[u].got = <<>>
          /\ \A d \in Slots : slot[d].fd = u => slot[d].http = 0 /\ slot[d].cached = EMPTY
      BY <3>1 DEF IInv, Requests
    <3>3. QED
      BY <1>2, <1>3, <3>1, <3>2
  <2>3. ASSUME NEW u \in Users
        PROVE  /\ u > accepted' => /\ u \notin fds' /\ user'[u].state \in {"away", "open"}
                                   /\ user'[u].ask = NoTitle /\ ~user'[u].unread
               /\ user'[u].unread =>
                      u \in fds' /\ user'[u].ask # NoTitle /\ user'[u].state \in {"open", "shut"}
               /\ user'[u].state = "away" => user'[u].ask = NoTitle
               /\ user'[u].got # <<>> => user'[u].state = "open" /\ user'[u].ask \in Titles
    BY <1>3, <2>0 DEF IInv, Requests
  <2>4. QED
    BY <2>2, <2>3 DEF Requests
<1>15. Used' = Used
  <2>1. Used \subseteq Servers /\ Used' \subseteq Servers
    BY DEF Used
  <2>2. \A z \in Servers : z \in Used' <=> z \in Used
    BY DEF Used
  <2>3. QED
    BY <2>1, <2>2
<1>16. Speech'
  <2> SUFFICES ASSUME NEW z \in Servers
               PROVE  /\ z \notin Used' => z \notin fds' /\ server'[z].said = 0
                      /\ server'[z].unread <= server'[z].said
                      /\ server'[z].state = "reset" => server'[z].unread = 0
    BY DEF Speech
  <2>1. CASE z = s
    <3>1. s \in fds
      BY <1>4 DEF IInv, Apart
    <3>2. s \in Used
      BY <3>1 DEF IInv, Speech
    <3>3. QED
      BY <1>15, <2>1, <3>2
  <2>2. CASE z # s
    BY <1>4, <1>15, <2>2 DEF IInv, Speech
  <2>3. QED
    BY <2>1, <2>2
<1>17. Entered'
  BY <1>3, <1>7 DEF IInv, Entered
<1>18. Pages'
  <2> SUFFICES ASSUME NEW x \in Entries
               PROVE  /\ cache'[x].title \notin Titles => cache'[x].page = <<>>
                      /\ x \notin mixed' =>
                            \A i \in DOMAIN cache'[x].page :
                               cache'[x].page[i] = <<cache'[x].title, i>>
                      /\ \A y \in Entries \ {x} :
                             cache'[x].title \in Titles => cache'[y].title # cache'[x].title
    BY DEF Pages
  <2>2. /\ cache[x].title \notin Titles => cache[x].page = <<>>
        /\ x \notin mixed =>
              \A i \in DOMAIN cache[x].page : cache[x].page[i] = <<cache[x].title, i>>
        /\ \A y \in Entries \ {x} : cache[x].title \in Titles => cache[y].title # cache[x].title
    BY DEF IInv, Pages
  <2>3. \A y \in Entries \ {x} : cache'[x].title \in Titles => cache'[y].title # cache'[x].title
    BY <1>7, <2>2
  <2>4. CASE x = e
    <3>1. DOMAIN p = 1..Len(p)
      OBVIOUS
    <3>2. cache[e].title \in Titles
      <4>1. slot[c].cached # EMPTY
        BY <1>4 DEF IInv, Apart
      <4>2. QED
        BY <4>1 DEF IInv, Readers
    <3>3. QED
      BY <1>3, <2>3, <2>4, <3>1, <3>2
  <2>5. CASE x # e
    BY <1>3, <2>2, <2>3, <2>5
  <2>6. QED
    BY <2>4, <2>5
<1>19. Readers'
  <2> SUFFICES ASSUME NEW d \in Slots, slot'[d].cached # EMPTY
               PROVE  /\ slot'[d].fd \in Users
                      /\ cache'[slot'[d].cached].title \in Titles
                      /\ slot'[d].sent \in Nat
                      /\ slot'[d].cached \in mixed' => slot'[d].fd \in misled'
                      /\ user'[slot'[d].fd].state = "open" => user'[slot'[d].fd].ask \in Titles
                      /\ slot'[d].fd \notin misled' =>
                            /\ slot'[d].sent <= Len(cache'[slot'[d].cached].page)
                            /\ user'[slot'[d].fd].state = "open" =>
                                  /\ user'[slot'[d].fd].ask = cache'[slot'[d].cached].title
                                  /\ slot'[d].fd \notin heirs' =>
                                        Len(user'[slot'[d].fd].got) = slot'[d].sent
    BY DEF Readers
  <2>1. slot[d].cached # EMPTY /\ slot[d].cached \in Entries
    BY <1>2, <1>9
  <2>2. /\ slot[d].fd \in Users
        /\ cache[slot[d].cached].title \in Titles
        /\ slot[d].sent \in Nat
        /\ slot[d].cached \in mixed => slot[d].fd \in misled
        /\ user[slot[d].fd].state = "open" => user[slot[d].fd].ask \in Titles
        /\ slot[d].fd \notin misled =>
              /\ slot[d].sent <= Len(cache[slot[d].cached].page)
              /\ user[slot[d].fd].state = "open" =>
                    /\ user[slot[d].fd].ask = cache[slot[d].cached].title
                    /\ slot[d].fd \notin heirs => Len(user[slot[d].fd].got) = slot[d].sent
    BY <2>1 DEF IInv, Readers
  <2>3. PICK x \in Entries : x = slot[d].cached
    BY <2>1
  <2>4. slot[d].fd \notin misled => slot[d].sent <= Len(cache'[x].page)
    <3>1. PICK n, k \in Nat : n = Len(cache[x].page) /\ k = Len(cache'[x].page) /\ k >= n
      <4>1. cache[x] \in EntryRec /\ cache'[x] \in EntryRec
        BY Types DEF IInv
      <4>2. Len(cache[x].page) \in Nat /\ Len(cache'[x].page) \in Nat
        BY <4>1, EntryFacts
      <4>3. QED
        BY <1>7, <4>2
    <3>2. slot[d].sent \in Nat /\ (slot[d].fd \notin misled => slot[d].sent <= n)
      BY <2>2, <2>3, <3>1
    <3>3. QED
      BY <3>1, <3>2
  <2>5. QED
    BY <1>2, <1>3, <1>7, <2>2, <2>3, <2>4
<1>20. Leak'
  <2>1. Lost' \subseteq Lost
    <3> SUFFICES ASSUME NEW z \in Servers, z \in fds', \A d \in Slots : slot'[d].http # z
                 PROVE  z \in Lost
      BY DEF Lost
    <3>1. z # s
      BY <1>2
    <3>2. z \in fds /\ z # 0
      BY <1>4, <3>1, Numbers
    <3>3. \A d \in Slots : slot[d].http # z
      BY <1>2, <3>1 DEF Same
    <3>4. QED
      BY <3>2, <3>3 DEF Lost
  <2>2. HungUp \subseteq HungUp'
    <3>1. \A u \in Users : u \in fds' <=> u \in fds
      BY <1>4
    <3>2. QED
      BY <1>3, <3>1 DEF HungUp
  <2>3. QED
    BY <1>10, <2>1, <2>2, LeakKept DEF IInv
<1>21. InOrder'
  BY <1>3 DEF IInv, InOrder
<1>22. FoundIsServed'
  <2> SUFFICES ASSUME Patient', NEW q \in Titles, NEW x \in With(q)'
               PROVE  \/ cacheProperty'[x] = "DOWNLOADED"
                      \/ /\ cacheProperty'[x] = "DOWNLOADING"
                         /\ \E d \in Slots : slot'[d].http # 0 /\ slot'[d].cached = x
    BY DEF FoundIsServed
  <2>1. Patient
    BY <1>3 DEF Patient
  <2>2. x \in Entries /\ x \in With(q)
    <3>1. x \in 0..cacheSize - 1 /\ cache'[x].title = q
      BY <1>3 DEF With
    <3>2. x \in Entries
      BY <3>1, Types, Sizes DEF IInv, Entries
    <3>3. QED
      BY <1>7, <3>1, <3>2 DEF With
  <2>3. \/ cacheProperty[x] = "DOWNLOADED"
        \/ /\ cacheProperty[x] = "DOWNLOADING"
           /\ \E d \in Slots : slot[d].http # 0 /\ slot[d].cached = x
    BY <2>1, <2>2 DEF IInv, FoundIsServed
  <2>4. CASE x = e /\ r.http = 0
    BY <1>4, <2>2, <2>4, Types DEF IInv
  <2>5. CASE x = e /\ r.http # 0
    BY <1>2, <1>4, <2>3, <2>5
  <2>6. CASE x # e
    <3>1. cacheProperty'[x] = cacheProperty[x]
      BY <1>8, <2>2, <2>6
    <3>2. ASSUME NEW d \in Slots, slot[d].http # 0, slot[d].cached = x
          PROVE  slot'[d].http # 0 /\ slot'[d].cached = x
      <4>1. d # c
        BY <2>6, <3>2
      <4>2. QED
        BY <1>2, <3>2, <4>1 DEF Same
    <3>3. QED
      BY <2>3, <3>1, <3>2
  <2>7. QED
    BY <2>4, <2>5, <2>6
<1>23. FreeOnlyAfterReset'
  BY <1>3 DEF IInv, FreeOnlyAfterReset
<1>24. QED
  BY <1>10, <1>11, <1>12, <1>13, <1>14, <1>16, <1>17, <1>18, <1>19, <1>20, <1>21, <1>22, <1>23
     DEF IInv

LEMMA ReadsPageSteps ==
    ASSUME IInv, NEW c \in Slots, Continues(c) \/ EndsSocketInput(c)
    PROVE  IInv'
<1>1. /\ ReadsPage(c) /\ at = c + MaxClients /\ server[slot[c].http].unread > 0
      /\ cache' = [cache EXCEPT ![slot[c].cached].page = Grown(c)]
      /\ UNCHANGED <<cacheIndex, cacheSize, accepted, dead, user, rangeOf, heirs, readVars>>
  BY DEF Continues, EndsSocketInput, ReadsPage, Loads
<1>2. PICK s \in Servers : s = slot[c].http
  BY <1>1, Visited
<1>3. PICK e \in Entries : e = slot[c].cached
  BY <1>1, Visited
<1>4. \E p \in Seq(Token), m \in Nat : Grows(c, s, e, m, p)
  BY <1>1, <1>2, <1>3, Growing
<1>5. PICK p \in Seq(Token), m \in Nat : Grows(c, s, e, m, p)
  BY <1>4, Zenon
<1>6. /\ p = Grown(c) /\ m = Taken(c) /\ m <= server[s].unread
      /\ server[s].state # "reset" /\ Len(p) = Len(cache[e].page) + m
      /\ e \notin mixed => /\ server[s].said - server[s].unread = Len(cache[e].page)
                           /\ \A i \in 1..Len(p) : p[i] = <<cache[e].title, i>>
  BY <1>5 DEF Grows
<1>7. slot \in [Slots -> SlotRec] /\ cache \in [Entries -> EntryRec]
      /\ server \in [Servers -> ServerRec]
  BY Types DEF IInv
<1>8. PICK L \in Nat : L = Len(cache[e].page)
  BY <1>7, EntryFacts
<1>9. Len(p) >= Len(cache[e].page)
  BY <1>6, <1>8
<1>10. PICK b \in EntryRec : b = cache[e]
  BY <1>7
<1>11. PICK a : a = [b EXCEPT !.page = p]
  OBVIOUS
<1>12. a \in EntryRec /\ a.title = b.title /\ a.page = p
  BY <1>11 DEF EntryRec
<1>13. cache' = [cache EXCEPT ![e] = a]
  BY <1>1, <1>3, <1>6, <1>10, <1>11
<1>14. /\ cache' \in [Entries -> EntryRec] /\ cache'[e].title = cache[e].title
       /\ cache'[e].page = p /\ \A x \in Entries : x # e => cache'[x] = cache[x]
  BY <1>7, <1>10, <1>12, <1>13
<1>15. PICK o \in SlotRec : o = slot[c]
  BY <1>7
<1>16. CASE Continues(c)
  <2>1. /\ server' = [server EXCEPT ![s].unread = @ - m]
        /\ Goes([slot EXCEPT ![c].events = {"POLLIN", "POLLOUT"}, ![c].ends = "WORKING"],
                c + MaxClients)
        /\ cacheProperty' = cacheProperty /\ fds' = fds
    BY <1>2, <1>6, <1>16 DEF Continues
  <2>2. PICK q \in ServerRec : q = server[s]
    BY <1>7
  <2>3. PICK j, k \in Nat : j = q.said /\ k = q.unread /\ j <= Length
    BY ServerFacts
  <2>4. PICK v : v = [q EXCEPT !.unread = k - m]
    OBVIOUS
  <2>5. k - m \in 0..Length /\ k - m <= j /\ (e \notin mixed => j - (k - m) = Len(p))
    <3>1. m <= k /\ (e \notin mixed => j - k = L) /\ Len(p) = L + m
      BY <1>6, <1>8, <2>2, <2>3
    <3>2. k <= j
      BY <2>2, <2>3 DEF IInv, Speech
    <3>3. Length \in Nat
      BY Sizes
    <3>4. k - m \in 0..Length /\ k - m <= j
      <4>1. m <= k /\ j <= Length
        BY <2>3, <3>1
      <4>2. k - m \in Nat /\ k - m <= k
        BY <4>1
      <4>3. QED
        BY <3>2, <3>3, <4>1, <4>2
    <3>5. e \notin mixed => j - (k - m) = L + m
      BY <3>1
    <3>6. QED
      BY <3>1, <3>4, <3>5
  <2>6. v \in ServerRec /\ v.state = q.state /\ v.title = q.title /\ v.said = j
        /\ v.unread = k - m
    BY <2>3, <2>4, <2>5 DEF ServerRec
  <2>7. server' = [server EXCEPT ![s] = v]
    BY <1>7, <2>1, <2>2, <2>3, <2>4
  <2>8. /\ server' \in [Servers -> ServerRec] /\ server'[s] = v
        /\ \A z \in Servers : z # s => server'[z] = server[z]
    BY <1>7, <2>6, <2>7
  <2>9. PICK r : r = [o EXCEPT !.events = {"POLLIN", "POLLOUT"}, !.ends = "WORKING"]
    OBVIOUS
  <2>10. /\ r \in SlotRec /\ r.fd = o.fd /\ r.cached = o.cached /\ r.sent = o.sent
         /\ r.revents = o.revents /\ r.http = o.http /\ r.ends = "WORKING"
    BY <2>9 DEF SlotRec
  <2>11. Goes([slot EXCEPT ![c] = r], c + MaxClients)
    BY <1>7, <1>15, <2>1, <2>9
  <2>12. Loading(c, s, e, p, r)
    <3>1. /\ server'[s].unread <= server'[s].said
          /\ e \notin mixed => server'[s].said - server'[s].unread = Len(p)
          /\ server'[s].title = server[s].title /\ server'[s].state = server[s].state
      BY <2>2, <2>5, <2>6, <2>8
    <3>2. \A z \in Servers : server'[z].state = server[z].state
      BY <2>8, <3>1
    <3>3. /\ r.fd = slot[c].fd /\ r.cached = e /\ r.sent = slot[c].sent
          /\ r.revents = slot[c].revents /\ r.http = s /\ r.ends = "WORKING"
      BY <1>2, <1>3, <1>15, <2>10
    <3>4. QED
      BY <1>1, <1>2, <1>3, <1>6, <1>9, <1>14, <2>1, <2>8, <2>11, <3>1, <3>2, <3>3, ZenonT(60)
         DEF Loading
  <2>13. QED
    BY <2>10, <2>12, LoadingSteps
<1>17. CASE EndsSocketInput(c)
  <2>1. /\ Goes([slot EXCEPT ![c].events = {"POLLIN", "POLLOUT"}, ![c].http = 0,
                             ![c].ends = "END_SOCKET_INPUT"], c + MaxClients)
        /\ cacheProperty' = [cacheProperty EXCEPT ![e] = "DOWNLOADED"]
        /\ fds' = fds \ {s} /\ Forgets(c)
    BY <1>2, <1>3, <1>17 DEF EndsSocketInput, Downloaded
  <2>2. PICK r : r = [o EXCEPT !.events = {"POLLIN", "POLLOUT"}, !.http = 0,
                               !.ends = "END_SOCKET_INPUT"]
    OBVIOUS
  <2>3. /\ r \in SlotRec /\ r.fd = o.fd /\ r.cached = o.cached /\ r.sent = o.sent
        /\ r.revents = o.revents /\ r.http = 0
    BY <2>2 DEF SlotRec
  <2>4. Goes([slot EXCEPT ![c] = r], c + MaxClients)
    BY <1>7, <1>15, <2>1, <2>2
  <2>5. /\ server' \in [Servers -> ServerRec]
        /\ \A z \in Servers : server'[z].state = server[z].state
        /\ \A z \in Servers : z # s => server'[z] = server[z]
        /\ server'[s].said = 0 /\ server'[s].unread = 0
    BY <1>2, <2>1, Forgetting
  <2>6. server'[s].unread <= server'[s].said
    BY <2>5
  <2>7. /\ r.fd = slot[c].fd /\ r.cached = e /\ r.sent = slot[c].sent
        /\ r.revents = slot[c].revents /\ r.http = 0
    BY <1>3, <1>15, <2>3
  <2>8. Loading(c, s, e, p, r)
    <3>1. /\ s = slot[c].http /\ e = slot[c].cached /\ server[s].state # "reset"
          /\ e \notin mixed => \A i \in 1..Len(p) : p[i] = <<cache[e].title, i>>
          /\ UNCHANGED <<cacheIndex, cacheSize, accepted, dead, user, rangeOf, heirs, readVars>>
      BY <1>1, <1>2, <1>3, <1>6
    <3>2. /\ r.http = 0 /\ cacheProperty' = [cacheProperty EXCEPT ![e] = "DOWNLOADED"]
          /\ fds' = fds \ {s}
      BY <2>1, <2>7
    <3>3. QED
      BY <1>9, <1>14, <2>4, <2>5, <2>6, <2>7, <3>1, <3>2 DEF Loading
  <2>9. QED
    BY <2>3, <2>8, LoadingSteps
<1>18. QED
  BY <1>16, <1>17

-----------------------------------------------------------------------------
(* The invariant holds. *)

LEMMA Stepping ==
    ASSUME IInv, [Next]_vars
    PROVE  IInv'
<1>1. ASSUME NEW c \in Slots, Visits(c) PROVE IInv'
  <2>1. CASE \/ UserHangsUp(c) \/ ConnectFails(c)
             \/ (Refuses(c) /\ user[slot[c].fd].ask # "https")
    BY <2>1, FreesOnlySteps
  <2>2. CASE Refuses(c) /\ user[slot[c].fd].ask = "https"
    BY <2>2, RefusesHttpsSteps
  <2>3. CASE ReadFails(c)
    BY <2>3, AcceptsNobodySteps
  <2>4. CASE HandsOver(c)
    BY <2>4, HandsOverSteps
  <2>5. CASE LeavesAlone(c)
    BY <2>5, LeavesAloneSteps
  <2>6. CASE Finds(c)
    BY <2>6, FindsSteps
  <2>7. CASE Owns(c)
    BY <2>7, OwnsSteps
  <2>8. CASE ConnectRefused(c) \/ FreesNothing(c)
    BY <2>8, DiesSteps
  <2>9. CASE Continues(c) \/ EndsSocketInput(c)
    BY <2>9, ReadsPageSteps
  <2>10. CASE EndsFile(c) \/ DropsPage(c)
    BY <2>10, ServerEndsSteps
  <2>11. CASE Sends(c)
    BY <2>11, SendsSteps
  <2>12. CASE SendFails(c)
    BY <2>12, SendFailsSteps
  <2>13. QED
    BY <1>1, <2>1, <2>2, <2>3, <2>4, <2>5, <2>6, <2>7, <2>8, <2>9, <2>10, <2>11, <2>12 DEF Visits
<1>2. CASE Loop
  <2>1. ASSUME NEW W \in SUBSET Writers, Poll(W) PROVE IInv'
    <3>1. W \in SUBSET Slots
      BY DEF Writers
    <3>2. QED
      BY <2>1, <3>1, PollSteps
  <2>2. CASE Accepts \/ AcceptFails
    BY <2>2, AcceptsSteps
  <2>3. CASE AcceptsNobody
    BY <2>3, AcceptsNobodySteps
  <2>4. QED
    BY <1>1, <1>2, <2>1, <2>2, <2>3 DEF Loop
<1>3. CASE Peers
  <2>1. CASE \E u \in Users : \/ UserConnects(u) \/ UserLeaves(u) \/ UserResets(u)
                              \/ \E a \in Titles \union Others : UserAsks(u, a)
    BY <2>1, UsersStep
  <2>2. CASE \E s \in Servers : ServerSends(s) \/ ServerLeaves(s) \/ ServerResets(s)
    BY <2>2, ServersStep
  <2>3. QED
    BY <1>3, <2>1, <2>2 DEF Peers
<1>4. CASE UNCHANGED vars
  <2>1. /\ slot' = slot /\ at' = at /\ accepted' = accepted /\ fds' = fds /\ dead' = dead
        /\ heirs' = heirs /\ user' = user /\ server' = server /\ rangeOf' = rangeOf
        /\ cache' = cache /\ cacheProperty' = cacheProperty /\ cacheIndex' = cacheIndex
        /\ cacheSize' = cacheSize /\ mixed' = mixed /\ misled' = misled
    BY <1>4 DEF vars, procVars, peerVars, cacheVars
  <2>2. TypeOK'
    BY <2>1 DEF IInv, TypeOK
  <2>3. Announcements'
    BY <2>1 DEF IInv, Announcements
  <2>4. FreeOnlyAfterReset'
    BY <2>1 DEF IInv, FreeOnlyAfterReset
  <2>5. \A d \in Slots : Same(d, slot[d])
    BY <2>1 DEF Same
  <2>6. UNCHANGED <<cacheVars, accepted, fds, server, heirs, readVars>>
    BY <2>1 DEF cacheVars
  <2>7. \A u \in Users : /\ user'[u].state = user[u].state /\ user'[u].ask = user[u].ask
                         /\ user'[u].got = user[u].got
                         /\ user'[u].unread => user[u].unread
    BY <2>1
  <2>8. QED
    BY <2>2, <2>3, <2>4, <2>5, <2>6, <2>7, Calm
<1>5. QED
  BY <1>2, <1>3, <1>4 DEF Next

\* Nobody is closed, and nobody gets more.
LEMMA StaysKeep ==
    ASSUME IInv, accepted' = accepted, \A u \in Users : u \in fds => u \in fds',
           \A u \in Users : user'[u].got = user[u].got \/ user'[u].got = <<>>
    PROVE  Keeps
  BY DEF Keeps

\* Slot c is freed: its user had nothing, or a server.
LEMMA LeavesKeep ==
    ASSUME IInv, NEW c \in Slots, slot[c].fd \in Users, NEW us \in [Users -> UserRec],
           \A u \in Users : us[u].got = user[u].got, user' = Closed(us, slot[c].fd),
           fds' = fds \ {slot[c].fd} \/ fds' = fds \ {slot[c].fd, slot[c].http},
           accepted' = accepted, user[slot[c].fd].got = <<>> \/ slot[c].http # 0
    PROVE  Keeps
<1>1. PICK f \in Users : f = slot[c].fd
  OBVIOUS
<1>2. PICK w \in UserRec : ClosedAs(us, f, w)
  BY Closing, Zenon
<1>3. user' = [us EXCEPT ![f] = w] /\ w.got = us[f].got
  BY <1>1, <1>2 DEF ClosedAs
<1>4. \A u \in Users : user'[u].got = user[u].got
  BY <1>3
<1>5. \A u \in Users : u \in fds /\ u \notin fds' => u = f
  <2>1. slot[c].http \notin Users
    BY Types, SlotFacts, Numbers DEF IInv
  <2>2. QED
    BY <1>1, <2>1
<1>6. slot[c].http # 0 => f \in heirs \/ server[Conns + f].state # "unused"
  <2> SUFFICES ASSUME slot[c].http # 0, f \notin heirs PROVE server[Conns + f].state # "unused"
    OBVIOUS
  <2>1. slot[c].http = Conns + f
    BY <1>1 DEF IInv, Downloads
  <2>2. Conns + f \in fds
    BY <2>1 DEF IInv, Apart
  <2>3. QED
    BY <2>2, Numbers DEF IInv, Speech, Used
<1>7. QED
  BY <1>1, <1>4, <1>5, <1>6 DEF Keeps

\* What a visit other than to send takes from a user.
LEMMA VisitsKeep ==
    ASSUME IInv, NEW c \in Slots, Visits(c), ~Sends(c)
    PROVE  Keeps
<1>1. user \in [Users -> UserRec]
  BY Types DEF IInv
<1>2. CASE ReadFails(c) \/ SendFails(c) \/ ConnectRefused(c) \/ FreesNothing(c)
  BY <1>2, StaysKeep DEF ReadFails, SendFails, ConnectRefused, FreesNothing, peerVars
<1>3. CASE \/ Refuses(c) /\ user[slot[c].fd].ask = "https"
           \/ Finds(c) \/ Owns(c)
  <2>1. at = c /\ user' = Read(c) /\ accepted' = accepted
    BY <1>3 DEF Refuses, Finds, Owns, Misses, ReadsRequest, Reads
  <2>2. \A u \in Users : u \in fds => u \in fds'
    BY <1>3 DEF Refuses, Finds, Owns
  <2>3. \A u \in Users : user'[u].got = user[u].got
    BY <2>1, ReadIn
  <2>4. QED
    BY <2>1, <2>2, <2>3, StaysKeep
<1>4. CASE Continues(c) \/ EndsSocketInput(c)
  <2>1. user' = user /\ accepted' = accepted
    BY <1>4 DEF Continues, EndsSocketInput
  <2>2. at = c + MaxClients
    BY <1>4 DEF Continues, EndsSocketInput, ReadsPage, Loads
  <2>3. fds' = fds \/ fds' = fds \ {slot[c].http}
    BY <1>4 DEF Continues, EndsSocketInput
  <2>4. slot[c].http \notin Users
    BY <2>2, Visited, Numbers
  <2>5. QED
    BY <2>1, <2>3, <2>4, StaysKeep
<1>5. CASE UserHangsUp(c)
  <2>1. /\ at = c /\ Disconnects(c, c, user) /\ "POLLHUP" \in slot[c].revents
        /\ accepted' = accepted
    BY <1>5 DEF UserHangsUp
  <2>2. slot[c].fd \in Users /\ user[slot[c].fd].state = "reset"
    BY <2>1, Visited DEF IInv, Announcements
  <2>3. user[slot[c].fd].got = <<>>
    BY <2>2, HasNothing
  <2>4. QED
    BY <1>1, <2>1, <2>2, <2>3, LeavesKeep DEF Disconnects
<1>6. CASE ConnectFails(c) \/ (Refuses(c) /\ user[slot[c].fd].ask # "https")
  <2>1. /\ at = c /\ Disconnects(c, c, Read(c)) /\ user[slot[c].fd].unread
        /\ accepted' = accepted
    BY <1>6 DEF ConnectFails, Refuses, Misses, ReadsRequest, Reads
  <2>2. slot[c].fd \in Users
    BY <2>1, Visited
  <2>3. user[slot[c].fd].got = <<>>
    BY <2>1, <2>2, HasNothing
  <2>4. Read(c) \in [Users -> UserRec] /\ \A u \in Users : Read(c)[u].got = user[u].got
    BY <2>1, ReadIn
  <2>5. user' = Closed(Read(c), slot[c].fd) /\ fds' = fds \ {slot[c].fd}
    BY <2>1 DEF Disconnects
  <2>6. QED
    BY <2>1, <2>2, <2>3, <2>4, <2>5, LeavesKeep
<1>7. CASE HandsOver(c) \/ LeavesAlone(c)
  <2>1. /\ at = c /\ user[slot[c].fd].state = "shut" /\ user' = Closed(user, slot[c].fd)
        /\ fds' = fds \ {slot[c].fd} \/ fds' = fds \ {slot[c].fd, slot[c].http}
        /\ accepted' = accepted
    BY <1>7 DEF HandsOver, LeavesAlone, ReadsEnd, Reads, ClosesBoth
  <2>2. slot[c].fd \in Users /\ user[slot[c].fd].got = <<>>
    BY <2>1, Visited, HasNothing
  <2>3. QED
    BY <1>1, <2>1, <2>2, LeavesKeep
<1>8. CASE EndsFile(c) \/ DropsPage(c)
  <2>1. /\ at = c + MaxClients /\ user' = Closed(user, slot[c].fd)
        /\ fds' = fds \ {slot[c].fd, slot[c].http} /\ accepted' = accepted
    BY <1>8 DEF EndsFile, DropsPage, ServerFails, Loads, ClosesBoth
  <2>2. slot[c].fd \in Users /\ slot[c].http # 0
    BY <2>1, Visited, Numbers
  <2>3. QED
    BY <1>1, <2>1, <2>2, LeavesKeep
<1>9. QED
  BY <1>2, <1>3, <1>4, <1>5, <1>6, <1>7, <1>8 DEF Visits

LEMMA Letting ==
    ASSUME IInv, [Next]_vars
    PROVE  LetsGoWhole
<1>1. ASSUME NEW c \in Slots, Visits(c) PROVE LetsGoWhole
  BY <1>1, VisitsKeep, SendsSteps, Keeping
<1>2. CASE \/ \E W \in SUBSET Writers : Poll(W)
           \/ AcceptFails \/ AcceptsNobody \/ UNCHANGED vars
  <2>1. user' = user /\ fds' = fds /\ accepted' = accepted
    BY <1>2 DEF Poll, AcceptFails, AcceptsNobody, vars, procVars, peerVars
  <2>2. QED
    BY <2>1, StaysKeep, Keeping
<1>3. CASE Accepts
  <2>1. /\ user' = user /\ accepted' = accepted + 1 /\ fds' = fds \union {accepted'}
        /\ accepted \in Nat
    BY <1>3, Types DEF Accepts, peerVars, IInv
  <2>2. \A u \in Users : u <= accepted + 1 => u <= accepted \/ u = accepted + 1
    BY <2>1, Numbers
  <2>3. QED
    BY <2>1, <2>2, Keeping DEF Keeps
<1>4. CASE Peers
  <2>1. fds' = fds /\ accepted' = accepted
    BY <1>4 DEF Peers, UserConnects, UserLeaves, UserResets, UserAsks, ServerSends,
                ServerLeaves, ServerResets, procVars
  <2>2. CASE \E u \in Users : \/ UserConnects(u) \/ UserLeaves(u) \/ UserResets(u)
                              \/ \E a \in Titles \union Others : UserAsks(u, a)
    <3>1. PICK f \in Users : \/ UserConnects(f) \/ UserLeaves(f) \/ UserResets(f)
                             \/ \E a \in Titles \union Others : UserAsks(f, a)
      BY <2>2
    <3>2. PICK g \in UserRec : g = user[f]
      BY Types DEF IInv
    <3>3. PICK w : /\ user' = [user EXCEPT ![f] = w]
                   /\ w.got = g.got \/ w.got = <<>>
      <4>1. CASE UserConnects(f)
        <5>1. user' = [user EXCEPT ![f] = [g EXCEPT !.state = "open"]]
          BY <3>2, <4>1 DEF UserConnects
        <5>2. [g EXCEPT !.state = "open"].got = g.got
          BY DEF UserRec
        <5>3. QED
          BY <5>1, <5>2
      <4>2. CASE UserLeaves(f)
        <5>1. user' = [user EXCEPT ![f] = [g EXCEPT !.state = "shut", !.got = <<>>]]
          BY <3>2, <4>2, Types DEF UserLeaves, IInv
        <5>2. [g EXCEPT !.state = "shut", !.got = <<>>].got = <<>>
          BY DEF UserRec
        <5>3. QED
          BY <5>1, <5>2
      <4>3. CASE UserResets(f)
        <5>1. PICK w : w = [state |-> "reset", ask |-> NoTitle, unread |-> FALSE, got |-> <<>>]
          OBVIOUS
        <5>2. user' = [user EXCEPT ![f] = w] /\ w.got = <<>>
          BY <4>3, <5>1 DEF UserResets
        <5>3. QED
          BY <5>2
      <4>4. CASE \E a \in Titles \union Others : UserAsks(f, a)
        <5>1. PICK a : UserAsks(f, a)
          BY <4>4
        <5>2. user' = [user EXCEPT ![f] = [g EXCEPT !.ask = a, !.unread = TRUE]]
          BY <3>2, <5>1, Types DEF UserAsks, IInv
        <5>3. [g EXCEPT !.ask = a, !.unread = TRUE].got = g.got
          BY DEF UserRec
        <5>4. QED
          BY <5>2, <5>3
      <4>5. QED
        BY <3>1, <4>1, <4>2, <4>3, <4>4
    <3>4. \A u \in Users : user'[u].got = user[u].got \/ user'[u].got = <<>>
      BY <3>2, <3>3, Types DEF IInv
    <3>5. QED
      BY <2>1, <3>4, StaysKeep, Keeping
  <2>3. CASE \E s \in Servers : ServerSends(s) \/ ServerLeaves(s) \/ ServerResets(s)
    <3>1. user' = user
      BY <2>3 DEF ServerSends, ServerLeaves, ServerResets
    <3>2. QED
      BY <2>1, <3>1, StaysKeep, Keeping
  <2>4. QED
    BY <1>4, <2>2, <2>3 DEF Peers
<1>5. QED
  BY <1>1, <1>2, <1>3, <1>4 DEF Next, Loop

LEMMA Starting ==
    ASSUME Init
    PROVE  IInv
<1>1. PICK r : r = [FreeSlot EXCEPT !.sent = EMPTY]
  OBVIOUS
<1>2. /\ r \in SlotRec /\ r.fd = 0 /\ r.http = 0 /\ r.cached = EMPTY
      /\ r.revents = {} /\ r.hrevents = {}
  <2>1. EMPTY \in EMPTY..Length
    BY Sizes
  <2>2. QED
    BY <1>1, <2>1, FreeSlotFacts DEF SlotRec
<1>3. PICK w : w = [state |-> "away", ask |-> NoTitle, unread |-> FALSE, got |-> <<>>]
  OBVIOUS
<1>4. w \in UserRec /\ w.state = "away" /\ w.ask = NoTitle /\ ~w.unread /\ w.got = <<>>
  BY <1>3, EmptySeq DEF UserRec
<1>5. PICK q : q = [state |-> "unused", title |-> NoTitle, said |-> 0, unread |-> 0]
  OBVIOUS
<1>6. q \in ServerRec /\ q.state = "unused" /\ q.said = 0 /\ q.unread = 0
  <2>1. 0 \in 0..Length
    BY Sizes
  <2>2. QED
    BY <1>5, <2>1 DEF ServerRec
<1>7. PICK a, b : a = [title |-> Old, page |-> <<>>] /\ b = NoPage
  OBVIOUS
<1>8. /\ a \in EntryRec /\ a.title = Old /\ a.page = <<>>
      /\ b \in EntryRec /\ b.title \notin Titles /\ b.page = <<>> /\ Old \notin Titles
  BY <1>7, NoPageTyped, Sizes, EmptySeq DEF EntryRec
<1>9. /\ slot = [c \in Slots |-> r] /\ user = [u \in Users |-> w]
      /\ server = [s \in Servers |-> q]
      /\ cache = [e \in Entries |-> IF e < CacheSize - 1 THEN a ELSE b]
  BY <1>1, <1>3, <1>5, <1>7 DEF Init
<1>10. /\ cacheProperty = [e \in Entries |-> IF e < CacheSize - 1 THEN "DOWNLOADED" ELSE "EMPTY"]
       /\ cacheIndex = CacheSize - 1 /\ cacheSize = CacheSize - 1 /\ at = Polling
       /\ accepted = 0 /\ rangeOf \in [Titles -> Ranges] /\ fds = {} /\ dead = "no" /\ heirs = {}
       /\ mixed = {} /\ misled = {}
  BY DEF Init
<1>11. \A e \in Entries : cache[e].title \notin Titles /\ cache[e].page = <<>>
  BY <1>8, <1>9
<1>12. TypeOK
  <2>1. slot \in [Slots -> SlotRec] /\ user \in [Users -> UserRec] /\ server \in [Servers -> ServerRec]
    BY <1>2, <1>4, <1>6, <1>9
  <2>2. cache \in [Entries -> EntryRec]
    BY <1>8, <1>9
  <2>3. cacheProperty \in [Entries -> {"EMPTY", "DOWNLOADING", "DOWNLOADED"}]
    BY <1>10
  <2>4. CacheSize - 1 \in 0..CacheSize /\ Polling \in 0..Polling /\ 0 \in 0..Conns
    BY Sizes DEF Polling
  <2>5. QED
    BY <1>10, <2>1, <2>2, <2>3, <2>4 DEF TypeOK, SlotRec, UserRec, ServerRec, EntryRec
<1>13. \A c \in Slots : slot[c] = r /\ slot[c].fd \notin Users
  BY <1>2, <1>9, Numbers
<1>14. Apart
  BY <1>2, <1>10, <1>13 DEF Apart
<1>15. Announcements
  <2>1. at # 0 /\ at \notin Slots /\ at \notin MaxClients + 1..2 * MaxClients
    BY <1>10, Sizes DEF Polling, Slots
  <2>2. QED
    BY <1>2, <1>13, <2>1 DEF Announcements
<1>16. Downloads /\ Readers
  BY <1>2, <1>13 DEF Downloads, Readers
<1>17. Requests
  <2>1. \A u \in Users : user[u] = w /\ server[Conns + u] = q
    BY <1>9, Numbers
  <2>2. QED
    BY <1>2, <1>4, <1>6, <1>10, <1>13, <2>1 DEF Requests
<1>18. Used = {}
  BY <1>6, <1>9 DEF Used
<1>19. Speech
  BY <1>6, <1>9, <1>10, <1>18 DEF Speech
<1>20. Entered
  BY <1>10, <1>11 DEF Entered
<1>21. Pages
  <2>1. \A e \in Entries : DOMAIN cache[e].page = {}
    BY <1>11
  <2>2. QED
    BY <1>11, <2>1 DEF Pages
<1>22. Leak
  <2>1. Lost = {} /\ HungUp = {}
    BY <1>4, <1>9, <1>10 DEF Lost, HungUp
  <2>2. QED
    BY <2>1, FS_EmptySet DEF Leak
<1>23. FreeOnlyAfterReset
  BY <1>10 DEF FreeOnlyAfterReset
<1>24. InOrder
  <2>1. \A u \in Users : DOMAIN user[u].got = {}
    BY <1>4, <1>9
  <2>2. QED
    BY <2>1 DEF InOrder
<1>25. FoundIsServed
  <2>1. \A t \in Titles : With(t) = {}
    <3> SUFFICES ASSUME NEW t \in Titles, NEW e \in With(t) PROVE FALSE
      OBVIOUS
    <3>1. e \in 0..cacheSize - 1 /\ cache[e].title = t
      BY DEF With
    <3>2. e \in Entries
      BY <1>10, <3>1, Sizes DEF Entries
    <3>3. QED
      BY <1>11, <3>1, <3>2
  <2>2. QED
    BY <2>1 DEF FoundIsServed
<1>26. QED
  BY <1>12, <1>14, <1>15, <1>16, <1>17, <1>19, <1>20, <1>21, <1>22, <1>23, <1>24, <1>25
     DEF IInv

LEMMA Implied ==
    ASSUME IInv
    PROVE  Inv
<1>1. slot \in [Slots -> SlotRec]
  BY Types DEF IInv
<1>2. SlotsApart
  <2>1. \A c, d \in Slots : c # d /\ slot[c].fd > 0 => slot[c].fd # slot[d].fd
    <3>1. \A c \in Slots : slot[c].fd > 0 => slot[c].fd \in Users
      <4>1. ASSUME NEW c \in Slots, slot[c].fd > 0 PROVE slot[c].fd \in Users
        <5>1. slot[c].fd \in Int /\ (slot[c].fd \in Users \/ slot[c].fd = 0 \/ slot[c].fd = 0 - 1)
          BY <1>1, SlotFacts
        <5>2. QED
          BY <4>1, <5>1
      <4>2. QED
        BY <4>1
    <3>2. QED
      BY <3>1 DEF IInv, Apart
  <2>2. \A c, d \in Slots : c # d /\ slot[c].http > 0 => slot[c].http # slot[d].http
    BY DEF IInv, Apart
  <2>3. fds \intersect Users = Held \intersect Users
    <3>1. \A c \in Slots : slot[c].http \notin Users
      BY <1>1, SlotFacts, Numbers
    <3>2. ASSUME NEW u \in Users PROVE u \in Held <=> \E c \in Slots : slot[c].fd = u
      BY <3>1 DEF Held
    <3>3. QED
      BY <3>2 DEF IInv, Apart
  <2>4. \A c \in Slots : slot[c].http # 0 =>
            slot[c].fd \in Users /\ slot[c].cached # EMPTY /\ slot[c].http \in fds
    BY DEF IInv, Apart
  <2>5. QED
    BY <2>1, <2>2, <2>3, <2>4 DEF SlotsApart
<1>3. TitlesOnce
  <2> SUFFICES ASSUME NEW t \in Titles PROVE Cardinality(With(t)) <= 1
    BY DEF TitlesOnce
  <2>1. ASSUME NEW e \in With(t), NEW f \in With(t) PROVE e = f
    <3>1. e \in 0..cacheSize - 1 /\ f \in 0..cacheSize - 1 /\ cache[e].title = t /\ cache[f].title = t
      BY DEF With
    <3>2. e \in Entries /\ f \in Entries
      BY <3>1, Types, Sizes DEF IInv, Entries
    <3>3. QED
      BY <3>1, <3>2 DEF IInv, Pages
  <2>2. CASE With(t) = {}
    BY <2>2, FS_EmptySet
  <2>3. CASE With(t) # {}
    <3>1. PICK e \in With(t) : TRUE
      BY <2>3
    <3>2. With(t) = {e}
      BY <2>1, <3>1
    <3>3. Cardinality({e}) = 1
      BY FS_Singleton, Zenon
    <3>4. QED
      BY <3>2, <3>3
  <2>4. QED
    BY <2>2, <2>3
<1>4. ReadersHavePage
  BY DEF IInv, Readers, ReadersHavePage
<1>5. LeakOnlyByHangUp
  <2>1. Lost = Forgotten
    <3>1. \A c \in Slots : slot[c].fd \notin Servers
      <4>1. \A u \in Users : u \notin Servers
        BY Numbers
      <4>2. 0 \notin Servers /\ 0 - 1 \notin Servers
        BY Numbers
      <4>3. QED
        BY <1>1, <4>1, <4>2, SlotFacts
    <3>2. ASSUME NEW s \in Servers PROVE s \in Held <=> \E c \in Slots : slot[c].http = s
      BY <3>1 DEF Held
    <3>3. QED
      BY <3>2 DEF Lost, Forgotten
  <2>2. QED
    BY <2>1 DEF IInv, Leak, LeakOnlyByHangUp
<1>6. QED
  BY <1>2, <1>3, <1>4, <1>5 DEF IInv, Inv, Core

\* A pass of the loop and the peers keep what all of the below rests on: each
\* slot, descriptor, page and request is where the others expect it, however many
\* users come and whatever entry is given to another page (pro31.c:731-954).
THEOREM IInvHolds == Spec => []IInv
<1>1. IInv /\ [Next]_vars => IInv'
  BY Stepping
<1>2. QED
  BY <1>1, Starting, PTL DEF Spec

\* Slots and descriptors match, a page is in the cache once, whoever reads an
\* entry finds a page there, a server is forgotten only with a user who was reset
\* or left a mixed page, and free gets a bad pointer only after a server was reset
\* (Inv).
THEOREM InvHolds == Spec => []Inv
  BY Implied, IInvHolds, PTL

\* A user gets the tokens of the page it asked for once and in order, whatever
\* happens to the owner of the download meanwhile, unless it inherited the download
\* or its entry was given to another page (resendFromCache).
THEOREM InOrderHolds == Spec => []InOrder
<1>1. IInv => InOrder
  BY DEF IInv
<1>2. QED
  BY <1>1, IInvHolds, PTL

\* A user who is let go after reading from the cache has the whole page (main's
\* loop, :915-926).
THEOREM ServedWholeHolds == Spec => ServedWhole
<1>1. IInv /\ [Next]_vars => LetsGoWhole
  BY Letting
<1>2. LetsGoWhole => [LetsGoWhole]_vars
  OBVIOUS
<1>3. Spec => [][LetsGoWhole]_vars
  BY <1>1, IInvHolds, PTL DEF Spec
<1>4. QED
  BY <1>3 DEF ServedWhole, LetsGoWhole

\* While nobody leaves early, a page that is found is whole or being downloaded
\* (readToCache).
THEOREM FoundIsServedHolds == Spec => []FoundIsServed
<1>1. IInv => FoundIsServed
  BY DEF IInv
<1>2. QED
  BY <1>1, IInvHolds, PTL

=============================================================================
