# A verification project for the OS labs and the lab32proxy HTTP proxy

The repository holds the course work of one semester: a caching, threaded HTTP
proxy in C++ (`src/OS/proxy/lab32proxy`), the C programs it grew out of
(`src/OS/proxy/*.c`), a series of exercises with POSIX threads (`src/OS/lab*.c`)
and the sequential exercises of two other courses (`src/MTK`, `src/vich_mat`).

This directory holds TLA+ models of the concurrent parts and of the interpreters
and symbolic calculators of `src/MTK`, the TLC configurations that check them on
small instances, and proofs, checked by TLAPS, of the safety of the whole of
lab32proxy (cache element, cache, connection, accepting loop), of its two predecessors
pro and pro31, and of all labs with threads, for every size of their constants.

`PROJECT.json` maps every definition to the lines it models, names the runs and
their properties, a mutation of the code that each property detects, the hazards
of the code, and the findings.

    tlc -workers 2 -config CashElement_stream.cfg MCCashElement
    tlapm CashElementProofs.tla

## 1. Inventory

### lab32proxy

| part | state | operations | module |
|---|---|---|---|
| server (`NewServerImpl`, `main`) | `listFd`, the list of thread arguments | create and bind the socket, accept, push an argument, create a detached thread | `Server` |
| socket (`ServerSocketImpl`) | the listening descriptor, `mutexForServer` | `connectSocket`, `acceptNewClientSock`, `connectToClient` (resolves and connects under the mutex), `closeSocket` | `Server` |
| handler (`HandlerOneClientImpl`) | `_clientList`, `_pollSet`, iterator | `startHandler`, `handlingEvent`, `deleteClient*`, `getFromCash`, `sendAll` | `Handler`; `getFromCash` and `sendAll` in `CashElement` |
| client (`ClientImpl`) | socket, `_pair`, `_listHandlingEvent`, poll events, shared buffer | events, reading, writing, links between the two clients | `Handler` |
| buffer (`BufferImpl`) | bytes, status of each side, body length, flags for the cache | `readFromSocket` and the four functions behind it, `sendBuf`, `proofSend`, `isReadyToSend` | `Handler`; the copies out of the cache in `CashElement`; the lookups in `Cash` |
| parser (`ParserImpl`) | none | request and response headings | its outcomes, in `Handler` |
| cache (`CashImpl`) | list of elements, a mutex | `isElementInCash`, `findResponseInCash`, `addStringToCash` with eviction | `Cash` |
| cache element (`CashElementImpl`) | bytes, `isDownloadEnd`, `isServerConnected`, user count, subscribed condition variables | append and signal, subscribe, unsubscribe, count, copy out | `CashElement` |
| logger, `Constants.h` | none | text | none |

How they meet.  The main thread accepts and starts a thread per connection; the
thread reads its argument through a pointer into the main thread's list.  A
connection's thread polls at most two sockets, the user's and an http server's,
which share one buffer object, and deletes that buffer with the last of them.  The
thread parses the user's heading and either finds the response in the cache, or
connects (under one mutex for the whole process), relays, and copies the response
into a new element of the cache on its way.  A response in the cache may still be
growing: its readers subscribe a condition variable of their own to the element
and wait, and the thread that fills the element signals all of them after each
append and when it is done or loses its server.  When its user leaves, the filling
thread stays until the download ends.

What is hard there:

* flags, lengths and counts of an element are read without a lock while another
  thread writes them, and conditions are tested outside the mutex of the condition
  variable that is then waited for;
* a lookup is two critical sections and the counting of a user a third one;
  evicting, appending, adding and leaving come in between;
* either peer may close at any time, is told of by `poll` in a particular order,
  and takes a client, its partner and the shared buffer with it, while the loop
  over the clients stands on one of them;
* the two statuses of the buffer alone decide whose bytes are being read;
* error paths: exceptions by value and by pointer, threads that are not created,
  connects that fail under the mutex, reads and writes whose result is not used.

What makes each part correct:

* **element**: a reader sends a prefix of what was appended, in order and at most
  once, and all of it if it leaves because everything was sent; no signal goes to
  a destroyed condition variable; the count of users is exact; readers end;
* **cache**: a lookup serves the heading that was asked for; an element is evicted
  only if its count was read as 0, and whoever counts itself after that is still served;
  a lookup fails halfway, and a heading has two elements, only where threads overlap; the
  evicting loop ends;
* **handler**: tokens are relayed in order and none lost; the buffer is deleted
  exactly once; no client points to a deleted one; the thread goes on alone only to
  fill the cache, and gives the element back when it comes to its end; hang-ups end
  the thread;
* **server**: each thread gets its own socket; the mutex is released on every path;
  descriptors leak only where creation of a thread, a connect or a poll failed; one bad
  connection does not end the others.

### The labs

| part | what it does | module |
|---|---|---|
| `lab14.c`, `lab14,2.c`, `lab16.c` | two threads, three threads, two processes print in turn through a ring of semaphores | `SemRing` |
| `lab11.c` | two threads print in turn by walking a chain of three error-checking mutexes | `MutexChain` |
| `lab13.c` | two threads print in turn with a mutex and a condition variable | `CondTurn` |
| `lab9.c` | threads sum parts of a series in rounds, a barrier after each, until SIGINT | `Barrier` |
| `lab10.c` | five philosophers, fifty dishes, forks taken in an order by number | `Philosophers` |
| `lab17work.c`, `list/` | a thread sorts a list by relinking its nodes while main reads, inserts and prints | `SortedList` |
| `lab23.c` | a thread per line sleeps in proportion to its length and appends the line to a list, which main prints after joining them all | `SleepSort` |
| `lab6.c`, `lab3.c` | detached threads that print their line, after sleeping or at once, and read their argument from main's frame | `SleepSort` |

The first three keep the same promise, `Turns`: one line at a time, whose turn it
is, in a cycle.  The hard parts are who destroys what the others still use, errors
whose result is not looked at, and arguments that are read late.

### pro and pro31

`proxy/pro.c` is the first proxy: a loop that polls every client in turn with timeout
zero, reads whatever came from a user as a request, and writes to the user without
asking whether it takes anything.  Its state is arrays indexed by client, a
count of clients, and a cache of pages.  Module `Pro`.  What makes it correct: the
count is exact, descriptors are closed, a page holds its own bytes only, a page that
was served as whole does not grow, no page is left DOWNLOADING without an owner, and
whoever waits for bytes that are there gets them.

`proxy/pro31.c` is the caching proxy before it had threads: one `poll` over the
listening socket, ten users and the http server of each.  Its state is parallel
arrays indexed by a client's slot (descriptors, expected length, phase, cache entry,
bytes sent) and a cache of entries that are EMPTY, DOWNLOADING, DOWNLOADED or CLEAN.
The first user to ask for a page owns its download; others read the entry while
it grows; when the owner leaves, one of them takes the download over.  Module
`Pro31`.  What makes it correct: slots, descriptors and entries match; an entry is
not freed while somebody reads it; readers get the page in order and whole; no
download is left without an owner; descriptors are closed.  Neither program looks at readers when
its cache is full and a new page takes the oldest entry, so both promise the last
points only to those whose entry was not given away.

### MTK

Written in the flow language, sequential, but easy to get wrong in a way that a few
examples do not show.

| part | what it does | module |
|---|---|---|
| `block2/lab6` | sums and products to reverse Polish notation, and its value | `Algebra` |
| `block2/lab7` | the value of an expression as a fraction | `Algebra` |
| `block2/lab8` | simplifying, and the derivative | `Algebra` |
| `block2/lab9` | an expression as a quotient of polynomials, cancelled by the common divisor of their coefficients | `Algebra` |
| `block2/lab10` | rewriting by a table of rules | `Algebra` |
| `block3/lab11`, `lab12` | *nemo*, a small language whose statements choose and repeat at will: its type check, its translation into labelled instructions, and the exploration of all their configurations | `Nemo` |

What makes them correct: the result has the value of the input (or is its
derivative) wherever both have one; a program that passes the type check meets no
type error; labels lead somewhere; the instructions can end in exactly the states the
program means.

### Not modelled

* `proxy/pro32.c` does not compile (a void expression is used at lines 503 and 573).
* `notWork/` holds drafts of lab17 that cannot be built: `lab17.c` and `lab17new.c`
  include a `list.h` that is not beside them, `lab17copy.c` has no `main`.
* `labsFromUbuntuDisc/`: first exercises that create, join or cancel a thread, without
  shared state.
* `MTK/block1` and the directories of drafts: printing, a sum, Fibonacci numbers, and earlier
  states of what `Algebra` and `Nemo` model.  The grammars (`.lingo`) are left out too.
* `vich_mat`: Java in floating point (roots of a cubic equation, a tridiagonal system), out of
  TLC's reach.
* The logger and the constants keep no state.

`PROJECT.json` gives the reason for each part, and for what is left out of a part that
is modelled.

## 2. The modules

### CashStream: what an element promises

A growing response and its readers: the response grows while it is open, is closed
once, each reader delivers a prefix that only grows, and a reader leaves at a
point its mode explains: it was there too early (`early`), it has all (`final`),
or its socket failed (`cut`).  `CashElement` implements it.

### CashElement: one element, its writer and its readers

One writer and any set of readers.  Each unlocked read of a flag or a length in the
code is a step of its own: `Size`, `Resize`, `MemCopyFromCash` and `SendBuf` are the
four reads of `BufferImpl.cpp:148-160`, so that the string that is sent may be sized
by one length and filled by another.  `signalUsers` holds `_mutexForSubscribers` over its
loop (`LockSubscribers`, `SignalOne`, `UnlockSubscribers`), and subscribing,
unsubscribing and counting need that mutex free.  A condition variable has one waiter,
so a signal finds the reader `waiting` or is lost.  The missing `return` at the end
of `sendAll` is a choice from `SendAllResults`.  Bytes are abstracted to how many
there are, `MaxLength` bounds what the server sends.

### Cash: the list of elements

One request per thread.  `isElementInCash`, `findResponseInCash` and `addCountUsers` are three
steps; so are the second lookup and `addStringToCash`.  Its walk reads the count of an element
(`ReadCount`) and erases it (`Erase`) in two steps, because `addCountUsers` takes another
mutex: a thread that found the element before the walk began may count itself in
between.  `late` remembers who did.  The iterator is modelled as the code moves it, incremented once
more after `erase`.

### Handler: one connection

The thread's loop with both clients, their links, the shared buffer and its two
statuses, and the two peers.  A visit is cut where the peers may act: reading,
connecting, testing the statuses and writing.  The data are tokens, so that a
heading can arrive in two pieces, a body by parts, and a read can take any prefix
of what arrived.  What another module covers is an oracle here: what the cache
answers, and what comes out of an element, if serving from it ever ends: `FromCash` has no
fairness and does not look at the user's socket, as `getFromCash` does not.  `Replies` are
the responses a server may choose from, any heading with any body, whatever its length says:
the constant bounds no theorem.  What a reader should know:

* a connection carries one request, and a server answers only a whole one;
* a write to a peer that is open delivers what was written, a write to one that
  closed loses it; the code does not look at the result;
* the end of a chunked body is two tokens, `rend` and `rlast`, so that it may arrive in two
  reads, with or without a write in between.  The code looks for the bytes of that end in
  whatever is not sent yet, so the model finds them inside a body too, and behind a heading whose
  last line ends in 0 (`rhead0`);
* a poll that fails ends the thread where it is (`PollFails`): nobody is deleted.

`FillsAStream` puts it together with `CashStream`: what this thread does to its element,
whoever leaves first, is what the readers in `CashElement` rely on.

### Server: accepting

The main thread, the list of arguments, the threads as far as they concern
descriptors and `mutexForServer`, and `exit`.  Each call that may fail does.  A thread ends with
its sockets closed (`Ends`) or, when its poll fails, with those open that it has (`PollFails`).

### Pro: the first single loop

`slot[c]` is the arrays indexed by `clientIndex`, at `c`.  A visit of a client is three steps, `user`, `load` and
`send`, and the peers act between any two, since each step polls or blocks for itself.
Whatever one read returns is a request, so a repeated request, or one in two pieces, is a
second one on the same client.  `cacheProperty[EMPTY]`, that is `cacheProperty[-1]`, is
main's variable `result` in the build, and is modelled with what is written to it.
The cache begins full but for one entry, and every download after the first takes an entry of the
array's, in a circle, whoever uses it (`Overtakes`).  Three variables remember what the code does
not look at, and name the exceptions of the properties: `astray`, that a server was left to a
client that does not download its page (somebody asked again during a download, or was
disconnected along with another owner of its page); `mixed`, the entries that two downloads
write to; `misled`, the users whose entry was given to another page.

### Pro31: polls and phases

`slot[c]` is `fds[c]`, `fds[c + MAX_CLIENTS_AMOUNT]` and the five arrays at `c`.  A pass of
the loop is one step per descriptor that has `revents`, in the order of the indices, so
that a visit may find what earlier visits of the same pass changed.  Three places
need a word:

* the arrays have `MAX_CLIENTS_AMOUNT` elements and are indexed from 1, so the last index is
  outside; it lies in the padding behind the array and is modelled as a place of its own;
* slots without a page read and write `cacheProperty[EMPTY]`, that is `cacheProperty[-1]`:
  reading it may give anything (`MaybeCleaned`), writing it changes nothing that is read;
* peers act between passes, except that a connection may be reset between the poll that
  announced it and the visit (`Between`, `Announced`).  Anything else that arrives during a
  pass is first seen by the next poll, or by a read that would also have seen it it had
  it come before.

`Core` names what the visits rely on and no single line of the code says: what poll announced
is there (`Announcements`), a download's server, owner and page fit together (`Downloads`), a user
whose request is not read has nothing yet (`Requests`), which entries have been taken since the
start (`Entered`), and a reader has what its count says (`Readers`).

The cache begins full but for one entry, with pages nobody asks for any more, so that the second
download already starts over at entry 0, and a later one at an entry in use.  `Overtakes` then records,
as in `Pro`, the entries that two downloads have written to (`mixed`) and the users whose entry was
given to another page or is mixed (`misled`); `heirs` are those who were handed a download.  The process
stops (`dead`) when a write
raises SIGPIPE or `free` gets a bad pointer.  The model has neither a second request on a
connection, a request in two pieces, nor the time that the blocking connect takes.

### The labs

`SemRing` is parameterised by the number of parties, by which one is the main
thread and which one destroys the semaphores, so that one module covers three
programs.  `MutexChain` has the error-checking mutexes with their owners and what a
wrong unlock returns.  `CondTurn` has spurious wakeups and the mutex a waiter takes
again.  `Barrier` has the barrier of the library with its count, the handler of
SIGINT, failed creation of a thread; terms of the series are numbers and their
values are left out.  `Philosophers` has `id + 1 % PHILO` as C reads it, `id + 1`, so the
last philosopher locks a mutex beyond the array; what that mutex does is a
nondeterministic choice.  `SortedList` has the list as nodes and links, the
sorter as single relinkings, and main's unlocked read of the head.
`SleepSort` has the pieces a line is read in, what is left in the buffer, creation
that fails, a clock by which a thread starts or wakes at most `Delay` late, and the three
programs by the name in `lab`.

`ThreadLabs` composes `SemRing`, `MutexChain` and `CondTurn`, whose threads take turns, with `Barrier`
and `Philosophers`, whose threads share out work; `ListLabs` composes `SortedList` and `SleepSort`,
which share the variables of a list: one exercise runs, chosen in the first state.  Programs that keep
the same promise are so checked against one statement of it.

### Nemo: a language and its machine

Sources are trees of records.  `WellTyped`, `NmStat2vnmStat` and `VmStep` are the code's type
check, translation and step of one configuration; `Explore` is a round of its
exploration, all configurations at once.  `Meaning` is the reference: what states a tree can end in, by
recursion over the tree and without labels.

### Algebra: five calculators

Trees are tuples, polynomials functions from monomials to coefficients, doubles exact
fractions.  Each lab works in one step or in a few (`pc`), and its result is compared
with `Calculate`, the value of a tree.  A derivative is compared with the slope that the values of
the expression around a point have, which is exact for polynomials of degree four.

`Mtk` composes `Nemo` and `Algebra`: one program runs.

### Invariants

Each module collects what holds between any two of its steps in one invariant, `Inv`
(`IInv` in `CashElement`), a conjunction of named parts that begins with the types.  Where
it is proved, the parts that make it inductive belong to it, so that TLC checks them too.  The
properties beside it are those of a module's purpose.  Every property in a passing
run has, in `PROJECT.json`, a plausible slip in one definition (its operators are marked
"Mutant") that TLC finds to violate it.

## 3. Runs

A run that passes shows its properties on all behaviours of its instance.  Deadlock
checking is off in each, because every one of these programs may end or wait for a peer.

| run | instance | shows |
|---|---|---|
| `element` | 2 readers, up to 2 bytes, 2 declared, 2 per write | the invariant, safe signals, exact count, copies that fit, complete responses; the element implements `CashStream`; no reader turns for ever without blocking, and whoever a signal can reach is released |
| `element_released` | 1 reader, 2 bytes | the finding below |
| `cash` | 3 threads, 2 headings | lookups serve what was asked for, exact counts, an element in use evicted only if its user counted itself behind the reading of the count, NULL only by an eviction, duplicates only of overlapping requests; adding ends |
| `handler_relay` | GET, POST with a body of 2 and a bad heading; eight responses: bodies of 0 and 2 tokens, a length without a body, chunked, with the bytes of an end inside the body or behind the heading, neither length nor body | links and lifetime, order, nothing lost, complete responses but for a false end, an element filled as `CashStream` says; hang-ups and whole responses end the thread |
| `handler_stranded` | the same | the second finding below |
| `server_threads` | 3 connections, 4 descriptors | ownership of sockets and arguments, the mutex, leaks; every connect is served |
| `pro31_pages` | 2 slots, 3 entries, pages of 2 tokens, reads and writes of 2; 3 users, one title with and without a Range heading, the third asks only while nobody was reset, no step after the second reset; or 5 users and 2 titles, the index once round the cache while the first user reads | slots and entries match, readers have a page, descriptors; order, whole pages, no page without an owner |
| `pro_pages` | 2 clients, 2 entries, 3 titles, pages of 2 tokens, reads of 2, 2 users, 3 connects, 1 repeated request | counts and descriptors, pages of one title, order, owners; whole pages stay |
| `pro_letgo` | the same with 1 entry and 2 titles | whoever has its page is let go |
| `threadlabs_all` | a chain of 3 mutexes, rings of 2 and 3, 10 lines; 4 threads, rounds of 6 terms, 3 rounds; 5 philosophers, 4 dishes | turns; destruction comes too early only for each party's last post or wait; the same last round, terms that are a prefix; neighbours apart, dishes once; those with turns end, a signal ends the rounds, all philosophers finish |
| `listlabs_all` | lab17work: lines of length 0, 2 or 3, at most 4; the others: 3 lines of length 1 to 3, with and without the newline and the empty line at the end, pieces of 2, two ticks a character, threads late by one tick | the list stays whole and sorted, what an old head misses; every line once, in order where lengths differ enough, freed once; sorts and programs end |
| `mtk_all` | expressions two operations deep and the sources' examples; statements nested twice, every expression two operations deep | no type error, labels that lead somewhere; programs and expressions keep their meaning |

Why the bounds are enough.  In `CashElement` a reader interacts with the writer and,
through the subscribers' mutex and the count, with other readers: two readers give
each of these.  With writes of at most 2 bytes, 2 bytes reach both branches of the
sizing (below the limit and at it), and an append can come between any two of
the reads; beyond that the theorems of section 4 hold for every length.  In `Cash` a
stale lookup needs one thread that asks, one that evicts and one that added; two
headings are enough for a wrong answer.  In `Handler` there are always two peers; a
body of two tokens is the least that arrives in three ways (with the heading, in
one piece, in two), and the eight responses are one of each kind that the code's tests tell apart,
with a false end in each place it can have.  In `Server` three connections compete for four descriptors, so
they run out with users alone plus one server.  In `Pro31` two slots have an owner
and a reader, the third user takes the place of one that left and can be an heir's
reader; a page of two tokens ends with its heading, at its length or with the
connection, and arrives in one read or two.  The run is two in one: `OnePage` of `MCPro31` has three
users who ask for one page, and stops at the second peer that resets its connection, since one
reset already races with every visit of an owner and a reader; `Reuse` has the four downloads it takes to go from one entry round
a cache of three (`CacheSize` is more than `MaxClients`, as in the code) to the same entry, while its
first user downloads or reads, and a fifth user who may find what became of it.  The theorems of section 4
have no such bound.  In `Pro` pages of two tokens come in one read or in two, and end with the heading, at
their length, or never; two users are an owner and a reader; the third of three titles finds the cache of two entries full of pages in use, and one repeated
request is what leads a server astray.  `LetGo` needs the least: a cache of one entry is always the one in
use.  The rings and chains have cycles of three,
and the code's own number of lines (10).  In `Barrier` four threads over chunks of six
terms make the chunk no multiple of the stride, as in the code with 1000000 and
an odd number of threads.  `Philosophers` has the code's five; four dishes make the
last dish, the loop's end and an empty table all reachable.  `SortedList` needs three
nodes for a swap in the middle and has four, with equal and different lines and
the blank line that asks for printing.  In `SleepSort` lines of one to three characters in
pieces of two end in a full piece, a part of one, or a second piece, and lines
of length one and three may not swap while neighbours may.  In `Nemo` every statement stands
inside every other, and of the sources' own examples `test1.nm`, with a smaller bound, runs
to its end while `test0.nm` is cut off (see Departures); in `Algebra` two
operations are what every rule of the labs looks at.

### Fairness

* `CashElement`: the writer's own steps and each reader's steps are weakly fair
  (threads are scheduled).  Nothing says that the server sends or closes.
* `Cash`: each thread's steps inside `addStringToCash` are weakly fair; the mutex is only
  held by a thread that goes on by itself.
* `Handler`: the thread is weakly fair, and `Poll(Clients)` strongly: a socket whose
  peer reads becomes writable again and again.  Nothing is assumed of what peers send or when
  they close, nor that a thread in `getFromCash` comes back (`FromCash` is not fair): the reader
  it is there may wait for ever in `pthread_cond_wait`, as `element_released` shows.
* `Server`: the main thread once it has accepted, reading the argument and finishing a connect
  (the kernel's timeouts) are weakly fair, taking the mutex strongly fair, since POSIX mutexes
  promise no queue but the threads compete for it finitely often.
* `ThreadLabs`: each party of a ring is weakly fair.  In the chain both threads are weakly fair,
  and the child's first lock strongly fair, because main sleeps between its attempts.
  With the condition variable steps are weakly fair, locks strongly fair; no fairness on
  spurious wakeups, so the properties do not rest on them.
  Threads and main of the series, the barrier's releases and philosophers are weakly fair;
  nothing makes SIGINT come.
* `ListLabs`: the sorter weakly fair, main's lock strongly fair, as the sorter sleeps
  between passes, and main's other steps weakly fair but for the user's typing; main of the other
  programs, the threads and the clock weakly fair.
* `Pro`: the loop weakly fair, as the process runs; nothing is assumed of peers, so `LetGo`
  excepts the user who takes nothing.
* `Mtk` has none: each of its programs is a computation whose steps are counted.
* `Pro31` has none: its run is about safety, its state space being too large for
  liveness.  `FoundIsServed` states the part of "whoever finds a page is served" that is a
  matter of state: a page that is not whole has an owner.

### Findings

Two runs show code and documentation apart.  lab32proxy's `README.md` promises
"an adequate reaction to the disconnection of the client or the server" (line 4).

`element_released`: a
reader that has read "server connected" and is not yet waiting misses the only signal
of the disconnect, because signals are sent without its mutex, and waits for ever with
its user's connection.  `ReachedAreReleased` shows that these are the only ones.

`handler_stranded`: a server that hangs up before the request was sent leaves its user in the list,
writable, with a request that can no longer be passed on and no response to come.  Neither branch of
`HandlerOneClientImpl.cpp:154-157` takes it, so each poll returns at once and the thread turns without
doing anything until the user goes; line 6 of the same `README.md` promises that there are no idle loops.
`HangUpsEnd` shows that this state, `Stranded`, is the only one in which a server's going does not end
the thread.

### Departures

What else the code does that a reader might not expect.  The models do the same, and
the properties are stated around it.

lab32proxy:

* The end of a chunked body is looked for in what is not sent yet (`BufferImpl.cpp:129`).  When
  it arrives in two reads with a write in between it is never seen, and the thread waits
  for the server to close; `EndMissed` is the exception in `AnsweredEnds`.
* The same search finds those bytes wherever they are (`:103`, `:129`, `ParserImpl.cpp:60-69`): behind a
  heading whose last line ends in 0, or inside the body.  The thread then takes the response for whole
  and ends with the rest unread; `Enough` in `CompleteUnlessClosed` says so.  A response with neither a
  length nor a body of that form (204, 304, the answer to a HEAD) is passed on, and the thread then waits
  for the server to close (`SaysItsEnd` in `AnsweredEnds`).
* A poll that fails leaves the loop at once (`HandlerOneClientImpl.cpp:10-14`): the sockets stay open, the
  element the thread was filling goes on saying that its server is connected, and the one it
  read from goes on counting it.  `ElementReleased` speaks of threads that come to their end, and
  `unpolled` is an exception in `LeakOnlyByFailure`.
* While a thread serves from the cache (`getFromCash`) nobody watches the user's socket: a user who goes
  is noticed by a failing write only (`UserHangUpNoticed` excepts `pc = "cash"`).
* An element is listed before it is declared connected (`BufferImpl.cpp:76-82`): who joins in
  between leaves with what there is.  `CashStream` calls such a reader `early`.
* Evicting reads the count of users without the element's mutex (`CashImpl.cpp:32`) and erases three
  lines below: whoever found the element before may count itself in between (`BufferImpl.cpp:33`), and is
  served from an element that is no longer in the list.  `EvictsOnlyUncounted` names these threads.
* Evicting takes an element from the list and never frees it (`CashImpl.cpp:35`), and an
  element that is being downloaded counts as unused until somebody joins (`:32`).
* A download that broke off stays in the list and is served like a whole one
  (`HandlerOneClientImpl.cpp:241`).
* A heading that cannot be parsed is logged and never answered (`:95-97`).
* A hang-up is handled before the data reported with it, so what was sent and not yet read
  is dropped (`:62`); `NothingLost` speaks of peers that stay.
* A second request sent behind the first can connect again and push a third client for a poll set
  of two (`HandlerOneClientImpl.h:45`); not modelled.
* The exception of a failing `accept` is thrown by value and caught by pointer: it ends the
  process (`NewServerImpl.cpp:27`).  Arguments of finished threads are never removed (`:11`).

pro:

* A second request of a user during its download leaves the first server's descriptor open
  and its page DOWNLOADING, or goes on with the bytes of one page in the other; the
  properties of servers and pages speak of the time before (`astray`).
* A full cache gives its oldest entry to a new page whoever uses it (`pro.c:622-632`).  Who reads it goes on
  at its count of sent bytes with the new page (`misled` in `InOrder`); a download that still goes
  on there writes to the same page (`mixed` in `PagesPure` and `WholeStays`); and when the owner of one
  of two such downloads leaves, the other is disconnected with it and its server's descriptor stays in the
  slot for whoever gets it next (`astray`).
* A page that is CLEAN can still be found in the pass that marked it.
* The length taken from a Range heading stays for the next request without one.
* The server's FIN does not end a page; its POLLHUP does, whole or not, and a page cut
  short is then served as whole.
* A write blocks: a user who takes nothing stops all the others (`SomeoneStill`).
* An accept that fails is counted as a client for ever (`refused`).  A refused connect is not
  noticed, and writing the request raises SIGPIPE.

pro31:

* Whoever takes a download over goes on from the count of sent bytes of the owner that left
  (`pro31.c:584-589`), so it may miss bytes or get some twice; `InOrder` excludes these heirs.
  The property cleared at `:583` is that of the entry with the number of the slot.
* Whoever leaves marks the page it read EMPTY (`:604`), so that other readers, and later ones, are never let
  go; `FoundIsServed` holds while nobody leaves early.
* A full cache gives its oldest entry to a new page whoever uses it (`:694-718`), as in pro: its readers go on
  with the new page, a download that goes on there writes to the same page, and those who find it
  later get both (`misled`, `mixed`).  `InOrder` and `ServedWhole` except these users, `Downloads`, `Pages`
  and `Readers` these entries.  When one of two owners of a mixed page leaves, its server is handed
  to the other, whose own server's descriptor is then lost; `LeakOnlyByHangUp` counts it.
* When a server fails while others read its page, its owner is disconnected once per reader
  and the entry then freed is `cache[-1]` (`:828-845`): `free` gets a bad pointer.
  `FreeOnlyAfterReset` says that nothing else leads there.
* A hang-up of the user forgets its server without closing it and leaves the entry
  DOWNLOADING (`:812-818`); `LeakOnlyByHangUp` bounds the loss.
* A read that ends with the empty line after the heading ends the page if no length is
  known (`:430-438`).  When the server closes, the owner is disconnected whatever it has been sent
  so far (`:871-880`); `ServedWhole` speaks of those who only read.
* A refused connect is not noticed (`error < -1`, `:112`), and writing the request raises SIGPIPE.
  A failing `accept` leaves -1 in a slot for good (`:169`).

lab23, lab6 and lab3:

* Input that ends without an empty line gives `MAX_LINES` lines, the rest of them what was left
  in the buffer; and a last line without newline that fills its pieces gets what realloc
  left there behind it.
* In lab6 and lab3 a thread reads its argument after main may have changed or left it.
* In lab23 an id whose creation failed is joined although it was never written.
* The order is that of the lengths only as far as threads are on time: with `Delay` 1, lines whose
  lengths differ by one may swap (`Sorted`).

nemo:

* The exploration steps all configurations as long as one is not at the end, and one that is over
  before the others is taken for an error (`vnemo_run.flow:215`): programs whose runs differ in
  length, like `test0.nm` or a bare loop, are cut off.  `MeaningKept` speaks of those that are not.
* `%` is parsed, passes the type check and evaluates to 0.  A negative index, or a division by
  0, stops the process; a negative index of an update leaves the array as it is.
* Two declarations of a name are an error although the last one is used.

MTK block2:

* lab6 keeps one cell for a stack (`lab6.flow`), so its result is right only when every right
  operand is a number: its own example `((2+3)*(5+6))` gives 0.
* lab7 forgets a division by zero above it, `1/(1/0)` is 0, and `0/0` stops the program.
* `simplify` of lab8 is not idempotent: `0-(-x)` becomes `-(-x)`.
* lab9 stops on any expression with a part that vanishes, like `x - x`.  Whether a quotient
  cancels to a number depends on the sign its common divisor happens to have.
* lab10 rewrites the operands first, and `(x + y)` becomes `(y + x)`: rules with `(x + y)` are never
  used, and `(x - y) * (x + y)` becomes 1 by the rule behind its own.

## 4. Proofs

Eight modules hold proofs.  Each theorem holds for every value of the constants that satisfies the
named assumption of its module (`ElementAssumption`, `CashAssumption`, ...), which only says what
the numbers and names are.

| module | theorem | says |
|---|---|---|
| `CashElementProofs` | `Invariance`, `TypeCorrect` | `Spec => []IInv`; the types |
| | `SignalsAreSafe` | only living condition variables are signalled |
| | `DeliveryInOrder` | what a reader sent is its offset, within what was appended |
| | `DrainFits` | what is copied fits the string it is copied into |
| | `DrainedIsWhole`, `DrainedIsComplete` | who leaves with all sent has the whole response, and who has less left for a reason |
| | `CountIsExact` | the count of users is the number of readers that counted themselves |
| | `ElementImplementsStream` | every behaviour of `CashElement` is one of `CashStream` |
| `CashProofs` | `InvHolds` | any number of requests: distinct elements, exact counts, the mutex, the response that was asked for |
| | `CrashExplained` | a lookup returns NULL after a hit only if an eviction came between its two halves |
| | `DuplicatesExplained` | two elements have one heading only if both threads had looked again before either added |
| | `EvictionExplained` | no step takes an element from the list without the mutex, or from somebody who is served from it unless that thread counted itself between the reading of the count and `erase` |
| `HandlerProofs` | `InvHolds` | any responses and any cut into reads and writes: links, one deletion of the buffer, one connection, order, the element given back by every thread that comes to its end |
| | `NothingLostHolds` | while both peers stay, what was passed on, what is buffered and what is unread make up what was sent |
| | `CompleteHolds` | a thread that ends although nobody closed has given an answered user the whole response or, of one without a length, all up to bytes that look like an end |
| | `FillsHolds` | the thread opens, grows and closes its element only as `CashStream` allows |
| `ServerProofs` | `InvHolds` | any number of users and descriptors: sockets and arguments have the right reader in time, the mutex goes with connecting, descriptors are lost only where a call failed |
| `ThreadLabsProofs` | `InvHolds` | any number of lines, and of mutexes in lab11: one turn, destruction too early only for last posts and waits, no failing call before the end, no lost signal |
| | `TurnsHold` | all five programs with turns implement `Turns` |
| | `WorkSharedHolds` | any number of threads and terms in lab9: the same last round, a prefix of the series; any number of philosophers and dishes in lab10: neighbours apart, dishes once |
| `ListLabsProofs` | `ListsWhole` | any lines and any number of them in lab17work: the list has every node once outside a pass and is sorted when the mutex is unlocked; any input, number of lines, size of buffer, factor and delay in the others: lines are counted up to the empty one and kept whole, and so is the list of lab23 |
| | `PrintedFromOldHead` | a print that began at an old head repeats nothing and misses only lines that are not greater than those it shows |
| | `LinesSorted` | lines come in the order of their lengths up to twice the delay |
| | `LinesPrintedOnce` | every line with a thread is printed exactly once, unless a thread read its argument when main was gone, or lab23 could not create one |
| `Pro31Proofs` | `InvHolds` | any number of slots, entries, titles and users: slots and descriptors match, pages are unique, their own unless mixed, and not freed while read, servers are lost only by hang-ups and with mixed pages, `free` fails only after a reset |
| | `InOrderHolds` | a user gets the tokens of its page once and in order, unless it was handed a download or its entry was given to another page |
| | `ServedWholeHolds` | who is let go after reading from the cache has the page as it stays, with the same exceptions |
| | `FoundIsServedHolds` | while nobody leaves early, a page that is found is whole or being downloaded |
| `ProProofs` | `InvHolds` | any number of slots, entries, users, downloads, titles and tokens: until a server goes astray the count of clients is exact, no descriptor is forgotten and every page that can be found is whole, about to be freed, or has an owner who fills it; a page that is not mixed is its own from the first token on, and users who are not misled have it in order |
| | `WholeStaysHolds` | no step changes a page that may have been served as whole, with the same exceptions |

`TypeCorrect`, `DeliveryInOrder` and `DrainedIsWhole` state parts of `IInv`, or of what
follows from it, that no run names by itself; the others state a property of a run.

### The invariants

None of the properties is inductive.  What each proof adds, and why:

**CashElement.**  `LockInv` says what `subsLocked` and `toSignal` are by where the writer is,
and that whoever is still to be signalled is subscribed: without it a reader between
unsubscribing and destroying its condition variable could be in `toSignal`.
`WriterInv` has the flags and the length by where the writer is: nothing is appended after the
disconnect.  `OffsetInv`: what a reader sent is its offset plus what the current round sent
and has not yet accounted for.  `DrainInv`: a reader that has seen the server gone, or all of
the download, has seen the last length there will be, so an empty remainder means the
end.  The proof of each part has a step per action; `ReaderFrame` says once what a step of
one reader leaves alone of the others, and `CountIsExact` is proved on top of the types with
the library's facts on cardinality.  The refinement is split into stuttering, the writer's steps
and the readers' steps, and `IInv` supplies what `CashStream`'s guards ask.

**Cash.**  `IInv` is `Inv` with the two properties about crashes and duplicates.  The parts a test
would not name are what a thread still knows between two critical sections:
`SeenOrEvicted` (an element it saw is in the list or was evicted since) and `RecheckedSince` (an
element that came after its second look is in `overlap`).  `MutexHeld` says that the thread inside
`addStringToCash` has the mutex, `AddedOnce` that nothing in the list is still to be added.
`ErasesWhatItRead` carries the eviction over the gap between count and `erase`: the iterator stands on an
element whose users, and those about to count themselves, had all found it before the mutex was taken.

**Handler.**  `Core` is `Inv` without `InOrder`, which follows.  `Links` is who exists: list, links,
watch lists, buffer and element by the place of the thread.  `Course` is how far the one
exchange is: `Positions` says which statuses go with which place, `HangUpsHappened` that a reported hang-up
has happened.  `Flow` is the data: sent, unread, buffered and passed-on tokens of a
direction are consecutive pieces of one sequence (`Spoken`, `RequestFlow`, `HeadingFlow`,
`ResponseFlow`), with the boundary of the heading where the status says; `isEndSend` means that `Enough` of
the response was read, and `Endings` says what a user has who was let go.  `Filling` says
that the element has the pieces already passed on.  The lemmas
about pieces of sequences (`PieceCut` and those after it) carry it, since a read may take any prefix of what
arrived and a write any prefix of what is buffered.

**Server.**  `OwnSock` and `ArgsListed` say who has which socket and whose argument the list
still has; `LeakOnlyByFailure` needs them, since a descriptor that is neither a user's nor
a server's of a running thread must have met a failure.

**ThreadLabs.**  For the rings `Passing` says that one party has the turn, in its semaphore or between
wait and post, and that those before it in the round are a line ahead of those
behind it; `InOrder` is the order of creation, and `Destruction` says who is through by then.  For lab11
`Held` has the owner of each mutex by the place of each thread, `InRow` that a thread has walked a
row of mutexes for each line, and `Apart` that the child follows main and neither laps the
other.  For lab13 `Exclusive`,
`SignalToCome` and `Level` say that whoever waits is owed a signal.  `TurnsHold` follows
from these: a line is printed only by the party that has the turn.

For lab9 `Together` says that all threads are in the same half of a round, `Agreed` and
`Rounds` that they decide alike and are in the same round, and `Terms` that a thread stands on the
first of its terms behind the rounds it has done; the sum is a prefix because every number is some thread's.
For lab10 `ForksHeld` has the forks by the place of who took them, `DishesApart` that every dish taken from the
table is before one philosopher or eaten.

**ListLabs.**  For lab17work the walk along the links says nothing of how the nodes lie while two of
them change places.  `SortCore` says instead that there is an order `o` of all nodes, a function from
places to nodes, which the links follow (`Chain`), and where the sorter is in it (`PassAt`): step `j`
of pass `i` stands before place `j - 1`, which has the greatest of the lines up to it, and the
last `i - 1` places are `Settled`: sorted, and not smaller than anything before them.  `PrintAt` has
what main has printed: a piece of the order that begins at the first place, or anywhere when the
whole list is settled.  `ChainWalk` then says that walking the links gives `o`, the one place where the
recursive walk of the model is looked at; `StepOrders` is the swap.  For the other three programs `SleepCore` has which
threads there are and what they work for (`Workers`), when they wake and how late they act (`Times`: who holds
the mutex is no later than `Delay`, because the clock waits for it), what has been written (`Written`),
how far main is in reading (`Reads`), and, as long as the list is not freed, an order of the threads that have
appended their line, in which nobody is behind one who woke more than `Delay` later (`Queue`).
`finishedNode` is the last of them, or the last but one between an insertion and its move.  TLC
checked both invariants before they were proved.

**Pro31.**  `IInv` is `Inv`, said of one slot at a time (`Apart`, `Leak`), with the other three
properties, and is proved with one lemma per visit on top of `Going`, which says once what the end of
a visit does to slots and index.  No hypothesis bounds users or downloads: the cache comes round, and
a download takes the place of the oldest page although it may still be read or written
(`pro31.c:694-718` looks at nobody).  The parts about pages hold per entry and per user, for the entries that
are not `mixed` and the users who are not `misled`; what they rest on is that whoever uses
a mixed entry is misled (`Readers`), and that a new page's title is in no other entry, since the search
has just missed it (`Pages`), so that reuse never makes a title appear twice.  `Leak` holds because each
step that forgets a server disconnects a user who was reset, or who leaves a mixed page.  `HandsOver`, which clears
the property of an unrelated entry (`:583`), is why no part says that an entry that is being read is
DOWNLOADING or DOWNLOADED: only `Patient` behaviours, where nobody hands anything over, have it.

**Pro.**  `IInv` is `Inv`, with `CountIsExact` said of one descriptor at a time (`Counted`), and what
the arrays of `pro.c` rely on and no line of it says.  `Clients`: a slot in use has an open
descriptor of its own, a server of its own or none, and has been sent no more than its page holds unless
its user is misled.  `Owners`: a slot with a server has a page that is still in the cache, and no two such
slots the same one unless it is mixed; if it is not, `Downloads` holds: the page is DOWNLOADING, has the title
its server was asked for, and holds exactly what the server said and the socket no longer has.  That is
why the tokens of a page are numbered from 1 without a gap, and why a page that was taken for whole,
which nobody downloads any more, does not grow.  A mixed entry may be DOWNLOADED while another
download goes on there, but is never EMPTY or CLEAN with an owner left, because `DropsDownload` takes
all owners of the page along; one of those may still have a server, which is the second way for
a server to go astray, and `Owners` is stated, like the properties, of the time before.  `Speech`
bounds what servers say, hence `Len(page) <= Length` in `PagesPure`.  `Visiting` says that the loop stands at a
client that is there, also between the three steps of a visit, when peers act.  `Allocated` says that the
cache is full from the first download on, so that every entry is found.  Nothing bounds the
downloads; a new page leaves an entry with the same title nowhere, because the search has just missed it.
The steps of a visit are lemmas
of their own, and what several share is proved once: `Same` and `Kept` (a step that
leaves a client's page and a server alone), `Depart` (a client leaves), `ConnectsTo` and `Owning` (a
download begins), `PageGrows` and `Loading` (it goes on).
TLC checked `IInv` on the instance of `pro_pages` before it was proved.

What the attempts to prove showed of the models: several `CASE` expressions had guards that
overlap, which TLC resolves by taking the first and the logic leaves open; they are
`IF` and `ELSE` in the order of the code now.  `ServedWhole` of `Pro31` and the type invariants of
`Handler` and `Pro31` were weaker than what the code keeps, and are stronger now.  The type invariant
of `Pro` bounded the count of sent bytes by the number of repeated requests, that is, by how several
responses may mix in one page.  It is a type only now; the bound that matters is that of a page of
one response, which `PagesPure` states in its place.

### Only model-checked

* Liveness (`NoBusyLoop`, `ReachedAreReleased`, `AddEnds`, `HangUpsEnd`, `AnsweredEnds`,
  `LockServed`, `Ends`, `LetGo`, ...): neither fairness nor `ENABLED` is within the
  prover's reach.
* `Inv` and `MeaningKept` of `Mtk`, with `Nemo` and `Algebra`: their trees need RECURSIVE
  operators, and what these compute for every tree needs induction over data.

## 5. Plan

Done, in this order: `CashStream` and `CashElement` with their proofs, `Cash`, `Handler`,
`Server`, the labs, `Pro31`, `SleepSort`, `Pro`, `Nemo`, `Algebra`, the chunked end in two
tokens, `Handler` against `CashStream`; then the proofs of `Cash`, `Server`, `Handler`,
`ThreadLabs`, `Pro31`, `ListLabs` and `Pro`; then the gap in eviction, responses of any form and
polls that fail in lab32proxy, and the reuse of entries in use in `Pro` and `Pro31`, with their proofs.
Left: a second request on a connection of lab32proxy, whose third client no longer fits its poll
set, and of pro31.
