-------------------------- MODULE ThreadLabsProofs --------------------------
(***************************************************************************)
(* What module ThreadLabs claims of the exercises with turns, for any      *)
(* number of lines, any number of mutexes in lab11.c and, before its rings *)
(* are taken as they are, for a ring of any size; and of those that share  *)
(* out work, for any number of threads and rounds of lab9.c and any number *)
(* of philosophers and dishes of lab10.c.                                  *)
(***************************************************************************)
EXTENDS ThreadLabs, TLAPS

-----------------------------------------------------------------------------
(* lab14.c, lab14,2.c, lab16.c: rings of semaphores. *)

R(N, Main, Destroyer) == INSTANCE SemRing

\* A ring of two parties or more; main is one of them, and perhaps the
\* destroyer.
IsRing(n, m, d) == n \in Nat /\ n >= 2 /\ m \in 0 .. n - 1 /\ d \in Nat

RingCore(n, m, d) ==
    /\ R(n, m, d)!TypeOK /\ R(n, m, d)!Passing /\ R(n, m, d)!Rounds
    /\ R(n, m, d)!InOrder /\ R(n, m, d)!Destruction

\* The place of a party in the round: the last one begins.
LEMMA RingPlace ==
    ASSUME NEW n \in Nat, NEW m, NEW d, n >= 2, NEW p \in 0 .. n - 1
    PROVE  /\ R(n, m, d)!Ring!Place(p) = IF p = n - 1 THEN 0 ELSE p + 1
           /\ R(n, m, d)!Up(p) = IF p = n - 1 THEN 0 ELSE p + 1
<1>1. (p + n) - (n - 1) = p + 1 /\ p + 1 \in 1 .. n
  OBVIOUS
<1>2. (p + 1) % n = IF p = n - 1 THEN 0 ELSE p + 1
  BY <1>1
<1>3. QED
  BY <1>1, <1>2 DEF R!Ring!Place, R!Up

\* A party that has the turn is the only one; the ring then holds one turn.
LEMMA RingInv ==
    ASSUME NEW n, NEW m, NEW d, IsRing(n, m, d), Lines \in Nat, Lines >= 1, RingCore(n, m, d)
    PROVE  R(n, m, d)!Inv
<1> USE DEF IsRing, R!Parties
<1>1. R(n, m, d)!OneTurn
  <2> SUFFICES ASSUME ~R(n, m, d)!Exited
               PROVE  /\ \E h \in 0 .. n - 1 :
                             {R(n, m, d)!Holders, R(n, m, d)!Unclaimed} = {{}, {h}}
                      /\ \A s \in R(n, m, d)!Unclaimed : sem[s] = 1
    BY DEF R!OneTurn
  <2>1. PICK h \in 0 .. n - 1 : R(n, m, d)!HasTurn(h)
    BY DEF RingCore, R!Passing
  <2>3. CASE pc[h] \in {"print", "post"}
    <3>1. R(n, m, d)!Holders = {h} /\ R(n, m, d)!Unclaimed = {}
      BY <2>1, <2>3 DEF R!HasTurn, R!Holders, R!Unclaimed
    <3>2. QED
      BY <3>1
  <2>4. CASE pc[h] \notin {"print", "post"}
    <3>1. R(n, m, d)!Holders = {} /\ R(n, m, d)!Unclaimed = {h} /\ sem[h] = 1
      BY <2>1, <2>4 DEF R!HasTurn, R!Holders, R!Unclaimed
    <3>2. QED
      BY <3>1
  <2>5. QED
    BY <2>3, <2>4
<1>2. R(n, m, d)!MisusedLastOnly
  <2> SUFFICES ASSUME misused # {}, NEW s \in 0 .. n - 1 PROVE printed[s] >= Lines - 1
    BY DEF R!MisusedLastOnly
  <2>1. ~R(n, m, d)!Exited /\ d \in 0 .. n - 1 /\ pc[d] = "end" /\ printed[d] = Lines
    BY DEF RingCore, R!Destruction, R!Rounds
  <2>2. PICK h \in 0 .. n - 1 : R(n, m, d)!HasTurn(h)
    BY <2>1 DEF RingCore, R!Passing
  <2>3. printed[s] \in Nat /\ printed[h] \in Nat
    BY DEF RingCore, R!TypeOK
  <2>4. R(n, m, d)!Ahead(s, h) \in 0 .. 1 /\ R(n, m, d)!Ahead(d, h) \in 0 .. 1
    BY DEF R!Ahead
  <2>5. d # h => printed[d] + (IF pc[h] = "post" THEN 1 ELSE 0) = printed[h] + R(n, m, d)!Ahead(d, h)
    BY <2>1, <2>2 DEF R!HasTurn
  <2>6. s # h => printed[s] + (IF pc[h] = "post" THEN 1 ELSE 0) = printed[h] + R(n, m, d)!Ahead(s, h)
    BY <2>2 DEF R!HasTurn
  <2>7. CASE d = h
    BY <2>1, <2>3, <2>4, <2>6, <2>7
  <2>8. CASE d # h /\ s = h
    BY <2>1, <2>3, <2>4, <2>5, <2>8
  <2>9. CASE d # h /\ s # h
    BY <2>1, <2>3, <2>4, <2>5, <2>6, <2>9
  <2>10. QED
    BY <2>7, <2>8, <2>9
<1>3. QED
  BY <1>1, <1>2 DEF RingCore, R!Inv

\* The party before main's first step is the last one, with semaphore one.
LEMMA RingStarts ==
    ASSUME NEW n, NEW m, NEW d, IsRing(n, m, d), Lines \in Nat, Lines >= 1, R(n, m, d)!Init
    PROVE  RingCore(n, m, d)
<1> USE DEF IsRing, R!Parties
<1>1. R(n, m, d)!TypeOK
  BY DEF R!Init, R!TypeOK, R!FirstValue
<1>2. R(n, m, d)!HasTurn(n - 1)
  <2>1. ASSUME NEW q \in 0 .. n - 1, q # n - 1 PROVE R(n, m, d)!Ahead(q, n - 1) = 0
    BY RingPlace DEF R!Ahead
  <2>2. QED
    BY <2>1 DEF R!HasTurn, R!Init, R!FirstValue
<1>3. R(n, m, d)!Passing /\ R(n, m, d)!Rounds /\ R(n, m, d)!InOrder
  BY <1>2 DEF R!Passing, R!Rounds, R!InOrder, R!Init
<1>4. R(n, m, d)!Destruction
  BY DEF R!Destruction, R!Init, R!Exited
<1>5. QED
  BY <1>1, <1>3, <1>4 DEF RingCore
\* A party that is created waits for its semaphore, and nothing else changes.
LEMMA RingCreates ==
    ASSUME NEW n, NEW m, NEW d, IsRing(n, m, d), Lines \in Nat, Lines >= 1,
           RingCore(n, m, d), NEW s \in 0 .. n - 1, R(n, m, d)!Creates(s)
    PROVE  RingCore(n, m, d)'
<1> USE DEF IsRing, R!Parties
<1>1. /\ sem' = sem /\ destroyed' = destroyed /\ printed' = printed /\ misused' = misused
      /\ pc[s] = "new" /\ ~R(n, m, d)!Exited
  BY DEF R!Creates
<1>2. /\ pc' \in [0 .. n - 1 -> {"new", "wait", "print", "post", "end", "exit"}]
      /\ pc'[s] = "wait"
      /\ \A q \in 0 .. n - 1 : q # s => pc'[q] = pc[q]
  <2>1. pc' = [pc EXCEPT ![s] = "wait"]
    <3>1. PICK w : w = IF Lines = 0 THEN "end" ELSE "wait"
      OBVIOUS
    <3>2. w = "wait"
      BY <3>1
    <3>3. pc' = [pc EXCEPT ![s] = w]
      BY <3>1 DEF R!Creates
    <3>4. QED
      BY <3>2, <3>3
  <2>2. QED
    BY <2>1 DEF RingCore, R!TypeOK
<1>3. ~R(n, m, d)!Exited'
  BY <1>1, <1>2 DEF R!Exited
<1>4. R(n, m, d)!TypeOK'
  BY <1>1, <1>2 DEF RingCore, R!TypeOK
<1>5. R(n, m, d)!Passing'
  <2>1. PICK h \in 0 .. n - 1 : R(n, m, d)!HasTurn(h)
    BY <1>1 DEF RingCore, R!Passing
  <2>2. /\ pc'[h] = "post" <=> pc[h] = "post"
        /\ pc'[h] \in {"print", "post"} <=> pc[h] \in {"print", "post"}
    BY <1>1, <1>2
  <2>3. \A q \in 0 .. n - 1 : pc[q] \notin {"print", "post"} => pc'[q] \notin {"print", "post"}
    BY <1>1, <1>2
  <2>4. R(n, m, d)!HasTurn(h)'
    BY <1>1, <2>1, <2>2, <2>3 DEF R!HasTurn, R!Ahead
  <2>5. QED
    BY <2>4 DEF R!Passing
<1>6. R(n, m, d)!Rounds'
  BY <1>1, <1>2 DEF RingCore, R!Rounds
<1>7. R(n, m, d)!InOrder'
  <2> SUFFICES ASSUME NEW u \in 0 .. n - 1, u # m, NEW t \in 0 .. n - 1, pc'[u] = "new",
                      t > u \/ t = m
               PROVE  pc'[t] = "new"
    BY DEF R!InOrder
  <2>1. pc[u] = "new" /\ u # s
    BY <1>2
  <2>2. pc[t] = "new"
    BY <1>1, <2>1 DEF RingCore, R!InOrder
  <2>3. CASE t = s
    <3>1. u \in (0 .. n - 1) \ {s, m}
      BY <2>1
    <3>2. pc[u] # "new"
      BY <2>3, <3>1 DEF R!Creates, R!IsNext
    <3>3. QED
      BY <2>1, <3>2
  <2>4. QED
    BY <1>2, <2>2, <2>3
<1>8. R(n, m, d)!Destruction'
  BY <1>1, <1>2, <1>3 DEF RingCore, R!Destruction
<1>9. QED
  BY <1>4, <1>5, <1>6, <1>7, <1>8 DEF RingCore

\* A creation fails only before the last party runs, and that one would have
\* had the first turn: nobody has used anything.
LEMMA RingCreateFails ==
    ASSUME NEW n, NEW m, NEW d, IsRing(n, m, d), Lines \in Nat, Lines >= 1,
           RingCore(n, m, d), R(n, m, d)!CreateFails
    PROVE  RingCore(n, m, d)'
<1> USE DEF IsRing, R!Parties
<1>1. /\ sem' = sem /\ printed' = printed /\ misused' = misused
      /\ destroyed' \in {{}, {0, 1}}
      /\ pc' = [s \in 0 .. n - 1 |-> "exit"]
      /\ ~R(n, m, d)!Exited
  BY DEF R!CreateFails
<1>2. n - 1 \in 0 .. n - 1 /\ pc[n - 1] = "new"
  <2>1. PICK t \in (0 .. n - 1) \ {m} : pc[t] = "new"
    BY DEF R!CreateFails
  <2>2. CASE t = n - 1
    BY <2>1, <2>2
  <2>3. CASE t # n - 1
    <3>1. n - 1 \in 0 .. n - 1 /\ n - 1 > t
      BY <2>3
    <3>2. QED
      BY <1>1, <2>1, <3>1 DEF RingCore, R!InOrder
  <2>4. QED
    BY <2>2, <2>3
<1>3. misused = {}
  <2> SUFFICES ASSUME misused # {} PROVE FALSE
    OBVIOUS
  <2>1. d \in 0 .. n - 1 /\ pc[d] = "end" /\ printed[d] = Lines /\ printed[n - 1] = 0
    BY <1>2 DEF RingCore, R!Destruction, R!Rounds
  <2>2. PICK h \in 0 .. n - 1 : R(n, m, d)!HasTurn(h)
    BY <1>1 DEF RingCore, R!Passing
  <2>3. d # n - 1
    BY <1>2, <2>1
  <2>4. CASE h = n - 1
    <3>1. R(n, m, d)!Ahead(d, h) = 0
      BY <2>1, <2>3, <2>4, RingPlace DEF R!Ahead
    <3>2. printed[d] + 0 = printed[h] + 0
      BY <1>2, <2>1, <2>2, <2>3, <2>4, <3>1 DEF R!HasTurn
    <3>3. QED
      BY <2>1, <2>4, <3>2
  <2>5. CASE h # n - 1
    <3>1. R(n, m, d)!Ahead(n - 1, h) = 1
      BY <1>2, <2>5, RingPlace DEF R!Ahead
    <3>2. printed[n - 1] + (IF pc[h] = "post" THEN 1 ELSE 0) = printed[h] + 1
      BY <1>2, <2>2, <2>5, <3>1 DEF R!HasTurn
    <3>3. printed[h] \in Nat /\ (pc[h] = "post" => printed[h] > 0)
      BY DEF RingCore, R!TypeOK, R!Rounds
    <3>4. QED
      BY <2>1, <3>2, <3>3
  <2>6. QED
    BY <2>4, <2>5
<1>4. R(n, m, d)!Exited' /\ \A p \in 0 .. n - 1 : pc'[p] = "exit"
  BY <1>1, <1>2 DEF R!Exited
<1>5. R(n, m, d)!TypeOK'
  BY <1>1 DEF RingCore, R!TypeOK
<1>6. R(n, m, d)!Passing' /\ R(n, m, d)!Rounds' /\ R(n, m, d)!InOrder'
  BY <1>4 DEF R!Passing, R!Rounds, R!InOrder
<1>7. R(n, m, d)!Destruction'
  BY <1>1, <1>3, <1>4 DEF R!Destruction
<1>8. QED
  BY <1>5, <1>6, <1>7 DEF RingCore

\* Who gets past its semaphore has the turn: the semaphore of no other is raised.
LEMMA RingWaits ==
    ASSUME NEW n, NEW m, NEW d, IsRing(n, m, d), Lines \in Nat, Lines >= 1,
           RingCore(n, m, d), NEW s \in 0 .. n - 1, R(n, m, d)!Waits(s)
    PROVE  RingCore(n, m, d)'
<1> USE DEF IsRing, R!Parties
<1>1. /\ destroyed' = destroyed /\ printed' = printed /\ pc[s] = "wait" /\ sem[s] > 0
  BY DEF R!Waits, R!Raised
<1>2. /\ pc' \in [0 .. n - 1 -> {"new", "wait", "print", "post", "end", "exit"}]
      /\ pc'[s] = "print"
      /\ \A q \in 0 .. n - 1 : q # s => pc'[q] = pc[q]
  BY DEF R!Waits, RingCore, R!TypeOK
<1>3. ~R(n, m, d)!Exited /\ ~R(n, m, d)!Exited'
  BY <1>1, <1>2 DEF RingCore, R!Exited, R!Destruction
<1>4. R(n, m, d)!HasTurn(s)
  <2>1. PICK h \in 0 .. n - 1 : R(n, m, d)!HasTurn(h)
    BY <1>3 DEF RingCore, R!Passing
  <2>2. h = s
    BY <1>1, <2>1 DEF R!HasTurn
  <2>3. QED
    BY <2>1, <2>2
<1>5. /\ sem' \in [0 .. n - 1 -> Nat] /\ sem'[s] = 0
      /\ \A q \in 0 .. n - 1 : q # s => sem'[q] = sem[q]
  <2>1. sem[s] = 1 /\ sem \in [0 .. n - 1 -> Nat]
    BY <1>1, <1>4 DEF R!HasTurn, RingCore, R!TypeOK
  <2>2. sem' = [sem EXCEPT ![s] = sem[s] - 1]
    BY DEF R!Waits
  <2>3. QED
    BY <2>1, <2>2
<1>6. /\ misused' \subseteq 0 .. n - 1
      /\ misused' # {} => destroyed # {}
  BY DEF R!Waits, R!Uses, RingCore, R!TypeOK, R!Destruction
<1>7. R(n, m, d)!TypeOK'
  BY <1>1, <1>2, <1>5, <1>6 DEF RingCore, R!TypeOK
<1>8. R(n, m, d)!Passing'
  <2>1. R(n, m, d)!HasTurn(s)'
    BY <1>1, <1>2, <1>4, <1>5 DEF R!HasTurn, R!Ahead
  <2>2. QED
    BY <2>1 DEF R!Passing
<1>9. R(n, m, d)!Rounds'
  BY <1>1, <1>2 DEF RingCore, R!Rounds
<1>10. R(n, m, d)!InOrder'
  BY <1>1, <1>2, <1>3 DEF RingCore, R!InOrder
<1>11. R(n, m, d)!Destruction'
  BY <1>1, <1>2, <1>3, <1>6 DEF RingCore, R!Destruction
<1>12. QED
  BY <1>7, <1>8, <1>9, <1>10, <1>11 DEF RingCore
\* Who prints has the turn, and a line left.
LEMMA RingPrinter ==
    ASSUME NEW n, NEW m, NEW d, IsRing(n, m, d), RingCore(n, m, d),
           NEW s \in 0 .. n - 1, pc[s] \in {"print", "post"}
    PROVE  ~R(n, m, d)!Exited /\ R(n, m, d)!HasTurn(s)
<1> USE DEF IsRing, R!Parties
<1>1. ~R(n, m, d)!Exited
  BY DEF RingCore, R!Exited, R!Destruction
<1>2. PICK h \in 0 .. n - 1 : R(n, m, d)!HasTurn(h)
  BY <1>1 DEF RingCore, R!Passing
<1>3. h = s
  BY <1>2 DEF R!HasTurn
<1>4. QED
  BY <1>1, <1>2, <1>3

\* The printer becomes the last of the round, still with the turn.
LEMMA RingPrints ==
    ASSUME NEW n, NEW m, NEW d, IsRing(n, m, d), Lines \in Nat, Lines >= 1,
           RingCore(n, m, d), NEW s \in 0 .. n - 1, R(n, m, d)!Prints(s)
    PROVE  RingCore(n, m, d)'
<1> USE DEF IsRing, R!Parties
<1>1. /\ destroyed' = destroyed /\ sem' = sem /\ misused' = misused /\ pc[s] = "print"
  BY DEF R!Prints
<1>2. /\ pc' \in [0 .. n - 1 -> {"new", "wait", "print", "post", "end", "exit"}]
      /\ pc'[s] = "post"
      /\ \A q \in 0 .. n - 1 : q # s => pc'[q] = pc[q]
  BY DEF R!Prints, RingCore, R!TypeOK
<1>3. PICK k \in Nat : k = printed[s]
  BY DEF RingCore, R!TypeOK
<1>4. /\ printed' \in [0 .. n - 1 -> Nat] /\ printed'[s] = k + 1
      /\ \A q \in 0 .. n - 1 : q # s => printed'[q] = printed[q]
  <2>1. printed' = [printed EXCEPT ![s] = k + 1] /\ printed \in [0 .. n - 1 -> Nat]
    BY <1>3 DEF R!Prints, RingCore, R!TypeOK
  <2>2. QED
    BY <2>1
<1>5. ~R(n, m, d)!Exited /\ R(n, m, d)!HasTurn(s) /\ ~R(n, m, d)!Exited'
  BY <1>1, <1>2, RingPrinter DEF R!Exited, RingCore, R!Destruction
<1>6. k < Lines
  BY <1>1, <1>3 DEF RingCore, R!Rounds
<1>7. R(n, m, d)!TypeOK'
  BY <1>1, <1>2, <1>4 DEF RingCore, R!TypeOK
<1>8. R(n, m, d)!Passing'
  <2>1. ASSUME NEW q \in 0 .. n - 1, q # s PROVE printed[q] + 1 = (k + 1) + R(n, m, d)!Ahead(q, s)
    <3>1. printed[q] + 0 = k + R(n, m, d)!Ahead(q, s) /\ printed[q] \in Nat
      BY <1>1, <1>3, <1>5, <2>1 DEF R!HasTurn, RingCore, R!TypeOK
    <3>2. R(n, m, d)!Ahead(q, s) \in 0 .. 1
      BY DEF R!Ahead
    <3>3. QED
      BY <3>1, <3>2
  <2>2. R(n, m, d)!HasTurn(s)'
    BY <1>1, <1>2, <1>3, <1>4, <1>5, <2>1 DEF R!HasTurn, R!Ahead
  <2>3. QED
    BY <2>2 DEF R!Passing
<1>9. R(n, m, d)!Rounds'
  <2> SUFFICES ASSUME NEW p \in 0 .. n - 1
               PROVE  /\ pc'[p] = "new" => printed'[p] = 0
                      /\ pc'[p] \in {"wait", "print"} => printed'[p] < Lines
                      /\ pc'[p] = "post" => printed'[p] > 0 /\ printed'[p] <= Lines
                      /\ pc'[p] = "end" => printed'[p] = Lines
    BY DEF R!Rounds
  <2>1. CASE p = s
    BY <1>2, <1>4, <1>6, <2>1
  <2>2. CASE p # s
    BY <1>2, <1>4, <2>2 DEF RingCore, R!Rounds
  <2>3. QED
    BY <2>1, <2>2
<1>10. R(n, m, d)!InOrder'
  BY <1>1, <1>2, <1>5 DEF RingCore, R!InOrder
<1>11. R(n, m, d)!Destruction'
  BY <1>1, <1>2, <1>5 DEF RingCore, R!Destruction
<1>12. QED
  BY <1>7, <1>8, <1>9, <1>10, <1>11 DEF RingCore

\* The turn goes to the next party: who was behind the poster still is, and
\* the poster is now ahead.
LEMMA RingPosts ==
    ASSUME NEW n, NEW m, NEW d, IsRing(n, m, d), Lines \in Nat, Lines >= 1,
           RingCore(n, m, d), NEW s \in 0 .. n - 1, R(n, m, d)!Posts(s)
    PROVE  RingCore(n, m, d)'
<1> USE DEF IsRing, R!Parties
<1>1. /\ destroyed' = destroyed /\ printed' = printed /\ pc[s] = "post"
  BY DEF R!Posts
<1>2. ~R(n, m, d)!Exited /\ R(n, m, d)!HasTurn(s)
  BY <1>1, RingPrinter
<1>3. PICK w \in {"wait", "end"} : /\ w = IF printed[s] < Lines THEN "wait" ELSE "end"
                                  /\ pc' = [pc EXCEPT ![s] = w]
  BY DEF R!Posts, R!LinesOf
<1>4. /\ pc' \in [0 .. n - 1 -> {"new", "wait", "print", "post", "end", "exit"}]
      /\ pc'[s] = w
      /\ \A q \in 0 .. n - 1 : q # s => pc'[q] = pc[q]
  BY <1>3 DEF RingCore, R!TypeOK
<1>5. ~R(n, m, d)!Exited'
  BY <1>2, <1>3, <1>4 DEF R!Exited
<1>6. PICK t \in 0 .. n - 1 : t = R(n, m, d)!Up(s) /\ t # s /\ t = IF s = n - 1 THEN 0 ELSE s + 1
  <2>1. R(n, m, d)!Up(s) = IF s = n - 1 THEN 0 ELSE s + 1
    BY RingPlace
  <2>2. QED
    BY <2>1
<1>7. /\ sem' \in [0 .. n - 1 -> Nat] /\ sem'[t] = 1
      /\ \A q \in 0 .. n - 1 : q # t => sem'[q] = 0
  <2>1. sem \in [0 .. n - 1 -> Nat] /\ \A q \in 0 .. n - 1 : sem[q] = 0
    BY <1>1, <1>2 DEF R!HasTurn, RingCore, R!TypeOK
  <2>2. sem' = [sem EXCEPT ![t] = sem[t] + 1]
    BY <1>6 DEF R!Posts, R!PostsTo
  <2>3. QED
    BY <2>1, <2>2
<1>8. /\ misused' \subseteq 0 .. n - 1
      /\ misused' # {} => destroyed # {}
  BY DEF R!Posts, R!Uses, RingCore, R!TypeOK, R!Destruction
<1>9. R(n, m, d)!TypeOK'
  BY <1>1, <1>4, <1>7, <1>8 DEF RingCore, R!TypeOK
<1>10. R(n, m, d)!Passing'
  <2>1. ASSUME NEW q \in 0 .. n - 1, q # t PROVE printed[q] + 0 = printed[t] + R(n, m, d)!Ahead(q, t)
    <3>1. printed[q] \in Nat /\ printed[t] \in Nat /\ printed[s] \in Nat
      BY DEF RingCore, R!TypeOK
    <3>2. printed[t] + 1 = printed[s] + R(n, m, d)!Ahead(t, s)
      BY <1>1, <1>2, <1>6 DEF R!HasTurn
    <3>3. q # s => printed[q] + 1 = printed[s] + R(n, m, d)!Ahead(q, s)
      BY <1>1, <1>2 DEF R!HasTurn
    <3>4. CASE s = n - 2
      <4>1. t = n - 1 /\ R(n, m, d)!Ahead(t, s) = 1 /\ R(n, m, d)!Ahead(q, t) = 0
        BY <1>6, <2>1, <3>4, RingPlace DEF R!Ahead
      <4>2. q # s => R(n, m, d)!Ahead(q, s) = 1
        BY <1>6, <2>1, <3>4, RingPlace DEF R!Ahead
      <4>3. QED
        BY <3>1, <3>2, <3>3, <4>1, <4>2
    <3>5. CASE s # n - 2
      <4>1. R(n, m, d)!Ahead(t, s) = 0 /\ R(n, m, d)!Ahead(s, t) = 1
        BY <1>6, <3>5, RingPlace DEF R!Ahead
      <4>2. q # s => R(n, m, d)!Ahead(q, s) = R(n, m, d)!Ahead(q, t) /\ R(n, m, d)!Ahead(q, t) \in 0 .. 1
        BY <1>6, <2>1, <3>5, RingPlace DEF R!Ahead
      <4>3. CASE q = s
        BY <3>1, <3>2, <4>1, <4>3
      <4>4. CASE q # s
        BY <3>1, <3>2, <3>3, <4>1, <4>2, <4>4
      <4>5. QED
        BY <4>3, <4>4
    <3>6. QED
      BY <3>4, <3>5
  <2>2. \A q \in 0 .. n - 1 : pc'[q] \notin {"print", "post"}
    BY <1>1, <1>2, <1>3, <1>4 DEF R!HasTurn
  <2>3. R(n, m, d)!HasTurn(t)'
    BY <1>1, <1>7, <2>1, <2>2 DEF R!HasTurn, R!Ahead
  <2>4. QED
    BY <2>3 DEF R!Passing
<1>11. R(n, m, d)!Rounds'
  <2> SUFFICES ASSUME NEW p \in 0 .. n - 1
               PROVE  /\ pc'[p] = "new" => printed[p] = 0
                      /\ pc'[p] \in {"wait", "print"} => printed[p] < Lines
                      /\ pc'[p] = "post" => printed[p] > 0 /\ printed[p] <= Lines
                      /\ pc'[p] = "end" => printed[p] = Lines
    BY <1>1 DEF R!Rounds
  <2>1. CASE p = s
    <3>1. printed[s] \in Nat /\ printed[s] <= Lines
      BY <1>1 DEF RingCore, R!TypeOK, R!Rounds
    <3>2. QED
      BY <1>3, <1>4, <2>1, <3>1
  <2>2. CASE p # s
    BY <1>4, <2>2 DEF RingCore, R!Rounds
  <2>3. QED
    BY <2>1, <2>2
<1>12. R(n, m, d)!InOrder'
  BY <1>1, <1>2, <1>3, <1>4, <1>5 DEF RingCore, R!InOrder
<1>13. R(n, m, d)!Destruction'
  <2>1. d # s \/ destroyed = {}
    BY <1>1, <1>2 DEF RingCore, R!Destruction
  <2>2. QED
    BY <1>1, <1>2, <1>4, <1>5, <1>8, <2>1 DEF RingCore, R!Destruction
<1>14. QED
  BY <1>9, <1>10, <1>11, <1>12, <1>13 DEF RingCore

\* The destroyer is through with the ring.
LEMMA RingDestroys ==
    ASSUME NEW n, NEW m, NEW d, IsRing(n, m, d), Lines \in Nat, Lines >= 1,
           RingCore(n, m, d), R(n, m, d)!Destroys
    PROVE  RingCore(n, m, d)'
<1> USE DEF IsRing, R!Parties
<1>1. /\ sem' = sem /\ pc' = pc /\ printed' = printed /\ misused' = misused
      /\ destroyed' = {0, 1} /\ d < n /\ pc[d] = "end" /\ destroyed = {}
  BY DEF R!Destroys, R!MayDestroy
<1>2. R(n, m, d)!Exited' <=> R(n, m, d)!Exited
  BY <1>1 DEF R!Exited
<1>3. R(n, m, d)!TypeOK'
  BY <1>1 DEF RingCore, R!TypeOK
<1>4. R(n, m, d)!Passing'
  <2>1. \A h \in 0 .. n - 1 : R(n, m, d)!HasTurn(h) => R(n, m, d)!HasTurn(h)'
    BY <1>1 DEF R!HasTurn, R!Ahead
  <2>2. QED
    BY <1>2, <2>1 DEF RingCore, R!Passing
<1>5. R(n, m, d)!Rounds' /\ R(n, m, d)!InOrder'
  BY <1>1, <1>2 DEF RingCore, R!Rounds, R!InOrder
<1>6. R(n, m, d)!Destruction'
  <2>1. misused = {}
    BY <1>1 DEF RingCore, R!Destruction
  <2>2. QED
    BY <1>1, <1>2, <2>1 DEF RingCore, R!Destruction
<1>7. QED
  BY <1>3, <1>4, <1>5, <1>6 DEF RingCore

\* Every step of a ring.
LEMMA RingSteps ==
    ASSUME NEW n, NEW m, NEW d, IsRing(n, m, d), Lines \in Nat, Lines >= 1,
           RingCore(n, m, d), R(n, m, d)!Next
    PROVE  RingCore(n, m, d)'
  BY RingCreates, RingCreateFails, RingWaits, RingPrints, RingPosts, RingDestroys
     DEF R!Next, R!Party, R!Parties

\* Every step of a ring prints the line of the party whose turn it is, or none.
LEMMA RingInTurn ==
    ASSUME NEW n, NEW m, NEW d, IsRing(n, m, d), Lines \in Nat, Lines >= 1,
           RingCore(n, m, d), R(n, m, d)!Next
    PROVE  [R(n, m, d)!Ring!Next]_printed
<1> USE DEF IsRing, R!Parties, R!Ring!Parties
<1>1. ASSUME NEW s \in 0 .. n - 1, R(n, m, d)!Prints(s) PROVE R(n, m, d)!Ring!PrintLine(s)
  <2>1. pc[s] = "print" /\ printed' = [printed EXCEPT ![s] = @ + 1]
    BY <1>1 DEF R!Prints
  <2>2. printed[s] < Lines
    BY <2>1 DEF RingCore, R!Rounds
  <2>3. R(n, m, d)!HasTurn(s)
    BY <2>1, RingPrinter
  <2>4. ASSUME NEW q \in 0 .. n - 1
        PROVE  printed[q] = printed[s] +
                   (IF R(n, m, d)!Ring!Place(q) < R(n, m, d)!Ring!Place(s) THEN 1 ELSE 0)
    <3>1. printed[q] \in Nat /\ printed[s] \in Nat
      BY DEF RingCore, R!TypeOK
    <3>2. q # s => printed[q] + 0 = printed[s] + R(n, m, d)!Ahead(q, s)
      BY <2>1, <2>3 DEF R!HasTurn
    <3>3. R(n, m, d)!Ahead(s, s) = 0
      BY RingPlace DEF R!Ahead
    <3>4. printed[q] = printed[s] + R(n, m, d)!Ahead(q, s)
      BY <3>1, <3>2, <3>3
    <3>5. QED
      BY <3>4 DEF R!Ahead
  <2>5. QED
    BY <2>1, <2>2, <2>4 DEF R!Ring!PrintLine, R!Ring!Turn
<1>2. (\E s \in 0 .. n - 1 : R(n, m, d)!Prints(s)) \/ printed' = printed
  BY DEF R!Next, R!Party, R!Creates, R!CreateFails, R!Waits, R!Posts, R!Destroys
<1>3. QED
  BY <1>1, <1>2 DEF R!Ring!Next
-----------------------------------------------------------------------------
(* lab13.c: a condition variable. *)

CondCore ==
    /\ Lab13!TypeOK /\ Lab13!Exclusive /\ Lab13!SignalToCome
    /\ Lab13!Level /\ Lab13!Rounds /\ misused = {}

\* Nobody waits in vain, and the child destroys when the parent is through.
LEMMA CondInv == ASSUME CondCore PROVE Lab13!Inv
<1> USE DEF Lab13!Threads, Lab13!Parent, Lab13!Child
<1>1. Lab13!NoLostWakeup
  BY DEF CondCore, Lab13!SignalToCome, Lab13!NoLostWakeup
<1>2. QED
  BY <1>1 DEF CondCore, Lab13!Inv, Lab13!DestroyedUnneeded

\* Main has not created the child.
LEMMA CondStarts == ASSUME Lines \in Nat, Lines >= 1, Lab13!Init PROVE CondCore
<1> USE DEF Lab13!Threads, Lab13!Parent, Lab13!Child, Lab13!None, Lab13!Init
<1>1. Lab13!TypeOK
  <2>1. pc \in [{0, 1} -> {"create", "new", "lock", "test", "wait", "woken", "print",
                          "signal", "unlock", "destroy", "end"}]
    OBVIOUS
  <2>2. printed \in [{0, 1} -> 0 .. Lines]
    OBVIOUS
  <2>3. QED
    BY <2>1, <2>2 DEF Lab13!TypeOK
<1>2. Lab13!Exclusive /\ Lab13!SignalToCome /\ Lab13!Level
  BY DEF Lab13!Exclusive, Lab13!SignalToCome, Lab13!Level, Lab13!Inside
<1>3. Lab13!Rounds
  BY DEF Lab13!Rounds
<1>4. QED
  BY <1>1, <1>2, <1>3 DEF CondCore

\* Both threads go to the head of their loops.
LEMMA CondCreate == ASSUME Lines \in Nat, Lines >= 1, CondCore, Lab13!Create PROVE CondCore'
<1> USE DEF Lab13!Threads, Lab13!Parent, Lab13!Child
<1>1. /\ mutex' = mutex /\ owner' = owner /\ printed' = printed
      /\ destroyed' = destroyed /\ misused' = misused
      /\ pc[0] = "create"
  BY DEF Lab13!Create
<1>2. pc' = [t \in {0, 1} |-> "lock"]
  <2>1. \A t \in {0, 1} : Lab13!AtTop(t, 0) = "lock"
    BY DEF Lab13!AtTop
  <2>2. pc' = [t \in {0, 1} |-> Lab13!AtTop(t, 0)]
    BY DEF Lab13!Create
  <2>3. QED
    BY <2>1, <2>2
<1>3. pc[1] = "new" /\ ~destroyed /\ printed = [p \in {0, 1} |-> 0] /\ owner = 0
  BY <1>1 DEF CondCore, Lab13!Rounds
<1>4. Lab13!TypeOK'
  BY <1>1, <1>2 DEF CondCore, Lab13!TypeOK
<1>5. Lab13!Exclusive'
  BY <1>1, <1>2, <1>3 DEF CondCore, Lab13!Exclusive, Lab13!Inside
<1>6. Lab13!SignalToCome' /\ Lab13!Level'
  BY <1>1, <1>2, <1>3 DEF CondCore, Lab13!SignalToCome, Lab13!Level
<1>7. Lab13!Rounds'
  BY <1>1, <1>2, <1>3 DEF Lab13!Rounds
<1>8. QED
  BY <1>1, <1>4, <1>5, <1>6, <1>7 DEF CondCore

\* Main ends the program before any thread uses what it destroys.
LEMMA CondCreateFails == ASSUME CondCore, Lab13!CreateFails PROVE CondCore'
<1> USE DEF Lab13!Threads, Lab13!Parent, Lab13!Child
<1>1. /\ mutex' = mutex /\ owner' = owner /\ printed' = printed
      /\ destroyed' = TRUE /\ misused' = misused /\ pc[0] = "create"
  BY DEF Lab13!CreateFails
<1>2. /\ pc' \in [{0, 1} -> {"create", "new", "lock", "test", "wait", "woken", "print",
                           "signal", "unlock", "destroy", "end"}]
      /\ pc'[0] = "end" /\ pc'[1] = pc[1]
  BY DEF Lab13!CreateFails, Lab13!Goto, CondCore, Lab13!TypeOK
<1>3. pc[1] = "new"
  BY <1>1 DEF CondCore, Lab13!Rounds
<1>4. Lab13!TypeOK'
  BY <1>1, <1>2 DEF CondCore, Lab13!TypeOK
<1>5. Lab13!Exclusive'
  BY <1>1, <1>2, <1>3 DEF CondCore, Lab13!Exclusive, Lab13!Inside
<1>6. Lab13!SignalToCome' /\ Lab13!Level'
  BY <1>1, <1>2, <1>3 DEF CondCore, Lab13!SignalToCome, Lab13!Level
<1>7. Lab13!Rounds'
  BY <1>1, <1>2, <1>3 DEF CondCore, Lab13!Rounds
<1>8. QED
  BY <1>1, <1>4, <1>5, <1>6, <1>7 DEF CondCore

\* Who is in the loop, or destroys, finds the mutex and the condition variable.
LEMMA CondUsable ==
    ASSUME CondCore, NEW t \in {0, 1},
           pc[t] \in {"lock", "test", "wait", "woken", "print", "signal", "unlock", "destroy"}
    PROVE  ~destroyed /\ pc[0] # "create" /\ pc[1] # "new"
<1> USE DEF Lab13!Threads, Lab13!Parent, Lab13!Child
<1>1. ~destroyed
  BY DEF CondCore, Lab13!Rounds
<1>2. QED
  BY <1>1 DEF CondCore, Lab13!Rounds

Places13 == {"create", "new", "lock", "test", "wait", "woken", "print", "signal",
             "unlock", "destroy", "end"}

\* Where a step of one thread leaves it and the other.
LEMMA CondGoes ==
    ASSUME CondCore, NEW t \in {0, 1}, NEW l \in Places13, Lab13!Goto(t, l)
    PROVE  /\ pc' \in [{0, 1} -> Places13]
           /\ pc'[t] = l
           /\ \A u \in {0, 1} : u # t => pc'[u] = pc[u]
  BY DEF Lab13!Goto, CondCore, Lab13!TypeOK, Lab13!Threads, Lab13!Parent, Lab13!Child, Places13
\* Taking the mutex.
LEMMA CondLock == ASSUME CondCore, NEW t \in {0, 1}, Lab13!Lock(t) PROVE CondCore'
<1> USE DEF Lab13!Threads, Lab13!Parent, Lab13!Child, Lab13!None
<1>1. /\ mutex = 2 /\ mutex' = t /\ owner' = owner /\ printed' = printed
      /\ destroyed' = destroyed /\ pc[t] \in {"lock", "woken"} /\ Lab13!Goto(t, "test")
  BY DEF Lab13!Lock, Lab13!AfterLock
<1>2. /\ pc' \in [{0, 1} -> Places13] /\ pc'[t] = "test"
      /\ \A u \in {0, 1} : u # t => pc'[u] = pc[u]
  BY <1>1, CondGoes DEF Places13
<1>3. ~destroyed
  BY <1>1, CondUsable
<1>4. misused' = {}
  BY <1>3 DEF Lab13!Lock, Lab13!Uses, CondCore
<1>5. Lab13!TypeOK'
  BY <1>1, <1>2, <1>4 DEF CondCore, Lab13!TypeOK, Places13
<1>6. Lab13!Exclusive'
  BY <1>1, <1>2 DEF CondCore, Lab13!Exclusive, Lab13!Inside
<1>7. Lab13!SignalToCome' /\ Lab13!Level'
  BY <1>1, <1>2 DEF CondCore, Lab13!SignalToCome, Lab13!Level
<1>8. Lab13!Rounds'
  BY <1>1, <1>2 DEF CondCore, Lab13!Rounds
<1>9. QED
  BY <1>4, <1>5, <1>6, <1>7, <1>8 DEF CondCore

\* Giving the mutex up to wait: it is not the waiter's turn.
LEMMA CondWait == ASSUME CondCore, NEW t \in {0, 1}, Lab13!Wait(t) PROVE CondCore'
<1> USE DEF Lab13!Threads, Lab13!Parent, Lab13!Child, Lab13!None
<1>1. /\ mutex' = 2 /\ owner' = owner /\ printed' = printed /\ owner # t
      /\ destroyed' = destroyed /\ pc[t] = "test" /\ Lab13!Goto(t, "wait")
  BY DEF Lab13!Wait
<1>2. /\ pc' \in [{0, 1} -> Places13] /\ pc'[t] = "wait"
      /\ \A u \in {0, 1} : u # t => pc'[u] = pc[u]
  BY <1>1, CondGoes DEF Places13
<1>3. ~destroyed
  BY <1>1, CondUsable
<1>4. misused' = {}
  BY <1>3 DEF Lab13!Wait, Lab13!Uses, CondCore
<1>5. Lab13!TypeOK'
  BY <1>1, <1>2, <1>4 DEF CondCore, Lab13!TypeOK, Places13
<1>6. Lab13!Exclusive'
  BY <1>1, <1>2 DEF CondCore, Lab13!Exclusive, Lab13!Inside
<1>7. Lab13!SignalToCome' /\ Lab13!Level'
  BY <1>1, <1>2 DEF CondCore, Lab13!SignalToCome, Lab13!Level
<1>8. Lab13!Rounds'
  BY <1>1, <1>2 DEF CondCore, Lab13!Rounds
<1>9. QED
  BY <1>4, <1>5, <1>6, <1>7, <1>8 DEF CondCore

\* A spurious wakeup, and the test of owner.
LEMMA CondTests ==
    ASSUME CondCore, NEW t \in {0, 1}, Lab13!SpuriousWakeup(t) \/ Lab13!Test(t)
    PROVE  CondCore'
<1> USE DEF Lab13!Threads, Lab13!Parent, Lab13!Child
<1>1. /\ mutex' = mutex /\ owner' = owner /\ printed' = printed
      /\ destroyed' = destroyed /\ misused' = misused
  BY DEF Lab13!SpuriousWakeup, Lab13!Test
<1>2. PICK l \in {"woken", "print"} :
          /\ Lab13!Goto(t, l)
          /\ l = "woken" => pc[t] = "wait"
          /\ l = "print" => pc[t] = "test" /\ owner = t
  BY DEF Lab13!SpuriousWakeup, Lab13!Test
<1>3. /\ pc' \in [{0, 1} -> Places13] /\ pc'[t] = l
      /\ \A u \in {0, 1} : u # t => pc'[u] = pc[u]
  BY <1>2, CondGoes DEF Places13
<1>4. Lab13!TypeOK'
  BY <1>1, <1>3 DEF CondCore, Lab13!TypeOK, Places13
<1>5. Lab13!Exclusive'
  BY <1>1, <1>2, <1>3 DEF CondCore, Lab13!Exclusive, Lab13!Inside
<1>6. Lab13!SignalToCome' /\ Lab13!Level'
  BY <1>1, <1>2, <1>3 DEF CondCore, Lab13!SignalToCome, Lab13!Level
<1>7. Lab13!Rounds'
  BY <1>1, <1>2, <1>3 DEF CondCore, Lab13!Rounds
<1>8. QED
  BY <1>1, <1>4, <1>5, <1>6, <1>7 DEF CondCore

\* The line that is printed makes it the other's turn; when it is the child's
\* last one the parent, whose mutex the child has, is through.
LEMMA CondPrints ==
    ASSUME Lines \in Nat, Lines >= 1, CondCore, NEW t \in {0, 1}, Lab13!PrintLine(t)
    PROVE  CondCore'
<1> USE DEF Lab13!Threads, Lab13!Parent, Lab13!Child
<1>1. /\ mutex' = mutex /\ destroyed' = destroyed /\ misused' = misused
      /\ pc[t] = "print" /\ Lab13!Goto(t, "signal")
  BY DEF Lab13!PrintLine, Lab13!Order
<1>2. /\ pc' \in [{0, 1} -> Places13] /\ pc'[t] = "signal"
      /\ \A u \in {0, 1} : u # t => pc'[u] = pc[u]
  BY <1>1, CondGoes DEF Places13
<1>3. /\ ~destroyed /\ pc[0] # "create" /\ pc[1] # "new"
      /\ mutex = t /\ owner = t /\ printed[t] < Lines
  <2>1. /\ ~destroyed /\ pc[0] # "create" /\ pc[1] # "new"
    BY <1>1, CondUsable
  <2>2. QED
    BY <1>1, <2>1 DEF CondCore, Lab13!Exclusive, Lab13!Inside, Lab13!Rounds
<1>4. owner' = 1 - t
  BY <1>3 DEF Lab13!PrintLine, Lab13!NextOwner
<1>5. PICK k \in 0 .. Lines : k = printed[t]
  BY DEF CondCore, Lab13!TypeOK
<1>6. /\ printed' \in [{0, 1} -> 0 .. Lines] /\ printed'[t] = k + 1
      /\ printed'[1 - t] = printed[1 - t] /\ printed[1 - t] \in 0 .. Lines
  <2>1. printed' = [printed EXCEPT ![t] = k + 1] /\ printed \in [{0, 1} -> 0 .. Lines]
    BY <1>5 DEF Lab13!PrintLine, CondCore, Lab13!TypeOK
  <2>2. k + 1 \in 0 .. Lines
    BY <1>3, <1>5
  <2>3. QED
    BY <2>1, <2>2
<1>7. pc[1 - t] \notin {"test", "print", "signal", "unlock", "create", "new"}
  <2>1. pc[1 - t] \notin {"test", "print", "signal", "unlock"}
    BY <1>3 DEF CondCore, Lab13!Exclusive, Lab13!Inside
  <2>2. pc[0] # "new" /\ pc[1] # "create"
    BY DEF CondCore, Lab13!Rounds
  <2>3. QED
    BY <1>3, <2>1, <2>2
<1>8. Lab13!TypeOK'
  BY <1>1, <1>2, <1>4, <1>6 DEF CondCore, Lab13!TypeOK, Places13
<1>9. Lab13!Exclusive'
  BY <1>1, <1>2, <1>3, <1>4, <1>7 DEF CondCore, Lab13!Exclusive, Lab13!Inside
<1>10. Lab13!SignalToCome'
  BY <1>2, <1>4 DEF Lab13!SignalToCome
<1>11. Lab13!Level'
  BY <1>3, <1>4, <1>5, <1>6 DEF CondCore, Lab13!Level
<1>12. Lab13!Rounds'
  <2>1. CASE t = 0
    <3>1. printed[1] = k /\ k < Lines
      BY <1>3, <1>5, <1>6, <2>1 DEF CondCore, Lab13!Level
    <3>2. QED
      BY <1>1, <1>2, <1>3, <1>6, <1>7, <2>1, <3>1 DEF CondCore, Lab13!Rounds
  <2>2. CASE t = 1
    <3>1. printed[0] = k + 1
      BY <1>3, <1>5, <1>6, <2>2 DEF CondCore, Lab13!Level
    <3>2. k + 1 = Lines => pc[0] = "end"
      <4>1. k + 1 = Lines => pc[0] \notin {"lock", "wait", "woken", "destroy"}
        BY <3>1 DEF CondCore, Lab13!Rounds
      <4>2. QED
        BY <1>7, <2>2, <4>1 DEF CondCore, Lab13!TypeOK
    <3>3. QED
      BY <1>1, <1>2, <1>3, <1>6, <1>7, <2>2, <3>1, <3>2 DEF CondCore, Lab13!Rounds
  <2>3. QED
    BY <2>1, <2>2
<1>13. QED
  BY <1>1, <1>8, <1>9, <1>10, <1>11, <1>12 DEF CondCore
\* The signal wakes whoever waits.
LEMMA CondSignals == ASSUME CondCore, NEW t \in {0, 1}, Lab13!Signal(t) PROVE CondCore'
<1> USE DEF Lab13!Threads, Lab13!Parent, Lab13!Child
<1>1. /\ mutex' = mutex /\ owner' = owner /\ printed' = printed
      /\ destroyed' = destroyed /\ pc[t] = "signal"
  BY DEF Lab13!Signal
<1>2. Lab13!After(t, "signal") = "unlock"
  BY DEF Lab13!After, Lab13!Order
<1>3. pc' = [u \in {0, 1} |-> IF u = t THEN "unlock" ELSE IF pc[u] = "wait" THEN "woken" ELSE pc[u]]
  BY <1>2 DEF Lab13!Signal, Lab13!Signalled
<1>4. /\ pc' \in [{0, 1} -> Places13] /\ pc'[t] = "unlock"
      /\ \A u \in {0, 1} : /\ u # t => pc'[u] = pc[u] \/ (pc[u] = "wait" /\ pc'[u] = "woken")
                           /\ pc'[u] # "wait"
  BY <1>3 DEF CondCore, Lab13!TypeOK, Places13
<1>5. ~destroyed
  BY <1>1, CondUsable
<1>6. misused' = {}
  BY <1>5 DEF Lab13!Signal, Lab13!Uses, CondCore
<1>7. Lab13!TypeOK'
  BY <1>1, <1>4, <1>6 DEF CondCore, Lab13!TypeOK, Places13
<1>8. Lab13!Exclusive'
  BY <1>1, <1>4 DEF CondCore, Lab13!Exclusive, Lab13!Inside
<1>9. Lab13!SignalToCome' /\ Lab13!Level'
  BY <1>1, <1>4 DEF CondCore, Lab13!SignalToCome, Lab13!Level
<1>10. Lab13!Rounds'
  BY <1>1, <1>4, <1>5 DEF CondCore, Lab13!Rounds
<1>11. QED
  BY <1>6, <1>7, <1>8, <1>9, <1>10 DEF CondCore

\* The thread goes on to its next round or is through; nobody waits whose turn
\* it is.
LEMMA CondUnlocks ==
    ASSUME Lines \in Nat, Lines >= 1, CondCore, NEW t \in {0, 1}, Lab13!Unlock(t)
    PROVE  CondCore'
<1> USE DEF Lab13!Threads, Lab13!Parent, Lab13!Child, Lab13!None
<1>1. /\ mutex' = 2 /\ owner' = owner /\ printed' = printed
      /\ destroyed' = destroyed /\ pc[t] = "unlock"
  BY DEF Lab13!Unlock
<1>2. printed[t] \in 0 .. Lines
  BY DEF CondCore, Lab13!TypeOK
<1>3. PICK l \in {"lock", "destroy", "end"} :
          /\ Lab13!Goto(t, l)
          /\ l = "lock" => printed[t] < Lines
          /\ l = "destroy" => t = 1 /\ printed[t] = Lines
          /\ l = "end" => t = 0 /\ printed[t] = Lines
  <2>1. Lab13!Goto(t, Lab13!AtTop(t, printed[t]))
    BY DEF Lab13!Unlock, Lab13!After, Lab13!Order
  <2>2. QED
    BY <1>2, <2>1 DEF Lab13!AtTop
<1>4. /\ pc' \in [{0, 1} -> Places13] /\ pc'[t] = l
      /\ \A u \in {0, 1} : u # t => pc'[u] = pc[u]
  BY <1>3, CondGoes DEF Places13
<1>5. ~destroyed
  BY <1>1, CondUsable
<1>6. misused' = {}
  BY <1>5 DEF Lab13!Unlock, Lab13!Uses, CondCore
<1>7. Lab13!TypeOK'
  BY <1>1, <1>4, <1>6 DEF CondCore, Lab13!TypeOK, Places13
<1>8. Lab13!Exclusive'
  BY <1>1, <1>4 DEF CondCore, Lab13!Exclusive, Lab13!Inside
<1>9. Lab13!SignalToCome' /\ Lab13!Level'
  BY <1>1, <1>4 DEF CondCore, Lab13!SignalToCome, Lab13!Level
<1>10. Lab13!Rounds'
  BY <1>1, <1>3, <1>4, <1>5 DEF CondCore, Lab13!Rounds
<1>11. QED
  BY <1>6, <1>7, <1>8, <1>9, <1>10 DEF CondCore

\* The child destroys what the parent needs no more.
LEMMA CondDestroys == ASSUME Lines \in Nat, Lines >= 1, CondCore, Lab13!Destroy PROVE CondCore'
<1> USE DEF Lab13!Threads, Lab13!Parent, Lab13!Child
<1>1. /\ mutex' = mutex /\ owner' = owner /\ printed' = printed /\ misused' = misused
      /\ destroyed' = TRUE /\ pc[1] = "destroy" /\ Lab13!Goto(1, "end")
  BY DEF Lab13!Destroy
<1>2. /\ pc' \in [{0, 1} -> Places13] /\ pc'[1] = "end" /\ pc'[0] = pc[0]
  BY <1>1, CondGoes DEF Places13
<1>3. pc[0] = "end" /\ printed[0] = Lines
  BY <1>1 DEF CondCore, Lab13!Rounds
<1>4. Lab13!TypeOK'
  BY <1>1, <1>2 DEF CondCore, Lab13!TypeOK, Places13
<1>5. Lab13!Exclusive'
  BY <1>1, <1>2 DEF CondCore, Lab13!Exclusive, Lab13!Inside
<1>6. Lab13!SignalToCome' /\ Lab13!Level'
  BY <1>1, <1>2, <1>3 DEF CondCore, Lab13!SignalToCome, Lab13!Level
<1>7. Lab13!Rounds'
  BY <1>1, <1>2, <1>3 DEF CondCore, Lab13!Rounds
<1>8. QED
  BY <1>1, <1>4, <1>5, <1>6, <1>7 DEF CondCore

\* Every step of lab13.c.
LEMMA CondSteps ==
    ASSUME Lines \in Nat, Lines >= 1, CondCore, Lab13!Next PROVE CondCore'
<1>1. CASE Lab13!Create \/ Lab13!CreateFails \/ Lab13!Destroy
  BY <1>1, CondCreate, CondCreateFails, CondDestroys
<1>2. ASSUME NEW t \in {0, 1}, Lab13!Lock(t) \/ Lab13!Step(t) \/ Lab13!SpuriousWakeup(t)
      PROVE  CondCore'
  BY <1>2, CondLock, CondWait, CondTests, CondPrints, CondSignals, CondUnlocks DEF Lab13!Step
<1>3. QED
  BY <1>1, <1>2 DEF Lab13!Next, Lab13!Threads, Lab13!Parent, Lab13!Child

\* Every step of lab13.c prints the line of the thread whose turn it is, or none.
LEMMA CondInTurn ==
    ASSUME Lines \in Nat, Lines >= 1, CondCore, Lab13!Next
    PROVE  [Lab13!Alternation!Next]_printed
<1> USE DEF Lab13!Threads, Lab13!Parent, Lab13!Child
<1>1. ASSUME NEW t \in {0, 1}, Lab13!PrintLine(t) PROVE Lab13!Alternation!Next
  <2>1. /\ pc[t] = "print" /\ printed' = [printed EXCEPT ![t] = @ + 1]
        /\ printed[t] < Lines /\ owner = t
    BY <1>1 DEF Lab13!PrintLine, CondCore, Lab13!Rounds, Lab13!Exclusive
  <2>2. Lab13!Alternation!Place(0) = 0 /\ Lab13!Alternation!Place(1) = 1
    BY DEF Lab13!Alternation!Place
  <2>3. \A u \in {0, 1} : printed[u] \in Nat
    BY DEF CondCore, Lab13!TypeOK
  <2>4. Lab13!Alternation!Turn(t)
    <3>1. Lab13!Alternation!Parties = {0, 1}
      BY DEF Lab13!Alternation!Parties
    <3>2. CASE t = 0
      <4>1. printed[0] = printed[1]
        BY <2>1, <2>3, <3>2 DEF CondCore, Lab13!Level
      <4>2. QED
        BY <2>2, <2>3, <3>1, <3>2, <4>1 DEF Lab13!Alternation!Turn
    <3>3. CASE t = 1
      <4>1. printed[0] = printed[1] + 1
        BY <2>1, <2>3, <3>3 DEF CondCore, Lab13!Level
      <4>2. QED
        BY <2>2, <2>3, <3>1, <3>3, <4>1 DEF Lab13!Alternation!Turn
    <3>4. QED
      BY <3>2, <3>3
  <2>5. t \in Lab13!Alternation!Parties
    BY DEF Lab13!Alternation!Parties
  <2>6. QED
    BY <2>1, <2>4, <2>5 DEF Lab13!Alternation!Next, Lab13!Alternation!PrintLine
<1>2. (\E t \in {0, 1} : Lab13!PrintLine(t)) \/ printed' = printed
  BY DEF Lab13!Next, Lab13!Step, Lab13!Create, Lab13!CreateFails, Lab13!Destroy, Lab13!Lock,
         Lab13!Wait, Lab13!Test, Lab13!Signal, Lab13!Unlock, Lab13!SpuriousWakeup
<1>3. QED
  BY <1>1, <1>2
-----------------------------------------------------------------------------
(* lab11.c: a chain of mutexes. *)

ChainCore ==
    /\ Lab11!TypeOK /\ Lab11!ErrorsOnlyAtTheEnd
    /\ Lab11!Held /\ Lab11!InRow /\ Lab11!Apart /\ Lab11!Phases

\* The constants, and the steps of a thread: a row of mutexes for each line.
LEMMA ChainSizes ==
    /\ Mutexes \in Nat /\ Mutexes >= 2 /\ Lines \in Nat /\ Lines >= 1
    /\ Lab11!Steps = Mutexes * Lines /\ Lab11!Steps \in Nat /\ Lab11!Steps >= Mutexes
    /\ Lab11!Last = Mutexes - 1 /\ Lab11!Last \in Lab11!Chain /\ Lab11!Last # 0
    /\ 0 \in Lab11!Chain
<1>1. Mutexes \in Nat /\ Mutexes >= 2 /\ Lines \in Nat /\ Lines >= 1
  BY ThreadLabsAssumption
<1>2. Mutexes * Lines \in Nat /\ Mutexes * Lines >= Mutexes
  BY <1>1
<1>3. QED
  BY <1>1, <1>2 DEF Lab11!Steps, Lab11!Last, Lab11!Chain

\* The mutex behind another one.
LEMMA NextOf ==
    ASSUME NEW c \in 0 .. Mutexes - 1
    PROVE  /\ Lab11!NextMutex(c) = IF c = Mutexes - 1 THEN 0 ELSE c + 1
           /\ Lab11!NextMutex(c) \in 0 .. Mutexes - 1
           /\ Lab11!NextMutex(c) # c
<1>1. c + 1 \in 1 .. Mutexes /\ Mutexes \in Nat /\ Mutexes >= 2
  BY ChainSizes
<1>2. (c + 1) % Mutexes = IF c = Mutexes - 1 THEN 0 ELSE c + 1
  BY <1>1
<1>3. QED
  BY <1>1, <1>2 DEF Lab11!NextMutex

\* A row is longer than any difference within one.
LEMMA RowOrder ==
    ASSUME NEW a \in Int, NEW b \in Int, Mutexes * a < Mutexes * b
    PROVE  a < b
<1>1. Mutexes \in Nat
  BY ChainSizes
<1>2. a >= b => Mutexes * a >= Mutexes * b
  BY <1>1
<1>3. Mutexes * a \in Int /\ Mutexes * b \in Int
  BY <1>1
<1>4. QED
  BY <1>2, <1>3

\* The beginning of a row is no place inside another one.
LEMMA NoMultiple ==
    ASSUME NEW a \in Int, NEW b \in Int, NEW x \in 1 .. Mutexes - 1
    PROVE  Mutexes * a # Mutexes * b + x
<1> SUFFICES ASSUME Mutexes * a = Mutexes * b + x PROVE FALSE
  OBVIOUS
<1>1. Mutexes \in Nat /\ Mutexes >= 2
  BY ChainSizes
<1>2. PICK p, q \in Int : p = Mutexes * a /\ q = Mutexes * b
  BY <1>1
<1>3. Mutexes * (b + 1) = q + Mutexes
  BY <1>1, <1>2
<1>4. q < p /\ p < q + Mutexes
  BY <1>1, <1>2
<1>5. b < a /\ a < b + 1
  BY <1>2, <1>3, <1>4, RowOrder
<1>6. QED
  BY <1>5

\* When main destroys the mutexes the child is past its last mutex 0.
LEMMA ChainInv == ASSUME ChainCore PROVE Lab11!Inv
<1> USE DEF Lab11!Threads, Lab11!Main, Lab11!Child
<1>1. Lab11!DestroyedAfterLastLine
  <2> SUFFICES ASSUME destroyed # {}, pc[1] # "new" PROVE printed[0] = Lines /\ printed[1] = Lines
    BY DEF Lab11!DestroyedAfterLastLine
  <2>1. pc[0] \in {"destroy", "end"}
    BY DEF ChainCore, Lab11!Phases
  <2>2. Lab11!Started
    BY <2>1 DEF ChainCore, Lab11!Phases, Lab11!TypeOK, Lab11!Started
  <2>3. printed[0] = Lines /\ Lab11!Pos(1) > Mutexes * (Lines - 1) /\ pc[1] # "print"
    BY <2>1, <2>2 DEF ChainCore, Lab11!Phases
  <2>4. PICK k \in 0 .. Lines : k = printed[1]
    BY DEF ChainCore, Lab11!TypeOK
  <2>5. PICK c \in 0 .. Mutexes - 1 : c = cur[1]
    BY DEF ChainCore, Lab11!TypeOK, Lab11!Chain
  <2>6. Lab11!Pos(1) = Mutexes * (k - 1) + c
    BY <2>2, <2>3, <2>4, <2>5 DEF ChainCore, Lab11!InRow, Lab11!Row, Lab11!Started
  <2>7. PICK p, q \in Int : p = Mutexes * (k - 1) /\ q = Mutexes * (Lines - 1)
    BY ChainSizes
  <2>8. Mutexes * k = p + Mutexes
    BY <2>7, ChainSizes
  <2>9. q < Mutexes * k
    BY <2>3, <2>5, <2>6, <2>7, <2>8, ChainSizes
  <2>10. Lines - 1 < k
    BY <2>7, <2>9, RowOrder, ChainSizes
  <2>11. QED
    BY <2>3, <2>4, <2>10, ChainSizes
<1>2. QED
  BY <1>1 DEF ChainCore, Lab11!Inv

Places11 == {"create", "new", "try", "untry", "first", "print", "lock", "unlock",
             "giveup", "destroy", "end"}

\* Where a step of one thread leaves it and the other.
LEMMA ChainGoes ==
    ASSUME ChainCore, NEW t \in {0, 1}, NEW l \in Places11, Lab11!Goto(t, l)
    PROVE  /\ pc' \in [{0, 1} -> Places11]
           /\ pc'[t] = l
           /\ \A u \in {0, 1} : u # t => pc'[u] = pc[u]
  BY DEF Lab11!Goto, ChainCore, Lab11!TypeOK, Lab11!Threads, Lab11!Main, Lab11!Child, Places11

\* Main has mutex 0 and has not created the child, which is to begin on the
\* last one.
LEMMA ChainStarts == ASSUME Lab11!Init PROVE ChainCore
<1> USE ChainSizes DEF Lab11!Threads, Lab11!Main, Lab11!Child, Lab11!None, Lab11!Init
<1>1. Lab11!TypeOK
  <2>1. owner \in [Lab11!Chain -> {0, 1} \union {2}]
    BY DEF Lab11!FirstOwner
  <2>2. cur \in [{0, 1} -> Lab11!Chain]
    OBVIOUS
  <2>3. pc \in [{0, 1} -> {"create", "new", "try", "untry", "first", "print", "lock",
                         "unlock", "giveup", "destroy", "end"}]
    OBVIOUS
  <2>4. 0 \in 0 .. Lab11!Steps /\ 0 \in 0 .. Lines
    OBVIOUS
  <2>5. i \in [{0, 1} -> 0 .. Lab11!Steps] /\ printed \in [{0, 1} -> 0 .. Lines]
    BY <2>4
  <2>6. destroyed \subseteq Lab11!Chain /\ errors \subseteq {0, 1}
    OBVIOUS
  <2>7. QED
    BY <2>1, <2>2, <2>3, <2>5, <2>6 DEF Lab11!TypeOK
<1>2. Lab11!ErrorsOnlyAtTheEnd
  BY DEF Lab11!ErrorsOnlyAtTheEnd
<1>3. Lab11!Held
  <2>1. Lab11!Holds(0) = {0} /\ Lab11!Holds(1) = {}
    BY DEF Lab11!Holds, Lab11!Out
  <2>2. QED
    BY <2>1 DEF Lab11!Held, Lab11!FirstOwner
<1>4. Lab11!InRow
  <2>1. Mutexes * 0 = 0 /\ Mutexes * (0 - 1) = 0 - Mutexes
    OBVIOUS
  <2>2. Lab11!Pos(0) = 0 /\ Lab11!Row(0) = 0 /\ cur[0] = 0
    BY DEF Lab11!Pos, Lab11!Row
  <2>3. Lab11!Pos(1) = 0 - 1 /\ Lab11!Row(1) = 0 - 1 /\ cur[1] = Mutexes - 1
    BY DEF Lab11!Pos, Lab11!Row
  <2>4. QED
    BY <2>1, <2>2, <2>3 DEF Lab11!InRow, Lab11!Walking
<1>5. Lab11!Apart
  BY DEF Lab11!Apart, Lab11!Started
<1>6. Lab11!Phases
  BY DEF Lab11!Phases, Lab11!Started, Lab11!Walking
<1>7. QED
  BY <1>1, <1>2, <1>3, <1>4, <1>5, <1>6 DEF ChainCore
\* What a thread holds before anything is destroyed, as a fact about owner.
LEMMA ChainHeld ==
    ASSUME ChainCore, pc[0] \notin {"destroy", "end"} \/ destroyed = {},
           NEW t \in {0, 1}, NEW k \in Lab11!Chain
    PROVE  /\ destroyed = {}
           /\ owner[k] = t <=> k \in Lab11!Holds(t)
           /\ owner[k] \in {0, 1, 2}
  BY DEF ChainCore, Lab11!Held, Lab11!Phases, Lab11!TypeOK, Lab11!Threads, Lab11!Main,
         Lab11!Child, Lab11!None

\* Main creates the child, or gives up when it cannot.
LEMMA ChainCreates ==
    ASSUME ChainCore, Lab11!Create \/ Lab11!CreateFails PROVE ChainCore'
<1> USE DEF Lab11!Threads, Lab11!Main, Lab11!Child
<1>1. /\ owner' = owner /\ destroyed' = destroyed /\ cur' = cur /\ i' = i
      /\ printed' = printed /\ errors' = errors /\ pc[0] = "create"
  BY DEF Lab11!Create, Lab11!CreateFails
<1>2. pc[1] = "new"
  BY <1>1 DEF ChainCore, Lab11!Phases
<1>3. /\ pc' \in [{0, 1} -> Places11]
      /\ \/ pc'[0] = "try" /\ pc'[1] = "first"
         \/ pc'[0] = "giveup" /\ pc'[1] = "new"
  <2>1. CASE Lab11!Create
    BY <2>1 DEF Lab11!Create, Lab11!AfterCreate, ChainCore, Lab11!TypeOK, Places11
  <2>2. CASE Lab11!CreateFails
    BY <1>2, <2>2 DEF Lab11!CreateFails, Lab11!Goto, ChainCore, Lab11!TypeOK, Places11
  <2>3. QED
    BY <2>1, <2>2
<1>4. Lab11!TypeOK'
  BY <1>1, <1>3 DEF ChainCore, Lab11!TypeOK, Places11
<1>5. Lab11!ErrorsOnlyAtTheEnd'
  BY <1>1 DEF ChainCore, Lab11!ErrorsOnlyAtTheEnd
<1>6. Lab11!Held'
  <2>1. Lab11!Holds(0)' = Lab11!Holds(0) /\ Lab11!Holds(1)' = Lab11!Holds(1)
    BY <1>1, <1>2, <1>3 DEF Lab11!Holds, Lab11!Out
  <2>2. QED
    BY <1>1, <2>1 DEF ChainCore, Lab11!Held
<1>7. Lab11!InRow'
  <2>1. \A t \in {0, 1} : Lab11!Pos(t)' = Lab11!Pos(t) /\ Lab11!Row(t)' = Lab11!Row(t)
    BY <1>1, <1>2, <1>3 DEF Lab11!Pos, Lab11!Row
  <2>2. QED
    BY <1>1, <1>2, <1>3, <2>1 DEF ChainCore, Lab11!InRow, Lab11!Walking
<1>8. Lab11!Apart'
  BY <1>3 DEF Lab11!Apart, Lab11!Started
<1>9. Lab11!Phases'
  BY <1>1, <1>2, <1>3 DEF ChainCore, Lab11!Phases, Lab11!Started, Lab11!Walking
<1>10. QED
  BY <1>4, <1>5, <1>6, <1>7, <1>8, <1>9 DEF ChainCore

\* Main finds the last mutex taken, which only the child can have done.
LEMMA ChainTries == ASSUME ChainCore, Lab11!Try PROVE ChainCore'
<1> USE ChainSizes DEF Lab11!Threads, Lab11!Main, Lab11!Child, Lab11!None
<1>1. /\ destroyed' = destroyed /\ cur' = cur /\ i' = i
      /\ printed' = printed /\ errors' = errors /\ pc[0] = "try"
  BY DEF Lab11!Try
<1>2. destroyed = {} /\ i[0] = 0 /\ printed[0] = 0 /\ cur[0] = 0
  BY <1>1 DEF ChainCore, Lab11!Phases, Lab11!InRow
<1>3. PICK k \in Lab11!Chain : k = Lab11!Last /\ k # 0 /\ Lab11!Polled = k
  <2>1. Lab11!Last \in Lab11!Chain /\ Lab11!Last # 0 /\ Lab11!Polled = Lab11!Last
    BY DEF Lab11!Polled
  <2>2. QED
    BY <2>1, Zenon
<1>4. \A t \in {0, 1} : owner[k] = t <=> k \in Lab11!Holds(t)
  BY <1>2, ChainHeld
<1>5. owner \in [Lab11!Chain -> {0, 1, 2}]
  BY DEF ChainCore, Lab11!TypeOK
<1>6. PICK l \in {"untry", "print"} :
          /\ Lab11!Goto(0, l)
          /\ l = "untry" => owner[k] = 2 /\ owner' = [owner EXCEPT ![k] = 0]
          /\ l = "print" => owner[k] # 2 /\ owner' = owner
  <2>1. Lab11!AtTop(0, 0, 0) = "print"
    BY DEF Lab11!AtTop, Lab11!StepsOf
  <2>2. CASE owner[k] = 2
    BY <1>3, <2>2 DEF Lab11!Try
  <2>3. CASE owner[k] # 2
    BY <1>3, <2>1, <2>3 DEF Lab11!Try
  <2>4. QED
    BY <2>2, <2>3
<1>7. /\ pc' \in [{0, 1} -> Places11] /\ pc'[0] = l /\ pc'[1] = pc[1]
  BY <1>6, ChainGoes DEF Places11
<1>8. owner' \in [Lab11!Chain -> {0, 1, 2}]
  BY <1>5, <1>6
<1>9. l = "print" => Lab11!Started
  <2> SUFFICES ASSUME l = "print" PROVE Lab11!Started
    OBVIOUS
  <2>1. k \notin Lab11!Holds(0)
    BY <1>1, <1>2, <1>3 DEF Lab11!Holds
  <2>2. owner[k] = 1
    BY <1>4, <1>5, <1>6, <2>1
  <2>3. ~Lab11!Out(1)
    BY <1>4, <2>2 DEF Lab11!Holds
  <2>4. QED
    BY <2>3 DEF Lab11!Out, Lab11!Started, ChainCore, Lab11!Phases, Lab11!TypeOK
<1>10. Lab11!TypeOK'
  BY <1>1, <1>7, <1>8 DEF ChainCore, Lab11!TypeOK, Places11
<1>11. Lab11!ErrorsOnlyAtTheEnd'
  BY <1>1 DEF ChainCore, Lab11!ErrorsOnlyAtTheEnd
<1>12. Lab11!Held'
  <2>1. Lab11!Holds(1)' = Lab11!Holds(1)
    BY <1>1, <1>7 DEF Lab11!Holds, Lab11!Out
  <2>2. Lab11!Holds(0)' = IF l = "untry" THEN {0, k} ELSE {0}
    BY <1>1, <1>2, <1>3, <1>7 DEF Lab11!Holds, Lab11!Out
  <2>3. Lab11!Holds(0) = {0}
    BY <1>1, <1>2 DEF Lab11!Holds, Lab11!Out
  <2>4. ASSUME NEW j \in Lab11!Chain
        PROVE  /\ owner'[j] = 0 <=> j \in Lab11!Holds(0)'
               /\ owner'[j] = 1 <=> j \in Lab11!Holds(1)'
    <3>1. /\ owner[j] = 0 <=> j \in Lab11!Holds(0)
          /\ owner[j] = 1 <=> j \in Lab11!Holds(1)
      BY <1>2, ChainHeld
    <3>2. CASE l = "untry" /\ j = k
      BY <1>4, <1>5, <1>6, <2>1, <2>2, <3>2
    <3>3. CASE l = "untry" /\ j # k
      BY <1>5, <1>6, <2>1, <2>2, <2>3, <3>1, <3>3
    <3>4. CASE l = "print"
      BY <1>6, <2>1, <2>2, <2>3, <3>1, <3>4
    <3>5. QED
      BY <3>2, <3>3, <3>4
  <2>5. QED
    BY <2>4 DEF Lab11!Held
<1>13. Lab11!InRow'
  <2>1. \A t \in {0, 1} : Lab11!Pos(t)' = Lab11!Pos(t) /\ Lab11!Row(t)' = Lab11!Row(t)
    BY <1>1, <1>7 DEF Lab11!Pos, Lab11!Row
  <2>2. QED
    BY <1>1, <1>2, <1>7, <2>1 DEF ChainCore, Lab11!InRow, Lab11!Walking
<1>14. Lab11!Apart'
  <2>1. \A t \in {0, 1} : Lab11!Pos(t)' = Lab11!Pos(t) /\ Lab11!Front(t)' = Lab11!Front(t)
    BY <1>1, <1>7 DEF Lab11!Pos, Lab11!Front
  <2>2. QED
    BY <1>1, <1>7, <2>1 DEF ChainCore, Lab11!Apart, Lab11!Started
<1>15. Lab11!Phases'
  BY <1>1, <1>2, <1>7, <1>9 DEF ChainCore, Lab11!Phases, Lab11!Started, Lab11!Walking
<1>16. QED
  BY <1>10, <1>11, <1>12, <1>13, <1>14, <1>15 DEF ChainCore

\* Main gives the last mutex back.
LEMMA ChainUntries == ASSUME ChainCore, Lab11!Untry PROVE ChainCore'
<1> USE ChainSizes DEF Lab11!Threads, Lab11!Main, Lab11!Child, Lab11!None
<1>1. /\ destroyed' = destroyed /\ cur' = cur /\ i' = i
      /\ printed' = printed /\ pc[0] = "untry" /\ Lab11!Goto(0, "try")
  BY DEF Lab11!Untry
<1>2. destroyed = {} /\ i[0] = 0 /\ printed[0] = 0 /\ cur[0] = 0
  BY <1>1 DEF ChainCore, Lab11!Phases, Lab11!InRow
<1>3. PICK k \in Lab11!Chain : k = Lab11!Last /\ k # 0 /\ Lab11!Polled = k
  <2>1. Lab11!Last \in Lab11!Chain /\ Lab11!Last # 0 /\ Lab11!Polled = Lab11!Last
    BY DEF Lab11!Polled
  <2>2. QED
    BY <2>1, Zenon
<1>4. Lab11!Holds(0) = {0, k}
  BY <1>1, <1>2, <1>3 DEF Lab11!Holds, Lab11!Out
<1>5. owner[k] = 0 /\ owner \in [Lab11!Chain -> {0, 1, 2}]
  <2>1. owner[k] = 0 <=> k \in Lab11!Holds(0)
    BY <1>2, ChainHeld
  <2>2. QED
    BY <1>4, <2>1 DEF ChainCore, Lab11!TypeOK
<1>6. errors' = errors /\ owner' = [owner EXCEPT ![k] = 2]
  BY <1>2, <1>3, <1>5 DEF Lab11!Untry, Lab11!Unlock, Lab11!UnlockFails
<1>7. /\ pc' \in [{0, 1} -> Places11] /\ pc'[0] = "try" /\ pc'[1] = pc[1]
  BY <1>1, ChainGoes DEF Places11
<1>8. owner' \in [Lab11!Chain -> {0, 1, 2}]
  BY <1>5, <1>6
<1>9. Lab11!TypeOK'
  BY <1>1, <1>6, <1>7, <1>8 DEF ChainCore, Lab11!TypeOK, Places11
<1>10. Lab11!ErrorsOnlyAtTheEnd'
  BY <1>1, <1>6 DEF ChainCore, Lab11!ErrorsOnlyAtTheEnd
<1>11. Lab11!Held'
  <2>1. Lab11!Holds(1)' = Lab11!Holds(1)
    BY <1>1, <1>7 DEF Lab11!Holds, Lab11!Out
  <2>2. Lab11!Holds(0)' = {0}
    BY <1>1, <1>2, <1>7 DEF Lab11!Holds, Lab11!Out
  <2>3. ASSUME NEW j \in Lab11!Chain
        PROVE  /\ owner'[j] = 0 <=> j \in Lab11!Holds(0)'
               /\ owner'[j] = 1 <=> j \in Lab11!Holds(1)'
    <3>1. /\ owner[j] = 0 <=> j \in Lab11!Holds(0)
          /\ owner[j] = 1 <=> j \in Lab11!Holds(1)
      BY <1>2, ChainHeld
    <3>2. CASE j = k
      BY <1>3, <1>5, <1>6, <2>1, <2>2, <3>1, <3>2
    <3>3. CASE j # k
      BY <1>4, <1>5, <1>6, <2>1, <2>2, <3>1, <3>3
    <3>4. QED
      BY <3>2, <3>3
  <2>4. QED
    BY <2>3 DEF Lab11!Held
<1>12. Lab11!InRow'
  <2>1. \A t \in {0, 1} : Lab11!Pos(t)' = Lab11!Pos(t) /\ Lab11!Row(t)' = Lab11!Row(t)
    BY <1>1, <1>7 DEF Lab11!Pos, Lab11!Row
  <2>2. QED
    BY <1>1, <1>2, <1>7, <2>1 DEF ChainCore, Lab11!InRow, Lab11!Walking
<1>13. Lab11!Apart'
  <2>1. \A t \in {0, 1} : Lab11!Pos(t)' = Lab11!Pos(t) /\ Lab11!Front(t)' = Lab11!Front(t)
    BY <1>1, <1>7 DEF Lab11!Pos, Lab11!Front
  <2>2. QED
    BY <1>1, <1>7, <2>1 DEF ChainCore, Lab11!Apart, Lab11!Started
<1>14. Lab11!Phases'
  BY <1>1, <1>2, <1>7 DEF ChainCore, Lab11!Phases, Lab11!Started, Lab11!Walking
<1>15. QED
  BY <1>9, <1>10, <1>11, <1>12, <1>13, <1>14 DEF ChainCore
\* Main leaves the chain when the child is less than a row behind it.
LEMMA ChainLeaves == ASSUME ChainCore, Lab11!Leave PROVE ChainCore'
<1> USE ChainSizes DEF Lab11!Threads, Lab11!Main, Lab11!Child, Lab11!None
<1>1. /\ destroyed' = destroyed /\ cur' = cur /\ printed' = printed
      /\ pc[0] = "giveup" /\ Lab11!Goto(0, "destroy")
  BY DEF Lab11!Leave
<1>2. /\ destroyed = {} /\ cur[0] = 0
  BY <1>1 DEF ChainCore, Lab11!Phases, Lab11!InRow
<1>3. Lab11!Holds(0) = {0}
  BY <1>1, <1>2 DEF Lab11!Holds, Lab11!Out
<1>4. owner[0] = 0 /\ owner \in [Lab11!Chain -> {0, 1, 2}]
  <2>1. 0 \in Lab11!Chain
    OBVIOUS
  <2>2. owner[0] = 0 <=> 0 \in Lab11!Holds(0)
    BY <1>2, <2>1, ChainHeld
  <2>3. QED
    BY <1>3, <2>2 DEF ChainCore, Lab11!TypeOK
<1>5. errors' = errors /\ owner' = [owner EXCEPT ![0] = 2]
  BY <1>2, <1>4 DEF Lab11!Leave, Lab11!Unlock, Lab11!UnlockFails
<1>6. /\ i' \in [{0, 1} -> 0 .. Lab11!Steps] /\ i'[0] = 0 /\ i'[1] = i[1]
  BY DEF Lab11!Leave, ChainCore, Lab11!TypeOK
<1>7. /\ pc' \in [{0, 1} -> Places11] /\ pc'[0] = "destroy" /\ pc'[1] = pc[1]
  BY <1>1, ChainGoes DEF Places11
<1>8. owner' \in [Lab11!Chain -> {0, 1, 2}]
  BY <1>4, <1>5
<1>9. Lab11!TypeOK'
  BY <1>1, <1>5, <1>6, <1>7, <1>8 DEF ChainCore, Lab11!TypeOK, Places11
<1>10. Lab11!ErrorsOnlyAtTheEnd'
  BY <1>1, <1>5 DEF ChainCore, Lab11!ErrorsOnlyAtTheEnd
<1>11. Lab11!Held'
  <2>1. Lab11!Holds(1)' = Lab11!Holds(1)
    BY <1>1, <1>7 DEF Lab11!Holds, Lab11!Out
  <2>2. Lab11!Holds(0)' = {}
    BY <1>7 DEF Lab11!Holds, Lab11!Out
  <2>3. ASSUME NEW j \in Lab11!Chain
        PROVE  /\ owner'[j] = 0 <=> j \in Lab11!Holds(0)'
               /\ owner'[j] = 1 <=> j \in Lab11!Holds(1)'
    <3>1. /\ owner[j] = 0 <=> j \in Lab11!Holds(0)
          /\ owner[j] = 1 <=> j \in Lab11!Holds(1)
      BY <1>2, ChainHeld
    <3>2. CASE j = 0
      BY <1>4, <1>5, <2>1, <2>2, <3>1, <3>2
    <3>3. CASE j # 0
      BY <1>3, <1>4, <1>5, <2>1, <2>2, <3>1, <3>3
    <3>4. QED
      BY <3>2, <3>3
  <2>4. QED
    BY <2>3 DEF Lab11!Held
<1>12. Lab11!InRow'
  <2>1. Lab11!Pos(1)' = Lab11!Pos(1) /\ Lab11!Row(1)' = Lab11!Row(1)
    BY <1>1, <1>6, <1>7 DEF Lab11!Pos, Lab11!Row
  <2>2. QED
    BY <1>1, <1>6, <1>7, <2>1 DEF ChainCore, Lab11!InRow, Lab11!Walking
<1>13. Lab11!Apart'
  BY <1>7 DEF Lab11!Apart
<1>14. Lab11!Started => printed[0] = Lines /\ Lab11!Pos(1) > Mutexes * (Lines - 1) /\ pc[1] # "print"
  <2> SUFFICES ASSUME Lab11!Started
               PROVE  /\ printed[0] = Lines /\ Lab11!Pos(1) > Mutexes * (Lines - 1)
                      /\ pc[1] # "print"
    OBVIOUS
  <2>1. printed[0] = Lines
    BY <1>1 DEF ChainCore, Lab11!Phases
  <2>2. Lab11!Pos(0) = Mutexes * Lines + 0
    BY <1>1, <1>2, <2>1 DEF ChainCore, Lab11!InRow, Lab11!Row
  <2>3. PICK f \in Int : f = Mutexes * Lines
    OBVIOUS
  <2>4. Mutexes * (Lines - 1) = f - Mutexes
    BY <2>3
  <2>5. PICK c \in Int : c = Lab11!Pos(1) /\ c < f /\ f < c + Mutexes
    <3>1. Lab11!Pos(1) \in Int
      BY DEF Lab11!Pos, ChainCore, Lab11!TypeOK
    <3>2. Lab11!Front(1) < Lab11!Pos(0) /\ Lab11!Front(0) < Lab11!Pos(1) + Mutexes
      BY <1>1 DEF ChainCore, Lab11!Apart
    <3>3. Lab11!Front(0) = Lab11!Pos(0) /\ Lab11!Front(1) \in {Lab11!Pos(1), Lab11!Pos(1) + 1}
      BY <1>1 DEF Lab11!Front
    <3>4. QED
      BY <2>2, <2>3, <3>1, <3>2, <3>3
  <2>6. pc[1] # "print"
    <3> SUFFICES ASSUME pc[1] = "print" PROVE FALSE
      OBVIOUS
    <3>1. PICK k \in Nat : k = printed[1]
      BY DEF ChainCore, Lab11!TypeOK
    <3>2. c = Mutexes * k + 0
      BY <2>5, <3>1 DEF ChainCore, Lab11!InRow, Lab11!Row
    <3>3. Mutexes * k < Mutexes * Lines /\ Mutexes * (Lines - 1) < Mutexes * k
      BY <2>3, <2>4, <2>5, <3>2
    <3>4. k < Lines /\ Lines - 1 < k
      BY <3>3, RowOrder
    <3>5. QED
      BY <3>4
  <2>7. QED
    BY <2>1, <2>4, <2>5, <2>6
<1>15. Lab11!Phases'
  <2>1. Lab11!Pos(1)' = Lab11!Pos(1)
    BY <1>6 DEF Lab11!Pos
  <2>2. QED
    BY <1>1, <1>6, <1>7, <1>14, <2>1
       DEF ChainCore, Lab11!Phases, Lab11!Started, Lab11!Walking
<1>16. QED
  BY <1>9, <1>10, <1>11, <1>12, <1>13, <1>15 DEF ChainCore

\* Main destroys the mutexes that nobody holds, one after the other.
LEMMA ChainDestroys == ASSUME ChainCore, Lab11!Destroy PROVE ChainCore'
<1> USE ChainSizes DEF Lab11!Threads, Lab11!Main, Lab11!Child, Lab11!None
<1>1. /\ owner' = owner /\ cur' = cur /\ printed' = printed /\ errors' = errors
      /\ pc[0] = "destroy"
  BY DEF Lab11!Destroy
<1>2. PICK k \in Nat : k = i[0] /\ k <= Mutexes - 1
  BY <1>1 DEF ChainCore, Lab11!TypeOK, Lab11!Phases
<1>3. /\ i' \in [{0, 1} -> 0 .. Lab11!Steps] /\ i'[0] = k + 1 /\ i'[1] = i[1]
  <2>1. k + 1 \in 0 .. Lab11!Steps
    BY <1>2
  <2>2. i' = [i EXCEPT ![0] = k + 1]
    BY <1>2 DEF Lab11!Destroy
  <2>3. QED
    BY <2>1, <2>2 DEF ChainCore, Lab11!TypeOK
<1>4. PICK l \in {"destroy", "end"} : Lab11!Goto(0, l) /\ (l = "destroy" => k # Lab11!Last)
  BY <1>2 DEF Lab11!Destroy
<1>5. /\ pc' \in [{0, 1} -> Places11] /\ pc'[0] = l /\ pc'[1] = pc[1]
  BY <1>4, ChainGoes DEF Places11
<1>6. destroyed \subseteq destroyed' /\ destroyed' \subseteq Lab11!Chain
  <2>1. k \in Lab11!Chain
    BY <1>2 DEF Lab11!Chain
  <2>2. QED
    BY <1>2, <2>1 DEF Lab11!Destroy, ChainCore, Lab11!TypeOK
<1>7. Lab11!TypeOK'
  BY <1>1, <1>3, <1>5, <1>6 DEF ChainCore, Lab11!TypeOK, Places11
<1>8. Lab11!ErrorsOnlyAtTheEnd'
  BY <1>1, <1>6 DEF ChainCore, Lab11!ErrorsOnlyAtTheEnd
<1>9. Lab11!Held'
  <2>1. Lab11!Holds(0)' = Lab11!Holds(0) /\ Lab11!Holds(1)' = Lab11!Holds(1)
    BY <1>1, <1>4, <1>5 DEF Lab11!Holds, Lab11!Out
  <2>2. destroyed' = {} => destroyed = {}
    BY <1>6
  <2>3. QED
    BY <1>1, <2>1, <2>2 DEF ChainCore, Lab11!Held
<1>10. Lab11!InRow'
  <2>1. Lab11!Pos(1)' = Lab11!Pos(1) /\ Lab11!Row(1)' = Lab11!Row(1)
    BY <1>1, <1>3, <1>5 DEF Lab11!Pos, Lab11!Row
  <2>2. QED
    BY <1>1, <1>3, <1>4, <1>5, <2>1 DEF ChainCore, Lab11!InRow, Lab11!Walking
<1>11. Lab11!Apart'
  BY <1>4, <1>5 DEF Lab11!Apart
<1>12. Lab11!Phases'
  <2>1. Lab11!Pos(1)' = Lab11!Pos(1)
    BY <1>3 DEF Lab11!Pos
  <2>2. l = "destroy" => i'[0] <= Lab11!Last
    BY <1>2, <1>3, <1>4
  <2>3. QED
    BY <1>1, <1>3, <1>4, <1>5, <2>1, <2>2
       DEF ChainCore, Lab11!Phases, Lab11!Started, Lab11!Walking
<1>13. QED
  BY <1>7, <1>8, <1>9, <1>10, <1>11, <1>12 DEF ChainCore

\* The child gets the last mutex, which main only borrows.
LEMMA ChainBegins == ASSUME ChainCore, Lab11!First PROVE ChainCore'
<1> USE ChainSizes DEF Lab11!Threads, Lab11!Main, Lab11!Child, Lab11!None
<1>1. /\ destroyed' = destroyed /\ cur' = cur /\ i' = i /\ printed' = printed
      /\ pc[1] = "first" /\ Lab11!Lock(1, Lab11!Last)
  BY DEF Lab11!First
<1>2. /\ destroyed = {} /\ pc[0] \in {"try", "untry"} /\ i[0] = 0 /\ cur[0] = 0
      /\ i[1] = 0 /\ cur[1] = Lab11!Last /\ printed[1] = 0
  BY <1>1 DEF ChainCore, Lab11!Phases, Lab11!InRow
<1>3. PICK k \in Lab11!Chain : k = Lab11!Last /\ k # 0
  <2>1. Lab11!Last \in Lab11!Chain /\ Lab11!Last # 0
    OBVIOUS
  <2>2. QED
    BY <2>1, Zenon
<1>4. Lab11!Holds(1) = {}
  BY <1>1 DEF Lab11!Holds, Lab11!Out
<1>5. owner[k] # 1 /\ owner \in [Lab11!Chain -> {0, 1, 2}]
  <2>1. owner[k] = 1 <=> k \in Lab11!Holds(1)
    BY <1>2, ChainHeld
  <2>2. QED
    BY <1>4, <2>1 DEF ChainCore, Lab11!TypeOK
<1>6. owner[k] = 2 /\ owner' = [owner EXCEPT ![k] = 1] /\ errors' = errors
  BY <1>1, <1>2, <1>3, <1>5 DEF Lab11!Lock, Lab11!LockFails
<1>7. Lab11!Goto(1, "lock")
  <2>1. Lab11!AtTop(1, Lab11!Last, 0) = "lock"
    BY DEF Lab11!AtTop, Lab11!StepsOf
  <2>2. QED
    BY <2>1 DEF Lab11!First
<1>8. /\ pc' \in [{0, 1} -> Places11] /\ pc'[1] = "lock" /\ pc'[0] = pc[0]
  BY <1>7, ChainGoes DEF Places11
<1>9. owner' \in [Lab11!Chain -> {0, 1, 2}]
  BY <1>5, <1>6
<1>10. Lab11!TypeOK'
  BY <1>1, <1>6, <1>8, <1>9 DEF ChainCore, Lab11!TypeOK, Places11
<1>11. Lab11!ErrorsOnlyAtTheEnd'
  BY <1>1, <1>6 DEF ChainCore, Lab11!ErrorsOnlyAtTheEnd
<1>12. Lab11!Held'
  <2>1. Lab11!Holds(0)' = Lab11!Holds(0)
    BY <1>1, <1>8 DEF Lab11!Holds, Lab11!Out
  <2>2. Lab11!Holds(1)' = {k}
    BY <1>1, <1>2, <1>3, <1>8 DEF Lab11!Holds, Lab11!Out
  <2>3. ASSUME NEW j \in Lab11!Chain
        PROVE  /\ owner'[j] = 0 <=> j \in Lab11!Holds(0)'
               /\ owner'[j] = 1 <=> j \in Lab11!Holds(1)'
    <3>1. /\ owner[j] = 0 <=> j \in Lab11!Holds(0)
          /\ owner[j] = 1 <=> j \in Lab11!Holds(1)
      BY <1>2, ChainHeld
    <3>2. CASE j = k
      BY <1>5, <1>6, <2>1, <2>2, <3>1, <3>2
    <3>3. CASE j # k
      BY <1>4, <1>5, <1>6, <2>1, <2>2, <3>1, <3>3
    <3>4. QED
      BY <3>2, <3>3
  <2>4. QED
    BY <2>3 DEF Lab11!Held
<1>13. Lab11!InRow'
  <2>1. Lab11!Pos(0)' = Lab11!Pos(0) /\ Lab11!Row(0)' = Lab11!Row(0)
    BY <1>1, <1>8 DEF Lab11!Pos, Lab11!Row
  <2>2. Lab11!Pos(1)' = 0 - 1 /\ Lab11!Row(1)' = 0 - 1
    BY <1>1, <1>2, <1>8 DEF Lab11!Pos, Lab11!Row
  <2>3. Mutexes * (0 - 1) = 0 - Mutexes
    OBVIOUS
  <2>4. QED
    BY <1>1, <1>2, <1>8, <2>1, <2>2, <2>3 DEF ChainCore, Lab11!InRow, Lab11!Walking
<1>14. Lab11!Apart'
  <2>1. Lab11!Pos(0)' = 0 /\ Lab11!Front(0)' = 0
    BY <1>1, <1>2, <1>8 DEF Lab11!Pos, Lab11!Front
  <2>2. Lab11!Pos(1)' = 0 - 1 /\ Lab11!Front(1)' = 0 - 1
    BY <1>1, <1>2, <1>8 DEF Lab11!Pos, Lab11!Front
  <2>3. QED
    BY <2>1, <2>2 DEF Lab11!Apart
<1>15. Lab11!Phases'
  BY <1>1, <1>2, <1>8 DEF ChainCore, Lab11!Phases, Lab11!Started, Lab11!Walking
<1>16. QED
  BY <1>10, <1>11, <1>12, <1>13, <1>14, <1>15 DEF ChainCore

\* Where a thread stands: on a mutex of a row.
LEMMA ChainPlace ==
    ASSUME ChainCore, NEW t \in {0, 1}, ~(t = 0 /\ pc[t] \in {"destroy", "end"})
    PROVE  /\ Lab11!Pos(t) \in Int /\ Lab11!Row(t) \in Int /\ cur[t] \in 0 .. Mutexes - 1
           /\ i[t] \in Nat /\ i[t] <= Lab11!Steps /\ printed[t] \in 0 .. Lines
           /\ Lab11!Pos(t) = Mutexes * Lab11!Row(t) + cur[t]
           /\ Lab11!Front(t) = IF pc[t] = "unlock" THEN Lab11!Pos(t) + 1 ELSE Lab11!Pos(t)
<1> USE ChainSizes DEF Lab11!Threads, Lab11!Main, Lab11!Child
<1>1. i[t] \in 0 .. Lab11!Steps /\ printed[t] \in 0 .. Lines /\ cur[t] \in 0 .. Mutexes - 1
  BY DEF ChainCore, Lab11!TypeOK, Lab11!Chain
<1>2. Lab11!Pos(t) \in Int /\ Lab11!Row(t) \in Int
  BY <1>1 DEF Lab11!Pos, Lab11!Row
<1>3. Lab11!Pos(t) = Mutexes * Lab11!Row(t) + cur[t]
  BY DEF ChainCore, Lab11!InRow
<1>4. QED
  BY <1>1, <1>2, <1>3 DEF Lab11!Front

\* Who is one step behind another one, or behind the place a row further on,
\* stands on the mutex before its.
LEMMA StepBehind ==
    ASSUME ChainCore, NEW t \in {0, 1}, NEW u \in {0, 1}, pc[0] \notin {"destroy", "end"},
           NEW z \in {0, Mutexes}, Lab11!Pos(t) + 1 = Lab11!Pos(u) + z
    PROVE  cur[u] = Lab11!NextMutex(cur[t])
<1>1. Mutexes \in Nat /\ Mutexes >= 2
  BY ChainSizes
<1>2. PICK x, y \in 0 .. Mutexes - 1 : x = cur[t] /\ y = cur[u]
  BY ChainPlace
<1>3. PICK r, o \in Int : r = Lab11!Row(t) /\ o = Lab11!Row(u)
  BY ChainPlace
<1>4. Lab11!Pos(t) = Mutexes * r + x /\ Lab11!Pos(u) = Mutexes * o + y
  BY <1>2, <1>3, ChainPlace
<1>5. PICK s \in Int : Mutexes * s = Mutexes * o + z
  <2>1. PICK p \in Int : p = Mutexes * o
    BY <1>1
  <2>2. Mutexes * (o + 1) = p + Mutexes
    BY <1>1, <2>1
  <2>3. CASE z = 0
    BY <1>1, <2>1, <2>3
  <2>4. CASE z = Mutexes
    BY <2>1, <2>2, <2>4
  <2>5. QED
    BY <2>3, <2>4
<1>6. PICK p, q \in Int : p = Mutexes * r /\ q = Mutexes * s
  BY <1>1
<1>7. p + x + 1 = q + y
  <2>1. PICK w \in Int : w = Mutexes * o
    BY <1>1
  <2>2. z \in Int
    BY <1>1
  <2>3. QED
    BY <1>4, <1>5, <1>6, <2>1, <2>2
<1>8. CASE x = Mutexes - 1
  <2>1. Mutexes * (r + 1) = p + Mutexes
    BY <1>1, <1>6
  <2>2. Mutexes * (r + 1) = Mutexes * s + y
    BY <1>1, <1>6, <1>7, <1>8, <2>1
  <2>3. y \notin 1 .. Mutexes - 1
    BY <2>2, NoMultiple
  <2>4. QED
    BY <1>1, <1>2, <1>8, <2>3, NextOf
<1>9. CASE x # Mutexes - 1
  <2>1. y = x + 1
    <3>1. CASE y < x + 1
      <4>1. Mutexes * s = Mutexes * r + ((x + 1) - y) /\ (x + 1) - y \in 1 .. Mutexes - 1
        BY <1>1, <1>6, <1>7, <1>9, <3>1
      <4>2. QED
        BY <4>1, NoMultiple
    <3>2. CASE y > x + 1
      <4>1. Mutexes * r = Mutexes * s + (y - (x + 1)) /\ y - (x + 1) \in 1 .. Mutexes - 1
        BY <1>1, <1>6, <1>7, <1>9, <3>2
      <4>2. QED
        BY <4>1, NoMultiple
    <3>3. QED
      BY <1>1, <3>1, <3>2
  <2>2. QED
    BY <1>2, <1>9, <2>1, NextOf
<1>10. QED
  BY <1>2, <1>8, <1>9

\* A place in a row is before the next row and not before its own.
LEMMA RowOf ==
    ASSUME NEW r \in Int, NEW x \in 0 .. Mutexes - 1, NEW a \in Int, NEW f \in Int,
           f = Mutexes * r + x
    PROVE  /\ Mutexes * a < f => a < r + 1
           /\ f < Mutexes * a => r < a
           /\ Mutexes * (a - 1) < f => a < r + 2
           /\ f < Mutexes * (a + 1) => r < a + 1
<1>1. Mutexes \in Nat /\ Mutexes >= 2
  BY ChainSizes
<1>2. PICK p, q \in Int : p = Mutexes * r /\ q = Mutexes * a
  BY <1>1
<1>3. Mutexes * (r + 1) = p + Mutexes /\ Mutexes * (a + 1) = q + Mutexes
      /\ Mutexes * (a - 1) = q - Mutexes
  BY <1>1, <1>2
<1>4. p <= f /\ f < p + Mutexes
  BY <1>1, <1>2
<1>5. Mutexes * a < f => Mutexes * a < Mutexes * (r + 1)
  BY <1>1, <1>2, <1>3, <1>4
<1>6. f < Mutexes * a => Mutexes * r < Mutexes * a
  BY <1>1, <1>2, <1>4
<1>7. Mutexes * (a - 1) < f => Mutexes * (a - 1) < Mutexes * (r + 1)
  BY <1>1, <1>2, <1>3, <1>4
<1>8. f < Mutexes * (a + 1) => Mutexes * r < Mutexes * (a + 1)
  BY <1>1, <1>2, <1>3, <1>4
<1>9. r + 1 \in Int /\ a - 1 \in Int /\ a + 1 \in Int
  OBVIOUS
<1>10. Mutexes * a < f => a < r + 1
  BY <1>5, <1>9, RowOrder
<1>11. f < Mutexes * a => r < a
  BY <1>6, RowOrder
<1>12. Mutexes * (a - 1) < f => a - 1 < r + 1
  BY <1>7, <1>9, RowOrder
<1>13. f < Mutexes * (a + 1) => r < a + 1
  BY <1>8, <1>9, RowOrder
<1>14. QED
  BY <1>10, <1>11, <1>12, <1>13

\* Who prints stands on mutex 0 and is the thread whose turn it is: the other
\* one is in the row of its own last line, less than a row away.
LEMMA ChainTurn ==
    ASSUME ChainCore, NEW t \in {0, 1}, pc[t] = "print"
    PROVE  /\ printed[t] < Lines /\ i[t] < Lab11!Steps
           /\ pc[0] \notin {"destroy", "end"} /\ Lab11!Started
           /\ cur[t] = 0
           /\ printed[0] = IF t = 0 THEN printed[1] ELSE printed[1] + 1
<1> USE ChainSizes DEF Lab11!Threads, Lab11!Main, Lab11!Child
<1>1. i[t] < Lab11!Steps /\ cur[t] = 0
  BY DEF ChainCore, Lab11!InRow, Lab11!Walking
<1>2. Lab11!Started
  BY DEF ChainCore, Lab11!Phases, Lab11!Walking, Lab11!Started
<1>3. pc[0] \notin {"destroy", "end"}
  BY <1>2 DEF ChainCore, Lab11!Phases
<1>4. /\ Lab11!Front(1) < Lab11!Pos(0) /\ Lab11!Front(0) < Lab11!Pos(1) + Mutexes
  BY <1>2, <1>3 DEF ChainCore, Lab11!Apart
<1>5. PICK x, y \in 0 .. Lines : x = printed[0] /\ y = printed[1]
  BY DEF ChainCore, Lab11!TypeOK
<1>6. PICK a, b \in Int : a = Lab11!Pos(0) /\ b = Lab11!Pos(1)
  BY <1>3, ChainPlace
<1>7. PICK r, s \in Int : r = Lab11!Row(0) /\ s = Lab11!Row(1)
  BY <1>3, ChainPlace
<1>8. PICK c, d \in 0 .. Mutexes - 1 : c = cur[0] /\ d = cur[1]
  BY <1>3, ChainPlace
<1>9. a = Mutexes * r + c /\ b = Mutexes * s + d
  BY <1>3, <1>6, <1>7, <1>8, ChainPlace
<1>10. b < a /\ a < b + Mutexes
  <2>1. a <= Lab11!Front(0) /\ b <= Lab11!Front(1) /\ Lab11!Front(0) \in Int /\ Lab11!Front(1) \in Int
    BY <1>3, <1>6, ChainPlace
  <2>2. QED
    BY <1>4, <1>6, <2>1
<1>11. Lab11!Row(t) = printed[t]
  BY DEF Lab11!Row
<1>12. CASE t = 0
  <2>1. r = x /\ c = 0 /\ a = i[0] /\ a < Mutexes * Lines
    BY <1>1, <1>5, <1>6, <1>7, <1>8, <1>11, <1>12 DEF Lab11!Pos
  <2>2. PICK p \in Int : p = Mutexes * x /\ Mutexes * (x - 1) = p - Mutexes
    BY <1>5
  <2>3. a = p
    BY <1>9, <2>1, <2>2
  <2>4. x < Lines
    BY <2>1, <2>2, <2>3, RowOrder
  <2>5. b < Mutexes * x /\ Mutexes * (x - 1) < b
    BY <1>10, <2>2, <2>3
  <2>6. s < x /\ x < s + 2
    BY <1>9, <2>5, RowOf
  <2>7. s = x - 1
    BY <2>6
  <2>8. d # 0
    BY <1>9, <2>2, <2>5, <2>7
  <2>9. s = y - 1
    BY <1>2, <1>5, <1>7, <1>8, <2>8 DEF Lab11!Row, ChainCore, Lab11!InRow
  <2>10. QED
    BY <1>1, <1>2, <1>3, <1>5, <1>12, <2>4, <2>7, <2>9
<1>13. CASE t = 1
  <2>1. s = y /\ d = 0 /\ b = i[1] - 1
    BY <1>1, <1>5, <1>6, <1>7, <1>8, <1>11, <1>13 DEF Lab11!Pos
  <2>2. PICK p \in Int : p = Mutexes * y /\ Mutexes * (y + 1) = p + Mutexes
    BY <1>5
  <2>3. b = p
    BY <1>9, <2>1, <2>2
  <2>4. Mutexes * y < Mutexes * Lines
    <3>1. i[1] \in Nat
      BY DEF ChainCore, Lab11!TypeOK
    <3>2. QED
      BY <1>1, <1>13, <2>1, <2>2, <2>3, <3>1
  <2>5. y < Lines
    BY <2>4, RowOrder
  <2>6. Mutexes * y < a /\ a < Mutexes * (y + 1)
    BY <1>10, <2>2, <2>3
  <2>7. y < r + 1 /\ r < y + 1
    BY <1>9, <2>6, RowOf
  <2>8. r = y
    BY <2>7
  <2>9. c # 0
    BY <1>9, <2>2, <2>6, <2>8
  <2>10. r = x - 1
    BY <1>3, <1>5, <1>7, <1>8, <2>9 DEF Lab11!Row, ChainCore, Lab11!InRow
  <2>11. QED
    BY <1>1, <1>2, <1>3, <1>5, <1>13, <2>5, <2>8, <2>10
<1>14. QED
  BY <1>12, <1>13

\* A line is printed.
LEMMA ChainPrints ==
    ASSUME ChainCore, NEW t \in {0, 1}, Lab11!PrintLine(t) PROVE ChainCore'
<1> USE ChainSizes DEF Lab11!Threads, Lab11!Main, Lab11!Child, Lab11!None
<1>1. /\ owner' = owner /\ destroyed' = destroyed /\ cur' = cur /\ i' = i
      /\ errors' = errors /\ pc[t] = "print" /\ Lab11!Goto(t, "lock")
      /\ printed' = [printed EXCEPT ![t] = @ + 1]
  BY DEF Lab11!PrintLine
<1>2. /\ printed[t] < Lines /\ i[t] < Lab11!Steps /\ Lab11!Started /\ cur[t] = 0
      /\ pc[0] \notin {"destroy", "end"}
  BY <1>1, ChainTurn
<1>3. PICK k \in Nat : k = printed[t] /\ k < Lines
  BY <1>2 DEF ChainCore, Lab11!TypeOK
<1>4. /\ printed' \in [{0, 1} -> 0 .. Lines] /\ printed'[t] = k + 1
      /\ \A u \in {0, 1} : u # t => printed'[u] = printed[u]
  <2>1. k + 1 \in 0 .. Lines
    BY <1>3
  <2>2. printed' = [printed EXCEPT ![t] = k + 1]
    BY <1>1, <1>3
  <2>3. QED
    BY <2>1, <2>2 DEF ChainCore, Lab11!TypeOK
<1>5. /\ pc' \in [{0, 1} -> Places11] /\ pc'[t] = "lock"
      /\ \A u \in {0, 1} : u # t => pc'[u] = pc[u]
  BY <1>1, ChainGoes DEF Places11
<1>6. Lab11!TypeOK'
  BY <1>1, <1>4, <1>5 DEF ChainCore, Lab11!TypeOK, Places11
<1>7. Lab11!ErrorsOnlyAtTheEnd'
  BY <1>1 DEF ChainCore, Lab11!ErrorsOnlyAtTheEnd
<1>8. Lab11!Held'
  <2>1. Lab11!Holds(0)' = Lab11!Holds(0) /\ Lab11!Holds(1)' = Lab11!Holds(1)
    BY <1>1, <1>5 DEF Lab11!Holds, Lab11!Out
  <2>2. QED
    BY <1>1, <2>1 DEF ChainCore, Lab11!Held
<1>9. \A u \in {0, 1} : Lab11!Pos(u)' = Lab11!Pos(u)
  BY <1>1 DEF Lab11!Pos
<1>10. \A u \in {0, 1} : Lab11!Front(u)' = Lab11!Front(u)
  BY <1>1, <1>5, <1>9 DEF Lab11!Front
<1>11. Lab11!InRow'
  <2>1. \A u \in {0, 1} : Lab11!Row(u)' = Lab11!Row(u)
    BY <1>1, <1>3, <1>4, <1>5 DEF Lab11!Row
  <2>2. QED
    BY <1>1, <1>2, <1>5, <1>9, <2>1 DEF ChainCore, Lab11!InRow, Lab11!Walking
<1>12. Lab11!Apart'
  BY <1>1, <1>2, <1>5, <1>9, <1>10 DEF ChainCore, Lab11!Apart, Lab11!Started
<1>13. Lab11!Phases'
  BY <1>1, <1>2, <1>4, <1>5, <1>9 DEF ChainCore, Lab11!Phases, Lab11!Started, Lab11!Walking
<1>14. QED
  BY <1>6, <1>7, <1>8, <1>11, <1>12, <1>13 DEF ChainCore

\* A thread takes the mutex behind its own.  It waits while the other one has
\* it, so that neither passes the other; only the child, and only when main
\* destroys the mutexes, is told of an error.
LEMMA ChainLocks ==
    ASSUME ChainCore, NEW t \in {0, 1}, Lab11!LockNext(t) PROVE ChainCore'
<1> USE ChainSizes DEF Lab11!Threads, Lab11!Main, Lab11!Child, Lab11!None
<1>1. /\ destroyed' = destroyed /\ cur' = cur /\ i' = i /\ printed' = printed
      /\ pc[t] = "lock" /\ Lab11!Goto(t, "unlock") /\ Lab11!Lock(t, Lab11!NextMutex(cur[t]))
  BY DEF Lab11!LockNext
<1>2. /\ pc' \in [{0, 1} -> Places11] /\ pc'[t] = "unlock"
      /\ \A u \in {0, 1} : u # t => pc'[u] = pc[u]
  BY <1>1, ChainGoes DEF Places11
<1>3. Lab11!Started
  BY <1>1 DEF ChainCore, Lab11!Phases, Lab11!Walking, Lab11!Started
<1>4. PICK c, n \in Lab11!Chain : c = cur[t] /\ n = Lab11!NextMutex(cur[t]) /\ n # c
  <2>1. cur[t] \in Lab11!Chain
    BY DEF ChainCore, Lab11!TypeOK
  <2>2. Lab11!NextMutex(cur[t]) \in Lab11!Chain /\ Lab11!NextMutex(cur[t]) # cur[t]
    BY <2>1, NextOf DEF Lab11!Chain
  <2>3. QED
    BY <2>1, <2>2, Zenon
<1>5. owner \in [Lab11!Chain -> {0, 1, 2}]
  BY DEF ChainCore, Lab11!TypeOK
<1>6. Lab11!Holds(t) = {c}
  BY <1>1, <1>4 DEF Lab11!Holds, Lab11!Out
<1>7. destroyed = {} => owner[n] # t
  <2> SUFFICES ASSUME destroyed = {} PROVE owner[n] # t
    OBVIOUS
  <2>1. owner[n] = t <=> n \in Lab11!Holds(t)
    BY <1>4, ChainHeld
  <2>2. QED
    BY <1>4, <1>6, <2>1
<1>8. pc[0] \notin {"destroy", "end"} => destroyed = {}
  BY DEF ChainCore, Lab11!Phases
<1>9. \/ /\ errors' = errors \union {t} /\ owner' = owner
         /\ destroyed # {} /\ t = 1 /\ pc[0] \in {"destroy", "end"}
      \/ errors' = errors /\ owner[n] = 2 /\ owner' = [owner EXCEPT ![n] = t]
  <2>1. CASE Lab11!LockFails(t, n)
    <3>1. errors' = errors \union {t} /\ owner' = owner
      BY <1>1, <1>4, <2>1 DEF Lab11!Lock
    <3>2. destroyed # {}
      BY <1>7, <2>1 DEF Lab11!LockFails
    <3>3. pc[0] \in {"destroy", "end"}
      BY <1>8, <3>2
    <3>4. t = 1
      BY <1>1, <3>3
    <3>5. QED
      BY <3>1, <3>2, <3>3, <3>4
  <2>2. CASE ~Lab11!LockFails(t, n)
    BY <1>1, <1>4, <2>2 DEF Lab11!Lock
  <2>3. QED
    BY <2>1, <2>2
<1>10. owner' \in [Lab11!Chain -> {0, 1, 2}] /\ errors' \subseteq {0, 1}
  <2>1. errors \subseteq {0, 1}
    BY DEF ChainCore, Lab11!TypeOK
  <2>2. QED
    BY <1>5, <1>9, <2>1
<1>11. Lab11!TypeOK'
  BY <1>1, <1>2, <1>10 DEF ChainCore, Lab11!TypeOK, Places11
<1>12. Lab11!ErrorsOnlyAtTheEnd'
  BY <1>1, <1>9 DEF ChainCore, Lab11!ErrorsOnlyAtTheEnd
<1>13. Lab11!Held'
  <2>1. \A u \in {0, 1} : u # t => Lab11!Holds(u)' = Lab11!Holds(u)
    BY <1>1, <1>2 DEF Lab11!Holds, Lab11!Out
  <2>2. Lab11!Holds(t)' = {c, n}
    BY <1>1, <1>2, <1>4 DEF Lab11!Holds, Lab11!Out
  <2>3. ASSUME destroyed = {}, NEW u \in {0, 1}, NEW j \in Lab11!Chain
        PROVE  owner'[j] = u <=> j \in Lab11!Holds(u)'
    <3>1. \A v \in {0, 1} : owner[j] = v <=> j \in Lab11!Holds(v)
      BY <2>3, ChainHeld
    <3>2. owner[n] = 2 /\ owner' = [owner EXCEPT ![n] = t]
      BY <1>9, <2>3
    <3>3. CASE j = n
      <4>1. owner'[j] = t
        BY <1>5, <3>2, <3>3
      <4>2. \A v \in {0, 1} : j \notin Lab11!Holds(v)
        BY <3>1, <3>2, <3>3
      <4>3. QED
        BY <2>1, <2>2, <3>3, <4>1, <4>2
    <3>4. CASE j # n
      <4>1. owner'[j] = owner[j]
        BY <1>5, <3>2, <3>4
      <4>2. QED
        BY <1>6, <2>1, <2>2, <3>1, <3>4, <4>1
    <3>5. QED
      BY <3>3, <3>4
  <2>4. QED
    BY <1>1, <2>3 DEF Lab11!Held
<1>14. \A u \in {0, 1} : Lab11!Pos(u)' = Lab11!Pos(u) /\ Lab11!Row(u)' = Lab11!Row(u)
  BY <1>1, <1>2 DEF Lab11!Pos, Lab11!Row
<1>15. Lab11!InRow'
  BY <1>1, <1>2, <1>14 DEF ChainCore, Lab11!InRow, Lab11!Walking
<1>16. Lab11!Apart'
  <2> SUFFICES ASSUME pc[0] \notin {"destroy", "end"}
               PROVE  Lab11!Front(1)' < Lab11!Pos(0)' /\ Lab11!Front(0)' < Lab11!Pos(1)' + Mutexes
    BY <1>1, <1>2 DEF Lab11!Apart
  <2>1. destroyed = {} /\ owner[n] = 2
    BY <1>8, <1>9
  <2>2. /\ Lab11!Front(1) < Lab11!Pos(0) /\ Lab11!Front(0) < Lab11!Pos(1) + Mutexes
    BY <1>3 DEF ChainCore, Lab11!Apart
  <2>3. PICK a, b \in Int : a = Lab11!Pos(0) /\ b = Lab11!Pos(1)
    BY ChainPlace
  <2>4. PICK r, s \in Int : r = Lab11!Row(0) /\ s = Lab11!Row(1)
    BY ChainPlace
  <2>5. PICK x, y \in 0 .. Mutexes - 1 : x = cur[0] /\ y = cur[1]
    BY ChainPlace
  <2>6. a = Mutexes * r + x /\ b = Mutexes * s + y
    BY <2>3, <2>4, <2>5, ChainPlace
  <2>7. \A u \in {0, 1} : n \notin Lab11!Holds(u)
    BY <2>1, ChainHeld
  <2>8. x \in Lab11!Holds(0) /\ y \in Lab11!Holds(1)
    <3>1. x \in Lab11!Chain /\ y \in Lab11!Chain
      BY DEF Lab11!Chain
    <3>2. ~Lab11!Out(0) /\ ~Lab11!Out(1)
      BY <1>3 DEF Lab11!Out, Lab11!Started, ChainCore, Lab11!Phases
    <3>3. QED
      BY <2>5, <3>1, <3>2 DEF Lab11!Holds
  <2>9. \A u \in {0, 1} : Lab11!Front(u)' = IF u = t THEN Lab11!Pos(u) + 1 ELSE Lab11!Front(u)
    BY <1>1, <1>2, <1>14 DEF Lab11!Front
  <2>10. CASE t = 1
    <3>1. b < a
      BY <1>1, <2>2, <2>3, <2>10 DEF Lab11!Front
    <3>2. b + 1 # a
      <4> SUFFICES ASSUME b + 1 = a PROVE FALSE
        OBVIOUS
      <4>1. Lab11!Pos(1) + 1 = Lab11!Pos(0) + 0
        BY <2>3
      <4>2. x = Lab11!NextMutex(y)
        BY <2>5, <4>1, StepBehind
      <4>3. QED
        BY <1>4, <2>5, <2>7, <2>8, <2>10, <4>2
    <3>3. b + 1 < a
      BY <3>1, <3>2
    <3>4. Lab11!Front(0)' < Lab11!Pos(1)' + Mutexes
      BY <1>14, <2>2, <2>9, <2>10
    <3>5. QED
      BY <1>14, <2>3, <2>9, <2>10, <3>3, <3>4
  <2>11. CASE t = 0
    <3>1. a < b + Mutexes
      BY <1>1, <2>2, <2>3, <2>11 DEF Lab11!Front
    <3>2. a + 1 # b + Mutexes
      <4> SUFFICES ASSUME a + 1 = b + Mutexes PROVE FALSE
        OBVIOUS
      <4>1. y = Lab11!NextMutex(x)
        BY <2>3, <2>5, StepBehind
      <4>2. QED
        BY <1>4, <2>5, <2>7, <2>8, <2>11, <4>1
    <3>3. a + 1 < b + Mutexes
      BY <3>1, <3>2
    <3>4. Lab11!Front(1)' < Lab11!Pos(0)'
      BY <1>14, <2>2, <2>9, <2>11
    <3>5. QED
      BY <1>14, <2>3, <2>9, <2>11, <3>3, <3>4
  <2>12. QED
    BY <2>10, <2>11
<1>17. Lab11!Phases'
  BY <1>1, <1>2, <1>3, <1>14 DEF ChainCore, Lab11!Phases, Lab11!Started, Lab11!Walking
<1>18. QED
  BY <1>11, <1>12, <1>13, <1>15, <1>16, <1>17 DEF ChainCore

\* A thread gives its mutex up and stands on the next one, at the end of its
\* steps on the last mutex (the child) or on mutex 0 (main).
LEMMA ChainUnlocks ==
    ASSUME ChainCore, NEW t \in {0, 1}, Lab11!UnlockCurrent(t) PROVE ChainCore'
<1> USE ChainSizes DEF Lab11!Threads, Lab11!Main, Lab11!Child, Lab11!None
<1>1. /\ destroyed' = destroyed /\ printed' = printed /\ pc[t] = "unlock"
  BY DEF Lab11!UnlockCurrent
<1>2. PICK c, n \in Lab11!Chain : c = cur[t] /\ n = Lab11!NextMutex(cur[t]) /\ n # c
  <2>1. cur[t] \in Lab11!Chain
    BY DEF ChainCore, Lab11!TypeOK
  <2>2. Lab11!NextMutex(cur[t]) \in Lab11!Chain /\ Lab11!NextMutex(cur[t]) # cur[t]
    BY <2>1, NextOf DEF Lab11!Chain
  <2>3. QED
    BY <2>1, <2>2, Zenon
<1>3. PICK k \in Nat : k = i[t] /\ k < Lab11!Steps
  BY <1>1 DEF ChainCore, Lab11!TypeOK, Lab11!InRow, Lab11!Walking
<1>4. /\ i' \in [{0, 1} -> 0 .. Lab11!Steps] /\ i'[t] = k + 1
      /\ \A u \in {0, 1} : u # t => i'[u] = i[u]
  <2>1. k + 1 \in 0 .. Lab11!Steps
    BY <1>3
  <2>2. i' = [i EXCEPT ![t] = k + 1]
    BY <1>3 DEF Lab11!UnlockCurrent
  <2>3. QED
    BY <2>1, <2>2 DEF ChainCore, Lab11!TypeOK
<1>5. /\ cur' \in [{0, 1} -> Lab11!Chain] /\ cur'[t] = n
      /\ \A u \in {0, 1} : u # t => cur'[u] = cur[u]
  <2>1. cur' = [cur EXCEPT ![t] = n]
    BY <1>2 DEF Lab11!UnlockCurrent
  <2>2. QED
    BY <2>1 DEF ChainCore, Lab11!TypeOK
<1>6. PICK l \in {"print", "lock", "giveup", "end"} :
          /\ Lab11!Goto(t, l)
          /\ l = "print" => n = 0 /\ k + 1 < Lab11!Steps
          /\ l = "lock" => n # 0 /\ k + 1 < Lab11!Steps
          /\ l = "giveup" => t = 0 /\ k + 1 = Lab11!Steps
          /\ l = "end" => t = 1 /\ k + 1 = Lab11!Steps
  <2>1. Lab11!Goto(t, Lab11!AtTop(t, n, k + 1))
    BY <1>2, <1>3 DEF Lab11!UnlockCurrent
  <2>2. CASE k + 1 = Lab11!Steps
    BY <2>1, <2>2 DEF Lab11!AtTop, Lab11!StepsOf
  <2>3. CASE k + 1 < Lab11!Steps /\ n = 0
    BY <2>1, <2>3 DEF Lab11!AtTop, Lab11!StepsOf
  <2>4. CASE k + 1 < Lab11!Steps /\ n # 0
    BY <2>1, <2>4 DEF Lab11!AtTop, Lab11!StepsOf
  <2>5. QED
    BY <1>3, <2>2, <2>3, <2>4
<1>7. /\ pc' \in [{0, 1} -> Places11] /\ pc'[t] = l
      /\ \A u \in {0, 1} : u # t => pc'[u] = pc[u]
  BY <1>6, ChainGoes DEF Places11
<1>8. Lab11!Started
  BY <1>1 DEF ChainCore, Lab11!Phases, Lab11!Walking, Lab11!Started
<1>9. Lab11!Holds(t) = {c, n}
  BY <1>1, <1>2 DEF Lab11!Holds, Lab11!Out
<1>10. owner \in [Lab11!Chain -> {0, 1, 2}]
  BY DEF ChainCore, Lab11!TypeOK
<1>11. destroyed = {} => owner[c] = t
  <2> SUFFICES ASSUME destroyed = {} PROVE owner[c] = t
    OBVIOUS
  <2>1. owner[c] = t <=> c \in Lab11!Holds(t)
    BY ChainHeld
  <2>2. QED
    BY <1>9, <2>1
<1>12. pc[0] \notin {"destroy", "end"} => destroyed = {}
  BY DEF ChainCore, Lab11!Phases
<1>13. /\ owner' = owner \/ owner' = [owner EXCEPT ![c] = 2]
       /\ errors' = errors \/ (errors' = errors \union {1} /\ destroyed # {})
       /\ destroyed = {} => owner' = [owner EXCEPT ![c] = 2]
  <2>1. Lab11!Unlock(t, c)
    BY <1>2 DEF Lab11!UnlockCurrent
  <2>2. CASE Lab11!UnlockFails(t, c)
    <3>1. errors' = errors \union {t} /\ owner' = owner
      BY <2>1, <2>2 DEF Lab11!Unlock
    <3>2. destroyed # {}
      BY <1>11, <2>2 DEF Lab11!UnlockFails
    <3>3. t = 1
      BY <1>1, <1>12, <3>2
    <3>4. QED
      BY <3>1, <3>2, <3>3
  <2>3. CASE ~Lab11!UnlockFails(t, c)
    BY <2>1, <2>3 DEF Lab11!Unlock
  <2>4. QED
    BY <2>2, <2>3
<1>14. owner' \in [Lab11!Chain -> {0, 1, 2}] /\ errors' \subseteq {0, 1}
  <2>1. errors \subseteq {0, 1}
    BY DEF ChainCore, Lab11!TypeOK
  <2>2. QED
    BY <1>10, <1>13, <2>1
<1>15. Lab11!TypeOK'
  BY <1>1, <1>4, <1>5, <1>7, <1>14 DEF ChainCore, Lab11!TypeOK, Places11
<1>16. Lab11!ErrorsOnlyAtTheEnd'
  BY <1>1, <1>13 DEF ChainCore, Lab11!ErrorsOnlyAtTheEnd
<1>17. Lab11!Held'
  <2>1. \A u \in {0, 1} : u # t => Lab11!Holds(u)' = Lab11!Holds(u)
    BY <1>5, <1>7 DEF Lab11!Holds, Lab11!Out
  <2>2. Lab11!Holds(t)' = {n}
    BY <1>5, <1>6, <1>7 DEF Lab11!Holds, Lab11!Out
  <2>3. ASSUME destroyed = {}, NEW u \in {0, 1}, NEW j \in Lab11!Chain
        PROVE  owner'[j] = u <=> j \in Lab11!Holds(u)'
    <3>1. \A v \in {0, 1} : owner[j] = v <=> j \in Lab11!Holds(v)
      BY <2>3, ChainHeld
    <3>2. owner[c] = t /\ owner' = [owner EXCEPT ![c] = 2]
      BY <1>11, <1>13, <2>3
    <3>3. CASE j = c
      <4>1. owner'[j] = 2
        BY <1>10, <3>2, <3>3
      <4>2. \A v \in {0, 1} : v # t => j \notin Lab11!Holds(v)
        BY <3>1, <3>2, <3>3
      <4>3. QED
        BY <1>2, <2>1, <2>2, <3>3, <4>1, <4>2
    <3>4. CASE j # c
      <4>1. owner'[j] = owner[j]
        BY <1>10, <3>2, <3>4
      <4>2. QED
        BY <1>9, <2>1, <2>2, <3>1, <3>4, <4>1
    <3>5. QED
      BY <3>3, <3>4
  <2>4. QED
    BY <1>1, <2>3 DEF Lab11!Held
<1>18. \A u \in {0, 1} : u # t => Lab11!Pos(u)' = Lab11!Pos(u) /\ Lab11!Row(u)' = Lab11!Row(u)
  BY <1>1, <1>4, <1>7 DEF Lab11!Pos, Lab11!Row
<1>19. PICK a \in Int : a = Lab11!Pos(t) /\ Lab11!Pos(t)' = a + 1
                        /\ a = (IF t = 0 THEN k ELSE k - 1)
  BY <1>3, <1>4 DEF Lab11!Pos
<1>20. PICK w \in 0 .. Lines : w = printed[t]
  BY DEF ChainCore, Lab11!TypeOK
<1>21. PICK p, f \in Int :
           /\ p = Mutexes * (w - 1) /\ Mutexes * w = p + Mutexes
           /\ f = Mutexes * (Lines - 1) /\ Mutexes * Lines = f + Mutexes
  OBVIOUS
<1>22. a = p + c /\ Lab11!Row(t) = w - 1
  BY <1>1, <1>2, <1>19, <1>20, <1>21 DEF ChainCore, Lab11!InRow, Lab11!Row
<1>23. n = IF c = Mutexes - 1 THEN 0 ELSE c + 1
  BY <1>2, NextOf DEF Lab11!Chain
<1>24. c \in 0 .. Mutexes - 1 /\ n \in 0 .. Mutexes - 1
  BY DEF Lab11!Chain
<1>25. n = 0 <=> l \in {"print", "giveup"}
  <2>1. CASE l = "giveup" /\ n # 0
    <3>1. Mutexes * Lines = Mutexes * (w - 1) + n /\ n \in 1 .. Mutexes - 1
      BY <1>6, <1>19, <1>21, <1>22, <1>23, <1>24, <2>1
    <3>2. QED
      BY <3>1, NoMultiple
  <2>2. CASE l = "end" /\ n = 0
    <3>1. Mutexes * w = Mutexes * (Lines - 1) + (Mutexes - 1)
      BY <1>6, <1>19, <1>21, <1>22, <1>23, <1>24, <2>2
    <3>2. Mutexes - 1 \in 1 .. Mutexes - 1
      OBVIOUS
    <3>3. QED
      BY <3>1, <3>2, NoMultiple
  <2>3. QED
    BY <1>6, <2>1, <2>2
<1>26. Lab11!Row(t)' = IF n = 0 THEN w ELSE w - 1
  BY <1>1, <1>6, <1>7, <1>20, <1>25 DEF Lab11!Row
<1>27. Lab11!Pos(t)' = Mutexes * Lab11!Row(t)' + cur'[t]
  BY <1>5, <1>19, <1>21, <1>22, <1>23, <1>24, <1>26
<1>28. Lab11!InRow'
  <2>1. Lab11!Walking(t)' => i'[t] < Lab11!Steps
    BY <1>4, <1>6, <1>7 DEF Lab11!Walking
  <2>2. pc'[t] \in {"create", "try", "untry", "print", "giveup"} => cur'[t] = 0
    BY <1>5, <1>6, <1>7, <1>25
  <2>3. ASSUME NEW u \in {0, 1}, u # t
        PROVE  /\ ~(u = 0 /\ pc'[u] \in {"destroy", "end"}) =>
                      Lab11!Pos(u)' = Mutexes * Lab11!Row(u)' + cur'[u]
               /\ pc'[u] \in {"create", "try", "untry", "print", "giveup"} => cur'[u] = 0
               /\ Lab11!Walking(u)' => i'[u] < Lab11!Steps
    BY <1>4, <1>5, <1>7, <1>18, <2>3 DEF ChainCore, Lab11!InRow, Lab11!Walking
  <2>4. QED
    BY <1>27, <2>1, <2>2, <2>3 DEF Lab11!InRow
<1>29. Lab11!Apart'
  <2> SUFFICES ASSUME pc'[0] \notin {"destroy", "end"}
               PROVE  Lab11!Front(1)' < Lab11!Pos(0)' /\ Lab11!Front(0)' < Lab11!Pos(1)' + Mutexes
    BY DEF Lab11!Apart
  <2>1. pc[0] \notin {"destroy", "end"}
    BY <1>1, <1>7
  <2>2. /\ Lab11!Front(1) < Lab11!Pos(0) /\ Lab11!Front(0) < Lab11!Pos(1) + Mutexes
    BY <1>8, <2>1 DEF ChainCore, Lab11!Apart
  <2>3. PICK x, y \in Int : x = Lab11!Pos(0) /\ y = Lab11!Pos(1)
    BY <2>1, ChainPlace
  <2>4. PICK g, e \in Int : g = Lab11!Front(0) /\ e = Lab11!Front(1)
    BY <2>1, ChainPlace
  <2>5. CASE t = 0
    <3>1. Lab11!Pos(0)' = x + 1 /\ Lab11!Pos(1)' = y
      BY <1>3, <1>4, <2>3, <2>5 DEF Lab11!Pos
    <3>2. Lab11!Front(0)' = g /\ Lab11!Front(1)' = e
      BY <1>1, <1>6, <1>7, <2>3, <2>4, <2>5, <3>1 DEF Lab11!Front
    <3>3. QED
      BY <2>2, <2>3, <2>4, <3>1, <3>2
  <2>6. CASE t = 1
    <3>1. Lab11!Pos(0)' = x /\ Lab11!Pos(1)' = y + 1
      BY <1>3, <1>4, <2>3, <2>6 DEF Lab11!Pos
    <3>2. Lab11!Front(0)' = g /\ Lab11!Front(1)' = e
      BY <1>1, <1>6, <1>7, <2>3, <2>4, <2>6, <3>1 DEF Lab11!Front
    <3>3. QED
      BY <2>2, <2>3, <2>4, <3>1, <3>2
  <2>7. QED
    BY <2>5, <2>6
<1>30. pc'[0] = "giveup" => printed[0] = Lines
  <2>1. CASE t = 0 /\ l = "giveup"
    <3>1. Mutexes * w = Mutexes * Lines
      BY <1>6, <1>19, <1>21, <1>22, <1>23, <1>24, <1>25, <2>1
    <3>2. ~(w < Lines)
      <4> SUFFICES ASSUME w < Lines PROVE FALSE
        OBVIOUS
      <4>1. p + Mutexes = f + Mutexes /\ w - 1 \in Int /\ Lines - 1 \in Int
        BY <1>21, <3>1
      <4>2. Mutexes * (w + 1) = (p + Mutexes) + Mutexes
        BY <1>21
      <4>3. Mutexes * Lines < Mutexes * (w + 1)
        BY <1>21, <4>1, <4>2
      <4>4. Lines < w + 1
        BY <4>3, RowOrder
      <4>5. QED
        BY <4>4
    <3>3. QED
      BY <1>20, <2>1, <3>2
  <2>2. CASE t = 1
    BY <1>7, <1>8, <2>2 DEF ChainCore, Lab11!Phases
  <2>3. QED
    BY <1>7, <2>1, <2>2
<1>31. pc[0] \in {"destroy", "end"} =>
           Lab11!Pos(1)' > Mutexes * (Lines - 1) /\ pc'[1] # "print"
  <2> SUFFICES ASSUME pc[0] \in {"destroy", "end"}
               PROVE  Lab11!Pos(1)' > Mutexes * (Lines - 1) /\ pc'[1] # "print"
    OBVIOUS
  <2>1. t = 1 /\ Lab11!Pos(1) > Mutexes * (Lines - 1)
    BY <1>1, <1>8 DEF ChainCore, Lab11!Phases
  <2>2. a + 1 > f /\ Lab11!Pos(1)' = a + 1
    <3>1. Lab11!Pos(1) = a /\ Lab11!Pos(1)' = a + 1
      BY <1>3, <1>4, <1>19, <2>1 DEF Lab11!Pos
    <3>2. QED
      BY <1>21, <2>1, <3>1
  <2>3. l # "print"
    <3> SUFFICES ASSUME l = "print" PROVE FALSE
      OBVIOUS
    <3>1. n = 0 /\ k + 1 < Mutexes * Lines
      BY <1>6
    <3>2. a + 1 = p + Mutexes
      BY <1>22, <1>23, <1>24, <3>1
    <3>3. Mutexes * w < Mutexes * Lines /\ Mutexes * (Lines - 1) < Mutexes * w
      BY <1>19, <1>21, <2>1, <2>2, <3>1, <3>2
    <3>4. w < Lines /\ Lines - 1 < w
      BY <3>3, RowOrder
    <3>5. QED
      BY <3>4
  <2>4. QED
    BY <1>7, <1>21, <2>1, <2>2, <2>3
<1>32. Lab11!Phases'
  BY <1>1, <1>3, <1>4, <1>5, <1>6, <1>7, <1>8, <1>30, <1>31
     DEF ChainCore, Lab11!Phases, Lab11!Started, Lab11!Walking
<1>33. QED
  BY <1>15, <1>16, <1>17, <1>28, <1>29, <1>32 DEF ChainCore

\* Every step of lab11.c.
LEMMA ChainSteps == ASSUME ChainCore, Lab11!Next PROVE ChainCore'
<1>1. CASE Lab11!MainStep \/ Lab11!CreateFails \/ Lab11!First
  BY <1>1, ChainCreates, ChainTries, ChainUntries, ChainLeaves, ChainDestroys, ChainBegins
     DEF Lab11!MainStep
<1>2. ASSUME NEW t \in {0, 1}, Lab11!Loop(t) PROVE ChainCore'
  BY <1>2, ChainPrints, ChainLocks, ChainUnlocks DEF Lab11!Loop
<1>3. QED
  BY <1>1, <1>2 DEF Lab11!Next, Lab11!Threads, Lab11!Main, Lab11!Child

\* Every step of lab11.c prints the line of the thread whose turn it is, or none.
LEMMA ChainInTurn ==
    ASSUME ChainCore, Lab11!Next PROVE [Lab11!Alternation!Next]_printed
<1> USE ChainSizes DEF Lab11!Threads, Lab11!Main, Lab11!Child
<1>1. ASSUME NEW t \in {0, 1}, Lab11!PrintLine(t) PROVE Lab11!Alternation!Next
  <2>1. pc[t] = "print" /\ printed' = [printed EXCEPT ![t] = @ + 1]
    BY <1>1 DEF Lab11!PrintLine
  <2>2. /\ printed[t] < Lines
        /\ printed[0] = IF t = 0 THEN printed[1] ELSE printed[1] + 1
    BY <2>1, ChainTurn
  <2>3. Lab11!Alternation!Place(0) = 0 /\ Lab11!Alternation!Place(1) = 1
    BY DEF Lab11!Alternation!Place
  <2>4. \A u \in {0, 1} : printed[u] \in Nat
    BY DEF ChainCore, Lab11!TypeOK
  <2>5. Lab11!Alternation!Parties = {0, 1}
    BY DEF Lab11!Alternation!Parties
  <2>6. Lab11!Alternation!Turn(t)
    <3>1. CASE t = 0
      BY <2>2, <2>3, <2>4, <2>5, <3>1 DEF Lab11!Alternation!Turn
    <3>2. CASE t = 1
      BY <2>2, <2>3, <2>4, <2>5, <3>2 DEF Lab11!Alternation!Turn
    <3>3. QED
      BY <3>1, <3>2
  <2>7. QED
    BY <2>1, <2>2, <2>5, <2>6 DEF Lab11!Alternation!Next, Lab11!Alternation!PrintLine
<1>2. (\E t \in {0, 1} : Lab11!PrintLine(t)) \/ printed' = printed
  BY DEF Lab11!Next, Lab11!MainStep, Lab11!Create, Lab11!CreateFails, Lab11!Try, Lab11!Untry,
         Lab11!Leave, Lab11!Destroy, Lab11!First, Lab11!Loop, Lab11!LockNext, Lab11!UnlockCurrent
<1>3. QED
  BY <1>1, <1>2
-----------------------------------------------------------------------------
(* The exercises as they are. *)

\* lab14.c is the ring of two whose child destroys.
LEMMA Ring14 ==
    /\ IsRing(2, 1, 0)
    /\ Lab14!Init => R(2, 1, 0)!Init
    /\ Lab14!Next => R(2, 1, 0)!Next
    /\ R(2, 1, 0)!Inv => Lab14!Inv
    /\ R(2, 1, 0)!Ring!Next => Lab14!Ring!Next
<1>1. IsRing(2, 1, 0)
  BY DEF IsRing
<1>2. Lab14!Init => R(2, 1, 0)!Init
  BY DEF Lab14!Init, R!Init, Lab14!Parties, R!Parties, Lab14!FirstValue, R!FirstValue
<1>3. Lab14!Next => R(2, 1, 0)!Next
  BY DEF Lab14!Next, R!Next, Lab14!Creates, R!Creates, Lab14!CreateFails, R!CreateFails,
         Lab14!Destroys, R!Destroys, Lab14!MayDestroy, R!MayDestroy, Lab14!Party, R!Party,
         Lab14!Waits, R!Waits, Lab14!Prints, R!Prints, Lab14!Posts, R!Posts, Lab14!Uses,
         R!Uses, Lab14!Raised, R!Raised, Lab14!PostsTo, R!PostsTo, Lab14!LinesOf, R!LinesOf,
         Lab14!Exited, R!Exited, Lab14!IsNext, R!IsNext, Lab14!Parties, R!Parties, Lab14!Up,
         R!Up
<1>4. R(2, 1, 0)!Inv => Lab14!Inv
  BY DEF Lab14!Inv, R!Inv, Lab14!TypeOK, R!TypeOK, Lab14!OneTurn, R!OneTurn,
         Lab14!MisusedLastOnly, R!MisusedLastOnly, Lab14!Passing, R!Passing, Lab14!HasTurn,
         R!HasTurn, Lab14!Ahead, R!Ahead, Lab14!Ring!Place, R!Ring!Place, Lab14!Holders,
         R!Holders, Lab14!Unclaimed, R!Unclaimed, Lab14!Rounds, R!Rounds, Lab14!InOrder,
         R!InOrder, Lab14!Destruction, R!Destruction, Lab14!Exited, R!Exited, Lab14!Parties,
         R!Parties
<1>5. R(2, 1, 0)!Ring!Next => Lab14!Ring!Next
  BY DEF Lab14!Ring!Next, R!Ring!Next, Lab14!Ring!PrintLine, R!Ring!PrintLine,
         Lab14!Ring!Turn, R!Ring!Turn, Lab14!Ring!Place, R!Ring!Place, Lab14!Ring!Parties,
         R!Ring!Parties
<1>6. QED
  BY <1>1, <1>2, <1>3, <1>4, <1>5

\* lab14,2.c is the ring of three whose second child destroys.
LEMMA Ring14_2 ==
    /\ IsRing(3, 1, 2)
    /\ Lab14_2!Init => R(3, 1, 2)!Init
    /\ Lab14_2!Next => R(3, 1, 2)!Next
    /\ R(3, 1, 2)!Inv => Lab14_2!Inv
    /\ R(3, 1, 2)!Ring!Next => Lab14_2!Ring!Next
<1>1. IsRing(3, 1, 2)
  BY DEF IsRing
<1>2. Lab14_2!Init => R(3, 1, 2)!Init
  BY DEF Lab14_2!Init, R!Init, Lab14_2!Parties, R!Parties, Lab14_2!FirstValue, R!FirstValue
<1>3. Lab14_2!Next => R(3, 1, 2)!Next
  BY DEF Lab14_2!Next, R!Next, Lab14_2!Creates, R!Creates, Lab14_2!CreateFails,
         R!CreateFails, Lab14_2!Destroys, R!Destroys, Lab14_2!MayDestroy, R!MayDestroy,
         Lab14_2!Party, R!Party, Lab14_2!Waits, R!Waits, Lab14_2!Prints, R!Prints,
         Lab14_2!Posts, R!Posts, Lab14_2!Uses, R!Uses, Lab14_2!Raised, R!Raised,
         Lab14_2!PostsTo, R!PostsTo, Lab14_2!LinesOf, R!LinesOf, Lab14_2!Exited, R!Exited,
         Lab14_2!IsNext, R!IsNext, Lab14_2!Parties, R!Parties, Lab14_2!Up, R!Up
<1>4. R(3, 1, 2)!Inv => Lab14_2!Inv
  BY DEF Lab14_2!Inv, R!Inv, Lab14_2!TypeOK, R!TypeOK, Lab14_2!OneTurn, R!OneTurn,
         Lab14_2!MisusedLastOnly, R!MisusedLastOnly, Lab14_2!Passing, R!Passing,
         Lab14_2!HasTurn, R!HasTurn, Lab14_2!Ahead, R!Ahead, Lab14_2!Ring!Place,
         R!Ring!Place, Lab14_2!Holders, R!Holders, Lab14_2!Unclaimed, R!Unclaimed,
         Lab14_2!Rounds, R!Rounds, Lab14_2!InOrder, R!InOrder, Lab14_2!Destruction,
         R!Destruction, Lab14_2!Exited, R!Exited, Lab14_2!Parties, R!Parties
<1>5. R(3, 1, 2)!Ring!Next => Lab14_2!Ring!Next
  BY DEF Lab14_2!Ring!Next, R!Ring!Next, Lab14_2!Ring!PrintLine, R!Ring!PrintLine,
         Lab14_2!Ring!Turn, R!Ring!Turn, Lab14_2!Ring!Place, R!Ring!Place,
         Lab14_2!Ring!Parties, R!Ring!Parties
<1>6. QED
  BY <1>1, <1>2, <1>3, <1>4, <1>5

\* lab16.c is the ring of two that nobody destroys.
LEMMA Ring16 ==
    /\ IsRing(2, 1, 2)
    /\ Lab16!Init => R(2, 1, 2)!Init
    /\ Lab16!Next => R(2, 1, 2)!Next
    /\ R(2, 1, 2)!Inv => Lab16!Inv
    /\ R(2, 1, 2)!Ring!Next => Lab16!Ring!Next
<1>1. IsRing(2, 1, 2)
  BY DEF IsRing
<1>2. Lab16!Init => R(2, 1, 2)!Init
  BY DEF Lab16!Init, R!Init, Lab16!Parties, R!Parties, Lab16!FirstValue, R!FirstValue
<1>3. Lab16!Next => R(2, 1, 2)!Next
  BY DEF Lab16!Next, R!Next, Lab16!Creates, R!Creates, Lab16!CreateFails, R!CreateFails,
         Lab16!Destroys, R!Destroys, Lab16!MayDestroy, R!MayDestroy, Lab16!Party, R!Party,
         Lab16!Waits, R!Waits, Lab16!Prints, R!Prints, Lab16!Posts, R!Posts, Lab16!Uses,
         R!Uses, Lab16!Raised, R!Raised, Lab16!PostsTo, R!PostsTo, Lab16!LinesOf, R!LinesOf,
         Lab16!Exited, R!Exited, Lab16!IsNext, R!IsNext, Lab16!Parties, R!Parties, Lab16!Up,
         R!Up
<1>4. R(2, 1, 2)!Inv => Lab16!Inv
  BY DEF Lab16!Inv, R!Inv, Lab16!TypeOK, R!TypeOK, Lab16!OneTurn, R!OneTurn,
         Lab16!MisusedLastOnly, R!MisusedLastOnly, Lab16!Passing, R!Passing, Lab16!HasTurn,
         R!HasTurn, Lab16!Ahead, R!Ahead, Lab16!Ring!Place, R!Ring!Place, Lab16!Holders,
         R!Holders, Lab16!Unclaimed, R!Unclaimed, Lab16!Rounds, R!Rounds, Lab16!InOrder,
         R!InOrder, Lab16!Destruction, R!Destruction, Lab16!Exited, R!Exited, Lab16!Parties,
         R!Parties
<1>5. R(2, 1, 2)!Ring!Next => Lab16!Ring!Next
  BY DEF Lab16!Ring!Next, R!Ring!Next, Lab16!Ring!PrintLine, R!Ring!PrintLine,
         Lab16!Ring!Turn, R!Ring!Turn, Lab16!Ring!Place, R!Ring!Place, Lab16!Ring!Parties,
         R!Ring!Parties
<1>6. QED
  BY <1>1, <1>2, <1>3, <1>4, <1>5

-----------------------------------------------------------------------------
(* lab10.c: philosophers. *)

\* The types and bounds of the constants, one by one.
LEMMA WorkSizes ==
    /\ Count \in Nat /\ Count >= 1 /\ Chunk \in Nat /\ Chunk >= 1
    /\ Philo \in Nat /\ Philo >= 1 /\ Food \in Nat /\ Food >= 1 /\ MaxRounds \in Nat
  BY ThreadLabsAssumption

Dinners == Lab10!TypeOK /\ Lab10!NoDishTwice /\ Lab10!ForksHeld /\ Lab10!DishesApart

\* Forks that are held keep neighbours apart: the fork between two of them is
\* in one hand.  When all are done no dish is on the table or in front of
\* anybody, so that all but the last are eaten.
LEMMA DinnerInv == ASSUME Dinners PROVE Lab10!Inv
<1> USE DEF Lab10!Phils, Lab10!Nobody, Lab10!Broken
<1>1. Lab10!NeighboursApart
  <2> SUFFICES ASSUME NEW id \in Lab10!Phils, id + 1 \in Lab10!Phils,
                      pc[id] = "eat", pc[id + 1] = "eat"
               PROVE  FALSE
    BY DEF Lab10!NeighboursApart
  <2>1. id \in Nat /\ id + 1 # 0
    BY WorkSizes
  <2>2. forks[id + 1] = id + 1
    BY <2>1 DEF Dinners, Lab10!ForksHeld, Lab10!FirstFork, Lab10!Right
  <2>3. forks[id + 1] = id
    BY <2>1 DEF Dinners, Lab10!ForksHeld, Lab10!FirstFork, Lab10!SecondFork, Lab10!Left
  <2>4. QED
    BY <2>1, <2>2, <2>3
<1>2. Lab10!LastDishLeft
  <2> SUFFICES ASSUME Lab10!AllDone PROVE Lab10!Meals = 1 .. Food - 1
    BY DEF Lab10!LastDishLeft
  <2>1. 0 \in Lab10!Phils
    BY WorkSizes
  <2>2. food = 0
    BY <2>1 DEF Lab10!AllDone, Dinners, Lab10!DishesApart
  <2>3. \A d \in 1 .. Food - 1 : d \in Lab10!Meals
    BY <2>2, WorkSizes DEF Lab10!AllDone, Dinners, Lab10!DishesApart, Lab10!Dining
  <2>4. Lab10!Meals \subseteq 1 .. Food - 1
    BY DEF Lab10!Meals, Dinners, Lab10!TypeOK
  <2>5. QED
    BY <2>3, <2>4
<1>3. QED
  BY <1>1, <1>2 DEF Dinners, Lab10!Inv

\* Nothing is taken, served or eaten yet.
LEMMA DinnerStarts == ASSUME Lab10!Init PROVE Dinners
<1> USE WorkSizes DEF Lab10!Phils, Lab10!Forks, Lab10!Nobody, Lab10!Broken
<1>1. Lab10!TypeOK
  BY DEF Lab10!Init, Lab10!TypeOK
<1>2. Lab10!Meals = {}
  BY DEF Lab10!Init, Lab10!Meals
<1>3. \A p \in Lab10!Phils : pc[p] = "table" /\ eaten[p] = {}
  BY DEF Lab10!Init
<1>4. Lab10!NoDishTwice /\ Lab10!ForksHeld
  BY <1>3 DEF Lab10!NoDishTwice, Lab10!ForksHeld
<1>5. Lab10!DishesApart
  BY <1>2, <1>3 DEF Lab10!Init, Lab10!DishesApart, Lab10!Dining
<1>6. QED
  BY <1>1, <1>4, <1>5 DEF Dinners

\* A dish is the next one on the table, or the end of the meal.
LEMMA Serving == ASSUME Dinners, NEW id \in Lab10!Phils, Lab10!FoodOnTable(id) PROVE Dinners'
<1> USE WorkSizes DEF Lab10!Phils, Lab10!Forks, Lab10!Nobody, Lab10!Broken
<1>1. /\ pc[id] = "table" /\ food \in Nat /\ food <= Food
      /\ food' = IF food > 0 THEN food - 1 ELSE 0
      /\ dish' = [dish EXCEPT ![id] = IF food > 0 THEN food - 1 ELSE 0]
      /\ pc' = [pc EXCEPT ![id] = IF food <= 1 THEN "done" ELSE "first"]
      /\ UNCHANGED <<forks, eaten>>
  <2>1. food \in Nat /\ food <= Food
    BY DEF Dinners, Lab10!TypeOK
  <2>2. Lab10!NoDish(Lab10!Served) <=> food <= 1
    BY <2>1 DEF Lab10!NoDish, Lab10!Served
  <2>3. /\ pc[id] = "table" /\ food' = Lab10!Remaining
        /\ dish' = [dish EXCEPT ![id] = Lab10!Served]
        /\ pc' = [pc EXCEPT ![id] = IF Lab10!NoDish(Lab10!Served) THEN "done" ELSE "first"]
        /\ UNCHANGED <<forks, eaten>>
    BY DEF Lab10!FoodOnTable, Lab10!Goto
  <2>4. /\ Lab10!Served = IF food > 0 THEN food - 1 ELSE 0
        /\ Lab10!Remaining = IF food > 0 THEN food - 1 ELSE 0
    BY DEF Lab10!Served, Lab10!Remaining
  <2>5. pc' = [pc EXCEPT ![id] = IF food <= 1 THEN "done" ELSE "first"]
    BY <2>2, <2>3
  <2>6. QED
    BY <2>1, <2>3, <2>4, <2>5
<1>2. Lab10!TypeOK'
  BY <1>1 DEF Dinners, Lab10!TypeOK
<1>3. /\ \A p \in Lab10!Phils \ {id} : pc'[p] = pc[p] /\ dish'[p] = dish[p]
      /\ pc'[id] = IF food <= 1 THEN "done" ELSE "first"
      /\ dish'[id] = IF food > 0 THEN food - 1 ELSE 0
      /\ Lab10!Meals' = Lab10!Meals
  BY <1>1 DEF Dinners, Lab10!TypeOK, Lab10!Meals
<1>4. Lab10!ForksHeld'
  BY <1>1, <1>3 DEF Dinners, Lab10!ForksHeld, Lab10!FirstFork, Lab10!SecondFork, Lab10!Right,
                    Lab10!Left
<1>5. Lab10!NoDishTwice'
  BY <1>1, <1>3 DEF Dinners, Lab10!NoDishTwice, Lab10!DishesApart
<1>6. Lab10!DishesApart'
  <2>1. \A p \in Lab10!Phils : dish[p] \in Nat
    BY DEF Dinners, Lab10!TypeOK
  <2>2. \A p \in Lab10!Phils : pc'[p] \in Lab10!Dining => dish'[p] >= food' /\ dish'[p] # 0
    BY <1>1, <1>3, <2>1 DEF Dinners, Lab10!DishesApart, Lab10!Dining
  <2>3. \A p, q \in Lab10!Phils :
          p # q /\ pc'[p] \in Lab10!Dining /\ pc'[q] \in Lab10!Dining => dish'[p] # dish'[q]
    BY <1>1, <1>3, <2>1 DEF Dinners, Lab10!DishesApart, Lab10!Dining
  <2>4. \A d \in Lab10!Meals : d \in Nat /\ d >= food'
    <3>1. \A d \in Lab10!Meals : d \in Nat
      BY DEF Dinners, Lab10!TypeOK, Lab10!Meals
    <3>2. food' \in Nat /\ food' <= food
      BY <1>1
    <3>3. \A d \in Lab10!Meals : d >= food
      BY DEF Dinners, Lab10!DishesApart
    <3>4. QED
      BY <1>1, <3>1, <3>2, <3>3
  <2>5. ASSUME NEW d \in 1 .. Food - 1, d >= food'
        PROVE  \/ d \in Lab10!Meals
               \/ \E p \in Lab10!Phils : pc'[p] \in Lab10!Dining /\ dish'[p] = d
    <3>1. CASE d >= food
      BY <1>1, <1>3, <3>1 DEF Dinners, Lab10!DishesApart, Lab10!Dining
    <3>2. CASE d < food
      <4>1. d = food - 1 /\ food > 1
        BY <1>1, <2>5, <3>2
      <4>2. pc'[id] \in Lab10!Dining /\ dish'[id] = d
        BY <1>1, <1>3, <4>1 DEF Lab10!Dining
      <4>3. QED
        BY <4>2
    <3>3. QED
      BY <1>1, <3>1, <3>2
  <2>6. \A p \in Lab10!Phils : pc'[p] = "done" => food' = 0
    BY <1>1, <1>3 DEF Dinners, Lab10!DishesApart
  <2>7. QED
    BY <1>3, <2>2, <2>3, <2>4, <2>5, <2>6 DEF Lab10!DishesApart
<1>7. QED
  BY <1>2, <1>4, <1>5, <1>6 DEF Dinners

\* A fork is taken by one who has none of the others' (get_fork).
LEMMA Taking ==
    ASSUME Dinners, NEW id \in Lab10!Phils, Lab10!TakeFirst(id) \/ Lab10!TakeSecond(id)
    PROVE  Dinners'
<1> USE WorkSizes DEF Lab10!Phils, Lab10!Forks, Lab10!Nobody, Lab10!Broken
<1>1. PICK k \in Lab10!Forks :
        /\ forks[k] = Lab10!Nobody /\ forks' = [forks EXCEPT ![k] = id]
        /\ \/ /\ pc[id] = "first" /\ k = Lab10!FirstFork(id)
              /\ pc' = [pc EXCEPT ![id] = "second"]
           \/ /\ pc[id] = "second" /\ k = Lab10!SecondFork(id)
              /\ pc' = [pc EXCEPT ![id] = "eat"]
        /\ UNCHANGED <<food, dish, eaten>>
  BY DEF Lab10!TakeFirst, Lab10!TakeSecond, Lab10!Take, Lab10!Free, Lab10!Goto,
         Lab10!FirstFork, Lab10!SecondFork, Lab10!Right, Lab10!Left
<1>2. Lab10!TypeOK'
  BY <1>1 DEF Dinners, Lab10!TypeOK
<1>3. /\ \A p \in Lab10!Phils \ {id} : pc'[p] = pc[p]
      /\ pc[id] \in Lab10!Dining /\ pc'[id] \in Lab10!Dining
      /\ \A p \in Lab10!Phils : pc'[p] \in Lab10!Dining <=> pc[p] \in Lab10!Dining
      /\ \A p \in Lab10!Phils : pc'[p] = "done" => pc[p] = "done"
      /\ Lab10!Meals' = Lab10!Meals
  BY <1>1 DEF Dinners, Lab10!TypeOK, Lab10!Meals, Lab10!Dining
<1>4. Lab10!ForksHeld'
  <2>1. /\ forks'[k] = id
        /\ \A l \in Lab10!Forks : forks[l] # Lab10!Nobody => l # k /\ forks'[l] = forks[l]
    BY <1>1 DEF Dinners, Lab10!TypeOK
  <2>2. ASSUME NEW p \in Lab10!Phils
        PROVE  /\ pc'[p] \in {"second", "eat"} => forks'[Lab10!FirstFork(p)] = p
               /\ pc'[p] = "eat" => forks'[Lab10!SecondFork(p)] = p
               /\ pc'[p] = "down" => forks'[Lab10!Right(p)] = p
    <3>1. /\ Lab10!FirstFork(p) \in Lab10!Forks /\ Lab10!SecondFork(p) \in Lab10!Forks
          /\ Lab10!Right(p) \in Lab10!Forks /\ p # Lab10!Nobody
      BY DEF Lab10!FirstFork, Lab10!SecondFork, Lab10!Right, Lab10!Left
    <3>2. CASE p = id
      BY <1>1, <2>1, <3>1, <3>2 DEF Dinners, Lab10!TypeOK, Lab10!ForksHeld
    <3>3. CASE p # id
      BY <1>3, <2>1, <3>1, <3>3 DEF Dinners, Lab10!ForksHeld
    <3>4. QED
      BY <3>2, <3>3
  <2>3. QED
    BY <2>2 DEF Lab10!ForksHeld, Lab10!FirstFork, Lab10!SecondFork, Lab10!Right, Lab10!Left
<1>5. Lab10!NoDishTwice'
  BY <1>1, <1>3 DEF Dinners, Lab10!NoDishTwice, Lab10!Dining
<1>6. Lab10!DishesApart'
  BY <1>1, <1>3 DEF Dinners, Lab10!DishesApart
<1>7. QED
  BY <1>2, <1>4, <1>5, <1>6 DEF Dinners

\* The dish of one who eats is his alone and has been nobody's; the left fork
\* is put down, the right one still held (philosopher, down_forks).
LEMMA EatingDish == ASSUME Dinners, NEW id \in Lab10!Phils, Lab10!Eat(id) PROVE Dinners'
<1> USE WorkSizes DEF Lab10!Phils, Lab10!Forks, Lab10!Nobody, Lab10!Broken
<1>1. /\ pc[id] = "eat" /\ eaten' = [eaten EXCEPT ![id] = @ \union {dish[id]}]
      /\ forks' = [forks EXCEPT ![id + 1] = Lab10!Nobody]
      /\ pc' = [pc EXCEPT ![id] = "down"]
      /\ UNCHANGED <<food, dish>>
  BY DEF Lab10!Eat, Lab10!Goto, Lab10!DownLeft, Lab10!Left
<1>2. /\ dish[id] \in 1 .. Food - 1 /\ dish[id] >= food /\ dish[id] \notin Lab10!Meals
      /\ \A p \in Lab10!Phils \ {id} : pc[p] \in Lab10!Dining => dish[p] # dish[id]
  BY <1>1 DEF Dinners, Lab10!TypeOK, Lab10!DishesApart, Lab10!NoDishTwice, Lab10!Dining
<1>3. /\ \A p \in Lab10!Phils \ {id} : pc'[p] = pc[p] /\ eaten'[p] = eaten[p]
      /\ pc'[id] = "down" /\ eaten'[id] = eaten[id] \union {dish[id]}
      /\ \A p \in Lab10!Phils : pc'[p] \in Lab10!Dining <=> pc[p] \in Lab10!Dining /\ p # id
  BY <1>1 DEF Dinners, Lab10!TypeOK, Lab10!Dining
<1>4. Lab10!Meals' = Lab10!Meals \union {dish[id]}
  BY <1>1, <1>3 DEF Lab10!Meals
<1>5. Lab10!TypeOK'
  BY <1>1, <1>2 DEF Dinners, Lab10!TypeOK
<1>6. Lab10!ForksHeld'
  <2>1. /\ forks[Lab10!Right(id)] = id /\ forks[Lab10!Left(id)] = id
        /\ Lab10!Left(id) = id + 1 /\ Lab10!Right(id) = id
    BY <1>1 DEF Dinners, Lab10!ForksHeld, Lab10!FirstFork, Lab10!SecondFork, Lab10!Right,
                Lab10!Left
  <2>2. ASSUME NEW p \in Lab10!Phils
        PROVE  /\ pc'[p] \in {"second", "eat"} => forks'[Lab10!FirstFork(p)] = p
               /\ pc'[p] = "eat" => forks'[Lab10!SecondFork(p)] = p
               /\ pc'[p] = "down" => forks'[Lab10!Right(p)] = p
    <3>1. /\ Lab10!FirstFork(p) \in Lab10!Forks /\ Lab10!SecondFork(p) \in Lab10!Forks
          /\ Lab10!Right(p) \in Lab10!Forks
      BY DEF Lab10!FirstFork, Lab10!SecondFork, Lab10!Right, Lab10!Left
    <3>2. \A l \in Lab10!Forks : l # id + 1 => forks'[l] = forks[l]
      BY <1>1 DEF Dinners, Lab10!TypeOK
    <3>3. CASE p = id
      BY <1>3, <2>1, <3>1, <3>2, <3>3
    <3>4. CASE p # id
      BY <1>3, <2>1, <3>1, <3>2, <3>4 DEF Dinners, Lab10!ForksHeld
    <3>5. QED
      BY <3>3, <3>4
  <2>3. QED
    BY <2>2 DEF Lab10!ForksHeld, Lab10!FirstFork, Lab10!SecondFork, Lab10!Right, Lab10!Left
<1>7. Lab10!NoDishTwice'
  <2>1. \A p \in Lab10!Phils : dish[id] \notin eaten[p]
    BY <1>2 DEF Lab10!Meals
  <2>2. \A p, q \in Lab10!Phils : p # q => eaten'[p] \intersect eaten'[q] = {}
    BY <1>3, <2>1 DEF Dinners, Lab10!NoDishTwice
  <2>3. \A p \in Lab10!Phils : pc'[p] \in {"first", "second", "eat"} => dish'[p] \notin Lab10!Meals'
    BY <1>1, <1>2, <1>3, <1>4 DEF Dinners, Lab10!NoDishTwice, Lab10!Dining
  <2>4. QED
    BY <2>2, <2>3 DEF Lab10!NoDishTwice
<1>8. Lab10!DishesApart'
  <2>1. \A p \in Lab10!Phils : pc'[p] \in Lab10!Dining => dish'[p] >= food' /\ dish'[p] # 0
    BY <1>1, <1>3 DEF Dinners, Lab10!DishesApart
  <2>2. \A p, q \in Lab10!Phils :
          p # q /\ pc'[p] \in Lab10!Dining /\ pc'[q] \in Lab10!Dining => dish'[p] # dish'[q]
    BY <1>1, <1>3 DEF Dinners, Lab10!DishesApart
  <2>3. \A d \in Lab10!Meals' : d >= food'
    BY <1>1, <1>2, <1>4 DEF Dinners, Lab10!DishesApart
  <2>4. ASSUME NEW d \in 1 .. Food - 1, d >= food'
        PROVE  \/ d \in Lab10!Meals'
               \/ \E p \in Lab10!Phils : pc'[p] \in Lab10!Dining /\ dish'[p] = d
    BY <1>1, <1>3, <1>4, <2>4 DEF Dinners, Lab10!DishesApart
  <2>5. \A p \in Lab10!Phils : pc'[p] = "done" => food' = 0
    BY <1>1, <1>3 DEF Dinners, Lab10!DishesApart
  <2>6. QED
    BY <2>1, <2>2, <2>3, <2>4, <2>5 DEF Lab10!DishesApart
<1>9. QED
  BY <1>5, <1>6, <1>7, <1>8 DEF Dinners

\* The right fork is put down by who holds it (down_forks).
LEMMA PuttingDown == ASSUME Dinners, NEW id \in Lab10!Phils, Lab10!DownRight(id) PROVE Dinners'
<1> USE WorkSizes DEF Lab10!Phils, Lab10!Forks, Lab10!Nobody, Lab10!Broken
<1>1. /\ pc[id] = "down" /\ forks' = [forks EXCEPT ![id] = Lab10!Nobody]
      /\ pc' = [pc EXCEPT ![id] = "table"]
      /\ UNCHANGED <<food, dish, eaten>>
  BY DEF Lab10!DownRight, Lab10!Goto, Lab10!Right
<1>2. Lab10!TypeOK'
  BY <1>1 DEF Dinners, Lab10!TypeOK
<1>3. /\ \A p \in Lab10!Phils \ {id} : pc'[p] = pc[p]
      /\ pc'[id] = "table" /\ Lab10!Meals' = Lab10!Meals
      /\ \A p \in Lab10!Phils : pc'[p] \in Lab10!Dining <=> pc[p] \in Lab10!Dining
      /\ \A p \in Lab10!Phils : pc'[p] = "done" => pc[p] = "done"
  BY <1>1 DEF Dinners, Lab10!TypeOK, Lab10!Meals, Lab10!Dining
<1>4. Lab10!ForksHeld'
  <2>1. forks[id] = id /\ \A l \in Lab10!Forks : l # id => forks'[l] = forks[l]
    BY <1>1 DEF Dinners, Lab10!TypeOK, Lab10!ForksHeld, Lab10!Right
  <2>2. ASSUME NEW p \in Lab10!Phils
        PROVE  /\ pc'[p] \in {"second", "eat"} => forks'[Lab10!FirstFork(p)] = p
               /\ pc'[p] = "eat" => forks'[Lab10!SecondFork(p)] = p
               /\ pc'[p] = "down" => forks'[Lab10!Right(p)] = p
    <3>1. /\ Lab10!FirstFork(p) \in Lab10!Forks /\ Lab10!SecondFork(p) \in Lab10!Forks
          /\ Lab10!Right(p) \in Lab10!Forks
      BY DEF Lab10!FirstFork, Lab10!SecondFork, Lab10!Right, Lab10!Left
    <3>2. QED
      BY <1>3, <2>1, <3>1 DEF Dinners, Lab10!ForksHeld
  <2>3. QED
    BY <2>2 DEF Lab10!ForksHeld, Lab10!FirstFork, Lab10!SecondFork, Lab10!Right, Lab10!Left
<1>5. Lab10!NoDishTwice'
  BY <1>1, <1>3 DEF Dinners, Lab10!NoDishTwice, Lab10!Dining
<1>6. Lab10!DishesApart'
  BY <1>1, <1>3 DEF Dinners, Lab10!DishesApart
<1>7. QED
  BY <1>2, <1>4, <1>5, <1>6 DEF Dinners

\* Every step of every philosopher.
LEMMA DinnerSteps == ASSUME Dinners, Lab10!Next PROVE Dinners'
  BY Serving, Taking, EatingDish, PuttingDown DEF Lab10!Next, Lab10!Philosopher

-----------------------------------------------------------------------------
(* Remainders. *)

\* q and n % c are quotient and remainder of n by c.
Parted(n, c, q) == n % c \in 0 .. c - 1 /\ n = c * q + (n % c)

\* Every number has a quotient.
LEMMA Division ==
    ASSUME NEW c \in Nat, c >= 1, NEW n \in Int
    PROVE  \E q \in Int : Parted(n, c, q)
<1>1. n = c * (n \div c) + (n % c) /\ n % c \in 0 .. c - 1 /\ n \div c \in Int
  OBVIOUS
<1>2. WITNESS n \div c \in Int
<1>3. QED
  BY <1>1 DEF Parted

\* The remainder of a multiple and something less than the divisor.
LEMMA Remainder ==
    ASSUME NEW c \in Nat, c >= 1, NEW q \in Int, NEW m \in 0 .. c - 1
    PROVE  (c * q + m) % c = m
  OBVIOUS

\* Different multiples are at least the divisor apart.
LEMMA Multiples ==
    ASSUME NEW c \in Nat, c >= 1, NEW p \in Int, NEW q \in Int, c * p < c * q
    PROVE  c * q - c * p >= c
<1>1. q - p - 1 \in Nat
  OBVIOUS
<1>2. PICK k \in Nat : q = p + 1 + k
  BY <1>1
<1>3. c * q = c * p + c + c * k /\ c * k \in Nat /\ c * p \in Int
  BY <1>2
<1>4. QED
  BY <1>3

\* Different numbers with the same remainder are at least the divisor apart.
LEMMA SameRemainder ==
    ASSUME NEW c \in Nat, c >= 1, NEW n \in Nat, NEW r \in Nat, n % c = r % c, n < r
    PROVE  r - n >= c
<1>1. n \in Int /\ r \in Int
  OBVIOUS
<1>2. PICK p \in Int : Parted(n, c, p)
  BY <1>1, Division
<1>3. PICK q \in Int : Parted(r, c, q)
  BY <1>1, Division
<1>4. PICK m \in Int, x \in Int, y \in Int : m = n % c /\ x = c * p /\ y = c * q
  BY <1>2 DEF Parted
<1>5. n = x + m /\ r = y + m
  BY <1>2, <1>3, <1>4 DEF Parted
<1>6. c * p < c * q
  BY <1>4, <1>5
<1>7. y - x >= c
  BY <1>4, <1>6, Multiples
<1>8. QED
  BY <1>5, <1>7

\* Numbers whose difference is a multiple have the same remainder.
LEMMA ShiftedRemainder ==
    ASSUME NEW c \in Nat, c >= 1, NEW n \in Nat, NEW r \in Nat, (n - r) % c = 0
    PROVE  n % c = r % c
<1>1. n - r \in Int /\ r \in Int
  OBVIOUS
<1>2. PICK p \in Int : Parted(n - r, c, p)
  BY <1>1, Division
<1>3. PICK q \in Int : Parted(r, c, q)
  BY <1>1, Division
<1>4. PICK m \in 0 .. c - 1 : m = r % c
  BY <1>3 DEF Parted
<1>5. n = c * (p + q) + m
  <2>1. PICK x \in Int, y \in Int : x = c * p /\ y = c * q
    OBVIOUS
  <2>2. c * (p + q) = x + y
    BY <2>1
  <2>3. n - r = x /\ r = y + m
    BY <1>2, <1>3, <1>4, <2>1 DEF Parted
  <2>4. QED
    BY <2>2, <2>3
<1>6. (c * (p + q) + m) % c = m
  <2>1. p + q \in Int
    OBVIOUS
  <2>2. QED
    BY <2>1, Remainder
<1>7. QED
  BY <1>4, <1>5, <1>6

\* Among as many numbers as the divisor, one has the remainder of n.
LEMMA FirstFrom ==
    ASSUME NEW c \in Nat, c >= 1, NEW n \in Nat, NEW end \in Nat, n < end
    PROVE  \E k \in end .. end + c - 1 : k >= n /\ (k - n) % c = 0
<1>1. PICK q \in Int, m \in 0 .. c - 1 : n - end = c * q + m
  <2>1. PICK d \in Int : d = n - end
    OBVIOUS
  <2>2. PICK q \in Int : Parted(d, c, q)
    BY Division
  <2>3. PICK m \in 0 .. c - 1 : m = d % c
    BY <2>2 DEF Parted
  <2>4. QED
    BY <2>1, <2>2, <2>3 DEF Parted
<1>2. PICK x \in Int : x = c * q
  OBVIOUS
<1>3. end + m \in end .. end + c - 1 /\ (end + m) - n = 0 - x
  BY <1>1, <1>2
<1>4. 0 - x = c * (0 - q) + 0 /\ 0 - q \in Int /\ 0 \in 0 .. c - 1
  BY <1>2
<1>5. (c * (0 - q) + 0) % c = 0
  BY <1>4, Remainder
<1>6. (0 - x) % c = 0
  BY <1>4, <1>5
<1>7. ((end + m) - n) % c = 0 /\ end + m >= n
  BY <1>3, <1>6
<1>8. QED
  BY <1>3, <1>7

-----------------------------------------------------------------------------
(* lab9.c: rounds and barriers. *)

SeriesCore ==
    /\ Lab9!TypeOK /\ Lab9!Creation /\ Lab9!Together
    /\ Lab9!Agreed /\ Lab9!Rounds /\ Lab9!Terms

\* The threads are all in the same half of a round; when the last one has
\* been joined each has stored the first of its terms it did not sum.
LEMMA SeriesInv == ASSUME SeriesCore PROVE Lab9!Inv
<1> USE WorkSizes DEF Lab9!Threads
<1>1. Lab9!SameRounds
  <2> SUFFICES ASSUME NEW t \in Lab9!Threads, NEW u \in Lab9!Threads,
                      pc[t] \in Lab9!Left, pc[u] # "new"
               PROVE  pc[u] \in Lab9!Left /\ loopIteration[u] = loopIteration[t]
    BY DEF Lab9!SameRounds, Lab9!Left
  <2>1. pc[u] \in Lab9!Left
    BY DEF SeriesCore, Lab9!Together, Lab9!Arriving, Lab9!Summing, Lab9!Left
  <2>2. Lab9!Current(u) = Lab9!Current(t)
    BY DEF SeriesCore, Lab9!Rounds
  <2>3. QED
    BY <2>1, <2>2 DEF Lab9!Current, Lab9!Left
<1>2. Lab9!PartialNeverPrints
  <2> SUFFICES ASSUME created < Count, created > 0, main = "end" PROVE FALSE
    BY DEF Lab9!PartialNeverPrints
  <2>1. created \in Nat /\ 0 \in Lab9!Threads /\ created \in Lab9!Threads
    BY DEF SeriesCore, Lab9!TypeOK
  <2>2. pc[created] = "new"
    BY <2>1 DEF SeriesCore, Lab9!Creation
  <2>3. joined = created
    BY DEF SeriesCore, Lab9!Creation
  <2>4. pc[0] = "end"
    BY <2>1, <2>3 DEF SeriesCore, Lab9!Creation
  <2>5. QED
    BY <2>1, <2>2, <2>4
       DEF SeriesCore, Lab9!Together, Lab9!Arriving, Lab9!Summing, Lab9!Left
<1>3. Lab9!WholePrefix
  <2> SUFFICES ASSUME main = "end", created = Count, NEW t \in Lab9!Threads
               PROVE  /\ result[t] % Count = t
                      /\ \A n \in 0 .. Chunk * (loopIterationMax - 1) + Count :
                             n % Count = t =>
                                 (n < result[t] <=> n < Chunk * (loopIterationMax - 1))
    BY DEF Lab9!WholePrefix
  <2>1. pc[t] = "end"
    BY DEF SeriesCore, Lab9!Creation
  <2>2. result[t] = i[t] /\ i[t] % Count = t /\ i[t] \in Nat
    BY <2>1 DEF SeriesCore, Lab9!Terms, Lab9!TypeOK
  <2>3. loopIteration[t] = loopIterationMax
    BY <2>1 DEF SeriesCore, Lab9!Rounds, Lab9!Left
  <2>4. PICK e : e = Chunk * (loopIterationMax - 1)
    OBVIOUS
  <2>5. e \in Int /\ e <= i[t] /\ i[t] < e + Count
    <3>1. loopIterationMax - 1 \in Int
      BY DEF SeriesCore, Lab9!TypeOK
    <3>2. QED
      BY <2>3, <2>4, <3>1 DEF SeriesCore, Lab9!Terms
  <2>6. ASSUME NEW n \in 0 .. e + Count, n % Count = t PROVE n < i[t] <=> n < e
    <3>1. n \in Nat
      BY <2>5
    <3>2. ASSUME n < i[t], n >= e PROVE FALSE
      <4>1. n % Count = i[t] % Count
        BY <2>2, <2>6
      <4>2. i[t] - n >= Count
        BY <2>2, <3>1, <3>2, <4>1, SameRemainder
      <4>3. QED
        BY <2>2, <2>5, <3>1, <3>2, <4>2
    <3>3. QED
      BY <2>2, <2>5, <3>1, <3>2
  <2>7. QED
    BY <2>2, <2>4, <2>6
<1>4. QED
  BY <1>1, <1>2, <1>3 DEF SeriesCore, Lab9!Inv

\* No thread has been created, and each stands on its first term.
LEMMA SeriesStarts == ASSUME Lab9!Init PROVE SeriesCore
<1> USE WorkSizes DEF Lab9!Threads, Lab9!Init
<1>1. \A t \in Lab9!Threads : t % Count = t
  <2> SUFFICES ASSUME NEW t \in Lab9!Threads PROVE t % Count = t
    OBVIOUS
  <2>1. 0 \in Int /\ t \in 0 .. Count - 1 /\ Count * 0 + t = t
    OBVIOUS
  <2>2. (Count * 0 + t) % Count = t
    BY <2>1, Remainder
  <2>3. QED
    BY <2>1, <2>2
<1>2. Lab9!TypeOK
  <2>1. i \in [Lab9!Threads -> Nat]
    OBVIOUS
  <2>2. \A t \in Lab9!Threads : i[t] = t
    OBVIOUS
  <2>3. \A t \in Lab9!Threads : i[t] % Count = t
    BY <1>1, <2>2
  <2>4. 0 \in Nat /\ 1 \in Nat /\ FALSE \in BOOLEAN
    OBVIOUS
  <2>5. pc \in [Lab9!Threads -> {"new", "top", "flag", "wait1", "check", "sum", "wait2",
                                "store", "end"}]
    OBVIOUS
  <2>6. /\ isSignalLocal \in [Lab9!Threads -> BOOLEAN]
        /\ loopIteration \in [Lab9!Threads -> Nat]
        /\ result \in [Lab9!Threads -> Nat]
    BY <2>4
  <2>7. created \in 0 .. Count /\ joined \in 0 .. created
    OBVIOUS
  <2>8. /\ isSignal \in BOOLEAN /\ isExitWhile \in BOOLEAN
        /\ loopIterationMax \in Nat
        /\ main \in {"start", "create", "join", "end"}
    OBVIOUS
  <2>9. QED
    BY <2>1, <2>3, <2>5, <2>6, <2>7, <2>8 DEF Lab9!TypeOK
<1>3. Lab9!Creation /\ Lab9!Together /\ Lab9!Agreed
  BY DEF Lab9!Creation, Lab9!Together, Lab9!Agreed, Lab9!Arriving
<1>4. Lab9!Rounds /\ Lab9!Terms
  BY DEF Lab9!Rounds, Lab9!Current, Lab9!Left, Lab9!Terms
<1>5. QED
  BY <1>2, <1>3, <1>4 DEF SeriesCore

\* What main, a signal and the end of a failed creation do to the flag, the
\* places and the threads' own variables: nothing.
LEMMA MainSteps ==
    ASSUME SeriesCore, Lab9!SigInt \/ Lab9!Start \/ Lab9!CreateFails \/ Lab9!Join \/ Lab9!Finish
    PROVE  SeriesCore'
<1> USE WorkSizes DEF Lab9!Threads, Lab9!locals, Lab9!mains
<1>1. /\ pc' = pc /\ isExitWhile' = isExitWhile /\ loopIterationMax' = loopIterationMax
      /\ isSignalLocal' = isSignalLocal /\ loopIteration' = loopIteration
      /\ i' = i /\ result' = result /\ created' = created
  BY DEF Lab9!SigInt, Lab9!Start, Lab9!CreateFails, Lab9!Join, Lab9!Finish
<1>2. isSignal' \in BOOLEAN
  BY DEF Lab9!SigInt, Lab9!Start, Lab9!CreateFails, Lab9!Join, Lab9!Finish,
         SeriesCore, Lab9!TypeOK
<1>3. /\ main' \in {"start", "create", "join", "end"}
      /\ main' = "start" => main = "start"
  BY DEF Lab9!SigInt, Lab9!Start, Lab9!CreateFails, Lab9!Join, Lab9!Finish,
         Lab9!AfterFailure, SeriesCore, Lab9!TypeOK
<1>4. joined' \in 0 .. created'
  <2>1. CASE Lab9!Join
    BY <1>1, <2>1 DEF Lab9!Join, SeriesCore, Lab9!TypeOK
  <2>2. CASE Lab9!SigInt \/ Lab9!Start \/ Lab9!CreateFails \/ Lab9!Finish
    BY <1>1, <2>2 DEF Lab9!SigInt, Lab9!Start, Lab9!CreateFails, Lab9!Finish,
                      SeriesCore, Lab9!TypeOK
  <2>3. QED
    BY <2>1, <2>2
<1>5. /\ \A t \in Lab9!Threads : t < joined' => pc[t] = "end"
      /\ main' = "end" => joined' = created
  <2>1. CASE Lab9!Join
    BY <2>1 DEF Lab9!Join, SeriesCore, Lab9!Creation, Lab9!TypeOK
  <2>2. CASE Lab9!SigInt \/ Lab9!Start \/ Lab9!CreateFails \/ Lab9!Finish
    BY <2>2 DEF Lab9!SigInt, Lab9!Start, Lab9!CreateFails, Lab9!Finish,
                Lab9!AfterFailure, SeriesCore, Lab9!Creation
  <2>3. QED
    BY <2>1, <2>2
<1>6. Lab9!TypeOK'
  BY <1>1, <1>2, <1>3, <1>4 DEF SeriesCore, Lab9!TypeOK
<1>7. Lab9!Creation'
  BY <1>1, <1>3, <1>5 DEF SeriesCore, Lab9!Creation
<1>8. Lab9!Together'
  BY <1>1 DEF SeriesCore, Lab9!Together
<1>9. Lab9!Agreed'
  BY <1>1 DEF SeriesCore, Lab9!Agreed
<1>10. Lab9!Rounds'
  BY <1>1 DEF SeriesCore, Lab9!Rounds, Lab9!Current
<1>11. Lab9!Terms'
  BY <1>1 DEF SeriesCore, Lab9!Terms
<1>12. QED
  BY <1>6, <1>7, <1>8, <1>9, <1>10, <1>11 DEF SeriesCore

Places == {"new", "top", "flag", "wait1", "check", "sum", "wait2", "store", "end"}

\* The place a thread goes to, as Goto leaves it.
LEMMA Going ==
    ASSUME SeriesCore, NEW t \in Lab9!Threads,
           NEW l \in Places,
           Lab9!Goto(t, l)
    PROVE  /\ pc' \in [Lab9!Threads -> Places]
           /\ pc'[t] = l
           /\ \A u \in Lab9!Threads : u # t => pc'[u] = pc[u]
  BY DEF SeriesCore, Lab9!TypeOK, Lab9!Goto, Places

\* The thread that is created was new, and so all are before the first wait.
LEMMA CreateStep == ASSUME SeriesCore, Lab9!Create PROVE SeriesCore'
<1> USE WorkSizes DEF Lab9!locals
<1>1. /\ isSignal' = isSignal /\ isExitWhile' = isExitWhile
      /\ loopIterationMax' = loopIterationMax
      /\ isSignalLocal' = isSignalLocal /\ loopIteration' = loopIteration
      /\ i' = i /\ result' = result /\ created' = created + 1 /\ joined' = joined
  BY DEF Lab9!Create
<1>2. /\ created \in Lab9!Threads /\ created \in Nat /\ created < Count
      /\ joined \in 0 .. created
  BY DEF Lab9!Create, SeriesCore, Lab9!TypeOK, Lab9!Threads
<1>3. Lab9!Goto(created, "top")
  BY DEF Lab9!Create
<1>4. /\ pc' \in [Lab9!Threads -> Places]
      /\ pc'[created] = "top"
      /\ \A u \in Lab9!Threads : u # created => pc'[u] = pc[u]
  BY <1>2, <1>3, Going DEF Places
<1>5. pc[created] = "new"
  BY <1>2 DEF SeriesCore, Lab9!Creation
<1>6. \A u \in Lab9!Threads : pc[u] \in Lab9!Arriving
  BY <1>2, <1>5 DEF SeriesCore, Lab9!Together, Lab9!Arriving, Lab9!Summing, Lab9!Left
<1>7. \A u \in Lab9!Threads : pc'[u] \in Lab9!Arriving
  BY <1>4, <1>6 DEF Lab9!Arriving
<1>8. main' \in {"create", "join"} /\ created' \in 0 .. Count /\ joined' \in 0 .. created'
  BY <1>1, <1>2 DEF Lab9!Create
<1>9. Lab9!TypeOK'
  BY <1>1, <1>4, <1>8 DEF SeriesCore, Lab9!TypeOK, Places
<1>10. Lab9!Creation'
  <2>1. \A u \in Lab9!Threads : pc'[u] = "new" <=> u >= created'
    BY <1>1, <1>2, <1>4 DEF SeriesCore, Lab9!Creation, Lab9!Threads
  <2>2. \A u \in Lab9!Threads : u < joined' => pc'[u] = "end"
    BY <1>1, <1>4, <1>5 DEF SeriesCore, Lab9!Creation
  <2>3. QED
    BY <1>8, <2>1, <2>2 DEF Lab9!Creation
<1>11. Lab9!Together'
  BY <1>7 DEF Lab9!Together
<1>12. Lab9!Agreed'
  BY <1>1, <1>2, <1>4 DEF SeriesCore, Lab9!Agreed
<1>13. Lab9!Rounds'
  <2>1. \A u \in Lab9!Threads : Lab9!Current(u)' = Lab9!Current(u)
    BY <1>1, <1>2, <1>4, <1>5 DEF Lab9!Current
  <2>2. QED
    BY <1>1, <1>2, <1>4, <1>5, <2>1 DEF SeriesCore, Lab9!Rounds, Lab9!Left
<1>14. Lab9!Terms'
  BY <1>1, <1>2, <1>4 DEF SeriesCore, Lab9!Terms
<1>15. QED
  BY <1>9, <1>10, <1>11, <1>12, <1>13, <1>14 DEF SeriesCore

\* A step of thread t that leaves main alone and is no end keeps the order of
\* creation.
LEMMA CreationKept ==
    ASSUME SeriesCore, NEW t \in Lab9!Threads, pc[t] \notin {"new", "end"},
           \A u \in Lab9!Threads : u # t => pc'[u] = pc[u], pc'[t] # "new",
           main' = main, created' = created, joined' = joined
    PROVE  Lab9!Creation'
<1>1. \A u \in Lab9!Threads : pc'[u] = "new" <=> u >= created'
  BY DEF SeriesCore, Lab9!Creation
<1>2. \A u \in Lab9!Threads : u < joined' => pc'[u] = "end"
  BY DEF SeriesCore, Lab9!Creation
<1>3. QED
  BY <1>1, <1>2 DEF SeriesCore, Lab9!Creation

\* The two steps before the first wait; all threads are before it.
LEMMA ArrivingSteps ==
    ASSUME SeriesCore, NEW t \in Lab9!Threads, Lab9!Top(t) \/ Lab9!SetFlag(t)
    PROVE  SeriesCore'
<1> USE DEF Lab9!locals, Lab9!mains
<1>1. /\ isSignal' = isSignal /\ loopIterationMax' = loopIterationMax
      /\ loopIteration' = loopIteration /\ i' = i /\ result' = result
      /\ main' = main /\ created' = created /\ joined' = joined
  BY DEF Lab9!Top, Lab9!SetFlag
<1>2. pc[t] \in {"top", "flag"}
  BY DEF Lab9!Top, Lab9!SetFlag
<1>3. PICK l \in {"flag", "wait1"} : Lab9!Goto(t, l)
  BY DEF Lab9!Top, Lab9!SetFlag
<1>4. /\ pc' \in [Lab9!Threads -> Places]
      /\ pc'[t] = l
      /\ \A u \in Lab9!Threads : u # t => pc'[u] = pc[u]
  BY <1>3, Going DEF Places
<1>5. \A u \in Lab9!Threads : pc[u] \in Lab9!Arriving
  BY <1>2 DEF SeriesCore, Lab9!Together, Lab9!Arriving, Lab9!Summing, Lab9!Left
<1>6. \A u \in Lab9!Threads : pc'[u] \in Lab9!Arriving
  BY <1>3, <1>4, <1>5 DEF Lab9!Arriving
<1>7. isExitWhile' \in BOOLEAN /\ isSignalLocal' \in [Lab9!Threads -> BOOLEAN]
  <2>1. CASE Lab9!Top(t)
    BY <2>1 DEF Lab9!Top, SeriesCore, Lab9!TypeOK
  <2>2. CASE Lab9!SetFlag(t)
    BY <2>2 DEF Lab9!SetFlag, SeriesCore, Lab9!TypeOK
  <2>3. QED
    BY <2>1, <2>2
<1>8. Lab9!TypeOK'
  BY <1>1, <1>4, <1>7 DEF SeriesCore, Lab9!TypeOK, Places
<1>9. Lab9!Creation'
  BY <1>1, <1>2, <1>3, <1>4, CreationKept
<1>10. Lab9!Together'
  BY <1>6 DEF Lab9!Together
<1>11. Lab9!Agreed'
  <2>1. CASE Lab9!Top(t)
    <3>1. /\ isExitWhile' = isExitWhile /\ pc'[t] = "flag"
          /\ \A u \in Lab9!Threads : u # t => isSignalLocal'[u] = isSignalLocal[u]
      BY <2>1 DEF Lab9!Top, Lab9!Goto, SeriesCore, Lab9!TypeOK
    <3>2. QED
      BY <1>4, <3>1 DEF SeriesCore, Lab9!Agreed
  <2>2. CASE Lab9!SetFlag(t)
    <3>1. /\ isSignalLocal' = isSignalLocal
          /\ isExitWhile => isExitWhile'
          /\ isSignalLocal[t] => isExitWhile'
      BY <2>2 DEF Lab9!SetFlag
    <3>2. \A u \in Lab9!Threads : pc'[u] \notin {"check", "sum", "wait2"}
      BY <1>6 DEF Lab9!Arriving
    <3>3. \A u \in Lab9!Threads : pc'[u] = "wait1" => (isSignalLocal[u] => isExitWhile')
      BY <1>4, <3>1 DEF SeriesCore, Lab9!Agreed
    <3>4. QED
      BY <3>1, <3>2, <3>3 DEF Lab9!Agreed
  <2>3. QED
    BY <2>1, <2>2
<1>12. Lab9!Rounds'
  <2>1. \A u \in Lab9!Threads : Lab9!Current(u)' = Lab9!Current(u)
    BY <1>1, <1>2, <1>3, <1>4 DEF Lab9!Current
  <2>2. QED
    BY <1>1, <1>2, <1>3, <1>4, <2>1 DEF SeriesCore, Lab9!Rounds, Lab9!Left
<1>13. Lab9!Terms'
  BY <1>1, <1>3, <1>4 DEF SeriesCore, Lab9!Terms
<1>14. QED
  BY <1>8, <1>9, <1>10, <1>11, <1>12, <1>13 DEF SeriesCore

\* All threads pass the first wait at once.
LEMMA Release1Step == ASSUME SeriesCore, Lab9!Release1 PROVE SeriesCore'
<1> USE WorkSizes DEF Lab9!locals, Lab9!mains
<1>1. /\ isSignal' = isSignal /\ isExitWhile' = isExitWhile
      /\ loopIterationMax' = loopIterationMax
      /\ isSignalLocal' = isSignalLocal /\ loopIteration' = loopIteration
      /\ i' = i /\ result' = result
      /\ main' = main /\ created' = created /\ joined' = joined
  BY DEF Lab9!Release1
<1>2. \A u \in Lab9!Threads : pc[u] = "wait1"
  BY DEF Lab9!Release1, Lab9!Arrivals
<1>3. \A u \in Lab9!Threads : pc'[u] = "check"
  BY <1>2 DEF Lab9!Release1
<1>4. pc' \in [Lab9!Threads -> Places]
  BY DEF Lab9!Release1, SeriesCore, Lab9!TypeOK, Places
<1>5. Lab9!TypeOK'
  BY <1>1, <1>4 DEF SeriesCore, Lab9!TypeOK, Places
<1>6. Lab9!Creation'
  BY <1>1, <1>2, <1>3 DEF SeriesCore, Lab9!Creation
<1>7. Lab9!Together'
  BY <1>3 DEF Lab9!Together, Lab9!Summing
<1>8. Lab9!Agreed'
  BY <1>1, <1>2, <1>3 DEF SeriesCore, Lab9!Agreed
<1>9. Lab9!Rounds'
  <2>1. \A u \in Lab9!Threads : Lab9!Current(u)' = Lab9!Current(u)
    BY <1>1, <1>2, <1>3 DEF Lab9!Current
  <2>2. QED
    BY <1>1, <1>3, <2>1 DEF SeriesCore, Lab9!Rounds, Lab9!Left
<1>10. Lab9!Terms'
  BY <1>1, <1>3 DEF SeriesCore, Lab9!Terms
<1>11. QED
  BY <1>5, <1>6, <1>7, <1>8, <1>9, <1>10 DEF SeriesCore

\* Between the waits nobody changes the flag, and each thread takes it over.
LEMMA CheckStep ==
    ASSUME SeriesCore, NEW t \in Lab9!Threads, Lab9!Check(t) PROVE SeriesCore'
<1> USE DEF Lab9!mains
<1>1. /\ isSignal' = isSignal /\ isExitWhile' = isExitWhile
      /\ loopIterationMax' = loopIterationMax /\ loopIteration' = loopIteration
      /\ i' = i /\ result' = result
      /\ main' = main /\ created' = created /\ joined' = joined
      /\ pc[t] = "check" /\ Lab9!Goto(t, "sum")
  BY DEF Lab9!Check
<1>2. /\ pc' \in [Lab9!Threads -> Places]
      /\ pc'[t] = "sum"
      /\ \A u \in Lab9!Threads : u # t => pc'[u] = pc[u]
  BY <1>1, Going DEF Places
<1>3. /\ isSignalLocal' \in [Lab9!Threads -> BOOLEAN]
      /\ isSignalLocal'[t] <=> isExitWhile \/ isSignalLocal[t]
      /\ \A u \in Lab9!Threads : u # t => isSignalLocal'[u] = isSignalLocal[u]
  BY DEF Lab9!Check, SeriesCore, Lab9!TypeOK
<1>4. Lab9!TypeOK'
  BY <1>1, <1>2, <1>3 DEF SeriesCore, Lab9!TypeOK, Places
<1>5. Lab9!Creation'
  BY <1>1, <1>2, CreationKept
<1>6. Lab9!Together'
  <2>1. \A u \in Lab9!Threads : pc[u] \in Lab9!Summing
    BY <1>1 DEF SeriesCore, Lab9!Together, Lab9!Arriving, Lab9!Summing, Lab9!Left
  <2>2. QED
    BY <1>2, <2>1 DEF Lab9!Together, Lab9!Summing
<1>7. Lab9!Agreed'
  <2>1. isSignalLocal[t] => isExitWhile
    BY <1>1 DEF SeriesCore, Lab9!Agreed
  <2>2. isSignalLocal'[t] <=> isExitWhile
    BY <1>3, <2>1
  <2>3. QED
    BY <1>1, <1>2, <1>3, <2>2 DEF SeriesCore, Lab9!Agreed
<1>8. Lab9!Rounds'
  <2>1. \A u \in Lab9!Threads : Lab9!Current(u)' = Lab9!Current(u)
    BY <1>1, <1>2 DEF Lab9!Current
  <2>2. QED
    BY <1>1, <1>2, <2>1 DEF SeriesCore, Lab9!Rounds, Lab9!Left
<1>9. Lab9!Terms'
  BY <1>1, <1>2 DEF SeriesCore, Lab9!Terms
<1>10. QED
  BY <1>4, <1>5, <1>6, <1>7, <1>8, <1>9 DEF SeriesCore

\* Who has stored its sum stays out of the loop.
LEMMA StoreStep ==
    ASSUME SeriesCore, NEW t \in Lab9!Threads, Lab9!Store(t) PROVE SeriesCore'
<1> USE DEF Lab9!mains
<1>1. /\ isSignal' = isSignal /\ isExitWhile' = isExitWhile
      /\ loopIterationMax' = loopIterationMax /\ loopIteration' = loopIteration
      /\ isSignalLocal' = isSignalLocal /\ i' = i
      /\ main' = main /\ created' = created /\ joined' = joined
      /\ pc[t] = "store" /\ Lab9!Goto(t, "end")
  BY DEF Lab9!Store
<1>2. /\ pc' \in [Lab9!Threads -> Places]
      /\ pc'[t] = "end"
      /\ \A u \in Lab9!Threads : u # t => pc'[u] = pc[u]
  BY <1>1, Going DEF Places
<1>3. /\ result' \in [Lab9!Threads -> Nat]
      /\ result'[t] = i[t]
      /\ \A u \in Lab9!Threads : u # t => result'[u] = result[u]
  BY DEF Lab9!Store, SeriesCore, Lab9!TypeOK
<1>4. Lab9!TypeOK'
  BY <1>1, <1>2, <1>3 DEF SeriesCore, Lab9!TypeOK, Places
<1>5. Lab9!Creation'
  BY <1>1, <1>2, CreationKept
<1>6. Lab9!Together'
  <2>1. \A u \in Lab9!Threads : pc[u] \in Lab9!Left
    BY <1>1 DEF SeriesCore, Lab9!Together, Lab9!Arriving, Lab9!Summing, Lab9!Left
  <2>2. QED
    BY <1>2, <2>1 DEF Lab9!Together, Lab9!Left
<1>7. Lab9!Agreed'
  BY <1>1, <1>2 DEF SeriesCore, Lab9!Agreed
<1>8. Lab9!Rounds'
  <2>1. \A u \in Lab9!Threads : Lab9!Current(u)' = Lab9!Current(u)
    BY <1>1, <1>2 DEF Lab9!Current
  <2>2. QED
    BY <1>1, <1>2, <2>1 DEF SeriesCore, Lab9!Rounds, Lab9!Left
<1>9. Lab9!Terms'
  BY <1>1, <1>2, <1>3 DEF SeriesCore, Lab9!Terms
<1>10. QED
  BY <1>4, <1>5, <1>6, <1>7, <1>8, <1>9 DEF SeriesCore

\* The term a thread stands on after a round that goes up to e: its first one
\* from e on.
LEMMA NextTerm ==
    ASSUME SeriesCore, NEW t \in Lab9!Threads, NEW e \in Nat, i[t] < e
    PROVE  /\ Lab9!After(t, e) \in e .. e + Count - 1
           /\ Lab9!After(t, e) % Count = t
<1> USE WorkSizes
<1>1. i[t] \in Nat /\ i[t] % Count = t
  BY DEF SeriesCore, Lab9!TypeOK
<1>2. \E n \in e .. e + Count - 1 : n >= i[t] /\ (n - i[t]) % Count = 0
  BY <1>1, FirstFrom
<1>3. PICK a : a = Lab9!After(t, e)
  OBVIOUS
<1>4. a \in e .. e + Count - 1 /\ a >= i[t] /\ (a - i[t]) % Count = 0
  BY <1>2, <1>3 DEF Lab9!After
<1>5. a \in Nat
  BY <1>4
<1>6. a % Count = i[t] % Count
  BY <1>1, <1>4, <1>5, ShiftedRemainder
<1>7. QED
  BY <1>1, <1>3, <1>4, <1>6

\* A thread sums its terms of the round: it ends up on the first one behind
\* them, also if it stood there already.
LEMMA SumStep ==
    ASSUME SeriesCore, NEW t \in Lab9!Threads, Lab9!Sum(t) PROVE SeriesCore'
<1> USE WorkSizes DEF Lab9!mains
<1>1. /\ isSignal' = isSignal /\ isExitWhile' = isExitWhile
      /\ isSignalLocal' = isSignalLocal /\ result' = result
      /\ main' = main /\ created' = created /\ joined' = joined
      /\ pc[t] = "sum" /\ Lab9!Goto(t, "wait2")
  BY DEF Lab9!Sum
<1>2. /\ pc' \in [Lab9!Threads -> Places]
      /\ pc'[t] = "wait2"
      /\ \A u \in Lab9!Threads : u # t => pc'[u] = pc[u]
  BY <1>1, Going DEF Places
<1>3. /\ loopIteration \in [Lab9!Threads -> Nat] /\ loopIterationMax \in Nat
      /\ i \in [Lab9!Threads -> Nat] /\ i[t] % Count = t
  BY DEF SeriesCore, Lab9!TypeOK
<1>4. PICK n \in Nat : n = loopIteration[t] /\ n >= 1 /\ loopIterationMax <= n + 1
  <2>1. Lab9!Current(t) = loopIteration[t]
    BY <1>1 DEF Lab9!Current
  <2>2. QED
    BY <1>3, <2>1 DEF SeriesCore, Lab9!Rounds
<1>5. /\ loopIteration' \in [Lab9!Threads -> Nat]
      /\ loopIteration'[t] = n + 1
      /\ \A u \in Lab9!Threads : u # t => loopIteration'[u] = loopIteration[u]
  BY <1>3, <1>4 DEF Lab9!Sum
<1>6. loopIterationMax' = n + 1
  BY <1>3, <1>4 DEF Lab9!Sum
<1>7. PICK e \in Nat : e = Chunk * n
  BY <1>4
<1>8. PICK b \in Int : b = Chunk * (n - 1) /\ b <= i[t] /\ i[t] < b + Count /\ e = b + Chunk
  BY <1>4, <1>7 DEF SeriesCore, Lab9!Terms
<1>9. PICK a \in Nat : /\ a = i'[t] /\ a % Count = t
                     /\ e <= a /\ a < e + Count
  <2>1. i'[t] = IF i[t] < e THEN Lab9!After(t, e) ELSE i[t]
    BY <1>3, <1>4, <1>7 DEF Lab9!Sum
  <2>2. CASE i[t] < e
    <3>1. Lab9!After(t, e) \in e .. e + Count - 1 /\ Lab9!After(t, e) % Count = t
      BY <2>2, NextTerm
    <3>2. QED
      BY <2>1, <2>2, <3>1
  <2>3. CASE ~(i[t] < e)
    <3>1. i'[t] = i[t] /\ i[t] \in Nat
      BY <1>3, <2>1, <2>3
    <3>2. QED
      BY <1>3, <1>8, <2>3, <3>1
  <2>4. QED
    BY <2>2, <2>3
<1>10. /\ i' \in [Lab9!Threads -> Nat]
       /\ \A u \in Lab9!Threads : u # t => i'[u] = i[u]
  <2>1. PICK x : i' = [i EXCEPT ![t] = x]
    BY DEF Lab9!Sum
  <2>2. x = a
    BY <1>3, <1>9, <2>1
  <2>3. QED
    BY <1>3, <2>1, <2>2
<1>11. Lab9!TypeOK'
  <2>1. \A u \in Lab9!Threads : i'[u] % Count = u
    <3> SUFFICES ASSUME NEW u \in Lab9!Threads PROVE i'[u] % Count = u
      OBVIOUS
    <3>1. CASE u = t
      BY <1>9, <3>1
    <3>2. CASE u # t
      BY <1>10, <3>2 DEF SeriesCore, Lab9!TypeOK
    <3>3. QED
      BY <3>1, <3>2
  <2>2. loopIterationMax' \in Nat
    BY <1>6
  <2>3. QED
    BY <1>1, <1>2, <1>5, <1>10, <2>1, <2>2 DEF SeriesCore, Lab9!TypeOK, Places
<1>12. Lab9!Creation'
  BY <1>1, <1>2, CreationKept
<1>13. \A u \in Lab9!Threads : pc[u] \in Lab9!Summing
  BY <1>1 DEF SeriesCore, Lab9!Together, Lab9!Arriving, Lab9!Summing, Lab9!Left
<1>14. Lab9!Together'
  BY <1>2, <1>13 DEF Lab9!Together, Lab9!Summing
<1>15. Lab9!Agreed'
  BY <1>1, <1>2 DEF SeriesCore, Lab9!Agreed
<1>16. Lab9!Rounds'
  <2>1. \A u \in Lab9!Threads : Lab9!Current(u) = n
    BY <1>1, <1>4 DEF SeriesCore, Lab9!Rounds, Lab9!Current
  <2>2. \A u \in Lab9!Threads : Lab9!Current(u)' = n
    <3> SUFFICES ASSUME NEW u \in Lab9!Threads PROVE Lab9!Current(u)' = n
      OBVIOUS
    <3>1. CASE u = t
      BY <1>2, <1>5, <3>1 DEF Lab9!Current
    <3>2. CASE u # t
      BY <1>2, <1>5, <2>1, <3>2 DEF Lab9!Current
    <3>3. QED
      BY <3>1, <3>2
  <2>3. ASSUME NEW u \in Lab9!Threads
        PROVE  /\ loopIteration'[u] >= 1
               /\ pc'[u] # "new"
               /\ pc'[u] \in Lab9!Left \union {"wait2"} => loopIteration'[u] = n + 1
    <3>1. CASE u = t
      BY <1>2, <1>4, <1>5, <3>1
    <3>2. CASE u # t
      <4>1. pc'[u] = pc[u] /\ loopIteration'[u] = loopIteration[u] /\ loopIteration[u] \in Nat
        BY <1>2, <1>3, <1>5, <3>2
      <4>2. pc[u] \in Lab9!Left \union {"wait2"} => loopIteration[u] = n + 1
        BY <1>4, <1>13, <2>1, <4>1 DEF Lab9!Current, Lab9!Summing, Lab9!Left
      <4>3. loopIteration[u] >= 1 /\ pc[u] # "new"
        BY <1>13 DEF SeriesCore, Lab9!Rounds, Lab9!Summing
      <4>4. QED
        BY <4>1, <4>2, <4>3
    <3>3. QED
      BY <3>1, <3>2
  <2>4. \A u \in Lab9!Threads : loopIterationMax' <= Lab9!Current(u)' + 1
    BY <1>4, <1>6, <2>2
  <2>5. QED
    BY <1>6, <2>2, <2>3, <2>4 DEF Lab9!Rounds
<1>17. Lab9!Terms'
  <2> SUFFICES ASSUME NEW u \in Lab9!Threads
               PROVE  /\ Chunk * (loopIteration'[u] - 1) <= i'[u]
                      /\ i'[u] < Chunk * (loopIteration'[u] - 1) + Count
                      /\ pc'[u] = "end" => result'[u] = i'[u]
    BY DEF Lab9!Terms
  <2>1. CASE u = t
    <3>1. loopIteration'[u] - 1 = n
      BY <1>4, <1>5, <2>1
    <3>2. QED
      BY <1>2, <1>7, <1>9, <2>1, <3>1
  <2>2. CASE u # t
    BY <1>1, <1>2, <1>5, <1>10, <2>2 DEF SeriesCore, Lab9!Terms
  <2>3. QED
    BY <2>1, <2>2
<1>18. QED
  BY <1>11, <1>12, <1>14, <1>15, <1>16, <1>17 DEF SeriesCore

\* All threads pass the second wait at once and, as they agree on the signal,
\* all leave the loop or none does.
LEMMA Release2Step == ASSUME SeriesCore, Lab9!Release2 PROVE SeriesCore'
<1> USE WorkSizes DEF Lab9!locals, Lab9!mains
<1>1. /\ isSignal' = isSignal /\ isExitWhile' = isExitWhile
      /\ loopIterationMax' = loopIterationMax
      /\ isSignalLocal' = isSignalLocal /\ loopIteration' = loopIteration
      /\ i' = i /\ result' = result
      /\ main' = main /\ created' = created /\ joined' = joined
  BY DEF Lab9!Release2
<1>2. \A u \in Lab9!Threads : pc[u] = "wait2"
  BY DEF Lab9!Release2, Lab9!LeaveRound, Lab9!Arrivals
<1>3. \A u \in Lab9!Threads : isSignalLocal[u] <=> isExitWhile
  BY <1>2 DEF SeriesCore, Lab9!Agreed
<1>4. PICK l \in {"store", "top"} : \A u \in Lab9!Threads : pc'[u] = l
  <2>1. CASE isExitWhile
    BY <1>2, <1>3, <2>1 DEF Lab9!Release2
  <2>2. CASE ~isExitWhile
    BY <1>2, <1>3, <2>2 DEF Lab9!Release2
  <2>3. QED
    BY <2>1, <2>2
<1>5. pc' \in [Lab9!Threads -> Places]
  <2>1. DOMAIN pc' = Lab9!Threads /\ pc' = [u \in Lab9!Threads |-> pc'[u]]
    BY DEF Lab9!Release2
  <2>2. QED
    BY <1>4, <2>1 DEF Places
<1>6. Lab9!TypeOK'
  BY <1>1, <1>5 DEF SeriesCore, Lab9!TypeOK, Places
<1>7. Lab9!Creation'
  BY <1>1, <1>2, <1>4 DEF SeriesCore, Lab9!Creation
<1>8. Lab9!Together'
  BY <1>4 DEF Lab9!Together, Lab9!Arriving, Lab9!Left
<1>9. Lab9!Agreed'
  BY <1>4 DEF Lab9!Agreed
<1>10. Lab9!Rounds'
  <2>1. PICK n \in Int : \A u \in Lab9!Threads : loopIteration[u] = n /\ n >= 1
    <3>1. 0 \in Lab9!Threads
      BY DEF Lab9!Threads
    <3>2. ASSUME NEW u \in Lab9!Threads PROVE loopIteration[u] = loopIteration[0]
      <4>1. loopIteration[u] \in Nat /\ loopIteration[0] \in Nat
        BY <3>1 DEF SeriesCore, Lab9!TypeOK
      <4>2. Lab9!Current(u) = loopIteration[u] - 1 /\ Lab9!Current(0) = loopIteration[0] - 1
        BY <1>2, <3>1 DEF Lab9!Current
      <4>3. Lab9!Current(u) = Lab9!Current(0)
        BY <3>1 DEF SeriesCore, Lab9!Rounds
      <4>4. QED
        BY <4>1, <4>2, <4>3
    <3>3. loopIteration[0] \in Nat /\ loopIteration[0] >= 1
      BY <3>1 DEF SeriesCore, Lab9!TypeOK, Lab9!Rounds
    <3>4. QED
      BY <3>2, <3>3
  <2>2. \A u \in Lab9!Threads : loopIterationMax = n
    BY <1>2, <2>1 DEF SeriesCore, Lab9!Rounds
  <2>3. \A u \in Lab9!Threads : Lab9!Current(u)' = n
    BY <1>1, <1>4, <2>1 DEF Lab9!Current
  <2>4. QED
    BY <1>1, <1>4, <2>1, <2>2, <2>3 DEF Lab9!Rounds
<1>11. Lab9!Terms'
  BY <1>1, <1>4 DEF SeriesCore, Lab9!Terms
<1>12. QED
  BY <1>6, <1>7, <1>8, <1>9, <1>10, <1>11 DEF SeriesCore

\* Every step of lab9.c.
LEMMA SeriesSteps == ASSUME SeriesCore, Lab9!Next PROVE SeriesCore'
<1>1. CASE Lab9!SigInt \/ Lab9!MainStep \/ Lab9!CreateFails
  BY <1>1, MainSteps, CreateStep DEF Lab9!MainStep
<1>2. CASE Lab9!Release1
  BY <1>2, Release1Step
<1>3. CASE Lab9!Release2
  BY <1>3, Release2Step
<1>4. ASSUME NEW t \in Lab9!Threads, Lab9!Thread(t) PROVE SeriesCore'
  BY <1>4, ArrivingSteps, CheckStep, SumStep, StoreStep DEF Lab9!Thread
<1>5. QED
  BY <1>1, <1>2, <1>3, <1>4 DEF Lab9!Next

-----------------------------------------------------------------------------
(* The theorems. *)

\* What holds of the exercise that runs.
IInv ==
    /\ lab \in {"lab9", "lab10", "lab11", "lab13", "lab14", "lab14_2", "lab16"}
    /\ lab = "lab11" => ChainCore
    /\ lab = "lab13" => CondCore
    /\ lab = "lab14" => RingCore(2, 1, 0)
    /\ lab = "lab14_2" => RingCore(3, 1, 2)
    /\ lab = "lab16" => RingCore(2, 1, 2)
    /\ lab = "lab9" => SeriesCore
    /\ lab = "lab10" => Dinners

\* Each exercise begins as its own part says.
LEMMA InvStarts == Init => IInv
<1> USE ChainSizes
<1>1. ASSUME lab = "lab11", Lab11!Init PROVE IInv
  BY <1>1, ChainStarts DEF IInv
<1>2. ASSUME lab = "lab13", Lab13!Init PROVE IInv
  BY <1>2, CondStarts DEF IInv
<1>3. ASSUME lab = "lab14", Lab14!Init PROVE IInv
  BY <1>3, Ring14, RingStarts DEF IInv
<1>4. ASSUME lab = "lab14_2", Lab14_2!Init PROVE IInv
  BY <1>4, Ring14_2, RingStarts DEF IInv
<1>5. ASSUME lab = "lab16", Lab16!Init PROVE IInv
  BY <1>5, Ring16, RingStarts DEF IInv
<1>6. ASSUME lab = "lab9", Lab9!Init PROVE IInv
  BY <1>6, SeriesStarts DEF IInv
<1>7. ASSUME lab = "lab10", Lab10!Init PROVE IInv
  BY <1>7, DinnerStarts DEF IInv
<1>8. QED
  BY <1>1, <1>2, <1>3, <1>4, <1>5, <1>6, <1>7 DEF Init, TurnInit

\* Each step is one of the exercise that runs, and keeps what holds of it.
LEMMA InvSteps == IInv /\ Next => IInv'
<1> USE ChainSizes
<1> SUFFICES ASSUME IInv, Next PROVE IInv'
  OBVIOUS
<1>1. lab' = lab
  BY DEF Next, OthersSame, Series, Dinner
<1>2. ASSUME lab = "lab11", Lab11!Next PROVE IInv'
  BY <1>1, <1>2, ChainSteps DEF IInv
<1>3. ASSUME lab = "lab13", Lab13!Next PROVE IInv'
  BY <1>1, <1>3, CondSteps DEF IInv
<1>4. ASSUME lab = "lab14", Lab14!Next PROVE IInv'
  BY <1>1, <1>4, Ring14, RingSteps DEF IInv
<1>5. ASSUME lab = "lab14_2", Lab14_2!Next PROVE IInv'
  BY <1>1, <1>5, Ring14_2, RingSteps DEF IInv
<1>6. ASSUME lab = "lab16", Lab16!Next PROVE IInv'
  BY <1>1, <1>6, Ring16, RingSteps DEF IInv
<1>7. ASSUME lab = "lab9", Lab9!Next PROVE IInv'
  BY <1>1, <1>7, SeriesSteps DEF IInv
<1>8. ASSUME lab = "lab10", Lab10!Next PROVE IInv'
  BY <1>1, <1>8, DinnerSteps DEF IInv
<1>9. QED
  BY <1>2, <1>3, <1>4, <1>5, <1>6, <1>7, <1>8 DEF Next, TurnNext, Series, Dinner

\* A step that changes nothing keeps what holds of the exercise.
LEMMA InvStutters == IInv /\ UNCHANGED vars => IInv'
<1> SUFFICES ASSUME IInv, UNCHANGED vars PROVE IInv'
  OBVIOUS
<1>1. /\ lab' = lab /\ pc' = pc /\ printed' = printed /\ destroyed' = destroyed /\ sem' = sem
      /\ mutex' = mutex /\ owner' = owner /\ cur' = cur /\ i' = i /\ errors' = errors
      /\ misused' = misused
  BY DEF vars, turnVars
<1>2. ChainCore' = ChainCore
  BY <1>1
     DEF ChainCore, Lab11!TypeOK, Lab11!ErrorsOnlyAtTheEnd, Lab11!Held, Lab11!Holds, Lab11!Out,
         Lab11!InRow, Lab11!Pos, Lab11!Row, Lab11!Walking, Lab11!Apart, Lab11!Started,
         Lab11!Front, Lab11!Phases
<1>3. CondCore' = CondCore
  BY <1>1
     DEF CondCore, Lab13!TypeOK, Lab13!Exclusive, Lab13!SignalToCome, Lab13!Level, Lab13!Rounds,
         Lab13!Inside
<1>4. ASSUME NEW n, NEW m, NEW d PROVE RingCore(n, m, d)' = RingCore(n, m, d)
  BY <1>1
     DEF RingCore, R!TypeOK, R!Passing, R!HasTurn, R!Ahead, R!Ring!Place, R!Exited, R!Rounds,
         R!InOrder, R!Destruction, R!Parties
<1>5. SeriesCore => SeriesCore'
  BY DEF vars, seriesVars, SeriesCore, Lab9!TypeOK, Lab9!Creation, Lab9!Together,
         Lab9!Agreed, Lab9!Rounds, Lab9!Terms, Lab9!Current
<1>6. Dinners => Dinners'
  <2>1. /\ forks' = forks /\ food' = food /\ dish' = dish /\ eaten' = eaten /\ pc' = pc
    BY DEF vars, dinnerVars
  <2>2. Lab10!Meals' = Lab10!Meals
    BY <2>1 DEF Lab10!Meals
  <2>3. Lab10!TypeOK => Lab10!TypeOK'
    BY <2>1 DEF Lab10!TypeOK
  <2>4. Lab10!NoDishTwice => Lab10!NoDishTwice'
    BY <2>1, <2>2 DEF Lab10!NoDishTwice
  <2>5. Lab10!ForksHeld => Lab10!ForksHeld'
    BY <2>1 DEF Lab10!ForksHeld
  <2>6. Lab10!DishesApart => Lab10!DishesApart'
    BY <2>1, <2>2 DEF Lab10!DishesApart
  <2>7. QED
    BY <2>3, <2>4, <2>5, <2>6 DEF Dinners
<1>7. QED
  BY <1>1, <1>2, <1>3, <1>4, <1>5, <1>6 DEF IInv

\* What holds of the exercise that runs includes what it relies on.
LEMMA InvImplied == IInv => Inv /\ WorkShared
<1>1. IInv => Inv
  BY ChainSizes, ChainInv, CondInv, RingInv, Ring14, Ring14_2, Ring16 DEF IInv, Inv
<1>2. IInv => WorkShared
  BY SeriesInv, DinnerInv DEF IInv, WorkShared
<1>3. QED
  BY <1>1, <1>2

\* Each exercise keeps what it relies on (lab11.c, lab13.c, lab14.c, lab14,2.c,
\* lab16.c): one turn in a ring of semaphores, no earlier line printed after a
\* semaphore was destroyed, no lost wakeup, no failed call on a mutex before
\* main of lab11.c destroys them and none of main's own.
THEOREM InvHolds == Spec => []Inv
<1>1. IInv /\ [Next]_vars => IInv'
  BY InvSteps, InvStutters
<1>2. QED
  BY InvStarts, InvImplied, <1>1, PTL DEF Spec

\* The threads of lab9.c leave after the same round and main prints a beginning
\* of the series without gaps or terms twice; the forks of lab10.c keep
\* neighbours from eating at once, and no dish is eaten twice.
THEOREM WorkSharedHolds == Spec => []WorkShared
<1>1. IInv /\ [Next]_vars => IInv'
  BY InvSteps, InvStutters
<1>2. QED
  BY InvStarts, InvImplied, <1>1, PTL DEF Spec

\* No line has been printed when an exercise begins.
LEMMA TurnsStart == Init => (HasTurns => \A p \in DOMAIN printed : printed[p] = 0)
  BY DEF Init, TurnInit, HasTurns, Lab11!Init, Lab13!Init, Lab14!Init, Lab14_2!Init, Lab16!Init

\* Each step prints the line whose turn it is in the exercise that runs.
LEMMA TurnsStep ==
    IInv /\ [Next]_vars =>
        [/\ lab = "lab11" => [Lab11!Alternation!Next]_printed
         /\ lab = "lab13" => [Lab13!Alternation!Next]_printed
         /\ lab = "lab14" => [Lab14!Ring!Next]_printed
         /\ lab = "lab14_2" => [Lab14_2!Ring!Next]_printed
         /\ lab = "lab16" => [Lab16!Ring!Next]_printed]_vars
<1> USE ChainSizes
<1> SUFFICES ASSUME IInv, Next
             PROVE  /\ lab = "lab11" => [Lab11!Alternation!Next]_printed
                    /\ lab = "lab13" => [Lab13!Alternation!Next]_printed
                    /\ lab = "lab14" => [Lab14!Ring!Next]_printed
                    /\ lab = "lab14_2" => [Lab14_2!Ring!Next]_printed
                    /\ lab = "lab16" => [Lab16!Ring!Next]_printed
  OBVIOUS
<1>1. ASSUME lab = "lab11" PROVE [Lab11!Alternation!Next]_printed
  BY <1>1, ChainInTurn DEF IInv, Next, TurnNext, Series, Dinner
<1>2. ASSUME lab = "lab13" PROVE [Lab13!Alternation!Next]_printed
  BY <1>2, CondInTurn DEF IInv, Next, TurnNext, Series, Dinner
<1>3. ASSUME lab = "lab14" PROVE [Lab14!Ring!Next]_printed
  BY <1>3, Ring14, RingInTurn DEF IInv, Next, TurnNext, Series, Dinner
<1>4. ASSUME lab = "lab14_2" PROVE [Lab14_2!Ring!Next]_printed
  BY <1>4, Ring14_2, RingInTurn DEF IInv, Next, TurnNext, Series, Dinner
<1>5. ASSUME lab = "lab16" PROVE [Lab16!Ring!Next]_printed
  BY <1>5, Ring16, RingInTurn DEF IInv, Next, TurnNext, Series, Dinner
<1>6. QED
  BY <1>1, <1>2, <1>3, <1>4, <1>5

\* Every exercise implements Turns: its lines come out one party after the
\* other, in the order of the ring and beginning with the one it means to begin.
THEOREM TurnsHold == Spec => InTurn
<1>1. IInv /\ [Next]_vars => IInv'
  BY InvSteps, InvStutters
<1>2. QED
  BY InvStarts, TurnsStart, TurnsStep, <1>1, PTL DEF Spec, InTurn

=============================================================================
