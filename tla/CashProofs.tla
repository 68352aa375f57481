----------------------------- MODULE CashProofs -----------------------------
(***************************************************************************)
(* The safety of the cache for any number of client threads and any        *)
(* requests: the inductive invariant Inv of Cash, and the properties that  *)
(* follow from it.                                                         *)
(***************************************************************************)
EXTENDS Cash, FiniteSetTheorems, SequenceTheorems, NaturalsInduction, TLAPS

USE DEF PCs

-----------------------------------------------------------------------------
(* The operators on the list. *)

(* What list::erase leaves: the others in their order. *)
LEMMA RemoveAtIndex ==
    ASSUME NEW S, NEW s \in Seq(S), NEW i \in 1..Len(s)
    PROVE  /\ RemoveAt(s, i) \in Seq(S)
           /\ Len(RemoveAt(s, i)) = Len(s) - 1
           /\ \A j \in 1..Len(s) - 1 : RemoveAt(s, i)[j] = IF j < i THEN s[j] ELSE s[j + 1]
<1> DEFINE a == SubSeq(s, 1, i - 1)
           b == SubSeq(s, i + 1, Len(s))
<1>1. RemoveAt(s, i) = a \o b
  BY DEF RemoveAt
<1>2. /\ a \in Seq(S) /\ Len(a) = i - 1
      /\ \A j \in 1..i - 1 : a[j] = s[j]
  OBVIOUS
<1>3. /\ b \in Seq(S) /\ Len(b) = Len(s) - i
      /\ \A j \in 1..Len(s) - i : b[j] = s[i + j]
  OBVIOUS
<1> HIDE DEF a, b
<1>4. /\ a \o b \in Seq(S)
      /\ Len(a \o b) = Len(s) - 1
  <2>1. a \o b \in Seq(S)
    BY <1>2, <1>3
  <2>2. Len(a \o b) = Len(s) - 1
    BY <1>2, <1>3
  <2>3. QED
    BY <2>1, <2>2
<1>5. ASSUME NEW j \in 1..Len(s) - 1, j < i PROVE (a \o b)[j] = s[j]
  <2>1. j \in 1..i - 1 /\ j \in 1..Len(a)
    BY <1>2, <1>5
  <2>2. (a \o b)[j] = a[j]
    BY <1>2, <1>3, <2>1
  <2>3. QED
    BY <1>2, <2>1, <2>2
<1>6. ASSUME NEW j \in 1..Len(s) - 1, ~(j < i) PROVE (a \o b)[j] = s[j + 1]
  <2>1. (a \o b)[j] = b[j - Len(a)]
    BY <1>2, <1>3, <1>6
  <2>2. j - Len(a) \in 1..Len(s) - i /\ i + (j - Len(a)) = j + 1
    BY <1>2, <1>6
  <2>3. QED
    BY <1>3, <2>1, <2>2
<1>7. QED
  BY <1>1, <1>4, <1>5, <1>6

(* Erasing takes away one element, and only that one if none is twice in *)
(* the list.                                                             *)
LEMMA RemoveAtFacts ==
    ASSUME NEW S, NEW s \in Seq(S), NEW i \in 1..Len(s), IsInjective(s),
           NEW r, r = RemoveAt(s, i)
    PROVE  /\ r \in Seq(S)
           /\ Len(r) = Len(s) - 1
           /\ ToSet(r) = ToSet(s) \ {s[i]}
           /\ IsInjective(r)
<1>1. /\ r \in Seq(S) /\ Len(r) = Len(s) - 1
      /\ \A j \in 1..Len(s) - 1 : r[j] = IF j < i THEN s[j] ELSE s[j + 1]
  BY RemoveAtIndex
<1>2. DOMAIN s = 1..Len(s) /\ DOMAIN r = 1..Len(s) - 1 /\ Len(s) \in Nat
  BY <1>1, LenProperties
<1>3. \A j, k \in 1..Len(s) : s[j] = s[k] => j = k
  BY <1>2 DEF IsInjective
<1>4. IsInjective(r)
  BY <1>1, <1>2, <1>3 DEF IsInjective
<1>5. ToSet(r) \subseteq ToSet(s) \ {s[i]}
  <2>1. ASSUME NEW j \in 1..Len(s) - 1 PROVE r[j] \in ToSet(s) /\ r[j] # s[i]
    <3>1. CASE j < i
      BY <1>1, <1>2, <1>3, <3>1 DEF ToSet
    <3>2. CASE ~(j < i)
      BY <1>1, <1>2, <1>3, <3>2 DEF ToSet
    <3>3. QED
      BY <3>1, <3>2
  <2>2. QED
    BY <1>2, <2>1 DEF ToSet
<1>6. ASSUME NEW j \in 1..Len(s), j # i PROVE s[j] \in ToSet(r)
  <2>1. CASE j < i
    BY <1>1, <1>2, <2>1 DEF ToSet
  <2>2. CASE j > i
    <3>1. j - 1 \in DOMAIN r /\ r[j - 1] = s[j]
      BY <1>1, <1>2, <2>2
    <3>2. QED
      BY <3>1 DEF ToSet
  <2>3. QED
    BY <1>2, <1>6, <2>1, <2>2
<1>7. ToSet(s) \ {s[i]} \subseteq ToSet(r)
  BY <1>2, <1>6 DEF ToSet
<1>8. QED
  BY <1>1, <1>4, <1>5, <1>7

(* What push_back leaves. *)
LEMMA AppendFacts ==
    ASSUME NEW S, NEW s \in Seq(S), NEW x \in S
    PROVE  /\ Append(s, x) \in Seq(S)
           /\ Len(Append(s, x)) = Len(s) + 1
           /\ ToSet(Append(s, x)) = ToSet(s) \union {x}
           /\ IsInjective(s) /\ x \notin ToSet(s) => IsInjective(Append(s, x))
<1> DEFINE r == Append(s, x)
<1>1. /\ r \in Seq(S) /\ Len(r) = Len(s) + 1
      /\ \A j \in 1..Len(s) + 1 : r[j] = IF j <= Len(s) THEN s[j] ELSE x
  OBVIOUS
<1>2. DOMAIN s = 1..Len(s) /\ DOMAIN r = 1..Len(s) + 1
  BY <1>1, LenProperties
<1>3. ToSet(r) = ToSet(s) \union {x}
  BY <1>1, <1>2 DEF ToSet
<1>4. ASSUME IsInjective(s), x \notin ToSet(s) PROVE IsInjective(r)
  BY <1>1, <1>2, <1>4 DEF ToSet, IsInjective
<1>5. QED
  BY <1>1, <1>3, <1>4

(* A set of positions has a first one. *)
LEMMA FirstPosition ==
    ASSUME NEW I \in SUBSET Nat, I # {}
    PROVE  Min(I) \in I
<1> DEFINE R == {ss \in Nat \X Nat : ss[1] < ss[2]}
<1>1. IsWellFoundedOn(R, Nat)
  BY NatLessThanWellFounded DEF OpToRel
<1>2. ASSUME NEW m \in Nat, NEW k \in Nat, ~ (<<m, k>> \in R) PROVE k <= m
  BY <1>2
<1> HIDE DEF R
<1>3. PICK n \in I : \A m \in I : ~ (<<m, n>> \in R)
  BY <1>1, WFMin
<1>4. ASSUME NEW m \in I PROVE n <= m
  <2>1. m \in Nat /\ n \in Nat /\ ~ (<<m, n>> \in R)
    BY <1>3
  <2>2. QED
    BY <1>2, <2>1
<1>5. QED
  BY <1>4 DEF Min

(* Match finds an element with the thread's heading if there is one. *)
LEMMA MatchFacts ==
    ASSUME listCash \in Seq(Threads), NEW t \in Threads
    PROVE  /\ Match(t) = 0 => \A e \in ToSet(listCash) : want[e] # want[t]
           /\ Match(t) # 0 => /\ Match(t) \in 1..Len(listCash)
                              /\ listCash[Match(t)] \in ToSet(listCash)
                              /\ want[listCash[Match(t)]] = want[t]
<1> DEFINE I == {i \in 1..Len(listCash) : want[listCash[i]] = want[t]}
<1>1. Match(t) = IF I # {} THEN Min(I) ELSE 0
  BY DEF Match, SelectInSeq
<1>2. DOMAIN listCash = 1..Len(listCash) /\ Len(listCash) \in Nat
  BY LenProperties
<1>3. CASE I = {}
  <2>1. Match(t) = 0
    BY <1>1, <1>3
  <2>2. \A i \in 1..Len(listCash) : want[listCash[i]] # want[t]
    BY <1>3
  <2>3. QED
    BY <1>2, <2>1, <2>2 DEF ToSet
<1>4. CASE I # {}
  <2>1. I \in SUBSET Nat
    OBVIOUS
  <2>2. Match(t) \in I
    BY <1>1, <1>4, <2>1, FirstPosition, Zenon
  <2>3. Match(t) \in 1..Len(listCash) /\ want[listCash[Match(t)]] = want[t]
    BY <2>2
  <2>4. Match(t) # 0 /\ listCash[Match(t)] \in ToSet(listCash)
    BY <1>2, <2>3 DEF ToSet
  <2>5. QED
    BY <2>3, <2>4
<1>5. QED
  BY <1>3, <1>4

-----------------------------------------------------------------------------
(* The inductive invariant. *)

(* The invariant of the cache with the two properties it carries along. *)
IInv == Inv /\ CrashOnlyByEviction /\ DuplicatesOverlap

(* The evicting loop stands on an element. *)
Inside == it <= Len(listCash)

(* What a lookup and an erased element do to the list. *)
LEMMA ListSteps ==
    ASSUME TypeOK, NEW t \in Threads
    PROVE  /\ FindResponseInCash(t) /\ Match(t) # 0 =>
                /\ listCash' \in Seq(Threads) /\ IsInjective(listCash')
                /\ Len(listCash') = Len(listCash)
                /\ ToSet(listCash') = ToSet(listCash)
           /\ Erase(t) /\ Inside =>
                /\ listCash' \in Seq(Threads) /\ IsInjective(listCash')
                /\ Len(listCash') = Len(listCash) - 1
                /\ listCash[it] \in Threads
                /\ listCash[it] \in ToSet(listCash)
                /\ ToSet(listCash') = ToSet(listCash) \ {listCash[it]}
           /\ EndAdd(t) =>
                /\ listCash' \in Seq(Threads)
                /\ Len(listCash') = Len(listCash) + 1
                /\ ToSet(listCash') = ToSet(listCash) \union {t}
                /\ t \notin ToSet(listCash) => IsInjective(listCash')
<1>1. /\ listCash \in Seq(Threads) /\ IsInjective(listCash)
      /\ DOMAIN listCash = 1..Len(listCash) /\ Len(listCash) \in Nat
  BY LenProperties DEF TypeOK
<1>2. ASSUME FindResponseInCash(t), Match(t) # 0
      PROVE  /\ listCash' \in Seq(Threads) /\ IsInjective(listCash')
             /\ Len(listCash') = Len(listCash)
             /\ ToSet(listCash') = ToSet(listCash)
  <2>1. PICK r : r = RemoveAt(listCash, Match(t))
    OBVIOUS
  <2>2. listCash' = Append(r, listCash[Match(t)])
    BY <1>2, <2>1 DEF FindResponseInCash
  <2>3. Match(t) \in 1..Len(listCash) /\ listCash[Match(t)] \in ToSet(listCash)
    BY <1>1, <1>2, MatchFacts
  <2>4. PICK x : x = listCash[Match(t)]
    OBVIOUS
  <2>5. x \in Threads
    BY <1>1, <2>3, <2>4
  <2>6. /\ r \in Seq(Threads) /\ IsInjective(r)
        /\ Len(r) = Len(listCash) - 1
        /\ ToSet(r) = ToSet(listCash) \ {x}
    BY <1>1, <2>1, <2>3, <2>4, RemoveAtFacts
  <2>7. /\ listCash' \in Seq(Threads) /\ IsInjective(listCash')
        /\ Len(listCash') = Len(r) + 1
        /\ ToSet(listCash') = ToSet(r) \union {x}
    BY <2>2, <2>4, <2>5, <2>6, AppendFacts
  <2>8. Len(listCash') = Len(listCash)
    BY <1>1, <2>6, <2>7
  <2>9. ToSet(listCash') = ToSet(listCash)
    BY <2>3, <2>4, <2>6, <2>7
  <2>10. QED
    BY <2>7, <2>8, <2>9
<1>3. ASSUME Erase(t), Inside
      PROVE  /\ listCash' \in Seq(Threads) /\ IsInjective(listCash')
             /\ Len(listCash') = Len(listCash) - 1
             /\ listCash[it] \in Threads
             /\ listCash[it] \in ToSet(listCash)
             /\ ToSet(listCash') = ToSet(listCash) \ {listCash[it]}
  <2>1. listCash' = RemoveAt(listCash, it) /\ it \in 1..Len(listCash)
    BY <1>1, <1>3 DEF Erase, TypeOK, Inside
  <2>2. listCash[it] \in Threads /\ listCash[it] \in ToSet(listCash)
    BY <1>1, <2>1 DEF ToSet
  <2>3. QED
    BY <1>1, <2>1, <2>2, RemoveAtFacts
<1>4. ASSUME EndAdd(t)
      PROVE  /\ listCash' \in Seq(Threads)
             /\ Len(listCash') = Len(listCash) + 1
             /\ ToSet(listCash') = ToSet(listCash) \union {t}
             /\ t \notin ToSet(listCash) => IsInjective(listCash')
  <2>1. listCash' = Append(listCash, t)
    BY <1>4 DEF EndAdd
  <2>2. QED
    BY <1>1, <2>1, AppendFacts
<1>5. QED
  BY <1>2, <1>3, <1>4

(* Every step keeps the variables in their types; that the element t adds  *)
(* is not in the list yet is AddedOnce, and CountsExact keeps the counts   *)
(* above zero.                                                             *)
LEMMA TypeStep ==
    ASSUME IInv, NEW t \in Threads, Thread(t)
    PROVE  TypeOK'
<1> USE DEF Go, requestVars, historyVars
<1>1. TypeOK /\ Len(listCash) \in Nat
  BY LenProperties DEF IInv, Inv, TypeOK
<1>2. CASE IsElementInCash(t)
  <2>1. Match(t) # 0 => listCash[Match(t)] \in Threads
    BY <1>1, MatchFacts DEF TypeOK
  <2>2. QED
    BY <1>1, <1>2, <2>1 DEF IsElementInCash, TypeOK
<1>3. CASE FindResponseInCash(t)
  <2>1. Match(t) # 0 => listCash[Match(t)] \in Threads
    BY <1>1, MatchFacts DEF TypeOK
  <2>2. /\ listCash' \in Seq(Threads) /\ IsInjective(listCash')
        /\ Len(listCash') = Len(listCash)
    BY <1>1, <1>3, ListSteps DEF FindResponseInCash, TypeOK
  <2>3. QED
    BY <1>1, <1>3, <2>1, <2>2 DEF FindResponseInCash, TypeOK
<1>4. CASE AddCountUsers(t)
  BY <1>1, <1>4 DEF AddCountUsers, TypeOK, IInv, Inv, ElementSet
<1>5. CASE MinusCountUsers(t)
  <2>1. elem[t] \in Threads /\ countUsers[elem[t]] > 0
    <3>1. elem[t] \in Threads /\ t \in Users(elem[t])
      BY <1>1, <1>5 DEF MinusCountUsers, TypeOK, IInv, Inv, ElementSet, Users
    <3>2. IsFiniteSet(Users(elem[t]))
      BY CashAssumption, FS_Subset DEF Users
    <3>3. Cardinality(Users(elem[t])) \in Nat /\ Cardinality(Users(elem[t])) # 0
      BY <3>1, <3>2, FS_CardinalityType, FS_EmptySet
    <3>4. QED
      BY <3>1, <3>3 DEF IInv, Inv, CountsExact
  <2>2. QED
    BY <1>1, <1>5, <2>1 DEF MinusCountUsers, TypeOK
<1>6. CASE ResponseHeading(t)
  BY <1>1, <1>6 DEF ResponseHeading, TypeOK
<1>7. CASE Recheck(t)
  BY <1>1, <1>7 DEF Recheck, TypeOK
<1>8. CASE BeginAdd(t)
  BY <1>1, <1>8 DEF BeginAdd, TypeOK
<1>9. CASE ReadCount(t)
  BY <1>1, <1>9 DEF ReadCount, Found, TypeOK
<1>10. CASE Erase(t)
  <2>1. Inside
    BY <1>10 DEF Erase, IInv, Inv, ErasesWhatItRead, Inside
  <2>2. /\ listCash' \in Seq(Threads) /\ IsInjective(listCash')
        /\ Len(listCash') = Len(listCash) - 1
        /\ listCash[it] \in Threads
    BY <1>1, <1>10, <2>1, ListSteps
  <2>3. it' = AfterErase(it, Len(listCash')) /\ it <= Len(listCash)
    BY <1>10, <2>1, <2>2 DEF Erase, Inside
  <2>4. it' \in 1..Len(listCash') + 1
    BY <1>1, <2>2, <2>3 DEF AfterErase, TypeOK
  <2>5. evicted' = evicted \union {listCash[it]}
    BY <1>10 DEF Erase
  <2>6. QED
    BY <1>1, <1>10, <2>2, <2>4, <2>5 DEF Erase, TypeOK
<1>11. CASE EndAdd(t)
  <2>1. t \notin ToSet(listCash)
    BY <1>11 DEF EndAdd, IInv, Inv, AddedOnce
  <2>2. /\ listCash' \in Seq(Threads) /\ IsInjective(listCash')
        /\ Len(listCash') = Len(listCash) + 1
    BY <1>1, <1>11, <2>1, ListSteps
  <2>3. QED
    BY <1>1, <1>11, <2>2 DEF EndAdd, TypeOK
<1>12. CASE EndDownload(t)
  BY <1>1, <1>12 DEF EndDownload, TypeOK
<1>13. QED
  BY <1>2, <1>3, <1>4, <1>5, <1>6, <1>7, <1>8, <1>9, <1>10, <1>11, <1>12 DEF Thread, Adding

(* A step of thread t leaves the position, the element and the lookups of  *)
(* the others alone, and changes which elements are listed only when it    *)
(* erases the one it stands on or adds its own.                            *)
LEMMA ThreadFrame ==
    ASSUME TypeOK, ErasesWhatItRead, NEW t \in Threads, Thread(t)
    PROVE  /\ want' = want
           /\ \A q \in Threads \ {t} : /\ pc'[q] = pc[q]
                                      /\ elem'[q] = elem[q]
                                      /\ seen'[q] = seen[q]
           /\ \/ ToSet(listCash') = ToSet(listCash) /\ evicted' = evicted /\ overlap' = overlap
              \/ /\ Erase(t) /\ Inside
                 /\ listCash[it] \in Threads
                 /\ listCash[it] \in ToSet(listCash)
                 /\ ToSet(listCash') = ToSet(listCash) \ {listCash[it]}
                 /\ evicted' = evicted \union {listCash[it]}
                 /\ overlap' = overlap
              \/ /\ EndAdd(t)
                 /\ ToSet(listCash') = ToSet(listCash) \union {t}
                 /\ evicted' = evicted
<1> USE DEF Go, requestVars, historyVars
<1>1. CASE IsElementInCash(t)
  BY <1>1 DEF IsElementInCash, TypeOK
<1>2. CASE FindResponseInCash(t)
  <2>1. ToSet(listCash') = ToSet(listCash)
    <3>1. CASE Match(t) # 0
      BY <1>2, <3>1, ListSteps
    <3>2. CASE Match(t) = 0
      BY <1>2, <3>2 DEF FindResponseInCash
    <3>3. QED
      BY <3>1, <3>2
  <2>2. QED
    BY <1>2, <2>1 DEF FindResponseInCash, TypeOK
<1>3. CASE AddCountUsers(t)
  BY <1>3 DEF AddCountUsers, TypeOK
<1>4. CASE MinusCountUsers(t)
  BY <1>4 DEF MinusCountUsers, TypeOK
<1>5. CASE ResponseHeading(t)
  BY <1>5 DEF ResponseHeading, TypeOK
<1>6. CASE Recheck(t)
  BY <1>6 DEF Recheck, TypeOK
<1>7. CASE BeginAdd(t)
  BY <1>7 DEF BeginAdd, TypeOK
<1>8. CASE ReadCount(t)
  BY <1>8 DEF ReadCount, TypeOK
<1>9. CASE Erase(t)
  <2>1. Inside
    BY <1>9 DEF Erase, ErasesWhatItRead, Inside
  <2>2. /\ listCash[it] \in Threads
        /\ listCash[it] \in ToSet(listCash)
        /\ ToSet(listCash') = ToSet(listCash) \ {listCash[it]}
    BY <1>9, <2>1, ListSteps
  <2>3. want' = want /\ \A q \in Threads \ {t} : /\ pc'[q] = pc[q]
                                                 /\ elem'[q] = elem[q]
                                                 /\ seen'[q] = seen[q]
    BY <1>9 DEF Erase, TypeOK
  <2>4. evicted' = evicted \union {listCash[it]} /\ overlap' = overlap
    BY <1>9 DEF Erase
  <2>5. QED
    BY <1>9, <2>1, <2>2, <2>3, <2>4
<1>10. CASE EndAdd(t)
  <2>1. ToSet(listCash') = ToSet(listCash) \union {t}
    BY <1>10, ListSteps
  <2>2. QED
    BY <1>10, <2>1 DEF EndAdd, TypeOK
<1>11. CASE EndDownload(t)
  BY <1>11 DEF EndDownload, TypeOK
<1>12. QED
  BY <1>1, <1>2, <1>3, <1>4, <1>5, <1>6, <1>7, <1>8, <1>9, <1>10, <1>11 DEF Thread, Adding

(* The mutex is held by the thread that evicts; the list holds what was    *)
(* added; and who is served is served what it asked for.                   *)
LEMMA PositionStep ==
    ASSUME IInv, NEW t \in Threads, Thread(t)
    PROVE  MutexHeld' /\ AddedOnce' /\ ElementSet' /\ RightResponse'
<1> USE DEF Go, requestVars, historyVars
<1>1. TypeOK /\ ErasesWhatItRead /\ MutexHeld /\ AddedOnce /\ ElementSet /\ RightResponse
  BY DEF IInv, Inv
<1>2. MutexHeld'
  <2>1. /\ pc \in [Threads -> PCs] /\ mutex \in Threads \union {None}
        /\ t # None /\ None \notin Threads
    BY <1>1, CashAssumption DEF TypeOK
  <2>2. CASE IsElementInCash(t)
    BY <1>1, <2>1, <2>2 DEF IsElementInCash, MutexHeld
  <2>3. CASE FindResponseInCash(t)
    BY <1>1, <2>1, <2>3 DEF FindResponseInCash, MutexHeld
  <2>4. CASE AddCountUsers(t) \/ MinusCountUsers(t) \/ EndDownload(t)
    BY <1>1, <2>1, <2>4 DEF AddCountUsers, MinusCountUsers, EndDownload, MutexHeld
  <2>5. CASE ResponseHeading(t)
    BY <1>1, <2>1, <2>5 DEF ResponseHeading, MutexHeld
  <2>6. CASE Recheck(t)
    BY <1>1, <2>1, <2>6 DEF Recheck, MutexHeld
  <2>7. CASE BeginAdd(t)
    BY <1>1, <2>1, <2>7 DEF BeginAdd, MutexHeld
  <2>8. CASE ReadCount(t) \/ Erase(t)
    BY <1>1, <2>1, <2>8 DEF ReadCount, Erase, MutexHeld
  <2>9. CASE EndAdd(t)
    BY <1>1, <2>1, <2>9 DEF EndAdd, MutexHeld
  <2>10. QED
    BY <2>2, <2>3, <2>4, <2>5, <2>6, <2>7, <2>8, <2>9 DEF Thread, Adding
<1>3. AddedOnce'
  <2>1. pc[t] \in {"download", "done"} => pc'[t] \in {"download", "done"}
    BY <1>1 DEF Thread, Adding, IsElementInCash, FindResponseInCash, AddCountUsers,
         MinusCountUsers, ResponseHeading, Recheck, BeginAdd, ReadCount, Erase, EndAdd,
         EndDownload, TypeOK
  <2>2. EndAdd(t) => pc'[t] = "download"
    BY <1>1 DEF EndAdd, TypeOK
  <2>3. \A e \in ToSet(listCash') : e \in Threads
    BY TypeStep, LenProperties DEF TypeOK, ToSet
  <2>4. QED
    BY <1>1, <2>1, <2>2, <2>3, ThreadFrame DEF AddedOnce
<1>4. ElementSet' /\ RightResponse'
  <2>1. ASSUME pc'[t] \in {"count", "read"}
        PROVE  elem'[t] \in Threads /\ want[elem'[t]] = want[t]
    <3>1. CASE FindResponseInCash(t)
      <4>1. Match(t) # 0 => listCash[Match(t)] \in Threads /\ want[listCash[Match(t)]] = want[t]
        BY <1>1, MatchFacts DEF TypeOK
      <4>2. QED
        BY <1>1, <2>1, <3>1, <4>1 DEF FindResponseInCash, TypeOK
    <3>2. CASE AddCountUsers(t)
      BY <1>1, <3>2 DEF AddCountUsers, TypeOK, ElementSet, RightResponse
    <3>3. CASE IsElementInCash(t) \/ MinusCountUsers(t) \/ ResponseHeading(t) \/ Recheck(t)
      BY <1>1, <2>1, <3>3 DEF IsElementInCash, MinusCountUsers, ResponseHeading, Recheck, TypeOK
    <3>4. CASE BeginAdd(t) \/ ReadCount(t) \/ Erase(t) \/ EndAdd(t) \/ EndDownload(t)
      BY <1>1, <2>1, <3>4 DEF BeginAdd, ReadCount, Erase, EndAdd, EndDownload, TypeOK
    <3>5. QED
      BY <3>1, <3>2, <3>3, <3>4 DEF Thread, Adding
  <2>2. QED
    BY <1>1, <2>1, ThreadFrame DEF ElementSet, RightResponse
<1>5. QED
  BY <1>2, <1>3, <1>4

(* The counts follow the clients that are served. *)
LEMMA CountStep ==
    ASSUME IInv, NEW t \in Threads, Thread(t)
    PROVE  CountsExact'
<1> USE DEF Go, requestVars, historyVars
<1>1. TypeOK /\ ErasesWhatItRead /\ CountsExact /\ ElementSet /\ TypeOK'
  BY TypeStep DEF IInv, Inv
<1>2. \A e \in Threads : IsFiniteSet(Users(e)) /\ Cardinality(Users(e)) \in Nat
  BY CashAssumption, FS_Subset, FS_CardinalityType DEF Users
<1>3. CASE AddCountUsers(t)
  <2>1. elem[t] \in Threads /\ pc[t] = "count" /\ pc'[t] = "read" /\ elem' = elem
    BY <1>1, <1>3 DEF AddCountUsers, ElementSet, TypeOK
  <2>2. ASSUME NEW e \in Threads PROVE countUsers'[e] = Cardinality(Users(e)')
    <3>1. CASE e = elem[t]
      <4>1. Users(e)' = Users(e) \union {t} /\ t \notin Users(e)
        BY <1>1, <1>3, <2>1, <3>1, ThreadFrame DEF Users
      <4>2. Cardinality(Users(e)') = Cardinality(Users(e)) + 1
        BY <1>2, <4>1, FS_AddElement
      <4>3. countUsers'[e] = countUsers[e] + 1
        BY <1>1, <1>3, <3>1 DEF AddCountUsers, TypeOK
      <4>4. QED
        BY <1>1, <4>2, <4>3 DEF CountsExact
    <3>2. CASE e # elem[t]
      <4>1. Users(e)' = Users(e)
        BY <1>1, <1>3, <2>1, <3>2, ThreadFrame DEF Users
      <4>2. countUsers'[e] = countUsers[e]
        BY <1>1, <1>3, <3>2 DEF AddCountUsers, TypeOK
      <4>3. QED
        BY <1>1, <4>1, <4>2 DEF CountsExact
    <3>3. QED
      BY <3>1, <3>2
  <2>3. QED
    BY <2>2 DEF CountsExact
<1>4. CASE MinusCountUsers(t)
  <2>1. elem[t] \in Threads /\ pc[t] = "read" /\ pc'[t] = "done" /\ elem'[t] = None
    BY <1>1, <1>4 DEF MinusCountUsers, ElementSet, TypeOK
  <2>2. ASSUME NEW e \in Threads PROVE countUsers'[e] = Cardinality(Users(e)')
    <3>1. CASE e = elem[t]
      <4>1. Users(e)' = Users(e) \ {t} /\ t \in Users(e)
        BY <1>1, <1>4, <2>1, <3>1, ThreadFrame DEF Users
      <4>2. Cardinality(Users(e)') = Cardinality(Users(e)) - 1
        BY <1>2, <4>1, FS_RemoveElement
      <4>3. countUsers'[e] = countUsers[e] - 1
        BY <1>1, <1>4, <3>1 DEF MinusCountUsers, TypeOK
      <4>4. QED
        BY <1>1, <4>2, <4>3 DEF CountsExact
    <3>2. CASE e # elem[t]
      <4>1. Users(e)' = Users(e)
        BY <1>1, <1>4, <2>1, <3>2, ThreadFrame DEF Users
      <4>2. countUsers'[e] = countUsers[e]
        BY <1>1, <1>4, <3>2 DEF MinusCountUsers, TypeOK
      <4>3. QED
        BY <1>1, <4>1, <4>2 DEF CountsExact
    <3>3. QED
      BY <3>1, <3>2
  <2>3. QED
    BY <2>2 DEF CountsExact
<1>5. ASSUME pc[t] # "read", pc'[t] # "read", countUsers' = countUsers
      PROVE  CountsExact'
  <2>1. ASSUME NEW e \in Threads PROVE Users(e)' = Users(e)
    BY <1>1, <1>5, ThreadFrame DEF Users
  <2>2. QED
    BY <1>1, <1>5, <2>1 DEF CountsExact
<1>6. CASE IsElementInCash(t) \/ FindResponseInCash(t) \/ ResponseHeading(t) \/ Recheck(t)
  BY <1>1, <1>5, <1>6 DEF IsElementInCash, FindResponseInCash, ResponseHeading, Recheck, TypeOK
<1>7. CASE BeginAdd(t) \/ ReadCount(t) \/ Erase(t) \/ EndAdd(t) \/ EndDownload(t)
  BY <1>1, <1>5, <1>7 DEF BeginAdd, ReadCount, Erase, EndAdd, EndDownload, TypeOK
<1>8. QED
  BY <1>3, <1>4, <1>6, <1>7 DEF Thread, Adding

(* What a thread has seen stays in the list or is evicted, and a lookup that *)
(* comes back empty has lost it to an eviction.                             *)
LEMMA SeenStep ==
    ASSUME IInv, NEW t \in Threads, Thread(t)
    PROVE  SeenOrEvicted' /\ CrashOnlyByEviction'
<1> USE DEF Go, requestVars, historyVars
<1>1. TypeOK /\ ErasesWhatItRead /\ SeenOrEvicted /\ CrashOnlyByEviction
  BY DEF IInv, Inv
<1>2. ToSet(listCash) \union evicted \subseteq ToSet(listCash') \union evicted'
  BY <1>1, ThreadFrame
<1>3. pc'[t] = "find" => /\ seen'[t] \in ToSet(listCash') \union evicted'
                         /\ want[seen'[t]] = want[t]
  <2>1. CASE IsElementInCash(t)
    BY <1>1, <1>2, <2>1, MatchFacts DEF IsElementInCash, TypeOK
  <2>2. CASE FindResponseInCash(t) \/ AddCountUsers(t) \/ MinusCountUsers(t)
    BY <1>1, <2>2 DEF FindResponseInCash, AddCountUsers, MinusCountUsers, TypeOK
  <2>3. CASE ResponseHeading(t) \/ Recheck(t) \/ BeginAdd(t)
    BY <1>1, <2>3 DEF ResponseHeading, Recheck, BeginAdd, TypeOK
  <2>4. CASE ReadCount(t) \/ Erase(t) \/ EndAdd(t) \/ EndDownload(t)
    BY <1>1, <2>4 DEF ReadCount, Erase, EndAdd, EndDownload, TypeOK
  <2>5. QED
    BY <2>1, <2>2, <2>3, <2>4 DEF Thread, Adding
<1>4. pc'[t] = "crash" => seen'[t] \in evicted'
  <2>1. CASE FindResponseInCash(t)
    <3>1. CASE Match(t) # 0
      BY <1>1, <2>1, <3>1 DEF FindResponseInCash, TypeOK
    <3>2. CASE Match(t) = 0
      <4>1. pc[t] = "find" /\ seen' = seen /\ evicted' = evicted
        BY <2>1, <3>2 DEF FindResponseInCash
      <4>2. seen[t] \notin ToSet(listCash)
        BY <1>1, <3>2, <4>1, MatchFacts DEF SeenOrEvicted, TypeOK
      <4>3. QED
        BY <1>1, <4>1, <4>2 DEF SeenOrEvicted
    <3>3. QED
      BY <3>1, <3>2
  <2>2. CASE IsElementInCash(t) \/ AddCountUsers(t) \/ MinusCountUsers(t)
    BY <1>1, <2>2 DEF IsElementInCash, AddCountUsers, MinusCountUsers, TypeOK
  <2>3. CASE ResponseHeading(t) \/ Recheck(t) \/ BeginAdd(t)
    BY <1>1, <2>3 DEF ResponseHeading, Recheck, BeginAdd, TypeOK
  <2>4. CASE ReadCount(t) \/ Erase(t) \/ EndAdd(t) \/ EndDownload(t)
    BY <1>1, <2>4 DEF ReadCount, Erase, EndAdd, EndDownload, TypeOK
  <2>5. QED
    BY <2>1, <2>2, <2>3, <2>4 DEF Thread, Adding
<1>5. evicted \subseteq evicted'
  BY <1>1, ThreadFrame
<1>6. SeenOrEvicted'
  BY <1>1, <1>2, <1>3, ThreadFrame DEF SeenOrEvicted
<1>7. CrashOnlyByEviction'
  BY <1>1, <1>4, <1>5, ThreadFrame DEF CrashOnlyByEviction
<1>8. QED
  BY <1>6, <1>7

(* Who has looked again and found nothing hears of every element that is    *)
(* added since, as long as it has not begun to add its own.                *)
LEMMA RecheckStep ==
    ASSUME IInv, NEW t \in Threads, Thread(t)
    PROVE  RecheckedSince' /\ DuplicatesOverlap'
<1> USE DEF Go, requestVars, historyVars
<1>1. TypeOK /\ ErasesWhatItRead /\ MutexHeld /\ RecheckedSince /\ DuplicatesOverlap
  BY DEF IInv, Inv
<1>2. CASE EndAdd(t)
  <2>1. /\ pc[t] = "evict" /\ pc'[t] = "download" /\ want' = want
        /\ ToSet(listCash') = ToSet(listCash) \union {t}
        /\ \A u \in Threads : pc[u] = "add" => overlap'[u] = overlap[u] \union {t}
        /\ \A u \in Threads : overlap[u] \subseteq overlap'[u]
    <3>1. pc[t] = "evict" /\ pc'[t] = "download" /\ want' = want
      BY <1>1, <1>2 DEF EndAdd, TypeOK
    <3>2. ToSet(listCash') = ToSet(listCash) \union {t}
      BY <1>1, <1>2, ListSteps
    <3>3. overlap' = [u \in Threads |-> IF pc[u] = "add" THEN overlap[u] \union {t} ELSE overlap[u]]
      BY <1>2 DEF EndAdd
    <3>4. QED
      BY <3>1, <3>2, <3>3
  <2>2. ASSUME NEW q \in Threads, pc'[q] \in {"add", "evict", "erase"},
               NEW e \in ToSet(listCash'), want[e] = want[q]
        PROVE  e \in overlap'[q]
    <3>1. q # t /\ pc[q] = pc'[q]
      BY <1>1, <2>1, <2>2, ThreadFrame
    <3>2. pc[q] = "add"
      BY <1>1, <2>1, <2>2, <3>1 DEF MutexHeld
    <3>3. QED
      BY <1>1, <2>1, <2>2, <3>2 DEF RecheckedSince
  <2>3. ASSUME NEW e \in ToSet(listCash'), NEW f \in ToSet(listCash'), e # f, want[e] = want[f]
        PROVE  e \in overlap'[f] \/ f \in overlap'[e]
    <3>1. \A u \in ToSet(listCash) : u \in Threads
      BY <1>1, LenProperties DEF TypeOK, ToSet
    <3>2. CASE e = t \/ f = t
      BY <1>1, <2>1, <2>3, <3>1, <3>2 DEF RecheckedSince
    <3>3. CASE e # t /\ f # t
      BY <1>1, <2>1, <2>3, <3>1, <3>3 DEF DuplicatesOverlap
    <3>4. QED
      BY <3>2, <3>3
  <2>4. QED
    BY <2>1, <2>2, <2>3 DEF RecheckedSince, DuplicatesOverlap
<1>3. CASE ~EndAdd(t)
  <2>1. want' = want /\ overlap' = overlap /\ ToSet(listCash') \subseteq ToSet(listCash)
    BY <1>1, <1>3, ThreadFrame
  <2>2. pc'[t] \in {"add", "evict", "erase"} =>
            \A e \in ToSet(listCash') : want[e] = want[t] => e \in overlap[t]
    <3>1. CASE Recheck(t)
      BY <1>1, <2>1, <3>1, MatchFacts DEF Recheck, TypeOK
    <3>2. CASE BeginAdd(t) \/ ReadCount(t) \/ Erase(t)
      BY <1>1, <2>1, <3>2 DEF BeginAdd, ReadCount, Erase, RecheckedSince
    <3>3. CASE IsElementInCash(t) \/ FindResponseInCash(t) \/ AddCountUsers(t)
      BY <1>1, <3>3 DEF IsElementInCash, FindResponseInCash, AddCountUsers, TypeOK
    <3>4. CASE MinusCountUsers(t) \/ ResponseHeading(t) \/ EndDownload(t)
      <4>1. pc'[t] \in {"recheck", "done"}
        BY <1>1, <3>4 DEF MinusCountUsers, ResponseHeading, EndDownload, TypeOK
      <4>2. QED
        BY <4>1
    <3>5. QED
      BY <1>3, <3>1, <3>2, <3>3, <3>4 DEF Thread, Adding
  <2>3. RecheckedSince'
    BY <1>1, <2>1, <2>2, ThreadFrame DEF RecheckedSince
  <2>4. DuplicatesOverlap'
    BY <1>1, <2>1 DEF DuplicatesOverlap
  <2>5. QED
    BY <2>3, <2>4
<1>4. QED
  BY <1>2, <1>3

(* While a thread stands on an element whose count it has read nobody finds *)
(* that element any more, so those who count themselves were late already. *)
LEMMA EraseStep ==
    ASSUME IInv, NEW t \in Threads, Thread(t)
    PROVE  ErasesWhatItRead'
<1> USE DEF Go, requestVars, historyVars
<1>1. TypeOK /\ ErasesWhatItRead /\ MutexHeld /\ CountsExact /\ TypeOK' /\ MutexHeld'
  BY TypeStep, PositionStep DEF IInv, Inv
<1>2. SUFFICES ASSUME NEW m \in Threads, pc'[m] = "erase"
               PROVE  /\ it' <= Len(listCash')
                      /\ (Users(listCash[it]) \union Found(listCash[it]))' \subseteq late'
  BY DEF ErasesWhatItRead
<1>3. CASE m = t
  <2>1. ReadCount(t) /\ countUsers[listCash[it]] <= 0
    BY <1>1, <1>2, <1>3 DEF Thread, Adding, IsElementInCash, FindResponseInCash, AddCountUsers,
       MinusCountUsers, ResponseHeading, Recheck, BeginAdd, ReadCount, Erase, EndAdd, EndDownload,
       TypeOK
  <2>2. /\ it' = it /\ listCash' = listCash /\ it <= Len(listCash) /\ elem' = elem
        /\ late' = Found(listCash[it]) /\ pc'[t] = "erase"
    BY <1>1, <2>1 DEF ReadCount, TypeOK
  <2>3. listCash[it] \in Threads
    BY <1>1, <2>2 DEF TypeOK
  <2>4. Users(listCash[it]) = {}
    <3>1. /\ IsFiniteSet(Users(listCash[it]))
          /\ Cardinality(Users(listCash[it])) \in Nat
      BY CashAssumption, FS_Subset, FS_CardinalityType DEF Users
    <3>2. Cardinality(Users(listCash[it])) <= 0
      BY <1>1, <2>1, <2>3 DEF CountsExact
    <3>3. QED
      BY <3>1, <3>2, FS_EmptySet
  <2>5. \A u \in Threads \ {t} : pc'[u] = pc[u]
    BY <1>1, ThreadFrame
  <2>6. QED
    BY <2>2, <2>4, <2>5 DEF Users, Found
<1>4. CASE m # t
  <2>1. pc[m] = "erase" /\ mutex = m /\ mutex' = m /\ m # None
    BY <1>1, <1>2, <1>4, ThreadFrame, CashAssumption DEF MutexHeld
  <2>2. CASE AddCountUsers(t) \/ MinusCountUsers(t) \/ ResponseHeading(t) \/ EndDownload(t)
    <3>1. it' = it /\ listCash' = listCash /\ late' = late
      BY <2>2 DEF AddCountUsers, MinusCountUsers, ResponseHeading, EndDownload
    <3>2. \A u \in Threads : pc'[u] \in {"count", "read"} =>
                              pc[u] \in {"count", "read"} /\ elem'[u] = elem[u]
      BY <1>1, <2>2, ThreadFrame
      DEF AddCountUsers, MinusCountUsers, ResponseHeading, EndDownload, TypeOK
    <3>3. QED
      BY <1>1, <2>1, <3>1, <3>2 DEF ErasesWhatItRead, Users, Found
  <2>3. CASE IsElementInCash(t) \/ FindResponseInCash(t) \/ Recheck(t) \/ BeginAdd(t)
    BY <2>1, <2>3 DEF IsElementInCash, FindResponseInCash, Recheck, BeginAdd
  <2>4. CASE ReadCount(t) \/ Erase(t) \/ EndAdd(t)
    BY <1>1, <1>4, <2>1, <2>4 DEF ReadCount, Erase, EndAdd, MutexHeld
  <2>5. QED
    BY <2>2, <2>3, <2>4 DEF Thread, Adding
<1>5. QED
  BY <1>3, <1>4

(* The invariant is inductive. *)
LEMMA Inductive == IInv /\ [Next]_vars => IInv'
<1> SUFFICES ASSUME IInv, [Next]_vars PROVE IInv'
  OBVIOUS
<1>1. CASE UNCHANGED vars
  <2>1. ErasesWhatItRead'
    BY <1>1 DEF vars, requestVars, historyVars, IInv, Inv, ErasesWhatItRead, Found, Users
  <2>2. QED
    BY <1>1, <2>1 DEF vars, requestVars, historyVars, IInv, Inv, TypeOK, MutexHeld, AddedOnce,
       ElementSet, CountsExact, Users, RightResponse, SeenOrEvicted, RecheckedSince,
       CrashOnlyByEviction, DuplicatesOverlap
<1>2. ASSUME NEW t \in Threads, Thread(t) PROVE IInv'
  <2>1. TypeOK'
    BY <1>2, TypeStep
  <2>2. MutexHeld' /\ AddedOnce' /\ ElementSet' /\ RightResponse'
    BY <1>2, PositionStep
  <2>3. CountsExact'
    BY <1>2, CountStep
  <2>4. SeenOrEvicted' /\ CrashOnlyByEviction'
    BY <1>2, SeenStep
  <2>5. RecheckedSince' /\ DuplicatesOverlap'
    BY <1>2, RecheckStep
  <2>6. ErasesWhatItRead'
    BY <1>2, EraseStep
  <2>7. QED
    BY <2>1, <2>2, <2>3, <2>4, <2>5, <2>6 DEF IInv, Inv
<1>3. QED
  BY <1>1, <1>2 DEF Next

(* It holds when nothing has been asked for yet. *)
LEMMA Initial == Init => IInv
<1> SUFFICES ASSUME Init PROVE IInv
  OBVIOUS
<1>1. listCash = <<>> /\ ToSet(listCash) = {}
  BY DEF Init, ToSet
<1>2. listCash \in Seq(Threads) /\ IsInjective(listCash)
  BY <1>1 DEF IsInjective
<1>3. TypeOK
  <2>1. it \in 1..Len(listCash) + 1
    BY <1>1 DEF Init
  <2>2. QED
    BY <1>2, <2>1 DEF Init, TypeOK
<1>4. CountsExact
  <2>1. \A e \in Threads : Users(e) = {}
    BY DEF Init, Users
  <2>2. QED
    BY <2>1, FS_EmptySet DEF Init, CountsExact
<1>5. MutexHeld /\ ErasesWhatItRead /\ AddedOnce /\ ElementSet /\ RightResponse
  BY <1>1, CashAssumption DEF Init, MutexHeld, ErasesWhatItRead, AddedOnce, ElementSet, RightResponse
<1>6. SeenOrEvicted /\ CrashOnlyByEviction /\ RecheckedSince /\ DuplicatesOverlap
  BY <1>1 DEF Init, SeenOrEvicted, CrashOnlyByEviction, RecheckedSince, DuplicatesOverlap
<1>7. QED
  BY <1>3, <1>4, <1>5, <1>6 DEF IInv, Inv

(* So it holds in every reachable state. *)
LEMMA Invariance == Spec => []IInv
BY Initial, Inductive, PTL DEF Spec

-----------------------------------------------------------------------------
(* The results. *)

(* In every execution, with any number of requests, the list stays a list  *)
(* of distinct elements, the counts are exact, and a client is served the  *)
(* response to its own heading.                                            *)
THEOREM InvHolds == Spec => []Inv
<1>1. IInv => Inv
  BY DEF IInv
<1>2. QED
  BY <1>1, Invariance, PTL

(* The NULL that wrightRequestHeading dereferences after a successful      *)
(* isElementInCash has one explanation: the element was evicted between    *)
(* the two calls.                                                          *)
THEOREM CrashExplained == Spec => []CrashOnlyByEviction
<1>1. IInv => CrashOnlyByEviction
  BY DEF IInv
<1>2. QED
  BY <1>1, Invariance, PTL

(* Two elements with one heading have one explanation: the two threads had *)
(* both looked for the second time before either of them added.            *)
THEOREM DuplicatesExplained == Spec => []DuplicatesOverlap
<1>1. IInv => DuplicatesOverlap
  BY DEF IInv
<1>2. QED
  BY <1>1, Invariance, PTL

(* An element that leaves the list with users has one explanation: they    *)
(* had found it before the evicting thread took the mutex, and counted     *)
(* themselves between its reading of the count and its erasing.            *)
THEOREM EvictionExplained == Spec => EvictsOnlyUncounted
<1> DEFINE A == \A e \in ToSet(listCash) \ ToSet(listCash') :
                    Users(e) \subseteq late /\ mutex # None
<1>1. ASSUME IInv, NEW t \in Threads, Thread(t) PROVE A
  <2>1. TypeOK /\ MutexHeld /\ ErasesWhatItRead
    BY <1>1 DEF IInv, Inv
  <2>2. CASE ToSet(listCash) \subseteq ToSet(listCash')
    BY <2>2
  <2>3. CASE /\ Erase(t)
             /\ ToSet(listCash') = ToSet(listCash) \ {listCash[it]}
    <3>1. mutex = t /\ t # None
      BY <2>1, <2>3, CashAssumption DEF Erase, Go, MutexHeld
    <3>2. Users(listCash[it]) \subseteq late
      BY <2>1, <2>3 DEF Erase, Go, ErasesWhatItRead
    <3>3. QED
      BY <2>3, <3>1, <3>2
  <2>4. QED
    BY <1>1, <2>1, <2>2, <2>3, ThreadFrame
<1>2. IInv /\ [Next]_vars => [A]_vars
  BY <1>1 DEF Next
<1>3. QED
  BY <1>2, Invariance, PTL DEF Spec, EvictsOnlyUncounted

=============================================================================
