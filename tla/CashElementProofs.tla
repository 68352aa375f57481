-------------------------- MODULE CashElementProofs --------------------------
(***************************************************************************)
(* The safety of a cache element for any number of readers, any response   *)
(* and any buffer size: the inductive invariant IInv of CashElement and    *)
(* the properties that follow from it.                                     *)
(***************************************************************************)
EXTENDS CashElement, FiniteSetTheorems, TLAPS

USE DEF WriterPCs, ReaderPCs

(* Every step keeps the variables in their types, given that readers never *)
(* run ahead of the element (OffsetInv).                                   *)
LEMMA TypeStep ==
    ASSUME TypeOK, WriterInv, OffsetInv, [Next]_vars
    PROVE  TypeOK'
<1> USE ElementAssumption DEF TypeOK, elementVars, writerVars, readerVars, Step, Because
<1>1. CASE UNCHANGED vars
  BY <1>1 DEF vars
<1>2. CASE AppendStringToCash
  BY <1>2 DEF AppendStringToCash
<1>3. CASE Disconnect
  BY <1>3 DEF Disconnect
<1>4. CASE LockSubscribers
  BY <1>4 DEF LockSubscribers
<1>5. CASE \E r \in Readers : SignalOne(r)
  BY <1>5 DEF SignalOne
<1>6. CASE UnlockSubscribers
  BY <1>6 DEF UnlockSubscribers
<1>7. CASE OpenElement
  BY <1>7 DEF OpenElement
<1>8. CASE MarkDownloadEnd
  BY <1>8 DEF MarkDownloadEnd
<1>9. ASSUME NEW r \in Readers, AddCountUsers(r) PROVE TypeOK'
  BY <1>9 DEF AddCountUsers
<1>10. ASSUME NEW r \in Readers, SpuriousWakeup(r) PROVE TypeOK'
  BY <1>10 DEF SpuriousWakeup
<1>11. ASSUME NEW r \in Readers, InitializeResources(r) PROVE TypeOK'
  BY <1>11 DEF InitializeResources
<1>12. ASSUME NEW r \in Readers, InitializeResourcesFails(r) PROVE TypeOK'
  BY <1>12 DEF InitializeResourcesFails
<1>13. ASSUME NEW r \in Readers, AddCondVar(r) PROVE TypeOK'
  BY <1>13 DEF AddCondVar
<1>14. ASSUME NEW r \in Readers, TestServer(r) PROVE TypeOK'
  BY <1>14 DEF TestServer
<1>15. ASSUME NEW r \in Readers, TestReady(r) PROVE TypeOK'
  BY <1>15 DEF TestReady, ReadyToSend
<1>16. ASSUME NEW r \in Readers, CondWait(r) PROVE TypeOK'
  BY <1>16 DEF CondWait
<1>17. ASSUME NEW r \in Readers, CondWaitFails(r) PROVE TypeOK'
  BY <1>17 DEF CondWaitFails
<1>18. ASSUME NEW r \in Readers, Check(r) PROVE TypeOK'
  BY <1>18 DEF Check
<1>19. ASSUME NEW r \in Readers, CheckReady(r) PROVE TypeOK'
  BY <1>19 DEF CheckReady, ReadyToSend, LoopOrLeave
<1>20. ASSUME NEW r \in Readers, SendMore(r) PROVE TypeOK'
  BY <1>20 DEF SendMore
<1>21. ASSUME NEW r \in Readers, SendAllReturns(r) PROVE TypeOK'
  BY <1>21 DEF SendAllReturns
<1>22. ASSUME NEW r \in Readers, Size(r) PROVE TypeOK'
  BY <1>22 DEF Size, OffsetInv, OffsetAt
<1>23. ASSUME NEW r \in Readers, Resize(r) PROVE TypeOK'
  BY <1>23 DEF Resize, OffsetInv, OffsetAt
<1>24. ASSUME NEW r \in Readers, MemCopyFromCash(r) PROVE TypeOK'
  BY <1>24 DEF MemCopyFromCash, OffsetInv, OffsetAt
<1>25. ASSUME NEW r \in Readers, SendBuf(r) PROVE TypeOK'
  BY <1>25 DEF SendBuf, OffsetInv, OffsetAt
<1>26. ASSUME NEW r \in Readers, SendBufFails(r) PROVE TypeOK'
  BY <1>26 DEF SendBufFails
<1>27. ASSUME NEW r \in Readers, ProofSend(r) PROVE TypeOK'
  BY <1>27 DEF ProofSend, OffsetInv, OffsetAt
<1>28. ASSUME NEW r \in Readers, DellCondVar(r) PROVE TypeOK'
  BY <1>28 DEF DellCondVar
<1>29. ASSUME NEW r \in Readers, DeleteResources(r) PROVE TypeOK'
  BY <1>29 DEF DeleteResources
<1>30. ASSUME NEW r \in Readers, MinusCountUsers(r) PROVE TypeOK'
  BY <1>30 DEF MinusCountUsers
<1>31. QED
  BY <1>1, <1>2, <1>3, <1>4, <1>5, <1>6, <1>7, <1>8, <1>9, <1>10, <1>11, <1>12,
     <1>13, <1>14, <1>15, <1>16, <1>17, <1>18, <1>19, <1>20, <1>21, <1>22, <1>23,
     <1>24, <1>25, <1>26, <1>27, <1>28, <1>29, <1>30 DEF Next, Writer, Reader

(* A step of reader r leaves the element and the writer alone, and every *)
(* other reader.                                                         *)
ReaderStep(r) == AddCountUsers(r) \/ SpuriousWakeup(r) \/ Reader(r)

Same(q) ==
    /\ rpc'[q] = rpc[q]
    /\ count'[q] = count[q]
    /\ isReadyToSend'[q] = isReadyToSend[q]
    /\ target'[q] = target[q]
    /\ copied'[q] = copied[q]
    /\ sent'[q] = sent[q]
    /\ mode'[q] = mode[q]

LEMMA ReaderFrame ==
    ASSUME TypeOK, NEW r \in Readers, ReaderStep(r)
    PROVE  /\ UNCHANGED <<elementVars, writerVars>>
           /\ \A q \in Readers \ {r} : Same(q)
<1> USE DEF TypeOK, elementVars, writerVars, readerVars, Step, Because, Same
<1>1. CASE AddCountUsers(r)
  BY <1>1 DEF AddCountUsers
<1>2. CASE SpuriousWakeup(r)
  BY <1>2 DEF SpuriousWakeup
<1>3. CASE InitializeResources(r)
  BY <1>3 DEF InitializeResources
<1>4. CASE InitializeResourcesFails(r)
  BY <1>4 DEF InitializeResourcesFails
<1>5. CASE AddCondVar(r)
  BY <1>5 DEF AddCondVar
<1>6. CASE TestServer(r)
  BY <1>6 DEF TestServer
<1>7. CASE TestReady(r)
  BY <1>7 DEF TestReady
<1>8. CASE CondWait(r)
  BY <1>8 DEF CondWait
<1>9. CASE CondWaitFails(r)
  BY <1>9 DEF CondWaitFails
<1>10. CASE Check(r)
  BY <1>10 DEF Check
<1>11. CASE CheckReady(r)
  BY <1>11 DEF CheckReady
<1>12. CASE SendMore(r)
  BY <1>12 DEF SendMore
<1>13. CASE SendAllReturns(r)
  BY <1>13 DEF SendAllReturns
<1>14. CASE Size(r)
  BY <1>14 DEF Size
<1>15. CASE Resize(r)
  BY <1>15 DEF Resize
<1>16. CASE MemCopyFromCash(r)
  BY <1>16 DEF MemCopyFromCash
<1>17. CASE SendBuf(r)
  BY <1>17 DEF SendBuf
<1>18. CASE SendBufFails(r)
  BY <1>18 DEF SendBufFails
<1>19. CASE ProofSend(r)
  BY <1>19 DEF ProofSend
<1>20. CASE DellCondVar(r)
  BY <1>20 DEF DellCondVar
<1>21. CASE DeleteResources(r)
  BY <1>21 DEF DeleteResources
<1>22. CASE MinusCountUsers(r)
  BY <1>22 DEF MinusCountUsers
<1>23. QED
  BY <1>1, <1>2, <1>3, <1>4, <1>5, <1>6, <1>7, <1>8, <1>9, <1>10, <1>11, <1>12, <1>13,
     <1>14, <1>15, <1>16, <1>17, <1>18, <1>19, <1>20, <1>21, <1>22 DEF ReaderStep, Reader

(* The list of subscribers and the loop over it stay within the mutex. *)
LEMMA LockStep ==
    ASSUME TypeOK, LockInv, [Next]_vars
    PROVE  LockInv'
<1> USE DEF TypeOK, elementVars, writerVars, readerVars, Step, Because,
            LockInv, SubscribedPCs, SendingPCs
<1>1. CASE UNCHANGED vars
  BY <1>1 DEF vars
<1>2. CASE AppendStringToCash
  BY <1>2 DEF AppendStringToCash
<1>3. CASE Disconnect
  BY <1>3 DEF Disconnect
<1>4. CASE LockSubscribers
  BY <1>4 DEF LockSubscribers
<1>5. CASE UnlockSubscribers
  BY <1>5 DEF UnlockSubscribers
<1>6. CASE OpenElement
  BY <1>6 DEF OpenElement
<1>7. CASE MarkDownloadEnd
  BY <1>7 DEF MarkDownloadEnd
<1>8. ASSUME NEW r \in Readers, SignalOne(r) PROVE LockInv'
  BY <1>8 DEF SignalOne
<1>9. ASSUME NEW r \in Readers, AddCountUsers(r) PROVE LockInv'
  BY <1>9 DEF AddCountUsers
<1>10. ASSUME NEW r \in Readers, SpuriousWakeup(r) PROVE LockInv'
  BY <1>10 DEF SpuriousWakeup
<1>11. ASSUME NEW r \in Readers, InitializeResources(r) PROVE LockInv'
  BY <1>11 DEF InitializeResources
<1>12. ASSUME NEW r \in Readers, InitializeResourcesFails(r) PROVE LockInv'
  BY <1>12 DEF InitializeResourcesFails
<1>13. ASSUME NEW r \in Readers, AddCondVar(r) PROVE LockInv'
  BY <1>13 DEF AddCondVar
<1>14. ASSUME NEW r \in Readers, TestServer(r) PROVE LockInv'
  BY <1>14 DEF TestServer
<1>15. ASSUME NEW r \in Readers, TestReady(r) PROVE LockInv'
  BY <1>15 DEF TestReady
<1>16. ASSUME NEW r \in Readers, CondWait(r) PROVE LockInv'
  BY <1>16 DEF CondWait
<1>17. ASSUME NEW r \in Readers, CondWaitFails(r) PROVE LockInv'
  BY <1>17 DEF CondWaitFails
<1>18. ASSUME NEW r \in Readers, Check(r) PROVE LockInv'
  BY <1>18 DEF Check
<1>19. ASSUME NEW r \in Readers, CheckReady(r) PROVE LockInv'
  BY <1>19 DEF CheckReady, LoopOrLeave
<1>20. ASSUME NEW r \in Readers, SendMore(r) PROVE LockInv'
  BY <1>20 DEF SendMore
<1>21. ASSUME NEW r \in Readers, SendAllReturns(r) PROVE LockInv'
  BY <1>21 DEF SendAllReturns
<1>22. ASSUME NEW r \in Readers, Size(r) PROVE LockInv'
  BY <1>22 DEF Size
<1>23. ASSUME NEW r \in Readers, Resize(r) PROVE LockInv'
  BY <1>23 DEF Resize
<1>24. ASSUME NEW r \in Readers, MemCopyFromCash(r) PROVE LockInv'
  BY <1>24 DEF MemCopyFromCash
<1>25. ASSUME NEW r \in Readers, SendBuf(r) PROVE LockInv'
  BY <1>25 DEF SendBuf
<1>26. ASSUME NEW r \in Readers, SendBufFails(r) PROVE LockInv'
  BY <1>26 DEF SendBufFails
<1>27. ASSUME NEW r \in Readers, ProofSend(r) PROVE LockInv'
  BY <1>27 DEF ProofSend
<1>28. ASSUME NEW r \in Readers, DellCondVar(r) PROVE LockInv'
  BY <1>28 DEF DellCondVar
<1>29. ASSUME NEW r \in Readers, DeleteResources(r) PROVE LockInv'
  BY <1>29 DEF DeleteResources
<1>30. ASSUME NEW r \in Readers, MinusCountUsers(r) PROVE LockInv'
  BY <1>30 DEF MinusCountUsers
<1>31. QED
  BY <1>1, <1>2, <1>3, <1>4, <1>5, <1>6, <1>7, <1>8, <1>9, <1>10, <1>11, <1>12, <1>13,
     <1>14, <1>15, <1>16, <1>17, <1>18, <1>19, <1>20, <1>21, <1>22, <1>23, <1>24,
     <1>25, <1>26, <1>27, <1>28, <1>29, <1>30 DEF Next, Writer, Reader

(* Only the writer moves the flag, and only as its own position says. *)
LEMMA WriterStep ==
    ASSUME TypeOK, WriterInv, [Next]_vars
    PROVE  WriterInv'
<1> USE ElementAssumption DEF TypeOK, elementVars, writerVars, readerVars, Step, Because, WriterInv
<1>1. CASE UNCHANGED vars
  BY <1>1 DEF vars
<1>2. CASE AppendStringToCash
  BY <1>2 DEF AppendStringToCash
<1>3. CASE Disconnect
  BY <1>3 DEF Disconnect
<1>4. CASE LockSubscribers
  BY <1>4 DEF LockSubscribers
<1>5. CASE UnlockSubscribers
  BY <1>5 DEF UnlockSubscribers
<1>6. CASE OpenElement
  BY <1>6 DEF OpenElement
<1>7. CASE MarkDownloadEnd
  BY <1>7 DEF MarkDownloadEnd
<1>8. ASSUME NEW r \in Readers, SignalOne(r) PROVE WriterInv'
  BY <1>8 DEF SignalOne
<1>9. ASSUME NEW r \in Readers, ReaderStep(r) PROVE WriterInv'
  BY <1>9, ReaderFrame
<1>10. QED
  BY <1>1, <1>2, <1>3, <1>4, <1>5, <1>6, <1>7, <1>8, <1>9 DEF Next, Writer, ReaderStep

(* No step lets a reader run ahead of the element, or makes what it has *)
(* written differ from the offset it reads next.                        *)
LEMMA OffsetStep ==
    ASSUME TypeOK, OffsetInv, [Next]_vars
    PROVE  OffsetInv'
<1> USE ElementAssumption DEF TypeOK, elementVars, writerVars, readerVars, Step, Because,
            OffsetInv, OffsetAt
<1>1. CASE UNCHANGED vars
  BY <1>1 DEF vars
<1>2. CASE AppendStringToCash
  BY <1>2 DEF AppendStringToCash
<1>3. CASE Disconnect
  BY <1>3 DEF Disconnect
<1>4. CASE LockSubscribers
  BY <1>4 DEF LockSubscribers
<1>5. CASE UnlockSubscribers
  BY <1>5 DEF UnlockSubscribers
<1>6. CASE OpenElement
  BY <1>6 DEF OpenElement
<1>7. CASE MarkDownloadEnd
  BY <1>7 DEF MarkDownloadEnd
<1>8. ASSUME NEW r \in Readers, SignalOne(r) PROVE OffsetInv'
  BY <1>8 DEF SignalOne
<1>9. ASSUME NEW r \in Readers, ReaderStep(r) PROVE OffsetInv'
  <2>1. \A q \in Readers \ {r} : OffsetAt(q)'
    BY <1>9, ReaderFrame DEF Same
  <2>2. CASE AddCountUsers(r)
    BY <2>1, <2>2 DEF AddCountUsers
  <2>3. CASE SpuriousWakeup(r)
    BY <2>1, <2>3 DEF SpuriousWakeup
  <2>4. CASE InitializeResources(r)
    BY <2>1, <2>4 DEF InitializeResources
  <2>5. CASE InitializeResourcesFails(r)
    BY <2>1, <2>5 DEF InitializeResourcesFails
  <2>6. CASE AddCondVar(r)
    BY <2>1, <2>6 DEF AddCondVar
  <2>7. CASE TestServer(r)
    BY <2>1, <2>7 DEF TestServer
  <2>8. CASE TestReady(r)
    BY <2>1, <2>8 DEF TestReady, ReadyToSend
  <2>9. CASE CondWait(r)
    BY <2>1, <2>9 DEF CondWait
  <2>10. CASE CondWaitFails(r)
    BY <2>1, <2>10 DEF CondWaitFails
  <2>11. CASE Check(r)
    BY <2>1, <2>11 DEF Check, Phase
  <2>12. CASE CheckReady(r)
    BY <2>1, <2>12 DEF CheckReady, ReadyToSend, LoopOrLeave
  <2>13. CASE SendMore(r)
    BY <2>1, <2>13 DEF SendMore, ReadyToSend
  <2>14. CASE SendAllReturns(r)
    BY <2>1, <2>14 DEF SendAllReturns, ReadyToSend
  <2>15. CASE Size(r)
    BY <2>1, <2>15 DEF Size
  <2>16. CASE Resize(r)
    BY <2>1, <2>16 DEF Resize
  <2>17. CASE MemCopyFromCash(r)
    BY <2>1, <2>17 DEF MemCopyFromCash
  <2>18. CASE SendBuf(r)
    BY <2>1, <2>18 DEF SendBuf
  <2>19. CASE SendBufFails(r)
    BY <2>1, <2>19 DEF SendBufFails
  <2>20. CASE ProofSend(r)
    <3>1. /\ rpc[r] = "proof" /\ rpc'[r] = "sendTest"
          /\ count'[r] = count[r] + target[r]
          /\ UNCHANGED <<length, target, sent>>
      BY <2>20 DEF ProofSend
    <3>2. isReadyToSend'[r] => length # count'[r]
      BY <2>20 DEF ProofSend
    <3>3. OffsetAt(r)'
      BY <3>1, <3>2
    <3>4. QED
      BY <2>1, <3>3
  <2>21. CASE DellCondVar(r)
    BY <2>1, <2>21 DEF DellCondVar
  <2>22. CASE DeleteResources(r)
    BY <2>1, <2>22 DEF DeleteResources
  <2>23. CASE MinusCountUsers(r)
    BY <2>1, <2>23 DEF MinusCountUsers
  <2>24. QED
    BY <1>9, <2>2, <2>3, <2>4, <2>5, <2>6, <2>7, <2>8, <2>9, <2>10, <2>11, <2>12,
       <2>13, <2>14, <2>15, <2>16, <2>17, <2>18, <2>19, <2>20, <2>21, <2>22, <2>23 DEF ReaderStep, Reader
<1>10. QED
  BY <1>1, <1>2, <1>3, <1>4, <1>5, <1>6, <1>7, <1>8, <1>9 DEF Next, Writer, ReaderStep

(* A closed element stands still under the readers that drain it. *)
LEMMA DrainStep ==
    ASSUME TypeOK, WriterInv, OffsetInv, DrainInv, [Next]_vars
    PROVE  DrainInv'
<1> USE ElementAssumption DEF TypeOK, elementVars, writerVars, readerVars, Step, Because,
            DrainInv, DrainAt, SendingPCs, LeavingPCs
<1>1. CASE UNCHANGED vars
  BY <1>1 DEF vars
<1>2. CASE AppendStringToCash
  BY <1>2 DEF AppendStringToCash, WriterInv
<1>3. CASE Disconnect
  BY <1>3 DEF Disconnect, WriterInv
<1>4. CASE LockSubscribers
  BY <1>4 DEF LockSubscribers, WriterInv
<1>5. CASE UnlockSubscribers
  BY <1>5 DEF UnlockSubscribers, WriterInv
<1>6. CASE OpenElement
  BY <1>6 DEF OpenElement, WriterInv
<1>7. CASE MarkDownloadEnd
  BY <1>7 DEF MarkDownloadEnd, WriterInv
<1>8. ASSUME NEW r \in Readers, SignalOne(r) PROVE DrainInv'
  BY <1>8 DEF SignalOne
<1>9. ASSUME NEW r \in Readers, ReaderStep(r) PROVE DrainInv'
  <2>1. \A q \in Readers \ {r} : DrainAt(q)'
    BY <1>9, ReaderFrame DEF Same
  <2>2. CASE AddCountUsers(r)
    BY <2>1, <2>2 DEF AddCountUsers, OffsetInv, OffsetAt, WriterInv
  <2>3. CASE SpuriousWakeup(r)
    BY <2>1, <2>3 DEF SpuriousWakeup, OffsetInv, OffsetAt, WriterInv
  <2>4. CASE InitializeResources(r)
    BY <2>1, <2>4 DEF InitializeResources, OffsetInv, OffsetAt, WriterInv
  <2>5. CASE InitializeResourcesFails(r)
    BY <2>1, <2>5 DEF InitializeResourcesFails, OffsetInv, OffsetAt, WriterInv
  <2>6. CASE AddCondVar(r)
    BY <2>1, <2>6 DEF AddCondVar, OffsetInv, OffsetAt, WriterInv
  <2>7. CASE TestServer(r)
    BY <2>1, <2>7 DEF TestServer, OffsetInv, OffsetAt, WriterInv
  <2>8. CASE TestReady(r)
    BY <2>1, <2>8 DEF TestReady, ReadyToSend, OffsetInv, OffsetAt, WriterInv
  <2>9. CASE CondWait(r)
    BY <2>1, <2>9 DEF CondWait, OffsetInv, OffsetAt, WriterInv
  <2>10. CASE CondWaitFails(r)
    BY <2>1, <2>10 DEF CondWaitFails, OffsetInv, OffsetAt, WriterInv
  <2>11. CASE Check(r)
    BY <2>1, <2>11 DEF Check, Phase, OffsetInv, OffsetAt, WriterInv
  <2>12. CASE CheckReady(r)
    BY <2>1, <2>12 DEF CheckReady, ReadyToSend, LoopOrLeave, OffsetInv, OffsetAt,
        WriterInv
  <2>13. CASE SendMore(r)
    BY <2>1, <2>13 DEF SendMore, ReadyToSend, OffsetInv, OffsetAt, WriterInv
  <2>14. CASE SendAllReturns(r)
    BY <2>1, <2>14 DEF SendAllReturns, ReadyToSend, OffsetInv, OffsetAt, WriterInv
  <2>15. CASE Size(r)
    BY <2>1, <2>15 DEF Size, OffsetInv, OffsetAt, WriterInv
  <2>16. CASE Resize(r)
    BY <2>1, <2>16 DEF Resize, OffsetInv, OffsetAt, WriterInv
  <2>17. CASE MemCopyFromCash(r)
    BY <2>1, <2>17 DEF MemCopyFromCash, OffsetInv, OffsetAt, WriterInv
  <2>18. CASE SendBuf(r)
    BY <2>1, <2>18 DEF SendBuf, OffsetInv, OffsetAt, WriterInv
  <2>19. CASE SendBufFails(r)
    BY <2>1, <2>19 DEF SendBufFails, OffsetInv, OffsetAt, WriterInv
  <2>20. CASE ProofSend(r)
    BY <2>1, <2>20 DEF ProofSend, OffsetInv, OffsetAt, WriterInv
  <2>21. CASE DellCondVar(r)
    BY <2>1, <2>21 DEF DellCondVar, OffsetInv, OffsetAt, WriterInv
  <2>22. CASE DeleteResources(r)
    BY <2>1, <2>22 DEF DeleteResources, OffsetInv, OffsetAt, WriterInv
  <2>23. CASE MinusCountUsers(r)
    BY <2>1, <2>23 DEF MinusCountUsers, OffsetInv, OffsetAt, WriterInv
  <2>24. QED
    BY <1>9, <2>2, <2>3, <2>4, <2>5, <2>6, <2>7, <2>8, <2>9, <2>10, <2>11, <2>12,
       <2>13, <2>14, <2>15, <2>16, <2>17, <2>18, <2>19, <2>20, <2>21, <2>22, <2>23 DEF ReaderStep, Reader
<1>10. QED
  BY <1>1, <1>2, <1>3, <1>4, <1>5, <1>6, <1>7, <1>8, <1>9 DEF Next, Writer, ReaderStep

(* IInv holds of every reachable state, for any set of readers, any length *)
(* of the response and any buffer size.                                    *)
THEOREM Invariance == Spec => []IInv
<1>1. Init => IInv
  <2> SUFFICES ASSUME Init PROVE IInv
    OBVIOUS
  <2> USE DEF Init
  <2>1. \A r \in Readers : ~isReadyToSend[r]
    OBVIOUS
  <2>2. isReadyToSend \in [Readers -> BOOLEAN]
    BY Zenon
  <2>3. TypeOK
    <3>1. /\ count \in [Readers -> 0..MaxLength]
          /\ target \in [Readers -> 0..MaxLength]
          /\ copied \in [Readers -> 0..MaxLength]
          /\ sent \in [Readers -> 0..MaxLength]
      <4>1. 0 \in 0..MaxLength
        BY ElementAssumption
      <4>2. QED
        BY <4>1, Zenon
    <3>2. /\ rpc \in [Readers -> ReaderPCs]
          /\ mode \in [Readers -> {"reading", "early", "final", "cut"}]
      BY Zenon
    <3>3. /\ isDownloadEnd \in BOOLEAN /\ isServerConnected \in BOOLEAN
          /\ subsLocked \in BOOLEAN
          /\ listSubscribers \subseteq Readers /\ toSignal \subseteq Readers
          /\ wpc \in WriterPCs /\ wnext \in {"connect", "mark", "closed"}
      BY Zenon
    <3>4. length = 0 /\ countConnectedUsers = 0
      BY Zenon
    <3> HIDE DEF Init
    <3>5. length \in 0..MaxLength /\ countConnectedUsers \in Int
      BY <3>4, ElementAssumption
    <3>6. QED
      BY <2>2, <3>1, <3>2, <3>3, <3>5, Zenon DEF TypeOK
  <2>4. LockInv
    BY DEF LockInv, SubscribedPCs, SendingPCs
  <2>5. WriterInv
    BY DEF WriterInv
  <2>6. OffsetInv
    BY <2>1 DEF OffsetInv, OffsetAt
  <2>7. DrainInv
    BY DEF DrainInv, DrainAt, LeavingPCs
  <2>8. QED
    BY <2>3, <2>4, <2>5, <2>6, <2>7 DEF IInv
<1>2. IInv /\ [Next]_vars => IInv'
  BY TypeStep, LockStep, WriterStep, OffsetStep, DrainStep DEF IInv
<1>3. QED
  BY <1>1, <1>2, PTL DEF Spec

(* Every variable keeps its type (the fields of CashElementImpl.h:45-52,    *)
(* BufferImpl.h:58-73 and the positions of the threads).                   *)
THEOREM TypeCorrect == Spec => []TypeOK
<1>1. IInv => TypeOK
  BY DEF IInv
<1>2. QED
  BY <1>1, Invariance, PTL

(* A condition variable is alive whenever it is in the list or about to be *)
(* signalled (CashElementImpl.cpp:97-114).                                 *)
THEOREM SignalsAreSafe == Spec => []SignalledCondAlive
<1>1. IInv => SignalledCondAlive
  BY DEF IInv, LockInv, SignalledCondAlive, CondAlive, SubscribedPCs, SendingPCs, TypeOK
<1>2. QED
  BY <1>1, Invariance, PTL

(* Every reader writes the bytes of the element in order, none twice and   *)
(* none skipped (BufferImpl.cpp:148-186).                                  *)
THEOREM DeliveryInOrder == Spec => []InOrder
<1>1. IInv => InOrder
  BY DEF IInv, OffsetInv, OffsetAt, InOrder, TypeOK
<1>2. QED
  BY <1>1, Invariance, PTL

(* On a closed element the copy is as long as the string it goes into      *)
(* (BufferImpl.cpp:156-158).                                               *)
THEOREM DrainFits == Spec => []DrainCopiesFit
<1>1. IInv => DrainCopiesFit
  BY DEF IInv, DrainInv, DrainAt, DrainCopiesFit
<1>2. QED
  BY <1>1, Invariance, PTL

(* A reader that drained a closed element and left has all of it           *)
(* (HandlerOneClientImpl.cpp:286-289, README.md:3).                        *)
THEOREM DrainedIsWhole == Spec => []WholeResponse
<1>1. IInv => WholeResponse
  BY DEF IInv, DrainInv, DrainAt, WholeResponse, Stream!WholeResponse, Phase, LeavingPCs
<1>2. QED
  BY <1>1, Invariance, PTL

(* If the download reached its end, that is at least the announced length  *)
(* (BufferImpl.cpp:92-99, 119-125).                                        *)
THEOREM DrainedIsComplete == Spec => []ShortOnlyIfUnfinished
<1>1. IInv => ShortOnlyIfUnfinished
  BY DEF IInv, DrainInv, DrainAt, WriterInv, ShortOnlyIfUnfinished, LeavingPCs
<1>2. QED
  BY <1>1, Invariance, PTL

-----------------------------------------------------------------------------
(* The number of users. *)

Users == {r \in Readers : rpc[r] \notin {"absent", "gone"}}

(* addCountUsers and minusCountUsers are the only steps that move a reader *)
(* into or out of the counted ones.                                        *)
LEMMA UsersStep ==
    ASSUME TypeOK, UsersCounted, [Next]_vars
    PROVE  UsersCounted'
<1> USE DEF TypeOK, elementVars, writerVars, readerVars, Step, Users
<1>1. IsFiniteSet(Users) /\ countConnectedUsers = Cardinality(Users)
  BY ElementAssumption, FS_Subset DEF UsersCounted, ElementAssumption
<1>2. SUFFICES countConnectedUsers' = Cardinality(Users')
  BY DEF UsersCounted
<1>3. CASE UNCHANGED <<countConnectedUsers, Users>>
  BY <1>1, <1>3
<1>4. ASSUME NEW r \in Readers, AddCountUsers(r)
      PROVE  countConnectedUsers' = Cardinality(Users')
  <2>1. Users' = Users \union {r} /\ r \notin Users
    BY <1>4 DEF AddCountUsers
  <2>2. countConnectedUsers' = countConnectedUsers + 1
    BY <1>4 DEF AddCountUsers
  <2>3. QED
    BY <1>1, <2>1, <2>2, FS_AddElement
<1>5. ASSUME NEW r \in Readers, MinusCountUsers(r)
      PROVE  countConnectedUsers' = Cardinality(Users')
  <2>1. Users' = Users \ {r} /\ r \in Users
    BY <1>5 DEF MinusCountUsers
  <2>2. countConnectedUsers' = countConnectedUsers - 1
    BY <1>5 DEF MinusCountUsers
  <2> HIDE DEF Users
  <2>3. Cardinality(Users \ {r}) = Cardinality(Users) - 1
    BY <1>1, <2>1, FS_RemoveElement
  <2>4. QED
    BY <1>1, <2>1, <2>2, <2>3
<1>6. CASE UNCHANGED vars
  BY <1>3, <1>6 DEF vars
<1>7. CASE \E r \in Readers : SignalOne(r)
  <2>1. UNCHANGED <<countConnectedUsers, Users>>
    BY <1>7 DEF SignalOne
  <2>2. QED
    BY <1>3, <2>1
<1>8. CASE \/ AppendStringToCash \/ Disconnect \/ LockSubscribers
           \/ UnlockSubscribers \/ OpenElement \/ MarkDownloadEnd
  BY <1>3, <1>8 DEF AppendStringToCash, Disconnect, LockSubscribers,
     UnlockSubscribers, OpenElement, MarkDownloadEnd
<1>9. ASSUME NEW r \in Readers, SpuriousWakeup(r) \/ Reader(r), ~MinusCountUsers(r)
      PROVE  countConnectedUsers' = Cardinality(Users')
  <2>1. UNCHANGED countConnectedUsers
    BY <1>9 DEF SpuriousWakeup, Reader, InitializeResources, InitializeResourcesFails,
       AddCondVar, TestServer, TestReady, CondWait, CondWaitFails, Check, CheckReady,
       SendMore, SendAllReturns, Size, Resize, MemCopyFromCash, SendBuf, SendBufFails,
       ProofSend, DellCondVar, DeleteResources
  <2>2. /\ rpc[r] \notin {"absent", "gone"}
        /\ \E pc \in ReaderPCs \ {"absent", "gone"} : rpc' = [rpc EXCEPT ![r] = pc]
    BY <1>9 DEF SpuriousWakeup, Reader, InitializeResources, InitializeResourcesFails,
       AddCondVar, TestServer, TestReady, CondWait, CondWaitFails, Check, CheckReady,
       SendMore, SendAllReturns, Size, Resize, MemCopyFromCash, SendBuf, SendBufFails,
       ProofSend, DellCondVar, DeleteResources, LoopOrLeave
  <2>3. Users' = Users
    BY <2>2
  <2>4. QED
    BY <1>3, <2>1, <2>3
<1>10. QED
  BY <1>4, <1>5, <1>6, <1>7, <1>8, <1>9 DEF Next, Writer, Reader

(* The count by which the cache decides what it may evict is the number of *)
(* readers that still use the element (CashElementImpl.cpp:43-53).         *)
THEOREM CountIsExact == Spec => []UsersCounted
<1>1. Init => UsersCounted
  <2> SUFFICES ASSUME Init PROVE UsersCounted
    OBVIOUS
  <2>1. Users = {} /\ countConnectedUsers = 0
    BY Zenon DEF Init, Users
  <2>2. QED
    BY <2>1, FS_EmptySet DEF UsersCounted, Users
<1>2. UsersCounted /\ TypeOK /\ [Next]_vars => UsersCounted'
  BY UsersStep
<1>3. QED
  BY <1>1, <1>2, TypeCorrect, PTL DEF Spec

-----------------------------------------------------------------------------
(* The element implements the abstract stream. *)

Left == [r \in Readers |-> rpc[r] = "gone"]

(* The abstract stream does not move if nothing it shows moves. *)
LEMMA StreamStutter ==
    ASSUME UNCHANGED <<length, isServerConnected, sent, mode>>,
           (wnext = "closed") <=> (wnext' = "closed"),
           \A r \in Readers : rpc[r] = "gone" <=> rpc'[r] = "gone"
    PROVE  UNCHANGED Stream!vars
<1>1. Phase' = Phase
  BY DEF Phase
<1>2. Left' = Left
  BY Zenon DEF Left
<1>3. QED
  BY <1>1, <1>2 DEF Stream!vars, Left

(* The steps of the writer grow, open or close the stream, or do not show. *)
LEMMA WriterImplements ==
    ASSUME IInv,
           \/ AppendStringToCash \/ Disconnect \/ LockSubscribers \/ UnlockSubscribers
           \/ OpenElement \/ MarkDownloadEnd \/ (\E r \in Readers : SignalOne(r))
    PROVE  Stream!Grow \/ Stream!Open \/ Stream!Close \/ UNCHANGED Stream!vars
<1> USE DEF IInv, WriterInv, TypeOK, elementVars, writerVars, readerVars
<1>1. CASE AppendStringToCash
  <2>1. Phase # "closed" /\ Phase' = Phase
    BY <1>1 DEF AppendStringToCash, Phase
  <2>2. QED
    BY <1>1, <2>1 DEF AppendStringToCash, Stream!Grow
<1>2. CASE Disconnect
  <2>1. Phase = "open" /\ Phase' = "closed"
    BY <1>2 DEF Disconnect, Phase
  <2>2. QED
    BY <1>2, <2>1 DEF Disconnect, Stream!Close
<1>3. CASE OpenElement
  <2>1. Phase = "unopened" /\ Phase' = "open"
    BY <1>3 DEF OpenElement, Phase
  <2>2. QED
    BY <1>3, <2>1 DEF OpenElement, Stream!Open
<1>4. CASE LockSubscribers
  BY <1>4, StreamStutter DEF LockSubscribers
<1>5. CASE UnlockSubscribers
  BY <1>5, StreamStutter DEF UnlockSubscribers
<1>6. CASE MarkDownloadEnd
  BY <1>6, StreamStutter DEF MarkDownloadEnd
<1>7. CASE \E r \in Readers : SignalOne(r)
  BY <1>7, StreamStutter DEF SignalOne
<1>8. QED
  BY <1>1, <1>2, <1>3, <1>4, <1>5, <1>6, <1>7

(* A reader's write delivers, its checks drain or cut, its last step leaves. *)
LEMMA ReaderImplements ==
    ASSUME IInv, NEW r \in Readers, ReaderStep(r)
    PROVE  \/ Stream!Deliver(r) \/ Stream!Drain(r) \/ Stream!Cut(r) \/ Stream!Leave(r)
           \/ UNCHANGED Stream!vars
<1> DEFINE Hidden == UNCHANGED <<length, isServerConnected, wnext>>
<1> USE DEF TypeOK
<1>1. TypeOK /\ OffsetInv /\ DrainInv /\ WriterInv
  BY DEF IInv
<1>2. Hidden /\ Phase' = Phase
  BY <1>1, ReaderFrame DEF elementVars, writerVars, Phase
<1>3. ASSUME UNCHANGED sent, UNCHANGED mode, rpc'[r] # "gone", rpc[r] # "gone"
      PROVE  UNCHANGED Stream!vars
  BY <1>1, <1>2, <1>3, ReaderFrame, StreamStutter DEF Same
<1>4. ASSUME rpc'[r] # "gone", rpc[r] # "gone"
      PROVE  Left' = Left /\ ~Left[r]
  <2>1. \A q \in Readers : rpc'[q] = "gone" <=> rpc[q] = "gone"
    BY <1>1, <1>4, ReaderFrame DEF Same
  <2>2. QED
    BY <1>4, <2>1, Zenon DEF Left
<1> USE DEF Step, readerVars
<1>5. CASE \/ AddCountUsers(r) \/ SpuriousWakeup(r) \/ InitializeResources(r)
           \/ AddCondVar(r) \/ TestServer(r) \/ TestReady(r) \/ CondWait(r)
           \/ CheckReady(r) \/ SendMore(r) \/ Size(r) \/ Resize(r)
           \/ MemCopyFromCash(r) \/ ProofSend(r) \/ DellCondVar(r) \/ DeleteResources(r)
  <2>1. /\ UNCHANGED <<sent, mode>>
        /\ rpc[r] # "gone" /\ rpc'[r] # "gone"
    BY <1>1, <1>5 DEF AddCountUsers, SpuriousWakeup, InitializeResources, AddCondVar,
       TestServer, TestReady, CondWait, CheckReady, LoopOrLeave, SendMore, Size, Resize,
       MemCopyFromCash, ProofSend, DellCondVar, DeleteResources
  <2>2. QED
    BY <1>3, <2>1
<1>6. CASE SendBuf(r)
  <2>1. /\ rpc[r] # "gone" /\ rpc'[r] # "gone" /\ UNCHANGED mode
        /\ target[r] \in 1..MaxLength /\ sent[r] + target[r] <= length
        /\ sent' = [sent EXCEPT ![r] = @ + target[r]]
    BY <1>1, <1>6 DEF SendBuf, OffsetInv, OffsetAt
  <2>2. QED
    BY <1>2, <1>4, <2>1 DEF Stream!Deliver, Left
<1>7. CASE MinusCountUsers(r)
  <2>1. /\ rpc[r] = "minus" /\ rpc' = [rpc EXCEPT ![r] = "gone"]
        /\ UNCHANGED <<sent, mode>>
    BY <1>7 DEF MinusCountUsers
  <2>2. mode[r] = "final" => sent[r] = length
    BY <1>1, <2>1 DEF DrainInv, DrainAt, LeavingPCs
  <2>3. mode[r] # "reading"
    BY <1>1, <2>1 DEF DrainInv, DrainAt, LeavingPCs
  <2>4. ~Left[r] /\ Left' = [Left EXCEPT ![r] = TRUE]
    BY <1>1, <2>1, Zenon DEF Left
  <2>5. QED
    BY <1>2, <2>1, <2>2, <2>3, <2>4 DEF Stream!Leave, Left
<1>8. CASE \/ InitializeResourcesFails(r) \/ CondWaitFails(r)
           \/ SendBufFails(r) \/ SendAllReturns(r)
  <2>1. rpc[r] # "gone" /\ rpc'[r] # "gone" /\ UNCHANGED sent
    BY <1>1, <1>8 DEF InitializeResourcesFails, CondWaitFails, SendBufFails, SendAllReturns
  <2>2. UNCHANGED mode \/ (mode[r] # "cut" /\ mode' = [mode EXCEPT ![r] = "cut"])
    BY <1>1, <1>8 DEF InitializeResourcesFails, CondWaitFails, SendBufFails,
       SendAllReturns, Because
  <2>3. QED
    BY <1>2, <1>3, <1>4, <2>1, <2>2 DEF Stream!Cut, Left
<1>9. CASE Check(r)
  <2>1. rpc[r] # "gone" /\ rpc'[r] # "gone" /\ UNCHANGED sent
    BY <1>1, <1>9 DEF Check
  <2>2. \/ UNCHANGED mode
        \/ /\ Phase # "open" /\ mode[r] = "reading"
           /\ mode' = [mode EXCEPT ![r] = IF Phase = "closed" THEN "final" ELSE "early"]
    BY <1>1, <1>9 DEF Check, Because, Phase
  <2>3. QED
    BY <1>2, <1>3, <1>4, <2>1, <2>2 DEF Stream!Drain, Left
<1>10. QED
  BY <1>5, <1>6, <1>7, <1>8, <1>9 DEF ReaderStep, Reader

(* Every behaviour of the element with its locks, flags and condition      *)
(* variables is a behaviour of the abstract stream (README.md:3): readers  *)
(* receive growing prefixes, and draining a closed stream delivers it all. *)
THEOREM ElementImplementsStream == Spec => ImplementsStream
<1>1. Init => Stream!Init
  <2> SUFFICES ASSUME Init PROVE Stream!Init
    OBVIOUS
  <2>1. Phase = "unopened"
    BY Zenon DEF Init, Phase
  <2>2. Left = [r \in Readers |-> FALSE]
    BY Zenon DEF Init, Left
  <2>3. /\ length = 0
        /\ sent = [r \in Readers |-> 0]
        /\ mode = [r \in Readers |-> "reading"]
    BY Zenon DEF Init
  <2>4. QED
    BY <2>1, <2>2, <2>3, Zenon DEF Stream!Init, Left
<1>2. IInv /\ [Next]_vars => [Stream!Next]_Stream!vars
  <2> SUFFICES ASSUME IInv, [Next]_vars
               PROVE  Stream!Next \/ UNCHANGED Stream!vars
    OBVIOUS
  <2>1. CASE UNCHANGED vars
    BY <2>1, StreamStutter DEF vars, elementVars, writerVars, readerVars
  <2>2. CASE \E r \in Readers : ReaderStep(r)
    BY <2>2, ReaderImplements DEF Stream!Next
  <2>3. CASE ~(\E r \in Readers : ReaderStep(r)) /\ Next
    BY <2>3, WriterImplements DEF Stream!Next, Next, Writer, ReaderStep
  <2>4. QED
    BY <2>1, <2>2, <2>3
<1>3. QED
  BY <1>1, <1>2, Invariance, PTL DEF Spec, ImplementsStream, Stream!Spec
=============================================================================
