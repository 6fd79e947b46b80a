--------------------------- MODULE IspQueueProofs ---------------------------
(***************************************************************************)
(* Proofs about the buffers queue, for any number of threads, buffers,     *)
(* addresses and mappings.                                                 *)
(***************************************************************************)
EXTENDS IspQueue, TLAPS

-----------------------------------------------------------------------------
(* The locks, and what a thread remembers under queue->lock.               *)

\* The empty list.
LEMMA EmptyQueue == <<>> \in Seq(Buffers) /\ Len(<<>>) = 0
  OBVIOUS

\* A queue that is not empty has a first and a last buffer.
LEMMA NonEmptyQueue ==
  ASSUME NEW q \in Seq(Buffers), q # <<>>
  PROVE  /\ Len(q) \in Nat /\ Len(q) >= 1
         /\ Head(q) = q[1] /\ Head(q) \in Buffers
         /\ q[Len(q)] \in Buffers
         /\ Tail(q) \in Seq(Buffers) /\ Len(Tail(q)) = Len(q) - 1
         /\ \A i \in 1 .. Len(q) - 1 : Tail(q)[i] = q[i + 1]
<1>1. Len(q) \in Nat /\ Len(q) >= 1
  OBVIOUS
<1> QED BY <1>1

\* Adding a buffer at the back.
LEMMA AppendQueue ==
  ASSUME NEW q \in Seq(Buffers), NEW b \in Buffers
  PROVE  /\ Append(q, b) \in Seq(Buffers) /\ Append(q, b) # <<>>
         /\ Len(q) \in Nat /\ Len(Append(q, b)) = Len(q) + 1
         /\ Append(q, b)[Len(q) + 1] = b
         /\ \A i \in 1 .. Len(q) : Append(q, b)[i] = q[i]
  OBVIOUS

\* Leaving the front of the queue is taking its tail.
LEMMA WithoutHead ==
  ASSUME NEW q \in Seq(Buffers), q # <<>>
  PROVE  Without(q, Head(q)) = Tail(q)
  BY DEF Without

\* A freshly opened handle: nobody holds a lock.
LEMMA InitLock == Init => LockInv
<1> SUFFICES ASSUME Init PROVE LockInv
  OBVIOUS
<1> USE QueueAssumption DEF QueueAssumption, Init
<1>1. TypeOK
  <2>1. queue \in Seq(Buffers) /\ dmaqueue \in Seq(Buffers)
    OBVIOUS
  <2>2. pc \in [Threads -> PC] /\ arg \in [Threads -> Buffers \cup {None}]
    BY DEF PC
  <2>3. state \in [Buffers -> BufferState]
    BY DEF BufferState
  <2>4. count \in 0 .. MaxBuffers
    OBVIOUS
  <2>5. vma \in [Buffers -> 0 .. MaxMaps]
    OBVIOUS
  <2>6. userptr \in [Buffers -> Addrs \cup {None}]
    OBVIOUS
  <2>7. prepared \in [Buffers -> BOOLEAN]
    OBVIOUS
  <2>8. pinned \in [Buffers -> Addrs \cup {"kernel", None}]
    OBVIOUS
  <2>9. lock \in Threads \cup {None} /\ stream_lock \in Threads \cup {None}
    OBVIOUS
  <2> QED BY <2>1, <2>2, <2>3, <2>4, <2>5, <2>6, <2>7, <2>8, <2>9 DEF TypeOK
<1>2. QueueLockOwned /\ StreamLockOwned /\ ArgValid
  BY DEF QueueLockOwned, StreamLockOwned, ArgValid, InQueueLock, InStreamLock
<1> QED BY <1>1, <1>2 DEF LockInv

\* A QBUF with a wrong type that finds queue->lock free changes nothing.
LEMMA WrongTypeIdle ==
  ASSUME ~WrongTypes, NEW t, QbufWrongType(t)
  PROVE  UNCHANGED vars
BY DEF QbufWrongType, vars, bufvars, nodevars

\* Types and lock ownership survive every step, one case per action; what a
\* thread remembers under queue->lock cannot be changed by another one.
LEMMA StepLock ==
  ASSUME ~WrongTypes, LockInv, [Next]_vars
  PROVE  LockInv'
<1> USE QueueAssumption DEF QueueAssumption, LockInv
<1>1. ASSUME NEW t \in Threads, NEW n \in 0 .. MaxBuffers,
             NEW m \in {"MMAP", "USERPTR"}, Reqbufs(t, n, m)
      PROVE  LockInv'
  <2>1. TypeOK'
    BY <1>1 DEF TypeOK, Reqbufs, FreeAndAlloc, nodevars, BufferState, LockFree
  <2>2. QueueLockOwned' /\ StreamLockOwned' /\ ArgValid'
    BY <1>1 DEF TypeOK, Reqbufs, FreeAndAlloc, nodevars, LockFree,
                QueueLockOwned, StreamLockOwned, ArgValid, InQueueLock
  <2> QED BY <2>1, <2>2
<1>2. ASSUME NEW t \in Threads, NEW b \in Buffers, Mmap(t, b) \/ Munmap(t, b)
      PROVE  LockInv'
  <2>1. CASE Mmap(t, b)
    BY <2>1 DEF TypeOK, Mmap, nodevars, QueueLockOwned, StreamLockOwned, ArgValid
  <2>2. CASE Munmap(t, b)
    BY <2>2 DEF TypeOK, Munmap, nodevars, QueueLockOwned, StreamLockOwned, ArgValid
  <2> QED BY <1>2, <2>1, <2>2
<1>3. ASSUME NEW t \in Threads, NEW b \in Buffers, NEW a \in Addrs \cup {None},
             QbufPrepareFails(t, b, a)
      PROVE  LockInv'
  BY <1>3 DEF TypeOK, QbufPrepareFails, nodevars, QueueLockOwned, StreamLockOwned, ArgValid
<1>4. ASSUME NEW t \in Threads, NEW b \in Buffers, NEW a \in Addrs \cup {None},
             Qbuf(t, b, a)
      PROVE  LockInv'
  <2>1. TypeOK'
    <3>1. queue' \in Seq(Buffers) /\ state' \in [Buffers -> BufferState]
      BY <1>4 DEF TypeOK, Qbuf, BufferState
    <3>2. Target(a) \in Addrs \cup {"kernel", None}
      BY DEF Target
    <3>3. pinned' \in [Buffers -> Addrs \cup {"kernel", None}]
      BY <1>4, <3>2 DEF TypeOK, Qbuf
    <3>4. pc' \in [Threads -> PC] /\ arg' \in [Threads -> Buffers \cup {None}]
      BY <1>4 DEF TypeOK, Qbuf, Goto, PC
    <3> QED BY <1>4, <3>1, <3>3, <3>4 DEF TypeOK, Qbuf, nodevars
  <2>2. QueueLockOwned' /\ StreamLockOwned'
    BY <1>4 DEF TypeOK, Qbuf, QbufChecks, LockFree, Goto, nodevars,
                QueueLockOwned, StreamLockOwned, InQueueLock, InStreamLock
  <2>3. ArgValid'
    <3>1. \A u \in Threads : pc[u] \notin {"qbuf", "dqbuf"}
      BY <1>4 DEF Qbuf, QbufChecks, LockFree, QueueLockOwned, InQueueLock
    <3>2. queue' # <<>> /\ b = queue'[Len(queue')]
      <4>1. queue \in Seq(Buffers) /\ queue' = Append(queue, b)
        BY <1>4 DEF TypeOK, Qbuf
      <4> QED BY <4>1, AppendQueue
    <3>3. CASE streaming
      BY <1>4, <3>1, <3>2, <3>3 DEF TypeOK, Qbuf, Goto, ArgValid
    <3>4. CASE ~streaming
      BY <1>4, <3>1, <3>4 DEF TypeOK, Qbuf, ArgValid
    <3> QED BY <3>3, <3>4
  <2> QED BY <2>1, <2>2, <2>3
<1>5. ASSUME NEW t \in Threads, QbufToDevice(t)
      PROVE  LockInv'
  <2>1. arg[t] \in Buffers
    BY <1>5, NonEmptyQueue DEF TypeOK, QbufToDevice, ArgValid
  <2>2. TypeOK'
    BY <1>5, <2>1 DEF TypeOK, QbufToDevice, Goto, PC, bufvars, nodevars
  <2>3. QueueLockOwned' /\ StreamLockOwned' /\ ArgValid'
    BY <1>5 DEF TypeOK, QbufToDevice, Goto, bufvars, nodevars, ArgValid,
                QueueLockOwned, StreamLockOwned, InQueueLock, InStreamLock
  <2> QED BY <2>2, <2>3
<1>6. ASSUME NEW t \in Threads, Dqbuf(t)
      PROVE  LockInv'
  <2>1. queue' = Tail(queue) /\ queue' \in Seq(Buffers)
    BY <1>6, WithoutHead, NonEmptyQueue DEF TypeOK, Dqbuf, Dequeue
  <2>2. state' \in [Buffers -> BufferState]
    BY <1>6 DEF TypeOK, Dqbuf, Dequeue, BufferState
  <2> QED
    BY <1>6, <2>1, <2>2 DEF TypeOK, Dqbuf, LockFree, bufvars, nodevars, ArgValid,
       QueueLockOwned, StreamLockOwned, InQueueLock
<1>7. ASSUME NEW t \in Threads, DqbufWait(t) \/ PollWait(t)
      PROVE  LockInv'
  <2>1. Head(queue) \in Buffers
    BY <1>7 DEF TypeOK, DqbufWait, PollWait
  <2>2. TypeOK'
    BY <1>7, <2>1 DEF TypeOK, DqbufWait, PollWait, Goto, PC, bufvars, nodevars
  <2>3. ArgValid'
    BY <1>7 DEF TypeOK, DqbufWait, PollWait, Goto, bufvars, nodevars, ArgValid
  <2>4. QueueLockOwned' /\ StreamLockOwned'
    BY <1>7 DEF TypeOK, DqbufWait, PollWait, LockFree, Goto, bufvars, nodevars,
                QueueLockOwned, StreamLockOwned, InQueueLock, InStreamLock
  <2> QED BY <2>2, <2>3, <2>4
<1>8. ASSUME NEW t \in Threads, DqbufWakes(t)
      PROVE  LockInv'
  <2>1. queue' = Tail(queue) /\ queue' \in Seq(Buffers)
    <3>1. queue # <<>> /\ arg[t] = Head(queue)
      BY <1>8 DEF DqbufWakes, ArgValid
    <3>2. queue \in Seq(Buffers) /\ queue' = Without(queue, arg[t])
      BY <1>8 DEF TypeOK, DqbufWakes, Dequeue
    <3> QED BY <3>1, <3>2, WithoutHead, NonEmptyQueue
  <2>2. state' \in [Buffers -> BufferState]
    BY <1>8 DEF TypeOK, DqbufWakes, Dequeue, BufferState
  <2>3. TypeOK'
    BY <1>8, <2>1, <2>2 DEF TypeOK, DqbufWakes, Goto, PC, bufvars, nodevars
  <2>4. QueueLockOwned' /\ StreamLockOwned' /\ ArgValid'
    BY <1>8 DEF TypeOK, DqbufWakes, Goto, bufvars, nodevars, ArgValid,
                QueueLockOwned, StreamLockOwned, InQueueLock, InStreamLock
  <2> QED BY <2>3, <2>4
<1>9. ASSUME NEW t \in Threads, DqbufInterrupted(t) \/ PollTimeout(t) \/ PollAgain(t)
      PROVE  LockInv'
  <2>1. TypeOK'
    BY <1>9 DEF TypeOK, DqbufInterrupted, PollTimeout, PollAgain, Goto, PC, bufvars, nodevars
  <2>2. ArgValid'
    BY <1>9 DEF TypeOK, DqbufInterrupted, PollTimeout, PollAgain, Goto, bufvars, nodevars,
                ArgValid
  <2>3. QueueLockOwned' /\ StreamLockOwned'
    BY <1>9 DEF TypeOK, DqbufInterrupted, PollTimeout, PollAgain, Goto, bufvars, nodevars,
                QueueLockOwned, StreamLockOwned, InQueueLock, InStreamLock
  <2> QED BY <2>1, <2>2, <2>3
<1>10. ASSUME NEW t \in Threads, Streamon(t) \/ StreamonInvalid(t) \/ Streamoff(t)
       PROVE  LockInv'
  <2>1. TypeOK'
    <3>1. dmaqueue' \in Seq(Buffers)
      BY <1>10, EmptyQueue DEF TypeOK, Streamon, StreamonInvalid, Streamoff
    <3>2. pc' \in [Threads -> PC] /\ arg' \in [Threads -> Buffers \cup {None}]
      BY <1>10 DEF TypeOK, Streamon, StreamonInvalid, Streamoff, Goto, PC
    <3> QED
      BY <1>10, <3>1, <3>2 DEF TypeOK, Streamon, StreamonInvalid, Streamoff, bufvars
  <2>2. ArgValid'
    BY <1>10 DEF TypeOK, Streamon, StreamonInvalid, Streamoff, Goto, ArgValid
  <2>3. QueueLockOwned' /\ StreamLockOwned'
    BY <1>10 DEF TypeOK, Streamon, StreamonInvalid, Streamoff, Goto,
                 QueueLockOwned, StreamLockOwned, InQueueLock, InStreamLock
  <2> QED BY <2>1, <2>2, <2>3
<1>11. ASSUME NEW t \in Threads, StreamonQueue(t)
       PROVE  LockInv'
  <2>1. TypeOK'
    BY <1>11 DEF TypeOK, StreamonQueue, Goto, PC, bufvars, nodevars
  <2>2. QueueLockOwned' /\ StreamLockOwned' /\ ArgValid'
    BY <1>11 DEF TypeOK, StreamonQueue, Goto, ArgValid, bufvars, nodevars, LockFree,
                 QueueLockOwned, StreamLockOwned, InQueueLock, InStreamLock
  <2> QED BY <2>1, <2>2
<1>12. ASSUME NEW t \in Threads,
              StreamonStarts(t) \/ StreamonFails(t) \/ StreamonEnd(t) \/ StreamoffStops(t)
       PROVE  LockInv'
  <2>1. TypeOK'
    BY <1>12 DEF TypeOK, StreamonStarts, StreamonFails, StreamonEnd, StreamoffStops,
                 Goto, PC, bufvars
  <2>2. ArgValid'
    BY <1>12 DEF TypeOK, StreamonStarts, StreamonFails, StreamonEnd, StreamoffStops,
                 Goto, ArgValid
  <2>3. QueueLockOwned' /\ StreamLockOwned'
    BY <1>12 DEF TypeOK, StreamonStarts, StreamonFails, StreamonEnd, StreamoffStops,
                 Goto, QueueLockOwned, StreamLockOwned, InQueueLock, InStreamLock
  <2> QED BY <2>1, <2>2, <2>3
<1>13. ASSUME NEW t \in Threads, StreamonError(t) \/ StreamoffQueue(t)
       PROVE  LockInv'
  <2>1. \A u \in Threads : pc[u] \notin {"qbuf", "dqbuf"}
    BY <1>13 DEF StreamonError, StreamoffQueue, LockFree, QueueLockOwned, InQueueLock
  <2>2. pc[t] \in InStreamLock
    BY <1>13 DEF StreamonError, StreamoffQueue, InStreamLock
  <2>3. \A u \in Threads : u # t => pc[u] \notin InStreamLock
    BY <2>2 DEF StreamLockOwned
  <2>4. QueueStreamoff(t) /\ UNCHANGED <<bufvars, lock, dmaqueue, hw>>
        /\ stream_lock' = None /\ vstreaming' \in BOOLEAN
    BY <1>13 DEF StreamonError, StreamoffQueue, TypeOK
  <2>5. /\ pc' \in [Threads -> PC] /\ arg' \in [Threads -> Buffers \cup {None}]
        /\ \A u \in Threads : pc'[u] \in {"user", pc[u]} \/ pc'[u] = "repoll"
        /\ pc'[t] = "user"
    <3>1. CASE streaming
      <4>1. arg' = [arg EXCEPT ![t] = None]
        BY <2>4, <3>1 DEF QueueStreamoff
      <4>2. /\ pc' \in [Threads -> PC] /\ pc'[t] = "user"
            /\ \A u \in Threads : pc'[u] \in {"user", pc[u]} \/ pc'[u] = "repoll"
        BY <2>4, <3>1 DEF TypeOK, QueueStreamoff, PC
      <4> QED BY <4>1, <4>2 DEF TypeOK
    <3>2. CASE ~streaming
      BY <2>4, <3>2 DEF TypeOK, QueueStreamoff, Goto, PC
    <3> QED BY <3>1, <3>2
  <2>6. /\ state' \in [Buffers -> BufferState] /\ queue' \in Seq(Buffers)
        /\ streaming' \in BOOLEAN
    <3>1. queue' \in Seq(Buffers)
      BY <2>4, EmptyQueue DEF TypeOK, QueueStreamoff
    <3>2. state' \in [Buffers -> BufferState]
      BY <2>4 DEF TypeOK, QueueStreamoff, BufferState
    <3>3. streaming' \in BOOLEAN
      BY <2>4 DEF TypeOK, QueueStreamoff
    <3> QED BY <3>1, <3>2, <3>3
  <2>7. TypeOK'
    BY <2>4, <2>5, <2>6 DEF TypeOK, bufvars
  <2>8. QueueLockOwned' /\ StreamLockOwned' /\ ArgValid'
    BY <2>1, <2>3, <2>5 DEF QueueLockOwned, StreamLockOwned, ArgValid, InQueueLock, InStreamLock
  <2> QED BY <2>7, <2>8
<1>14. ASSUME NEW t \in Threads, StreamoffCheck(t)
       PROVE  LockInv'
  <2>1. TypeOK'
    BY <1>14 DEF TypeOK, StreamoffCheck, Goto, PC, bufvars
  <2>2. ArgValid'
    BY <1>14 DEF TypeOK, StreamoffCheck, Goto, ArgValid
  <2>3. QueueLockOwned' /\ StreamLockOwned'
    BY <1>14 DEF TypeOK, StreamoffCheck, Goto,
                 QueueLockOwned, StreamLockOwned, InQueueLock, InStreamLock
  <2> QED BY <2>1, <2>2, <2>3
<1>15. ASSUME Release
       PROVE  LockInv'
  <2>1. TypeOK'
    <3>1. queue' \in Seq(Buffers)
      BY <1>15, EmptyQueue DEF Release, FreeAndAlloc
    <3>2. state' \in [Buffers -> BufferState]
      BY <1>15 DEF Release, FreeAndAlloc, BufferState
    <3>3. count' \in 0 .. MaxBuffers /\ memory' = memory
      BY <1>15 DEF Release, FreeAndAlloc
    <3>4. /\ userptr' \in [Buffers -> Addrs \cup {None}]
          /\ prepared' \in [Buffers -> BOOLEAN]
          /\ pinned' \in [Buffers -> Addrs \cup {"kernel", None}]
      BY <1>15 DEF Release, FreeAndAlloc
    <3> QED BY <1>15, <3>1, <3>2, <3>3, <3>4 DEF TypeOK, Release
  <2>2. QueueLockOwned' /\ StreamLockOwned' /\ ArgValid'
    BY <1>15 DEF Release, QueueLockOwned, StreamLockOwned, ArgValid, InQueueLock, InStreamLock
  <2> QED BY <2>1, <2>2
<1>16. ASSUME NEW r \in {"DONE", "ERROR"}, BufferNext(r)
       PROVE  LockInv'
  <2>1. /\ pc' \in [Threads -> PC] /\ arg' \in [Threads -> Buffers \cup {None}]
        /\ \A u \in Threads :
             \/ pc'[u] = "repoll" /\ pc[u] = "poll"
             \/ pc'[u] = pc[u] /\ arg'[u] = arg[u]
    BY <1>16 DEF TypeOK, BufferNext, WakeUp, PC
  <2>2. state' \in [Buffers -> BufferState] /\ dmaqueue' \in Seq(Buffers)
    BY <1>16 DEF TypeOK, BufferNext, BufferState
  <2>3. UNCHANGED <<bufvars, queue, streaming, lock, nodevars>>
    BY <1>16 DEF BufferNext
  <2>4. TypeOK'
    BY <2>1, <2>2, <2>3 DEF TypeOK, bufvars, nodevars
  <2>5. QueueLockOwned' /\ StreamLockOwned' /\ ArgValid'
    BY <2>1, <2>3 DEF nodevars, QueueLockOwned, StreamLockOwned, ArgValid,
                      InQueueLock, InStreamLock
  <2> QED BY <2>4, <2>5
<1>17. ASSUME SuspendResume
       PROVE  LockInv'
  <2>1. state' \in [Buffers -> BufferState]
    BY <1>17 DEF TypeOK, SuspendResume, BufferState
  <2> QED
    BY <1>17, <2>1 DEF TypeOK, SuspendResume, bufvars, nodevars, QueueLockOwned,
                       StreamLockOwned, ArgValid
<1>18. ASSUME UNCHANGED vars
       PROVE  LockInv'
  BY <1>18 DEF TypeOK, vars, bufvars, nodevars, QueueLockOwned, StreamLockOwned, ArgValid
<1> QED
  BY <1>1, <1>2, <1>3, <1>4, <1>5, <1>6, <1>7, <1>8, <1>9, <1>10, <1>11, <1>12, <1>13,
     <1>14, <1>15, <1>16, <1>17, <1>18, WrongTypeIdle DEF Next, Call, Continue, Interrupt

\* Every variable of the queue, the node and the threads keeps its type.
THEOREM TypeCorrect ==
  ASSUME ~WrongTypes PROVE Spec => []TypeOK
<1>1. Init => LockInv
  BY InitLock
<1>2. LockInv /\ [Next]_vars => LockInv'
  BY StepLock
<1>3. LockInv => TypeOK
  BY DEF LockInv
<1> QED BY <1>1, <1>2, <1>3, PTL DEF Spec

\* queue->lock excludes as long as no wrong-type QBUF meets a held lock.
THEOREM QueueLockExcludes ==
  ASSUME ~WrongTypes PROVE Spec => []QueueLockOwned
<1>1. Init => LockInv
  BY InitLock
<1>2. LockInv /\ [Next]_vars => LockInv'
  BY StepLock
<1>3. LockInv => QueueLockOwned
  BY DEF LockInv
<1> QED BY <1>1, <1>2, <1>3, PTL DEF Spec

-----------------------------------------------------------------------------
(* The streaming flags.                                                     *)

\* Nothing streams on a freshly opened handle.
LEMMA InitFlags == Init => FlagsAgree
  BY DEF Init, FlagsAgree, DriverContract

\* A step that leaves the flags and the IRQ queue alone, and brings no
\* thread into STREAMON or STREAMOFF, keeps the flags in agreement.
LEMMA FlagsFrame ==
  ASSUME FlagsAgree, UNCHANGED <<streaming, nodevars, dmaqueue>>,
         \A u \in Threads : pc'[u] \in InStreamLock => pc'[u] = pc[u]
  PROVE  FlagsAgree'
  BY DEF FlagsAgree, DriverContract, nodevars, InStreamLock

\* stream_lock keeps queue->streaming, video->streaming and the state of the
\* pipeline in step, one case per action.
LEMMA StepFlags ==
  ASSUME ~WrongTypes, ~PartialStart, LockInv, FlagsAgree, [Next]_vars
  PROVE  FlagsAgree'
<1> USE QueueAssumption DEF QueueAssumption, LockInv
<1>1. ASSUME NEW t \in Threads,
             \/ \E n \in 0 .. MaxBuffers, m \in {"MMAP", "USERPTR"} : Reqbufs(t, n, m)
             \/ \E b \in Buffers : Mmap(t, b) \/ Munmap(t, b)
             \/ \E b \in Buffers, a \in Addrs \cup {None} : QbufPrepareFails(t, b, a)
             \/ Dqbuf(t)
      PROVE  FlagsAgree'
  <2>1. UNCHANGED <<streaming, nodevars, dmaqueue, pc>>
    BY <1>1 DEF Reqbufs, Mmap, Munmap, QbufPrepareFails, Dqbuf, FreeAndAlloc
  <2> QED BY <2>1, FlagsFrame
<1>2. ASSUME NEW t \in Threads,
             \/ \E b \in Buffers, a \in Addrs \cup {None} : Qbuf(t, b, a)
             \/ DqbufWait(t) \/ DqbufWakes(t) \/ DqbufInterrupted(t)
             \/ PollWait(t) \/ PollTimeout(t) \/ PollAgain(t)
      PROVE  FlagsAgree'
  <2>1. UNCHANGED <<streaming, nodevars, dmaqueue>>
    BY <1>2 DEF Qbuf, DqbufWait, DqbufWakes, DqbufInterrupted, PollWait, PollTimeout, PollAgain
  <2>2. \A u \in Threads : pc'[u] \in InStreamLock => pc'[u] = pc[u]
    BY <1>2 DEF Qbuf, DqbufWait, DqbufWakes, DqbufInterrupted, PollWait, PollTimeout,
                PollAgain, Goto, TypeOK, InStreamLock
  <2> QED BY <2>1, <2>2, FlagsFrame
<1>3. ASSUME NEW t \in Threads, QbufToDevice(t)
      PROVE  FlagsAgree'
  <2>1. streaming
    BY <1>3 DEF QbufToDevice, ArgValid
  <2> QED
    BY <1>3, <2>1 DEF QbufToDevice, Goto, TypeOK, nodevars, FlagsAgree, DriverContract
<1>4. ASSUME NEW r \in {"DONE", "ERROR"}, hw, BufferNext(r)
      PROVE  FlagsAgree'
  <2>1. streaming
    BY <1>4 DEF BufferNext, FlagsAgree, DriverContract
  <2>2. \A u \in Threads : pc'[u] \in {"repoll", pc[u]}
    BY <1>4 DEF BufferNext, WakeUp
  <2> QED
    BY <1>4, <2>1, <2>2 DEF BufferNext, nodevars, FlagsAgree, DriverContract
<1>5. ASSUME NEW t \in Threads, Streamon(t) \/ StreamonInvalid(t)
      PROVE  FlagsAgree'
  <2>1. ~streaming /\ ~hw
    BY <1>5 DEF Streamon, StreamonInvalid, FlagsAgree, DriverContract
  <2>2. \A u \in Threads : pc'[u] \in {"streamon_queue", "streamon_error"} \/ pc'[u] = pc[u]
    BY <1>5 DEF Streamon, StreamonInvalid, Goto, TypeOK
  <2>3. \A u \in Threads : pc[u] \notin InStreamLock
    BY <1>5 DEF Streamon, StreamonInvalid, StreamLockOwned
  <2>4. stream_lock' # None /\ UNCHANGED <<streaming, hw, vstreaming>>
    BY <1>5 DEF Streamon, StreamonInvalid
  <2>5. \A u \in Threads : pc'[u] = "streamon_queue" => dmaqueue' = <<>>
    BY <1>5, <2>3 DEF Streamon, StreamonInvalid, Goto, TypeOK, InStreamLock
  <2> QED
    BY <2>1, <2>2, <2>3, <2>4, <2>5 DEF FlagsAgree, DriverContract, InStreamLock
<1>6. ASSUME NEW t \in Threads, Streamoff(t)
      PROVE  FlagsAgree'
  BY <1>6 DEF Streamoff, Goto, TypeOK, FlagsAgree, DriverContract
<1>7. ASSUME NEW t \in Threads, pc[t] \in InStreamLock,
             \/ StreamonQueue(t) \/ StreamonStarts(t) \/ StreamonFails(t) \/ StreamonEnd(t)
             \/ StreamonError(t)
             \/ StreamoffCheck(t) \/ StreamoffStops(t) \/ StreamoffQueue(t)
      PROVE  FlagsAgree'
  <2>1. \A u \in Threads : u # t => pc[u] \notin InStreamLock
    BY <1>7 DEF StreamLockOwned
  <2>2. \A u \in Threads : u # t => pc'[u] \notin InStreamLock
    <3>1. CASE StreamonError(t) \/ StreamoffQueue(t)
      <4>1. \A u \in Threads : pc'[u] \in {"user", "repoll", pc[u]}
        BY <3>1 DEF StreamonError, StreamoffQueue, QueueStreamoff, Goto, TypeOK
      <4> QED BY <2>1, <4>1 DEF InStreamLock
    <3>2. CASE ~(StreamonError(t) \/ StreamoffQueue(t))
      <4>1. \A u \in Threads : u # t => pc'[u] = pc[u]
        BY <1>7, <3>2 DEF StreamonQueue, StreamonStarts, StreamonFails, StreamonEnd,
           StreamoffCheck, StreamoffStops, Goto, TypeOK
      <4> QED BY <2>1, <4>1
    <3> QED BY <3>1, <3>2
  <2>3. stream_lock = t
    BY <1>7 DEF StreamLockOwned
  <2> USE <2>2, <2>3 DEF FlagsAgree, DriverContract, InStreamLock, TypeOK
  <2>4. CASE StreamonQueue(t)
    BY <2>4 DEF StreamonQueue, Goto, nodevars
  <2>5. CASE StreamonStarts(t)
    BY <2>5 DEF StreamonStarts, Goto
  <2>6. CASE StreamonFails(t)
    <3>1. hw' = FALSE
      <4>1. PartialStart = FALSE
        OBVIOUS
      <4> QED BY <2>6, <4>1 DEF StreamonFails
    <3> QED BY <2>6, <3>1 DEF StreamonFails, Goto
  <2>7. CASE StreamonEnd(t)
    BY <2>7 DEF StreamonEnd, Goto
  <2>8. CASE StreamonError(t) \/ StreamoffQueue(t)
    <3>1. streaming' = FALSE /\ hw' = hw /\ pc'[t] = "user" /\ ~hw
      BY <2>8 DEF StreamonError, StreamoffQueue, QueueStreamoff, Goto
    <3> QED BY <3>1
  <2>9. CASE StreamoffCheck(t)
    BY <2>9 DEF StreamoffCheck, Goto
  <2>10. CASE StreamoffStops(t)
    BY <2>10 DEF StreamoffStops, Goto
  <2> QED BY <1>7, <2>4, <2>5, <2>6, <2>7, <2>8, <2>9, <2>10
<1>8. ASSUME NEW t \in Threads,
             \/ StreamonQueue(t) \/ StreamonStarts(t) \/ StreamonFails(t) \/ StreamonEnd(t)
             \/ StreamonError(t)
             \/ StreamoffCheck(t) \/ StreamoffStops(t) \/ StreamoffQueue(t)
      PROVE  pc[t] \in InStreamLock
  BY <1>8 DEF StreamonQueue, StreamonStarts, StreamonFails, StreamonEnd, StreamonError,
     StreamoffCheck, StreamoffStops, StreamoffQueue, InStreamLock
<1>9. ASSUME Release
      PROVE  FlagsAgree'
  BY <1>9 DEF Release, FreeAndAlloc, FlagsAgree, DriverContract
<1>10. ASSUME UNCHANGED vars
       PROVE  FlagsAgree'
  BY <1>10, FlagsFrame DEF vars, nodevars
<1>11. CASE SuspendResume
  <2>1. UNCHANGED <<streaming, nodevars, dmaqueue, pc>>
    BY <1>11 DEF SuspendResume
  <2> QED BY <2>1, FlagsFrame
<1> QED
  BY <1>1, <1>2, <1>3, <1>4, <1>5, <1>6, <1>7, <1>8, <1>9, <1>10, <1>11, WrongTypeIdle
  DEF Next, Call, Continue, Interrupt

-----------------------------------------------------------------------------
(* The main queue and the IRQ queue.                                        *)

QueueInv == MainQueueExact /\ ListsAgree /\ NothingDoneYet

\* Both lists of a freshly opened handle are empty.
LEMMA InitQueue == Init => QueueInv
  BY DEF Init, QueueInv, MainQueueExact, ListsAgree, NothingDoneYet

\* Who is in the middle of QBUF, seen from the lock.
LEMMA MidQbufFree ==
  ASSUME QueueLockOwned, lock = None, None \notin Threads
  PROVE  MidQbuf = {} /\ Handed = Len(queue)
  BY DEF QueueLockOwned, InQueueLock, MidQbuf, Handed

\* A step that only moves threads around, or resets an IRQ queue nobody
\* streams from, keeps the lists in agreement.
LEMMA QueueFrame ==
  ASSUME QueueInv, UNCHANGED <<queue, streaming, state, count>>,
         ~streaming \/ UNCHANGED dmaqueue,
         \A u \in Threads : pc'[u] = "qbuf" <=> pc[u] = "qbuf"
  PROVE  QueueInv'
<1>1. MidQbuf' = MidQbuf
  BY DEF MidQbuf
<1>2. MainQueueExact' /\ NothingDoneYet'
  BY DEF QueueInv, MainQueueExact, NothingDoneYet
<1>3. ListsAgree'
  BY <1>1 DEF QueueInv, ListsAgree, Finished, Handed
<1> QED BY <1>2, <1>3 DEF QueueInv

\* A queue that is emptied and does not stream.
LEMMA QueueEmptied ==
  ASSUME queue' = <<>>, ~streaming', \A b \in Buffers : state'[b] = "IDLE"
  PROVE  QueueInv'
  BY DEF QueueInv, MainQueueExact, ListsAgree, NothingDoneYet

\* QBUF adds a buffer userspace owned at the back of the main queue.
LEMMA QueueQbuf ==
  ASSUME LockInv, QueueInv,
         NEW t \in Threads, NEW b \in Buffers, NEW a \in Addrs \cup {None}, Qbuf(t, b, a)
  PROVE  QueueInv'
<1>1. /\ queue \in Seq(Buffers) /\ queue' = Append(queue, b) /\ Len(queue) \in Nat
      /\ dmaqueue' = dmaqueue /\ Len(dmaqueue) \in Nat /\ DOMAIN dmaqueue = 1 .. Len(dmaqueue)
      /\ UNCHANGED <<count, streaming>> /\ b < count /\ state[b] = "IDLE"
  BY DEF Qbuf, QbufChecks, LockInv, TypeOK
<1>2. /\ DOMAIN queue = 1 .. Len(queue) /\ DOMAIN queue' = 1 .. Len(queue) + 1
      /\ Len(queue') = Len(queue) + 1 /\ Len(queue) + 1 \in DOMAIN queue'
      /\ queue'[Len(queue) + 1] = b
      /\ \A i \in 1 .. Len(queue) : queue'[i] = queue[i]
  BY <1>1, AppendQueue
<1>3. /\ state'[b] = "QUEUED"
      /\ \A x \in Buffers : x # b => state'[x] = state[x]
  BY DEF Qbuf, LockInv, TypeOK
<1>4. \A i \in 1 .. Len(queue) : queue[i] \in Buffers /\ queue[i] # b
  <2>1. \A i \in 1 .. Len(queue) : queue[i] \in Buffers
    BY <1>1
  <2>2. \A i \in DOMAIN queue : queue[i] # b
    BY <1>1 DEF QueueInv, MainQueueExact
  <2> QED BY <1>2, <2>1, <2>2
<1>5. MainQueueExact'
  <2>1. \A i, j \in DOMAIN queue' : queue'[i] = queue'[j] => i = j
    BY <1>1, <1>2, <1>4 DEF QueueInv, MainQueueExact
  <2>2. \A i \in DOMAIN queue' : queue'[i] < count'
    BY <1>1, <1>2 DEF QueueInv, MainQueueExact
  <2>3. ASSUME NEW x \in Buffers
        PROVE  state'[x] # "IDLE" <=> \E i \in DOMAIN queue' : queue'[i] = x
    <3>1. CASE x = b
      BY <1>1, <1>2, <1>3, <3>1
    <3>2. CASE x # b
      BY <1>1, <1>2, <1>3, <3>2 DEF QueueInv, MainQueueExact
    <3> QED BY <3>1, <3>2
  <2> QED BY <2>1, <2>2, <2>3 DEF MainQueueExact
<1>6. NothingDoneYet'
  BY <1>1, <1>2, <1>3, <1>4 DEF QueueInv, NothingDoneYet, Pending
<1>7. ListsAgree'
  <2>1. CASE streaming
    <3>1. Handed = Len(queue)
      BY MidQbufFree, QueueAssumption DEF QueueAssumption, Qbuf, QbufChecks, LockFree, LockInv
    <3>2. t \in MidQbuf'
      BY <2>1 DEF Qbuf, Goto, MidQbuf, LockInv, TypeOK
    <3>3. Handed' = Len(queue)
      <4>1. Handed' = Len(queue') - 1
        BY <3>2 DEF Handed
      <4> QED BY <1>1, <1>2, <4>1
    <3>4. Finished' = Finished
      BY <1>1, <3>1, <3>3 DEF Finished
    <3>5. Finished \in Nat /\ Finished <= Len(queue)
      BY <1>1, <2>1, <3>1 DEF QueueInv, ListsAgree, Finished
    <3>6. \A i \in DOMAIN dmaqueue : dmaqueue[i] = queue'[Finished + i]
      <4>1. \A i \in DOMAIN dmaqueue : Finished + i \in 1 .. Len(queue)
        BY <1>1, <3>1, <3>5 DEF Finished
      <4> QED BY <1>2, <2>1, <4>1 DEF QueueInv, ListsAgree
    <3>7. \A i \in DOMAIN queue' : state'[queue'[i]] \in Pending <=> i > Finished
      <4>1. \A i \in 1 .. Len(queue) : state'[queue'[i]] \in Pending <=> i > Finished
        BY <1>2, <1>3, <1>4, <2>1 DEF QueueInv, ListsAgree
      <4>2. state'[queue'[Len(queue) + 1]] \in Pending /\ Len(queue) + 1 > Finished
        BY <1>1, <1>2, <1>3, <3>5 DEF Pending
      <4> QED BY <1>1, <1>2, <4>1, <4>2
    <3>8. Finished' >= 0
      BY <3>4, <3>5
    <3>9. \A i \in DOMAIN dmaqueue' : dmaqueue'[i] = queue'[Finished' + i]
      BY <1>1, <3>4, <3>6
    <3>10. \A i \in DOMAIN queue' : state'[queue'[i]] \in Pending <=> i > Finished'
      BY <3>4, <3>7
    <3> QED BY <3>8, <3>9, <3>10 DEF ListsAgree
  <2>2. CASE ~streaming
    BY <1>1, <2>2 DEF ListsAgree
  <2> QED BY <2>1, <2>2
<1> QED BY <1>5, <1>6, <1>7 DEF QueueInv

\* QBUF hands that buffer, the last of the main queue, to the IRQ queue.
LEMMA QueueQbufToDevice ==
  ASSUME LockInv, LockInv', QueueInv, NEW t \in Threads, QbufToDevice(t)
  PROVE  QueueInv'
<1>1. /\ queue \in Seq(Buffers) /\ queue' = queue /\ Len(queue) \in Nat
      /\ dmaqueue \in Seq(Buffers) /\ dmaqueue' = Append(dmaqueue, arg[t])
      /\ Len(dmaqueue) \in Nat /\ DOMAIN dmaqueue = 1 .. Len(dmaqueue)
      /\ UNCHANGED <<count, streaming, state>> /\ streaming
      /\ queue # <<>> /\ arg[t] = queue[Len(queue)]
  BY DEF QbufToDevice, LockInv, TypeOK, ArgValid, bufvars
<1>2. arg[t] \in Buffers
  BY <1>1, NonEmptyQueue
<1>3. /\ DOMAIN dmaqueue' = 1 .. Len(dmaqueue) + 1 /\ Len(dmaqueue') = Len(dmaqueue) + 1
      /\ dmaqueue'[Len(dmaqueue) + 1] = arg[t]
      /\ \A i \in 1 .. Len(dmaqueue) : dmaqueue'[i] = dmaqueue[i]
  BY <1>1, <1>2, AppendQueue
<1>4. Handed = Len(queue) - 1
  <2>1. t \in MidQbuf
    BY DEF QbufToDevice, MidQbuf
  <2> QED BY <2>1 DEF Handed
<1>5. Handed' = Len(queue)
  <2>1. lock' = None
    BY DEF QbufToDevice
  <2>2. MidQbuf' = {}
    BY <2>1, QueueAssumption DEF QueueAssumption, LockInv, QueueLockOwned, InQueueLock, MidQbuf
  <2> QED BY <1>1, <2>2 DEF Handed
<1>6. Finished' = Finished /\ Finished = Len(queue) - 1 - Len(dmaqueue)
  BY <1>1, <1>3, <1>4, <1>5 DEF Finished
<1>7. MainQueueExact' /\ NothingDoneYet'
  BY <1>1 DEF QueueInv, MainQueueExact, NothingDoneYet
<1>8. ListsAgree'
  <2>1. Finished' >= 0
    BY <1>1, <1>6 DEF QueueInv, ListsAgree
  <2>2. \A i \in DOMAIN dmaqueue' : dmaqueue'[i] = queue'[Finished' + i]
    <3>1. \A i \in 1 .. Len(dmaqueue) : dmaqueue'[i] = queue'[Finished' + i]
      BY <1>1, <1>3, <1>6 DEF QueueInv, ListsAgree
    <3>2. Finished' + (Len(dmaqueue) + 1) = Len(queue)
      BY <1>1, <1>6
    <3> QED BY <1>1, <1>3, <3>1, <3>2
  <2>3. \A i \in DOMAIN queue' : state'[queue'[i]] \in Pending <=> i > Finished'
    BY <1>1, <1>6 DEF QueueInv, ListsAgree
  <2> QED BY <2>1, <2>2, <2>3 DEF ListsAgree
<1> QED BY <1>7, <1>8 DEF QueueInv

\* DQBUF takes a finished buffer off the front.
LEMMA QueueDequeue ==
  ASSUME LockInv, QueueInv, queue # <<>>, state[Head(queue)] \notin Pending,
         Dequeue(Head(queue)), UNCHANGED <<count, streaming, dmaqueue>>,
         MidQbuf = {}, MidQbuf' = {}
  PROVE  QueueInv'
<1>1. /\ queue \in Seq(Buffers) /\ queue' = Tail(queue) /\ Len(queue) \in Nat /\ Len(queue) >= 1
      /\ Head(queue) = queue[1] /\ queue[1] \in Buffers
      /\ dmaqueue' = dmaqueue /\ Len(dmaqueue) \in Nat /\ DOMAIN dmaqueue = 1 .. Len(dmaqueue)
  BY NonEmptyQueue, WithoutHead DEF LockInv, TypeOK, Dequeue
<1>2. /\ DOMAIN queue = 1 .. Len(queue) /\ DOMAIN queue' = 1 .. Len(queue) - 1
      /\ Len(queue') = Len(queue) - 1
      /\ \A i \in 1 .. Len(queue) - 1 : queue'[i] = queue[i + 1]
  BY <1>1, NonEmptyQueue
<1>3. \A i \in 1 .. Len(queue) - 1 :
        i + 1 \in DOMAIN queue /\ queue[i + 1] \in Buffers /\ queue[i + 1] # queue[1]
  <2>1. 1 \in DOMAIN queue
    BY <1>1, <1>2
  <2>2. \A i \in 1 .. Len(queue) - 1 : i + 1 \in DOMAIN queue /\ i + 1 # 1
    BY <1>1, <1>2
  <2>3. \A i \in DOMAIN queue : queue[i] \in Buffers
    BY <1>1, <1>2
  <2> QED BY <2>1, <2>2, <2>3 DEF QueueInv, MainQueueExact
<1>4. /\ state'[queue[1]] = "IDLE"
      /\ \A x \in Buffers : x # queue[1] => state'[x] = state[x]
  BY <1>1 DEF Dequeue, LockInv, TypeOK
<1>5. streaming /\ Finished >= 1
  <2>1. 1 \in DOMAIN queue /\ state[queue[1]] \notin Pending
    BY <1>1, <1>2
  <2>2. streaming
    BY <2>1 DEF QueueInv, NothingDoneYet
  <2>3. Finished \in Int
    BY <1>1 DEF Finished, Handed
  <2> QED BY <2>1, <2>2, <2>3 DEF QueueInv, ListsAgree
<1>6. Finished = Len(queue) - Len(dmaqueue) /\ Finished' = Finished - 1
  BY <1>1, <1>2 DEF Finished, Handed
<1>7. MainQueueExact'
  <2>1. \A i, j \in DOMAIN queue' : queue'[i] = queue'[j] => i = j
    <3> SUFFICES ASSUME NEW i \in DOMAIN queue', NEW j \in DOMAIN queue',
                        queue'[i] = queue'[j]
                 PROVE  i = j
      OBVIOUS
    <3>1. i + 1 \in DOMAIN queue /\ j + 1 \in DOMAIN queue /\ queue[i + 1] = queue[j + 1]
      BY <1>2, <1>3
    <3>2. i + 1 = j + 1
      BY <3>1 DEF QueueInv, MainQueueExact
    <3> QED BY <1>1, <1>2, <3>2
  <2>2. \A i \in DOMAIN queue' : queue'[i] < count'
    BY <1>2, <1>3 DEF QueueInv, MainQueueExact
  <2>3. ASSUME NEW x \in Buffers
        PROVE  state'[x] # "IDLE" <=> \E i \in DOMAIN queue' : queue'[i] = x
    <3>1. CASE x = queue[1]
      BY <1>2, <1>3, <1>4, <3>1
    <3>2. CASE x # queue[1]
      <4>1. state[x] # "IDLE" <=> \E i \in DOMAIN queue : queue[i] = x
        BY DEF QueueInv, MainQueueExact
      <4>2. ASSUME NEW i \in DOMAIN queue, queue[i] = x
            PROVE  i - 1 \in DOMAIN queue' /\ queue'[i - 1] = x
        BY <1>1, <1>2, <3>2, <4>2
      <4>3. ASSUME NEW i \in DOMAIN queue', queue'[i] = x
            PROVE  i + 1 \in DOMAIN queue /\ queue[i + 1] = x
        BY <1>2, <1>3, <4>3
      <4> QED BY <1>4, <3>2, <4>1, <4>2, <4>3
    <3> QED BY <3>1, <3>2
  <2> QED BY <2>1, <2>2, <2>3 DEF MainQueueExact
<1>8. NothingDoneYet'
  BY <1>5 DEF NothingDoneYet
<1>9. ListsAgree'
  <2>1. Finished' >= 0
    BY <1>1, <1>5, <1>6
  <2>2. \A i \in DOMAIN dmaqueue' : dmaqueue'[i] = queue'[Finished' + i]
    <3>1. ASSUME NEW i \in DOMAIN dmaqueue
          PROVE  dmaqueue[i] = queue'[Finished' + i]
      <4>1. Finished' + i \in 1 .. Len(queue) - 1 /\ Finished' + i + 1 = Finished + i
        BY <1>1, <1>5, <1>6
      <4>2. queue'[Finished' + i] = queue[Finished + i]
        BY <1>2, <4>1
      <4> QED BY <1>5, <4>2 DEF QueueInv, ListsAgree
    <3> QED BY <1>1, <3>1
  <2>3. ASSUME NEW i \in DOMAIN queue'
        PROVE  state'[queue'[i]] \in Pending <=> i > Finished'
    <3>1. i + 1 \in DOMAIN queue /\ state'[queue'[i]] = state[queue[i + 1]]
      BY <1>2, <1>3, <1>4
    <3>2. state[queue[i + 1]] \in Pending <=> i + 1 > Finished
      BY <1>5, <3>1 DEF QueueInv, ListsAgree
    <3> QED BY <1>1, <1>2, <1>6, <3>1, <3>2
  <2> QED BY <2>1, <2>2, <2>3 DEF ListsAgree
<1> QED BY <1>7, <1>8, <1>9 DEF QueueInv

\* STREAMON hands over everything queued so far, in order.
LEMMA QueueStreamon ==
  ASSUME LockInv, LockInv', FlagsAgree, QueueInv, NEW t \in Threads, StreamonQueue(t)
  PROVE  QueueInv'
<1>1. /\ queue \in Seq(Buffers) /\ queue' = queue /\ Len(queue) \in Nat
      /\ UNCHANGED <<count, state, lock>> /\ lock = None /\ streaming'
      /\ ~streaming /\ dmaqueue = <<>> /\ dmaqueue' = dmaqueue \o queue
  BY DEF StreamonQueue, LockFree, FlagsAgree, LockInv, TypeOK, bufvars
<1>2. dmaqueue' = queue /\ DOMAIN queue = 1 .. Len(queue)
  BY <1>1
<1>3. Finished' = 0
  <2>1. MidQbuf' = {}
    BY <1>1, QueueAssumption DEF QueueAssumption, LockInv, QueueLockOwned, InQueueLock, MidQbuf
  <2> QED BY <1>1, <1>2, <2>1 DEF Finished, Handed
<1>4. MainQueueExact' /\ NothingDoneYet'
  BY <1>1 DEF QueueInv, MainQueueExact, NothingDoneYet
<1>5. ListsAgree'
  <2>1. \A i \in DOMAIN dmaqueue' : dmaqueue'[i] = queue'[Finished' + i]
    BY <1>1, <1>2, <1>3
  <2>2. \A i \in DOMAIN queue' : state'[queue'[i]] \in Pending <=> i > Finished'
    BY <1>1, <1>2, <1>3 DEF QueueInv, NothingDoneYet
  <2> QED BY <1>3, <2>1, <2>2 DEF ListsAgree
<1> QED BY <1>4, <1>5 DEF QueueInv

\* The buffer the interrupt handler completes is the first unfinished one.
LEMMA CompletesNext ==
  ASSUME LockInv, FlagsAgree, QueueInv, NEW r \in {"DONE", "ERROR"}, hw, BufferNext(r)
  PROVE  /\ Finished \in Int /\ Finished' = Finished + 1 /\ Finished + 1 \in DOMAIN queue
<1>1. /\ streaming /\ UNCHANGED queue
      /\ queue \in Seq(Buffers) /\ Len(queue) \in Nat /\ DOMAIN queue = 1 .. Len(queue)
      /\ dmaqueue \in Seq(Buffers) /\ dmaqueue # <<>> /\ dmaqueue' = Tail(dmaqueue)
  BY DEF BufferNext, FlagsAgree, DriverContract, LockInv, TypeOK, bufvars
<1>2. /\ Len(dmaqueue) \in Nat /\ Len(dmaqueue) >= 1 /\ Len(dmaqueue') = Len(dmaqueue) - 1
  BY <1>1, NonEmptyQueue
<1>3. MidQbuf' = MidQbuf
  BY DEF BufferNext, WakeUp, MidQbuf
<1>4. Handed \in Int /\ Handed' = Handed /\ Handed <= Len(queue)
  BY <1>1, <1>3 DEF Handed
<1>5. Finished = Handed - Len(dmaqueue) /\ Finished' = Handed' - Len(dmaqueue')
  BY DEF Finished
<1>6. Finished >= 0
  BY <1>1 DEF QueueInv, ListsAgree
<1> QED BY <1>1, <1>2, <1>4, <1>5, <1>6

\* The interrupt handler completes the oldest unfinished buffer.
LEMMA QueueBufferNext ==
  ASSUME LockInv, FlagsAgree, QueueInv, NEW r \in {"DONE", "ERROR"}, hw, BufferNext(r)
  PROVE  QueueInv'
<1>1. /\ streaming /\ UNCHANGED <<queue, count, streaming>>
      /\ queue \in Seq(Buffers) /\ Len(queue) \in Nat /\ DOMAIN queue = 1 .. Len(queue)
      /\ dmaqueue \in Seq(Buffers) /\ dmaqueue # <<>> /\ dmaqueue' = Tail(dmaqueue)
      /\ DOMAIN dmaqueue = 1 .. Len(dmaqueue)
  BY DEF BufferNext, FlagsAgree, DriverContract, LockInv, TypeOK, bufvars
<1>2. /\ Len(dmaqueue) \in Nat /\ Len(dmaqueue) >= 1 /\ Head(dmaqueue) = dmaqueue[1]
      /\ dmaqueue' \in Seq(Buffers) /\ Len(dmaqueue') = Len(dmaqueue) - 1
      /\ DOMAIN dmaqueue' = 1 .. Len(dmaqueue) - 1
      /\ \A i \in 1 .. Len(dmaqueue) - 1 : dmaqueue'[i] = dmaqueue[i + 1]
  BY <1>1, NonEmptyQueue
<1>3. MidQbuf' = MidQbuf
  BY DEF BufferNext, WakeUp, MidQbuf
<1>4. /\ Handed \in Int /\ Handed' = Handed /\ Handed <= Len(queue)
      /\ Finished = Handed - Len(dmaqueue) /\ Finished' = Finished + 1
      /\ Finished \in Nat
  <2>1. Handed \in Int /\ Handed' = Handed /\ Handed <= Len(queue)
    BY <1>1, <1>3 DEF Handed
  <2>2. Finished = Handed - Len(dmaqueue) /\ Finished' = Handed' - Len(dmaqueue')
    BY DEF Finished
  <2>3. Finished >= 0
    BY <1>1 DEF QueueInv, ListsAgree
  <2> QED BY <1>2, <2>1, <2>2, <2>3
<1>5. /\ Finished + 1 \in DOMAIN queue
      /\ dmaqueue[1] = queue[Finished + 1]
  BY <1>1, <1>2, <1>4 DEF QueueInv, ListsAgree
<1>6. dmaqueue' # <<>> => /\ Finished + 2 \in DOMAIN queue
                          /\ Head(dmaqueue') = queue[Finished + 2]
  <2> SUFFICES ASSUME dmaqueue' # <<>>
               PROVE  /\ Finished + 2 \in DOMAIN queue
                      /\ Head(dmaqueue') = queue[Finished + 2]
    OBVIOUS
  <2>1. Len(dmaqueue') >= 1 /\ Head(dmaqueue') = dmaqueue'[1]
    BY <1>2, NonEmptyQueue
  <2>2. Len(dmaqueue) >= 2 /\ dmaqueue'[1] = dmaqueue[2] /\ 2 \in DOMAIN dmaqueue
    BY <1>1, <1>2, <2>1
  <2> QED BY <1>1, <1>2, <1>4, <2>1, <2>2 DEF QueueInv, ListsAgree
<1>7. \A i \in DOMAIN queue :
        /\ queue[i] \in Buffers
        /\ queue[i] = queue[Finished + 1] <=> i = Finished + 1
        /\ dmaqueue' # <<>> => (queue[i] = Head(dmaqueue') <=> i = Finished + 2)
  BY <1>1, <1>5, <1>6 DEF QueueInv, MainQueueExact
<1>8. \A x \in Buffers :
        state'[x] = IF dmaqueue' # <<>> /\ x = Head(dmaqueue') THEN "ACTIVE"
                    ELSE IF x = queue[Finished + 1] THEN r ELSE state[x]
  BY <1>1, <1>2, <1>5 DEF BufferNext
<1>9. \A i \in DOMAIN queue : state'[queue[i]] \in Pending <=> i > Finished + 1
  <2> SUFFICES ASSUME NEW i \in DOMAIN queue
               PROVE  state'[queue[i]] \in Pending <=> i > Finished + 1
    OBVIOUS
  <2>1. CASE i = Finished + 1
    <3>0. i # Finished + 2
      BY <1>4, <2>1
    <3>1. dmaqueue' # <<>> => queue[i] # Head(dmaqueue')
      BY <1>7, <3>0
    <3>2. state'[queue[i]] = r
      BY <1>7, <1>8, <2>1, <3>1
    <3> QED BY <1>4, <2>1, <3>2 DEF Pending
  <2>2. CASE dmaqueue' # <<>> /\ i = Finished + 2
    <3>1. state'[queue[i]] = "ACTIVE"
      BY <1>7, <1>8, <2>2
    <3> QED BY <1>4, <2>2, <3>1 DEF Pending
  <2>3. CASE i # Finished + 1 /\ ~(dmaqueue' # <<>> /\ i = Finished + 2)
    <3>1. state'[queue[i]] = state[queue[i]]
      BY <1>7, <1>8, <2>3
    <3>2. state[queue[i]] \in Pending <=> i > Finished
      BY <1>1 DEF QueueInv, ListsAgree
    <3> QED BY <1>1, <1>4, <2>3, <3>1, <3>2
  <2> QED BY <2>1, <2>2, <2>3
<1>10. ListsAgree'
  <2>1. Finished' >= 0
    BY <1>4
  <2>2. ASSUME NEW i \in DOMAIN dmaqueue'
        PROVE  dmaqueue'[i] = queue'[Finished' + i]
    <3>1. i + 1 \in DOMAIN dmaqueue /\ dmaqueue'[i] = dmaqueue[i + 1]
      BY <1>1, <1>2
    <3>2. dmaqueue[i + 1] = queue[Finished + (i + 1)]
      BY <1>1, <3>1 DEF QueueInv, ListsAgree
    <3>3. Finished' + i = Finished + (i + 1)
      BY <1>2, <1>4
    <3> QED BY <1>1, <3>1, <3>2, <3>3
  <2>3. \A i \in DOMAIN queue' : state'[queue'[i]] \in Pending <=> i > Finished'
    BY <1>1, <1>4, <1>9
  <2> QED BY <2>1, <2>2, <2>3 DEF ListsAgree
<1>11. MainQueueExact'
  <2>1. ASSUME NEW x \in Buffers
        PROVE  state'[x] # "IDLE" <=> state[x] # "IDLE"
    <3>1. CASE x = queue[Finished + 1] \/ (dmaqueue' # <<>> /\ x = Head(dmaqueue'))
      <4>1. \E i \in DOMAIN queue : queue[i] = x
        BY <1>5, <1>6, <3>1
      <4>2. state[x] # "IDLE"
        BY <4>1 DEF QueueInv, MainQueueExact
      <4> QED BY <1>8, <3>1, <4>2
    <3>2. CASE ~(x = queue[Finished + 1] \/ (dmaqueue' # <<>> /\ x = Head(dmaqueue')))
      BY <1>8, <3>2
    <3> QED BY <3>1, <3>2
  <2> QED BY <1>1, <2>1 DEF QueueInv, MainQueueExact
<1>12. NothingDoneYet'
  BY <1>1 DEF NothingDoneYet
<1> QED BY <1>10, <1>11, <1>12 DEF QueueInv

\* Every step keeps the main queue and the IRQ queue consistent: the actions
\* that change them have a lemma each, the others leave them alone.
LEMMA StepQueue ==
  ASSUME ~WrongTypes, LockInv, LockInv', FlagsAgree, QueueInv, [Next]_vars
  PROVE  QueueInv'
<1>1. ASSUME NEW t \in Threads, NEW n \in 0 .. MaxBuffers,
             NEW m \in {"MMAP", "USERPTR"}, Reqbufs(t, n, m)
      PROVE  QueueInv'
  <2>1. /\ queue' = <<>> /\ \A b \in Buffers : state'[b] = "IDLE"
    BY <1>1 DEF Reqbufs, FreeAndAlloc
  <2>2. ~streaming'
    BY <1>1 DEF Reqbufs, FreeAllowed
  <2> QED BY <2>1, <2>2, QueueEmptied
<1>2. ASSUME NEW t \in Threads,
             \/ \E b \in Buffers : Mmap(t, b) \/ Munmap(t, b)
             \/ \E b \in Buffers, a \in Addrs \cup {None} : QbufPrepareFails(t, b, a)
      PROVE  QueueInv'
  <2>1. UNCHANGED <<queue, streaming, state, count, dmaqueue, pc>>
    BY <1>2 DEF Mmap, Munmap, QbufPrepareFails
  <2> QED BY <2>1, QueueFrame
<1>3. ASSUME NEW t \in Threads,
             \/ DqbufWait(t) \/ PollWait(t) \/ PollTimeout(t) \/ PollAgain(t) \/ DqbufInterrupted(t)
      PROVE  QueueInv'
  <2>1. UNCHANGED <<queue, streaming, state, count, dmaqueue>>
    BY <1>3 DEF DqbufWait, PollWait, PollTimeout, PollAgain, DqbufInterrupted, bufvars
  <2>2. \A u \in Threads : pc'[u] = "qbuf" <=> pc[u] = "qbuf"
    BY <1>3 DEF DqbufWait, PollWait, PollTimeout, PollAgain, DqbufInterrupted, Goto, LockInv, TypeOK
  <2> QED BY <2>1, <2>2, QueueFrame
<1>4. ASSUME NEW t \in Threads,
             \/ Streamon(t) \/ StreamonInvalid(t) \/ Streamoff(t)
             \/ StreamonStarts(t) \/ StreamonFails(t) \/ StreamonEnd(t)
             \/ StreamoffCheck(t) \/ StreamoffStops(t)
      PROVE  QueueInv'
  <2>1. UNCHANGED <<queue, streaming, state, count>>
    BY <1>4 DEF Streamon, StreamonInvalid, Streamoff, StreamonStarts, StreamonFails,
                StreamonEnd, StreamoffCheck, StreamoffStops, bufvars
  <2>2. ~streaming \/ UNCHANGED dmaqueue
    BY <1>4 DEF Streamon, StreamonInvalid, Streamoff, StreamonStarts, StreamonFails,
                StreamonEnd, StreamoffCheck, StreamoffStops, FlagsAgree
  <2>3. \A u \in Threads : pc'[u] = "qbuf" <=> pc[u] = "qbuf"
    BY <1>4 DEF Streamon, StreamonInvalid, Streamoff, StreamonStarts, StreamonFails,
                StreamonEnd, StreamoffCheck, StreamoffStops, Goto, LockInv, TypeOK
  <2> QED BY <2>1, <2>2, <2>3, QueueFrame
<1>5. ASSUME NEW t \in Threads, StreamonError(t) \/ StreamoffQueue(t)
      PROVE  QueueInv'
  <2>1. QueueStreamoff(t) /\ UNCHANGED <<count, dmaqueue, lock>>
        /\ pc[t] \in {"streamon_error", "streamoff_queue"}
    BY <1>5 DEF StreamonError, StreamoffQueue, bufvars
  <2>2. CASE streaming
    <3>1. queue' = <<>> /\ ~streaming'
      BY <2>1, <2>2 DEF QueueStreamoff
    <3>2. ASSUME NEW b \in Buffers
          PROVE  state'[b] = "IDLE"
      <4>1. CASE b < count
        BY <2>1, <2>2, <4>1 DEF QueueStreamoff
      <4>2. CASE ~(b < count)
        <5>1. state'[b] = state[b]
          BY <2>1, <2>2, <4>2 DEF QueueStreamoff
        <5>2. state[b] = "IDLE"
          BY <4>2 DEF QueueInv, MainQueueExact
        <5> QED BY <5>1, <5>2
      <4> QED BY <4>1, <4>2
    <3> QED BY <3>1, <3>2, QueueEmptied
  <2>3. CASE ~streaming
    <3>1. UNCHANGED <<streaming, state, queue>> /\ Goto(t, "user", None)
      BY <2>1, <2>3 DEF QueueStreamoff
    <3>2. \A u \in Threads : pc'[u] = "qbuf" <=> pc[u] = "qbuf"
      BY <2>1, <3>1 DEF Goto, LockInv, TypeOK
    <3> QED BY <2>1, <2>3, <3>1, <3>2, QueueFrame
  <2> QED BY <2>2, <2>3
<1>6. ASSUME NEW t \in Threads, Dqbuf(t)
      PROVE  QueueInv'
  <2>1. lock = None /\ pc' = pc
    BY <1>6 DEF Dqbuf, LockFree
  <2>2. MidQbuf = {} /\ MidQbuf' = {}
    BY <2>1, MidQbufFree, QueueAssumption DEF QueueAssumption, LockInv, MidQbuf
  <2> QED BY <1>6, <2>2, QueueDequeue DEF Dqbuf, bufvars
<1>7. ASSUME NEW t \in Threads, DqbufWakes(t)
      PROVE  QueueInv'
  <2>1. queue # <<>> /\ arg[t] = Head(queue) /\ lock = t
    BY <1>7 DEF DqbufWakes, LockInv, ArgValid, QueueLockOwned, InQueueLock
  <2>2. MidQbuf = {}
    BY <1>7, <2>1 DEF DqbufWakes, LockInv, QueueLockOwned, InQueueLock, MidQbuf
  <2>3. MidQbuf' = {}
    BY <1>7, <2>2 DEF DqbufWakes, Goto, LockInv, TypeOK, MidQbuf
  <2> QED BY <1>7, <2>1, <2>2, <2>3, QueueDequeue DEF DqbufWakes, bufvars
<1>8. ASSUME Release
      PROVE  QueueInv'
  <2>1. queue' = <<>> /\ (\A b \in Buffers : state'[b] = "IDLE") /\ ~streaming'
    BY <1>8 DEF Release, FreeAndAlloc
  <2> QED BY <2>1, QueueEmptied
<1>9. ASSUME SuspendResume
      PROVE  QueueInv'
  <2>1. /\ UNCHANGED <<queue, streaming, count, dmaqueue, pc>>
        /\ \A b \in Buffers : state'[b] \in Pending <=> state[b] \in Pending
        /\ \A b \in Buffers : state'[b] # "IDLE" <=> state[b] # "IDLE"
    BY <1>9 DEF SuspendResume, bufvars, Pending
  <2>2. Finished' = Finished
    BY <2>1 DEF Finished, Handed, MidQbuf
  <2>3. \A i \in DOMAIN queue : queue[i] \in Buffers
    BY DEF LockInv, TypeOK
  <2> QED
    BY <2>1, <2>2, <2>3 DEF QueueInv, MainQueueExact, ListsAgree, NothingDoneYet
<1>10. ASSUME UNCHANGED vars
       PROVE  QueueInv'
  BY <1>10, QueueFrame DEF vars, bufvars
<1> QED
  BY <1>1, <1>2, <1>3, <1>4, <1>5, <1>6, <1>7, <1>8, <1>9, <1>10,
     QueueQbuf, QueueQbufToDevice, QueueStreamon, QueueBufferNext, WrongTypeIdle
  DEF Next, Call, Continue, Interrupt

-----------------------------------------------------------------------------
(* Pinned memory and mappings.                                              *)

\* No buffer is pinned or mapped on a freshly opened handle.
LEMMA InitPins == Init => PinsValid /\ MappedIsAllocated
  BY DEF Init, PinsValid, MappedIsAllocated

\* Every step keeps prepared buffers pinned at the address they point to.
LEMMA StepPins ==
  ASSUME ~WrongTypes, LockInv, QueueInv, PinsValid, [Next]_vars
  PROVE  PinsValid'
<1>1. ASSUME \A b \in Buffers : ~prepared'[b], queue' = <<>>
      PROVE  PinsValid'
  BY <1>1 DEF PinsValid
<1>2. ASSUME UNCHANGED <<prepared, pinned, userptr, memory>>,
             \A i \in DOMAIN queue' : \E j \in DOMAIN queue : queue'[i] = queue[j]
      PROVE  PinsValid'
  BY <1>2 DEF PinsValid, Target
<1>3. ASSUME NEW t \in Threads, NEW n \in 0 .. MaxBuffers,
             NEW m \in {"MMAP", "USERPTR"}, Reqbufs(t, n, m)
      PROVE  PinsValid'
  BY <1>1, <1>3 DEF Reqbufs, FreeAndAlloc
<1>4. ASSUME Release PROVE PinsValid'
  BY <1>1, <1>4 DEF Release, FreeAndAlloc
<1>5. ASSUME NEW t \in Threads, NEW b \in Buffers, NEW a \in Addrs \cup {None},
             QbufPrepareFails(t, b, a)
      PROVE  PinsValid'
  <2>1. /\ ~prepared'[b] /\ UNCHANGED <<queue, memory>>
        /\ \A x \in Buffers : x # b => /\ prepared'[x] = prepared[x]
                                       /\ pinned'[x] = pinned[x]
                                       /\ userptr'[x] = userptr[x]
    BY <1>5 DEF QbufPrepareFails, LockInv, TypeOK
  <2>2. \A i \in DOMAIN queue : queue[i] \in Buffers /\ queue[i] # b
    <3>1. state[b] = "IDLE"
      BY <1>5 DEF QbufPrepareFails, QbufChecks
    <3>2. \A i \in DOMAIN queue : queue[i] \in Buffers
      BY DEF LockInv, TypeOK
    <3> QED BY <3>1, <3>2 DEF QueueInv, MainQueueExact
  <2> QED BY <2>1, <2>2 DEF PinsValid, Target
<1>6. ASSUME NEW t \in Threads, NEW b \in Buffers, NEW a \in Addrs \cup {None},
             Qbuf(t, b, a)
      PROVE  PinsValid'
  <2>1. /\ prepared'[b] /\ userptr'[b] = a /\ UNCHANGED memory
        /\ pinned'[b] = IF MustPrepare(b, a) THEN Target(a) ELSE pinned[b]
        /\ \A x \in Buffers : x # b => /\ prepared'[x] = prepared[x]
                                       /\ pinned'[x] = pinned[x]
                                       /\ userptr'[x] = userptr[x]
    BY <1>6 DEF Qbuf, LockInv, TypeOK
  <2>2. pinned'[b] = Target(a)
    <3>1. CASE MustPrepare(b, a)
      BY <2>1, <3>1
    <3>2. CASE ~MustPrepare(b, a)
      <4>1. prepared[b] /\ pinned[b] = Target(userptr[b])
        BY <3>2 DEF MustPrepare, PinsValid
      <4>2. Target(userptr[b]) = Target(a)
        BY <3>2 DEF MustPrepare, Target, LockInv, TypeOK
      <4> QED BY <2>1, <3>2, <4>1, <4>2
    <3> QED BY <3>1, <3>2
  <2>3. \A x \in Buffers : prepared'[x] => pinned'[x] = (Target(userptr[x]))'
    BY <2>1, <2>2 DEF PinsValid, Target
  <2>4. \A i \in DOMAIN queue' : prepared'[queue'[i]]
    <3>1. queue \in Seq(Buffers) /\ queue' = Append(queue, b) /\ Len(queue) \in Nat
      BY <1>6 DEF Qbuf, LockInv, TypeOK
    <3>2. /\ DOMAIN queue = 1 .. Len(queue) /\ DOMAIN queue' = 1 .. Len(queue) + 1
          /\ queue'[Len(queue) + 1] = b
          /\ \A i \in 1 .. Len(queue) : queue'[i] = queue[i] /\ queue[i] \in Buffers
      BY <3>1, AppendQueue
    <3> QED BY <2>1, <3>1, <3>2 DEF PinsValid
  <2> QED BY <2>3, <2>4 DEF PinsValid
<1>7. ASSUME NEW t \in Threads, Dqbuf(t) \/ DqbufWakes(t)
      PROVE  PinsValid'
  <2>1. queue # <<>> /\ Dequeue(Head(queue)) /\ UNCHANGED <<prepared, pinned, userptr, memory>>
    BY <1>7 DEF Dqbuf, DqbufWakes, bufvars, LockInv, ArgValid
  <2>2. queue \in Seq(Buffers) /\ queue' = Tail(queue) /\ Len(queue) \in Nat /\ Len(queue) >= 1
    BY <2>1, WithoutHead, NonEmptyQueue DEF Dequeue, LockInv, TypeOK
  <2>3. \A i \in DOMAIN queue' : i + 1 \in DOMAIN queue /\ queue'[i] = queue[i + 1]
    BY <2>1, <2>2, NonEmptyQueue
  <2> QED BY <1>2, <2>1, <2>3
<1>8. ASSUME NEW t \in Threads, StreamonError(t) \/ StreamoffQueue(t)
      PROVE  PinsValid'
  <2>1. UNCHANGED <<prepared, pinned, userptr, memory>> /\ queue' \in {<<>>, queue}
    BY <1>8 DEF StreamonError, StreamoffQueue, QueueStreamoff, bufvars
  <2> QED BY <1>2, <2>1
<1>9. ASSUME UNCHANGED <<prepared, pinned, userptr, memory, queue>>
      PROVE  PinsValid'
  BY <1>2, <1>9
<1>10. ASSUME NEW t \in Threads,
              \/ \E b \in Buffers : Mmap(t, b) \/ Munmap(t, b)
              \/ QbufToDevice(t) \/ DqbufWait(t) \/ DqbufInterrupted(t)
              \/ PollWait(t) \/ PollTimeout(t) \/ PollAgain(t)
              \/ Streamon(t) \/ StreamonInvalid(t) \/ Streamoff(t)
              \/ StreamonQueue(t) \/ StreamonStarts(t) \/ StreamonFails(t) \/ StreamonEnd(t)
              \/ StreamoffCheck(t) \/ StreamoffStops(t)
       PROVE  PinsValid'
  BY <1>9, <1>10 DEF Mmap, Munmap, QbufToDevice, DqbufWait, DqbufInterrupted, PollWait,
     PollTimeout, PollAgain, Streamon, StreamonInvalid, Streamoff, StreamonQueue,
     StreamonStarts, StreamonFails, StreamonEnd, StreamoffCheck, StreamoffStops, bufvars
<1>11. ASSUME \/ UNCHANGED vars \/ SuspendResume
              \/ \E r \in {"DONE", "ERROR"} : BufferNext(r)
       PROVE  PinsValid'
  BY <1>9, <1>11 DEF vars, bufvars, SuspendResume, BufferNext
<1> QED
  BY <1>3, <1>4, <1>5, <1>6, <1>7, <1>8, <1>10, <1>11, WrongTypeIdle
  DEF Next, Call, Continue, Interrupt

\* No step frees a buffer that is mapped into userspace.
LEMMA StepMapped ==
  ASSUME ~WrongTypes, LockInv, MappedIsAllocated, [Next]_vars
  PROVE  MappedIsAllocated'
<1>1. ASSUME \A b \in Buffers : vma'[b] = 0
      PROVE  MappedIsAllocated'
  BY <1>1 DEF MappedIsAllocated
<1>2. ASSUME UNCHANGED <<vma, count, memory>>
      PROVE  MappedIsAllocated'
  BY <1>2 DEF MappedIsAllocated
<1>3. ASSUME NEW t \in Threads, NEW n \in 0 .. MaxBuffers,
             NEW m \in {"MMAP", "USERPTR"}, Reqbufs(t, n, m)
      PROVE  MappedIsAllocated'
  <2>1. ASSUME NEW b \in Buffers
        PROVE  vma[b] = 0
    <3>1. CASE b < count
      BY <1>3, <3>1 DEF Reqbufs, FreeAllowed
    <3>2. CASE ~(b < count)
      <4>1. ~(vma[b] > 0)
        BY <3>2 DEF MappedIsAllocated
      <4>2. vma[b] \in 0 .. MaxMaps
        BY DEF LockInv, TypeOK
      <4> QED BY <4>1, <4>2, QueueAssumption DEF QueueAssumption
    <3> QED BY <3>1, <3>2
  <2>2. vma' = vma
    BY <1>3 DEF Reqbufs
  <2> QED BY <1>1, <2>1, <2>2
<1>4. ASSUME NEW t \in Threads, NEW b \in Buffers, Mmap(t, b)
      PROVE  MappedIsAllocated'
  BY <1>4 DEF Mmap, MappedIsAllocated, LockInv, TypeOK
<1>5. ASSUME NEW t \in Threads, NEW b \in Buffers, Munmap(t, b)
      PROVE  MappedIsAllocated'
  <2>1. UNCHANGED <<count, memory>> /\ vma[b] > 0
        /\ \A x \in Buffers : x # b => vma'[x] = vma[x]
    BY <1>5 DEF Munmap, LockInv, TypeOK
  <2> QED BY <2>1 DEF MappedIsAllocated
<1>6. ASSUME Release PROVE MappedIsAllocated'
  BY <1>1, <1>6 DEF Release
<1>7. ASSUME NEW t \in Threads,
             \/ \E b \in Buffers, a \in Addrs \cup {None} :
                  Qbuf(t, b, a) \/ QbufPrepareFails(t, b, a)
             \/ QbufToDevice(t) \/ Dqbuf(t) \/ DqbufWait(t) \/ DqbufWakes(t)
             \/ DqbufInterrupted(t) \/ PollWait(t) \/ PollTimeout(t) \/ PollAgain(t)
             \/ Streamon(t) \/ StreamonInvalid(t) \/ Streamoff(t)
             \/ StreamonQueue(t) \/ StreamonStarts(t) \/ StreamonFails(t) \/ StreamonEnd(t)
             \/ StreamonError(t)
             \/ StreamoffCheck(t) \/ StreamoffStops(t) \/ StreamoffQueue(t)
      PROVE  MappedIsAllocated'
  BY <1>2, <1>7 DEF Qbuf, QbufPrepareFails, QbufToDevice, Dqbuf, DqbufWait, DqbufWakes,
     DqbufInterrupted, PollWait, PollTimeout, PollAgain, Streamon, StreamonInvalid, Streamoff,
     StreamonQueue, StreamonStarts, StreamonFails, StreamonEnd, StreamonError,
     StreamoffCheck, StreamoffStops, StreamoffQueue, bufvars
<1>8. ASSUME \/ UNCHANGED vars \/ SuspendResume
             \/ \E r \in {"DONE", "ERROR"} : BufferNext(r)
      PROVE  MappedIsAllocated'
  BY <1>2, <1>8 DEF vars, bufvars, SuspendResume, BufferNext
<1> QED
  BY <1>3, <1>4, <1>5, <1>6, <1>7, <1>8, WrongTypeIdle DEF Next, Call, Continue, Interrupt

-----------------------------------------------------------------------------
(* The safety of the queue.                                                 *)

\* The initial states satisfy the inductive invariant.
LEMMA InitInd == Init => IndInv
  BY InitLock, InitFlags, InitQueue, InitPins DEF IndInv, QueueInv

\* Every step preserves the inductive invariant.
LEMMA StepInd ==
  ASSUME ~WrongTypes, ~PartialStart, IndInv, [Next]_vars
  PROVE  IndInv'
<1>1. LockInv /\ FlagsAgree /\ QueueInv /\ PinsValid /\ MappedIsAllocated
  BY DEF IndInv, QueueInv
<1>2. LockInv'
  BY <1>1, StepLock
<1>3. FlagsAgree'
  BY <1>1, StepFlags
<1>4. QueueInv'
  BY <1>1, <1>2, StepQueue
<1>5. PinsValid' /\ MappedIsAllocated'
  BY <1>1, StepPins, StepMapped
<1> QED BY <1>2, <1>3, <1>4, <1>5 DEF IndInv, QueueInv

\* The device's targets follow from the lists and the pins.
LEMMA TargetsPinned ==
  ASSUME IndInv
  PROVE  DeviceTargetsPinned
<1> SUFFICES ASSUME hw, NEW i \in DOMAIN dmaqueue
             PROVE  /\ dmaqueue[i] < count /\ state[dmaqueue[i]] \in Pending
                    /\ prepared[dmaqueue[i]]
                    /\ pinned[dmaqueue[i]] = Target(userptr[dmaqueue[i]])
  BY DEF DeviceTargetsPinned
<1>1. streaming
  BY DEF IndInv, FlagsAgree, DriverContract
<1>2. /\ queue \in Seq(Buffers) /\ Len(queue) \in Nat /\ DOMAIN queue = 1 .. Len(queue)
      /\ Len(dmaqueue) \in Nat /\ DOMAIN dmaqueue = 1 .. Len(dmaqueue)
  BY DEF IndInv, LockInv, TypeOK
<1>3. Handed \in Int /\ Handed <= Len(queue)
  BY <1>2 DEF Handed
<1>4. Finished = Handed - Len(dmaqueue) /\ Finished >= 0
  BY <1>1 DEF IndInv, ListsAgree, Finished
<1>5. Finished + i \in DOMAIN queue /\ Finished + i > Finished
  BY <1>2, <1>3, <1>4
<1>6. dmaqueue[i] = queue[Finished + i] /\ state[queue[Finished + i]] \in Pending
  BY <1>1, <1>5 DEF IndInv, ListsAgree
<1>7. queue[Finished + i] \in Buffers
  BY <1>2, <1>5
<1> QED
  BY <1>5, <1>6, <1>7 DEF IndInv, MainQueueExact, PinsValid

\* The safety of the buffers queue, for every number of threads, buffers and
\* addresses: the locks exclude, the two lists of buffers agree and hold
\* exactly the buffers userspace does not own, the device is given only
\* pinned memory of existing buffers and never runs over a queue that does
\* not stream, and no mapped buffer is freed.
THEOREM QueueSafety ==
  ASSUME ~WrongTypes, ~PartialStart
  PROVE  Spec => []( /\ TypeOK /\ QueueLockOwned /\ StreamLockOwned
                     /\ MainQueueExact /\ ListsAgree
                     /\ DeviceTargetsPinned /\ DriverContract /\ MappedIsAllocated )
<1>1. Init => IndInv
  BY InitInd
<1>2. IndInv /\ [Next]_vars => IndInv'
  BY StepInd
<1>3. IndInv => /\ TypeOK /\ QueueLockOwned /\ StreamLockOwned
                /\ MainQueueExact /\ ListsAgree
                /\ DeviceTargetsPinned /\ DriverContract /\ MappedIsAllocated
  BY TargetsPinned DEF IndInv, LockInv, FlagsAgree
<1> QED BY <1>1, <1>2, <1>3, PTL DEF Spec

\* The IRQ queue stays the unfinished tail of the main queue, in order.
THEOREM ListsNeverDrift ==
  ASSUME ~WrongTypes, ~PartialStart PROVE Spec => []ListsAgree
<1>1. Init => IndInv
  BY InitInd
<1>2. IndInv /\ [Next]_vars => IndInv'
  BY StepInd
<1>3. IndInv => ListsAgree
  BY DEF IndInv
<1> QED BY <1>1, <1>2, <1>3, PTL DEF Spec

\* The device is never given memory that is not pinned for it.
THEOREM DmaTargetsPinned ==
  ASSUME ~WrongTypes, ~PartialStart PROVE Spec => []DeviceTargetsPinned
<1>1. Init => IndInv
  BY InitInd
<1>2. IndInv /\ [Next]_vars => IndInv'
  BY StepInd
<1> QED BY <1>1, <1>2, TargetsPinned, PTL DEF Spec

\* The main queue holds exactly the buffers userspace has given away.
THEOREM QueueHoldsWhatWasGiven ==
  ASSUME ~WrongTypes, ~PartialStart PROVE Spec => []MainQueueExact
<1>1. Init => IndInv
  BY InitInd
<1>2. IndInv /\ [Next]_vars => IndInv'
  BY StepInd
<1>3. IndInv => MainQueueExact
  BY DEF IndInv
<1> QED BY <1>1, <1>2, <1>3, PTL DEF Spec

\* The device only runs over a queue and a node that stream.
THEOREM DeviceRunsOnStreams ==
  ASSUME ~WrongTypes, ~PartialStart PROVE Spec => []DriverContract
<1>1. Init => IndInv
  BY InitInd
<1>2. IndInv /\ [Next]_vars => IndInv'
  BY StepInd
<1>3. IndInv => DriverContract
  BY DEF IndInv, FlagsAgree
<1> QED BY <1>1, <1>2, <1>3, PTL DEF Spec

-----------------------------------------------------------------------------
(* Sleepers in poll().                                                      *)

\* When the first buffer is unfinished, so is every queued one.
LEMMA NothingFinished ==
  ASSUME IndInv, queue # <<>>, state[Head(queue)] \in Pending
  PROVE  \A b \in Buffers : state[b] \notin {"DONE", "ERROR"}
<1>1. /\ queue \in Seq(Buffers) /\ Len(queue) \in Nat /\ Len(dmaqueue) \in Nat
      /\ DOMAIN queue = 1 .. Len(queue) /\ Len(queue) >= 1 /\ Head(queue) = queue[1]
  BY NonEmptyQueue DEF IndInv, LockInv, TypeOK
<1>2. \A i \in DOMAIN queue : state[queue[i]] \in Pending
  <2>1. CASE streaming
    <3>1. Finished \in Int
      BY <1>1 DEF Finished, Handed
    <3>2. 1 > Finished
      BY <1>1, <2>1 DEF IndInv, ListsAgree
    <3> QED BY <1>1, <2>1, <3>1, <3>2 DEF IndInv, ListsAgree
  <2>2. CASE ~streaming
    BY <2>2 DEF IndInv, NothingDoneYet
  <2> QED BY <2>1, <2>2
<1>3. \A b \in Buffers : state[b] # "IDLE" => \E i \in DOMAIN queue : queue[i] = b
  BY DEF IndInv, MainQueueExact
<1> QED BY <1>2, <1>3 DEF Pending

\* A step that finishes no buffer and puts nobody to sleep passes nobody over.
LEMMA SleepFrame ==
  ASSUME TypeOK, SleepersWoken,
         \A u \in Threads : pc'[u] = "poll" => pc[u] = "poll" /\ arg'[u] \in {None, arg[u]},
         \A b \in Buffers : state'[b] \in {"DONE", "ERROR"} => state[b] = state'[b]
  PROVE  SleepersWoken'
<1> SUFFICES ASSUME NEW u \in Threads, pc'[u] = "poll", arg'[u] # None
             PROVE  state'[arg'[u]] \notin {"DONE", "ERROR"}
  BY DEF SleepersWoken, Asleep
<1>1. pc[u] = "poll" /\ arg'[u] = arg[u] /\ arg[u] \in Buffers
  BY DEF TypeOK
<1> QED BY <1>1 DEF SleepersWoken, Asleep

\* Nobody is passed over by a step, one case per kind of action.
LEMMA StepSleepers ==
  ASSUME ~WrongTypes, ~PartialStart, IndInv, SleepersWoken, [Next]_vars
  PROVE  SleepersWoken'
<1> USE QueueAssumption DEF QueueAssumption
<1>0. TypeOK
  BY DEF IndInv, LockInv
<1>1. ASSUME NEW t \in Threads, PollWait(t)
      PROVE  SleepersWoken'
  <2>1. UNCHANGED state /\ state[Head(queue)] \in Pending
        /\ pc' = [pc EXCEPT ![t] = "poll"] /\ arg' = [arg EXCEPT ![t] = Head(queue)]
    BY <1>1 DEF PollWait, Goto
  <2> QED BY <1>0, <2>1 DEF SleepersWoken, Asleep, Pending, TypeOK
<1>2. ASSUME NEW t \in Threads, PollAgain(t)
      PROVE  SleepersWoken'
  <2>1. CASE queue # <<>> /\ state[Head(queue)] \in Pending
    <3>1. \A b \in Buffers : state[b] \notin {"DONE", "ERROR"}
      BY <2>1, NothingFinished
    <3>2. UNCHANGED state /\ arg' \in [Threads -> Buffers \cup {None}]
      BY <1>0, <1>2 DEF PollAgain, Goto, TypeOK
    <3> QED BY <3>1, <3>2 DEF SleepersWoken, Asleep
  <2>2. CASE ~(queue # <<>> /\ state[Head(queue)] \in Pending)
    <3>1. UNCHANGED state /\ Goto(t, "user", None)
      BY <1>2, <2>2 DEF PollAgain
    <3>2. \A u \in Threads : pc'[u] = "poll" => pc[u] = "poll" /\ arg'[u] \in {None, arg[u]}
      BY <1>0, <3>1 DEF Goto, TypeOK
    <3> QED BY <1>0, <3>1, <3>2, SleepFrame
  <2> QED BY <2>1, <2>2
<1>3. ASSUME NEW r \in {"DONE", "ERROR"}, hw, BufferNext(r)
      PROVE  SleepersWoken'
  <2> SUFFICES ASSUME NEW u \in Threads, pc'[u] = "poll", arg'[u] # None
               PROVE  state'[arg'[u]] \notin {"DONE", "ERROR"}
    BY DEF SleepersWoken, Asleep
  <2>1. arg'[u] = arg[u] /\ arg[u] \in Buffers
    BY <1>0, <1>3 DEF BufferNext, TypeOK
  <2>2. pc[u] = "poll" /\ arg[u] # Head(dmaqueue)
    BY <1>3 DEF BufferNext, WakeUp
  <2>3. state[arg[u]] \notin {"DONE", "ERROR"}
    BY <2>1, <2>2 DEF SleepersWoken, Asleep
  <2>4. state'[arg[u]] \in {"ACTIVE", state[arg[u]]}
    BY <1>3, <2>1, <2>2 DEF BufferNext
  <2> QED BY <2>1, <2>3, <2>4
<1>4. ASSUME SuspendResume \/ Release
      PROVE  SleepersWoken'
  BY <1>4 DEF SuspendResume, Release, SleepersWoken, Asleep
<1>5. ASSUME UNCHANGED vars
      PROVE  SleepersWoken'
  BY <1>5 DEF vars, SleepersWoken, Asleep
<1>6. ASSUME NEW t \in Threads,
             \/ \E n \in 0 .. MaxBuffers, m \in {"MMAP", "USERPTR"} : Reqbufs(t, n, m)
             \/ \E b \in Buffers, a \in Addrs \cup {None} : Qbuf(t, b, a)
             \/ Dqbuf(t) \/ DqbufWakes(t)
             \/ StreamonError(t) \/ StreamoffQueue(t)
      PROVE  SleepersWoken'
  <2>1. \A u \in Threads : pc'[u] = "poll" => pc[u] = "poll" /\ arg'[u] \in {None, arg[u]}
    BY <1>0, <1>6 DEF Reqbufs, Qbuf, Dqbuf, DqbufWakes, StreamonError, StreamoffQueue,
       QueueStreamoff, Goto, TypeOK
  <2>2. \A b \in Buffers : state'[b] \in {"DONE", "ERROR"} => state[b] = state'[b]
    BY <1>0, <1>6 DEF Reqbufs, FreeAndAlloc, Qbuf, Dqbuf, DqbufWakes, Dequeue, StreamonError,
       StreamoffQueue, QueueStreamoff, Goto, TypeOK
  <2> QED BY <1>0, <2>1, <2>2, SleepFrame
<1>7. ASSUME NEW t \in Threads,
             \/ \E b \in Buffers : Mmap(t, b) \/ Munmap(t, b)
             \/ \E b \in Buffers, a \in Addrs \cup {None} : QbufPrepareFails(t, b, a)
             \/ QbufToDevice(t) \/ DqbufWait(t) \/ DqbufInterrupted(t) \/ PollTimeout(t)
             \/ Streamon(t) \/ StreamonInvalid(t) \/ Streamoff(t)
             \/ StreamonQueue(t) \/ StreamonStarts(t) \/ StreamonFails(t) \/ StreamonEnd(t)
             \/ StreamoffCheck(t) \/ StreamoffStops(t)
      PROVE  SleepersWoken'
  <2>1. UNCHANGED state
    BY <1>7 DEF Mmap, Munmap, QbufPrepareFails, QbufToDevice, DqbufWait, DqbufInterrupted,
       PollTimeout, Streamon, StreamonInvalid, Streamoff, StreamonQueue, StreamonStarts,
       StreamonFails, StreamonEnd, StreamoffCheck, StreamoffStops
  <2>2. \A u \in Threads : pc'[u] = "poll" => pc[u] = "poll" /\ arg'[u] \in {None, arg[u]}
    BY <1>0, <1>7 DEF Mmap, Munmap, QbufPrepareFails, QbufToDevice, DqbufWait, DqbufInterrupted,
       PollTimeout, Streamon, StreamonInvalid, Streamoff, StreamonQueue, StreamonStarts,
       StreamonFails, StreamonEnd, StreamoffCheck, StreamoffStops, Goto, TypeOK
  <2> QED BY <1>0, <2>1, <2>2, SleepFrame
<1> QED
  BY <1>1, <1>2, <1>3, <1>4, <1>5, <1>6, <1>7, WrongTypeIdle
  DEF Next, Call, Continue, Interrupt

\* Nobody sleeps in poll() on a buffer that was completed meanwhile: the second
\* look at the queue, without a poll table, costs no wake-up of the buffer the
\* thread is registered on, for every number of threads and buffers.
THEOREM SleepersNotPassedOver ==
  ASSUME ~WrongTypes, ~PartialStart PROVE Spec => []SleepersWoken
<1>1. Init => IndInv /\ SleepersWoken
  BY InitInd DEF Init, SleepersWoken, Asleep
<1>2. IndInv /\ SleepersWoken /\ [Next]_vars => IndInv' /\ SleepersWoken'
  BY StepInd, StepSleepers
<1> QED BY <1>1, <1>2, PTL DEF Spec
=============================================================================
