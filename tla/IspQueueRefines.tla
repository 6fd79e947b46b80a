-------------------------- MODULE IspQueueRefines ---------------------------
(***************************************************************************)
(* The proof that the buffers queue, with its two lists, its locks and its *)
(* interrupt handler, implements the FIFO of VideoFifo.                    *)
(***************************************************************************)
EXTENDS IspQueueProofs, SequenceTheorems

\* The FIFO a client sees in the main queue.
View == [i \in DOMAIN queue |->
           [buf |-> queue[i], ready |-> state[queue[i]] \notin Pending]]

Entry == [buf : Buffers, ready : BOOLEAN]

\* The FIFO seen in the main queue is a sequence as long as that queue.
LEMMA ViewIsSeq ==
  ASSUME queue \in Seq(Buffers)
  PROVE  /\ View \in Seq(Entry) /\ Len(View) = Len(queue)
         /\ DOMAIN View = 1 .. Len(queue) /\ Len(queue) \in Nat
<1>1. DOMAIN queue = 1 .. Len(queue) /\ Len(queue) \in Nat
  OBVIOUS
<1>2. \A i \in 1 .. Len(queue) :
        [buf |-> queue[i], ready |-> state[queue[i]] \notin Pending] \in Entry
  BY DEF Entry
<1>3. View \in [1 .. Len(queue) -> Entry]
  BY <1>1, <1>2 DEF View
<1> QED BY <1>1, <1>3

\* The same in the next state.
LEMMA ViewIsSeqNext ==
  ASSUME queue' \in Seq(Buffers)
  PROVE  View' \in Seq(Entry) /\ Len(View') = Len(queue')
<1>1. DOMAIN queue' = 1 .. Len(queue') /\ Len(queue') \in Nat
  OBVIOUS
<1>2. \A i \in 1 .. Len(queue') :
        [buf |-> queue'[i], ready |-> state'[queue'[i]] \notin Pending] \in Entry
  BY DEF Entry
<1>3. View' \in [1 .. Len(queue') -> Entry]
  BY <1>1, <1>2 DEF View
<1> QED BY <1>1, <1>3

\* Steps that neither move a queued buffer nor finish one.
LEMMA ViewFrame ==
  ASSUME queue \in Seq(Buffers), queue' = queue,
         \A b \in Buffers : state'[b] \in Pending <=> state[b] \in Pending
  PROVE  View' = View
<1>1. \A i \in DOMAIN queue : queue[i] \in Buffers
  OBVIOUS
<1>2. \A i \in DOMAIN queue :
        (state'[queue[i]] \notin Pending) = (state[queue[i]] \notin Pending)
  BY <1>1
<1> QED BY <1>2 DEF View

\* An emptied main queue (STREAMOFF, REQBUFS, close) is an empty FIFO.
LEMMA ViewEmpty ==
  ASSUME queue' = <<>>
  PROVE  View' = <<>>
  BY DEF View

\* QBUF appends an entry that is not ready.
LEMMA ViewPut ==
  ASSUME queue \in Seq(Buffers), NEW b \in Buffers, queue' = Append(queue, b),
         \A i \in DOMAIN queue : queue[i] # b,
         state' = [state EXCEPT ![b] = "QUEUED"], state \in [Buffers -> BufferState]
  PROVE  View' = Append(View, [buf |-> b, ready |-> FALSE])
<1>1. /\ View \in Seq(Entry) /\ Len(View) = Len(queue) /\ Len(queue) \in Nat
      /\ DOMAIN queue = 1 .. Len(queue)
  BY ViewIsSeq
<1>2. /\ DOMAIN queue' = 1 .. Len(queue) + 1 /\ queue'[Len(queue) + 1] = b
      /\ \A i \in 1 .. Len(queue) : queue'[i] = queue[i] /\ queue[i] \in Buffers
  BY <1>1, AppendQueue
<1>3. state'[b] = "QUEUED" /\ \A x \in Buffers : x # b => state'[x] = state[x]
  OBVIOUS
<1>4. \A i \in 1 .. Len(queue) : View'[i] = View[i]
  BY <1>1, <1>2, <1>3 DEF View
<1>5. View'[Len(queue) + 1] = [buf |-> b, ready |-> FALSE]
  <2>1. (state'[b] \notin Pending) = FALSE
    BY <1>3 DEF Pending
  <2>2. Len(queue) + 1 \in DOMAIN queue'
    BY <1>1, <1>2
  <2>3. View'[Len(queue) + 1] = [buf |-> b, ready |-> state'[b] \notin Pending]
    BY <1>2, <2>2 DEF View
  <2> QED BY <2>1, <2>3
<1>6. [buf |-> b, ready |-> FALSE] \in Entry
  BY DEF Entry
<1>7. View' = [i \in 1 .. Len(queue) + 1 |-> View'[i]]
  BY <1>2 DEF View
<1>8. Append(View, [buf |-> b, ready |-> FALSE])
        = [i \in 1 .. Len(queue) + 1 |-> IF i = Len(queue) + 1
                                         THEN [buf |-> b, ready |-> FALSE] ELSE View[i]]
  BY <1>1, <1>6
<1> QED BY <1>1, <1>4, <1>5, <1>7, <1>8

\* DQBUF of the first buffer removes the first entry.
LEMMA ViewTake ==
  ASSUME queue \in Seq(Buffers), queue # <<>>, Dequeue(Head(queue)),
         state \in [Buffers -> BufferState], state[Head(queue)] \notin Pending,
         \A i, j \in DOMAIN queue : queue[i] = queue[j] => i = j
  PROVE  View # <<>> /\ Head(View).ready /\ View' = Tail(View)
<1>1. /\ View \in Seq(Entry) /\ Len(View) = Len(queue) /\ Len(queue) \in Nat
      /\ DOMAIN queue = 1 .. Len(queue) /\ Len(queue) >= 1
      /\ Head(queue) = queue[1] /\ queue[1] \in Buffers
  BY ViewIsSeq, NonEmptyQueue
<1>2. /\ queue' = Tail(queue) /\ DOMAIN queue' = 1 .. Len(queue) - 1
      /\ \A i \in 1 .. Len(queue) - 1 :
           queue'[i] = queue[i + 1] /\ queue[i + 1] \in Buffers /\ queue[i + 1] # queue[1]
  <2>1. queue' = Tail(queue)
    BY WithoutHead DEF Dequeue
  <2>2. /\ DOMAIN queue' = 1 .. Len(queue) - 1
        /\ \A i \in 1 .. Len(queue) - 1 : queue'[i] = queue[i + 1]
    BY <1>1, <2>1, NonEmptyQueue
  <2>3. \A i \in 1 .. Len(queue) - 1 :
          i + 1 \in DOMAIN queue /\ queue[i + 1] \in Buffers /\ i + 1 # 1 /\ 1 \in DOMAIN queue
    BY <1>1
  <2>4. \A i \in 1 .. Len(queue) - 1 : queue[i + 1] # queue[1]
    BY <2>3
  <2> QED BY <2>1, <2>2, <2>3, <2>4
<1>3. \A x \in Buffers : x # queue[1] => state'[x] = state[x]
  BY <1>1 DEF Dequeue
<1>4. View # <<>> /\ Head(View) = View[1]
  BY <1>1
<1>5. Head(View).ready
  <2>1. 1 \in DOMAIN queue /\ (state[queue[1]] \notin Pending) = TRUE
    BY <1>1
  <2>2. View[1] = [buf |-> queue[1], ready |-> TRUE]
    BY <2>1 DEF View
  <2>3. View[1].ready = TRUE
    BY <2>2
  <2> QED BY <1>4, <2>3
<1>6. \A i \in 1 .. Len(queue) - 1 : View'[i] = View[i + 1]
  BY <1>1, <1>2, <1>3 DEF View
<1>7. View' \in Seq(Entry) /\ Len(View') = Len(queue) - 1
  <2>1. queue' \in Seq(Buffers) /\ Len(queue') = Len(queue) - 1
    BY <1>2, NonEmptyQueue
  <2> QED BY <2>1, ViewIsSeqNext
<1>8. /\ Tail(View) \in Seq(Entry) /\ Len(Tail(View)) = Len(queue) - 1
      /\ \A i \in 1 .. Len(queue) - 1 : Tail(View)[i] = View[i + 1]
  BY <1>1, <1>4, HeadTailProperties
<1>9. View' = Tail(View)
  BY <1>6, <1>7, <1>8, SeqEqual
<1> QED BY <1>4, <1>5, <1>9

\* One more buffer at position k is finished.
LEMMA ViewComplete ==
  ASSUME queue \in Seq(Buffers), queue' = queue, NEW k \in DOMAIN queue,
         \A i \in DOMAIN queue : state[queue[i]] \in Pending <=> i >= k,
         \A i \in DOMAIN queue : state'[queue[i]] \in Pending <=> i > k
  PROVE  /\ k \in DOMAIN View /\ ~View[k].ready
         /\ \A j \in 1 .. k - 1 : View[j].ready
         /\ View' = [View EXCEPT ![k] = [buf |-> View[k].buf, ready |-> TRUE]]
<1>1. DOMAIN View = DOMAIN queue /\ DOMAIN queue = 1 .. Len(queue) /\ Len(queue) \in Nat
  BY ViewIsSeq
<1>2. \A i \in DOMAIN queue : View[i] = [buf |-> queue[i], ready |-> state[queue[i]] \notin Pending]
  BY DEF View
<1>3. View[k] = [buf |-> queue[k], ready |-> FALSE]
  <2>1. (state[queue[k]] \notin Pending) = FALSE
    BY <1>1
  <2> QED BY <1>2, <2>1
<1>4. ~View[k].ready
  <2>1. View[k].ready = FALSE
    BY <1>3
  <2> QED BY <2>1
<1>5. ASSUME NEW j \in 1 .. k - 1 PROVE View[j].ready
  <2>1. j \in DOMAIN queue /\ (state[queue[j]] \notin Pending) = TRUE
    BY <1>1
  <2>2. View[j] = [buf |-> queue[j], ready |-> TRUE]
    BY <1>2, <2>1
  <2>3. View[j].ready = TRUE
    BY <2>2
  <2> QED BY <2>3
<1>6. \A i \in DOMAIN queue : View'[i] = [buf |-> queue[i], ready |-> state'[queue[i]] \notin Pending]
  BY DEF View
<1>7. View'[k] = [buf |-> View[k].buf, ready |-> TRUE]
  <2>1. (state'[queue[k]] \notin Pending) = TRUE
    BY <1>1
  <2>2. View'[k] = [buf |-> queue[k], ready |-> TRUE]
    BY <1>6, <2>1
  <2>3. View[k].buf = queue[k]
    BY <1>3
  <2> QED BY <2>2, <2>3
<1>8. \A i \in DOMAIN queue : i # k => View'[i] = View[i]
  <2>1. \A i \in DOMAIN queue :
          i # k => (state'[queue[i]] \notin Pending) = (state[queue[i]] \notin Pending)
    BY <1>1
  <2> QED BY <1>2, <1>6, <2>1
<1>9. View' = [i \in DOMAIN queue |-> View'[i]] /\ View = [i \in DOMAIN queue |-> View[i]]
  BY DEF View
<1> QED BY <1>1, <1>4, <1>5, <1>7, <1>8, <1>9

-----------------------------------------------------------------------------
(* Each step of the queue is a step of the FIFO or leaves it alone.         *)

\* A freshly opened handle is an empty FIFO that does not stream.
LEMMA FifoInit == Init => Fifo!Init
  BY DEF Init, Fifo!Init

\* The FIFO's variables, as the instance sees them.
LEMMA FifoStutter ==
  ASSUME View' = View, streaming' = streaming
  PROVE  UNCHANGED Fifo!fvars
  BY DEF View, Fifo!fvars

\* Emptying a queue that does not stream any more is Stop of the FIFO.
LEMMA FifoStop ==
  ASSUME View' = <<>>, ~streaming', streaming' \in BOOLEAN
  PROVE  Fifo!Next
<1>1. Fifo!Stop
  BY DEF Fifo!Stop, View
<1> QED BY <1>1 DEF Fifo!Next

\* Every step of the queue is a step of the FIFO or leaves it unchanged.
LEMMA FifoStep ==
  ASSUME ~WrongTypes, IndInv, IndInv', [Next]_vars
  PROVE  [Fifo!Next]_(Fifo!fvars)
<1>1. /\ queue \in Seq(Buffers) /\ state \in [Buffers -> BufferState]
      /\ streaming \in BOOLEAN /\ streaming' \in BOOLEAN
      /\ \A i, j \in DOMAIN queue : queue[i] = queue[j] => i = j
  BY DEF IndInv, LockInv, TypeOK, MainQueueExact
<1>2. ASSUME UNCHANGED <<queue, state, streaming>>
      PROVE  UNCHANGED Fifo!fvars
  BY <1>1, <1>2, ViewFrame, FifoStutter
<1>3. ASSUME NEW t \in Threads, NEW n \in 0 .. MaxBuffers,
             NEW m \in {"MMAP", "USERPTR"}, Reqbufs(t, n, m)
      PROVE  Fifo!Next
  <2>1. queue' = <<>> /\ ~streaming'
    BY <1>3 DEF Reqbufs, FreeAndAlloc, FreeAllowed
  <2> QED BY <1>1, <2>1, ViewEmpty, FifoStop
<1>4. ASSUME Release PROVE Fifo!Next
  <2>1. queue' = <<>> /\ ~streaming'
    BY <1>4 DEF Release, FreeAndAlloc
  <2> QED BY <1>1, <2>1, ViewEmpty, FifoStop
<1>5. ASSUME NEW t \in Threads, NEW b \in Buffers, NEW a \in Addrs \cup {None}, Qbuf(t, b, a)
      PROVE  Fifo!Next
  <2>1. /\ queue' = Append(queue, b) /\ state' = [state EXCEPT ![b] = "QUEUED"]
        /\ streaming' = streaming /\ state[b] = "IDLE"
    BY <1>5 DEF Qbuf, QbufChecks
  <2>2. \A i \in DOMAIN queue : queue[i] # b
    BY <2>1 DEF IndInv, MainQueueExact
  <2>3. View' = Append(View, [buf |-> b, ready |-> FALSE])
    BY <1>1, <2>1, <2>2, ViewPut
  <2>4. \A i \in DOMAIN View : View[i].buf # b
    BY <2>2 DEF View
  <2>5. Fifo!Put(b)
    BY <2>1, <2>3, <2>4 DEF Fifo!Put, View
  <2> QED BY <2>5 DEF Fifo!Next
<1>6. ASSUME NEW t \in Threads, Dqbuf(t) \/ DqbufWakes(t)
      PROVE  Fifo!Next
  <2>1. /\ queue # <<>> /\ Dequeue(Head(queue)) /\ streaming' = streaming
        /\ state[Head(queue)] \notin Pending
    BY <1>6 DEF Dqbuf, DqbufWakes, IndInv, LockInv, ArgValid
  <2>2. View # <<>> /\ Head(View).ready /\ View' = Tail(View)
    BY <1>1, <2>1, ViewTake
  <2>3. Fifo!Take
    BY <2>1, <2>2 DEF Fifo!Take, View
  <2> QED BY <2>3 DEF Fifo!Next
<1>7. ASSUME NEW t \in Threads, StreamonQueue(t)
      PROVE  Fifo!Next
  <2>1. UNCHANGED <<queue, state>> /\ streaming' = TRUE
    BY <1>7 DEF StreamonQueue
  <2>2. View' = View
    BY <1>1, <2>1, ViewFrame
  <2>3. Fifo!Start
    BY <2>1, <2>2 DEF Fifo!Start, View
  <2> QED BY <2>3 DEF Fifo!Next
<1>8. ASSUME NEW t \in Threads, StreamonError(t) \/ StreamoffQueue(t)
      PROVE  [Fifo!Next]_(Fifo!fvars)
  <2>1. QueueStreamoff(t)
    BY <1>8 DEF StreamonError, StreamoffQueue
  <2>2. CASE streaming
    <3>1. queue' = <<>> /\ ~streaming'
      BY <2>1, <2>2 DEF QueueStreamoff
    <3> QED BY <1>1, <3>1, ViewEmpty, FifoStop
  <2>3. CASE ~streaming
    <3>1. UNCHANGED <<queue, state, streaming>>
      BY <2>1, <2>3 DEF QueueStreamoff
    <3> QED BY <1>2, <3>1
  <2> QED BY <2>2, <2>3
<1>9. ASSUME NEW r \in {"DONE", "ERROR"}, hw, BufferNext(r)
      PROVE  Fifo!Next
  <2>1. /\ streaming /\ UNCHANGED <<queue, streaming>>
    BY <1>9 DEF BufferNext, IndInv, FlagsAgree, DriverContract
  <2>2. /\ Finished \in Int /\ Finished' = Finished + 1 /\ Finished + 1 \in DOMAIN queue
    BY <1>9, CompletesNext DEF IndInv, QueueInv
  <2>3. \A i \in DOMAIN queue : state[queue[i]] \in Pending <=> i > Finished
    BY <2>1 DEF IndInv, ListsAgree
  <2>4. \A i \in DOMAIN queue : state'[queue[i]] \in Pending <=> i > Finished'
    BY <2>1 DEF IndInv, ListsAgree
  <2>5. \A i \in DOMAIN queue : i \in Int
    BY <1>1
  <2>6. \A i \in DOMAIN queue : i > Finished <=> i >= Finished + 1
    BY <2>2, <2>5
  <2> DEFINE k == Finished + 1
  <2>7. /\ k \in DOMAIN View /\ ~View[k].ready
        /\ \A j \in 1 .. k - 1 : View[j].ready
        /\ View' = [View EXCEPT ![k] = [buf |-> View[k].buf, ready |-> TRUE]]
    <3>1. /\ \A i \in DOMAIN queue : state[queue[i]] \in Pending <=> i >= k
          /\ \A i \in DOMAIN queue : state'[queue[i]] \in Pending <=> i > k
      BY <2>2, <2>3, <2>4, <2>6
    <3>2. k \in DOMAIN queue
      BY <2>2
    <3> HIDE DEF k
    <3> QED BY <1>1, <2>1, <3>1, <3>2, ViewComplete
  <2> HIDE DEF k
  <2>8. Fifo!Complete
    BY <2>1, <2>7 DEF Fifo!Complete, View
  <2> QED BY <2>8 DEF Fifo!Next
<1>10. ASSUME SuspendResume PROVE UNCHANGED Fifo!fvars
  <2>1. /\ UNCHANGED <<queue, streaming>>
        /\ \A b \in Buffers : state'[b] \in Pending <=> state[b] \in Pending
    BY <1>10 DEF SuspendResume, Pending
  <2> QED BY <1>1, <2>1, ViewFrame, FifoStutter
<1>11. ASSUME NEW t \in Threads,
              \/ \E b \in Buffers : Mmap(t, b) \/ Munmap(t, b)
              \/ \E b \in Buffers, a \in Addrs \cup {None} : QbufPrepareFails(t, b, a)
              \/ QbufToDevice(t) \/ DqbufWait(t) \/ DqbufInterrupted(t)
              \/ PollWait(t) \/ PollTimeout(t) \/ PollAgain(t)
              \/ Streamon(t) \/ StreamonInvalid(t) \/ Streamoff(t)
              \/ StreamonStarts(t) \/ StreamonFails(t) \/ StreamonEnd(t)
              \/ StreamoffCheck(t) \/ StreamoffStops(t)
       PROVE  UNCHANGED Fifo!fvars
  BY <1>2, <1>11 DEF Mmap, Munmap, QbufPrepareFails, QbufToDevice, DqbufWait,
     DqbufInterrupted, PollWait, PollTimeout, PollAgain, Streamon, StreamonInvalid, Streamoff,
     StreamonStarts, StreamonFails, StreamonEnd, StreamoffCheck, StreamoffStops
<1>12. ASSUME UNCHANGED vars PROVE UNCHANGED Fifo!fvars
  BY <1>2, <1>12 DEF vars
<1> QED
  BY <1>3, <1>4, <1>5, <1>6, <1>7, <1>8, <1>9, <1>10, <1>11, <1>12, WrongTypeIdle
  DEF Next, Call, Continue, Interrupt

\* A client of the queue sees a FIFO: in-order completion, in-order return.
THEOREM QueueIsFifo ==
  ASSUME ~WrongTypes, ~PartialStart PROVE Spec => ImplementsFifo
<1>1. Init => IndInv
  BY InitInd
<1>2. IndInv /\ [Next]_vars => IndInv'
  BY StepInd
<1>3. Init => Fifo!Init
  BY FifoInit
<1>4. IndInv /\ IndInv' /\ [Next]_vars => [Fifo!Next]_(Fifo!fvars)
  BY FifoStep
<1> QED BY <1>1, <1>2, <1>3, <1>4, PTL DEF Spec, ImplementsFifo, Fifo!Spec
=============================================================================
