------------------------------ MODULE IspQueue ------------------------------
(***************************************************************************)
(* The video buffers queue of the OMAP3 ISP driver (ispqueue.c), driven    *)
(* by one open file handle of a capture video node (ispvideo.c).           *)
(*                                                                         *)
(* Threads of the application call the V4L2 ioctls concurrently.  The      *)
(* kernel is uniprocessor and preemptible, so threads interleave anywhere  *)
(* outside a spinlock, while an interrupt handler is atomic with respect   *)
(* to thread code and runs anywhere outside an irqsave section.  A step    *)
(* below is a stretch of code that no other actor can split observably:    *)
(* what runs under queue->lock without sleeping on something another       *)
(* actor provides, or what runs under queue->irqlock.                      *)
(*                                                                         *)
(* The modules behind the node are abstracted to hw: whether an interrupt  *)
(* handler may still complete buffers.  Module IspCapture opens it up.     *)
(***************************************************************************)
EXTENDS Integers, Sequences, FiniteSets

CONSTANTS
  Threads,      \* threads of the application sharing the file handle
  MaxBuffers,   \* ISP_VIDEO_MAX_BUFFERS
  Addrs,        \* userspace addresses a client passes for USERPTR buffers
  MaxMaps,      \* bound: simultaneous mappings of one buffer
  Modes,        \* DQBUF modes in use: "blocking", "nonblocking"
  WrongTypes,   \* whether a QBUF with a wrong type may come while queue->lock is held
  PartialStart, \* whether a failed pipeline start may leave modules running
  None          \* no thread, no buffer, no address

ASSUME QueueAssumption ==
  /\ MaxBuffers \in Nat \ {0}
  /\ MaxMaps \in Nat
  /\ None \notin Threads
  /\ None \notin Addrs
  /\ None \notin Nat
  /\ "kernel" \notin Addrs
  /\ WrongTypes \in BOOLEAN /\ PartialStart \in BOOLEAN

VARIABLES
  count,      \* queue->count
  memory,     \* buf->vbuf.memory, the same for every allocated buffer
  state,      \* buf->state
  vma,        \* buf->vma_use_count
  userptr,    \* buf->vbuf.m.userptr
  prepared,   \* buf->prepared
  pinned,     \* what the scatter list, DMA and IOMMU mappings refer to
  queue,      \* queue->queue, the main queue
  streaming,  \* queue->streaming
  lock,       \* owner of queue->lock
  dmaqueue,   \* video->dmaqueue, the IRQ queue
  stream_lock,\* owner of video->stream_lock
  vstreaming, \* video->streaming
  hw,         \* the pipeline runs: its interrupts may complete buffers
  pc,         \* where in the driver each thread is
  arg         \* the buffer its call is about

bufvars == <<count, memory, vma, userptr, prepared, pinned>>
nodevars == <<stream_lock, vstreaming, hw>>
vars == <<bufvars, state, queue, streaming, lock, dmaqueue, nodevars, pc, arg>>

-----------------------------------------------------------------------------
Buffers == 0 .. MaxBuffers - 1

\* enum isp_video_buffer_state
BufferState == {"IDLE", "QUEUED", "ACTIVE", "ERROR", "DONE"}

\* With the device, or waiting for it: what DQBUF and poll wait to end.
Pending == {"QUEUED", "ACTIVE"}

PC == {"user", "qbuf", "dqbuf", "poll", "repoll",
       "streamon_queue", "streamon_hw", "streamon_end", "streamon_error",
       "streamoff_check", "streamoff_hw", "streamoff_queue"}

\* Places where the thread is inside queue->lock / video->stream_lock.
InQueueLock == {"qbuf", "dqbuf"}
InStreamLock == {"streamon_queue", "streamon_hw", "streamon_end",
                 "streamon_error", "streamoff_check", "streamoff_hw",
                 "streamoff_queue"}

Init ==
  /\ count = 0
  /\ memory = "MMAP"
  /\ state = [b \in Buffers |-> "IDLE"]
  /\ vma = [b \in Buffers |-> 0]
  /\ userptr = [b \in Buffers |-> None]
  /\ prepared = [b \in Buffers |-> FALSE]
  /\ pinned = [b \in Buffers |-> None]
  /\ queue = <<>>
  /\ streaming = FALSE
  /\ lock = None
  /\ dmaqueue = <<>>
  /\ stream_lock = None
  /\ vstreaming = FALSE
  /\ hw = FALSE
  /\ pc = [t \in Threads |-> "user"]
  /\ arg = [t \in Threads |-> None]

Goto(t, l, b) ==
  /\ pc' = [pc EXCEPT ![t] = l]
  /\ arg' = [arg EXCEPT ![t] = b]

\* mutex_lock(&queue->lock) succeeds only on a free mutex.
LockFree == lock = None

-----------------------------------------------------------------------------
(* Allocation: VIDIOC_REQBUFS, mmap(), munmap().                           *)

\* Mutant: one buffer too many is allocated.
FreeAndAllocOneMore(n, m) ==
  /\ count' = n + 1
  /\ memory' = IF n = 0 THEN memory ELSE m
  /\ state' = [b \in Buffers |-> "IDLE"]
  /\ userptr' = [b \in Buffers |-> None]
  /\ prepared' = [b \in Buffers |-> FALSE]
  /\ pinned' = [b \in Buffers |-> None]
  /\ queue' = <<>>

\* isp_video_queue_free and, for the first n buffers, isp_video_queue_alloc.
FreeAndAlloc(n, m) ==
  /\ count' = n
  /\ memory' = IF n = 0 THEN memory ELSE m
  /\ state' = [b \in Buffers |-> "IDLE"]
  /\ userptr' = [b \in Buffers |-> None]
  /\ prepared' = [b \in Buffers |-> FALSE]
  /\ pinned' = [b \in Buffers |-> None]
  /\ queue' = <<>>

FreeAllowed ==
  /\ ~streaming
  /\ \A b \in Buffers : b < count => vma[b] = 0

\* omap3isp_video_queue_reqbufs: frees, then allocates. n is the number of
\* buffers there was memory for, at most the number asked for. A poll() that
\* sleeps on a buffer has it freed under it: nobody will wake it any more.
Reqbufs(t, n, m) ==
  /\ pc[t] = "user" /\ LockFree
  /\ FreeAllowed
  /\ FreeAndAlloc(n, m)
  /\ arg' = [u \in Threads |-> IF pc[u] \in {"poll", "repoll"} THEN None ELSE arg[u]]
  /\ UNCHANGED <<vma, streaming, lock, dmaqueue, nodevars, pc>>

\* omap3isp_video_queue_mmap and isp_video_queue_vm_open.
Mmap(t, b) ==
  /\ pc[t] = "user" /\ LockFree
  /\ b < count /\ memory = "MMAP"
  /\ vma[b] < MaxMaps
  /\ vma' = [vma EXCEPT ![b] = @ + 1]
  /\ UNCHANGED <<count, memory, userptr, prepared, pinned, state, queue,
                 streaming, lock, dmaqueue, nodevars, pc, arg>>

\* isp_video_queue_vm_close: takes no lock of the queue.
Munmap(t, b) ==
  /\ pc[t] = "user"
  /\ vma[b] > 0
  /\ vma' = [vma EXCEPT ![b] = @ - 1]
  /\ UNCHANGED <<count, memory, userptr, prepared, pinned, state, queue,
                 streaming, lock, dmaqueue, nodevars, pc, arg>>

-----------------------------------------------------------------------------
(* VIDIOC_QBUF.                                                            *)

\* The address a client names: USERPTR buffers only.
ClientAddr == IF memory = "MMAP" THEN {None} ELSE Addrs

\* The memory a prepared buffer must point at.
Target(addr) == IF memory = "MMAP" THEN "kernel" ELSE addr

\* Mutant: QBUF of a buffer that is already queued.
QbufChecksAnyState(t, b, addr) ==
  /\ pc[t] = "user" /\ LockFree
  /\ b < count
  /\ addr \in ClientAddr

QbufChecks(t, b, addr) ==
  /\ pc[t] = "user" /\ LockFree
  /\ b < count
  /\ addr \in ClientAddr
  /\ state[b] = "IDLE"

\* Mutant: a prepared buffer is never prepared again.
MustPrepareOnce(b, addr) == ~prepared[b]

\* Whether the buffer must be (re)prepared: never prepared, or moved.
MustPrepare(b, addr) == ~prepared[b] \/ (memory = "USERPTR" /\ userptr[b] # addr)

\* isp_video_buffer_prepare fails: isp_video_buffer_cleanup undoes it, and
\* the buffer keeps the new address with prepared cleared.
QbufPrepareFails(t, b, addr) ==
  /\ QbufChecks(t, b, addr)
  /\ MustPrepare(b, addr)
  /\ userptr' = [userptr EXCEPT ![b] = addr]
  /\ prepared' = [prepared EXCEPT ![b] = FALSE]
  /\ pinned' = [pinned EXCEPT ![b] = None]
  /\ UNCHANGED <<count, memory, vma, state, queue, streaming, lock,
                 dmaqueue, nodevars, pc, arg>>

\* The buffer is prepared and enters the main queue; when streaming, the
\* caller keeps queue->lock and goes on to the IRQ queue.
Qbuf(t, b, addr) ==
  /\ QbufChecks(t, b, addr)
  /\ userptr' = [userptr EXCEPT ![b] = addr]
  /\ prepared' = [prepared EXCEPT ![b] = TRUE]
  /\ pinned' = [pinned EXCEPT ![b] = IF MustPrepare(b, addr) THEN Target(addr) ELSE @]
  /\ state' = [state EXCEPT ![b] = "QUEUED"]
  /\ queue' = Append(queue, b)
  /\ IF streaming
     THEN lock' = t /\ Goto(t, "qbuf", b)
     ELSE UNCHANGED <<lock, pc, arg>>
  /\ UNCHANGED <<count, memory, vma, streaming, dmaqueue, nodevars>>

\* Mutant: the buffer never reaches the IRQ queue.
QbufToDeviceLost(t) ==
  /\ pc[t] = "qbuf"
  /\ lock' = None
  /\ Goto(t, "user", None)
  /\ UNCHANGED <<bufvars, state, queue, streaming, dmaqueue, nodevars>>

\* isp_video_buffer_queue under queue->irqlock, then mutex_unlock.
QbufToDevice(t) ==
  /\ pc[t] = "qbuf"
  /\ dmaqueue' = Append(dmaqueue, arg[t])
  /\ lock' = None
  /\ Goto(t, "user", None)
  /\ UNCHANGED <<bufvars, state, queue, streaming, nodevars>>

\* A buffer of another type: "goto done" runs mutex_unlock(&queue->lock)
\* without having taken it, which frees the mutex whoever owns it and leaves
\* a free one free (kernel/mutex.c).
QbufWrongType(t) ==
  /\ WrongTypes \/ lock = None
  /\ pc[t] = "user"
  /\ lock' = None
  /\ UNCHANGED <<bufvars, state, queue, streaming, dmaqueue, nodevars, pc, arg>>

-----------------------------------------------------------------------------
(* VIDIOC_DQBUF and poll().                                                *)

\* list_del(&buf->stream); the buffer, normally the first, leaves the queue.
Without(q, b) ==
  IF q # <<>> /\ Head(q) = b THEN Tail(q) ELSE SelectSeq(q, LAMBDA x : x # b)

Dequeue(b) ==
  /\ queue' = Without(queue, b)
  /\ state' = [state EXCEPT ![b] = "IDLE"]

\* Mutant: the state of the buffer is not looked at.
DqbufNotReady(t) ==
  /\ pc[t] = "user" /\ LockFree
  /\ queue # <<>>
  /\ Dequeue(Head(queue))
  /\ UNCHANGED <<bufvars, streaming, lock, dmaqueue, nodevars, pc, arg>>

\* The buffer at the front of the queue is ready: no wait.
Dqbuf(t) ==
  /\ pc[t] = "user" /\ LockFree
  /\ queue # <<>>
  /\ state[Head(queue)] \notin Pending
  /\ Dequeue(Head(queue))
  /\ UNCHANGED <<bufvars, streaming, lock, dmaqueue, nodevars, pc, arg>>

\* Mutant: the wait does not hold queue->lock.
DqbufWaitUnlocked(t) ==
  /\ "blocking" \in Modes
  /\ pc[t] = "user" /\ LockFree
  /\ queue # <<>>
  /\ state[Head(queue)] \in Pending
  /\ Goto(t, "dqbuf", Head(queue))
  /\ UNCHANGED <<bufvars, lock, state, queue, streaming, dmaqueue, nodevars>>

\* Blocking mode: wait_event_interruptible with queue->lock held.
DqbufWait(t) ==
  /\ "blocking" \in Modes
  /\ pc[t] = "user" /\ LockFree
  /\ queue # <<>>
  /\ state[Head(queue)] \in Pending
  /\ lock' = t
  /\ Goto(t, "dqbuf", Head(queue))
  /\ UNCHANGED <<bufvars, state, queue, streaming, dmaqueue, nodevars>>

DqbufWakes(t) ==
  /\ pc[t] = "dqbuf"
  /\ state[arg[t]] \notin Pending
  /\ Dequeue(arg[t])
  /\ lock' = None
  /\ Goto(t, "user", None)
  /\ UNCHANGED <<bufvars, streaming, dmaqueue, nodevars>>

\* A signal ends the wait: -ERESTARTSYS.
DqbufInterrupted(t) ==
  /\ pc[t] = "dqbuf"
  /\ lock' = None
  /\ Goto(t, "user", None)
  /\ UNCHANGED <<bufvars, state, queue, streaming, dmaqueue, nodevars>>

\* omap3isp_video_queue_poll: no event yet, sleep on the wait queue of the
\* buffer at the front, outside queue->lock.
PollWait(t) ==
  /\ pc[t] = "user" /\ LockFree
  /\ queue # <<>>
  /\ state[Head(queue)] \in Pending
  /\ Goto(t, "poll", Head(queue))
  /\ UNCHANGED <<bufvars, state, queue, streaming, lock, dmaqueue, nodevars>>

\* The caller's timeout, or a signal.
PollTimeout(t) ==
  /\ pc[t] = "poll"
  /\ Goto(t, "user", None)
  /\ UNCHANGED <<bufvars, state, queue, streaming, lock, dmaqueue, nodevars>>

\* wake_up(&buf->wait) for the buffers of a set: who sleeps there in poll()
\* runs again.
WakeUp(bs) ==
  pc' = [t \in Threads |-> IF pc[t] = "poll" /\ arg[t] \in bs THEN "repoll" ELSE pc[t]]

\* The next round of do_poll looks at the buffer that is at the front now. It
\* has no poll table any more: if there is no event the thread sleeps on where
\* it was registered first.
PollAgain(t) ==
  /\ pc[t] = "repoll" /\ LockFree
  /\ IF queue # <<>> /\ state[Head(queue)] \in Pending
     THEN Goto(t, "poll", arg[t])
     ELSE Goto(t, "user", None)
  /\ UNCHANGED <<bufvars, state, queue, streaming, lock, dmaqueue, nodevars>>

-----------------------------------------------------------------------------
(* VIDIOC_STREAMON.                                                        *)

\* Checks pass: the node's queue and an empty IRQ queue are installed.
Streamon(t) ==
  /\ pc[t] = "user" /\ stream_lock = None
  /\ ~vstreaming
  /\ stream_lock' = t
  /\ dmaqueue' = <<>>
  /\ Goto(t, "streamon_queue", None)
  /\ UNCHANGED <<bufvars, state, queue, streaming, lock, vstreaming, hw>>

\* The format or the pipeline does not validate: "goto error".
StreamonInvalid(t) ==
  /\ pc[t] = "user" /\ stream_lock = None
  /\ ~vstreaming
  /\ stream_lock' = t
  /\ Goto(t, "streamon_error", None)
  /\ UNCHANGED <<bufvars, state, queue, streaming, lock, dmaqueue, vstreaming, hw>>

\* Mutant: buffers queued before STREAMON stay behind.
StreamonQueueForgets(t) ==
  /\ pc[t] = "streamon_queue" /\ LockFree
  /\ streaming' = TRUE
  /\ Goto(t, "streamon_hw", None)
  /\ UNCHANGED <<bufvars, state, queue, lock, dmaqueue, nodevars>>

\* omap3isp_video_queue_streamon: hand every queued buffer to the device.
StreamonQueue(t) ==
  /\ pc[t] = "streamon_queue" /\ LockFree
  /\ streaming' = TRUE
  /\ dmaqueue' = IF streaming THEN dmaqueue ELSE dmaqueue \o queue
  /\ Goto(t, "streamon_hw", None)
  /\ UNCHANGED <<bufvars, state, queue, lock, nodevars>>

\* omap3isp_pipeline_set_stream(CONTINUOUS) succeeds.
StreamonStarts(t) ==
  /\ pc[t] = "streamon_hw"
  /\ hw' = TRUE
  /\ Goto(t, "streamon_end", None)
  /\ UNCHANGED <<bufvars, state, queue, streaming, lock, dmaqueue, stream_lock, vstreaming>>

\* It fails: isp_pipeline_enable returns at the module that failed, the
\* modules started before it stay started.
StreamonFails(t) ==
  /\ pc[t] = "streamon_hw"
  /\ hw' \in {FALSE, PartialStart}
  /\ Goto(t, "streamon_error", None)
  /\ UNCHANGED <<bufvars, state, queue, streaming, lock, dmaqueue, stream_lock, vstreaming>>

StreamonEnd(t) ==
  /\ pc[t] = "streamon_end"
  /\ vstreaming' = TRUE
  /\ stream_lock' = None
  /\ Goto(t, "user", None)
  /\ UNCHANGED <<bufvars, state, queue, streaming, lock, dmaqueue, hw>>

\* omap3isp_video_queue_streamoff: every buffer back to userspace; only the
\* waiters of ACTIVE buffers are woken. t's own call ends.
QueueStreamoff(t) ==
  IF streaming
  THEN LET active == {b \in Buffers : b < count /\ state[b] = "ACTIVE"}
       IN /\ streaming' = FALSE
          /\ state' = [b \in Buffers |-> IF b < count THEN "IDLE" ELSE state[b]]
          /\ queue' = <<>>
          /\ pc' = [u \in Threads |->
                      IF u = t THEN "user"
                      ELSE IF pc[u] = "poll" /\ arg[u] \in active THEN "repoll" ELSE pc[u]]
          /\ arg' = [arg EXCEPT ![t] = None]
  ELSE /\ Goto(t, "user", None)
       /\ UNCHANGED <<streaming, state, queue>>

\* The error path of isp_video_streamon.
StreamonError(t) ==
  /\ pc[t] = "streamon_error" /\ LockFree
  /\ QueueStreamoff(t)
  /\ stream_lock' = None
  /\ UNCHANGED <<bufvars, lock, dmaqueue, vstreaming, hw>>

-----------------------------------------------------------------------------
(* VIDIOC_STREAMOFF and close().                                           *)

Streamoff(t) ==
  /\ pc[t] = "user" /\ stream_lock = None
  /\ stream_lock' = t
  /\ Goto(t, "streamoff_check", None)
  /\ UNCHANGED <<bufvars, state, queue, streaming, lock, dmaqueue, vstreaming, hw>>

\* Mutant: queue->lock is not dropped before the pipeline is stopped.
StreamoffCheckKeepsLock(t) ==
  /\ pc[t] = "streamoff_check" /\ LockFree
  /\ IF streaming
     THEN lock' = t /\ Goto(t, "streamoff_hw", None) /\ UNCHANGED stream_lock
     ELSE Goto(t, "user", None) /\ stream_lock' = None /\ UNCHANGED lock
  /\ UNCHANGED <<bufvars, state, queue, streaming, dmaqueue, vstreaming, hw>>

\* queue.streaming is read under queue->lock, which is then dropped.
StreamoffCheck(t) ==
  /\ pc[t] = "streamoff_check" /\ LockFree
  /\ IF streaming
     THEN Goto(t, "streamoff_hw", None) /\ UNCHANGED stream_lock
     ELSE Goto(t, "user", None) /\ stream_lock' = None
  /\ UNCHANGED <<bufvars, state, queue, streaming, lock, dmaqueue, vstreaming, hw>>

\* Mutant: the pipeline keeps running.
StreamoffStopsNothing(t) ==
  /\ pc[t] = "streamoff_hw"
  /\ Goto(t, "streamoff_queue", None)
  /\ UNCHANGED <<bufvars, state, queue, streaming, lock, dmaqueue, nodevars>>

\* omap3isp_pipeline_set_stream(STOPPED).
StreamoffStops(t) ==
  /\ pc[t] = "streamoff_hw"
  /\ hw' = FALSE
  /\ Goto(t, "streamoff_queue", None)
  /\ UNCHANGED <<bufvars, state, queue, streaming, lock, dmaqueue, stream_lock, vstreaming>>

StreamoffQueue(t) ==
  /\ pc[t] = "streamoff_queue" /\ LockFree
  /\ QueueStreamoff(t)
  /\ vstreaming' = FALSE
  /\ stream_lock' = None
  /\ UNCHANGED <<bufvars, lock, dmaqueue, hw>>

\* isp_video_release: the last reference to the file is gone, so no thread
\* is in a call and nothing is mapped. Streams off, frees, and drops the ISP
\* reference (clocks off); the next step of a thread is on a new open().
Release ==
  /\ \A t \in Threads : pc[t] = "user"
  /\ \A b \in Buffers : vma[b] = 0
  /\ hw' = FALSE /\ streaming' = FALSE /\ vstreaming' = FALSE
  /\ FreeAndAlloc(0, memory)
  /\ UNCHANGED <<vma, lock, dmaqueue, stream_lock, pc, arg>>

-----------------------------------------------------------------------------
(* The interrupt handler, and system sleep.                                *)

\* Mutant: the waiters of the completed buffer are not woken.
BufferNextSilent(result) ==
  /\ dmaqueue # <<>>
  /\ LET b == Head(dmaqueue)
         rest == Tail(dmaqueue)
     IN /\ dmaqueue' = rest
        /\ state' = [x \in Buffers |->
                       IF rest # <<>> /\ x = Head(rest) THEN "ACTIVE"
                       ELSE IF x = b THEN result ELSE state[x]]
  /\ UNCHANGED <<bufvars, queue, streaming, lock, nodevars, pc, arg>>

\* omap3isp_video_buffer_next: complete the buffer at the front of the IRQ
\* queue and make the next one, if any, ACTIVE.
BufferNext(result) ==
  /\ dmaqueue # <<>>
  /\ LET b == Head(dmaqueue)
         rest == Tail(dmaqueue)
     IN /\ dmaqueue' = rest
        /\ state' = [x \in Buffers |->
                       IF rest # <<>> /\ x = Head(rest) THEN "ACTIVE"
                       ELSE IF x = b THEN result ELSE state[x]]
        /\ WakeUp({b})
  /\ UNCHANGED <<bufvars, queue, streaming, lock, nodevars, arg>>

\* Suspend and resume, with every task frozen outside the driver: the DONE
\* buffers are too old (omap3isp_video_queue_discard_done).
SuspendResume ==
  /\ \A t \in Threads : pc[t] = "user"
  /\ hw /\ streaming
  /\ state' = [b \in Buffers |-> IF b < count /\ state[b] = "DONE" THEN "ERROR" ELSE state[b]]
  /\ UNCHANGED <<bufvars, queue, streaming, lock, dmaqueue, nodevars, pc, arg>>

-----------------------------------------------------------------------------
Call(t) ==
  \/ \E n \in 0 .. MaxBuffers, m \in {"MMAP", "USERPTR"} : Reqbufs(t, n, m)
  \/ \E b \in Buffers : Mmap(t, b) \/ Munmap(t, b)
  \/ \E b \in Buffers, a \in Addrs \cup {None} : Qbuf(t, b, a) \/ QbufPrepareFails(t, b, a)
  \/ QbufWrongType(t)
  \/ Dqbuf(t) \/ DqbufWait(t) \/ DqbufInterrupted(t)
  \/ PollWait(t) \/ PollTimeout(t)
  \/ Streamon(t) \/ StreamonInvalid(t) \/ Streamoff(t)

\* What the kernel does on its own once the call has been made.
Continue(t) ==
  \/ QbufToDevice(t)
  \/ DqbufWakes(t) \/ PollAgain(t)
  \/ StreamonQueue(t) \/ StreamonStarts(t) \/ StreamonFails(t) \/ StreamonEnd(t)
  \/ StreamonError(t)
  \/ StreamoffCheck(t) \/ StreamoffStops(t) \/ StreamoffQueue(t)

Interrupt == hw /\ (BufferNext("DONE") \/ BufferNext("ERROR"))

Next ==
  \/ \E t \in Threads : Call(t) \/ Continue(t)
  \/ Interrupt
  \/ Release
  \/ SuspendResume

Spec == Init /\ [][Next]_vars

(* A thread inside the driver is scheduled and a queue->lock waiter gets   *)
(* the mutex some time (kernel/mutex.c serves waiters in FIFO order); a    *)
(* running pipeline keeps delivering frames.                               *)
Fairness ==
  /\ \A t \in Threads : SF_vars(Continue(t))
  /\ WF_vars(Interrupt)

FairSpec == Spec /\ Fairness

-----------------------------------------------------------------------------
(* Properties                                                              *)

\* Every variable has its type.
TypeOK ==
  /\ count \in 0 .. MaxBuffers
  /\ memory \in {"MMAP", "USERPTR"}
  /\ state \in [Buffers -> BufferState]
  /\ vma \in [Buffers -> 0 .. MaxMaps]
  /\ userptr \in [Buffers -> Addrs \cup {None}]
  /\ prepared \in [Buffers -> BOOLEAN]
  /\ pinned \in [Buffers -> Addrs \cup {"kernel", None}]
  /\ queue \in Seq(Buffers)
  /\ streaming \in BOOLEAN
  /\ lock \in Threads \cup {None}
  /\ dmaqueue \in Seq(Buffers)
  /\ stream_lock \in Threads \cup {None}
  /\ vstreaming \in BOOLEAN
  /\ hw \in BOOLEAN
  /\ pc \in [Threads -> PC]
  /\ arg \in [Threads -> Buffers \cup {None}]

\* Threads that have put a buffer on the main queue but not yet on the
\* IRQ queue, and the part of the main queue the device may know of.
MidQbuf == {t \in Threads : pc[t] = "qbuf"}
Handed == IF MidQbuf = {} THEN Len(queue) ELSE Len(queue) - 1

\* How many buffers at the front of the main queue the device is done with.
Finished == Handed - Len(dmaqueue)

\* queue->lock excludes: whoever is between mutex_lock and mutex_unlock is
\* its owner, even while DQBUF sleeps in there.
QueueLockOwned ==
  \A t \in Threads : pc[t] \in InQueueLock => lock = t

\* video->stream_lock covers STREAMON and STREAMOFF from end to end.
StreamLockOwned ==
  \A t \in Threads : pc[t] \in InStreamLock => stream_lock = t

\* The main queue holds exactly the buffers userspace does not own, once
\* each, all of them allocated.
MainQueueExact ==
  /\ \A i, j \in DOMAIN queue : queue[i] = queue[j] => i = j
  /\ \A i \in DOMAIN queue : queue[i] < count
  /\ \A b \in Buffers : state[b] # "IDLE" <=> \E i \in DOMAIN queue : queue[i] = b

\* The two lists of isp_video_queue, one under queue->lock and one under
\* queue->irqlock, never drift apart: on a streaming queue the IRQ queue is
\* the tail of the main queue, in the same order, the buffers before it are
\* finished and the ones on it are not.
ListsAgree ==
  streaming =>
    /\ Finished >= 0
    /\ \A i \in DOMAIN dmaqueue : dmaqueue[i] = queue[Finished + i]
    /\ \A i \in DOMAIN queue : state[queue[i]] \in Pending <=> i > Finished

\* The device only ever gets memory that is pinned and mapped for the
\* address userspace last queued, of a buffer that still exists.
DeviceTargetsPinned ==
  hw => \A i \in DOMAIN dmaqueue :
          LET b == dmaqueue[i]
          IN /\ b < count /\ state[b] \in Pending
             /\ prepared[b] /\ pinned[b] = Target(userptr[b])

\* A buffer mapped into userspace is not freed: REQBUFS and close leave it.
MappedIsAllocated ==
  \A b \in Buffers : vma[b] > 0 => b < count /\ memory = "MMAP"

\* "Drivers must stop the hardware and synchronize with interrupt handlers
\* [...] before calling this function" (omap3isp_video_queue_streamoff): the
\* device never runs over a queue that does not stream.
DriverContract == hw => streaming

\* The queue is the FIFO of VideoFifo: in-order completion and return.
Fifo == INSTANCE VideoFifo WITH
          Buffer <- Buffers,
          on <- streaming,
          fifo <- [i \in DOMAIN queue |->
                     [buf |-> queue[i], ready |-> state[queue[i]] \notin Pending]]

\* Whatever the threads and the interrupt handler do, a client sees a FIFO.
ImplementsFifo == Fifo!Spec

\* STREAMOFF ends: once the pipeline is stopped it does not wait for ever
\* for queue->lock.
StreamoffTerminates ==
  \A t \in Threads : pc[t] = "streamoff_queue" ~> pc[t] = "user"

\* A buffer the application has queued on a running stream is completed, or
\* handed back by STREAMOFF.
QueuedIsReturned ==
  \A b \in Buffers : hw /\ state[b] \in Pending ~> state[b] \notin Pending

\* A poll() that sleeps on the first buffer of a running stream returns, unless
\* another thread dequeues the buffer first: the wake-up of its completion is
\* not lost, wherever the completion comes in do_poll's loop.
PollReturns ==
  \A t \in Threads, b \in Buffers :
    hw /\ pc[t] = "poll" /\ arg[t] = b /\ queue # <<>> /\ Head(queue) = b
      ~> pc[t] = "user" \/ ~hw \/ queue = <<>> \/ Head(queue) # b

\* A thread asleep in poll() on the wait queue of a buffer that exists.
Asleep(t) == pc[t] = "poll" /\ arg[t] # None

\* A thread asleep in poll() was not passed over: the buffer whose wait queue it
\* is on has not been completed since, although the queue may have moved on and
\* the thread may have been woken for nothing before.
SleepersWoken ==
  \A t \in Threads : Asleep(t) => state[arg[t]] \notin {"DONE", "ERROR"}

\* "this function waits until a buffer has been filled or displayed and can be
\* dequeued with the VIDIOC_DQBUF ioctl" (V4L2 poll()): nobody sleeps for ever
\* in poll() while the first buffer is ready. The code does not keep this: a
\* thread woken for a buffer that another one dequeued sleeps on (PollAgain).
PollSeesReady ==
  \A t \in Threads :
    Asleep(t) /\ queue # <<>> /\ state[Head(queue)] \notin Pending
      ~> ~Asleep(t) \/ queue = <<>> \/ state[Head(queue)] \in Pending

\* omap3isp_video_queue_streamoff "stops streaming on the queue and wakes up all
\* the buffers": nobody sleeps for ever in poll() on a queue that was emptied,
\* for which poll() answers POLLERR. The code does not keep this: a buffer that
\* is QUEUED at the time is not woken.
PollEndsWithStream ==
  \A t \in Threads : Asleep(t) /\ queue = <<>> ~> ~Asleep(t) \/ queue # <<>>

-----------------------------------------------------------------------------
(* The inductive invariant behind the safety properties; module            *)
(* IspQueueProofs proves it.                                               *)

\* What a thread remembers while it holds queue->lock is still true: QBUF's
\* buffer is the last of a streaming queue, DQBUF's is the first.
ArgValid ==
  \A t \in Threads :
    /\ pc[t] = "qbuf" => streaming /\ queue # <<>> /\ arg[t] = queue[Len(queue)]
    /\ pc[t] = "dqbuf" => queue # <<>> /\ arg[t] = Head(queue)

\* The three streaming flags (queue->streaming, video->streaming, the
\* pipeline's own state) agree wherever stream_lock lets another thread look.
FlagsAgree ==
  /\ stream_lock = None /\ ~vstreaming => ~streaming
  /\ DriverContract
  /\ \A t \in Threads :
       /\ pc[t] = "streamon_queue" => ~streaming /\ dmaqueue = <<>>
       /\ pc[t] \in {"streamon_hw", "streamon_end", "streamoff_hw", "streamoff_queue"}
            => streaming
       /\ pc[t] \in {"streamon_error", "streamoff_queue"} => ~hw

\* Before STREAMON every queued buffer still waits for the device.
NothingDoneYet ==
  ~streaming => \A i \in DOMAIN queue : state[queue[i]] \in Pending

\* A prepared buffer is pinned where it points, and queued buffers are.
PinsValid ==
  /\ \A b \in Buffers : prepared[b] => pinned[b] = Target(userptr[b])
  /\ \A i \in DOMAIN queue : prepared[queue[i]]

LockInv == TypeOK /\ QueueLockOwned /\ StreamLockOwned /\ ArgValid

IndInv ==
  /\ LockInv
  /\ FlagsAgree
  /\ MainQueueExact
  /\ ListsAgree /\ NothingDoneYet
  /\ PinsValid
  /\ MappedIsAllocated
=============================================================================
