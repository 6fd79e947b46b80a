-------------------------- MODULE IspCaptureProofs --------------------------
(***************************************************************************)
(* The CCDC driver implements the buffers queue, for any number of threads *)
(* and buffers, and is safe when one thread uses the node, the interrupt   *)
(* handler keeps up with the frames and the sensor does not fail, up to a  *)
(* VD0 that overtakes the end of a stop.                                   *)
(*                                                                         *)
(* The second part builds on the first: what IspQueueProofs shows of the   *)
(* queue holds here, and the invariant below only says what the CCDC does. *)
(***************************************************************************)
EXTENDS IspCapture, TLAPS

\* The queue again, without the unlocking of a mutex that others own, which
\* cannot happen with one thread.
QP == INSTANCE IspQueueProofs WITH PartialStart <- SensorFails, WrongTypes <- FALSE

OneThread == \A t, u \in Threads : t = u

\* Some thread is in one of these places.
In(places) == \E t \in Threads : pc[t] \in places

\* The streaming flags, stream_lock and queue->lock follow the one thread.
FlagsFollow ==
  /\ streaming <=> vstreaming \/ In({"streamon_hw", "streamon_end"})
  /\ In({"streamon_queue", "streamon_hw", "streamon_end", "streamon_error"}) => ~vstreaming
  /\ In({"streamon_hw", "streamon_end"}) => stream_lock # None
  /\ In({"qbuf", "streamoff_hw", "streamoff_queue"}) => streaming
  /\ lock # None => In({"qbuf", "dqbuf"})
  /\ step # "entry" => In({"streamon_hw", "streamoff_hw"})

\* The CCDC is stopped and nothing is pending; only a VD0 that has overtaken a
\* stop leaves it enabled.
Off ==
  /\ ~sbl /\ ~underrun /\ stopping = "NOT_REQUESTED" /\ cstate = "STOPPED"
  /\ ~sensor /\ phase = "blank" /\ writing = None /\ irq = {} /\ step = "entry"
  /\ en => overtaken

StoppedIsOff ==
  ~streaming \/ In({"streamoff_queue"}) => Off

\* ccdc_set_stream(CONTINUOUS) enables the CCDC if a buffer is waiting.
Starting ==
  In({"streamon_hw"}) =>
    /\ ~sensor /\ phase = "blank" /\ writing = None /\ irq = {}
    /\ stopping = "NOT_REQUESTED"
    /\ step \in {"entry", "clear", "state", "sensor"}
    /\ step = "entry" => ~sbl /\ (underrun <=> dmaqueue # <<>>) /\ (en => overtaken)
    /\ step # "entry" => sbl /\ (overtaken \/ (en <=> dmaqueue # <<>>))
    /\ step \in {"state", "sensor"} => ~underrun
    /\ dmaqueue # <<>> => outaddr = Head(dmaqueue)
    /\ cstate = IF step = "sensor" THEN "CONTINUOUS" ELSE "STOPPED"

\* Past the stop handshake: the thread clears up while frames still come.
StopTail == In({"streamoff_hw"}) /\ step \in {"clear", "state", "sensor"}

Stopping ==
  StopTail =>
    /\ overtaken \/ (~en /\ writing = None)
    /\ stopping = "NOT_REQUESTED"
    /\ step \in {"state", "sensor"} => ~sbl /\ ~underrun
    /\ cstate = IF step = "sensor" THEN "STOPPED" ELSE "CONTINUOUS"

Running ==
  /\ vstreaming \/ In({"streamon_end"})
  /\ ~In({"streamoff_queue"}) /\ ~StopTail

\* The events of a frame, one at a time.
Timing ==
  Running \/ StopTail =>
    /\ phase \in {"blank", "first", "second"}
    /\ irq \in {{}, {"VD1"}, {"VD0"}}
    /\ irq = {"VD1"} => phase = "second"
    /\ irq = {"VD0"} => phase = "blank"
    /\ phase = "blank" => writing = None

\* The stop handshake of a running CCDC: from the VD1 that executes the request
\* on it is disabled, and once the frame has ended it writes nothing.
Handshake ==
  Running =>
    /\ sensor /\ sbl /\ cstate = "CONTINUOUS" /\ hw
    /\ step \in {"entry", "wait"}
    /\ stopping \in {"NOT_REQUESTED", "REQUEST", "EXECUTED", "FINISHED"}
    /\ step = "wait" => In({"streamoff_hw"})
    /\ step = "wait" <=> stopping # "NOT_REQUESTED"
    /\ stopping \in {"EXECUTED", "FINISHED"} => ~en
    /\ stopping = "EXECUTED" => phase = "second" \/ irq = {"VD0"}
    /\ stopping = "FINISHED" => writing = None
    /\ irq = {"VD0"} => ~en
    /\ phase = "second" /\ irq = {} => ~en

\* A running CCDC writes to the first buffer of the IRQ queue.
Frames ==
  Running /\ ~overtaken =>
    /\ en \/ writing # None \/ underrun => dmaqueue # <<>> /\ outaddr = Head(dmaqueue)
    /\ underrun => ~en /\ writing = None
    /\ writing # None => writing = outaddr

\* Until the stream is being stopped, the first buffer of the IRQ queue is the
\* one that the frame goes to, unless it came too late for the frame.
FirstIsWritten ==
  Running /\ ~overtaken /\ ~In({"streamoff_hw"}) /\ dmaqueue # <<>> /\ ~underrun =>
    /\ phase = "blank" /\ irq = {} => en
    /\ phase \in {"first", "second"} => writing = Head(dmaqueue)
    /\ irq = {"VD0"} => data[Head(dmaqueue)] = "frame"

\* A frame that ends after the handshake completes a buffer nobody wrote to; the
\* same STREAMOFF takes it back.
DoneIsFrame ==
  /\ data \in [Buffers -> {"old", "partial", "frame"}]
  /\ ~overtaken /\ ~In({"streamoff_hw", "streamoff_queue"}) =>
       \A b \in Buffers : state[b] = "DONE" => data[b] = "frame"

\* The sensor, and the interrupts it causes, belong to a started pipeline.
IrqsOfPipeline == (sensor => hw) /\ (irq # {} => hw)

\* What the CCDC is doing.
CcdcInv ==
  /\ StoppedIsOff /\ Starting /\ Stopping
  /\ Timing /\ Handshake /\ Frames /\ FirstIsWritten

CaptureInv == QP!IndInv /\ IrqsOfPipeline /\ FlagsFollow /\ CcdcInv /\ DoneIsFrame

-----------------------------------------------------------------------------
(* The CCDC driver implements the queue.                                   *)

LEMMA InitSimulates == Init => Q!Init
PROOF
  BY DEF Init, Q!Init, Buffers, Q!Buffers

\* Every step of a thread in the driver is one of the queue, or changes only
\* registers and flags of the CCDC.
LEMMA ThreadSimulates ==
  ASSUME NEW t \in Threads, ThreadStep(t)
  PROVE  Q!Call(t) \/ Q!Continue(t) \/ UNCHANGED qvars
PROOF
<1>1. CASE QueueCall(t)
  BY <1>1 DEF QueueCall, Q!Call, Q!Continue, Buffers, Q!Buffers
<1>2. CASE Qbuf(t)
  BY <1>2 DEF Qbuf, Q!Call, Buffers, Q!Buffers
<1>3. CASE QbufToDevice(t) \/ StreamonQueue(t)
  BY <1>3 DEF QbufToDevice, StreamonQueue, Q!Continue
<1>4. CASE CcdcStart(t) \/ CcdcStartClear(t) \/ CcdcStartState(t)
  BY <1>4 DEF CcdcStart, CcdcStartClear, CcdcStartState
<1>5. CASE SensorStarts(t) \/ SensorStartFails(t) \/ SensorStops(t)
  BY <1>5 DEF SensorStarts, SensorStartFails, SensorStops, Q!Continue
<1>6. CASE CcdcStop(t) \/ CcdcStopReset(t) \/ CcdcStopClear(t) \/ CcdcStopState(t)
  BY <1>6 DEF CcdcStop, CcdcStopReset, CcdcStopClear, CcdcStopState
<1> QED BY <1>1, <1>2, <1>3, <1>4, <1>5, <1>6 DEF ThreadStep

\* The interrupt handler completes buffers of a running pipeline only.
LEMMA StepSimulates ==
  ASSUME IrqsOfPipeline, [Next]_vars
  PROVE  [Q!Next]_(Q!vars)
PROOF
<1>1. UNCHANGED qvars => UNCHANGED Q!vars
  BY DEF qvars, Q!vars, Q!bufvars, Q!nodevars
<1>2. CASE UNCHANGED vars
  BY <1>1, <1>2 DEF vars
<1>3. CASE \E t \in Threads : irq = {} /\ ThreadStep(t)
  BY <1>1, <1>3, ThreadSimulates DEF Q!Next
<1>4. CASE CcdcIsr
  <2>1. UNCHANGED qvars \/ \E result \in {"DONE", "ERROR"} : Q!BufferNext(result)
    BY <1>4 DEF CcdcIsr, Vd0Nothing, Vd0Restart, Vd0Complete
  <2>2. hw
    BY <1>4 DEF CcdcIsr, IspIsr, IrqsOfPipeline
  <2> QED BY <1>1, <2>1, <2>2 DEF Q!Next, Q!Interrupt
<1>5. CASE Hardware
  BY <1>1, <1>5 DEF Hardware, FrameStart, FrameVd1, FrameEnd
<1> QED BY <1>2, <1>3, <1>4, <1>5 DEF Next

\* hw only changes with the sensor.
LEMMA PipelineStep ==
  ASSUME IrqsOfPipeline, [Next]_vars
  PROVE  IrqsOfPipeline'
PROOF
<1> USE DEF IrqsOfPipeline
<1>1. CASE UNCHANGED vars
  BY <1>1 DEF vars, qvars, hwvars
<1>2. ASSUME NEW t \in Threads, irq = {}, ThreadStep(t)
      PROVE  IrqsOfPipeline'
  <2>1. CASE QueueCall(t)
    <3>1. UNCHANGED <<sensor, irq, hw>>
      BY <2>1 DEF QueueCall, hwvars, Q!nodevars, Q!Reqbufs, Q!Mmap, Q!Munmap, Q!QbufWrongType,
                  Q!QbufPrepareFails, Q!Dqbuf, Q!DqbufWait, Q!DqbufWakes, Q!DqbufInterrupted,
                  Q!PollWait, Q!PollTimeout, Q!PollAgain, Q!Streamon, Q!StreamonInvalid,
                  Q!StreamonEnd, Q!StreamonError, Q!Streamoff, Q!StreamoffCheck, Q!StreamoffQueue
    <3> QED BY <3>1
  <2>2. CASE Qbuf(t)
    BY <1>2, <2>2 DEF Qbuf, Q!Qbuf, hwvars, Q!nodevars
  <2>3. CASE QbufToDevice(t) \/ StreamonQueue(t)
    BY <1>2, <2>3 DEF QbufToDevice, StreamonQueue, CcdcVideoQueue, NoVideoQueue, hwvars,
                      Q!QbufToDevice, Q!StreamonQueue, Q!nodevars
  <2>4. CASE CcdcStart(t) \/ CcdcStartClear(t) \/ CcdcStartState(t)
    BY <1>2, <2>4 DEF CcdcStart, CcdcStartClear, CcdcStartState, qvars, hwvars
  <2>5. CASE SensorStarts(t)
    BY <1>2, <2>5 DEF SensorStarts, Q!StreamonStarts
  <2>6. CASE SensorStartFails(t)
    BY <1>2, <2>6 DEF SensorStartFails, hwvars
  <2>7. CASE CcdcStop(t) \/ CcdcStopReset(t) \/ CcdcStopClear(t) \/ CcdcStopState(t)
    BY <1>2, <2>7 DEF CcdcStop, CcdcStopReset, CcdcStopClear, CcdcStopState, qvars, hwvars
  <2>8. CASE SensorStops(t)
    BY <1>2, <2>8 DEF SensorStops
  <2> QED BY <1>2, <2>1, <2>2, <2>3, <2>4, <2>5, <2>6, <2>7, <2>8 DEF ThreadStep
<1>3. CASE CcdcIsr
  <2>1. irq' = {} /\ UNCHANGED sensor
    BY <1>3 DEF CcdcIsr, IspIsr, hwvars
  <2>2. ASSUME NEW result, Q!BufferNext(result)
        PROVE  UNCHANGED hw
    BY <2>2 DEF Q!BufferNext, Q!nodevars
  <2>3. UNCHANGED hw
    BY <1>3, <2>2 DEF CcdcIsr, qvars, Vd0Nothing, Vd0Restart, Vd0Complete
  <2> QED BY <2>1, <2>3
<1>4. CASE Hardware
  BY <1>4 DEF Hardware, FrameStart, FrameVd1, FrameEnd, qvars
<1> QED BY <1>1, <1>2, <1>3, <1>4 DEF Next

\* Seen from the queue the CCDC driver behaves as IspQueue says a driver does:
\* it completes buffers in order and only between set_stream(CONTINUOUS) and
\* set_stream(STOPPED), for any number of threads and buffers, also when the
\* interrupt handler is late and the sensor fails or falls silent.
THEOREM CaptureIsQueueDriver == Spec => ImplementsIspQueue
PROOF
<1>1. Init => IrqsOfPipeline
  BY DEF Init, IrqsOfPipeline
<1>2. IrqsOfPipeline /\ [Next]_vars => IrqsOfPipeline' /\ [Q!Next]_(Q!vars)
  BY PipelineStep, StepSimulates
<1> QED BY <1>1, <1>2, InitSimulates, PTL DEF Spec, ImplementsIspQueue, Q!Spec

-----------------------------------------------------------------------------
(* Without a foreign unlock the queue is the one of IspQueueProofs.        *)

\* The calls are the same in both instances of the queue.
LEMMA SameCall ==
  ASSUME NEW t \in Threads, pc[t] = "user" => ~WrongTypes \/ lock = None, Q!Call(t)
  PROVE  QP!Call(t)
PROOF
<1>1. \A n, m : Q!Reqbufs(t, n, m) => QP!Reqbufs(t, n, m)
  BY DEF Q!Reqbufs, QP!Reqbufs, Q!LockFree, QP!LockFree, Q!FreeAllowed,
         QP!FreeAllowed, Q!FreeAndAlloc, QP!FreeAndAlloc, Q!Buffers,
         QP!Buffers, Q!nodevars, QP!nodevars
<1>2. \A b : (Q!Mmap(t, b) => QP!Mmap(t, b)) /\ (Q!Munmap(t, b) => QP!Munmap(t, b))
  BY DEF Q!Mmap, QP!Mmap, Q!Munmap, QP!Munmap, Q!LockFree, QP!LockFree,
         Q!nodevars, QP!nodevars
<1>3. \A b, a : Q!Qbuf(t, b, a) => QP!Qbuf(t, b, a)
  BY DEF Q!Qbuf, QP!Qbuf, Q!QbufChecks, QP!QbufChecks, Q!LockFree,
         QP!LockFree, Q!ClientAddr, QP!ClientAddr, Q!MustPrepare,
         QP!MustPrepare, Q!Target, QP!Target, Q!Goto, QP!Goto,
         Q!nodevars, QP!nodevars
<1>4. \A b, a : Q!QbufPrepareFails(t, b, a) => QP!QbufPrepareFails(t, b, a)
  BY DEF Q!QbufPrepareFails, QP!QbufPrepareFails, Q!QbufChecks,
         QP!QbufChecks, Q!LockFree, QP!LockFree, Q!ClientAddr,
         QP!ClientAddr, Q!MustPrepare, QP!MustPrepare, Q!nodevars,
         QP!nodevars
<1>5. Q!QbufWrongType(t) => QP!QbufWrongType(t)
  BY DEF Q!QbufWrongType, QP!QbufWrongType, Q!bufvars, QP!bufvars,
         Q!nodevars, QP!nodevars
<1>6. Q!Dqbuf(t) => QP!Dqbuf(t)
  BY DEF Q!Dqbuf, QP!Dqbuf, Q!LockFree, QP!LockFree, Q!Pending,
         QP!Pending, Q!Dequeue, QP!Dequeue, Q!Without, QP!Without,
         Q!bufvars, QP!bufvars, Q!nodevars, QP!nodevars
<1>7. Q!DqbufWait(t) => QP!DqbufWait(t)
  BY DEF Q!DqbufWait, QP!DqbufWait, Q!LockFree, QP!LockFree, Q!Pending,
         QP!Pending, Q!Goto, QP!Goto, Q!bufvars, QP!bufvars,
         Q!nodevars, QP!nodevars
<1>8. Q!DqbufInterrupted(t) => QP!DqbufInterrupted(t)
  BY DEF Q!DqbufInterrupted, QP!DqbufInterrupted, Q!Goto, QP!Goto,
         Q!bufvars, QP!bufvars, Q!nodevars, QP!nodevars
<1>9. Q!PollWait(t) => QP!PollWait(t)
  BY DEF Q!PollWait, QP!PollWait, Q!LockFree, QP!LockFree, Q!Pending,
         QP!Pending, Q!Goto, QP!Goto, Q!bufvars, QP!bufvars,
         Q!nodevars, QP!nodevars
<1>10. Q!PollTimeout(t) => QP!PollTimeout(t)
  BY DEF Q!PollTimeout, QP!PollTimeout, Q!Goto, QP!Goto, Q!bufvars,
         QP!bufvars, Q!nodevars, QP!nodevars
<1>11. Q!Streamon(t) => QP!Streamon(t)
  BY DEF Q!Streamon, QP!Streamon, Q!Goto, QP!Goto, Q!bufvars,
         QP!bufvars
<1>12. Q!StreamonInvalid(t) => QP!StreamonInvalid(t)
  BY DEF Q!StreamonInvalid, QP!StreamonInvalid, Q!Goto, QP!Goto,
         Q!bufvars, QP!bufvars
<1>13. Q!Streamoff(t) => QP!Streamoff(t)
  BY DEF Q!Streamoff, QP!Streamoff, Q!Goto, QP!Goto, Q!bufvars,
         QP!bufvars
<1> QED BY <1>1, <1>2, <1>3, <1>4, <1>5, <1>6, <1>7, <1>8, <1>9, <1>10, <1>11, <1>12, <1>13
        DEF Q!Call, QP!Call, Q!Buffers, QP!Buffers

LEMMA SameContinue ==
  ASSUME NEW t \in Threads, Q!Continue(t)
  PROVE  QP!Continue(t)
PROOF
<1>1. Q!QbufToDevice(t) => QP!QbufToDevice(t)
  BY DEF Q!QbufToDevice, QP!QbufToDevice, Q!Goto, QP!Goto, Q!bufvars,
         QP!bufvars, Q!nodevars, QP!nodevars
<1>2. Q!DqbufWakes(t) => QP!DqbufWakes(t)
  BY DEF Q!DqbufWakes, QP!DqbufWakes, Q!Pending, QP!Pending, Q!Dequeue,
         QP!Dequeue, Q!Without, QP!Without, Q!Goto, QP!Goto, Q!bufvars,
         QP!bufvars, Q!nodevars, QP!nodevars
<1>3. Q!StreamonQueue(t) => QP!StreamonQueue(t)
  BY DEF Q!StreamonQueue, QP!StreamonQueue, Q!LockFree, QP!LockFree,
         Q!Goto, QP!Goto, Q!bufvars, QP!bufvars, Q!nodevars,
         QP!nodevars
<1>4. Q!StreamonStarts(t) => QP!StreamonStarts(t)
  BY DEF Q!StreamonStarts, QP!StreamonStarts, Q!Goto, QP!Goto,
         Q!bufvars, QP!bufvars
<1>5. Q!StreamonFails(t) => QP!StreamonFails(t)
  BY DEF Q!StreamonFails, QP!StreamonFails, Q!Goto, QP!Goto, Q!bufvars,
         QP!bufvars
<1>6. Q!StreamonEnd(t) => QP!StreamonEnd(t)
  BY DEF Q!StreamonEnd, QP!StreamonEnd, Q!Goto, QP!Goto, Q!bufvars,
         QP!bufvars
<1>7. Q!StreamonError(t) => QP!StreamonError(t)
  BY DEF Q!StreamonError, QP!StreamonError, Q!LockFree, QP!LockFree,
         Q!QueueStreamoff, QP!QueueStreamoff, Q!Goto, QP!Goto,
         Q!Buffers, QP!Buffers, Q!bufvars, QP!bufvars
<1>8. Q!StreamoffCheck(t) => QP!StreamoffCheck(t)
  BY DEF Q!StreamoffCheck, QP!StreamoffCheck, Q!LockFree, QP!LockFree,
         Q!Goto, QP!Goto, Q!bufvars, QP!bufvars
<1>9. Q!StreamoffStops(t) => QP!StreamoffStops(t)
  BY DEF Q!StreamoffStops, QP!StreamoffStops, Q!Goto, QP!Goto,
         Q!bufvars, QP!bufvars
<1>10. Q!StreamoffQueue(t) => QP!StreamoffQueue(t)
  BY DEF Q!StreamoffQueue, QP!StreamoffQueue, Q!LockFree, QP!LockFree,
         Q!QueueStreamoff, QP!QueueStreamoff, Q!Goto, QP!Goto,
         Q!Buffers, QP!Buffers, Q!bufvars, QP!bufvars
<1>11. Q!PollAgain(t) => QP!PollAgain(t)
  BY DEF Q!PollAgain, QP!PollAgain, Q!LockFree, QP!LockFree, Q!Pending, QP!Pending,
         Q!Goto, QP!Goto, Q!bufvars, QP!bufvars, Q!nodevars, QP!nodevars
<1> QED BY <1>1, <1>2, <1>3, <1>4, <1>5, <1>6, <1>7, <1>8, <1>9, <1>10, <1>11
        DEF Q!Continue, QP!Continue

LEMMA SameStep ==
  ASSUME \A t \in Threads : pc[t] = "user" => ~WrongTypes \/ lock = None, [Q!Next]_(Q!vars)
  PROVE  [QP!Next]_(QP!vars)
PROOF
<1>1. CASE UNCHANGED Q!vars
  BY <1>1 DEF Q!vars, QP!vars, Q!bufvars, QP!bufvars, Q!nodevars, QP!nodevars
<1>2. CASE \E t \in Threads : Q!Call(t) \/ Q!Continue(t)
  BY <1>2, SameCall, SameContinue DEF QP!Next
<1>3. CASE Q!Interrupt
  <2>1. \A result : Q!BufferNext(result) => QP!BufferNext(result)
    BY DEF Q!BufferNext, QP!BufferNext, Q!WakeUp, QP!WakeUp, Q!Buffers, QP!Buffers,
           Q!bufvars, QP!bufvars, Q!nodevars, QP!nodevars
  <2> QED BY <1>3, <2>1 DEF Q!Interrupt, QP!Interrupt, QP!Next
<1>4. CASE Q!Release
  BY <1>4 DEF Q!Release, QP!Release, Q!FreeAndAlloc, QP!FreeAndAlloc, Q!Buffers, QP!Buffers,
              QP!Next
<1>5. CASE Q!SuspendResume
  BY <1>5 DEF Q!SuspendResume, QP!SuspendResume, Q!Buffers, QP!Buffers, Q!bufvars, QP!bufvars,
              Q!nodevars, QP!nodevars, QP!Next
<1> QED BY <1>1, <1>2, <1>3, <1>4, <1>5 DEF Q!Next

\* However many threads use the node, however late the handler is and whenever
\* the sensor falls silent, the buffers queue in front of the CCDC is sound: its
\* two lists agree, and the buffers the CCDC is given while the pipeline runs
\* are allocated, not userspace's and pinned.
THEOREM QueueOfCaptureIsSafe ==
  ASSUME ~WrongTypes, ~SensorFails
  PROVE  Spec => [](Q!MainQueueExact /\ Q!ListsAgree /\ Q!DeviceTargetsPinned /\ Q!DriverContract)
PROOF
<1> DEFINE Inv == IrqsOfPipeline /\ QP!IndInv
<1>1. Init => Inv
  <2>1. Init => QP!Init
    BY DEF Init, QP!Init, Buffers, QP!Buffers
  <2> QED BY <2>1, QP!InitInd, CaptureAssumption DEF Init, IrqsOfPipeline
<1>2. Inv /\ [Next]_vars => Inv'
  <2> SUFFICES ASSUME Inv, [Next]_vars PROVE Inv'
    OBVIOUS
  <2>1. [QP!Next]_(QP!vars)
    BY StepSimulates, SameStep
  <2> QED BY <2>1, PipelineStep, QP!StepInd, CaptureAssumption
<1>3. Inv => Q!MainQueueExact /\ Q!ListsAgree /\ Q!DeviceTargetsPinned /\ Q!DriverContract
  <2> SUFFICES ASSUME Inv
               PROVE  Q!MainQueueExact /\ Q!ListsAgree /\ Q!DeviceTargetsPinned /\ Q!DriverContract
    OBVIOUS
  <2>1. QP!MainQueueExact /\ QP!ListsAgree /\ QP!DriverContract
    BY DEF QP!IndInv, QP!FlagsAgree
  <2>2. QP!DeviceTargetsPinned
    BY QP!TargetsPinned, CaptureAssumption
  <2>3. Q!MainQueueExact
    BY <2>1 DEF Q!MainQueueExact, QP!MainQueueExact, Q!Buffers, QP!Buffers
  <2>4. Q!ListsAgree
    BY <2>1 DEF Q!ListsAgree, QP!ListsAgree, Q!Finished, QP!Finished, Q!Handed, QP!Handed,
                Q!MidQbuf, QP!MidQbuf, Q!Pending, QP!Pending
  <2>5. Q!DriverContract
    BY <2>1 DEF Q!DriverContract, QP!DriverContract
  <2>6. Q!DeviceTargetsPinned
    BY <2>2 DEF Q!DeviceTargetsPinned, QP!DeviceTargetsPinned, Q!Pending, QP!Pending,
                Q!Target, QP!Target
  <2> QED BY <2>3, <2>4, <2>5, <2>6
<1> QED BY <1>1, <1>2, <1>3, PTL DEF Spec

-----------------------------------------------------------------------------
(* One thread, prompt interrupts, a sensor that starts and keeps going.    *)

\* Where a thread may be in STREAMON and STREAMOFF.
InStream == {"streamon_queue", "streamon_hw", "streamon_end", "streamon_error",
             "streamoff_check", "streamoff_hw", "streamoff_queue"}

\* What the CCDC does only depends on how far STREAMON or STREAMOFF is.
LEMMA QuietStep ==
  ASSUME CcdcInv,
         UNCHANGED <<swvars, regvars, hwvars, irq, dmaqueue, streaming, vstreaming, hw>>,
         \A u \in Threads : pc'[u] = pc[u] \/ (pc[u] \notin InStream /\ pc'[u] \notin InStream),
         UNCHANGED overtaken, irq = {} \/ UNCHANGED data
  PROVE  CcdcInv'
PROOF
<1>1. /\ In({"streamoff_queue"})' <=> In({"streamoff_queue"})
      /\ In({"streamon_hw"})' <=> In({"streamon_hw"})
      /\ In({"streamoff_hw"})' <=> In({"streamoff_hw"})
      /\ In({"streamon_end"})' <=> In({"streamon_end"})
  BY DEF In, InStream
<1>2. (Off' <=> Off) /\ (StopTail' <=> StopTail) /\ (Running' <=> Running)
  BY <1>1 DEF Off, StopTail, Running, swvars, regvars, hwvars
<1>3. StoppedIsOff' /\ Starting' /\ Stopping'
  BY <1>1, <1>2 DEF CcdcInv, StoppedIsOff, Starting, Stopping, swvars, regvars, hwvars
<1>4. Timing' /\ Handshake' /\ Frames'
  BY <1>1, <1>2 DEF CcdcInv, Timing, Handshake, Frames, swvars, regvars, hwvars
<1>5. FirstIsWritten'
  BY <1>1, <1>2 DEF CcdcInv, FirstIsWritten, swvars, regvars, hwvars
<1> QED BY <1>3, <1>4, <1>5 DEF CcdcInv

\* The calls that leave the streams alone.
QuietCall(t) ==
  \/ \E n \in 0 .. MaxBuffers, m \in {"MMAP", "USERPTR"} : Q!Reqbufs(t, n, m)
  \/ \E b \in Buffers : Q!Mmap(t, b) \/ Q!Munmap(t, b)
  \/ Q!QbufWrongType(t)
  \/ \E b \in Buffers, a \in Addrs \cup {None} : Q!QbufPrepareFails(t, b, a) \/ Q!Qbuf(t, b, a)
  \/ Q!Dqbuf(t) \/ Q!DqbufWait(t) \/ Q!DqbufWakes(t) \/ Q!DqbufInterrupted(t)
  \/ Q!PollWait(t) \/ Q!PollTimeout(t) \/ Q!PollAgain(t)

LEMMA QuietFrame ==
  ASSUME NEW t \in Threads, pc \in [Threads -> Q!PC], QuietCall(t)
  PROVE  /\ UNCHANGED <<dmaqueue, streaming, vstreaming, hw, stream_lock>>
         /\ pc[t] \notin InStream /\ pc'[t] \notin InStream
         /\ \A u \in Threads : u # t => pc'[u] = pc[u]
         /\ pc'[t] = "qbuf" => streaming
         /\ lock' # None => lock' = lock \/ pc'[t] \in {"qbuf", "dqbuf"}
         /\ pc'[t] # pc[t] /\ pc[t] \in {"qbuf", "dqbuf"} => lock' = None
PROOF
<1>1. ASSUME NEW n, NEW m, Q!Reqbufs(t, n, m)
      PROVE  UNCHANGED <<dmaqueue, streaming, vstreaming, hw, stream_lock, pc, lock>> /\ pc[t] = "user"
  BY <1>1 DEF Q!Reqbufs, Q!nodevars
<1>2. ASSUME NEW b, Q!Mmap(t, b) \/ Q!Munmap(t, b)
      PROVE  UNCHANGED <<dmaqueue, streaming, vstreaming, hw, stream_lock, pc, lock>> /\ pc[t] = "user"
  BY <1>2 DEF Q!Mmap, Q!Munmap, Q!nodevars
<1>3. ASSUME NEW b, NEW a, Q!QbufPrepareFails(t, b, a)
      PROVE  UNCHANGED <<dmaqueue, streaming, vstreaming, hw, stream_lock, pc, lock>> /\ pc[t] = "user"
  BY <1>3 DEF Q!QbufPrepareFails, Q!QbufChecks, Q!nodevars
<1>4. ASSUME Q!QbufWrongType(t)
      PROVE  UNCHANGED <<dmaqueue, streaming, vstreaming, hw, stream_lock, pc>> /\ lock' = None /\ pc[t] = "user"
  BY <1>4 DEF Q!QbufWrongType, Q!nodevars
<1>5. ASSUME Q!Dqbuf(t)
      PROVE  UNCHANGED <<dmaqueue, streaming, vstreaming, hw, stream_lock, pc, lock>> /\ pc[t] = "user"
  BY <1>5 DEF Q!Dqbuf, Q!nodevars
<1>6. ASSUME NEW b, NEW a, Q!Qbuf(t, b, a)
      PROVE  /\ UNCHANGED <<dmaqueue, streaming, vstreaming, hw, stream_lock>> /\ pc[t] = "user"
             /\ \/ UNCHANGED <<pc, lock>>
                \/ streaming /\ pc' = [pc EXCEPT ![t] = "qbuf"]
  BY <1>6 DEF Q!Qbuf, Q!QbufChecks, Q!Goto, Q!nodevars
<1>7. ASSUME Q!DqbufWait(t)
      PROVE  /\ UNCHANGED <<dmaqueue, streaming, vstreaming, hw, stream_lock>> /\ pc[t] = "user"
             /\ pc' = [pc EXCEPT ![t] = "dqbuf"]
  BY <1>7 DEF Q!DqbufWait, Q!Goto, Q!nodevars
<1>8. ASSUME Q!DqbufWakes(t) \/ Q!DqbufInterrupted(t)
      PROVE  /\ UNCHANGED <<dmaqueue, streaming, vstreaming, hw, stream_lock>> /\ pc[t] = "dqbuf"
             /\ pc' = [pc EXCEPT ![t] = "user"] /\ lock' = None
  BY <1>8 DEF Q!DqbufWakes, Q!DqbufInterrupted, Q!Goto, Q!nodevars
<1>9. ASSUME Q!PollWait(t) \/ Q!PollTimeout(t) \/ Q!PollAgain(t)
      PROVE  /\ UNCHANGED <<dmaqueue, streaming, vstreaming, hw, stream_lock, lock>>
             /\ pc[t] \in {"user", "poll", "repoll"}
             /\ pc' = [pc EXCEPT ![t] = "user"] \/ pc' = [pc EXCEPT ![t] = "poll"]
  BY <1>9 DEF Q!PollWait, Q!PollTimeout, Q!PollAgain, Q!Goto, Q!nodevars
<1> QED BY <1>1, <1>2, <1>3, <1>4, <1>5, <1>6, <1>7, <1>8, <1>9 DEF QuietCall, InStream

\* They are the calls of IspCapture that do not reach the CCDC.
LEMMA QuietKeeps ==
  ASSUME OneThread, NEW t \in Threads, CaptureInv, irq = {}, QuietCall(t),
         UNCHANGED <<swvars, regvars, hwvars, irq, overtaken>>
  PROVE  FlagsFollow' /\ CcdcInv'
PROOF
<1>1. pc \in [Threads -> Q!PC]
  BY DEF CaptureInv, QP!IndInv, QP!LockInv, QP!TypeOK, QP!PC, Q!PC
<1>2. /\ UNCHANGED <<dmaqueue, streaming, vstreaming, hw, stream_lock>>
      /\ pc[t] \notin InStream /\ pc'[t] \notin InStream
      /\ pc'[t] = "qbuf" => streaming
      /\ lock' # None => lock' = lock \/ pc'[t] \in {"qbuf", "dqbuf"}
      /\ pc'[t] # pc[t] /\ pc[t] \in {"qbuf", "dqbuf"} => lock' = None
  BY <1>1, QuietFrame
<1>3. CcdcInv'
  BY <1>2, QuietStep DEF CaptureInv, OneThread
<1>4. \A S : (In(S) <=> pc[t] \in S) /\ (In(S)' <=> pc'[t] \in S)
  BY DEF OneThread, In
<1>5. FlagsFollow'
  BY <1>2, <1>4 DEF CaptureInv, FlagsFollow, InStream, swvars
<1> QED BY <1>3, <1>5

\* The steps of STREAMON and STREAMOFF that do not touch the CCDC.
StreamCall(t) ==
  \/ Q!Streamon(t) \/ Q!StreamonInvalid(t) \/ Q!StreamonEnd(t) \/ Q!StreamonError(t)
  \/ Q!Streamoff(t) \/ Q!StreamoffCheck(t) \/ Q!StreamoffQueue(t)

LEMMA StreamKeeps ==
  ASSUME OneThread, NEW t \in Threads, CaptureInv, irq = {}, StreamCall(t),
         UNCHANGED <<swvars, regvars, hwvars, irq, overtaken>>
  PROVE  FlagsFollow' /\ CcdcInv'
PROOF
<1>1. pc \in [Threads -> Q!PC]
  BY DEF CaptureInv, QP!IndInv, QP!LockInv, QP!TypeOK, QP!PC, Q!PC
<1>2. \A S : (In(S) <=> pc[t] \in S) /\ (In(S)' <=> pc'[t] \in S)
  BY DEF OneThread, In
<1>3. FlagsFollow /\ CcdcInv
  BY DEF CaptureInv
<1>4. /\ pc[t] \notin {"qbuf", "dqbuf"} => lock = None
      /\ pc[t] \notin {"streamon_hw", "streamoff_hw"} => step = "entry"
  BY <1>2, <1>3 DEF FlagsFollow
<1>5. CASE Q!Streamon(t)
  <2>1. /\ pc[t] = "user" /\ pc'[t] = "streamon_queue" /\ ~vstreaming /\ ~streaming
        /\ UNCHANGED <<streaming, vstreaming, hw, lock>>
    BY <1>1, <1>2, <1>3, <1>5 DEF Q!Streamon, Q!Goto, FlagsFollow
  <2>2. FlagsFollow'
    BY <1>2, <1>3, <1>4, <2>1 DEF FlagsFollow, swvars
  <2>3. Off' /\ ~Running' /\ ~StopTail'
    BY <1>2, <1>3, <2>1 DEF CcdcInv, StoppedIsOff, Off, Running, StopTail, swvars, regvars, hwvars
  <2> QED BY <1>2, <2>1, <2>2, <2>3
          DEF CcdcInv, StoppedIsOff, Starting, Stopping, Timing, Handshake, Frames, FirstIsWritten
<1>6. CASE Q!StreamonInvalid(t) \/ Q!StreamonError(t) \/ Q!Streamoff(t)
  <2>1. /\ UNCHANGED <<streaming, vstreaming, hw, lock, dmaqueue>>
        /\ ~vstreaming \/ pc'[t] = "streamoff_check"
        /\ pc'[t] \in {"user", "streamon_error", "streamoff_check"}
        /\ pc[t] \in {"user", "streamon_error"}
    BY <1>1, <1>2, <1>3, <1>6 DEF Q!StreamonInvalid, Q!StreamonError, Q!Streamoff,
                            Q!QueueStreamoff, Q!Goto, FlagsFollow
  <2>2. FlagsFollow'
    BY <1>2, <1>3, <1>4, <2>1 DEF FlagsFollow, swvars
  <2>3. (Off' <=> Off) /\ (Running' <=> Running) /\ (StopTail' <=> StopTail)
    BY <1>2, <2>1 DEF Off, Running, StopTail, swvars, regvars, hwvars
  <2>4. StoppedIsOff' /\ Starting' /\ Stopping' /\ Handshake'
    BY <1>2, <1>3, <1>4, <2>1, <2>3
       DEF CcdcInv, StoppedIsOff, Starting, Stopping, StopTail, Handshake, swvars, regvars, hwvars
  <2>5. Timing' /\ Frames' /\ FirstIsWritten'
    BY <1>2, <1>3, <2>1, <2>3
       DEF CcdcInv, Timing, Frames, FirstIsWritten, swvars, regvars, hwvars
  <2> QED BY <2>2, <2>4, <2>5 DEF CcdcInv
<1>7. CASE Q!StreamonEnd(t)
  <2>1. /\ UNCHANGED <<streaming, hw, lock, dmaqueue>> /\ vstreaming'
        /\ pc[t] = "streamon_end" /\ pc'[t] = "user"
    BY <1>1, <1>7 DEF Q!StreamonEnd, Q!Goto
  <2>2. FlagsFollow'
    BY <1>2, <1>3, <1>4, <2>1 DEF FlagsFollow, swvars
  <2>3. Running /\ Running' /\ ~StopTail'
    BY <1>2, <2>1 DEF Running, StopTail
  <2>4. StoppedIsOff' /\ Starting' /\ Stopping' /\ Handshake'
    BY <1>2, <1>3, <1>4, <2>1, <2>2, <2>3
       DEF CcdcInv, StoppedIsOff, Starting, Stopping, Handshake, FlagsFollow, swvars, regvars, hwvars
  <2>5. Timing' /\ Frames' /\ FirstIsWritten'
    BY <1>2, <1>3, <2>1, <2>3
       DEF CcdcInv, Timing, Frames, FirstIsWritten, swvars, regvars, hwvars
  <2> QED BY <2>2, <2>4, <2>5 DEF CcdcInv
<1>8. CASE Q!StreamoffCheck(t)
  <2>1. /\ UNCHANGED <<streaming, vstreaming, hw, lock, dmaqueue>>
        /\ pc[t] = "streamoff_check"
        /\ (streaming /\ pc'[t] = "streamoff_hw") \/ (~streaming /\ pc'[t] = "user")
    BY <1>1, <1>8 DEF Q!StreamoffCheck, Q!Goto
  <2>2. FlagsFollow'
    BY <1>2, <1>3, <1>4, <2>1 DEF FlagsFollow, swvars
  <2>3. (Off' <=> Off) /\ (Running' <=> Running) /\ ~StopTail'
    BY <1>2, <1>4, <2>1 DEF Off, Running, StopTail, swvars, regvars, hwvars
  <2>4. StoppedIsOff' /\ Starting' /\ Stopping' /\ Handshake'
    BY <1>2, <1>3, <1>4, <2>1, <2>3
       DEF CcdcInv, StoppedIsOff, Starting, Stopping, StopTail, Handshake, swvars, regvars, hwvars
  <2>5. Timing' /\ Frames' /\ FirstIsWritten'
    BY <1>2, <1>3, <2>1, <2>3
       DEF CcdcInv, Timing, Frames, FirstIsWritten, swvars, regvars, hwvars
  <2> QED BY <2>2, <2>4, <2>5 DEF CcdcInv
<1>9. CASE Q!StreamoffQueue(t)
  <2>1. /\ pc[t] = "streamoff_queue" /\ pc'[t] = "user" /\ streaming
        /\ ~streaming' /\ ~vstreaming' /\ UNCHANGED <<hw, lock>>
    BY <1>1, <1>2, <1>3, <1>9 DEF Q!StreamoffQueue, Q!QueueStreamoff, FlagsFollow
  <2>2. FlagsFollow'
    BY <1>2, <1>3, <1>4, <2>1 DEF FlagsFollow, swvars
  <2>3. Off' /\ ~Running' /\ ~StopTail'
    BY <1>2, <1>3, <2>1 DEF CcdcInv, StoppedIsOff, Off, Running, StopTail, swvars, regvars, hwvars
  <2> QED BY <1>2, <2>1, <2>2, <2>3
          DEF CcdcInv, StoppedIsOff, Starting, Stopping, Timing, Handshake, Frames, FirstIsWritten
<1> QED BY <1>5, <1>6, <1>7, <1>8, <1>9 DEF StreamCall

\* The first buffer that reaches an empty IRQ queue is programmed and recorded
\* as an underrun.
LEMMA QueueingKeeps ==
  ASSUME OneThread, NEW t \in Threads, CaptureInv, irq = {},
         QbufToDevice(t) \/ StreamonQueue(t), UNCHANGED overtaken
  PROVE  FlagsFollow' /\ CcdcInv'
PROOF
<1>1. pc \in [Threads -> Q!PC]
  BY DEF CaptureInv, QP!IndInv, QP!LockInv, QP!TypeOK, QP!PC, Q!PC
<1>2. \A S : (In(S) <=> pc[t] \in S) /\ (In(S)' <=> pc'[t] \in S)
  BY DEF OneThread, In
<1>3. FlagsFollow /\ CcdcInv
  BY DEF CaptureInv
<1>4. /\ pc[t] \notin {"qbuf", "dqbuf"} => lock = None
      /\ pc[t] \notin {"streamon_hw", "streamoff_hw"} => step = "entry"
  BY <1>2, <1>3 DEF FlagsFollow
<1>5. queue \in Seq(Buffers) /\ dmaqueue \in Seq(Buffers)
  BY DEF CaptureInv, QP!IndInv, QP!LockInv, QP!TypeOK, QP!Buffers, Buffers
<1>6. CASE QbufToDevice(t)
  <2>1. /\ pc[t] = "qbuf" /\ pc'[t] = "user" /\ lock' = None
        /\ dmaqueue' = Append(dmaqueue, arg[t]) /\ arg[t] \in Buffers
        /\ UNCHANGED <<streaming, vstreaming, hw, stream_lock>>
    <3>1. queue # <<>> /\ arg[t] = queue[Len(queue)]
      BY <1>6 DEF CaptureInv, QP!IndInv, QP!LockInv, QP!ArgValid, QbufToDevice, Q!QbufToDevice
    <3>2. arg[t] \in Buffers
      BY <1>5, <3>1
    <3> QED BY <1>1, <1>6, <3>2 DEF QbufToDevice, Q!QbufToDevice, Q!Goto, Q!nodevars
  <2>2. /\ UNCHANGED <<step, cstate, stopping, en, sbl, hwvars, irq, data>>
        /\ dmaqueue = <<>> => outaddr' = arg[t] /\ underrun' = TRUE
        /\ dmaqueue # <<>> => UNCHANGED <<outaddr, underrun>>
    BY <1>6 DEF QbufToDevice, CcdcVideoQueue, NoVideoQueue, swvars, regvars
  <2>3. /\ dmaqueue' # <<>>
        /\ dmaqueue = <<>> => Head(dmaqueue') = arg[t]
        /\ dmaqueue # <<>> => Head(dmaqueue') = Head(dmaqueue)
    BY <1>5, <2>1
  <2>4. FlagsFollow'
    BY <1>2, <1>3, <1>4, <2>1, <2>2 DEF FlagsFollow
  <2>5. Running /\ Running' /\ ~StopTail' /\ streaming /\ step = "entry"
    BY <1>2, <1>3, <1>4, <2>1, <2>2 DEF Running, StopTail, FlagsFollow
  <2>6. StoppedIsOff' /\ Starting' /\ Stopping' /\ Handshake'
    BY <1>2, <1>3, <2>1, <2>2, <2>5
       DEF CcdcInv, StoppedIsOff, Starting, Stopping, Handshake, hwvars
  <2>7. Timing' /\ Frames'
    BY <1>3, <2>2, <2>3, <2>5 DEF CcdcInv, Timing, Frames, hwvars
  <2>8. FirstIsWritten'
    BY <1>2, <1>3, <2>1, <2>2, <2>3, <2>5 DEF CcdcInv, FirstIsWritten, hwvars
  <2> QED BY <2>4, <2>6, <2>7, <2>8 DEF CcdcInv
<1>7. CASE StreamonQueue(t)
  <2>1. /\ pc[t] = "streamon_queue" /\ pc'[t] = "streamon_hw" /\ streaming' = TRUE
        /\ ~streaming /\ ~vstreaming /\ dmaqueue = <<>> /\ dmaqueue' = queue
        /\ UNCHANGED <<lock, vstreaming, hw, stream_lock>>
    <3>1. ~streaming /\ dmaqueue = <<>>
      BY <1>7 DEF CaptureInv, QP!IndInv, QP!FlagsAgree, StreamonQueue, Q!StreamonQueue
    <3>2. <<>> \o queue = queue
      BY <1>5
    <3> QED BY <1>1, <1>2, <1>3, <1>7, <3>1, <3>2
            DEF StreamonQueue, Q!StreamonQueue, Q!Goto, Q!nodevars, FlagsFollow
  <2>2. stream_lock # None
    BY <2>1, CaptureAssumption
       DEF CaptureInv, QP!IndInv, QP!LockInv, QP!StreamLockOwned, QP!InStreamLock
  <2>3. /\ UNCHANGED <<step, cstate, stopping, en, sbl, hwvars, irq, data>>
        /\ queue # <<>> => outaddr' = Head(queue) /\ underrun' = TRUE
        /\ queue = <<>> => UNCHANGED <<outaddr, underrun>>
    BY <1>7, <2>1 DEF StreamonQueue, CcdcVideoQueue, NoVideoQueue, swvars, regvars
  <2>4. Off
    BY <1>3, <2>1 DEF CcdcInv, StoppedIsOff
  <2>5. FlagsFollow'
    BY <1>2, <1>3, <1>4, <2>1, <2>2, <2>3 DEF FlagsFollow
  <2>6. ~Running' /\ ~StopTail'
    BY <1>2, <2>1 DEF Running, StopTail
  <2>7. Starting'
    BY <1>2, <2>1, <2>3, <2>4 DEF Starting, Off, hwvars
  <2> QED BY <1>2, <2>1, <2>5, <2>6, <2>7
          DEF CcdcInv, StoppedIsOff, Stopping, Timing, Handshake, Frames, FirstIsWritten
<1> QED BY <1>6, <1>7

\* set_stream(CONTINUOUS): nothing runs until the sensor does.
LEMMA StartKeeps ==
  ASSUME OneThread, NEW t \in Threads, CaptureInv, irq = {},
         CcdcStart(t) \/ CcdcStartClear(t) \/ CcdcStartState(t) \/ SensorStarts(t),
         UNCHANGED overtaken
  PROVE  FlagsFollow' /\ CcdcInv'
PROOF
<1>1. pc \in [Threads -> Q!PC]
  BY DEF CaptureInv, QP!IndInv, QP!LockInv, QP!TypeOK, QP!PC, Q!PC
<1>2. \A S : (In(S) <=> pc[t] \in S) /\ (In(S)' <=> pc'[t] \in S)
  BY DEF OneThread, In
<1>3. FlagsFollow /\ CcdcInv
  BY DEF CaptureInv
<1>4. pc[t] = "streamon_hw" /\ streaming /\ ~vstreaming /\ lock = None /\ stream_lock # None
  BY <1>2, <1>3 DEF CcdcStart, CcdcStartClear, CcdcStartState, SensorStarts, At, FlagsFollow
<1>5. CASE CcdcStart(t) \/ CcdcStartClear(t) \/ CcdcStartState(t)
  <2>1. UNCHANGED <<pc, streaming, vstreaming, lock, stream_lock, dmaqueue, hw>>
    BY <1>5 DEF CcdcStart, CcdcStartClear, CcdcStartState, qvars
  <2>2. FlagsFollow'
    BY <1>2, <1>3, <1>4, <2>1 DEF FlagsFollow
  <2>3. ~Running' /\ ~StopTail'
    BY <1>2, <1>4, <2>1 DEF Running, StopTail
  <2>4. Starting'
    BY <1>2, <1>3, <1>4, <1>5, <2>1
       DEF CcdcInv, Starting, CcdcStart, CcdcStartClear, CcdcStartState, At, regvars, hwvars
  <2> QED BY <1>2, <1>4, <2>1, <2>2, <2>3, <2>4
          DEF CcdcInv, StoppedIsOff, Stopping, Timing, Handshake, Frames, FirstIsWritten
<1>6. CASE SensorStarts(t)
  <2>1. /\ pc'[t] = "streamon_end" /\ step = "sensor" /\ step' = "entry" /\ sensor' /\ hw'
        /\ UNCHANGED <<streaming, vstreaming, lock, stream_lock, dmaqueue>>
        /\ UNCHANGED <<cstate, underrun, stopping, regvars, phase, writing, irq, data>>
    BY <1>1, <1>6 DEF SensorStarts, At, Q!StreamonStarts, Q!Goto
  <2>2. FlagsFollow'
    BY <1>2, <1>3, <1>4, <2>1 DEF FlagsFollow
  <2>3. Running' /\ ~StopTail'
    BY <1>2, <1>4, <2>1 DEF Running, StopTail
  <2>4. /\ phase = "blank" /\ writing = None /\ irq = {} /\ stopping = "NOT_REQUESTED" /\ sbl
        /\ overtaken \/ (en <=> dmaqueue # <<>>)
        /\ ~underrun /\ cstate = "CONTINUOUS"
        /\ dmaqueue # <<>> => outaddr = Head(dmaqueue)
    BY <1>2, <1>3, <1>4, <2>1 DEF CcdcInv, Starting
  <2>5. StoppedIsOff' /\ Starting' /\ Stopping' /\ Handshake'
    BY <1>2, <1>4, <2>1, <2>3, <2>4 DEF StoppedIsOff, Starting, Stopping, Handshake, regvars
  <2>6. Timing' /\ Frames' /\ FirstIsWritten'
    BY <2>1, <2>3, <2>4 DEF Timing, Frames, FirstIsWritten, regvars
  <2> QED BY <2>2, <2>5, <2>6 DEF CcdcInv
<1> QED BY <1>5, <1>6

\* set_stream(STOPPED): the thread waits for the handshake, then clears up.
LEMMA StopKeeps ==
  ASSUME OneThread, ~SensorStalls, NEW t \in Threads, CaptureInv, irq = {},
         CcdcStop(t) \/ CcdcStopReset(t) \/ CcdcStopClear(t) \/ CcdcStopState(t) \/ SensorStops(t),
         UNCHANGED overtaken
  PROVE  FlagsFollow' /\ CcdcInv'
PROOF
<1>1. pc \in [Threads -> Q!PC]
  BY DEF CaptureInv, QP!IndInv, QP!LockInv, QP!TypeOK, QP!PC, Q!PC
<1>2. \A S : (In(S) <=> pc[t] \in S) /\ (In(S)' <=> pc'[t] \in S)
  BY DEF OneThread, In
<1>3. FlagsFollow /\ CcdcInv
  BY DEF CaptureInv
<1>4. pc[t] = "streamoff_hw" /\ streaming /\ vstreaming /\ lock = None
  BY <1>2, <1>3 DEF CcdcStop, CcdcStopReset, CcdcStopClear, CcdcStopState, SensorStops, At, FlagsFollow
<1>5. CASE CcdcStop(t) \/ CcdcStopReset(t) \/ CcdcStopClear(t) \/ CcdcStopState(t)
  <2>1. UNCHANGED <<pc, streaming, vstreaming, lock, stream_lock, dmaqueue, hw>>
    BY <1>5 DEF CcdcStop, CcdcStopReset, CcdcStopClear, CcdcStopState, qvars
  <2>2. FlagsFollow'
    BY <1>2, <1>3, <1>4, <2>1 DEF FlagsFollow
  <2>3. StoppedIsOff' /\ Starting'
    BY <1>2, <1>4, <2>1 DEF StoppedIsOff, Starting
  <2>4. CASE CcdcStop(t)
    <3>1. /\ Running /\ Running' /\ ~StopTail' /\ step = "entry" /\ stopping = "NOT_REQUESTED"
          /\ step' = "wait" /\ stopping' = "REQUEST"
          /\ UNCHANGED <<cstate, underrun, regvars, hwvars, irq, data>>
      <4>1. step = "entry" /\ Running
        BY <1>2, <1>4, <2>4 DEF Running, StopTail, CcdcStop, At
      <4>2. cstate = "CONTINUOUS" /\ stopping = "NOT_REQUESTED"
        BY <1>3, <4>1 DEF CcdcInv, Handshake
      <4>3. /\ step' = "wait" /\ stopping' = "REQUEST"
            /\ UNCHANGED <<cstate, underrun, regvars, hwvars, irq, data>>
        BY <2>4, <4>2 DEF CcdcStop
      <4> QED BY <1>2, <1>4, <2>1, <4>1, <4>2, <4>3 DEF Running, StopTail
    <3>2. Stopping' /\ Handshake'
      BY <1>2, <1>3, <1>4, <2>1, <3>1 DEF CcdcInv, Stopping, Handshake, regvars, hwvars
    <3>3. Timing' /\ Frames' /\ FirstIsWritten'
      BY <1>2, <1>3, <2>1, <3>1 DEF CcdcInv, Timing, Frames, FirstIsWritten, regvars, hwvars
    <3> QED BY <2>2, <2>3, <3>2, <3>3 DEF CcdcInv
  <2>5. CASE CcdcStopReset(t)
    <3>1. /\ Running /\ stopping = "FINISHED" /\ stopping' = "NOT_REQUESTED" /\ step' = "clear"
          /\ ~Running' /\ UNCHANGED <<cstate, underrun, regvars, hwvars, irq, data>>
      BY <1>2, <1>4, <2>1, <2>5 DEF Running, StopTail, CcdcStopReset, At
    <3>2. Stopping' /\ Timing'
      BY <1>3, <2>1, <3>1 DEF CcdcInv, Handshake, Timing, Stopping, regvars, hwvars
    <3> QED BY <2>2, <2>3, <3>1, <3>2 DEF CcdcInv, Handshake, Frames, FirstIsWritten
  <2>6. CASE CcdcStopClear(t) \/ CcdcStopState(t)
    <3>1. StopTail /\ StopTail' /\ ~Running'
      BY <1>2, <1>4, <2>1, <2>6 DEF Running, StopTail, CcdcStopClear, CcdcStopState, At
    <3>2. Stopping' /\ Timing'
      BY <1>3, <2>1, <2>6, <3>1
         DEF CcdcInv, Stopping, Timing, CcdcStopClear, CcdcStopState, At, regvars, hwvars
    <3> QED BY <2>2, <2>3, <3>1, <3>2 DEF CcdcInv, Handshake, Frames, FirstIsWritten
  <2> QED BY <1>5, <2>4, <2>5, <2>6
<1>6. CASE SensorStops(t)
  <2>1. /\ pc'[t] = "streamoff_queue" /\ step = "sensor" /\ step' = "entry"
        /\ ~sensor' /\ phase' = "blank" /\ writing' = None
        /\ UNCHANGED <<streaming, vstreaming, lock, stream_lock, dmaqueue>>
        /\ UNCHANGED <<cstate, underrun, stopping, regvars, irq, data>>
    BY <1>1, <1>6 DEF SensorStops, At, Q!StreamoffStops, Q!Goto
  <2>2. FlagsFollow'
    BY <1>2, <1>3, <1>4, <2>1 DEF FlagsFollow
  <2>3. StopTail /\ ~StopTail' /\ ~Running'
    BY <1>2, <1>4, <2>1 DEF Running, StopTail
  <2>4. Off'
    BY <1>3, <2>1, <2>3 DEF CcdcInv, Stopping, Off, regvars
  <2> QED BY <1>2, <2>1, <2>2, <2>3, <2>4
          DEF CcdcInv, StoppedIsOff, Starting, Stopping, Timing, Handshake, Frames, FirstIsWritten
<1> QED BY <1>5, <1>6

LEMMA ThreadKeeps ==
  ASSUME OneThread, ~SensorFails, ~SensorStalls,
         NEW t \in Threads, CaptureInv, irq = {}, ThreadStep(t), UNCHANGED overtaken
  PROVE  FlagsFollow' /\ CcdcInv'
PROOF
<1>1. CASE QueueCall(t)
  BY <1>1, QuietKeeps, StreamKeeps DEF QueueCall, QuietCall, StreamCall
<1>2. CASE Qbuf(t)
  BY <1>2, QuietKeeps DEF Qbuf, QuietCall
<1>3. CASE QbufToDevice(t) \/ StreamonQueue(t)
  BY <1>3, QueueingKeeps
<1>4. CASE CcdcStart(t) \/ CcdcStartClear(t) \/ CcdcStartState(t) \/ SensorStarts(t)
  BY <1>4, StartKeeps
<1>5. CASE CcdcStop(t) \/ CcdcStopReset(t) \/ CcdcStopClear(t) \/ CcdcStopState(t) \/ SensorStops(t)
  BY <1>5, StopKeeps
<1>6. ~SensorStartFails(t)
  BY DEF SensorStartFails
<1> QED BY <1>1, <1>2, <1>3, <1>4, <1>5, <1>6 DEF ThreadStep

\* The sensor streams, and its frames interrupt, until the stop has ended.
LEMMA EventsOfStream ==
  ASSUME CaptureInv
  PROVE  sensor \/ irq # {} => Running \/ StopTail
PROOF
  BY DEF CaptureInv, FlagsFollow, CcdcInv, StoppedIsOff, Off, Starting, Running, In

\* omap3isp_video_buffer_next, as the CCDC sees it.
LEMMA CompleteFrame ==
  ASSUME pc \in [Threads -> Q!PC], dmaqueue \in Seq(Buffers), dmaqueue # <<>>,
         NEW result, Q!BufferNext(result)
  PROVE  /\ UNCHANGED <<streaming, vstreaming, hw, lock, stream_lock>>
         /\ dmaqueue' = Tail(dmaqueue)
         /\ dmaqueue' # <<>> <=> Len(dmaqueue) > 1
         /\ Len(dmaqueue) > 1 => Head(dmaqueue') = dmaqueue[2]
         /\ \A u \in Threads : pc'[u] = pc[u] \/ (pc[u] = "poll" /\ pc'[u] = "repoll")
PROOF
<1>1. UNCHANGED <<streaming, vstreaming, hw, lock, stream_lock>> /\ dmaqueue' = Tail(dmaqueue)
  BY DEF Q!BufferNext, Q!nodevars
<1>2. \A u \in Threads : pc'[u] = pc[u] \/ (pc[u] = "poll" /\ pc'[u] = "repoll")
  BY DEF Q!BufferNext, Q!WakeUp
<1>3. /\ Len(dmaqueue) \in Nat /\ Len(dmaqueue) > 0
      /\ Len(Tail(dmaqueue)) = Len(dmaqueue) - 1
      /\ \A i \in 1 .. Len(dmaqueue) - 1 : Tail(dmaqueue)[i] = dmaqueue[i + 1]
  OBVIOUS
<1>4. Tail(dmaqueue) # <<>> <=> Len(dmaqueue) > 1
  <2>1. Tail(dmaqueue) \in Seq(Buffers)
    OBVIOUS
  <2>2. ASSUME NEW q \in Seq(Buffers)
        PROVE  q # <<>> <=> Len(q) > 0
    OBVIOUS
  <2>3. Tail(dmaqueue) # <<>> <=> Len(Tail(dmaqueue)) > 0
    BY <2>1, <2>2
  <2> QED BY <1>3, <2>3
<1>5. Len(dmaqueue) > 1 => Tail(dmaqueue)[1] = dmaqueue[2]
  BY <1>3
<1> QED BY <1>1, <1>2, <1>4, <1>5

LEMMA IsrKeeps ==
  ASSUME CaptureInv, CcdcIsr
  PROVE  FlagsFollow' /\ CcdcInv'
PROOF
<1>1. pc \in [Threads -> Q!PC] /\ dmaqueue \in Seq(Buffers)
  BY DEF CaptureInv, QP!IndInv, QP!LockInv, QP!TypeOK, QP!PC, Q!PC, QP!Buffers, Buffers
<1>2. FlagsFollow /\ CcdcInv
  BY DEF CaptureInv
<1>3. /\ Running \/ StopTail
      /\ irq # {} /\ irq' = {} /\ UNCHANGED <<step, cstate, sbl, hwvars, data>>
  BY EventsOfStream DEF CcdcIsr, IspIsr
\* Whatever the event, the thread stays where it is.
<1>4. /\ UNCHANGED <<streaming, vstreaming, hw, lock, stream_lock>>
      /\ \A u \in Threads : pc'[u] = pc[u] \/ (pc[u] = "poll" /\ pc'[u] = "repoll")
  <2>1. CASE UNCHANGED qvars
    BY <2>1 DEF qvars
  <2>2. CASE Vd0Complete
    BY <1>1, <2>2, CompleteFrame DEF Vd0Complete
  <2> QED BY <2>1, <2>2 DEF CcdcIsr, Vd0Nothing, Vd0Restart
<1>5. \A S : S \cap {"poll", "repoll"} = {} => (In(S)' <=> In(S))
  BY <1>4 DEF In
<1>6. /\ In({"streamoff_queue"})' <=> In({"streamoff_queue"})
      /\ In({"streamon_hw"})' <=> In({"streamon_hw"})
      /\ In({"streamoff_hw"})' <=> In({"streamoff_hw"})
      /\ In({"streamon_end"})' <=> In({"streamon_end"})
      /\ In({"streamon_hw", "streamon_end"})' <=> In({"streamon_hw", "streamon_end"})
      /\ In({"streamon_queue", "streamon_hw", "streamon_end", "streamon_error"})'
         <=> In({"streamon_queue", "streamon_hw", "streamon_end", "streamon_error"})
      /\ In({"qbuf", "streamoff_hw", "streamoff_queue"})'
         <=> In({"qbuf", "streamoff_hw", "streamoff_queue"})
      /\ In({"qbuf", "dqbuf"})' <=> In({"qbuf", "dqbuf"})
      /\ In({"streamon_hw", "streamoff_hw"})' <=> In({"streamon_hw", "streamoff_hw"})
  BY <1>5
<1>7. FlagsFollow'
  BY <1>2, <1>3, <1>4, <1>6 DEF FlagsFollow
<1>8. (Running' <=> Running) /\ (StopTail' <=> StopTail)
  BY <1>3, <1>4, <1>6 DEF Running, StopTail
<1>9. StoppedIsOff' /\ Starting'
  <2>1. streaming /\ ~In({"streamoff_queue"}) /\ ~In({"streamon_hw"})
    BY <1>2, <1>3 DEF CcdcInv, StoppedIsOff, Off, Starting
  <2> QED BY <1>4, <1>6, <2>1 DEF StoppedIsOff, Starting
<1>10. Timing'
  BY <1>2, <1>3, <1>8 DEF CcdcInv, Timing, hwvars
\* The thread clears up: a VD0 now overtakes it.
<1>11. CASE StopTail
  <2>1. ~Running
    BY <1>11 DEF Running
  <2>2. stopping = "NOT_REQUESTED" /\ irq \in {{"VD1"}, {"VD0"}}
    BY <1>2, <1>3, <1>11 DEF CcdcInv, Stopping, Timing
  <2>3. AfterVd1Stopping = stopping /\ ~StopHandled
    BY <2>2 DEF AfterVd1Stopping, StopHandled
  <2>4. Stopping'
    <3>1. CASE step = "sensor"
      <4>1. cstate = "STOPPED" /\ ~Withdrawn
        BY <1>2, <1>11, <3>1 DEF CcdcInv, Stopping, Withdrawn
      <4>2. UNCHANGED <<underrun, stopping, en>> /\ (overtaken' <=> overtaken)
        BY <4>1 DEF CcdcIsr
      <4> QED BY <1>2, <1>3, <1>8, <1>11, <4>2 DEF CcdcInv, Stopping, hwvars
    <3>2. CASE step # "sensor"
      <4>1. cstate = "CONTINUOUS" /\ Withdrawn
        BY <1>2, <1>11, <3>2 DEF CcdcInv, Stopping, Withdrawn, StopTail, In
      <4>2. CASE "VD0" \notin irq
        <5>1. en' = FALSE /\ stopping' = stopping /\ UNCHANGED underrun /\ (overtaken' <=> overtaken)
          BY <2>2, <2>3, <4>1, <4>2 DEF CcdcIsr, AfterVd1Enable
        <5> QED BY <1>2, <1>3, <1>8, <1>11, <5>1 DEF CcdcInv, Stopping, hwvars
      <4>3. CASE "VD0" \in irq
        <5>1. overtaken' /\ (Vd0Nothing \/ Vd0Restart \/ Vd0Complete)
          BY <4>1, <4>3 DEF CcdcIsr
        <5>2. stopping' = stopping /\ (underrun' = underrun \/ underrun' = FALSE)
          BY <2>3, <5>1 DEF Vd0Nothing, Vd0Restart, Vd0Complete, Vd0Tail
        <5> QED BY <1>2, <1>3, <1>8, <1>11, <5>1, <5>2 DEF CcdcInv, Stopping
      <4> QED BY <4>2, <4>3
    <3> QED BY <3>1, <3>2
  <2> QED BY <1>7, <1>8, <1>9, <1>10, <2>1, <2>4
          DEF CcdcInv, Handshake, Frames, FirstIsWritten
<1>12. CASE Running
  <2>1. /\ Timing /\ Handshake /\ Frames /\ FirstIsWritten /\ cstate # "STOPPED"
        /\ ~StopTail /\ Stopping'
    BY <1>2, <1>8, <1>12 DEF CcdcInv, Handshake, Running, Stopping
  <2>2. overtaken' <=> overtaken
    <3>1. ~Withdrawn
      BY <2>1 DEF StopTail, Withdrawn, In
    <3> QED BY <3>1 DEF CcdcIsr
  <2>3. ASSUME Handshake', Frames', FirstIsWritten'
        PROVE  FlagsFollow' /\ CcdcInv'
    BY <1>7, <1>9, <1>10, <2>1, <2>3 DEF CcdcInv
  <2>4. CASE "VD0" \notin irq
    <3>1. irq = {"VD1"} /\ phase = "second"
      BY <1>3, <1>12, <2>1, <2>4 DEF Timing
    <3>2. /\ en' = FALSE /\ stopping' = (IF stopping = "REQUEST" THEN "EXECUTED" ELSE stopping)
          /\ UNCHANGED <<qvars, underrun, outaddr>>
      BY <2>1, <2>4, <3>1 DEF CcdcIsr, AfterVd1Enable, AfterVd1Stopping
    <3>3. UNCHANGED dmaqueue
      BY <3>2 DEF qvars
    <3>4. Handshake'
      BY <1>3, <1>4, <1>6, <1>8, <1>12, <2>1, <3>1, <3>2 DEF Handshake, hwvars
    <3>5. Frames'
      BY <1>3, <1>12, <2>1, <2>2, <3>2, <3>3 DEF Frames, hwvars
    <3>6. FirstIsWritten'
      BY <1>3, <1>6, <1>12, <2>1, <2>2, <3>1, <3>2, <3>3 DEF FirstIsWritten, hwvars
    <3> QED BY <2>3, <3>4, <3>5, <3>6
  <2>5. CASE "VD0" \in irq
    <3>1. irq = {"VD0"} /\ phase = "blank" /\ writing = None /\ ~en
      BY <1>3, <1>12, <2>1, <2>5 DEF Timing, Handshake
    <3>2. /\ AfterVd1Enable = FALSE /\ AfterVd1Stopping = stopping
          /\ StopHandled <=> stopping \in {"EXECUTED", "FINISHED"}
      BY <3>1 DEF AfterVd1Enable, AfterVd1Stopping, StopHandled
    <3>3. \A restart \in BOOLEAN : Vd0Tail(restart) =>
            /\ stopping' = (IF stopping \in {"EXECUTED", "FINISHED"} THEN "FINISHED" ELSE stopping)
            /\ en' <=> restart /\ stopping \notin {"EXECUTED", "FINISHED"}
      BY <3>2 DEF Vd0Tail
    <3>4. ASSUME NEW restart \in BOOLEAN, Vd0Tail(restart)
          PROVE  Handshake'
      <4>1. /\ stopping' = (IF stopping \in {"EXECUTED", "FINISHED"} THEN "FINISHED" ELSE stopping)
            /\ en' <=> restart /\ stopping \notin {"EXECUTED", "FINISHED"}
        BY <3>3, <3>4
      <4> QED BY <1>3, <1>4, <1>6, <1>12, <2>1, <3>1, <4>1 DEF Handshake, hwvars
    <3>5. ~In({"streamoff_hw"}) => stopping = "NOT_REQUESTED"
      BY <1>12, <2>1 DEF Handshake
    <3>6. CASE Vd0Nothing
      <4>1. dmaqueue = <<>> /\ UNCHANGED <<qvars, underrun, outaddr>> /\ Vd0Tail(FALSE)
        BY <3>1, <3>6 DEF Vd0Nothing
      <4>2. UNCHANGED dmaqueue /\ ~en'
        BY <3>3, <4>1 DEF qvars
      <4>3. Frames' /\ FirstIsWritten'
        BY <1>3, <1>12, <2>1, <2>2, <3>1, <4>1, <4>2 DEF Frames, FirstIsWritten, hwvars
      <4> QED BY <2>3, <3>4, <4>1, <4>3
    <3>7. CASE Vd0Restart
      <4>1. /\ dmaqueue # <<>> /\ underrun /\ underrun' = FALSE
            /\ UNCHANGED <<qvars, outaddr>> /\ Vd0Tail(TRUE)
        BY <3>7 DEF Vd0Restart
      <4>2. UNCHANGED dmaqueue /\ (en' <=> stopping \notin {"EXECUTED", "FINISHED"})
        BY <3>3, <4>1 DEF qvars
      <4>3. Frames'
        BY <1>3, <1>12, <2>1, <2>2, <3>1, <4>1, <4>2 DEF Frames, hwvars
      <4>4. FirstIsWritten'
        BY <1>3, <1>6, <3>1, <3>5, <4>2 DEF FirstIsWritten, hwvars
      <4> QED BY <2>3, <3>4, <4>1, <4>3, <4>4
    <3>8. CASE Vd0Complete
      <4>1. /\ dmaqueue # <<>> /\ ~underrun /\ UNCHANGED underrun /\ Vd0Tail(Len(dmaqueue) > 1)
            /\ outaddr' = IF Len(dmaqueue) > 1 THEN dmaqueue[2] ELSE outaddr
            /\ \E result \in {"DONE", "ERROR"} : Q!BufferNext(result)
        BY <3>8 DEF Vd0Complete
      <4>2. /\ dmaqueue' # <<>> <=> Len(dmaqueue) > 1
            /\ Len(dmaqueue) > 1 => Head(dmaqueue') = dmaqueue[2]
        BY <1>1, <4>1, CompleteFrame
      <4>3. (Len(dmaqueue) > 1) \in BOOLEAN
        OBVIOUS
      <4>4. en' <=> Len(dmaqueue) > 1 /\ stopping \notin {"EXECUTED", "FINISHED"}
        BY <3>3, <4>1, <4>3
      <4>5. Frames'
        BY <1>3, <2>1, <3>1, <4>1, <4>2, <4>4 DEF Frames, hwvars
      <4>6. FirstIsWritten'
        BY <1>3, <1>6, <3>1, <3>5, <4>2, <4>4 DEF FirstIsWritten, hwvars
      <4> QED BY <2>3, <3>4, <4>1, <4>3, <4>5, <4>6
    <3> QED BY <2>1, <2>5, <3>6, <3>7, <3>8 DEF CcdcIsr
  <2> QED BY <2>4, <2>5
<1> QED BY <1>3, <1>11, <1>12

\* A frame starts, reaches VD1 and ends with the handler done each time.
LEMMA HardwareKeeps ==
  ASSUME ~LateIrq, CaptureInv, Hardware, UNCHANGED overtaken
  PROVE  FlagsFollow' /\ CcdcInv'
PROOF
<1>1. (Running \/ StopTail) /\ irq = {}
  BY EventsOfStream DEF Hardware, FrameStart, FrameVd1, FrameEnd, HardwareMayMove
<1>2. /\ FlagsFollow /\ CcdcInv /\ DoneIsFrame
      /\ Stopping /\ Timing /\ Handshake /\ Frames /\ FirstIsWritten
  BY DEF CaptureInv, CcdcInv
<1>3. dmaqueue \in Seq(Buffers)
  BY DEF CaptureInv, QP!IndInv, QP!LockInv, QP!TypeOK, QP!Buffers, Buffers
<1>4. UNCHANGED <<qvars, swvars, regvars, sensor>>
  BY DEF Hardware, FrameStart, FrameVd1, FrameEnd
<1>5. \A S : In(S)' <=> In(S)
  BY <1>4 DEF In, qvars
<1>6. FlagsFollow'
  BY <1>2, <1>4, <1>5 DEF FlagsFollow, qvars, swvars
<1>7. (Running' <=> Running) /\ (StopTail' <=> StopTail)
  BY <1>4, <1>5 DEF Running, StopTail, qvars, swvars
<1>8. StoppedIsOff' /\ Starting'
  <2>1. sensor
    BY DEF Hardware, FrameStart, FrameVd1, FrameEnd
  <2>2. streaming /\ ~In({"streamoff_queue"}) /\ ~In({"streamon_hw"})
    BY <1>2, <2>1 DEF CcdcInv, StoppedIsOff, Off, Starting
  <2> QED BY <1>4, <1>5, <2>2 DEF StoppedIsOff, Starting, qvars
<1>9. CASE FrameStart
  <2>1. /\ phase = "blank" /\ phase' = "first" /\ UNCHANGED irq
        /\ writing' = IF en /\ sbl THEN outaddr ELSE None
    BY <1>9 DEF FrameStart
  <2>2. Timing' /\ Stopping'
    BY <1>1, <1>2, <1>4, <1>7, <2>1 DEF Timing, Stopping, swvars, regvars
  <2>3. Handshake'
    BY <1>1, <1>2, <1>4, <1>5, <1>7, <2>1 DEF Handshake, qvars, swvars, regvars
  <2>4. Running => sbl /\ writing = None
    BY <1>2, <2>1 DEF Handshake, Timing
  <2>5. Frames'
    BY <1>1, <1>2, <1>4, <1>7, <2>1, <2>4 DEF Frames, qvars, swvars, regvars
  <2>6. FirstIsWritten'
    BY <1>1, <1>2, <1>4, <1>5, <1>7, <2>1, <2>4 DEF Frames, FirstIsWritten, qvars, swvars, regvars
  <2> QED BY <1>6, <1>8, <2>2, <2>3, <2>5, <2>6 DEF CcdcInv
<1>10. CASE FrameVd1
  <2>1. /\ phase = "first" /\ phase' = "second" /\ irq' = {"VD1"} /\ UNCHANGED writing
    BY <1>1, <1>10 DEF FrameVd1
  <2>2. Timing' /\ Stopping'
    BY <1>1, <1>2, <1>4, <1>7, <2>1 DEF Timing, Stopping, swvars, regvars
  <2>3. Handshake'
    BY <1>1, <1>2, <1>4, <1>5, <1>7, <2>1 DEF Handshake, qvars, swvars, regvars
  <2>4. Frames'
    BY <1>2, <1>4, <1>7, <2>1 DEF Frames, qvars, swvars, regvars
  <2>5. FirstIsWritten'
    BY <1>1, <1>2, <1>4, <1>5, <1>7, <2>1 DEF FirstIsWritten, qvars, swvars, regvars
  <2> QED BY <1>6, <1>8, <2>2, <2>3, <2>4, <2>5 DEF CcdcInv
<1>11. CASE FrameEnd
  <2>1. /\ phase = "second" /\ phase' = "blank" /\ irq' = {"VD0"} /\ writing' = None
        /\ data' = [b \in Buffers |-> IF b = writing THEN "frame" ELSE data[b]]
    BY <1>1, <1>11 DEF FrameEnd
  <2>2. Timing' /\ Stopping'
    BY <1>1, <1>2, <1>4, <1>7, <2>1 DEF Timing, Stopping, swvars, regvars
  <2>3. Handshake'
    BY <1>1, <1>2, <1>4, <1>5, <1>7, <2>1 DEF Handshake, qvars, swvars, regvars
  <2>4. Frames'
    BY <1>2, <1>4, <1>7, <2>1 DEF Frames, qvars, swvars, regvars
  <2>5. dmaqueue # <<>> => Head(dmaqueue) \in Buffers
    BY <1>3
  <2>6. FirstIsWritten'
    BY <1>1, <1>2, <1>4, <1>5, <1>7, <2>1, <2>5 DEF FirstIsWritten, qvars, swvars, regvars
  <2> QED BY <1>6, <1>8, <2>2, <2>3, <2>4, <2>6 DEF CcdcInv
<1> QED BY <1>9, <1>10, <1>11 DEF Hardware

-----------------------------------------------------------------------------
(* What the buffers hold.                                                  *)

\* A call makes no buffer DONE.
LEMMA CallsCompleteNothing ==
  ASSUME NEW t \in Threads, state \in [Buffers -> Q!BufferState], ThreadStep(t)
  PROVE  \A b \in Buffers : state'[b] = "DONE" => state[b] = "DONE"
PROOF
<1>1. ASSUME NEW b, Q!Dequeue(b)
      PROVE  state' = [state EXCEPT ![b] = "IDLE"]
  BY <1>1 DEF Q!Dequeue
<1>2. CASE QueueCall(t)
  <2>1. CASE \E n \in 0 .. MaxBuffers, m \in {"MMAP", "USERPTR"} : Q!Reqbufs(t, n, m)
    BY <2>1 DEF Q!Reqbufs, Q!FreeAndAlloc, Q!Buffers, Buffers
  <2>2. CASE \/ \E b \in Buffers : Q!Mmap(t, b) \/ Q!Munmap(t, b)
             \/ Q!QbufWrongType(t)
             \/ \E b \in Buffers, a \in Addrs \cup {None} : Q!QbufPrepareFails(t, b, a)
    BY <2>2 DEF Q!Mmap, Q!Munmap, Q!QbufWrongType, Q!QbufPrepareFails
  <2>3. CASE Q!Dqbuf(t) \/ Q!DqbufWakes(t)
    BY <1>1, <2>3 DEF Q!Dqbuf, Q!DqbufWakes
  <2>4. CASE Q!DqbufWait(t) \/ Q!DqbufInterrupted(t) \/ Q!PollWait(t) \/ Q!PollTimeout(t)
             \/ Q!PollAgain(t)
    BY <2>4 DEF Q!DqbufWait, Q!DqbufInterrupted, Q!PollWait, Q!PollTimeout, Q!PollAgain
  <2>5. CASE \/ Q!Streamon(t) \/ Q!StreamonInvalid(t) \/ Q!StreamonEnd(t)
             \/ Q!Streamoff(t) \/ Q!StreamoffCheck(t)
    BY <2>5 DEF Q!Streamon, Q!StreamonInvalid, Q!StreamonEnd, Q!Streamoff, Q!StreamoffCheck
  <2>6. CASE Q!StreamonError(t) \/ Q!StreamoffQueue(t)
    BY <2>6 DEF Q!StreamonError, Q!StreamoffQueue, Q!QueueStreamoff, Q!Buffers, Buffers
  <2> QED BY <1>2, <2>1, <2>2, <2>3, <2>4, <2>5, <2>6 DEF QueueCall
<1>3. CASE Qbuf(t)
  BY <1>3 DEF Qbuf, Q!Qbuf
<1>4. CASE QbufToDevice(t) \/ StreamonQueue(t)
  BY <1>4 DEF QbufToDevice, StreamonQueue, Q!QbufToDevice, Q!StreamonQueue
<1>5. CASE \/ CcdcStart(t) \/ CcdcStartClear(t) \/ CcdcStartState(t)
           \/ CcdcStop(t) \/ CcdcStopReset(t) \/ CcdcStopClear(t) \/ CcdcStopState(t)
  BY <1>5 DEF CcdcStart, CcdcStartClear, CcdcStartState, CcdcStop, CcdcStopReset,
              CcdcStopClear, CcdcStopState, qvars
<1>6. CASE SensorStarts(t) \/ SensorStartFails(t) \/ SensorStops(t)
  BY <1>6 DEF SensorStarts, SensorStartFails, SensorStops,
              Q!StreamonStarts, Q!StreamonFails, Q!StreamoffStops
<1> QED BY <1>2, <1>3, <1>4, <1>5, <1>6 DEF ThreadStep

\* A thread that stops the stream leaves the states alone until it takes every
\* buffer back.
LEMMA StopHandsBack ==
  ASSUME OneThread, NEW t \in Threads, CaptureInv, ThreadStep(t),
         pc[t] \in {"streamoff_hw", "streamoff_queue"}
  PROVE  \/ UNCHANGED state /\ pc'[t] \in {"streamoff_hw", "streamoff_queue"}
         \/ ~streaming' /\ \A b \in Buffers : state'[b] = "IDLE"
PROOF
<1>1. pc \in [Threads -> Q!PC]
  BY DEF CaptureInv, QP!IndInv, QP!LockInv, QP!TypeOK, QP!PC, Q!PC
<1>2. ~QuietCall(t)
  BY <1>1, QuietFrame DEF InStream
<1>3. CASE Q!StreamoffQueue(t)
  <2>1. streaming
    BY DEF CaptureInv, FlagsFollow, In
  <2>2. ~streaming' /\ state' = [b \in Q!Buffers |-> IF b < count THEN "IDLE" ELSE state[b]]
    BY <1>3, <2>1 DEF Q!StreamoffQueue, Q!QueueStreamoff
  <2>3. \A b \in Buffers : ~(b < count) => state[b] = "IDLE"
    BY DEF CaptureInv, QP!IndInv, QP!MainQueueExact, QP!Buffers, Buffers
  <2> QED BY <2>2, <2>3 DEF Q!Buffers, Buffers
<1>4. CASE QueueCall(t) \/ Qbuf(t)
  <2>1. StreamCall(t)
    BY <1>2, <1>4 DEF QueueCall, Qbuf, QuietCall, StreamCall
  <2>2. Q!StreamoffQueue(t)
    BY <2>1 DEF StreamCall, Q!Streamon, Q!StreamonInvalid, Q!StreamonEnd, Q!StreamonError,
                Q!Streamoff, Q!StreamoffCheck
  <2> QED BY <1>3, <2>2
<1>5. CASE CcdcStop(t) \/ CcdcStopReset(t) \/ CcdcStopClear(t) \/ CcdcStopState(t)
  BY <1>5 DEF CcdcStop, CcdcStopReset, CcdcStopClear, CcdcStopState, qvars
<1>6. CASE SensorStops(t)
  BY <1>1, <1>6 DEF SensorStops, Q!StreamoffStops, Q!Goto
<1> QED
  BY <1>4, <1>5, <1>6 DEF ThreadStep, QbufToDevice, StreamonQueue, Q!QbufToDevice,
     Q!StreamonQueue, CcdcStart, CcdcStartClear, CcdcStartState, SensorStarts,
     SensorStartFails, At

\* A buffer holds a frame when the handler completes it, and is not written
\* again before it has been dequeued and queued.
LEMMA FramesKept ==
  ASSUME OneThread, ~LateIrq, CaptureInv, [Next]_vars
  PROVE  DoneIsFrame'
PROOF
<1>1. /\ state \in [Buffers -> Q!BufferState] /\ dmaqueue \in Seq(Buffers)
      /\ pc \in [Threads -> Q!PC] /\ DoneIsFrame
  BY DEF CaptureInv, QP!IndInv, QP!LockInv, QP!TypeOK, QP!Buffers, Buffers, QP!BufferState,
         Q!BufferState, QP!PC, Q!PC
<1> DEFINE Stops == In({"streamoff_hw", "streamoff_queue"})
<1>2. CASE UNCHANGED vars
  BY <1>1, <1>2 DEF DoneIsFrame, vars, qvars, In
<1>3. ASSUME NEW t \in Threads, ThreadStep(t), UNCHANGED overtaken
      PROVE  DoneIsFrame'
  <2>1. \A b \in Buffers : state'[b] = "DONE" => state[b] = "DONE"
    BY <1>1, <1>3, CallsCompleteNothing
  <2>2. \/ UNCHANGED data
        \/ \E b \in Buffers : data' = [data EXCEPT ![b] = "old"]
                              /\ state' = [state EXCEPT ![b] = "QUEUED"]
    BY <1>3 DEF ThreadStep, Qbuf, Q!Qbuf, QueueCall, QbufToDevice, StreamonQueue,
         CcdcVideoQueue, NoVideoQueue, CcdcStart, CcdcStartClear, CcdcStartState, SensorStarts,
         SensorStartFails, CcdcStop, CcdcStopReset, CcdcStopClear, CcdcStopState, SensorStops
  <2>3. data' \in [Buffers -> {"old", "partial", "frame"}]
    BY <1>1, <2>2 DEF DoneIsFrame
  <2>4. (Stops <=> pc[t] \in {"streamoff_hw", "streamoff_queue"})
        /\ (Stops' <=> pc'[t] \in {"streamoff_hw", "streamoff_queue"})
    BY DEF OneThread, In
  <2>5. CASE Stops
    <3>1. Stops' \/ \A b \in Buffers : state'[b] = "IDLE"
      BY <1>3, <2>4, <2>5, StopHandsBack
    <3> QED BY <2>3, <3>1 DEF DoneIsFrame
  <2>6. CASE ~Stops
    <3>1. ASSUME ~overtaken, NEW b \in Buffers, state'[b] = "DONE"
          PROVE  data'[b] = "frame"
      <4>1. data[b] = "frame"
        BY <1>1, <2>1, <2>6, <3>1 DEF DoneIsFrame
      <4> QED BY <1>1, <2>2, <3>1, <4>1 DEF DoneIsFrame
    <3> QED BY <1>3, <2>3, <3>1 DEF DoneIsFrame
  <2> QED BY <2>5, <2>6
<1>4. CASE CcdcIsr
  <2>1. UNCHANGED data /\ (overtaken => overtaken')
    BY <1>4 DEF CcdcIsr
  <2>2. CASE UNCHANGED qvars
    <3>1. UNCHANGED state /\ (Stops' <=> Stops)
      BY <2>2 DEF qvars, In
    <3> QED BY <1>1, <2>1, <3>1 DEF DoneIsFrame
  <2>3. CASE ~UNCHANGED qvars
    <3>1. Vd0Complete /\ "VD0" \in irq
      BY <1>4, <2>3 DEF CcdcIsr, Vd0Nothing, Vd0Restart
    <3>2. \A u \in Threads : pc'[u] = pc[u] \/ (pc[u] = "poll" /\ pc'[u] = "repoll")
      BY <1>1, <3>1, CompleteFrame DEF Vd0Complete
    <3>3. Stops' <=> Stops
      BY <3>2 DEF In
    <3>4. \A b \in Buffers : state'[b] = "DONE" => state[b] = "DONE" \/ b = Head(dmaqueue)
      BY <3>1 DEF Vd0Complete, Q!BufferNext, Q!Buffers, Buffers
    <3>5. ASSUME ~overtaken, ~Stops
          PROVE  data[Head(dmaqueue)] = "frame"
      <4>1. ~In({"streamoff_hw"})
        BY <3>5 DEF In
      <4>2. Running
        BY <3>1, <4>1, EventsOfStream DEF StopTail
      <4>3. dmaqueue # <<>> /\ ~underrun /\ irq = {"VD0"}
        BY <3>1, <4>2 DEF Vd0Complete, CaptureInv, CcdcInv, Timing
      <4> QED BY <3>5, <4>1, <4>2, <4>3 DEF CaptureInv, CcdcInv, FirstIsWritten
    <3> QED BY <1>1, <2>1, <3>3, <3>4, <3>5 DEF DoneIsFrame
  <2> QED BY <2>2, <2>3
<1>5. CASE Hardware /\ UNCHANGED overtaken
  <2>1. UNCHANGED state /\ (Stops' <=> Stops)
    BY <1>5 DEF Hardware, FrameStart, FrameVd1, FrameEnd, qvars, In
  <2>2. ~Stops => Running
    <3>1. sensor
      BY <1>5 DEF Hardware, FrameStart, FrameVd1, FrameEnd
    <3> QED BY <3>1, EventsOfStream DEF StopTail, In
  <2>3. CASE FrameStart
    <3>1. data' = [b \in Buffers |->
                     IF b = (IF en /\ sbl THEN outaddr ELSE None) THEN "partial" ELSE data[b]]
      BY <2>3 DEF FrameStart
    <3>2. ASSUME ~overtaken, ~Stops, en, sbl
          PROVE  outaddr \in Buffers /\ state[outaddr] # "DONE"
      <4>1. dmaqueue # <<>> /\ outaddr = Head(dmaqueue) /\ hw
        BY <2>2, <3>2 DEF CaptureInv, CcdcInv, Frames, Handshake
      <4>2. 1 \in DOMAIN dmaqueue /\ Head(dmaqueue) = dmaqueue[1] /\ dmaqueue[1] \in Buffers
        BY <1>1, <4>1
      <4>3. QP!DeviceTargetsPinned
        BY QP!TargetsPinned, CaptureAssumption DEF CaptureInv
      <4>4. state[dmaqueue[1]] \in QP!Pending
        BY <4>1, <4>2, <4>3 DEF QP!DeviceTargetsPinned
      <4> QED BY <4>1, <4>2, <4>4 DEF QP!Pending
    <3>3. \A b \in Buffers : b # None
      BY CaptureAssumption DEF Buffers
    <3>4. ~overtaken /\ ~Stops => \A b \in Buffers : state[b] = "DONE" => data'[b] = data[b]
      BY <3>1, <3>2, <3>3
    <3>5. data' \in [Buffers -> {"old", "partial", "frame"}]
      BY <1>1, <3>1 DEF DoneIsFrame
    <3> QED BY <1>1, <1>5, <2>1, <3>4, <3>5 DEF DoneIsFrame
  <2>4. CASE FrameVd1
    BY <1>1, <1>5, <2>1, <2>4 DEF FrameVd1, DoneIsFrame
  <2>5. CASE FrameEnd
    BY <1>1, <1>5, <2>1, <2>5 DEF FrameEnd, DoneIsFrame
  <2> QED BY <1>5, <2>3, <2>4, <2>5 DEF Hardware
<1> QED BY <1>2, <1>3, <1>4, <1>5 DEF Next

-----------------------------------------------------------------------------
(* The invariant, and the properties it gives.                             *)

LEMMA InitCapture ==
  ASSUME Init
  PROVE  CaptureInv
PROOF
<1>1. QP!IndInv
  <2>1. QP!Init
    BY DEF Init, QP!Init, Buffers, QP!Buffers
  <2> QED BY <2>1, QP!InitInd, CaptureAssumption
<1>2. \A S : "user" \notin S => ~In(S)
  BY DEF Init, In
<1>3. FlagsFollow
  BY <1>2 DEF Init, FlagsFollow
<1>4. Off /\ ~Running /\ ~StopTail /\ ~In({"streamon_hw"})
  BY <1>2 DEF Init, Off, Running, StopTail
<1>5. CcdcInv
  BY <1>4 DEF CcdcInv, StoppedIsOff, Starting, Stopping, Timing, Handshake, Frames, FirstIsWritten
<1>6. IrqsOfPipeline /\ DoneIsFrame
  BY DEF Init, IrqsOfPipeline, DoneIsFrame
<1> QED BY <1>1, <1>3, <1>5, <1>6 DEF CaptureInv

LEMMA StepCapture ==
  ASSUME OneThread, ~SensorFails, ~LateIrq, ~SensorStalls, CaptureInv, [Next]_vars
  PROVE  CaptureInv'
PROOF
<1>1. QP!IndInv'
  <2>1. \A t \in Threads : pc[t] = "user" => lock = None
    BY DEF CaptureInv, FlagsFollow, In, OneThread
  <2>2. [QP!Next]_(QP!vars)
    BY <2>1, SameStep, StepSimulates DEF CaptureInv
  <2> QED BY <2>2, QP!StepInd, CaptureAssumption DEF CaptureInv
<1>2. IrqsOfPipeline'
  BY PipelineStep DEF CaptureInv
<1>3. FlagsFollow' /\ CcdcInv'
  <2>1. CASE UNCHANGED vars
    <3>1. FlagsFollow'
      BY <2>1 DEF CaptureInv, FlagsFollow, In, vars, qvars, swvars
    <3>2. CcdcInv'
      BY <2>1, QuietStep DEF CaptureInv, vars, qvars
    <3> QED BY <3>1, <3>2
  <2> QED BY <2>1, ThreadKeeps, IsrKeeps, HardwareKeeps DEF Next
<1>4. DoneIsFrame'
  BY FramesKept
<1> QED BY <1>1, <1>2, <1>3, <1>4 DEF CaptureInv

\* When one thread uses the node, the handler runs before the next event of the
\* frame and the sensor starts and does not fall silent, the CCDC never writes
\* into a buffer that userspace owns or that has been freed, whatever the number
\* of buffers and wherever in a frame they are queued, requested or handed back,
\* until a VD0 overtakes the end of a stop.
THEOREM DmaStaysInQueuedBuffers ==
  ASSUME OneThread, ~SensorFails, ~LateIrq, ~SensorStalls
  PROVE  Spec => []NoDmaIntoUserMemory
PROOF
<1>1. CaptureInv => NoDmaIntoUserMemory
  <2> SUFFICES ASSUME CaptureInv, ~overtaken, writing # None
               PROVE  writing < count /\ state[writing] \in Q!Pending
    BY DEF NoDmaIntoUserMemory, DmaInQueuedBuffers
  <2>1. Running
    BY DEF CaptureInv, FlagsFollow, CcdcInv, StoppedIsOff, Off, Starting, Stopping, Running, In
  <2>2. dmaqueue # <<>> /\ writing = Head(dmaqueue) /\ hw
    BY <2>1 DEF CaptureInv, CcdcInv, Frames, Handshake
  <2>3. dmaqueue \in Seq(Buffers)
    BY DEF CaptureInv, QP!IndInv, QP!LockInv, QP!TypeOK, QP!Buffers, Buffers
  <2>4. 1 \in DOMAIN dmaqueue /\ writing = dmaqueue[1]
    BY <2>2, <2>3
  <2>5. QP!DeviceTargetsPinned
    BY QP!TargetsPinned, CaptureAssumption DEF CaptureInv
  <2> QED BY <2>2, <2>4, <2>5 DEF QP!DeviceTargetsPinned, QP!Pending, Q!Pending
<1>2. CaptureInv /\ [Next]_vars => CaptureInv'
  BY StepCapture
<1> QED BY <1>1, <1>2, InitCapture, PTL DEF Spec

\* Under the same conditions, and with frames arriving at any step of the stop:
\* a stopped stream has its write port off and no underrun and no stop request
\* pending; and the CCDC itself is off unless a VD0 was handled between the
\* withdrawal of a stop request and the end of that stop, which is so the only
\* way in which the handshake of ccdc_disable leaves it enabled.
THEOREM StopLeavesNothing ==
  ASSUME OneThread, ~SensorFails, ~LateIrq, ~SensorStalls
  PROVE  Spec => []StoppedIsDisabled
PROOF
<1>1. CaptureInv => StoppedIsDisabled
  BY DEF CaptureInv, FlagsFollow, CcdcInv, StoppedIsOff, Off, StoppedIsDisabled
<1>2. CaptureInv /\ [Next]_vars => CaptureInv'
  BY StepCapture
<1> QED BY <1>1, <1>2, InitCapture, PTL DEF Spec

\* Under the same conditions the buffer DQBUF hands out as DONE holds a frame
\* captured since it was queued, until a VD0 overtakes the end of a stop.
THEOREM DeliversFrames ==
  ASSUME OneThread, ~SensorFails, ~LateIrq, ~SensorStalls
  PROVE  Spec => DeliveredIsValid
PROOF
<1>1. CaptureInv /\ [Next]_vars =>
        [\A b \in Buffers : state[b] = "DONE" /\ state'[b] = "IDLE" /\ streaming'
           => overtaken \/ data[b] = "frame"]_vars
  <2> SUFFICES ASSUME CaptureInv, Next, ~overtaken, NEW b \in Buffers,
                      state[b] = "DONE", state'[b] = "IDLE", streaming'
               PROVE  data[b] = "frame"
    OBVIOUS
  <2>1. ASSUME In({"streamoff_hw", "streamoff_queue"}) PROVE FALSE
    <3>1. ASSUME NEW t \in Threads, ThreadStep(t) PROVE FALSE
      <4>1. pc[t] \in {"streamoff_hw", "streamoff_queue"}
        BY <2>1 DEF In, OneThread
      <4> QED BY <3>1, <4>1, StopHandsBack
    <3>2. CASE CcdcIsr
      <4>1. UNCHANGED state \/ \E result \in {"DONE", "ERROR"} : Q!BufferNext(result)
        BY <3>2 DEF CcdcIsr, Vd0Nothing, Vd0Restart, Vd0Complete, qvars
      <4> QED BY <4>1 DEF Q!BufferNext, Q!Buffers, Buffers
    <3>3. CASE Hardware
      BY <3>3 DEF Hardware, FrameStart, FrameVd1, FrameEnd, qvars
    <3> QED BY <3>1, <3>2, <3>3 DEF Next
  <2> QED BY <2>1 DEF CaptureInv, DoneIsFrame
<1>2. CaptureInv /\ [Next]_vars => CaptureInv'
  BY StepCapture
<1> QED BY <1>1, <1>2, InitCapture, PTL DEF Spec, DeliveredIsValid

=============================================================================
