----------------------------- MODULE IspCapture -----------------------------
(***************************************************************************)
(* Sensor-to-memory capture: the buffers queue of IspQueue in front of the *)
(* CCDC (ispccdc.c), its interrupt handler, the stop handshake and the     *)
(* CCDC and sensor hardware as the driver programs and observes them.      *)
(*                                                                         *)
(* The CCDC hardware is external and is modelled from how ispccdc.c uses   *)
(* it: the enable bit and the output address are latched at frame start;   *)
(* VD1 fires two thirds into a frame and VD0 at its end, also for frames   *)
(* the disabled CCDC does not write.  The drone's sensors deliver YUV, for *)
(* which the LSC cannot be enabled, so lsc.state stays LSC_STATE_STOPPED.  *)
(*                                                                         *)
(* A step of a thread is one assignment (or locked section) of the driver; *)
(* it needs irq = {} because a pending interrupt preempts thread code.     *)
(***************************************************************************)
EXTENDS Integers, Sequences, FiniteSets

CONSTANTS
  Threads, MaxBuffers, Addrs, MaxMaps, Modes, WrongTypes,
  SensorFails,  \* whether the sensor may fail to start
  LateIrq,      \* whether the next frame event may precede the interrupt
                \* handler of the last one
  SensorStalls, \* whether the sensor may fall silent for the 2 s that
                \* ccdc_disable and the 1 s that isp_pipeline_wait wait
  None

ASSUME CaptureAssumption ==
  /\ MaxBuffers \in Nat \ {0} /\ MaxMaps \in Nat
  /\ None \notin Threads \cup Addrs \cup Nat /\ "kernel" \notin Addrs
  /\ WrongTypes \in BOOLEAN
  /\ SensorFails \in BOOLEAN /\ LateIrq \in BOOLEAN /\ SensorStalls \in BOOLEAN

VARIABLES
  count, memory, state, vma, userptr, prepared, pinned, queue, streaming,
  lock, dmaqueue, stream_lock, vstreaming, hw, pc, arg,
  step,      \* where in ccdc_set_stream the thread in set_stream is
  cstate,    \* ccdc->state
  underrun,  \* ccdc->underrun
  stopping,  \* ccdc->stopping
  en,        \* ISPCCDC_PCR_EN
  sbl,       \* OMAP3_ISP_SBL_CCDC_WRITE
  outaddr,   \* ISPCCDC_SDR_ADDR: the buffer whose isp_addr it holds
  sensor,    \* the sensor streams
  phase,     \* where in the frame the sensor is
  writing,   \* the buffer the CCDC writes this frame to
  irq,       \* raised and not yet handled: IRQ0STATUS
  data,      \* what a buffer holds since it was last queued
  overtaken  \* history: a VD0 was handled after ccdc_disable had withdrawn the
             \* stop request and before the CCDC was marked as stopped

qvars == <<count, memory, state, vma, userptr, prepared, pinned, queue, streaming,
           lock, dmaqueue, stream_lock, vstreaming, hw, pc, arg>>
swvars == <<step, cstate, underrun, stopping>>
regvars == <<en, sbl, outaddr>>
hwvars == <<sensor, phase, writing>>
vars == <<qvars, swvars, regvars, hwvars, irq, data, overtaken>>

Buffers == 0 .. MaxBuffers - 1

Q == INSTANCE IspQueue WITH PartialStart <- SensorFails

Init ==
  /\ count = 0 /\ memory = "MMAP" /\ queue = <<>> /\ dmaqueue = <<>>
  /\ state = [b \in Buffers |-> "IDLE"]
  /\ vma = [b \in Buffers |-> 0]
  /\ userptr = [b \in Buffers |-> None]
  /\ prepared = [b \in Buffers |-> FALSE]
  /\ pinned = [b \in Buffers |-> None]
  /\ streaming = FALSE /\ vstreaming = FALSE /\ hw = FALSE
  /\ lock = None /\ stream_lock = None
  /\ pc = [t \in Threads |-> "user"]
  /\ arg = [t \in Threads |-> None]
  /\ step = "entry"
  /\ cstate = "STOPPED" /\ underrun = FALSE /\ stopping = "NOT_REQUESTED"
  /\ en = FALSE /\ sbl = FALSE /\ outaddr = None
  /\ sensor = FALSE /\ phase = "blank" /\ writing = None
  /\ irq = {}
  /\ data = [b \in Buffers |-> "old"]
  /\ overtaken = FALSE

-----------------------------------------------------------------------------
(* The queue's operations, and what they do to the CCDC.                   *)

\* Calls that do not reach the CCDC.
QueueCall(t) ==
  /\ UNCHANGED <<swvars, regvars, hwvars, irq, data>>
  /\ \/ \E n \in 0 .. MaxBuffers, m \in {"MMAP", "USERPTR"} : Q!Reqbufs(t, n, m)
     \/ \E b \in Buffers : Q!Mmap(t, b) \/ Q!Munmap(t, b)
     \/ Q!QbufWrongType(t)
     \/ \E b \in Buffers, a \in Addrs \cup {None} : Q!QbufPrepareFails(t, b, a)
     \/ Q!Dqbuf(t) \/ Q!DqbufWait(t) \/ Q!DqbufWakes(t) \/ Q!DqbufInterrupted(t)
     \/ Q!PollWait(t) \/ Q!PollTimeout(t) \/ Q!PollAgain(t)
     \/ Q!Streamon(t) \/ Q!StreamonInvalid(t) \/ Q!StreamonEnd(t) \/ Q!StreamonError(t)
     \/ Q!Streamoff(t) \/ Q!StreamoffCheck(t) \/ Q!StreamoffQueue(t)

\* QBUF: what the buffer held so far is not a frame captured for this call.
Qbuf(t) ==
  \E b \in Buffers, a \in Addrs \cup {None} :
    /\ data' = [data EXCEPT ![b] = "old"]
    /\ UNCHANGED <<swvars, regvars, hwvars, irq>>
    /\ Q!Qbuf(t, b, a)

\* Mutant: the underrun is not recorded.
CcdcVideoQueueSilent(b) ==
  /\ outaddr' = b
  /\ UNCHANGED <<swvars, en, sbl, hwvars, irq, data>>

\* ccdc_video_queue, called for the first buffer of an empty IRQ queue.
CcdcVideoQueue(b) ==
  /\ outaddr' = b
  /\ underrun' = TRUE
  /\ UNCHANGED <<step, cstate, stopping, en, sbl, hwvars, irq, data>>

NoVideoQueue == UNCHANGED <<swvars, regvars, hwvars, irq, data>>

\* isp_video_buffer_queue from QBUF.
QbufToDevice(t) ==
  /\ IF dmaqueue = <<>> THEN CcdcVideoQueue(arg[t]) ELSE NoVideoQueue
  /\ Q!QbufToDevice(t)

\* isp_video_buffer_queue for every queued buffer, from STREAMON.
StreamonQueue(t) ==
  /\ IF ~streaming /\ dmaqueue = <<>> /\ queue # <<>>
     THEN CcdcVideoQueue(Head(queue)) ELSE NoVideoQueue
  /\ Q!StreamonQueue(t)

-----------------------------------------------------------------------------
(* set_stream(CONTINUOUS): the CCDC first, the sensor last.                *)

At(t, place, s) == pc[t] = place /\ step = s

\* ccdc_set_stream: configure, enable the write port and, if a buffer is
\* waiting, the CCDC.
CcdcStart(t) ==
  /\ At(t, "streamon_hw", "entry")
  /\ sbl' = TRUE
  /\ en' = (en \/ underrun)
  /\ step' = "clear"
  /\ UNCHANGED <<qvars, cstate, underrun, stopping, outaddr, hwvars, irq, data>>

CcdcStartClear(t) ==
  /\ At(t, "streamon_hw", "clear")
  /\ underrun' = FALSE
  /\ step' = "state"
  /\ UNCHANGED <<qvars, cstate, stopping, regvars, hwvars, irq, data>>

CcdcStartState(t) ==
  /\ At(t, "streamon_hw", "state")
  /\ cstate' = "CONTINUOUS"
  /\ step' = "sensor"
  /\ UNCHANGED <<qvars, underrun, stopping, regvars, hwvars, irq, data>>

\* The sensor's s_stream succeeds: isp_pipeline_enable returns 0.
SensorStarts(t) ==
  /\ At(t, "streamon_hw", "sensor")
  /\ sensor' = TRUE
  /\ step' = "entry"
  /\ UNCHANGED <<cstate, underrun, stopping, regvars, phase, writing, irq, data>>
  /\ Q!StreamonStarts(t)

\* It fails: the CCDC, first in the chain, stays in continuous mode.
SensorStartFails(t) ==
  /\ SensorFails
  /\ At(t, "streamon_hw", "sensor")
  /\ step' = "entry"
  /\ hw' = TRUE
  /\ UNCHANGED <<cstate, underrun, stopping, regvars, hwvars, irq, data>>
  /\ Q!StreamonFails(t)

-----------------------------------------------------------------------------
(* set_stream(STOPPED): stop handshake with the interrupt handler, then    *)
(* the sensor.                                                             *)

\* A CCDC that is stopped already returns at once.
CcdcStop(t) ==
  /\ At(t, "streamoff_hw", "entry")
  /\ IF cstate = "STOPPED"
     THEN step' = "sensor" /\ UNCHANGED stopping
     ELSE step' = "wait" /\ stopping' = "REQUEST"
  /\ UNCHANGED <<qvars, cstate, underrun, regvars, hwvars, irq, data>>

\* wait_event_timeout(ccdc->wait, stopping == CCDC_STOP_FINISHED) returns,
\* after 2 s in any case; then stopping = CCDC_STOP_NOT_REQUESTED.
CcdcStopReset(t) ==
  /\ At(t, "streamoff_hw", "wait")
  /\ stopping = "FINISHED" \/ SensorStalls
  /\ stopping' = "NOT_REQUESTED"
  /\ step' = "clear"
  /\ UNCHANGED <<qvars, cstate, underrun, regvars, hwvars, irq, data>>

\* omap3isp_sbl_disable, underrun = 0.
CcdcStopClear(t) ==
  /\ At(t, "streamoff_hw", "clear")
  /\ sbl' = FALSE
  /\ underrun' = FALSE
  /\ step' = "state"
  /\ UNCHANGED <<qvars, cstate, stopping, en, outaddr, hwvars, irq, data>>

CcdcStopState(t) ==
  /\ At(t, "streamoff_hw", "state")
  /\ cstate' = "STOPPED"
  /\ step' = "sensor"
  /\ UNCHANGED <<qvars, underrun, stopping, regvars, hwvars, irq, data>>

\* isp_pipeline_wait until the CCDC is not busy, for at most 1 s, then the
\* sensor's s_stream; with no more pixels, a frame cut short is abandoned.
SensorStops(t) ==
  /\ At(t, "streamoff_hw", "sensor")
  /\ writing = None \/ SensorStalls
  /\ sensor' = FALSE
  /\ phase' = "blank"
  /\ writing' = None
  /\ step' = "entry"
  /\ UNCHANGED <<cstate, underrun, stopping, regvars, irq, data>>
  /\ Q!StreamoffStops(t)

-----------------------------------------------------------------------------
(* The interrupt handler: isp_isr -> omap3isp_ccdc_isr.                    *)

\* Mutants: VD1 leaves the CCDC enabled; VD1 ignores the stop request.
AfterVd1EnableKept == en
AfterVd1StoppingIgnored == stopping

\* VD1 in continuous mode, writing to memory: the CCDC is disabled for the
\* end of the frame, and a stop request is executed.
AfterVd1Enable == en /\ "VD1" \notin irq
AfterVd1Stopping ==
  IF "VD1" \in irq /\ stopping = "REQUEST" THEN "EXECUTED" ELSE stopping

\* __ccdc_handle_stopping(CCDC_EVENT_VD0): the frame that follows EXECUTED
\* finishes the stop, and nothing is restarted any more.
StopHandled == AfterVd1Stopping \in {"EXECUTED", "FINISHED"}

\* Mutant: a restart that a stop should have prevented.
Vd0TailRestarts(restart) ==
  /\ stopping' = IF StopHandled THEN "FINISHED" ELSE AfterVd1Stopping
  /\ en' = (AfterVd1Enable \/ restart)

\* The tail of ccdc_vd0_isr.
Vd0Tail(restart) ==
  /\ stopping' = IF StopHandled THEN "FINISHED" ELSE AfterVd1Stopping
  /\ en' = (AfterVd1Enable \/ (restart /\ ~StopHandled))

\* ccdc_isr_buffer: VD0 with no buffer, or with the CCDC still busy.
Vd0Nothing ==
  /\ dmaqueue = <<>> \/ (~underrun /\ writing # None)
  /\ Vd0Tail(FALSE)
  /\ UNCHANGED <<qvars, underrun, outaddr>>

\* Mutant: the underrun is never cleared.
Vd0RestartAgain ==
  /\ dmaqueue # <<>> /\ underrun
  /\ Vd0Tail(TRUE)
  /\ UNCHANGED <<qvars, underrun, outaddr>>

\* A buffer arrived after an underrun: start writing it with the next frame.
Vd0Restart ==
  /\ dmaqueue # <<>> /\ underrun
  /\ underrun' = FALSE
  /\ Vd0Tail(TRUE)
  /\ UNCHANGED <<qvars, outaddr>>

\* Mutant: the buffer is dropped instead of completed.
Vd0CompleteDrops ==
  /\ dmaqueue # <<>> /\ ~underrun /\ writing = None
  /\ outaddr' = IF Len(dmaqueue) > 1 THEN dmaqueue[2] ELSE outaddr
  /\ Vd0Tail(Len(dmaqueue) > 1)
  /\ dmaqueue' = Tail(dmaqueue)
  /\ UNCHANGED <<count, memory, state, vma, userptr, prepared, pinned, queue, streaming,
                 lock, stream_lock, vstreaming, hw, pc, arg, underrun>>

\* The frame is complete: omap3isp_video_buffer_next, with the error that
\* an earlier interrupt may have recorded (isp_isr_sbl, a write overflow).
Vd0Complete ==
  /\ dmaqueue # <<>> /\ ~underrun /\ writing = None
  /\ outaddr' = IF Len(dmaqueue) > 1 THEN dmaqueue[2] ELSE outaddr
  /\ Vd0Tail(Len(dmaqueue) > 1)
  /\ UNCHANGED <<cstate, underrun>>
  /\ \E result \in {"DONE", "ERROR"} : Q!BufferNext(result)

\* isp_isr reads and acknowledges all pending events at once.
IspIsr ==
  /\ irq # {}
  /\ irq' = {}

\* A thread is between the reset of stopping in ccdc_disable and the assignment
\* of ISP_PIPELINE_STREAM_STOPPED at the end of ccdc_set_stream.
Withdrawn == \E t \in Threads : pc[t] = "streamoff_hw" /\ step \in {"clear", "state"}

CcdcIsr ==
  /\ IspIsr
  /\ overtaken' = (overtaken \/ ("VD0" \in irq /\ Withdrawn))
  /\ UNCHANGED <<step, cstate, sbl, hwvars, data>>
  /\ \/ cstate = "STOPPED" /\ UNCHANGED <<qvars, underrun, stopping, en, outaddr>>
     \/ /\ cstate # "STOPPED" /\ "VD0" \notin irq
        /\ en' = AfterVd1Enable
        /\ stopping' = AfterVd1Stopping
        /\ UNCHANGED <<qvars, underrun, outaddr>>
     \/ /\ cstate # "STOPPED" /\ "VD0" \in irq
        /\ Vd0Nothing \/ Vd0Restart \/ Vd0Complete

-----------------------------------------------------------------------------
(* The hardware.                                                           *)

\* Timing: handlers run before the next frame event unless LateIrq.
HardwareMayMove == LateIrq \/ irq = {}

FrameStart ==
  /\ HardwareMayMove
  /\ sensor /\ phase = "blank"
  /\ phase' = "first"
  /\ LET target == IF en /\ sbl THEN outaddr ELSE None
     IN /\ writing' = target
        /\ data' = [b \in Buffers |-> IF b = target THEN "partial" ELSE data[b]]
  /\ UNCHANGED <<qvars, swvars, regvars, sensor, irq>>

FrameVd1 ==
  /\ HardwareMayMove
  /\ sensor /\ phase = "first"
  /\ phase' = "second"
  /\ irq' = irq \cup {"VD1"}
  /\ UNCHANGED <<qvars, swvars, regvars, sensor, writing, data>>

FrameEnd ==
  /\ HardwareMayMove
  /\ sensor /\ phase = "second"
  /\ phase' = "blank"
  /\ irq' = irq \cup {"VD0"}
  /\ writing' = None
  /\ data' = [b \in Buffers |-> IF b = writing THEN "frame" ELSE data[b]]
  /\ UNCHANGED <<qvars, swvars, regvars, sensor>>

-----------------------------------------------------------------------------
ThreadStep(t) ==
  \/ QueueCall(t) \/ Qbuf(t)
  \/ QbufToDevice(t) \/ StreamonQueue(t)
  \/ CcdcStart(t) \/ CcdcStartClear(t) \/ CcdcStartState(t)
  \/ SensorStarts(t) \/ SensorStartFails(t)
  \/ CcdcStop(t) \/ CcdcStopReset(t) \/ CcdcStopClear(t) \/ CcdcStopState(t)
  \/ SensorStops(t)

\* Steps a thread takes on its own once its call is under way.
ThreadContinues(t) == pc[t] \notin {"user", "poll"} /\ ThreadStep(t)

Hardware == FrameStart \/ FrameVd1 \/ FrameEnd

Next ==
  \/ \E t \in Threads : irq = {} /\ ThreadStep(t) /\ UNCHANGED overtaken
  \/ CcdcIsr
  \/ Hardware /\ UNCHANGED overtaken

Spec == Init /\ [][Next]_vars

\* A thread in the driver is scheduled, a raised interrupt is handled, and a
\* streaming sensor delivers frames.
FairSpec ==
  /\ Spec
  /\ \A t \in Threads : SF_vars(irq = {} /\ ThreadContinues(t) /\ UNCHANGED overtaken)
  /\ WF_vars(CcdcIsr)
  /\ WF_vars(Hardware /\ UNCHANGED overtaken)

-----------------------------------------------------------------------------
(* Properties                                                              *)

\* The CCDC never writes into a buffer that is "under userspace control"
\* (ISP_BUF_STATE_IDLE) or that REQBUFS has freed. The code keeps this
\* until a VD0 overtakes the end of a stop.
DmaInQueuedBuffers ==
  writing # None => writing < count /\ state[writing] \in Q!Pending

\* The CCDC writes into queued buffers only, unless a VD0 has overtaken the end
\* of a stop.
NoDmaIntoUserMemory == overtaken \/ DmaInQueuedBuffers

\* ISP_BUF_STATE_DONE: "For capture devices the buffer contains valid data":
\* the buffer DQBUF takes off the queue was filled after it was queued.
DeliveredIsValid ==
  [][\A b \in Buffers : state[b] = "DONE" /\ state'[b] = "IDLE" /\ streaming'
       => overtaken \/ data[b] = "frame"]_vars

\* What STREAMOFF leaves behind for the next stream: the write port is off, no
\* stop request and no underrun are pending, whenever frames come during the
\* stop; and the CCDC is left enabled by nothing but a VD0 that falls between
\* the two assignments that end the stop.
StoppedIsDisabled ==
  stream_lock = None /\ ~vstreaming =>
    ~sbl /\ ~underrun /\ stopping = "NOT_REQUESTED" /\ (en => overtaken)

\* When DQBUF, QBUF and the streams are seen from the queue, the CCDC driver
\* behaves as IspQueue says a driver does: it completes buffers in order and
\* only between set_stream(CONTINUOUS) and set_stream(STOPPED).
ImplementsIspQueue == Q!Spec

\* A buffer queued on a running stream is filled or handed back.
QueuedIsReturned ==
  \A b \in Buffers : vstreaming /\ state[b] \in Q!Pending ~> state[b] \notin Q!Pending

\* The stop handshake terminates: STREAMOFF does not wait for an interrupt
\* that never comes.
StopCompletes ==
  \A t \in Threads : pc[t] = "streamoff_hw" ~> pc[t] # "streamoff_hw"
=============================================================================
