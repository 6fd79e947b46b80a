------------------------------- MODULE IspM2M -------------------------------
(***************************************************************************)
(* Memory-to-memory pipelines: the preview engine, the resizer, or the one *)
(* feeding the other, between an input and an output video node.  Frames   *)
(* are processed in single shots: a pass may start when the six bits of    *)
(* pipe->state say that both nodes stream, both have a buffer and both     *)
(* modules are idle (ispvideo.h, ispvideo.c, isp.c, isppreview.c,          *)
(* ispresizer.c).                                                          *)
(*                                                                         *)
(* One application thread drives each node; it runs beside the thread of   *)
(* the other node, the modules and their interrupts.  A step of a thread   *)
(* needs irq = {} because a pending interrupt preempts thread code.        *)
(* STREAMON reads entity.pipe and starts the pipeline in one step here;    *)
(* IspPower has the race between the two.  The modules are external: a     *)
(* single shot ends by itself, the resizer's after the preview engine that *)
(* feeds it, always within the 1 s that isp_pipeline_wait allows.          *)
(***************************************************************************)
EXTENDS Integers, Sequences, FiniteSets

CONSTANTS
  Chains,      \* the link configurations: of {"preview", "resizer", "both"}
  MaxBuffers,  \* buffers of each node
  None

ASSUME M2MAssumption ==
  /\ Chains \subseteq {"preview", "resizer", "both"}
  /\ MaxBuffers \in Nat \ {0}
  /\ None \notin {"in", "out"}

VARIABLES
  chain,         \* the enabled links
  queue,         \* queue->queue of each node
  state,         \* the state of each node's buffers
  streaming,     \* queue->streaming, and video->queue is set
  dmaqueue,      \* video->dmaqueue
  pipe,          \* entity.pipe: the node whose isp_pipeline is in use
  stream_count,  \* of the entities of the chain
  pstate,        \* pipe->state of each node's isp_pipeline
  mstate,        \* prev->state and res->state
  addr,          \* the buffers whose addresses the modules hold
  busy,          \* the modules that process a frame
  irq,           \* modules whose DONE interrupt is pending
  pc,            \* where each node's thread is
  walk           \* the modules its isp_pipeline_disable has still to stop

qvars == <<queue, state, streaming, dmaqueue>>
pvars == <<pipe, stream_count, pstate>>
mvars == <<mstate, addr, busy, irq>>
vars == <<chain, qvars, pvars, mvars, pc, walk>>

\* pipe->input, a V4L2 OUTPUT node, and pipe->output, a CAPTURE node.
Ends == {"in", "out"}
Modules == {"preview", "resizer"}
Buffers == 1 .. MaxBuffers

\* enum isp_pipeline_state, besides STREAM.
StreamBit == [in |-> "STREAM_INPUT", out |-> "STREAM_OUTPUT"]
QueueBit == [in |-> "QUEUE_INPUT", out |-> "QUEUE_OUTPUT"]
IdleBit == [in |-> "IDLE_INPUT", out |-> "IDLE_OUTPUT"]
EndBits(e) == {StreamBit[e], QueueBit[e], IdleBit[e]}
Bits == {"STREAM"} \cup UNION {EndBits(e) : e \in Ends}

\* The modules of the chain in the order isp_pipeline_enable and _disable
\* visit them, from the output to the input.
Walk == IF chain = "both" THEN <<"resizer", "preview">> ELSE <<chain>>
InChain(m) == \E i \in DOMAIN Walk : Walk[i] = m

\* The module that reads from, or writes to, a node.
ModuleOf(e) == IF e = "out" THEN Walk[1] ELSE Walk[Len(Walk)]

\* isp_pipeline_ready.
Ready(bits) == bits = Bits \ {"STREAM"}

Init ==
  /\ chain \in Chains
  /\ queue = [e \in Ends |-> <<>>] /\ dmaqueue = [e \in Ends |-> <<>>]
  /\ state = [e \in Ends |-> [b \in Buffers |-> "IDLE"]]
  /\ streaming = [e \in Ends |-> FALSE]
  /\ pipe = None /\ stream_count = 0
  /\ pstate = [e \in Ends |-> {}]
  /\ mstate = [m \in Modules |-> "STOPPED"]
  /\ addr = [e \in Ends |-> None]
  /\ busy = {} /\ irq = {}
  /\ pc = [e \in Ends |-> "user"]
  /\ walk = [e \in Ends |-> <<>>]

-----------------------------------------------------------------------------
(* Starting a pass.                                                        *)

\* Mutant: the idle bits are not cleared.
StartPassStaysIdle(bits) ==
  /\ pstate' = [pstate EXCEPT ![pipe] = bits]
  /\ mstate' = [m \in Modules |-> IF InChain(m) THEN "SINGLESHOT" ELSE mstate[m]]
  /\ busy' = busy \cup {m \in Modules : InChain(m)}

\* omap3isp_pipeline_set_stream(pipe, SINGLESHOT): isp_pipeline_enable
\* clears both idle bits and enables the modules for one shot.
StartPass(bits) ==
  /\ pstate' = [pstate EXCEPT ![pipe] = bits \ {IdleBit[e] : e \in Ends}]
  /\ mstate' = [m \in Modules |-> IF InChain(m) THEN "SINGLESHOT" ELSE mstate[m]]
  /\ busy' = busy \cup {m \in Modules : InChain(m)}

NoPass(bits) ==
  /\ pstate' = [pstate EXCEPT ![pipe] = bits]
  /\ UNCHANGED <<mstate, busy>>

\* isp_video_buffer_queue for the buffers of s, behind the DMA queue q: the
\* first one of an empty queue is given to the module and may start a pass.
BufferQueue(e, q, s) ==
  /\ dmaqueue' = [dmaqueue EXCEPT ![e] = q \o s]
  /\ IF q = <<>> /\ s # <<>>
     THEN LET bits == pstate[pipe] \cup {QueueBit[e]} IN
          /\ addr' = [addr EXCEPT ![e] = Head(s)]
          /\ IF Ready(bits) THEN StartPass(bits \cup {"STREAM"}) ELSE NoPass(bits)
     ELSE UNCHANGED <<addr, pstate, mstate, busy>>

-----------------------------------------------------------------------------
(* The calls of a node's thread.                                           *)

Thread(e, place) == pc[e] = place /\ irq = {}
Goes(e, place) == pc' = [pc EXCEPT ![e] = place]

\* QBUF, on a node that does not stream.
QbufStopped(e, b) ==
  /\ Thread(e, "user") /\ state[e][b] = "IDLE" /\ ~streaming[e]
  /\ state' = [state EXCEPT ![e][b] = "QUEUED"]
  /\ queue' = [queue EXCEPT ![e] = Append(@, b)]
  /\ UNCHANGED <<chain, streaming, dmaqueue, pvars, mvars, pc, walk>>

\* QBUF, on a node that streams.
QbufStreaming(e, b) ==
  /\ Thread(e, "user") /\ state[e][b] = "IDLE" /\ streaming[e]
  /\ state' = [state EXCEPT ![e][b] = "QUEUED"]
  /\ queue' = [queue EXCEPT ![e] = Append(@, b)]
  /\ BufferQueue(e, dmaqueue[e], <<b>>)
  /\ UNCHANGED <<chain, streaming, pipe, stream_count, irq, pc, walk>>

\* DQBUF of a completed buffer.
Dqbuf(e) ==
  /\ Thread(e, "user") /\ queue[e] # <<>>
  /\ LET b == Head(queue[e]) IN
     /\ state[e][b] = "DONE"
     /\ state' = [state EXCEPT ![e][b] = "IDLE"]
  /\ queue' = [queue EXCEPT ![e] = Tail(@)]
  /\ UNCHANGED <<chain, streaming, dmaqueue, pvars, mvars, pc, walk>>

\* STREAMON: media_entity_pipeline_start, with the pipeline of the other
\* node if that one has started it.
Streamon(e) ==
  /\ Thread(e, "user") /\ ~streaming[e]
  /\ pipe' = IF pipe = None THEN e ELSE pipe
  /\ stream_count' = stream_count + 1
  /\ Goes(e, "started")
  /\ UNCHANGED <<chain, qvars, pstate, mvars, walk>>

\* media_entity_pipeline_stop.
PipelineStop ==
  /\ stream_count' = stream_count - 1
  /\ pipe' = IF stream_count = 1 THEN None ELSE pipe

\* Mutant: the error path does not stop the pipeline.
StreamonInvalidLeaks(e) ==
  /\ Thread(e, "started")
  /\ Goes(e, "user")
  /\ UNCHANGED <<chain, qvars, pvars, mvars, walk>>

\* The format or the pipeline is not valid.
StreamonInvalid(e) ==
  /\ Thread(e, "started")
  /\ PipelineStop
  /\ Goes(e, "user")
  /\ UNCHANGED <<chain, qvars, pstate, mvars, walk>>

\* The node's stream and idle bits are set.
StreamonBits(e) ==
  /\ Thread(e, "started")
  /\ pstate' = [pstate EXCEPT ![pipe] = (@ \ {"STREAM"}) \cup {StreamBit[e], IdleBit[e]}]
  /\ Goes(e, "bits")
  /\ UNCHANGED <<chain, qvars, pipe, stream_count, mvars, walk>>

\* The DMA queue is emptied and omap3isp_video_queue_streamon hands every
\* queued buffer over.
StreamonQueue(e) ==
  /\ Thread(e, "bits")
  /\ streaming' = [streaming EXCEPT ![e] = TRUE]
  /\ BufferQueue(e, <<>>, queue[e])
  /\ Goes(e, "user")
  /\ UNCHANGED <<chain, queue, state, pipe, stream_count, irq, walk>>

\* STREAMOFF: the node's stream and queue bits are cleared.
Streamoff(e) ==
  /\ Thread(e, "user") /\ streaming[e]
  /\ pstate' = [pstate EXCEPT ![pipe] = @ \ {StreamBit[e], QueueBit[e]}]
  /\ walk' = [walk EXCEPT ![e] = Walk]
  /\ Goes(e, "stop")
  /\ UNCHANGED <<chain, qvars, pipe, stream_count, mvars>>

\* isp_pipeline_disable: s_stream(0) of the next module.  A module that is
\* not stopped calls omap3isp_module_sync_idle, which returns at once: in
\* single-shot mode it waits only if the pipeline is ready, and STREAMOFF has
\* just cleared two of the bits that takes.
StreamoffModule(e) ==
  /\ Thread(e, "stop") /\ walk[e] # <<>>
  /\ mstate' = [mstate EXCEPT ![Head(walk[e])] = "STOPPED"]
  /\ Goes(e, "wait")
  /\ UNCHANGED <<chain, qvars, pvars, addr, busy, irq, walk>>

\* Mutant: the module is not waited for.
StreamoffNoWait(e) ==
  /\ Thread(e, "wait")
  /\ walk' = [walk EXCEPT ![e] = Tail(@)]
  /\ Goes(e, "stop")
  /\ UNCHANGED <<chain, qvars, pvars, mvars>>

\* isp_pipeline_wait until the module is not busy.
StreamoffWait(e) ==
  /\ Thread(e, "wait") /\ Head(walk[e]) \notin busy
  /\ walk' = [walk EXCEPT ![e] = Tail(@)]
  /\ Goes(e, "stop")
  /\ UNCHANGED <<chain, qvars, pvars, mvars>>

\* All modules are stopped: omap3isp_video_queue_streamoff hands the buffers
\* back, video->queue is cleared and the pipeline stopped.  The DMA queue,
\* which STREAMON initialises again, is not read while video->queue is NULL
\* (BusyOnQueued); its leftover links are dropped here already.
StreamoffEnd(e) ==
  /\ Thread(e, "stop") /\ walk[e] = <<>>
  /\ streaming' = [streaming EXCEPT ![e] = FALSE]
  /\ state' = [state EXCEPT ![e] = [b \in Buffers |-> "IDLE"]]
  /\ queue' = [queue EXCEPT ![e] = <<>>]
  /\ dmaqueue' = [dmaqueue EXCEPT ![e] = <<>>]
  /\ PipelineStop
  /\ Goes(e, "user")
  /\ UNCHANGED <<chain, pstate, mvars, walk>>

-----------------------------------------------------------------------------
(* The interrupt handlers.                                                 *)

\* Mutant: the STREAM bit outlives the pass.
BitsAfterKeepsStream(e, bits) ==
  {IdleBit[e]} \cup
  (IF Len(dmaqueue[e]) = 1 THEN bits \ {QueueBit[e]} ELSE bits)

\* What omap3isp_video_buffer_next and its caller do to pipe->state when the
\* first buffer of node e is completed.
BitsAfter(e, bits) ==
  {IdleBit[e]} \cup
  (CASE Len(dmaqueue[e]) = 1 -> bits \ {QueueBit[e], "STREAM"}
     [] Len(dmaqueue[e]) > 1 /\ e = "out" -> bits \ {"STREAM"}
     [] OTHER -> bits)

\* preview_isr_buffer and resizer_isr_buffer: the first buffer of every node
\* the module serves is completed, its address register gets the next one.
\* If the pipeline is ready then, it is restarted.
IsrBuffer(m) ==
  LET served == {e \in Ends : ModuleOf(e) = m}
      completed(e) == e \in served /\ dmaqueue[e] # <<>>
      bits == LET first == IF "in" \in served THEN BitsAfter("in", pstate[pipe])
                                              ELSE pstate[pipe]
              IN IF "out" \in served THEN BitsAfter("out", first) ELSE first
  IN /\ state' = [e \in Ends |-> [b \in Buffers |->
           IF completed(e) /\ b = Head(dmaqueue[e]) THEN "DONE" ELSE state[e][b]]]
     /\ dmaqueue' = [e \in Ends |->
           IF completed(e) THEN Tail(dmaqueue[e]) ELSE dmaqueue[e]]
     /\ addr' = [e \in Ends |->
           IF completed(e) /\ Len(dmaqueue[e]) > 1 THEN dmaqueue[e][2] ELSE addr[e]]
     /\ IF mstate[m] = "SINGLESHOT" /\ Ready(bits) THEN StartPass(bits) ELSE NoPass(bits)

\* isp_isr acknowledges the module's interrupt, the preview engine's first.
Interrupt(m) ==
  /\ m \in irq /\ (m = "resizer" => "preview" \notin irq)
  /\ irq' = irq \ {m}
  /\ UNCHANGED <<chain, queue, streaming, pipe, stream_count, pc, walk>>

\* Mutant: a stopped preview engine returns at once, as the resizer does.
PreviewIsrStopped ==
  /\ Interrupt("preview")
  /\ IF mstate["preview"] # "STOPPED" THEN IsrBuffer("preview")
     ELSE UNCHANGED <<state, dmaqueue, pstate, mstate, addr, busy>>

\* omap3isp_preview_isr; the buffers are completed in every state.
PreviewIsr ==
  /\ Interrupt("preview")
  /\ IsrBuffer("preview")

\* omap3isp_resizer_isr.
ResizerIsr ==
  /\ Interrupt("resizer")
  /\ mstate["resizer"] # "STOPPED"
  /\ IsrBuffer("resizer")

\* A stopped resizer returns at once.
ResizerIsrStopped ==
  /\ Interrupt("resizer")
  /\ mstate["resizer"] = "STOPPED"
  /\ UNCHANGED <<state, dmaqueue, pstate, mstate, addr, busy>>

-----------------------------------------------------------------------------
\* The hardware: a module has processed its frame.
PassDone(m) ==
  /\ m \in busy /\ (m = "resizer" => "preview" \notin busy)
  /\ busy' = busy \ {m}
  /\ irq' = irq \cup {m}
  /\ UNCHANGED <<chain, qvars, pvars, mstate, addr, pc, walk>>

\* Steps a thread takes on its own once its call is under way.
Continues(e) ==
  \/ StreamonInvalid(e) \/ StreamonBits(e) \/ StreamonQueue(e)
  \/ StreamoffModule(e) \/ StreamoffWait(e) \/ StreamoffEnd(e)

Isr == PreviewIsr \/ ResizerIsr \/ ResizerIsrStopped

Next ==
  \/ \E e \in Ends, b \in Buffers : QbufStopped(e, b) \/ QbufStreaming(e, b)
  \/ \E e \in Ends : Dqbuf(e) \/ Streamon(e) \/ Streamoff(e) \/ Continues(e)
  \/ Isr
  \/ \E m \in Modules : PassDone(m)

Spec == Init /\ [][Next]_vars

\* A thread inside the driver is scheduled, a raised interrupt is handled and
\* a module finishes its frame.
FairSpec ==
  /\ Spec
  /\ \A e \in Ends : WF_vars(Continues(e))
  /\ WF_vars(Isr)
  /\ \A m \in Modules : WF_vars(PassDone(m))

-----------------------------------------------------------------------------
(* Properties                                                              *)

\* Every variable has its type.
TypeOK ==
  /\ chain \in Chains
  /\ queue \in [Ends -> Seq(Buffers)] /\ dmaqueue \in [Ends -> Seq(Buffers)]
  /\ state \in [Ends -> [Buffers -> {"IDLE", "QUEUED", "DONE"}]]
  /\ streaming \in [Ends -> BOOLEAN]
  /\ pipe \in Ends \cup {None} /\ stream_count \in 0 .. 2
  /\ pstate \in [Ends -> SUBSET Bits]
  /\ mstate \in [Modules -> {"STOPPED", "SINGLESHOT"}]
  /\ addr \in [Ends -> Buffers \cup {None}]
  /\ busy \subseteq Modules /\ irq \subseteq Modules
  /\ pc \in [Ends -> {"user", "started", "bits", "stop", "wait"}]
  /\ walk \in [Ends -> Seq(Modules)]

\* "Stream start must be delayed until buffers are available at both the
\* input and output" (ispvideo.c): a module at work reads and writes the
\* first buffer of each DMA queue, which userspace has not got back, and its
\* interrupt handler finds that buffer there to complete.
BusyOnQueued ==
  \A e \in Ends : ModuleOf(e) \in busy \cup irq =>
    /\ pipe # None /\ streaming[e] /\ dmaqueue[e] # <<>>
    /\ addr[e] = Head(dmaqueue[e]) /\ state[e][addr[e]] = "QUEUED"

\* "The input entity is idle, ready to be started" (ispvideo.h): an idle bit
\* is never set while the module works or its interrupt is pending, so that
\* no single shot is fired into a busy module.
IdleIsIdle ==
  \A e \in Ends : pipe # None /\ IdleBit[e] \in pstate[pipe] =>
    ModuleOf(e) \notin busy \cup irq

\* A pipeline at rest with buffers at both ends is one that stopping the
\* resizer in mid-frame has left without an idle bit: nothing but a stop of
\* the other node restarts it.  The preview engine never gets there.
StuckOnlyByResizerStop ==
  /\ busy = {} /\ irq = {}
  /\ \A e \in Ends : pc[e] = "user" /\ streaming[e] /\ dmaqueue[e] # <<>>
  => chain # "preview" /\ \E e \in Ends : IdleBit[e] \notin pstate[pipe]

\* On the preview engine a buffer queued at the output is filled unless the
\* input runs dry or a node is stopped, also across stops in mid-frame; and a
\* STREAMOFF that is under way gets there.
QueuedIsProcessed ==
  \A b \in Buffers :
    chain = "preview" /\ streaming["out"] /\ state["out"][b] = "QUEUED" ~>
      \/ state["out"][b] # "QUEUED"
      \/ \E e \in Ends : ~streaming[e]
      \/ dmaqueue["in"] = <<>>
=============================================================================
