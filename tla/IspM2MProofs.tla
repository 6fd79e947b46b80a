---------------------------- MODULE IspM2MProofs ----------------------------
(***************************************************************************)
(* The safety properties of the memory-to-memory pipelines, for any number *)
(* of buffers and every chain.                                             *)
(*                                                                         *)
(* A pass starts when six bits are set that threads and interrupt handlers *)
(* set and clear one at a time.  The invariant says what each bit stands   *)
(* for: the stream bit of a node for a node that is not being stopped, its *)
(* queue bit for a DMA queue with a buffer, its idle bit for a module with *)
(* no frame and no interrupt under way.                                    *)
(***************************************************************************)
EXTENDS IspM2M, SequenceTheorems, TLAPS

\* Nodes whose stream counts in stream_count.
Counted(e) == streaming[e] \/ pc[e] \in {"started", "bits"}

\* Nodes between the two sections of STREAMOFF.
BeingStopped(e) == pc[e] \in {"stop", "wait"}

One(b) == IF b THEN 1 ELSE 0

\* The calls on a node and the stream of the node agree.
CallsAgree ==
  \A e \in Ends : /\ pc[e] \in {"started", "bits"} => ~streaming[e]
                  /\ BeingStopped(e) => streaming[e]

\* The pipeline is in use exactly while a node counts.
PipeCounted ==
  /\ stream_count = One(Counted("in")) + One(Counted("out"))
  /\ pipe = None <=> stream_count = 0

\* The buffers of a DMA queue, and of the main queue before STREAMON has
\* handed it over, are queued and different from each other.
AllQueued(e, q) ==
  /\ \A i \in 1 .. Len(q) : state[e][q[i]] = "QUEUED"
  /\ \A i, j \in 1 .. Len(q) : q[i] = q[j] => i = j

QueuesHoldQueued ==
  \A e \in Ends : /\ AllQueued(e, dmaqueue[e])
                  /\ ~streaming[e] => dmaqueue[e] = <<>> /\ AllQueued(e, queue[e])

\* The module holds the address of the first buffer.
AddrIsHead == \A e \in Ends : dmaqueue[e] # <<>> => addr[e] = Head(dmaqueue[e])

\* What the bits of the pipeline in use stand for; the other one has none.
StreamBits ==
  \A e, x \in Ends :
    /\ StreamBit[e] \in pstate[x] <=>
         x = pipe /\ (pc[e] = "bits" \/ (streaming[e] /\ pc[e] = "user"))
    /\ QueueBit[e] \in pstate[x] <=>
         x = pipe /\ streaming[e] /\ pc[e] = "user" /\ dmaqueue[e] # <<>>

\* A module at work has a buffer at each end it serves, it is not restarted
\* while it works, and no other module is at work.
WorkOnQueued ==
  /\ busy \cap irq = {}
  /\ \A m \in busy \cup irq : InChain(m)
  /\ \A e \in Ends : ModuleOf(e) \in busy \cup irq => streaming[e] /\ dmaqueue[e] # <<>>

\* STREAMOFF stops the modules in order, and a module it has waited for does
\* not work again.
WalkStops ==
  \A e \in Ends :
    /\ pc[e] = "wait" => walk[e] # <<>>
    /\ BeingStopped(e) =>
         \A m \in busy \cup irq : \E i \in 1 .. Len(walk[e]) : walk[e][i] = m

\* No pipeline is left ready, and one that is marked as streaming has its
\* output busy.
NeverReady ==
  /\ \A x \in Ends : ~Ready(pstate[x])
  /\ \A x \in Ends : "STREAM" \in pstate[x] => IdleBit["out"] \notin pstate[x]

\* A module at work is in single-shot mode unless a node is being stopped.
WorkIsSingleShot ==
  \A m \in busy \cup irq : mstate[m] = "SINGLESHOT" \/ \E e \in Ends : BeingStopped(e)

\* On the preview engine the idle bits are exact.
PreviewIdleExact ==
  chain = "preview" /\ "preview" \notin busy \cup irq =>
    \A e \in Ends : streaming[e] \/ pc[e] = "bits" => IdleBit[e] \in pstate[pipe]

IndInv ==
  /\ TypeOK /\ CallsAgree /\ PipeCounted /\ QueuesHoldQueued /\ AddrIsHead /\ StreamBits
  /\ WorkOnQueued /\ IdleIsIdle /\ WalkStops /\ NeverReady /\ WorkIsSingleShot
  /\ PreviewIdleExact

-----------------------------------------------------------------------------
(* The chain and the bits.                                                 *)

\* The modules of a chain are those its nodes are served by.
LEMMA ChainFacts ==
  ASSUME chain \in Chains
  PROVE  /\ Walk \in Seq(Modules) /\ Walk # <<>>
         /\ \A m : InChain(m) <=> \E e \in Ends : ModuleOf(e) = m
         /\ \A m : InChain(m) <=> \E i \in 1 .. Len(Walk) : Walk[i] = m
         /\ \A e \in Ends : ModuleOf(e) \in Modules
         /\ chain = "preview" => \A e \in Ends : ModuleOf(e) = "preview"
<1>1. chain \in {"preview", "resizer", "both"}
  BY M2MAssumption
<1>2. CASE chain = "both"
  BY <1>2 DEF Walk, ModuleOf, InChain, Ends, Modules
<1>3. CASE chain \in {"preview", "resizer"}
  BY <1>3 DEF Walk, ModuleOf, InChain, Ends, Modules
<1> QED BY <1>1, <1>2, <1>3

\* The links do not change, so the chain stays what it is.
LEMMA ChainStays ==
  ASSUME UNCHANGED chain
  PROVE  /\ Walk' = Walk
         /\ \A m : InChain(m)' <=> InChain(m)
         /\ \A e : ModuleOf(e)' = ModuleOf(e)
  BY DEF Walk, InChain, ModuleOf

\* The bits are different from each other.
LEMMA BitsDiffer ==
  /\ \A e \in Ends : {StreamBit[e], QueueBit[e], IdleBit[e]} \subseteq Bits
  /\ "STREAM" \in Bits
  /\ \A e, f \in Ends : /\ StreamBit[e] \notin {QueueBit[f], IdleBit[f], "STREAM"}
                        /\ QueueBit[e] \notin {IdleBit[f], "STREAM"}
                        /\ IdleBit[e] # "STREAM"
                        /\ e # f => /\ StreamBit[e] # StreamBit[f] /\ QueueBit[e] # QueueBit[f]
                                    /\ IdleBit[e] # IdleBit[f]
  BY DEF StreamBit, QueueBit, IdleBit, EndBits, Bits, Ends

\* isp_pipeline_ready, bit by bit.
LEMMA ReadyBits ==
  ASSUME NEW bits \in SUBSET Bits
  PROVE  Ready(bits) <=>
           /\ "STREAM" \notin bits
           /\ \A e \in Ends : StreamBit[e] \in bits /\ QueueBit[e] \in bits /\ IdleBit[e] \in bits
<1>1. \A x : x \in Bits <=> x = "STREAM" \/ \E e \in Ends : x \in {StreamBit[e], QueueBit[e], IdleBit[e]}
  BY DEF Bits, EndBits
<1>2. Ready(bits) <=> "STREAM" \notin bits /\ \A x \in Bits : x = "STREAM" \/ x \in bits
  BY DEF Ready
<1> QED BY <1>1, <1>2, BitsDiffer

-----------------------------------------------------------------------------
(* Parts of the steps.                                                     *)

\* A buffer at node e starts a pass only when every module of the chain is at
\* rest and the other node has a buffer.
LEMMA PassStarts ==
  ASSUME IndInv, pipe # None, NEW e \in Ends, Ready(pstate[pipe] \cup {QueueBit[e]})
  PROVE  /\ \A f \in Ends : ModuleOf(f) \notin busy \cup irq
         /\ \A f \in Ends : (streaming[f] /\ pc[f] = "user") \/ pc[f] = "bits"
         /\ \A f \in Ends : f # e => streaming[f] /\ pc[f] = "user" /\ dmaqueue[f] # <<>>
<1>1. pipe \in Ends /\ pstate[pipe] \cup {QueueBit[e]} \in SUBSET Bits
  BY BitsDiffer DEF IndInv, TypeOK
<1>2. \A f \in Ends : /\ {StreamBit[f], IdleBit[f]} \subseteq pstate[pipe]
                      /\ f # e => QueueBit[f] \in pstate[pipe]
  BY <1>1, ReadyBits, BitsDiffer
<1> QED BY <1>1, <1>2 DEF IndInv, IdleIsIdle, StreamBits

LEMMA InitInd == Init => IndInv
<1> SUFFICES ASSUME Init PROVE IndInv
  OBVIOUS
<1> USE M2MAssumption
<1>1. TypeOK
  BY DEF Init, TypeOK, Ends, Modules
<1>2. CallsAgree /\ PipeCounted
  BY DEF Init, CallsAgree, PipeCounted, One, Counted, BeingStopped, Ends
<1>3. QueuesHoldQueued /\ AddrIsHead
  BY DEF Init, QueuesHoldQueued, AddrIsHead, AllQueued, Ends
<1>4. StreamBits /\ IdleIsIdle /\ PreviewIdleExact
  BY DEF Init, StreamBits, IdleIsIdle, PreviewIdleExact, Ends
<1>5. WorkOnQueued /\ WalkStops /\ WorkIsSingleShot
  BY DEF Init, WorkOnQueued, WalkStops, WorkIsSingleShot, BeingStopped, Ends
<1>6. NeverReady
  BY BitsDiffer, ReadyBits DEF Init, NeverReady, Ends
<1> QED BY <1>1, <1>2, <1>3, <1>4, <1>5, <1>6 DEF IndInv

\* QBUF before STREAMON: the buffer joins the main queue.
LEMMA StepQbufStopped ==
  ASSUME IndInv, NEW e \in Ends, NEW b \in Buffers, QbufStopped(e, b) PROVE IndInv'
<1> USE DEF IndInv, QbufStopped, Thread, pvars, mvars
<1>1. TypeOK'
  BY DEF TypeOK
<1>2. CallsAgree' /\ PipeCounted'
  BY DEF CallsAgree, PipeCounted, Counted, BeingStopped, One
<1>3. QueuesHoldQueued'
  BY DEF TypeOK, QueuesHoldQueued, AllQueued
<1>4. AddrIsHead'
  BY DEF AddrIsHead
<1>5. StreamBits' /\ NeverReady'
  BY DEF StreamBits, NeverReady
<1>6. WorkOnQueued' /\ IdleIsIdle' /\ WalkStops' /\ WorkIsSingleShot' /\ PreviewIdleExact'
  BY ChainStays DEF WorkOnQueued, IdleIsIdle, WalkStops, WorkIsSingleShot, BeingStopped,
                    PreviewIdleExact
<1> QED BY <1>1, <1>2, <1>3, <1>4, <1>5, <1>6

\* isp_video_buffer_queue behind the node's DMA queue, from QBUF or STREAMON:
\* what it does to the bits and the modules.
BitsAndWork ==
  /\ AddrIsHead /\ StreamBits /\ WorkOnQueued /\ IdleIsIdle /\ WalkStops /\ NeverReady
  /\ WorkIsSingleShot /\ PreviewIdleExact

LEMMA BufferQueueKeeps ==
  ASSUME IndInv, NEW e \in Ends, NEW s \in Seq(Buffers), BufferQueue(e, dmaqueue[e], s),
         UNCHANGED <<chain, pipe, irq, walk>>, pipe # None,
         (pc[e] = "user" /\ streaming[e]) \/ pc[e] = "bits",
         streaming' = [streaming EXCEPT ![e] = TRUE], pc' = [pc EXCEPT ![e] = "user"]
  PROVE  /\ BitsAndWork'
         /\ addr' \in [Ends -> Buffers \cup {None}] /\ pstate' \in [Ends -> SUBSET Bits]
         /\ mstate' \in [Modules -> {"STOPPED", "SINGLESHOT"}] /\ busy' \subseteq Modules
         /\ dmaqueue' \in [Ends -> Seq(Buffers)]
<1> DEFINE bits == pstate[pipe] \cup {QueueBit[e]}
           q == dmaqueue[e]
<1>1. /\ pipe \in Ends /\ TypeOK /\ q \in Seq(Buffers) /\ chain \in Chains
      /\ pstate[pipe] \in SUBSET Bits /\ bits \in SUBSET Bits
  BY BitsDiffer DEF IndInv, TypeOK
<1>2. dmaqueue' = [dmaqueue EXCEPT ![e] = q \o s] /\ q \o s \in Seq(Buffers)
  BY <1>1 DEF BufferQueue
<1>a. /\ \A f \in Ends : BeingStopped(f)' <=> BeingStopped(f)
      /\ \A f \in Ends : pc'[f] = "wait" <=> pc[f] = "wait"
  BY <1>1 DEF BeingStopped, TypeOK
<1>b. pc[e] = "bits" => ~streaming[e] /\ q = <<>>
  BY DEF IndInv, CallsAgree, QueuesHoldQueued
<1>c. \A f \in Ends : \/ pc'[f] = "bits" \/ (streaming'[f] /\ pc'[f] = "user")
                      <=> pc[f] = "bits" \/ (streaming[f] /\ pc[f] = "user")
  BY <1>1 DEF TypeOK
<1>3. CASE ~(q = <<>> /\ s # <<>>)
  <2>1. UNCHANGED <<addr, pstate, mstate, busy>>
    BY <1>3 DEF BufferQueue
  <2>2. (q = <<>> <=> q \o s = <<>>) /\ (q # <<>> => Head(q \o s) = Head(q))
    BY <1>1, <1>3
  <2>3. AddrIsHead' /\ NeverReady'
    BY <1>1, <1>2, <2>1, <2>2 DEF IndInv, TypeOK, AddrIsHead, NeverReady
  <2>6. StreamBits'
    BY <1>1, <1>2, <1>b, <1>c, <2>1, <2>2 DEF IndInv, TypeOK, StreamBits
  <2>4. WorkOnQueued' /\ IdleIsIdle' /\ PreviewIdleExact'
    BY <1>1, <1>2, <2>1, <2>2, ChainStays
      DEF IndInv, TypeOK, WorkOnQueued, IdleIsIdle, PreviewIdleExact
  <2>5. WalkStops' /\ WorkIsSingleShot'
    BY <1>a, <2>1 DEF IndInv, WalkStops, WorkIsSingleShot
  <2> QED BY <1>1, <1>2, <2>1, <2>3, <2>4, <2>5, <2>6 DEF BitsAndWork, TypeOK
<1>4. CASE q = <<>> /\ s # <<>>
  <2>1. addr' = [addr EXCEPT ![e] = Head(s)] /\ Head(s) \in Buffers
    BY <1>4 DEF BufferQueue
  <2>2. q \o s # <<>> /\ Head(q \o s) = Head(s)
    BY <1>1, <1>4
  <2>3. ModuleOf(e) \notin busy \cup irq
    BY <1>4 DEF IndInv, WorkOnQueued
  <2>4. AddrIsHead'
    BY <1>1, <1>2, <2>1, <2>2 DEF IndInv, TypeOK, AddrIsHead
  <2>5. CASE ~Ready(bits)
    <3>1. pstate' = [pstate EXCEPT ![pipe] = bits] /\ UNCHANGED <<mstate, busy>>
      BY <1>4, <2>5 DEF BufferQueue, NoPass
    <3>2. StreamBits'
      <4>1. \A x \in Ends : \A f \in Ends :
              StreamBit[f] \in pstate'[x] <=> StreamBit[f] \in pstate[x]
        BY <1>1, <3>1, BitsDiffer DEF TypeOK
      <4>2. \A x \in Ends : \A f \in Ends :
              QueueBit[f] \in pstate'[x] <=> QueueBit[f] \in pstate[x] \/ (x = pipe /\ f = e)
        BY <1>1, <3>1, BitsDiffer DEF TypeOK
      <4> QED BY <1>1, <1>2, <1>b, <1>c, <2>2, <4>1, <4>2 DEF IndInv, TypeOK, StreamBits
    <3>3. NeverReady'
      BY <1>1, <2>5, <3>1, BitsDiffer DEF IndInv, TypeOK, NeverReady, Ends
    <3>4. WorkOnQueued' /\ IdleIsIdle' /\ PreviewIdleExact'
      BY <1>1, <1>2, <2>2, <3>1, ChainStays, BitsDiffer
        DEF IndInv, TypeOK, WorkOnQueued, IdleIsIdle, PreviewIdleExact
    <3>5. WalkStops' /\ WorkIsSingleShot'
      BY <1>a, <3>1 DEF IndInv, WalkStops, WorkIsSingleShot
    <3> QED BY <1>1, <1>2, <2>1, <2>4, <3>1, <3>2, <3>3, <3>4, <3>5 DEF BitsAndWork, TypeOK
  <2>6. CASE Ready(bits)
    <3>1. StartPass(bits \cup {"STREAM"})
      BY <1>4, <2>6 DEF BufferQueue
    <3>2. /\ pstate' = [pstate EXCEPT ![pipe] = (bits \cup {"STREAM"}) \ {IdleBit[f] : f \in Ends}]
          /\ \A m \in Modules : mstate'[m] = IF InChain(m) THEN "SINGLESHOT" ELSE mstate[m]
          /\ mstate' \in [Modules -> {"STOPPED", "SINGLESHOT"}]
          /\ busy' = busy \cup {m \in Modules : InChain(m)}
      BY <1>1, <3>1 DEF StartPass, TypeOK
    <3>3. /\ \A f \in Ends : ModuleOf(f) \notin busy \cup irq
          /\ \A f \in Ends : (streaming[f] /\ pc[f] = "user") \/ pc[f] = "bits"
          /\ \A f \in Ends : f # e => streaming[f] /\ pc[f] = "user" /\ dmaqueue[f] # <<>>
      BY <1>1, <2>6, PassStarts
    <3>4. busy = {} /\ irq = {} /\ busy' = {m \in Modules : InChain(m)}
      BY <1>1, <3>2, <3>3, ChainFacts DEF IndInv, TypeOK, WorkOnQueued
    <3>5. StreamBits'
      <4>1. \A x \in Ends : \A f \in Ends :
              StreamBit[f] \in pstate'[x] <=> StreamBit[f] \in pstate[x]
        BY <1>1, <3>2, BitsDiffer DEF TypeOK
      <4>2. \A x \in Ends : \A f \in Ends :
              QueueBit[f] \in pstate'[x] <=> QueueBit[f] \in pstate[x] \/ (x = pipe /\ f = e)
        <5>1. \A f \in Ends : QueueBit[f] \in pstate'[pipe] <=> QueueBit[f] \in bits
          BY <1>1, <3>2, BitsDiffer DEF TypeOK
        <5>2. \A x \in Ends : x # pipe => pstate'[x] = pstate[x]
          BY <1>1, <3>2 DEF TypeOK
        <5> QED BY <1>1, <5>1, <5>2, BitsDiffer
      <4> QED BY <1>1, <1>2, <1>b, <1>c, <2>2, <4>1, <4>2 DEF IndInv, TypeOK, StreamBits
    <3>6. NeverReady'
      <4>1. \A f \in Ends : IdleBit[f] \notin pstate'[pipe]
        BY <1>1, <3>2 DEF TypeOK
      <4>2. pstate'[pipe] \in SUBSET Bits
        BY <1>1, <3>2, BitsDiffer DEF TypeOK
      <4>3. ~Ready(pstate'[pipe])
        BY <4>1, <4>2, ReadyBits DEF Ends
      <4> QED BY <1>1, <3>2, <4>1, <4>3 DEF IndInv, TypeOK, NeverReady, Ends
    <3>7. WorkOnQueued' /\ IdleIsIdle'
      BY <1>1, <1>2, <2>2, <3>2, <3>3, <3>4, ChainStays, BitsDiffer
        DEF IndInv, TypeOK, WorkOnQueued, IdleIsIdle
    <3>8. PreviewIdleExact'
      BY <1>1, <3>4, ChainFacts DEF PreviewIdleExact, Modules, Ends
    <3>9. WalkStops' /\ WorkIsSingleShot'
      <4>1. \A f \in Ends : pc'[f] = "user" \/ pc'[f] = "bits"
        BY <1>1, <3>3 DEF IndInv, TypeOK
      <4> QED BY <1>1, <3>2, <3>4, <4>1
        DEF IndInv, TypeOK, WalkStops, WorkIsSingleShot, BeingStopped
    <3> QED BY <1>1, <1>2, <2>1, <2>4, <3>2, <3>5, <3>6, <3>7, <3>8, <3>9, BitsDiffer
      DEF BitsAndWork, TypeOK
  <2> QED BY <2>5, <2>6
<1> QED BY <1>3, <1>4

LEMMA StepQbufStreaming ==
  ASSUME IndInv, NEW e \in Ends, NEW b \in Buffers, QbufStreaming(e, b) PROVE IndInv'
<1>1. /\ TypeOK /\ pc[e] = "user" /\ streaming[e] /\ state[e][b] = "IDLE"
      /\ dmaqueue[e] \in Seq(Buffers) /\ <<b>> \in Seq(Buffers)
  BY DEF IndInv, TypeOK, QbufStreaming, Thread
<1>2. pipe # None
  BY <1>1 DEF IndInv, PipeCounted, Counted, One, Ends
<1>3. /\ state' = [state EXCEPT ![e][b] = "QUEUED"] /\ queue' = [queue EXCEPT ![e] = Append(@, b)]
      /\ dmaqueue' = [dmaqueue EXCEPT ![e] = @ \o <<b>>]
      /\ UNCHANGED <<chain, streaming, pipe, stream_count, irq, pc, walk>>
  BY DEF QbufStreaming, BufferQueue
<1>4. streaming' = [streaming EXCEPT ![e] = TRUE] /\ pc' = [pc EXCEPT ![e] = "user"]
  BY <1>1, <1>3 DEF TypeOK
<1>5. /\ BitsAndWork'
      /\ addr' \in [Ends -> Buffers \cup {None}] /\ pstate' \in [Ends -> SUBSET Bits]
      /\ mstate' \in [Modules -> {"STOPPED", "SINGLESHOT"}] /\ busy' \subseteq Modules
      /\ dmaqueue' \in [Ends -> Seq(Buffers)]
  BY <1>1, <1>2, <1>3, <1>4, BufferQueueKeeps DEF QbufStreaming
<1>6. TypeOK'
  BY <1>1, <1>3, <1>5 DEF TypeOK
<1>7. CallsAgree' /\ PipeCounted'
  BY <1>3 DEF IndInv, CallsAgree, PipeCounted, Counted, BeingStopped, One
<1>8. QueuesHoldQueued'
  <2> DEFINE d == dmaqueue[e]
             new == d \o <<b>>
  <2>1. /\ Len(new) = Len(d) + 1 /\ Len(d) \in Nat /\ new[Len(d) + 1] = b
        /\ \A i \in 1 .. Len(d) : new[i] = d[i]
    BY <1>1
  <2>2. \A c \in Buffers : state'[e][c] = IF c = b THEN "QUEUED" ELSE state[e][c]
    BY <1>1, <1>3 DEF TypeOK
  <2>3. /\ \A i \in 1 .. Len(d) : d[i] \in Buffers /\ state[e][d[i]] = "QUEUED" /\ d[i] # b
        /\ \A i, j \in 1 .. Len(d) : d[i] = d[j] => i = j
    BY <1>1 DEF IndInv, QueuesHoldQueued, AllQueued
  <2>4. AllQueued(e, dmaqueue[e])'
    <3>1. \A i \in 1 .. Len(new) : state'[e][new[i]] = "QUEUED"
      BY <2>1, <2>2, <2>3
    <3>2. \A i, j \in 1 .. Len(new) : new[i] = new[j] => i = j
      BY <2>1, <2>3
    <3>3. dmaqueue'[e] = new
      BY <1>1, <1>3 DEF TypeOK
    <3> QED BY <3>1, <3>2, <3>3 DEF AllQueued
  <2> QED BY <1>1, <1>3, <2>4 DEF IndInv, TypeOK, QueuesHoldQueued, AllQueued
<1> QED BY <1>5, <1>6, <1>7, <1>8 DEF IndInv, BitsAndWork

LEMMA StepStreamonQueue ==
  ASSUME IndInv, NEW e \in Ends, StreamonQueue(e) PROVE IndInv'
<1>1. TypeOK /\ pc[e] = "bits" /\ ~streaming[e] /\ dmaqueue[e] = <<>> /\ queue[e] \in Seq(Buffers)
  BY DEF IndInv, TypeOK, CallsAgree, QueuesHoldQueued, StreamonQueue, Thread
<1>2. pipe # None
  BY <1>1 DEF IndInv, PipeCounted, Counted, One, Ends
<1>3. /\ BufferQueue(e, dmaqueue[e], queue[e])
      /\ dmaqueue' = [dmaqueue EXCEPT ![e] = <<>> \o queue[e]]
      /\ streaming' = [streaming EXCEPT ![e] = TRUE] /\ pc' = [pc EXCEPT ![e] = "user"]
      /\ UNCHANGED <<chain, queue, state, pipe, stream_count, irq, walk>>
  BY <1>1 DEF StreamonQueue, BufferQueue, Goes
<1>4. /\ BitsAndWork'
      /\ addr' \in [Ends -> Buffers \cup {None}] /\ pstate' \in [Ends -> SUBSET Bits]
      /\ mstate' \in [Modules -> {"STOPPED", "SINGLESHOT"}] /\ busy' \subseteq Modules
      /\ dmaqueue' \in [Ends -> Seq(Buffers)]
  BY <1>1, <1>2, <1>3, BufferQueueKeeps
<1>5. TypeOK'
  BY <1>1, <1>3, <1>4 DEF TypeOK
<1>6. CallsAgree' /\ PipeCounted'
  BY <1>1, <1>3 DEF IndInv, TypeOK, CallsAgree, PipeCounted, Counted, BeingStopped, One, Ends
<1>7. QueuesHoldQueued'
  <2>1. <<>> \o queue[e] = queue[e]
    BY <1>1
  <2> QED BY <1>1, <1>3, <2>1 DEF IndInv, TypeOK, QueuesHoldQueued, AllQueued
<1> QED BY <1>4, <1>5, <1>6, <1>7 DEF IndInv, BitsAndWork

\* DQBUF: a completed buffer is not in the DMA queue any more.
LEMMA StepDqbuf ==
  ASSUME IndInv, NEW e \in Ends, Dqbuf(e) PROVE IndInv'
<1> USE DEF IndInv, Dqbuf, Thread, pvars, mvars
<1>1. TypeOK'
  BY DEF TypeOK
<1>2. CallsAgree' /\ PipeCounted'
  BY DEF CallsAgree, PipeCounted, Counted, BeingStopped, One
<1>3. QueuesHoldQueued'
  BY DEF TypeOK, QueuesHoldQueued, AllQueued
<1>4. AddrIsHead'
  BY DEF AddrIsHead
<1>5. StreamBits' /\ NeverReady'
  BY DEF StreamBits, NeverReady
<1>6. WorkOnQueued' /\ IdleIsIdle' /\ WalkStops' /\ WorkIsSingleShot' /\ PreviewIdleExact'
  BY ChainStays DEF WorkOnQueued, IdleIsIdle, WalkStops, WorkIsSingleShot, BeingStopped,
                    PreviewIdleExact
<1> QED BY <1>1, <1>2, <1>3, <1>4, <1>5, <1>6

LEMMA StepStreamon ==
  ASSUME IndInv, NEW e \in Ends, Streamon(e) PROVE IndInv'
<1> USE DEF IndInv, Streamon, Thread, Goes, qvars, mvars
<1>a. pc[e] = "user" /\ ~streaming[e] /\ TypeOK /\ pc' = [pc EXCEPT ![e] = "started"]
  OBVIOUS
<1>b. ~Counted(e)
  BY <1>a DEF Counted
<1>c. \A f \in Ends : Counted(f)' <=> Counted(f) \/ f = e
  BY <1>a DEF Counted, TypeOK
<1>2. CallsAgree' /\ PipeCounted'
  BY <1>a, <1>b, <1>c, M2MAssumption DEF CallsAgree, PipeCounted, BeingStopped, TypeOK, One, Ends
<1>1. TypeOK'
  BY <1>a, <1>b DEF TypeOK, PipeCounted, One, Ends
<1>3. QueuesHoldQueued'
  BY DEF QueuesHoldQueued, AllQueued
<1>4. AddrIsHead'
  BY DEF AddrIsHead
<1>5. StreamBits' /\ NeverReady'
  BY <1>a, <1>c DEF StreamBits, NeverReady, TypeOK, PipeCounted, Counted, One, Ends
<1>6. IdleIsIdle' /\ PreviewIdleExact'
  <2>1. CASE pipe = None
    <3>1. \A f \in Ends : ~Counted(f)
      BY <2>1 DEF PipeCounted, One, Ends
    <3>2. \A f \in Ends : ModuleOf(f) \notin busy \cup irq
      BY <3>1 DEF Counted, WorkOnQueued
    <3> QED BY <1>a, <3>1, <3>2, ChainStays DEF IdleIsIdle, PreviewIdleExact, Counted, TypeOK
  <2>2. CASE pipe # None
    BY <1>a, <2>2, ChainStays DEF IdleIsIdle, PreviewIdleExact, TypeOK
  <2> QED BY <2>1, <2>2
<1>7. WorkOnQueued'
  BY ChainStays DEF WorkOnQueued
<1>8. WalkStops' /\ WorkIsSingleShot'
  <2>1. \A f \in Ends : (BeingStopped(f)' <=> BeingStopped(f)) /\ (pc'[f] = "wait" <=> pc[f] = "wait")
    BY <1>a DEF BeingStopped, TypeOK
  <2> QED BY <2>1 DEF WalkStops, WorkIsSingleShot
<1> QED BY <1>1, <1>2, <1>3, <1>4, <1>5, <1>6, <1>7, <1>8

\* media_entity_pipeline_stop for a node that no module works for.
LEMMA PipelineStopKeeps ==
  ASSUME IndInv, NEW e \in Ends, PipelineStop, Counted(e), UNCHANGED <<chain, pstate, mstate, busy, irq, walk>>,
         pc[e] = "started" \/ (pc[e] = "stop" /\ walk[e] = <<>>),
         pc' = [pc EXCEPT ![e] = "user"], streaming' = [streaming EXCEPT ![e] = FALSE],
         \A f \in Ends : f # e => dmaqueue'[f] = dmaqueue[f]
  PROVE  /\ CallsAgree' /\ PipeCounted' /\ StreamBits' /\ WorkOnQueued' /\ IdleIsIdle' /\ WalkStops'
         /\ NeverReady' /\ WorkIsSingleShot' /\ PreviewIdleExact'
         /\ pipe' \in Ends \cup {None} /\ stream_count' \in 0 .. 2
<1> USE DEF IndInv
<1>1. TypeOK /\ chain \in Chains
  BY DEF TypeOK
<1>2. \A f \in Ends : Counted(f)' <=> Counted(f) /\ f # e
  BY <1>1 DEF Counted, TypeOK
<1>3. CallsAgree'
  BY <1>1 DEF CallsAgree, BeingStopped, TypeOK
<1>4. /\ PipeCounted' /\ pipe' \in Ends \cup {None} /\ stream_count' \in 0 .. 2
      /\ pipe # None
      /\ pipe' = None \/ pipe' = pipe
      /\ pipe' = None => \A f \in Ends : f # e => ~Counted(f)
  BY <1>1, <1>2 DEF PipeCounted, PipelineStop, One, Ends, TypeOK
<1>5. StreamBits'
  <2>1. \A x \in Ends : StreamBit[e] \notin pstate[x] /\ QueueBit[e] \notin pstate[x]
    BY <1>1 DEF StreamBits
  <2>2. \A f \in Ends : f # e => pc'[f] = pc[f] /\ streaming'[f] = streaming[f]
    BY <1>1 DEF TypeOK
  <2>3. pc'[e] = "user" /\ ~streaming'[e]
    BY <1>1 DEF TypeOK
  <2> QED BY <1>1, <1>4, <2>1, <2>2, <2>3 DEF StreamBits, Counted
<1>6. NeverReady'
  BY DEF NeverReady
<1>7. ModuleOf(e) \notin busy \cup irq
  <2>1. CASE pc[e] = "started"
    BY <2>1 DEF WorkOnQueued, CallsAgree
  <2>2. CASE pc[e] = "stop" /\ walk[e] = <<>>
    BY <2>2 DEF WalkStops, BeingStopped
  <2> QED BY <2>1, <2>2
<1>8. WorkOnQueued'
  BY <1>1, <1>7, ChainStays DEF WorkOnQueued, TypeOK
<1>9. IdleIsIdle' /\ PreviewIdleExact'
  BY <1>1, <1>4, ChainStays DEF IdleIsIdle, PreviewIdleExact, Counted, TypeOK
<1>10. \A f \in Ends : /\ BeingStopped(f)' <=> BeingStopped(f) /\ f # e
                       /\ pc'[f] = "wait" <=> pc[f] = "wait" 
  BY <1>1 DEF BeingStopped, TypeOK
<1>11. WalkStops'
  BY <1>10 DEF WalkStops
<1>12. WorkIsSingleShot'
  <2>1. CASE pc[e] = "started"
    BY <1>10, <2>1 DEF WorkIsSingleShot, BeingStopped
  <2>2. CASE pc[e] = "stop" /\ walk[e] = <<>>
    BY <2>2 DEF WorkIsSingleShot, WalkStops, BeingStopped
  <2> QED BY <2>1, <2>2
<1> QED BY <1>3, <1>4, <1>5, <1>6, <1>8, <1>9, <1>11, <1>12

LEMMA StepStreamonInvalid ==
  ASSUME IndInv, NEW e \in Ends, StreamonInvalid(e) PROVE IndInv'
<1> USE DEF IndInv
<1>1. /\ TypeOK /\ pc[e] = "started" /\ ~streaming[e] /\ Counted(e)
      /\ pc' = [pc EXCEPT ![e] = "user"] /\ PipelineStop
      /\ UNCHANGED <<chain, queue, state, dmaqueue, streaming, pstate, mstate, addr, busy, irq, walk>>
  BY DEF CallsAgree, Counted, StreamonInvalid, Thread, Goes, qvars, mvars
<1>2. streaming' = [streaming EXCEPT ![e] = FALSE]
  BY <1>1 DEF TypeOK
<1>3. /\ CallsAgree' /\ PipeCounted' /\ StreamBits' /\ WorkOnQueued' /\ IdleIsIdle' /\ WalkStops'
      /\ NeverReady' /\ WorkIsSingleShot' /\ PreviewIdleExact'
      /\ pipe' \in Ends \cup {None} /\ stream_count' \in 0 .. 2
  BY <1>1, <1>2, PipelineStopKeeps
<1>4. TypeOK'
  BY <1>1, <1>3 DEF TypeOK
<1>5. QueuesHoldQueued' /\ AddrIsHead'
  BY <1>1 DEF QueuesHoldQueued, AddrIsHead, AllQueued
<1> QED BY <1>3, <1>4, <1>5

LEMMA StepStreamoffEnd ==
  ASSUME IndInv, NEW e \in Ends, StreamoffEnd(e) PROVE IndInv'
<1> USE DEF IndInv
<1>1. /\ TypeOK /\ pc[e] = "stop" /\ walk[e] = <<>> /\ Counted(e)
      /\ pc' = [pc EXCEPT ![e] = "user"] /\ PipelineStop
      /\ streaming' = [streaming EXCEPT ![e] = FALSE]
      /\ dmaqueue' = [dmaqueue EXCEPT ![e] = <<>>] /\ queue' = [queue EXCEPT ![e] = <<>>]
      /\ state' = [state EXCEPT ![e] = [b \in Buffers |-> "IDLE"]]
      /\ UNCHANGED <<chain, pstate, mstate, addr, busy, irq, walk>>
  BY DEF CallsAgree, BeingStopped, Counted, StreamoffEnd, Thread, Goes, mvars
<1>2. \A f \in Ends : f # e => dmaqueue'[f] = dmaqueue[f]
  BY <1>1 DEF TypeOK
<1>3. /\ CallsAgree' /\ PipeCounted' /\ StreamBits' /\ WorkOnQueued' /\ IdleIsIdle' /\ WalkStops'
      /\ NeverReady' /\ WorkIsSingleShot' /\ PreviewIdleExact'
      /\ pipe' \in Ends \cup {None} /\ stream_count' \in 0 .. 2
  BY <1>1, <1>2, PipelineStopKeeps
<1>4. TypeOK'
  BY <1>1, <1>3 DEF TypeOK
<1>5. QueuesHoldQueued' /\ AddrIsHead'
  BY <1>1 DEF QueuesHoldQueued, AddrIsHead, AllQueued, TypeOK
<1> QED BY <1>3, <1>4, <1>5

\* STREAMON's bits: the node's module is at rest, it has no buffer yet.
LEMMA StepStreamonBits ==
  ASSUME IndInv, NEW e \in Ends, StreamonBits(e) PROVE IndInv'
<1> USE DEF IndInv
<1> DEFINE bits == (pstate[pipe] \ {"STREAM"}) \cup {StreamBit[e], IdleBit[e]}
<1>1. /\ TypeOK /\ pc[e] = "started" /\ ~streaming[e] /\ dmaqueue[e] = <<>>
      /\ pc' = [pc EXCEPT ![e] = "bits"]
      /\ pstate' = [pstate EXCEPT ![pipe] = (@ \ {"STREAM"}) \cup {StreamBit[e], IdleBit[e]}]
      /\ UNCHANGED <<chain, queue, state, dmaqueue, streaming, pipe, stream_count, mstate, addr,
                     busy, irq, walk>>
  BY DEF CallsAgree, QueuesHoldQueued, StreamonBits, Thread, Goes, qvars, mvars
<1>2. pipe \in Ends /\ pipe # None
  BY <1>1 DEF PipeCounted, Counted, One, Ends, TypeOK
<1>3. /\ pstate'[pipe] = bits /\ bits \in SUBSET Bits
      /\ \A x \in Ends : x # pipe => pstate'[x] = pstate[x]
  BY <1>1, <1>2, BitsDiffer DEF TypeOK
<1>4. TypeOK'
  BY <1>1, <1>2, <1>3 DEF TypeOK
<1>5. CallsAgree' /\ PipeCounted'
  <2>1. \A f \in Ends : Counted(f)' <=> Counted(f)
    BY <1>1 DEF Counted, TypeOK
  <2> QED BY <1>1, <2>1 DEF CallsAgree, PipeCounted, BeingStopped, TypeOK, One, Ends
<1>6. QueuesHoldQueued' /\ AddrIsHead'
  BY <1>1 DEF QueuesHoldQueued, AddrIsHead, AllQueued
<1>7. StreamBits'
  <2>1. \A x, f \in Ends : QueueBit[f] \in pstate'[x] <=> QueueBit[f] \in pstate[x]
    BY <1>3, BitsDiffer
  <2>2. \A x, f \in Ends : StreamBit[f] \in pstate'[x] <=> StreamBit[f] \in pstate[x] \/ (f = e /\ x = pipe)
    BY <1>3, BitsDiffer
  <2> QED BY <1>1, <2>1, <2>2 DEF StreamBits, TypeOK
<1>8. NeverReady'
  <2>1. QueueBit[e] \notin bits
    BY <1>1, <1>2, BitsDiffer DEF StreamBits
  <2>2. ~Ready(bits) /\ "STREAM" \notin bits
    BY <1>3, <2>1, ReadyBits, BitsDiffer
  <2> QED BY <1>3, <2>2 DEF NeverReady
<1>9. ModuleOf(e) \notin busy \cup irq
  BY <1>1 DEF WorkOnQueued
<1>10. WorkOnQueued'
  BY <1>1, ChainStays DEF WorkOnQueued
<1>11. \A f \in Ends : IdleBit[f] \in bits <=> IdleBit[f] \in pstate[pipe] \/ f = e
  BY BitsDiffer
<1>12. IdleIsIdle' /\ PreviewIdleExact'
  BY <1>1, <1>2, <1>3, <1>9, <1>11, ChainStays DEF IdleIsIdle, PreviewIdleExact, TypeOK
<1>13. WalkStops' /\ WorkIsSingleShot'
  <2>1. \A f \in Ends : (BeingStopped(f)' <=> BeingStopped(f)) /\ (pc'[f] = "wait" <=> pc[f] = "wait")
    BY <1>1 DEF BeingStopped, TypeOK
  <2> QED BY <1>1, <2>1 DEF WalkStops, WorkIsSingleShot
<1> QED BY <1>4, <1>5, <1>6, <1>7, <1>8, <1>10, <1>12, <1>13

\* STREAMOFF's bits: from now on no pass starts.
LEMMA StepStreamoff ==
  ASSUME IndInv, NEW e \in Ends, Streamoff(e) PROVE IndInv'
<1> USE DEF IndInv
<1> DEFINE bits == pstate[pipe] \ {StreamBit[e], QueueBit[e]}
<1>1. /\ TypeOK /\ chain \in Chains /\ pc[e] = "user" /\ streaming[e]
      /\ pc' = [pc EXCEPT ![e] = "stop"] /\ walk' = [walk EXCEPT ![e] = Walk]
      /\ pstate' = [pstate EXCEPT ![pipe] = @ \ {StreamBit[e], QueueBit[e]}]
      /\ UNCHANGED <<chain, queue, state, dmaqueue, streaming, pipe, stream_count, mstate, addr,
                     busy, irq>>
  BY DEF TypeOK, Streamoff, Thread, Goes, qvars, mvars
<1>2. pipe \in Ends /\ pipe # None
  BY <1>1 DEF PipeCounted, Counted, One, Ends, TypeOK
<1>3. /\ pstate'[pipe] = bits /\ bits \in SUBSET Bits
      /\ \A x \in Ends : x # pipe => pstate'[x] = pstate[x]
  BY <1>1, <1>2 DEF TypeOK
<1>4. TypeOK'
  BY <1>1, <1>2, <1>3, ChainFacts DEF TypeOK
<1>5. CallsAgree' /\ PipeCounted'
  <2>1. \A f \in Ends : Counted(f)' <=> Counted(f)
    BY <1>1 DEF Counted, TypeOK
  <2> QED BY <1>1, <2>1 DEF CallsAgree, PipeCounted, BeingStopped, TypeOK, One, Ends
<1>6. QueuesHoldQueued' /\ AddrIsHead'
  BY <1>1 DEF QueuesHoldQueued, AddrIsHead, AllQueued
<1>7. StreamBits'
  <2>1. \A x, f \in Ends :
          /\ QueueBit[f] \in pstate'[x] <=> QueueBit[f] \in pstate[x] /\ ~(f = e /\ x = pipe)
          /\ StreamBit[f] \in pstate'[x] <=> StreamBit[f] \in pstate[x] /\ ~(f = e /\ x = pipe)
    BY <1>3, BitsDiffer
  <2> QED BY <1>1, <2>1 DEF StreamBits, TypeOK
<1>8. NeverReady'
  <2>1. ~Ready(bits)
    BY <1>3, ReadyBits
  <2> QED BY <1>3, <2>1, BitsDiffer DEF NeverReady
<1>9. WorkOnQueued'
  BY <1>1, ChainStays DEF WorkOnQueued
<1>10. IdleIsIdle' /\ PreviewIdleExact'
  <2>1. \A f \in Ends : IdleBit[f] \in bits <=> IdleBit[f] \in pstate[pipe]
    BY BitsDiffer
  <2> QED BY <1>1, <1>2, <1>3, <2>1, ChainStays DEF IdleIsIdle, PreviewIdleExact, TypeOK
<1>11. WalkStops'
  <2>1. \A f \in Ends : f # e => (BeingStopped(f)' <=> BeingStopped(f))
                                 /\ pc'[f] = pc[f] /\ walk'[f] = walk[f]
    BY <1>1 DEF BeingStopped, TypeOK
  <2>2. pc'[e] = "stop" /\ walk'[e] = Walk
    BY <1>1 DEF TypeOK
  <2>3. \A m \in busy \cup irq : \E i \in 1 .. Len(Walk) : Walk[i] = m
    BY <1>1, ChainFacts DEF WorkOnQueued
  <2> QED BY <1>1, <2>1, <2>2, <2>3 DEF WalkStops
<1>12. WorkIsSingleShot'
  BY <1>1 DEF WorkIsSingleShot, BeingStopped, TypeOK
<1> QED BY <1>4, <1>5, <1>6, <1>7, <1>8, <1>9, <1>10, <1>11, <1>12

\* STREAMOFF stops a module, then waits for it.
LEMMA StepStreamoffModule ==
  ASSUME IndInv, NEW e \in Ends, StreamoffModule(e) \/ StreamoffWait(e) PROVE IndInv'
<1> USE DEF IndInv
<1>1. /\ TypeOK /\ BeingStopped(e) /\ walk[e] # <<>> /\ irq = {}
      /\ pc' = [pc EXCEPT ![e] = "wait"] \/ pc' = [pc EXCEPT ![e] = "stop"]
      /\ UNCHANGED <<chain, queue, state, dmaqueue, streaming, pipe, stream_count, pstate, addr, busy, irq>>
  BY DEF StreamoffModule, StreamoffWait, WalkStops, BeingStopped, Thread, Goes, qvars, pvars, mvars
<1>2. \A f \in Ends : BeingStopped(f)' <=> BeingStopped(f)
  BY <1>1 DEF BeingStopped, TypeOK
<1>3. TypeOK'
  <2>1. walk[e] \in Seq(Modules) /\ Head(walk[e]) \in Modules /\ Tail(walk[e]) \in Seq(Modules)
    BY <1>1 DEF TypeOK
  <2> QED BY <1>1, <2>1 DEF TypeOK, StreamoffModule, StreamoffWait, Thread, Goes, qvars, pvars, mvars
<1>4. CallsAgree' /\ PipeCounted'
  <2>1. \A f \in Ends : Counted(f)' <=> Counted(f)
    BY <1>1 DEF BeingStopped, Counted, TypeOK
  <2> QED BY <1>1, <1>2, <2>1 DEF CallsAgree, PipeCounted, TypeOK, One, Ends
<1>5. QueuesHoldQueued' /\ AddrIsHead'
  BY <1>1 DEF QueuesHoldQueued, AddrIsHead, AllQueued
<1>6. StreamBits' /\ NeverReady'
  BY <1>1 DEF StreamBits, NeverReady, BeingStopped, TypeOK
<1>7. WorkOnQueued' /\ IdleIsIdle' /\ PreviewIdleExact'
  BY <1>1, ChainStays DEF WorkOnQueued, IdleIsIdle, PreviewIdleExact, BeingStopped, TypeOK
<1>8. WalkStops'
  <2>1. CASE StreamoffModule(e)
    BY <1>1, <1>2, <2>1 DEF WalkStops, StreamoffModule, TypeOK, Goes
  <2>2. CASE StreamoffWait(e)
    <3>1. /\ walk' = [walk EXCEPT ![e] = Tail(@)] /\ pc' = [pc EXCEPT ![e] = "stop"]
          /\ Head(walk[e]) \notin busy /\ walk[e] \in Seq(Modules)
      BY <1>1, <2>2 DEF StreamoffWait, Goes, TypeOK
    <3>2. ASSUME NEW m \in busy PROVE \E i \in 1 .. Len(Tail(walk[e])) : Tail(walk[e])[i] = m
      <4>1. PICK i \in 1 .. Len(walk[e]) : walk[e][i] = m
        BY <1>1 DEF WalkStops
      <4>2. i # 1
        BY <1>1, <3>1, <4>1
      <4>3. i - 1 \in 1 .. Len(Tail(walk[e])) /\ Tail(walk[e])[i - 1] = m
        BY <1>1, <3>1, <4>1, <4>2
      <4> QED BY <4>3
    <3>3. \A f \in Ends : f # e => pc'[f] = pc[f] /\ walk'[f] = walk[f]
      BY <1>1, <3>1 DEF TypeOK
    <3>4. pc'[e] = "stop" /\ walk'[e] = Tail(walk[e])
      BY <1>1, <3>1 DEF TypeOK
    <3>5. busy' \cup irq' = busy /\ busy \cup irq = busy
      BY <1>1
    <3>6. ASSUME NEW f \in Ends, f # e
          PROVE  /\ pc'[f] = "wait" => walk'[f] # <<>>
                 /\ BeingStopped(f)' =>
                      \A m \in busy' \cup irq' : \E i \in 1 .. Len(walk'[f]) : walk'[f][i] = m
      BY <1>2, <3>3, <3>5, <3>6 DEF WalkStops
    <3>7. \A m \in busy' \cup irq' : \E i \in 1 .. Len(walk'[e]) : walk'[e][i] = m
      BY <3>2, <3>4, <3>5
    <3> QED BY <3>4, <3>6, <3>7 DEF WalkStops
  <2> QED BY <2>1, <2>2
<1>9. WorkIsSingleShot'
  BY <1>1, <1>2 DEF WorkIsSingleShot
<1> QED BY <1>3, <1>4, <1>5, <1>6, <1>7, <1>8, <1>9

\* A frame ends: its interrupt takes its place.
LEMMA StepPassDone ==
  ASSUME IndInv, NEW m \in Modules, PassDone(m) PROVE IndInv'
<1> USE DEF IndInv, PassDone, qvars, pvars
<1>1. busy' \cup irq' = busy \cup irq /\ busy' \cap irq' = {}
  BY DEF WorkOnQueued
<1>2. TypeOK'
  BY DEF TypeOK
<1>3. CallsAgree' /\ PipeCounted'
  BY DEF CallsAgree, PipeCounted, Counted, BeingStopped, One
<1>4. QueuesHoldQueued' /\ AddrIsHead' /\ StreamBits' /\ NeverReady'
  BY DEF QueuesHoldQueued, AddrIsHead, AllQueued, StreamBits, NeverReady
<1>5. WorkOnQueued' /\ IdleIsIdle' /\ PreviewIdleExact'
  BY <1>1, ChainStays DEF WorkOnQueued, IdleIsIdle, PreviewIdleExact
<1>6. WalkStops' /\ WorkIsSingleShot'
  BY <1>1 DEF WalkStops, WorkIsSingleShot, BeingStopped
<1> QED BY <1>2, <1>3, <1>4, <1>5, <1>6

-----------------------------------------------------------------------------
(* The interrupt handlers.                                                 *)

\* A queue whose first buffer is taken.
LEMMA TailFacts ==
  ASSUME NEW S, NEW s \in Seq(S), s # <<>>
  PROVE  /\ Len(s) = 1 \/ Len(s) > 1
         /\ Tail(s) \in Seq(S)
         /\ Tail(s) = <<>> <=> Len(s) = 1
         /\ Len(s) # 1 => Head(Tail(s)) = s[2]
<1>1. Len(s) \in Nat \ {0} /\ Tail(s) \in Seq(S) /\ Len(Tail(s)) = Len(s) - 1
      /\ \A i \in 1 .. Len(Tail(s)) : Tail(s)[i] = s[i + 1]
  BY HeadTailProperties, EmptySeq
<1>2. Tail(s) = <<>> <=> Len(Tail(s)) = 0
  BY <1>1, EmptySeq
<1>3. ASSUME Len(s) # 1 PROVE Head(Tail(s)) = s[2]
  <2>1. 1 \in 1 .. Len(Tail(s)) /\ Tail(s) # <<>>
    BY <1>1, <1>2, <1>3
  <2>2. Tail(s)[1] = s[1 + 1]
    BY <1>1, <2>1
  <2>3. \A t \in Seq(S) : t # <<>> => Head(t) = t[1]
    OBVIOUS
  <2>4. Head(Tail(s)) = Tail(s)[1]
    BY <1>1, <2>1, <2>3
  <2>5. s[1 + 1] = s[2]
    OBVIOUS
  <2> QED BY <2>2, <2>4, <2>5, Zenon
<1> QED BY <1>1, <1>2, <1>3

\* What completing a buffer of node e does to each bit.
LEMMA BitsAfterFacts ==
  ASSUME NEW e \in Ends, NEW bits \in SUBSET Bits, dmaqueue[e] \in Seq(Buffers), dmaqueue[e] # <<>>
  PROVE  /\ BitsAfter(e, bits) \in SUBSET Bits
         /\ \A f \in Ends :
              /\ StreamBit[f] \in BitsAfter(e, bits) <=> StreamBit[f] \in bits
              /\ QueueBit[f] \in BitsAfter(e, bits) <=>
                   QueueBit[f] \in bits /\ ~(f = e /\ Len(dmaqueue[e]) = 1)
              /\ IdleBit[f] \in BitsAfter(e, bits) <=> IdleBit[f] \in bits \/ f = e
         /\ "STREAM" \in BitsAfter(e, bits) => "STREAM" \in bits /\ e # "out"
<1>1. Len(dmaqueue[e]) = 1 \/ Len(dmaqueue[e]) > 1
  BY TailFacts
<1>2. CASE Len(dmaqueue[e]) = 1
  <2>1. BitsAfter(e, bits) = {IdleBit[e]} \cup (bits \ {QueueBit[e], "STREAM"})
    BY <1>2 DEF BitsAfter
  <2> QED BY <1>2, <2>1, BitsDiffer
<1>3. CASE Len(dmaqueue[e]) # 1 /\ e = "out"
  <2>1. Len(dmaqueue[e]) > 1
    BY <1>1, <1>3, Zenon
  <2>2. BitsAfter(e, bits) = {IdleBit[e]} \cup (bits \ {"STREAM"})
    BY <1>3, <2>1 DEF BitsAfter
  <2>3. \A f \in Ends : /\ StreamBit[f] \in BitsAfter(e, bits) <=> StreamBit[f] \in bits
                        /\ QueueBit[f] \in BitsAfter(e, bits) <=> QueueBit[f] \in bits
                        /\ IdleBit[f] \in BitsAfter(e, bits) <=> IdleBit[f] \in bits \/ f = e
    BY <2>2, BitsDiffer
  <2>4. BitsAfter(e, bits) \in SUBSET Bits /\ "STREAM" \notin BitsAfter(e, bits)
    BY <2>2, BitsDiffer
  <2> QED BY <1>3, <2>3, <2>4
<1>4. CASE Len(dmaqueue[e]) # 1 /\ e # "out"
  <2>1. BitsAfter(e, bits) = {IdleBit[e]} \cup bits
    BY <1>4, Zenon DEF BitsAfter
  <2>2. \A f \in Ends : /\ StreamBit[f] \in BitsAfter(e, bits) <=> StreamBit[f] \in bits
                        /\ QueueBit[f] \in BitsAfter(e, bits) <=> QueueBit[f] \in bits
                        /\ IdleBit[f] \in BitsAfter(e, bits) <=> IdleBit[f] \in bits \/ f = e
    BY <2>1, BitsDiffer
  <2>3. BitsAfter(e, bits) \in SUBSET Bits /\ ("STREAM" \in BitsAfter(e, bits) => "STREAM" \in bits)
    BY <2>1, BitsDiffer
  <2> QED BY <1>4, <2>2, <2>3
<1> QED BY <1>2, <1>3, <1>4, Zenon

\* preview_isr_buffer and resizer_isr_buffer, from the interrupt of a module.
LEMMA IsrBufferKeeps ==
  ASSUME IndInv, NEW m \in Modules, Interrupt(m), IsrBuffer(m) PROVE IndInv'
<1> DEFINE served == {e \in Ends : ModuleOf(e) = m}
           first == IF "in" \in served THEN BitsAfter("in", pstate[pipe]) ELSE pstate[pipe]
           bits == IF "out" \in served THEN BitsAfter("out", first) ELSE first
<1>1. /\ TypeOK /\ chain \in Chains /\ m \in irq /\ irq' = irq \ {m}
      /\ UNCHANGED <<chain, queue, streaming, pipe, stream_count, pc, walk>>
  BY DEF IndInv, TypeOK, Interrupt
<1>2. /\ m \notin busy
      /\ \A e \in Ends : ModuleOf(e) = m =>
           streaming[e] /\ dmaqueue[e] # <<>> /\ dmaqueue[e] \in Seq(Buffers)
  BY <1>1 DEF IndInv, TypeOK, WorkOnQueued
<1>3. pipe \in Ends /\ pipe # None
  <2>1. \E e \in Ends : ModuleOf(e) = m
    BY <1>1, ChainFacts DEF IndInv, WorkOnQueued
  <2> QED BY <1>1, <1>2, <2>1 DEF IndInv, TypeOK, PipeCounted, Counted, One, Ends
<1>4. /\ state' = [e \in Ends |-> [b \in Buffers |->
           IF ModuleOf(e) = m /\ b = Head(dmaqueue[e]) THEN "DONE" ELSE state[e][b]]]
      /\ dmaqueue' = [e \in Ends |-> IF ModuleOf(e) = m THEN Tail(dmaqueue[e]) ELSE dmaqueue[e]]
      /\ addr' = [e \in Ends |->
           IF ModuleOf(e) = m /\ Len(dmaqueue[e]) > 1 THEN dmaqueue[e][2] ELSE addr[e]]
  BY <1>2 DEF IsrBuffer
<1>5. /\ mstate[m] = "SINGLESHOT" /\ Ready(bits) => StartPass(bits)
      /\ ~(mstate[m] = "SINGLESHOT" /\ Ready(bits)) => NoPass(bits)
  BY DEF IsrBuffer
<1>6. /\ bits \in SUBSET Bits
      /\ \A f \in Ends :
           /\ StreamBit[f] \in bits <=> StreamBit[f] \in pstate[pipe]
           /\ QueueBit[f] \in bits <=>
                QueueBit[f] \in pstate[pipe] /\ ~(ModuleOf(f) = m /\ Len(dmaqueue[f]) = 1)
           /\ IdleBit[f] \in bits <=> IdleBit[f] \in pstate[pipe] \/ ModuleOf(f) = m
      /\ "STREAM" \in bits => "STREAM" \in pstate[pipe] /\ ModuleOf("out") # m
  <2>1. pstate[pipe] \in SUBSET Bits
    BY <1>1, <1>3 DEF TypeOK
  <2>2. /\ first \in SUBSET Bits
        /\ \A f \in Ends :
             /\ StreamBit[f] \in first <=> StreamBit[f] \in pstate[pipe]
             /\ QueueBit[f] \in first <=> QueueBit[f] \in pstate[pipe]
                  /\ ~(f = "in" /\ ModuleOf(f) = m /\ Len(dmaqueue[f]) = 1)
             /\ IdleBit[f] \in first <=> IdleBit[f] \in pstate[pipe] \/ (f = "in" /\ ModuleOf(f) = m)
        /\ "STREAM" \in first => "STREAM" \in pstate[pipe]
    <3>1. CASE "in" \in served
      BY <1>2, <2>1, <3>1, BitsAfterFacts
    <3>2. CASE "in" \notin served
      BY <2>1, <3>2 DEF Ends
    <3> QED BY <3>1, <3>2
  <2> HIDE DEF first
  <2>3. CASE "out" \in served
    BY <1>2, <2>2, <2>3, BitsAfterFacts DEF Ends
  <2>4. CASE "out" \notin served
    BY <2>2, <2>4 DEF Ends
  <2> QED BY <2>3, <2>4
<1> HIDE DEF bits
<1>7. /\ \A f \in Ends : dmaqueue'[f] = IF ModuleOf(f) = m THEN Tail(dmaqueue[f]) ELSE dmaqueue[f]
      /\ \A f \in Ends : dmaqueue'[f] # <<>> <=>
           dmaqueue[f] # <<>> /\ ~(ModuleOf(f) = m /\ Len(dmaqueue[f]) = 1)
      /\ \A f \in Ends : dmaqueue'[f] \in Seq(Buffers)
  <2>1. SUFFICES ASSUME NEW f \in Ends
                 PROVE  /\ dmaqueue'[f] = IF ModuleOf(f) = m THEN Tail(dmaqueue[f]) ELSE dmaqueue[f]
                        /\ dmaqueue'[f] # <<>> <=>
                             dmaqueue[f] # <<>> /\ ~(ModuleOf(f) = m /\ Len(dmaqueue[f]) = 1)
                        /\ dmaqueue'[f] \in Seq(Buffers)
    OBVIOUS
  <2>2. CASE ModuleOf(f) = m
    <3>1. /\ dmaqueue[f] \in Seq(Buffers) /\ dmaqueue[f] # <<>>
          /\ dmaqueue'[f] = Tail(dmaqueue[f])
      BY <1>2, <1>4, <2>2
    <3>2. /\ Tail(dmaqueue[f]) \in Seq(Buffers)
          /\ Tail(dmaqueue[f]) # <<>> <=> Len(dmaqueue[f]) # 1
      BY <3>1, TailFacts
    <3> QED BY <2>2, <3>1, <3>2
  <2>3. CASE ModuleOf(f) # m
    BY <1>1, <1>4, <2>3 DEF TypeOK
  <2> QED BY <2>2, <2>3
<1>8. AddrIsHead'
  <2>1. SUFFICES ASSUME NEW f \in Ends, dmaqueue'[f] # <<>> PROVE addr'[f] = Head(dmaqueue'[f])
    BY DEF AddrIsHead
  <2>2. CASE ModuleOf(f) = m
    <3>1. dmaqueue[f] \in Seq(Buffers) /\ dmaqueue[f] # <<>> /\ Len(dmaqueue[f]) # 1
      BY <1>2, <1>7, <2>1, <2>2
    <3>2. Len(dmaqueue[f]) > 1 /\ Head(Tail(dmaqueue[f])) = dmaqueue[f][2]
      BY <3>1, TailFacts
    <3> QED BY <1>4, <1>7, <2>2, <3>2
  <2>3. CASE ModuleOf(f) # m
    BY <1>4, <1>7, <2>1, <2>3 DEF IndInv, AddrIsHead
  <2> QED BY <2>2, <2>3
<1>9. QueuesHoldQueued'
  <2>1. SUFFICES ASSUME NEW f \in Ends
                 PROVE  /\ AllQueued(f, dmaqueue[f])'
                        /\ ~streaming'[f] => dmaqueue'[f] = <<>> /\ AllQueued(f, queue[f])'
    BY DEF QueuesHoldQueued
  <2>2. CASE ModuleOf(f) = m
    <3> DEFINE d == dmaqueue[f]
    <3>1. /\ d \in Seq(Buffers) /\ d # <<>> /\ dmaqueue'[f] = Tail(d)
          /\ \A i \in 1 .. Len(d) : state[f][d[i]] = "QUEUED"
          /\ \A i, j \in 1 .. Len(d) : d[i] = d[j] => i = j
      BY <1>2, <1>7, <2>2 DEF IndInv, QueuesHoldQueued, AllQueued
    <3>2. \A b \in Buffers : b # Head(d) => state'[f][b] = state[f][b]
      BY <1>4
    <3>3. Len(Tail(d)) = Len(d) - 1 /\ Len(d) \in Nat \ {0}
          /\ \A i \in 1 .. Len(Tail(d)) : Tail(d)[i] = d[i + 1] /\ i + 1 \in 1 .. Len(d) /\ d[i + 1] \in Buffers
      BY <3>1
    <3>4. \A i \in 1 .. Len(Tail(d)) : state'[f][Tail(d)[i]] = "QUEUED"
      <4>1. Head(d) = d[1] /\ 1 \in 1 .. Len(d)
        BY <3>1
      <4>2. \A i \in 1 .. Len(Tail(d)) : d[i + 1] # Head(d)
        BY <3>1, <3>3, <4>1
      <4> QED BY <3>1, <3>2, <3>3, <4>2
    <3>5. \A i, j \in 1 .. Len(Tail(d)) : Tail(d)[i] = Tail(d)[j] => i = j
      BY <3>1, <3>3
    <3> QED BY <1>1, <1>2, <2>2, <3>1, <3>4, <3>5 DEF AllQueued
  <2>3. CASE ModuleOf(f) # m
    <3>1. dmaqueue'[f] = dmaqueue[f] /\ dmaqueue[f] \in Seq(Buffers) /\ queue[f] \in Seq(Buffers)
      BY <1>1, <1>7, <2>3 DEF TypeOK
    <3>2. \A b \in Buffers : state'[f][b] = state[f][b]
      BY <1>4, <2>3
    <3>3. /\ \A i \in 1 .. Len(dmaqueue[f]) : dmaqueue[f][i] \in Buffers
          /\ \A i \in 1 .. Len(queue[f]) : queue[f][i] \in Buffers
      BY <3>1
    <3>4. AllQueued(f, dmaqueue[f])'
      BY <3>1, <3>2, <3>3 DEF IndInv, QueuesHoldQueued, AllQueued
    <3>5. ~streaming[f] => dmaqueue[f] = <<>> /\ AllQueued(f, queue[f])'
      BY <1>1, <3>2, <3>3 DEF IndInv, QueuesHoldQueued, AllQueued
    <3> QED BY <1>1, <3>1, <3>4, <3>5
  <2> QED BY <2>2, <2>3
<1>10. CallsAgree' /\ PipeCounted'
  BY <1>1 DEF IndInv, CallsAgree, PipeCounted, Counted, BeingStopped, One
<1>11. \A f \in Ends : BeingStopped(f)' <=> BeingStopped(f)
  BY <1>1 DEF BeingStopped
<1>12. /\ state' \in [Ends -> [Buffers -> {"IDLE", "QUEUED", "DONE"}]]
       /\ addr' \in [Ends -> Buffers \cup {None}] /\ dmaqueue' \in [Ends -> Seq(Buffers)]
  <2>1. \A f \in Ends : ModuleOf(f) = m /\ Len(dmaqueue[f]) > 1 => dmaqueue[f][2] \in Buffers
    BY <1>2
  <2> QED BY <1>1, <1>4, <1>7, <2>1 DEF TypeOK
<1>13. CASE mstate[m] = "SINGLESHOT" /\ Ready(bits)
  <2>1. /\ pstate' = [pstate EXCEPT ![pipe] = bits \ {IdleBit[f] : f \in Ends}]
        /\ \A k \in Modules : mstate'[k] = IF InChain(k) THEN "SINGLESHOT" ELSE mstate[k]
        /\ mstate' \in [Modules -> {"STOPPED", "SINGLESHOT"}]
        /\ busy' = busy \cup {k \in Modules : InChain(k)}
    BY <1>1, <1>5, <1>13 DEF StartPass, TypeOK
  <2>2. "STREAM" \notin bits
        /\ \A f \in Ends : StreamBit[f] \in bits /\ QueueBit[f] \in bits /\ IdleBit[f] \in bits
    BY <1>6, <1>13, ReadyBits
  <2>3. \A f \in Ends : streaming[f] /\ pc[f] = "user" /\ dmaqueue'[f] # <<>>
    BY <1>3, <1>6, <1>7, <2>2 DEF IndInv, StreamBits
  <2>4. \A f \in Ends : ModuleOf(f) \notin busy \cup irq'
    BY <1>1, <1>2, <1>3, <1>6, <2>2 DEF IndInv, IdleIsIdle
  <2>5. busy = {} /\ irq' = {} /\ busy' = {k \in Modules : InChain(k)}
    BY <1>1, <2>1, <2>4, ChainFacts DEF IndInv, TypeOK, WorkOnQueued
  <2>6. /\ \A f \in Ends : IdleBit[f] \notin pstate'[pipe]
        /\ \A f \in Ends : StreamBit[f] \in pstate'[pipe] /\ QueueBit[f] \in pstate'[pipe]
        /\ pstate'[pipe] \in SUBSET Bits
        /\ \A x \in Ends : x # pipe => pstate'[x] = pstate[x]
    BY <1>1, <1>3, <1>6, <2>1, <2>2, BitsDiffer DEF TypeOK
  <2>7. TypeOK'
    BY <1>1, <1>12, <2>1, <2>5, <2>6 DEF TypeOK
  <2>8. StreamBits'
    BY <1>1, <1>3, <1>7, <2>3, <2>6 DEF IndInv, StreamBits
  <2>9. NeverReady'
    <3>1. ~Ready(pstate'[pipe])
      BY <2>6, ReadyBits DEF Ends
    <3> QED BY <2>6, <3>1 DEF IndInv, NeverReady, Ends
  <2>10. WorkOnQueued' /\ IdleIsIdle'
    BY <1>1, <2>3, <2>5, <2>6, ChainStays DEF WorkOnQueued, IdleIsIdle
  <2>11. PreviewIdleExact'
    BY <1>1, <2>5, ChainFacts DEF PreviewIdleExact, Modules, Ends
  <2>12. WalkStops' /\ WorkIsSingleShot'
    BY <1>1, <2>1, <2>3, <2>5 DEF WalkStops, WorkIsSingleShot, BeingStopped
  <2> QED BY <1>8, <1>9, <1>10, <2>7, <2>8, <2>9, <2>10, <2>11, <2>12 DEF IndInv
<1>14. CASE ~(mstate[m] = "SINGLESHOT" /\ Ready(bits))
  <2>1. pstate' = [pstate EXCEPT ![pipe] = bits] /\ UNCHANGED <<mstate, busy>>
    BY <1>5, <1>14 DEF NoPass
  <2>2. pstate'[pipe] = bits /\ \A x \in Ends : x # pipe => pstate'[x] = pstate[x]
    BY <1>1, <1>3, <2>1 DEF TypeOK
  <2>3. TypeOK'
    BY <1>1, <1>6, <1>12, <2>1 DEF TypeOK
  <2>4. StreamBits'
    BY <1>1, <1>3, <1>6, <1>7, <2>2 DEF IndInv, StreamBits
  <2>5. NeverReady'
    <3>1. ~Ready(bits)
      <4>1. CASE mstate[m] = "SINGLESHOT"
        BY <1>14, <4>1
      <4>2. CASE mstate[m] # "SINGLESHOT"
        <5>1. PICK f \in Ends : BeingStopped(f)
          BY <1>1, <4>2 DEF IndInv, WorkIsSingleShot
        <5>2. StreamBit[f] \notin bits
          BY <1>3, <1>6, <5>1 DEF IndInv, StreamBits, BeingStopped
        <5> QED BY <1>6, <5>2, ReadyBits
      <4> QED BY <4>1, <4>2
    <3>2. "STREAM" \in bits => IdleBit["out"] \notin bits
      BY <1>3, <1>6 DEF IndInv, NeverReady, Ends
    <3> QED BY <2>2, <3>1, <3>2 DEF IndInv, NeverReady
  <2>6. WorkOnQueued'
    BY <1>1, <1>2, <1>7, <2>1, ChainStays DEF IndInv, WorkOnQueued
  <2>7. IdleIsIdle' /\ PreviewIdleExact'
    <3>1. busy' \cup irq' = (busy \cup irq) \ {m}
      BY <1>1, <1>2, <2>1
    <3>2. chain = "preview" => \A f \in Ends : ModuleOf(f) = "preview"
      BY <1>1, ChainFacts
    <3> QED BY <1>1, <1>3, <1>6, <2>2, <3>1, <3>2, ChainStays DEF IndInv, IdleIsIdle, PreviewIdleExact
  <2>8. WalkStops' /\ WorkIsSingleShot'
    BY <1>1, <1>11, <2>1 DEF IndInv, WalkStops, WorkIsSingleShot
  <2> QED BY <1>8, <1>9, <1>10, <2>3, <2>4, <2>5, <2>6, <2>7, <2>8 DEF IndInv
<1> QED BY <1>13, <1>14

\* A stopped resizer: the interrupt is acknowledged and nothing else.
LEMMA StepResizerIsrStopped ==
  ASSUME IndInv, ResizerIsrStopped PROVE IndInv'
<1> USE DEF IndInv, ResizerIsrStopped, Interrupt
<1>1. TypeOK' /\ CallsAgree' /\ PipeCounted'
  BY DEF TypeOK, CallsAgree, PipeCounted, Counted, BeingStopped, One
<1>2. QueuesHoldQueued' /\ AddrIsHead' /\ StreamBits' /\ NeverReady'
  BY DEF QueuesHoldQueued, AddrIsHead, AllQueued, StreamBits, NeverReady
<1>3. WorkOnQueued' /\ IdleIsIdle' /\ PreviewIdleExact'
  BY ChainStays DEF WorkOnQueued, IdleIsIdle, PreviewIdleExact
<1>4. WalkStops' /\ WorkIsSingleShot'
  BY DEF WalkStops, WorkIsSingleShot, BeingStopped
<1> QED BY <1>1, <1>2, <1>3, <1>4

-----------------------------------------------------------------------------
LEMMA NextInd == IndInv /\ [Next]_vars => IndInv'
<1> SUFFICES ASSUME IndInv, [Next]_vars PROVE IndInv'
  OBVIOUS
<1>1. CASE UNCHANGED vars
  <2> USE <1>1 DEF IndInv, vars, qvars, pvars, mvars
  <2>1. TypeOK' /\ CallsAgree' /\ PipeCounted'
    BY DEF TypeOK, CallsAgree, PipeCounted, Counted, BeingStopped, One
  <2>2. QueuesHoldQueued' /\ AddrIsHead' /\ StreamBits' /\ NeverReady'
    BY DEF QueuesHoldQueued, AddrIsHead, AllQueued, StreamBits, NeverReady
  <2>3. WorkOnQueued' /\ IdleIsIdle' /\ PreviewIdleExact'
    BY ChainStays DEF WorkOnQueued, IdleIsIdle, PreviewIdleExact
  <2>4. WalkStops' /\ WorkIsSingleShot'
    BY DEF WalkStops, WorkIsSingleShot, BeingStopped
  <2> QED BY <2>1, <2>2, <2>3, <2>4
<1>2. ASSUME NEW e \in Ends, NEW b \in Buffers, QbufStopped(e, b) \/ QbufStreaming(e, b)
      PROVE  IndInv'
  BY <1>2, StepQbufStopped, StepQbufStreaming
<1>3. ASSUME NEW e \in Ends, Dqbuf(e) \/ Streamon(e) \/ Streamoff(e) PROVE IndInv'
  BY <1>3, StepDqbuf, StepStreamon, StepStreamoff
<1>4. ASSUME NEW e \in Ends, Continues(e) PROVE IndInv'
  BY <1>4, StepStreamonInvalid, StepStreamonBits, StepStreamonQueue, StepStreamoffModule,
     StepStreamoffEnd DEF Continues
<1>5. CASE Isr
  <2>1. "preview" \in Modules /\ "resizer" \in Modules
    BY DEF Modules
  <2> QED BY <1>5, <2>1, IsrBufferKeeps, StepResizerIsrStopped DEF Isr, PreviewIsr, ResizerIsr
<1>6. ASSUME NEW m \in Modules, PassDone(m) PROVE IndInv'
  BY <1>6, StepPassDone
<1> QED BY <1>1, <1>2, <1>3, <1>4, <1>5, <1>6 DEF Next

LEMMA Inductive == Spec => []IndInv
  BY InitInd, NextInd, PTL DEF Spec

\* Every variable keeps its type; above all the count of streams in a
\* pipeline never leaves 0 .. 2 (media_entity_pipeline_start, _stop).
THEOREM TypeCorrect == Spec => []TypeOK
<1>1. IndInv => TypeOK
  BY DEF IndInv
<1> QED BY <1>1, Inductive, PTL

\* A module at work reads and writes the first buffers of both DMA queues,
\* whatever the threads of the two nodes do meanwhile (isp_video_buffer_queue,
\* preview_isr_buffer, resizer_isr_buffer).
THEOREM ModulesWorkOnQueued == Spec => []BusyOnQueued
<1>1. IndInv => BusyOnQueued
  <2> SUFFICES ASSUME IndInv, NEW e \in Ends, ModuleOf(e) \in busy \cup irq
               PROVE  /\ pipe # None /\ streaming[e] /\ dmaqueue[e] # <<>>
                      /\ addr[e] = Head(dmaqueue[e]) /\ state[e][addr[e]] = "QUEUED"
    BY DEF BusyOnQueued
  <2>1. streaming[e] /\ dmaqueue[e] # <<>> /\ addr[e] = Head(dmaqueue[e])
    BY DEF IndInv, WorkOnQueued, AddrIsHead
  <2>2. pipe # None
    BY <2>1 DEF IndInv, PipeCounted, Counted, One, Ends
  <2>3. state[e][Head(dmaqueue[e])] = "QUEUED"
    BY <2>1 DEF IndInv, TypeOK, QueuesHoldQueued, AllQueued
  <2> QED BY <2>1, <2>2, <2>3
<1> QED BY <1>1, Inductive, PTL

\* An idle bit is never set while the module works or its interrupt is
\* pending (isp_pipeline_ready, omap3isp_video_buffer_next).
THEOREM IdleBitsTrue == Spec => []IdleIsIdle
<1>1. IndInv => IdleIsIdle
  BY DEF IndInv
<1> QED BY <1>1, Inductive, PTL

\* A pipeline that rests with buffers at both ends was left so by a stop of
\* the resizer in mid-frame (omap3isp_resizer_isr).
THEOREM OnlyResizerGetsStuck == Spec => []StuckOnlyByResizerStop
<1>1. IndInv => StuckOnlyByResizerStop
  <2> SUFFICES ASSUME IndInv, busy = {}, irq = {},
                      \A e \in Ends : pc[e] = "user" /\ streaming[e] /\ dmaqueue[e] # <<>>
               PROVE  chain # "preview" /\ \E e \in Ends : IdleBit[e] \notin pstate[pipe]
    BY DEF StuckOnlyByResizerStop
  <2>1. pipe \in Ends
    BY DEF IndInv, TypeOK, PipeCounted, Counted, One, Ends
  <2>2. \A e \in Ends : StreamBit[e] \in pstate[pipe] /\ QueueBit[e] \in pstate[pipe]
    BY <2>1 DEF IndInv, StreamBits
  <2>3. \E e \in Ends : IdleBit[e] \notin pstate[pipe]
    BY <2>1, <2>2, ReadyBits DEF IndInv, TypeOK, NeverReady, Ends
  <2> QED BY <2>3 DEF IndInv, PreviewIdleExact
<1> QED BY <1>1, Inductive, PTL
=============================================================================
