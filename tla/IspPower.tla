------------------------------ MODULE IspPower ------------------------------
(***************************************************************************)
(* Power, references and links of the OMAP3 ISP media graph: open() and    *)
(* close() of the video nodes (ispvideo.c), the use counts of the modules  *)
(* behind them and the references on the ISP itself (isp.c), the links     *)
(* userspace enables and disables through the media controller and the     *)
(* streams that pin them (media-entity.c).                                 *)
(*                                                                         *)
(* Everything that walks the graph runs under graph_mutex, and references  *)
(* are counted under isp_mutex; each such section is one step.  What a     *)
(* system call does between two sections interleaves with other calls and  *)
(* with link changes.                                                      *)
(***************************************************************************)
EXTENDS Integers, Sequences, FiniteSets, SequencesExt

CONSTANTS
  Handles,         \* file handles on video nodes, one system call each at a time
  Inputs,          \* video nodes a pipeline reads from memory (OUTPUT type)
  Outputs,         \* video nodes a pipeline writes to memory (CAPTURE type)
  Subdevs,         \* ISP modules and sensors
  Sensors,         \* the subdevs whose s_power switches an external clock
  MayFail,         \* the subdevs whose s_power(1) may fail, with no side effect
  Links,           \* [src, snk]: the links created at probe time
  Immutable,       \* those that are always enabled
  InputExclusive,  \* link_setup refuses any second input: the CCDC
  OutputExclusive, \* link_setup refuses a second output: CCDC, preview, CSI2
  MaxDepth,        \* MEDIA_ENTITY_ENUM_MAX_DEPTH
  None

Nodes == Inputs \cup Outputs
Entities == Nodes \cup Subdevs

ASSUME PowerAssumption ==
  /\ Inputs \cap Outputs = {} /\ Nodes \cap Subdevs = {}
  /\ Sensors \subseteq Subdevs /\ MayFail \subseteq Subdevs
  /\ InputExclusive \subseteq Subdevs /\ OutputExclusive \subseteq Subdevs
  /\ Links \subseteq [src : Entities, snk : Entities] /\ Immutable \subseteq Links
  /\ None \notin Entities
  /\ MaxDepth \in Nat \ {0, 1}
  /\ IsFiniteSet(Handles) /\ IsFiniteSet(Entities)

VARIABLES
  enabled,      \* links with MEDIA_LNK_FL_ENABLED
  input,        \* ccdc->input, prev->input, res->input
  output,       \* ccdc->output, prev->output, csi2->output: the sinks in use
  use,          \* entity->use_count
  powered,      \* subdevs switched on by s_power
  ref_count,    \* isp->ref_count: the ISP clocks run while it is not 0
  needs_reset,  \* isp->needs_reset
  stream_count, \* entity->stream_count
  pipe,         \* entity->pipe, named by the node that owns the pipeline
  pc,           \* where in the driver the call on each handle is
  fh,           \* the node of the handle
  mine          \* the pipeline STREAMON picked for it

linkvars == <<enabled, input, output>>
powervars == <<use, powered, ref_count, needs_reset>>
streamvars == <<stream_count, pipe, mine>>
vars == <<linkvars, powervars, streamvars, pc, fh>>

Init ==
  /\ enabled = Immutable
  /\ input = [e \in Subdevs |-> "NONE"]
  /\ output = [e \in Subdevs |-> {}]
  /\ use = [e \in Entities |-> 0]
  /\ powered = {}
  /\ ref_count = 0
  /\ needs_reset = FALSE
  /\ stream_count = [e \in Entities |-> 0]
  /\ pipe = [e \in Entities |-> None]
  /\ pc = [h \in Handles |-> "closed"]
  /\ fh = [h \in Handles |-> None]
  /\ mine = [h \in Handles |-> None]

-----------------------------------------------------------------------------
(* The graph walk.                                                         *)

Neighbours(en, e) ==
  {l.snk : l \in {k \in en : k.src = e}} \cup {l.src : l \in {k \in en : k.snk = e}}

\* media_entity_graph_walk_start, _next: depth first over the links of en,
\* each entity after those beyond it. No entity is marked as visited, only
\* the one the walk came from is skipped; the stack bounds the depth.
WalkFrom(en, e) ==
  LET visit[at \in Entities, from \in Entities \cup {None}, room \in 0 .. MaxDepth - 1] ==
        IF room = 0 THEN <<>>
        ELSE FoldSet(LAMBDA n, w : visit[n, at, room - 1] \o w,
                     <<at>>, Neighbours(en, at) \ {from})
  IN visit[e, None, MaxDepth - 1]

\* The walks of every configuration of the links: a table, so that TLC, which
\* evaluates the assumption once, computes each walk once.
Walks == [en \in SUBSET Links |-> [e \in Entities |-> WalkFrom(en, e)]]

ASSUME WalksReturnEntities == Walks \in [SUBSET Links -> [Entities -> Seq(Entities)]]

Walk(en, e) == Walks[en][e]

\* isp_pipeline_pm_use_count: the use counts of the video nodes of a walk,
\* added up: one pair for each user of each node.
PmUseCount(en, u, e) ==
  LET w == Walk(en, e)
  IN Cardinality(UNION {{i} \X (1 .. u[w[i]]) : i \in {j \in DOMAIN w : w[j] \in Nodes}})

-----------------------------------------------------------------------------
(* References and power. st is what a section reads and writes.            *)

PowerState == [use |-> use, powered |-> powered, ref |-> ref_count, reset |-> needs_reset]

SetPowerState(st) ==
  /\ use' = st.use
  /\ powered' = st.powered
  /\ ref_count' = st.ref
  /\ needs_reset' = st.reset

\* omap3isp_get: a clock that cannot be enabled changes nothing.
IspGet(st) == [st EXCEPT !.ref = @ + 1]

\* Mutant: the pending reset is forgotten.
IspPutNoReset(st) == [st EXCEPT !.ref = @ - 1]

\* omap3isp_put: the last user resets an ISP that could not be stopped.
IspPut(st) == [st EXCEPT !.ref = @ - 1, !.reset = @ /\ st.ref # 1]

\* isp_set_xclk, called by s_power of a sensor: a running external clock
\* holds a reference on the ISP.
SetXclk(st, on, off) ==
  LET ref == st.ref + Cardinality(on \cap Sensors) - Cardinality(off \cap Sensors)
  IN [st EXCEPT !.ref = ref, !.reset = @ /\ ref # 0]

\* Mutant: only a use count of 1 is powered off.
PowerAllOffAtOne(st, w, change) ==
  LET reached == ToSet(w) \cap Subdevs
      visits(e) == Cardinality({i \in DOMAIN w : w[i] = e})
      on == {e \in reached : change > 0 /\ st.use[e] = 0}
      off == {e \in reached : change = -1 /\ st.use[e] = 1}
      used == [e \in Entities |-> IF e \in reached THEN st.use[e] + visits(e) * change ELSE st.use[e]]
  IN SetXclk([st EXCEPT !.use = used, !.powered = (@ \cup on) \ off], on, off)

\* isp_pipeline_pm_power_one for each subdev of a walk, every s_power(1)
\* succeeding: a use count that leaves 0 powers the entity on, one that
\* comes to 0 powers it off.
PowerAll(st, w, change) ==
  LET reached == ToSet(w) \cap Subdevs
      visits(e) == Cardinality({i \in DOMAIN w : w[i] = e})
      on == {e \in reached : change > 0 /\ st.use[e] = 0}
      off == {e \in reached : change < 0 /\ \E k \in 1 .. visits(e) : st.use[e] + k * change = 0}
      used == [e \in Entities |-> IF e \in reached THEN st.use[e] + visits(e) * change ELSE st.use[e]]
  IN SetXclk([st EXCEPT !.use = used, !.powered = (@ \cup on) \ off], on, off)

\* isp_pipeline_pm_power when every s_power succeeds.
PmPower(en, st, e, change) ==
  IF change = 0 THEN st ELSE PowerAll(st, Walk(en, e), change)

\* The states it may leave when one s_power(1) fails: a second walk undoes
\* the first up to the entity that failed.
PmPowerFailures(en, st, e, change) ==
  LET w == Walk(en, e)
      upto(i) == PowerAll(st, SubSeq(w, 1, i - 1), change)
      undone(i) == PowerAll(upto(i), SubSeq(w, 1, SelectInSeq(w, LAMBDA x : x = w[i]) - 1), -change)
  IN {undone(i) : i \in {j \in DOMAIN w : /\ change > 0 /\ w[j] \in MayFail
                                          /\ upto(j).use[w[j]] = 0}}

-----------------------------------------------------------------------------
(* open() and close() of a video node.                                     *)

Step(h, from, to) == pc[h] = from /\ pc' = [pc EXCEPT ![h] = to]

CountNode(st, n, change) == [st EXCEPT !.use[n] = @ + change]

\* isp_video_open: the reference on the ISP comes first.
Open(h, n) ==
  /\ Step(h, "closed", "got")
  /\ fh' = [fh EXCEPT ![h] = n]
  /\ SetPowerState(IspGet(PowerState))
  /\ UNCHANGED <<linkvars, streamvars>>

\* omap3isp_pipeline_pm_use(1) under graph_mutex.
OpenPowers(h) ==
  /\ Step(h, "got", "open")
  /\ SetPowerState(PmPower(enabled, CountNode(PowerState, fh[h], 1), fh[h], 1))
  /\ UNCHANGED <<linkvars, streamvars, fh>>

\* Mutant: the reference is not given back.
OpenFailsLeaks(h) ==
  /\ Step(h, "got", "closed")
  /\ \E st \in PmPowerFailures(enabled, CountNode(PowerState, fh[h], 1), fh[h], 1) :
       SetPowerState(CountNode(st, fh[h], -1))
  /\ fh' = [fh EXCEPT ![h] = None]
  /\ UNCHANGED <<linkvars, streamvars>>

\* It fails: the node's use count is given back, then the reference.
OpenFails(h) ==
  /\ Step(h, "got", "unused")
  /\ \E st \in PmPowerFailures(enabled, CountNode(PowerState, fh[h], 1), fh[h], 1) :
       SetPowerState(CountNode(st, fh[h], -1))
  /\ UNCHANGED <<linkvars, streamvars, fh>>

\* isp_video_release of a handle that does not stream (a streaming one is
\* streamed off first): omap3isp_pipeline_pm_use(0) ...
Release(h) ==
  /\ Step(h, "open", "unused")
  /\ SetPowerState(PmPower(enabled, CountNode(PowerState, fh[h], -1), fh[h], -1))
  /\ UNCHANGED <<linkvars, streamvars, fh>>

\* ... then omap3isp_put.
ReleasePuts(h) ==
  /\ Step(h, "unused", "closed")
  /\ SetPowerState(IspPut(PowerState))
  /\ fh' = [fh EXCEPT ![h] = None]
  /\ UNCHANGED <<linkvars, streamvars>>

-----------------------------------------------------------------------------
(* Links: __media_entity_setup_link under graph_mutex.                     *)

InputKind(l) == IF l.src \in Nodes THEN "MEMORY" ELSE "SUBDEV"

\* Mutant: a module may have two outputs.
SourceRefusesNothing(l) == FALSE

SourceRefuses(l) == l.src \in OutputExclusive /\ output[l.src] \ {l.snk} # {}

SinkRefuses(l) ==
  /\ l.snk \in Subdevs
  /\ IF l.snk \in InputExclusive THEN input[l.snk] # "NONE"
     ELSE input[l.snk] \notin {"NONE", InputKind(l)}

SetOutput(l, sinks) ==
  output' = IF l.src \in OutputExclusive THEN [output EXCEPT ![l.src] = sinks] ELSE output

\* Mutant: links of a streaming pipeline may change.
LinkIdleAlways(l) == l \notin Immutable

\* Whether a link may be configured: no stream runs through either end.
LinkIdle(l) ==
  /\ l \notin Immutable
  /\ stream_count[l.src] = 0 /\ stream_count[l.snk] = 0

\* isp_pipeline_link_notify(ENABLED): each side gains the users of the other.
NotifyOn(st, l) ==
  LET source_use == PmUseCount(enabled, st.use, l.src)
      sink_use == PmUseCount(enabled, st.use, l.snk)
  IN PmPower(enabled, PmPower(enabled, st, l.src, sink_use), l.snk, source_use)

\* ... when an s_power fails on the source or, after that, on the sink side.
NotifyFailures(st, l) ==
  LET source_use == PmUseCount(enabled, st.use, l.src)
      sink_use == PmUseCount(enabled, st.use, l.snk)
      sourceOn == PmPower(enabled, st, l.src, sink_use)
  IN PmPowerFailures(enabled, st, l.src, sink_use)
     \cup {PmPower(enabled, s, l.src, -sink_use) :
             s \in PmPowerFailures(enabled, sourceOn, l.snk, source_use)}

\* Mutant: only the source side is told.
NotifyOffSource(en, st, l) ==
  PmPower(en, st, l.src, -PmUseCount(en, st.use, l.snk))

\* isp_pipeline_link_notify(0): each side loses the users of the other.
NotifyOff(en, st, l) ==
  LET source_use == PmUseCount(en, st.use, l.src)
      sink_use == PmUseCount(en, st.use, l.snk)
  IN PmPower(en, PmPower(en, st, l.src, -sink_use), l.snk, -source_use)

EnableLink(l) ==
  /\ l \notin enabled /\ LinkIdle(l)
  /\ ~SourceRefuses(l) /\ ~SinkRefuses(l)
  /\ SetPowerState(NotifyOn(PowerState, l))
  /\ SetOutput(l, output[l.src] \cup {l.snk})
  /\ input' = IF l.snk \in Subdevs THEN [input EXCEPT ![l.snk] = InputKind(l)] ELSE input
  /\ enabled' = enabled \cup {l}
  /\ UNCHANGED <<streamvars, pc, fh>>

\* A module refuses: the power change and the source's setup are undone.
EnableRefused(l) ==
  /\ l \notin enabled /\ LinkIdle(l)
  /\ SourceRefuses(l) \/ SinkRefuses(l)
  /\ SetPowerState(NotifyOff(enabled, NotifyOn(PowerState, l), l))
  /\ IF SourceRefuses(l) THEN UNCHANGED output
     ELSE SetOutput(l, output[l.src] \ {l.snk})
  /\ UNCHANGED <<enabled, input, streamvars, pc, fh>>

EnableFails(l) ==
  /\ l \notin enabled /\ LinkIdle(l)
  /\ \E st \in NotifyFailures(PowerState, l) : SetPowerState(st)
  /\ UNCHANGED <<linkvars, streamvars, pc, fh>>

\* Both ends forget the link, then each side loses the users of the other.
DisableLink(l) ==
  /\ l \in enabled /\ LinkIdle(l)
  /\ SetOutput(l, output[l.src] \ {l.snk})
  /\ input' = IF l.snk \in InputExclusive
                 \/ (l.snk \in Subdevs /\ input[l.snk] = InputKind(l))
              THEN [input EXCEPT ![l.snk] = "NONE"] ELSE input
  /\ enabled' = enabled \ {l}
  /\ SetPowerState(NotifyOff(enabled', PowerState, l))
  /\ UNCHANGED <<streamvars, pc, fh>>

-----------------------------------------------------------------------------
(* Streams pin the pipeline.                                               *)

\* video->stream_lock of a node is held, or video->streaming is set.
StreamBusy(n) ==
  \E h \in Handles : fh[h] = n /\ pc[h] \in {"streamon", "started", "streaming", "stopping"}

Started == {"started", "streaming", "stopping"}

CountStream(e, change) ==
  LET w == Walk(enabled, e)
  IN stream_count' = [x \in Entities |->
                        stream_count[x] + change * Cardinality({i \in DOMAIN w : w[i] = x})]

\* isp_video_streamon: takes stream_lock and picks the pipeline, the one
\* the node is part of already or its own, outside graph_mutex.
Streamon(h) ==
  /\ Step(h, "open", "streamon")
  /\ ~StreamBusy(fh[h])
  /\ mine' = [mine EXCEPT ![h] = IF pipe[fh[h]] # None THEN pipe[fh[h]] ELSE fh[h]]
  /\ UNCHANGED <<linkvars, powervars, stream_count, pipe, fh>>

\* media_entity_pipeline_start.
PipelineStart(h) ==
  /\ Step(h, "streamon", "started")
  /\ CountStream(fh[h], 1)
  /\ LET w == ToSet(Walk(enabled, fh[h]))
     IN pipe' = [e \in Entities |-> IF e \in w THEN mine[h] ELSE pipe[e]]
  /\ UNCHANGED <<linkvars, powervars, mine, fh>>

\* isp_video_check_format and isp_video_far_end: a module behind the node
\* and, for a node the pipeline reads from, a node it writes to.
CanStream(n) ==
  LET w == ToSet(Walk(enabled, n))
  IN w # {n} /\ (n \in Inputs => w \cap Outputs # {})

\* Formats and the pipeline validate, the stream starts.
StreamonEnd(h) ==
  /\ Step(h, "started", "streaming")
  /\ CanStream(fh[h])
  /\ UNCHANGED <<linkvars, powervars, streamvars, fh>>

\* media_entity_pipeline_stop, and stream_lock is dropped.
PipelineStop(h) ==
  /\ CountStream(fh[h], -1)
  /\ LET w == ToSet(Walk(enabled, fh[h]))
     IN pipe' = [e \in Entities |->
                   IF e \in w /\ stream_count'[e] = 0 THEN None ELSE pipe[e]]
  /\ mine' = [mine EXCEPT ![h] = None]

StreamonError(h) ==
  /\ Step(h, "started", "open")
  /\ PipelineStop(h)
  /\ UNCHANGED <<linkvars, powervars, fh>>

\* isp_video_streamoff: a module that does not stop in time asks for a
\* reset of the whole ISP (isp_pipeline_disable).
Streamoff(h) ==
  /\ Step(h, "streaming", "stopping")
  /\ needs_reset' \in {needs_reset, TRUE}
  /\ UNCHANGED <<linkvars, use, powered, ref_count, streamvars, fh>>

StreamoffEnd(h) ==
  /\ Step(h, "stopping", "open")
  /\ PipelineStop(h)
  /\ UNCHANGED <<linkvars, powervars, fh>>

Next ==
  \/ \E h \in Handles, n \in Nodes : Open(h, n)
  \/ \E h \in Handles :
       \/ OpenPowers(h) \/ OpenFails(h) \/ Release(h) \/ ReleasePuts(h)
       \/ Streamon(h) \/ PipelineStart(h) \/ StreamonEnd(h) \/ StreamonError(h)
       \/ Streamoff(h) \/ StreamoffEnd(h)
  \/ \E l \in Links : EnableLink(l) \/ EnableRefused(l) \/ EnableFails(l) \/ DisableLink(l)

Spec == Init /\ [][Next]_vars

-----------------------------------------------------------------------------
(* Properties.                                                             *)

\* What a pipeline is: everything connected through enabled links. Defined
\* independently of the driver's walk, by the sets of entities that no link
\* of en leaves.
ClosedSets(en) == {S \in SUBSET Entities : \A l \in en : l.src \in S <=> l.snk \in S}

Connected(closed, e) == {x \in Entities : \A S \in closed : e \in S => x \in S}

Pipelines == [en \in SUBSET Links |->
                LET closed == ClosedSets(en) IN [e \in Entities |-> Connected(closed, e)]]

\* True by definition, and cited by no proof: it makes TLC compute the table once.
ASSUME PipelinesAreEntities == Pipelines \in [SUBSET Links -> [Entities -> SUBSET Entities]]

Pipeline(e) == Pipelines[enabled][e]

\* The configurations of the links that the modules' link_setup lets through:
\* an exclusive input or output has at most one link that can be configured.
Allowed ==
  {en \in SUBSET Links :
     /\ Immutable \subseteq en
     /\ \A k, l \in en \ Immutable :
          /\ k.src = l.src /\ l.src \in OutputExclusive => k = l
          /\ k.snk = l.snk /\ l.snk \in InputExclusive => k = l}

\* What these configurations have in common on a board: the links form trees,
\* so that a walk meets every entity of the pipeline once and no link has a way
\* round it, and no tree has two video outputs.
ASSUME BoardGraph ==
  \A en \in Allowed :
    /\ \A e \in Entities :
         /\ IsInjective(Walk(en, e)) /\ ToSet(Walk(en, e)) = Pipelines[en][e]
         /\ Cardinality(Pipelines[en][e] \cap Outputs) <= 1
    /\ \A l \in en \ Immutable : l.snk \notin Pipelines[en \ {l}][l.src]

\* The handles between omap3isp_pipeline_pm_use(1) and (0).
Users == {h \in Handles : pc[h] \notin {"closed", "got", "unused"}}

\* The use count of a module is the number of open handles of all video nodes
\* in its pipeline, whatever the order of opens, closes, failures and link
\* changes (isp.c, "Pipeline power management").
UseCountExact ==
  /\ \A n \in Nodes : use[n] = Cardinality({h \in Users : fh[h] = n})
  /\ \A e \in Subdevs : use[e] = Cardinality({h \in Users : fh[h] \in Pipeline(e)})

\* A module is powered exactly while some open video node is in its
\* pipeline: never a stream through a module without power, never a module
\* left on (isp_pipeline_pm_power_one).
PoweredIffUsed == powered = UNION {Pipeline(fh[h]) \cap Subdevs : h \in Users}

\* The ISP clocks run while any module is powered, and the count that keeps
\* them is one per open handle and per running sensor clock: none is leaked
\* by a failed open, a refused link or a sensor moved between pipelines
\* (omap3isp_get, omap3isp_put, isp_set_xclk).
ClocksCounted ==
  /\ powered # {} => ref_count > Cardinality(powered \cap Sensors)
  /\ ref_count = Cardinality({h \in Handles : pc[h] # "closed"}) + Cardinality(powered \cap Sensors)

\* stream_count is the number of started streams in the pipeline of an entity:
\* the pipeline that media_entity_pipeline_stop walks is the one that
\* media_entity_pipeline_start marked, because its links cannot change.
StreamCountExact ==
  \A e \in Entities :
    stream_count[e] = Cardinality({h \in Handles : pc[h] \in Started /\ fh[h] \in Pipeline(e)})

\* No pipeline has two video outputs, which the ISP core does not support
\* (ccdc_link_setup): a stream has one place to write to.
OneOutputPerPipeline ==
  \A e \in Entities : Cardinality(Pipeline(e) \cap Outputs) <= 1

\* A module that could not be stopped is reset before the ISP is handed to
\* the next first user (isp_pipeline_disable, omap3isp_put).
ResetBeforeReuse == needs_reset => ref_count > 0

=============================================================================
