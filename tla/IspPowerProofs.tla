--------------------------- MODULE IspPowerProofs ---------------------------
(***************************************************************************)
(* Use counts, power, clocks and streams of the media graph, for any       *)
(* number of file handles and any graph whose allowed configurations are   *)
(* trees (BoardGraph): what the walks under graph_mutex count is what the  *)
(* open handles and started streams of each pipeline are, through every    *)
(* order of opens, closes, failures, link changes and streams.             *)
(***************************************************************************)
EXTENDS IspPower, FiniteSetTheorems, TLAPS

-----------------------------------------------------------------------------
(* Pipelines: the classes of connected entities.                           *)

LEMMA PipelineIs ==
  ASSUME NEW en \in SUBSET Links, NEW e \in Entities
  PROVE  Pipelines[en][e] = {x \in Entities : \A S \in ClosedSets(en) : e \in S => x \in S}
PROOF
  BY DEF Pipelines, Connected

\* A pipeline is a set that no enabled link leaves, and contains its entity.
LEMMA PipelineClosed ==
  ASSUME NEW en \in SUBSET Links, NEW e \in Entities
  PROVE  /\ e \in Pipelines[en][e] /\ Pipelines[en][e] \subseteq Entities
         /\ Pipelines[en][e] \in ClosedSets(en)
         /\ \A S \in ClosedSets(en) : e \in S => Pipelines[en][e] \subseteq S
PROOF
<1>1. /\ e \in Pipelines[en][e] /\ Pipelines[en][e] \subseteq Entities
      /\ \A S \in ClosedSets(en) : e \in S => Pipelines[en][e] \subseteq S
  BY PipelineIs
<1>2. ASSUME NEW l \in en PROVE l.src \in Pipelines[en][e] <=> l.snk \in Pipelines[en][e]
  <2>1. l.src \in Entities /\ l.snk \in Entities
    BY PowerAssumption
  <2>2. \A S \in ClosedSets(en) : l.src \in S <=> l.snk \in S
    BY DEF ClosedSets
  <2> QED BY <2>1, <2>2, PipelineIs
<1> QED BY <1>1, <1>2 DEF ClosedSets

\* Pipelines do not overlap.
LEMMA PipelineSame ==
  ASSUME NEW en \in SUBSET Links, NEW e \in Entities, NEW x \in Pipelines[en][e]
  PROVE  x \in Entities /\ Pipelines[en][x] = Pipelines[en][e]
PROOF
<1>1. x \in Entities /\ Pipelines[en][x] \subseteq Pipelines[en][e]
  BY PipelineClosed
<1>2. Entities \ Pipelines[en][x] \in ClosedSets(en)
  BY <1>1, PipelineClosed, PowerAssumption DEF ClosedSets
<1>3. e \in Pipelines[en][x]
  <2> SUFFICES ASSUME e \notin Pipelines[en][x] PROVE FALSE
    OBVIOUS
  <2>1. x \in Entities \ Pipelines[en][x]
    BY <1>2, PipelineClosed
  <2> QED BY <1>1, <2>1, PipelineClosed
<1> QED BY <1>1, <1>3, PipelineClosed

LEMMA PipelineSymmetric ==
  ASSUME NEW en \in SUBSET Links, NEW e \in Entities, NEW x \in Entities
  PROVE  x \in Pipelines[en][e] <=> e \in Pipelines[en][x]
PROOF
  BY PipelineSame, PipelineClosed

\* A link joins the pipelines of its ends and leaves the others alone.
LEMMA PipelineJoined ==
  ASSUME NEW en \in SUBSET Links, NEW l \in Links, NEW e \in Entities
  PROVE  Pipelines[en \cup {l}][e] = IF e \in Pipelines[en][l.src] \cup Pipelines[en][l.snk]
                                     THEN Pipelines[en][l.src] \cup Pipelines[en][l.snk]
                                     ELSE Pipelines[en][e]
PROOF
<1> DEFINE A == Pipelines[en][l.src]
           B == Pipelines[en][l.snk]
           more == en \cup {l}
<1>1. more \in SUBSET Links /\ l.src \in Entities /\ l.snk \in Entities
  BY PowerAssumption
<1>2. /\ l.src \in A /\ l.snk \in B /\ A \subseteq Entities /\ B \subseteq Entities
      /\ A \in ClosedSets(en) /\ B \in ClosedSets(en)
  BY <1>1, PipelineClosed
<1>3. ClosedSets(more) = {S \in ClosedSets(en) : l.src \in S <=> l.snk \in S}
  BY DEF ClosedSets
<1> HIDE DEF more
<1>4. CASE e \in A \cup B
  <2>1. A \cup B \in ClosedSets(more)
    BY <1>2, <1>3 DEF ClosedSets
  <2>2. Pipelines[more][e] \subseteq A \cup B
    BY <1>1, <1>4, <2>1, PipelineClosed
  <2>3. Pipelines[more][e] \in ClosedSets(more) /\ e \in Pipelines[more][e]
    BY <1>1, PipelineClosed
  <2>4. A \subseteq Pipelines[more][e] \/ B \subseteq Pipelines[more][e]
    <3>1. Pipelines[en][e] \subseteq Pipelines[more][e]
      BY <1>3, <2>3, PipelineClosed
    <3> QED BY <1>1, <1>4, <3>1, PipelineSame
  <2>5. l.src \in Pipelines[more][e] /\ l.snk \in Pipelines[more][e]
    BY <1>2, <1>3, <2>3, <2>4
  <2>6. A \subseteq Pipelines[more][e] /\ B \subseteq Pipelines[more][e]
    BY <1>1, <1>3, <2>3, <2>5, PipelineClosed
  <2> QED BY <1>4, <2>2, <2>6 DEF more
<1>5. CASE e \notin A \cup B
  <2>1. l.src \notin Pipelines[en][e] /\ l.snk \notin Pipelines[en][e]
    BY <1>1, <1>5, PipelineSymmetric
  <2>2. Pipelines[en][e] \in ClosedSets(more)
    BY <1>3, <2>1, PipelineClosed
  <2>3. Pipelines[more][e] \subseteq Pipelines[en][e]
    BY <1>1, <2>2, PipelineClosed
  <2>4. Pipelines[en][e] \subseteq Pipelines[more][e]
    BY <1>1, <1>3, PipelineClosed
  <2> QED BY <1>5, <2>3, <2>4 DEF more
<1> QED BY <1>4, <1>5

LEMMA PipelinesJoined ==
  \A en \in SUBSET Links, l \in Links, e \in Entities :
    Pipelines[en \cup {l}][e] = IF e \in Pipelines[en][l.src] \cup Pipelines[en][l.snk]
                               THEN Pipelines[en][l.src] \cup Pipelines[en][l.snk]
                               ELSE Pipelines[en][e]
PROOF
  BY PipelineJoined

-----------------------------------------------------------------------------
(* Links.                                                                  *)

\* What the modules remember of their links is what is enabled.
LinkInv ==
  /\ enabled \in Allowed
  /\ input \in [Subdevs -> {"NONE", "MEMORY", "SUBDEV"}]
  /\ output \in [Subdevs -> SUBSET Entities]
  /\ \A e \in OutputExclusive : output[e] = {l.snk : l \in {k \in enabled \ Immutable : k.src = e}}
  /\ \A e \in InputExclusive : input[e] = "NONE" => \A l \in enabled \ Immutable : l.snk # e

LEMMA AllowedSubset ==
  ASSUME NEW en \in Allowed
  PROVE  en \in SUBSET Links /\ Immutable \subseteq en
PROOF
  BY DEF Allowed

LEMMA AllowedWithout ==
  ASSUME NEW en \in Allowed, NEW l \in en, l \notin Immutable
  PROVE  en \ {l} \in Allowed
PROOF
  BY DEF Allowed

LEMMA LinkInit == Init => LinkInv
PROOF
  BY PowerAssumption DEF Init, LinkInv, Allowed

LEMMA EnableKeepsLinks ==
  ASSUME LinkInv, NEW l \in Links, EnableLink(l)
  PROVE  LinkInv'
PROOF
<1>1. /\ l \notin enabled /\ l \notin Immutable /\ enabled' = enabled \cup {l}
      /\ ~SourceRefuses(l) /\ ~SinkRefuses(l)
      /\ SetOutput(l, output[l.src] \cup {l.snk})
      /\ input' = IF l.snk \in Subdevs THEN [input EXCEPT ![l.snk] = InputKind(l)] ELSE input
  BY DEF EnableLink, LinkIdle
<1>2. l.src \in Entities /\ l.snk \in Entities
  BY PowerAssumption
<1>3. l.src \in OutputExclusive => \A k \in enabled \ Immutable : k.src # l.src
  <2> SUFFICES ASSUME l.src \in OutputExclusive, NEW k \in enabled \ Immutable, k.src = l.src
               PROVE  FALSE
    OBVIOUS
  <2>1. k.snk \in output[l.src]
    BY DEF LinkInv
  <2>2. k.snk = l.snk
    BY <1>1, <2>1 DEF SourceRefuses
  <2>3. k \in [src : Entities, snk : Entities] /\ l \in [src : Entities, snk : Entities]
    BY PowerAssumption DEF LinkInv, Allowed
  <2>4. k = l
    BY <2>2, <2>3
  <2> QED BY <1>1, <2>4
<1>4. l.snk \in InputExclusive => \A k \in enabled \ Immutable : k.snk # l.snk
  BY <1>1, PowerAssumption DEF SinkRefuses, LinkInv
<1>5. enabled' \in Allowed
  BY <1>1, <1>3, <1>4 DEF LinkInv, Allowed
<1>6. input' \in [Subdevs -> {"NONE", "MEMORY", "SUBDEV"}]
  BY <1>1 DEF LinkInv, InputKind
<1>7. output' \in [Subdevs -> SUBSET Entities]
  BY <1>1, <1>2, PowerAssumption DEF LinkInv, SetOutput
<1>8. ASSUME NEW e \in OutputExclusive
      PROVE  output'[e] = {k.snk : k \in {j \in enabled' \ Immutable : j.src = e}}
  <2>1. e \in Subdevs /\ output[e] = {k.snk : k \in {j \in enabled \ Immutable : j.src = e}}
    BY PowerAssumption DEF LinkInv
  <2>2. CASE e = l.src
    <3>1. output'[e] = output[e] \cup {l.snk}
      BY <1>1, <2>1, <2>2 DEF SetOutput, LinkInv
    <3> QED BY <1>1, <2>1, <2>2, <3>1
  <2>3. CASE e # l.src
    <3>1. output'[e] = output[e]
      BY <1>1, <2>1, <2>3 DEF SetOutput, LinkInv
    <3> QED BY <1>1, <2>1, <2>3, <3>1
  <2> QED BY <2>2, <2>3
<1>9. ASSUME NEW e \in InputExclusive, input'[e] = "NONE", NEW k \in enabled' \ Immutable
      PROVE  k.snk # e
  BY <1>1, <1>9, PowerAssumption DEF LinkInv, InputKind
<1> QED BY <1>5, <1>6, <1>7, <1>8, <1>9 DEF LinkInv

LEMMA DisableKeepsLinks ==
  ASSUME LinkInv, NEW l \in Links, DisableLink(l)
  PROVE  LinkInv'
PROOF
<1>1. /\ l \in enabled /\ l \notin Immutable /\ enabled' = enabled \ {l}
      /\ SetOutput(l, output[l.src] \ {l.snk})
      /\ input' = input \/ input' = [input EXCEPT ![l.snk] = "NONE"]
      /\ l.snk \in InputExclusive => input' = [input EXCEPT ![l.snk] = "NONE"]
  BY DEF DisableLink, LinkIdle
<1>2. enabled' \in Allowed
  BY <1>1, AllowedWithout DEF LinkInv
<1>3. input' \in [Subdevs -> {"NONE", "MEMORY", "SUBDEV"}]
  BY <1>1 DEF LinkInv
<1>4. output' \in [Subdevs -> SUBSET Entities]
  BY <1>1, PowerAssumption DEF LinkInv, SetOutput
<1>5. ASSUME NEW e \in OutputExclusive
      PROVE  output'[e] = {k.snk : k \in {j \in enabled' \ Immutable : j.src = e}}
  <2>1. e \in Subdevs /\ output[e] = {k.snk : k \in {j \in enabled \ Immutable : j.src = e}}
    BY PowerAssumption DEF LinkInv
  <2>2. CASE e = l.src
    <3>1. output'[e] = output[e] \ {l.snk}
      BY <1>1, <2>1, <2>2 DEF SetOutput, LinkInv
    <3>2. \A j \in enabled \ Immutable : j.src = e => j = l
      BY <1>1, <2>2 DEF LinkInv, Allowed
    <3> QED BY <1>1, <2>1, <2>2, <3>1, <3>2
  <2>3. CASE e # l.src
    <3>1. output'[e] = output[e]
      BY <1>1, <2>1, <2>3 DEF SetOutput, LinkInv
    <3> QED BY <1>1, <2>1, <2>3, <3>1
  <2> QED BY <2>2, <2>3
<1>6. ASSUME NEW e \in InputExclusive, input'[e] = "NONE", NEW k \in enabled' \ Immutable
      PROVE  k.snk # e
  <2>1. CASE e = l.snk
    BY <1>1, <2>1 DEF LinkInv, Allowed
  <2>2. CASE e # l.snk
    <3>1. e \in Subdevs /\ input \in [Subdevs -> {"NONE", "MEMORY", "SUBDEV"}]
      BY PowerAssumption DEF LinkInv
    <3>2. input'[e] = input[e]
      BY <1>1, <2>2, <3>1
    <3> QED BY <1>1, <1>6, <3>2 DEF LinkInv
  <2> QED BY <2>1, <2>2
<1> QED BY <1>2, <1>3, <1>4, <1>5, <1>6 DEF LinkInv

LEMMA RefusedKeepsLinks ==
  ASSUME LinkInv, NEW l \in Links, EnableRefused(l)
  PROVE  LinkInv' /\ UNCHANGED enabled
PROOF
<1>1. /\ l \notin enabled /\ UNCHANGED <<enabled, input>>
      /\ output' = output \/ SetOutput(l, output[l.src] \ {l.snk})
  BY DEF EnableRefused
<1>2. l.src \in OutputExclusive => l.snk \notin output[l.src]
  <2> SUFFICES ASSUME l.src \in OutputExclusive, l.snk \in output[l.src] PROVE FALSE
    OBVIOUS
  <2>1. PICK k \in enabled : k.src = l.src /\ k.snk = l.snk
    BY DEF LinkInv
  <2>2. k \in [src : Entities, snk : Entities] /\ l \in [src : Entities, snk : Entities]
    BY PowerAssumption DEF LinkInv, Allowed
  <2>3. k = l
    BY <2>1, <2>2
  <2> QED BY <1>1, <2>3
<1>3. output' = output
  <2>1. CASE l.src \in OutputExclusive
    <3>1. output[l.src] \ {l.snk} = output[l.src]
      BY <1>2, <2>1
    <3>2. output \in [Subdevs -> SUBSET Entities] /\ l.src \in Subdevs
      BY <2>1, PowerAssumption DEF LinkInv
    <3>3. [output EXCEPT ![l.src] = output[l.src]] = output
      BY <3>2
    <3> QED BY <1>1, <2>1, <3>1, <3>3 DEF SetOutput
  <2>2. CASE l.src \notin OutputExclusive
    BY <1>1, <2>2 DEF SetOutput
  <2> QED BY <2>1, <2>2
<1> QED BY <1>1, <1>3 DEF LinkInv

\* A step of a call leaves the links alone.
LEMMA CallKeepsLinks ==
  ASSUME NEW h \in Handles,
         \/ \E n \in Nodes : Open(h, n)
         \/ OpenPowers(h) \/ OpenFails(h) \/ Release(h) \/ ReleasePuts(h)
         \/ Streamon(h) \/ PipelineStart(h) \/ StreamonEnd(h) \/ StreamonError(h)
         \/ Streamoff(h) \/ StreamoffEnd(h)
  PROVE  UNCHANGED linkvars
PROOF
  BY DEF Open, OpenPowers, OpenFails, Release, ReleasePuts, Streamon, PipelineStart,
         StreamonEnd, StreamonError, Streamoff, StreamoffEnd

LEMMA LinkStep == LinkInv /\ [Next]_vars => LinkInv'
PROOF
<1> SUFFICES ASSUME LinkInv, [Next]_vars PROVE LinkInv'
  OBVIOUS
<1>1. UNCHANGED linkvars => LinkInv'
  BY DEF LinkInv, linkvars
<1>2. CASE UNCHANGED vars
  BY <1>1, <1>2 DEF vars
<1>3. ASSUME NEW l \in Links, EnableFails(l) PROVE LinkInv'
  BY <1>1, <1>3 DEF EnableFails
<1> QED BY <1>1, <1>2, <1>3, CallKeepsLinks, EnableKeepsLinks, DisableKeepsLinks,
           RefusedKeepsLinks DEF Next

LEMMA LinkInvariant == Spec => []LinkInv
PROOF
  BY LinkInit, LinkStep, PTL DEF Spec

\* Whatever userspace asks for, the modules only let through configurations of
\* the links in which no pipeline has two video outputs (ccdc_link_setup,
\* preview_link_setup, csi2_link_setup).
THEOREM PipelinesHaveOneOutput == Spec => []OneOutputPerPipeline
PROOF
<1>1. LinkInv => OneOutputPerPipeline
  BY BoardGraph DEF LinkInv, OneOutputPerPipeline, Pipeline
<1> QED BY <1>1, LinkInvariant, PTL

-----------------------------------------------------------------------------
(* Calls.                                                                  *)

Places == {"closed", "got", "open", "unused", "streamon", "started", "streaming", "stopping"}

\* A handle with a call under way has a node.
CallInv ==
  /\ pc \in [Handles -> Places]
  /\ fh \in [Handles -> Nodes \cup {None}]
  /\ \A h \in Handles : pc[h] # "closed" => fh[h] \in Nodes

LEMMA CallInit == Init => CallInv
PROOF
  BY DEF Init, CallInv, Places

LEMMA CallStep == CallInv /\ [Next]_vars => CallInv'
PROOF
<1> SUFFICES ASSUME CallInv, [Next]_vars PROVE CallInv'
  OBVIOUS
<1> USE DEF CallInv, Places
<1>1. CASE UNCHANGED vars
  BY <1>1 DEF vars
<1>2. ASSUME NEW h \in Handles, NEW n \in Nodes, Open(h, n) PROVE CallInv'
  BY <1>2 DEF Open, Step
<1>3. ASSUME NEW h \in Handles, OpenPowers(h) \/ OpenFails(h) \/ Release(h) PROVE CallInv'
  BY <1>3 DEF OpenPowers, OpenFails, Release, Step
<1>4. ASSUME NEW h \in Handles, ReleasePuts(h) PROVE CallInv'
  BY <1>4 DEF ReleasePuts, Step
<1>5. ASSUME NEW h \in Handles, Streamon(h) \/ PipelineStart(h) \/ StreamonEnd(h) PROVE CallInv'
  BY <1>5 DEF Streamon, PipelineStart, StreamonEnd, Step
<1>6. ASSUME NEW h \in Handles, StreamonError(h) \/ Streamoff(h) \/ StreamoffEnd(h) PROVE CallInv'
  BY <1>6 DEF StreamonError, Streamoff, StreamoffEnd, Step
<1>7. ASSUME NEW l \in Links, EnableLink(l) \/ EnableRefused(l) \/ EnableFails(l) \/ DisableLink(l)
      PROVE  CallInv'
  BY <1>7 DEF EnableLink, EnableRefused, EnableFails, DisableLink
<1> QED BY <1>1, <1>2, <1>3, <1>4, <1>5, <1>6, <1>7 DEF Next

LEMMA CallInvariant == Spec => []CallInv
PROOF
  BY CallInit, CallStep, PTL DEF Spec

-----------------------------------------------------------------------------
(* Streams.                                                                *)

\* The started streams of a set of nodes.
StreamsOf(S) == {h \in Handles : pc[h] \in Started /\ fh[h] \in S}

\* A walk of an allowed configuration meets the pipeline, each entity once.
LEMMA WalkOnce ==
  ASSUME NEW en \in Allowed, NEW e \in Entities
  PROVE  /\ Walk(en, e) \in Seq(Entities) /\ IsInjective(Walk(en, e))
         /\ ToSet(Walk(en, e)) = Pipelines[en][e]
PROOF
<1>1. en \in SUBSET Links
  BY AllowedSubset
<1>2. Walks[en] \in [Entities -> Seq(Entities)]
  BY <1>1, WalksReturnEntities
<1>3. IsInjective(Walk(en, e)) /\ ToSet(Walk(en, e)) = Pipelines[en][e]
  BY BoardGraph
<1> QED BY <1>2, <1>3 DEF Walk

LEMMA VisitsOnce ==
  ASSUME NEW w \in Seq(Entities), IsInjective(w), NEW x
  PROVE  Cardinality({i \in DOMAIN w : w[i] = x}) = IF x \in ToSet(w) THEN 1 ELSE 0
PROOF
<1>1. CASE x \in ToSet(w)
  <2>1. PICK i \in DOMAIN w : w[i] = x
    BY <1>1 DEF ToSet
  <2>2. {j \in DOMAIN w : w[j] = x} = {i}
    BY <2>1 DEF IsInjective
  <2> QED BY <1>1, <2>2, FS_Singleton
<1>2. CASE x \notin ToSet(w)
  <2>1. {j \in DOMAIN w : w[j] = x} = {}
    BY <1>2 DEF ToSet
  <2> QED BY <1>2, <2>1, FS_EmptySet
<1> QED BY <1>1, <1>2

\* media_entity_pipeline_start and _stop count every entity of the pipeline once.
LEMMA CountsPipeline ==
  ASSUME LinkInv, NEW e \in Entities, NEW c \in {1, -1}, CountStream(e, c),
         stream_count \in [Entities -> Int]
  PROVE  /\ stream_count' \in [Entities -> Int]
         /\ \A x \in Entities :
              stream_count'[x] = IF x \in Pipeline(e) THEN stream_count[x] + c ELSE stream_count[x]
PROOF
<1>1. /\ Walk(enabled, e) \in Seq(Entities) /\ IsInjective(Walk(enabled, e))
      /\ ToSet(Walk(enabled, e)) = Pipeline(e)
  BY WalkOnce DEF LinkInv, Pipeline
<1>2. \A x : Cardinality({i \in DOMAIN Walk(enabled, e) : Walk(enabled, e)[i] = x})
              = IF x \in Pipeline(e) THEN 1 ELSE 0
  BY <1>1, VisitsOnce
<1>3. stream_count' = [x \in Entities |->
         stream_count[x] + c * Cardinality({i \in DOMAIN Walk(enabled, e) : Walk(enabled, e)[i] = x})]
  BY DEF CountStream
<1>4. stream_count' = [x \in Entities |-> stream_count[x] + c * (IF x \in Pipeline(e) THEN 1 ELSE 0)]
  BY <1>2, <1>3
<1> QED BY <1>4

StreamInv == stream_count \in [Entities -> Int] /\ StreamCountExact

LEMMA StreamsFinite ==
  ASSUME NEW S
  PROVE  IsFiniteSet(StreamsOf(S)) /\ Cardinality(StreamsOf(S)) \in Nat
PROOF
<1>1. IsFiniteSet(StreamsOf(S))
  BY PowerAssumption, FS_Subset DEF StreamsOf
<1> QED BY <1>1, FS_CardinalityType

\* Steps that start and stop no stream and change no link.
LEMMA StreamFrame ==
  ASSUME StreamInv, UNCHANGED <<enabled, stream_count>>,
         \A h \in Handles : /\ pc'[h] \in Started <=> pc[h] \in Started
                            /\ pc[h] \in Started => fh'[h] = fh[h]
  PROVE  StreamInv'
PROOF
<1>1. ASSUME NEW e \in Entities
      PROVE  {h \in Handles : pc'[h] \in Started /\ fh'[h] \in Pipelines[enabled'][e]}
             = {h \in Handles : pc[h] \in Started /\ fh[h] \in Pipelines[enabled][e]}
  OBVIOUS
<1> QED BY <1>1 DEF StreamInv, StreamCountExact, Pipeline

\* A stream that starts is counted on exactly the entities of its pipeline.
LEMMA StreamStarts ==
  ASSUME LinkInv, CallInv, StreamInv, NEW h \in Handles, PipelineStart(h)
  PROVE  StreamInv'
PROOF
<1>1. /\ pc[h] = "streamon" /\ pc' = [pc EXCEPT ![h] = "started"] /\ UNCHANGED <<enabled, fh>>
      /\ CountStream(fh[h], 1) /\ fh[h] \in Entities
  BY DEF PipelineStart, Step, linkvars, CallInv, Entities
<1>2. /\ stream_count' \in [Entities -> Int]
      /\ \A x \in Entities : stream_count'[x] =
           IF x \in Pipeline(fh[h]) THEN stream_count[x] + 1 ELSE stream_count[x]
  BY <1>1, CountsPipeline DEF StreamInv
<1>3. ASSUME NEW e \in Entities
      PROVE  stream_count'[e] = Cardinality({u \in Handles : pc'[u] \in Started /\ fh'[u] \in Pipeline(e)})
  <2>1. e \in Pipeline(fh[h]) <=> fh[h] \in Pipeline(e)
    BY <1>1, PipelineSymmetric, AllowedSubset DEF LinkInv, Pipeline
  <2>2. stream_count[e] = Cardinality(StreamsOf(Pipeline(e))) /\ h \notin StreamsOf(Pipeline(e))
    BY <1>1 DEF StreamInv, StreamCountExact, StreamsOf, Started
  <2>3. {u \in Handles : pc'[u] \in Started /\ fh'[u] \in Pipeline(e)} =
          IF fh[h] \in Pipeline(e) THEN StreamsOf(Pipeline(e)) \cup {h} ELSE StreamsOf(Pipeline(e))
    BY <1>1 DEF StreamsOf, Started, CallInv
  <2>4. Cardinality(StreamsOf(Pipeline(e)) \cup {h}) = Cardinality(StreamsOf(Pipeline(e))) + 1
    BY <2>2, StreamsFinite, FS_AddElement
  <2> QED BY <1>2, <2>1, <2>2, <2>3, <2>4
<1> QED BY <1>1, <1>2, <1>3 DEF StreamInv, StreamCountExact, Pipeline

LEMMA StreamStops ==
  ASSUME LinkInv, CallInv, StreamInv, NEW h \in Handles, StreamonError(h) \/ StreamoffEnd(h)
  PROVE  StreamInv'
PROOF
<1>1. /\ pc[h] \in {"started", "stopping"} /\ pc' = [pc EXCEPT ![h] = "open"]
      /\ UNCHANGED <<enabled, fh>>
      /\ CountStream(fh[h], -1) /\ fh[h] \in Entities
  BY DEF StreamonError, StreamoffEnd, PipelineStop, Step, linkvars, CallInv, Entities
<1>2. /\ stream_count' \in [Entities -> Int]
      /\ \A x \in Entities : stream_count'[x] =
           IF x \in Pipeline(fh[h]) THEN stream_count[x] + (-1) ELSE stream_count[x]
  BY <1>1, CountsPipeline DEF StreamInv
<1>3. ASSUME NEW e \in Entities
      PROVE  stream_count'[e] = Cardinality({u \in Handles : pc'[u] \in Started /\ fh'[u] \in Pipeline(e)})
  <2>1. e \in Pipeline(fh[h]) <=> fh[h] \in Pipeline(e)
    BY <1>1, PipelineSymmetric, AllowedSubset DEF LinkInv, Pipeline
  <2>2. /\ stream_count[e] = Cardinality(StreamsOf(Pipeline(e)))
        /\ h \in StreamsOf(Pipeline(e)) <=> fh[h] \in Pipeline(e)
    BY <1>1 DEF StreamInv, StreamCountExact, StreamsOf, Started
  <2>3. {u \in Handles : pc'[u] \in Started /\ fh'[u] \in Pipeline(e)} = StreamsOf(Pipeline(e)) \ {h}
    BY <1>1 DEF StreamsOf, Started, CallInv
  <2>4. Cardinality(StreamsOf(Pipeline(e)) \ {h}) =
          IF fh[h] \in Pipeline(e) THEN Cardinality(StreamsOf(Pipeline(e))) - 1
          ELSE Cardinality(StreamsOf(Pipeline(e)))
    BY <2>2, StreamsFinite, FS_RemoveElement
  <2> QED BY <1>2, <2>1, <2>2, <2>3, <2>4, StreamsFinite
<1> QED BY <1>1, <1>2, <1>3 DEF StreamInv, StreamCountExact, Pipeline

\* Joining or parting two pipelines without streams changes no count.
LEMMA StreamLinks ==
  ASSUME LinkInv, StreamInv, NEW l \in Links, UNCHANGED <<pc, fh, stream_count>>,
         stream_count[l.src] = 0, stream_count[l.snk] = 0,
         enabled' \in Allowed,
         enabled' = enabled \cup {l} \/ (l \in enabled /\ enabled' = enabled \ {l})
  PROVE  StreamInv'
PROOF
<1>1. /\ l.src \in Entities /\ l.snk \in Entities
      /\ enabled \in SUBSET Links /\ enabled' \in SUBSET Links
  BY AllowedSubset, PowerAssumption DEF LinkInv
<1>2. StreamsOf(Pipelines[enabled][l.src]) = {} /\ StreamsOf(Pipelines[enabled][l.snk]) = {}
  BY <1>1, StreamsFinite, FS_EmptySet DEF StreamInv, StreamCountExact, StreamsOf, Pipeline
<1>3. ASSUME NEW e \in Entities
      PROVE  StreamsOf(Pipelines[enabled'][e]) = StreamsOf(Pipelines[enabled][e])
  <2>1. CASE enabled' = enabled \cup {l}
    <3>1. Pipelines[enabled'][e] =
            IF e \in Pipelines[enabled][l.src] \cup Pipelines[enabled][l.snk]
            THEN Pipelines[enabled][l.src] \cup Pipelines[enabled][l.snk] ELSE Pipelines[enabled][e]
      <4>1. Pipelines[enabled \cup {l}][e] =
              IF e \in Pipelines[enabled][l.src] \cup Pipelines[enabled][l.snk]
              THEN Pipelines[enabled][l.src] \cup Pipelines[enabled][l.snk] ELSE Pipelines[enabled][e]
        BY ONLY <1>1, l \in Links, e \in Entities, PipelineJoined
      <4> QED BY ONLY <2>1, <4>1
    <3>2. CASE e \in Pipelines[enabled][l.src] \cup Pipelines[enabled][l.snk]
      <4>1. Pipelines[enabled][e] \in {Pipelines[enabled][l.src], Pipelines[enabled][l.snk]}
        BY <1>1, <3>2, PipelineSame
      <4> QED BY <1>2, <3>1, <3>2, <4>1 DEF StreamsOf
    <3> QED BY <3>1, <3>2
  <2>2. CASE l \in enabled /\ enabled' = enabled \ {l}
    <3>0. \A x \in Entities :
            Pipelines[enabled' \cup {l}][x] =
              IF x \in Pipelines[enabled'][l.src] \cup Pipelines[enabled'][l.snk]
              THEN Pipelines[enabled'][l.src] \cup Pipelines[enabled'][l.snk] ELSE Pipelines[enabled'][x]
      BY ONLY <1>1, l \in Links, PipelinesJoined, Zenon
    <3> DEFINE A == Pipelines[enabled'][l.src]
               B == Pipelines[enabled'][l.snk]
    <3>1. enabled' \cup {l} = enabled
      BY <2>2
    <3>2. \A x \in Entities : Pipelines[enabled][x] = IF x \in A \cup B THEN A \cup B ELSE Pipelines[enabled'][x]
      BY <3>0, <3>1
    <3>3. l.src \in A /\ l.snk \in B
      BY <1>1, PipelineClosed
    <3>4. StreamsOf(A \cup B) = {}
      BY <1>1, <1>2, <3>2, <3>3
    <3>5. CASE e \in A \cup B
      <4>1. Pipelines[enabled'][e] \in {A, B}
        BY <1>1, <3>5, PipelineSame
      <4>2. StreamsOf(Pipelines[enabled'][e]) = {}
        BY <3>4, <4>1 DEF StreamsOf
      <4> QED BY <3>2, <3>4, <3>5, <4>2
    <3> QED BY <3>2, <3>5
  <2> QED BY <2>1, <2>2
<1>4. ASSUME NEW e \in Entities
      PROVE  {h \in Handles : pc'[h] \in Started /\ fh'[h] \in Pipelines[enabled'][e]}
             = StreamsOf(Pipelines[enabled][e])
  BY <1>3 DEF StreamsOf
<1>5. \A e \in Entities : stream_count[e] = Cardinality(StreamsOf(Pipelines[enabled][e]))
  BY DEF StreamInv, StreamCountExact, StreamsOf, Pipeline
<1> QED BY <1>4, <1>5 DEF StreamInv, StreamCountExact, Pipeline

LEMMA StreamStep == LinkInv /\ CallInv /\ StreamInv /\ [Next]_vars => StreamInv'
PROOF
<1> SUFFICES ASSUME LinkInv, CallInv, StreamInv, [Next]_vars PROVE StreamInv'
  OBVIOUS
<1>1. CASE UNCHANGED vars
  BY <1>1, StreamFrame DEF vars, linkvars, streamvars
<1>2. ASSUME NEW h \in Handles, NEW n \in Nodes, Open(h, n) PROVE StreamInv'
  BY <1>2, StreamFrame DEF Open, Step, linkvars, streamvars, Started, CallInv
<1>3. ASSUME NEW h \in Handles, OpenPowers(h) \/ OpenFails(h) \/ Release(h) PROVE StreamInv'
  BY <1>3, StreamFrame DEF OpenPowers, OpenFails, Release, Step, linkvars, streamvars, Started, CallInv
<1>4. ASSUME NEW h \in Handles, ReleasePuts(h) PROVE StreamInv'
  BY <1>4, StreamFrame DEF ReleasePuts, Step, linkvars, streamvars, Started, CallInv
<1>5. ASSUME NEW h \in Handles, Streamon(h) \/ StreamonEnd(h) \/ Streamoff(h) PROVE StreamInv'
  BY <1>5, StreamFrame DEF Streamon, StreamonEnd, Streamoff, Step, linkvars, streamvars, Started, CallInv
<1>6. ASSUME NEW h \in Handles, PipelineStart(h) \/ StreamonError(h) \/ StreamoffEnd(h) PROVE StreamInv'
  BY <1>6, StreamStarts, StreamStops
<1>7. ASSUME NEW l \in Links, EnableRefused(l) \/ EnableFails(l) PROVE StreamInv'
  BY <1>7, StreamFrame DEF EnableRefused, EnableFails, linkvars, streamvars
<1>8. ASSUME NEW l \in Links, EnableLink(l) PROVE StreamInv'
  <2>1. enabled' \in Allowed
    BY <1>8, EnableKeepsLinks DEF LinkInv
  <2> QED BY <1>8, <2>1, StreamLinks DEF EnableLink, LinkIdle, streamvars
<1>9. ASSUME NEW l \in Links, DisableLink(l) PROVE StreamInv'
  <2>1. enabled' \in Allowed
    BY <1>9, DisableKeepsLinks DEF LinkInv
  <2> QED BY <1>9, <2>1, StreamLinks DEF DisableLink, LinkIdle, streamvars
<1> QED BY <1>1, <1>2, <1>3, <1>4, <1>5, <1>6, <1>7, <1>8, <1>9 DEF Next

\* The stream count of an entity is the number of started streams in its
\* pipeline: a stop undoes exactly what its start did, because the links of a
\* streaming pipeline cannot change (media_entity_pipeline_start and _stop,
\* __media_entity_setup_link).
THEOREM StreamsAreCounted == Spec => []StreamCountExact
PROOF
<1>1. Init => StreamInv
  <2> SUFFICES ASSUME Init PROVE StreamInv
    OBVIOUS
  <2>1. \A e \in Entities : {h \in Handles : pc[h] \in Started /\ fh[h] \in Pipeline(e)} = {}
    BY DEF Init, Started
  <2> QED BY <2>1, FS_EmptySet DEF Init, StreamInv, StreamCountExact
<1>2. LinkInv /\ CallInv /\ StreamInv /\ [Next]_vars => StreamInv'
  BY StreamStep
<1>3. StreamInv => StreamCountExact
  BY DEF StreamInv
<1> QED BY <1>1, <1>2, <1>3, LinkInvariant, CallInvariant, PTL DEF Spec

-----------------------------------------------------------------------------
(* Use counts, power and references.                                       *)

PowerStates == [use : [Entities -> Int], powered : SUBSET Subdevs, ref : Int, reset : BOOLEAN]

\* What every section of the power management keeps: a module is on while its
\* use count is not 0, and no reset is pending on an ISP without users.
Steady(st) ==
  /\ st \in PowerStates
  /\ \A e \in Subdevs : st.use[e] >= 0
  /\ st.powered = {e \in Subdevs : st.use[e] > 0}
  /\ st.reset => st.ref # 0

\* The sensor clocks that a set of powered modules runs.
Clocks(S) == Cardinality(S \cap Sensors)

\* The references that no sensor clock holds.
Held(st) == st.ref - Clocks(st.powered)

\* new is st with c more users of the modules of S.
Moved(st, new, S, c) ==
  /\ Steady(new)
  /\ \A e \in Entities : new.use[e] = IF e \in S \cap Subdevs THEN st.use[e] + c ELSE st.use[e]
  /\ Held(new) = Held(st)

LEMMA ClocksType ==
  ASSUME NEW S
  PROVE  IsFiniteSet(S \cap Sensors) /\ Clocks(S) \in Nat
PROOF
<1>1. Sensors \subseteq Entities
  BY PowerAssumption DEF Entities
<1>2. S \cap Sensors \in SUBSET Entities
  BY <1>1
<1>3. IsFiniteSet(S \cap Sensors)
  BY <1>2, FS_Subset, PowerAssumption
<1> QED BY <1>3, FS_CardinalityType DEF Clocks

LEMMA ClocksAdded ==
  ASSUME NEW S, NEW T, S \cap T = {}
  PROVE  Clocks(S \cup T) = Clocks(S) + Clocks(T)
PROOF
<1>1. /\ (S \cup T) \cap Sensors = (S \cap Sensors) \cup (T \cap Sensors)
      /\ (S \cap Sensors) \cap (T \cap Sensors) = {}
  OBVIOUS
<1>2. Cardinality((S \cap Sensors) \cup (T \cap Sensors)) =
        Cardinality(S \cap Sensors) + Cardinality(T \cap Sensors)
          - Cardinality((S \cap Sensors) \cap (T \cap Sensors))
  BY ClocksType, FS_Union
<1>3. Cardinality((S \cap Sensors) \cap (T \cap Sensors)) = 0
  BY <1>1, FS_EmptySet
<1>4. Clocks(S \cup T) = Clocks(S) + Clocks(T) - 0
  BY <1>1, <1>2, <1>3 DEF Clocks
<1>5. Clocks(S) \in Nat /\ Clocks(T) \in Nat
  BY ClocksType
<1> QED BY <1>4, <1>5

LEMMA ClocksNone == Clocks({}) = 0
PROOF
<1>1. {} \cap Sensors = {}
  OBVIOUS
<1> QED BY <1>1, FS_EmptySet DEF Clocks

\* isp_set_xclk of the modules switched on and off keeps the references that
\* no clock holds, and leaves no reset pending without a reference.
LEMMA XclkKeepsHeld ==
  ASSUME NEW st \in PowerStates, NEW on \in SUBSET Subdevs, NEW off \in SUBSET Subdevs,
         on \cap st.powered = {}, off \subseteq st.powered, on = {} \/ off = {},
         NEW set \in PowerStates, set.ref = st.ref, set.powered = (st.powered \cup on) \ off,
         NEW new, new = SetXclk(set, on, off)
  PROVE  /\ new \in PowerStates /\ new.use = set.use /\ new.powered = set.powered
         /\ Held(new) = Held(st) /\ (new.reset => new.ref # 0)
PROOF
<1> DEFINE now == (st.powered \cup on) \ off
<1>1. st.ref \in Int /\ st.powered \in SUBSET Subdevs
  BY DEF PowerStates
<1>2. Clocks(on) \in Nat /\ Clocks(off) \in Nat /\ Clocks(now) \in Nat /\ Clocks(st.powered) \in Nat
  BY ClocksType
<1>3. /\ new.use = set.use /\ new.powered = now /\ new.ref = st.ref + Clocks(on) - Clocks(off)
      /\ new \in PowerStates /\ (new.reset => new.ref # 0)
  <2>1. new = [set EXCEPT !.ref = st.ref + Clocks(on) - Clocks(off),
                          !.reset = set.reset /\ st.ref + Clocks(on) - Clocks(off) # 0]
    BY DEF SetXclk, Clocks, PowerStates
  <2>2. st.ref + Clocks(on) - Clocks(off) \in Int /\ now \in SUBSET Subdevs
    BY <1>1, <1>2
  <2> QED BY <2>1, <2>2 DEF PowerStates
<1>4. Clocks(now) = Clocks(st.powered) + Clocks(on) - Clocks(off)
  <2>1. CASE off = {}
    <3>1. now = st.powered \cup on
      BY <2>1
    <3>2. Clocks(now) = Clocks(st.powered) + Clocks(on)
      BY ONLY <3>1, on \cap st.powered = {}, ClocksAdded
    <3> HIDE DEF now
    <3> QED BY <1>2, <2>1, <3>2, ClocksNone
  <2>2. CASE on = {}
    <3>1. st.powered = now \cup off /\ now \cap off = {}
      BY <2>2
    <3> HIDE DEF now
    <3>2. Clocks(st.powered) = Clocks(now) + Clocks(off)
      BY ONLY <3>1, ClocksAdded
    <3> QED BY <1>2, <2>2, <3>2, ClocksNone
  <2> QED BY <2>1, <2>2
<1> HIDE DEF now
<1>5. Held(new) = Held(st)
  BY <1>1, <1>2, <1>3, <1>4 DEF Held
<1> QED BY <1>3, <1>5 DEF now

\* A walk changes the use count of each of its modules once.
LEMMA PowerAllMoves ==
  ASSUME NEW st, Steady(st), NEW w \in Seq(Entities), IsInjective(w), NEW c \in Int,
         \A e \in ToSet(w) \cap Subdevs : st.use[e] + c >= 0
  PROVE  Moved(st, PowerAll(st, w, c), ToSet(w), c)
PROOF
<1> DEFINE reached == ToSet(w) \cap Subdevs
           visits(e) == Cardinality({i \in DOMAIN w : w[i] = e})
           on == {e \in reached : c > 0 /\ st.use[e] = 0}
           off == {e \in reached : c < 0 /\ \E k \in 1 .. visits(e) : st.use[e] + k * c = 0}
           used == [e \in Entities |-> IF e \in reached THEN st.use[e] + visits(e) * c ELSE st.use[e]]
           new == PowerAll(st, w, c)
<1>1. st \in PowerStates /\ st.use \in [Entities -> Int] /\ Subdevs \subseteq Entities
  BY DEF Steady, PowerStates, Entities
<1>2. \A e \in reached : visits(e) = 1
  BY VisitsOnce
<1>3. new = SetXclk([st EXCEPT !.use = used, !.powered = (@ \cup on) \ off], on, off)
  BY DEF PowerAll
<1> HIDE DEF visits
<1>4. off = {e \in reached : c < 0 /\ st.use[e] + c = 0}
  <2>1. ASSUME NEW e \in reached
        PROVE  (\E k \in 1 .. visits(e) : st.use[e] + k * c = 0) <=> st.use[e] + c = 0
    <3>1. 1 .. visits(e) = {1} /\ st.use[e] \in Int
      BY <1>1, <1>2
    <3> QED BY <3>1
  <2> QED BY <2>1
<1>5. /\ used \in [Entities -> Int]
      /\ \A e \in Entities : used[e] = IF e \in reached THEN st.use[e] + c ELSE st.use[e]
  BY <1>1, <1>2
<1> HIDE DEF used
<1>6. /\ on \in SUBSET Subdevs /\ off \in SUBSET Subdevs /\ on \cap st.powered = {}
      /\ off \subseteq st.powered /\ (on = {} \/ off = {})
  BY <1>1, <1>4 DEF Steady
<1>7. (st.powered \cup on) \ off = {e \in Subdevs : used[e] > 0}
  <2> HIDE DEF off
  <2>1. ASSUME NEW e \in Subdevs
        PROVE  e \in (st.powered \cup on) \ off <=> used[e] > 0
    <3>1. /\ st.use[e] \in Int /\ st.use[e] >= 0 /\ (e \in st.powered <=> st.use[e] > 0)
          /\ used[e] = IF e \in reached THEN st.use[e] + c ELSE st.use[e]
          /\ e \in reached => st.use[e] + c >= 0
      BY <1>1, <1>5 DEF Steady
    <3>2. /\ e \in on <=> e \in reached /\ c > 0 /\ st.use[e] = 0
          /\ e \in off <=> e \in reached /\ c < 0 /\ st.use[e] + c = 0
      BY <1>4
    <3> HIDE DEF on, reached
    <3> QED BY <3>1, <3>2
  <2> QED BY <1>6, <2>1 DEF Steady
<1>8. \A e \in Subdevs : used[e] >= 0
  BY <1>1, <1>5 DEF Steady
<1> HIDE DEF on, off, new, reached
<1> DEFINE set == [st EXCEPT !.use = used, !.powered = (@ \cup on) \ off]
<1>9. /\ set \in PowerStates /\ set.use = used /\ set.ref = st.ref
      /\ set.powered = (st.powered \cup on) \ off /\ new = SetXclk(set, on, off)
  BY <1>1, <1>3, <1>5, <1>6 DEF PowerStates
<1> HIDE DEF set
<1>10. /\ new \in PowerStates /\ new.use = used /\ new.powered = (st.powered \cup on) \ off
      /\ Held(new) = Held(st) /\ (new.reset => new.ref # 0)
  BY ONLY <1>1, <1>6, <1>9, XclkKeepsHeld
<1>11. Steady(new)
  BY <1>7, <1>8, <1>10 DEF Steady
<1>12. Moved(st, new, ToSet(w), c)
  BY <1>5, <1>10, <1>11 DEF Moved, reached
<1> QED BY <1>12 DEF new

\* isp_pipeline_pm_power adds to the use count of every module of the pipeline.
LEMMA PmPowerMoves ==
  ASSUME NEW en \in Allowed, NEW st, Steady(st), NEW e \in Entities, NEW c \in Int,
         \A x \in Pipelines[en][e] \cap Subdevs : st.use[x] + c >= 0
  PROVE  Moved(st, PmPower(en, st, e, c), Pipelines[en][e], c)
PROOF
<1>1. /\ Walk(en, e) \in Seq(Entities) /\ IsInjective(Walk(en, e))
      /\ ToSet(Walk(en, e)) = Pipelines[en][e]
  BY WalkOnce
<1>2. CASE c = 0
  BY <1>2 DEF PmPower, Moved, Steady, PowerStates
<1>3. CASE c # 0
  BY <1>1, <1>3, PowerAllMoves DEF PmPower
<1> QED BY <1>2, <1>3

\* Two moves of the same modules.
LEMMA MoveBack ==
  ASSUME NEW st, Steady(st), NEW mid, NEW new, NEW S, NEW c \in Int,
         Moved(st, mid, S, c), Moved(mid, new, S, -c)
  PROVE  Moved(st, new, {}, 0)
PROOF
<1>1. /\ \A e \in Entities : mid.use[e] = IF e \in S \cap Subdevs THEN st.use[e] + c ELSE st.use[e]
      /\ \A e \in Entities : new.use[e] = IF e \in S \cap Subdevs THEN mid.use[e] + (-c) ELSE mid.use[e]
      /\ \A e \in Entities : st.use[e] \in Int
  BY DEF Moved, Steady, PowerStates
<1>2. \A e \in Entities : new.use[e] = st.use[e]
  BY <1>1
<1> QED BY <1>2 DEF Moved

\* When an s_power fails, the second walk undoes what the first one did.
LEMMA PmFailureUndone ==
  ASSUME NEW en \in Allowed, NEW st, Steady(st), NEW e \in Entities, NEW c \in Nat,
         NEW new \in PmPowerFailures(en, st, e, c)
  PROVE  Moved(st, new, {}, 0)
PROOF
<1> DEFINE w == Walk(en, e)
<1>1. w \in Seq(Entities) /\ IsInjective(w)
  BY WalkOnce
<1>2. PICK i \in DOMAIN w :
        new = PowerAll(PowerAll(st, SubSeq(w, 1, i - 1), c),
                       SubSeq(w, 1, SelectInSeq(w, LAMBDA x : x = w[i]) - 1), -c)
  BY DEF PmPowerFailures
<1> HIDE DEF w
<1>3. i \in 1 .. Len(w)
  BY <1>1
<1>4. SelectInSeq(w, LAMBDA x : x = w[i]) = i
  <2>1. {j \in 1 .. Len(w) : w[j] = w[i]} = {i}
    BY <1>1, <1>3 DEF IsInjective
  <2>2. Min({i}) = i
    BY <1>3 DEF Min
  <2> QED BY <2>1, <2>2 DEF SelectInSeq
<1> DEFINE p == SubSeq(w, 1, i - 1)
           mid == PowerAll(st, p, c)
<1>5. p \in Seq(Entities) /\ IsInjective(p)
  <2>1. p \in Seq(Entities) /\ DOMAIN p = 1 .. i - 1 /\ \A j \in 1 .. i - 1 : p[j] = w[j]
    BY <1>1, <1>3
  <2> QED BY <1>1, <1>3, <2>1 DEF IsInjective
<1> HIDE DEF p
<1>6. \A x \in Subdevs : st.use[x] + c >= 0 /\ x \in Entities /\ st.use[x] \in Int
  BY DEF Steady, PowerStates, Entities
<1>7. Moved(st, mid, ToSet(p), c)
  BY <1>5, <1>6, PowerAllMoves
<1> HIDE DEF mid
<1>8. Steady(mid) /\ \A x \in ToSet(p) \cap Subdevs : mid.use[x] + (-c) >= 0
  BY <1>6, <1>7 DEF Moved, Steady
<1>9. Moved(mid, PowerAll(mid, p, -c), ToSet(p), -c)
  BY <1>5, <1>8, PowerAllMoves
<1>10. new = PowerAll(mid, p, -c)
  BY <1>2, <1>4 DEF mid, p
<1> QED BY <1>7, <1>9, <1>10, MoveBack

\* The pairs of isp_pipeline_pm_use_count's sum: one for each user of a node of
\* the walk, when the use count of a node is the number of its users.
UsePairs(u, w) == UNION {{i} \X (1 .. u[w[i]]) : i \in {j \in DOMAIN w : w[j] \in Nodes}}

HandlesIn(U, f, S) == {h \in U : f[h] \in S}

LEMMA PairsCounted ==
  ASSUME NEW U, IsFiniteSet(U), NEW f, \A h \in U : f[h] \in Nodes,
         NEW w, w \in Seq(Entities), IsInjective(w),
         NEW u, \A n \in Nodes : u[n] = Cardinality(HandlesIn(U, f, {n}))
  PROVE  Cardinality(UsePairs(u, w)) = Cardinality(HandlesIn(U, f, ToSet(w)))
PROOF
<1> DEFINE D == {j \in DOMAIN w : w[j] \in Nodes}
           H(n) == {h \in U : f[h] = n}
           Pairs == UNION {{i} \X (1 .. u[w[i]]) : i \in D}
           T == {h \in U : f[h] \in ToSet(w)}
           B == [n \in Nodes |-> CHOOSE b : b \in Bijection(1 .. u[n], H(n))]
           G == [p \in Pairs |-> B[w[p[1]]][p[2]]]
<1>1. ASSUME NEW n \in Nodes PROVE B[n] \in Bijection(1 .. u[n], H(n))
  <2>1. IsFiniteSet(H(n)) /\ u[n] = Cardinality(H(n))
    <3>1. HandlesIn(U, f, {n}) = H(n)
      BY DEF HandlesIn
    <3> QED BY <3>1, FS_Subset
  <2>2. ExistsBijection(1 .. u[n], H(n))
    BY <2>1, FS_CardinalityType
  <2> HIDE DEF H
  <2> QED BY <2>2 DEF ExistsBijection
<1> HIDE DEF B
<1>2. ASSUME NEW n \in Nodes
      PROVE  /\ \A k \in 1 .. u[n] : B[n][k] \in U /\ f[B[n][k]] = n
             /\ \A k, m \in 1 .. u[n] : B[n][k] = B[n][m] => k = m
             /\ \A h \in U : f[h] = n => \E k \in 1 .. u[n] : B[n][k] = h
  <2>1. B[n] \in Bijection(1 .. u[n], H(n))
    BY <1>1
  <2>2. /\ B[n] \in [1 .. u[n] -> H(n)]
        /\ \A k, m \in 1 .. u[n] : B[n][k] = B[n][m] => k = m
        /\ \A h \in H(n) : \E k \in 1 .. u[n] : B[n][k] = h
    <3> HIDE DEF H
    <3> QED BY <2>1 DEF Bijection, Injection, Surjection, IsInjective
  <2> QED BY <2>2
<1>3. /\ \A p \in Pairs : p = <<p[1], p[2]>> /\ p[1] \in D /\ p[2] \in 1 .. u[w[p[1]]]
      /\ \A i \in D : \A k \in 1 .. u[w[i]] : <<i, k>> \in Pairs
  OBVIOUS
<1>4. \A i \in D : i \in DOMAIN w /\ w[i] \in Nodes /\ w[i] \in ToSet(w)
  BY DEF ToSet
<1>5. \A x \in ToSet(w) : \E i \in DOMAIN w : w[i] = x
  BY DEF ToSet
<1> HIDE DEF Pairs, D
<1>6. G \in Injection(Pairs, T)
  <2>1. \A p \in Pairs : G[p] \in T /\ f[G[p]] = w[p[1]]
    BY <1>2, <1>3, <1>4
  <2>2. ASSUME NEW p \in Pairs, NEW q \in Pairs, G[p] = G[q] PROVE p = q
    <3>1. p[1] = q[1]
      BY <1>3, <1>4, <2>1, <2>2 DEF IsInjective
    <3>2. p[2] = q[2]
      BY <1>2, <1>3, <1>4, <2>2, <3>1
    <3> QED BY <1>3, <3>1, <3>2
  <2>3. G \in [Pairs -> T]
    BY <2>1
  <2> QED BY <2>2, <2>3 DEF Injection, IsInjective
<1>7. G \in Surjection(Pairs, T)
  <2>1. ASSUME NEW h \in T PROVE \E p \in Pairs : G[p] = h
    <3>1. PICK i \in DOMAIN w : w[i] = f[h]
      BY <1>5
    <3>2. i \in D
      BY <3>1 DEF D
    <3>3. PICK k \in 1 .. u[w[i]] : B[w[i]][k] = h
      BY <1>2, <3>1
    <3>4. <<i, k>> \in Pairs
      BY <1>3, <3>2
    <3>5. G[<<i, k>>] = h
      BY <3>3, <3>4
    <3> QED BY <3>4, <3>5
  <2>2. G \in [Pairs -> T]
    BY <1>6 DEF Injection
  <2> QED BY <2>1, <2>2 DEF Surjection
<1>8. IsFiniteSet(T)
  BY FS_Subset
<1>9. Cardinality(Pairs) = Cardinality(T)
  BY <1>6, <1>7, <1>8, FS_Injection
<1> QED BY <1>9 DEF Pairs, D, UsePairs, HandlesIn

\* The users of the nodes of a set.
UsersOf(S) == {h \in Users : fh[h] \in S}

LEMMA UsersFinite ==
  ASSUME NEW S
  PROVE  IsFiniteSet(UsersOf(S)) /\ Cardinality(UsersOf(S)) \in Nat
PROOF
<1>1. IsFiniteSet(UsersOf(S))
  BY PowerAssumption, FS_Subset DEF UsersOf, Users
<1> QED BY <1>1, FS_CardinalityType

\* isp_pipeline_pm_use_count is the number of users of a pipeline.
LEMMA PmUseCountIsUsers ==
  ASSUME CallInv, NEW en \in Allowed, NEW e \in Entities,
         NEW u, \A n \in Nodes : u[n] = Cardinality({h \in Users : fh[h] = n})
  PROVE  PmUseCount(en, u, e) = Cardinality(UsersOf(Pipelines[en][e]))
PROOF
<1>1. /\ Walk(en, e) \in Seq(Entities) /\ IsInjective(Walk(en, e))
      /\ ToSet(Walk(en, e)) = Pipelines[en][e]
  BY WalkOnce
<1>2. IsFiniteSet(Users) /\ \A h \in Users : fh[h] \in Nodes
  BY PowerAssumption, FS_Subset DEF Users, CallInv
<1> DEFINE w == Walk(en, e)
<1>3. PmUseCount(en, u, e) = Cardinality(UsePairs(u, w))
  BY DEF PmUseCount, UsePairs
<1> HIDE DEF w
<1>4. \A n \in Nodes : u[n] = Cardinality(HandlesIn(Users, fh, {n}))
  <2>1. \A n \in Nodes : {h \in Users : fh[h] = n} = HandlesIn(Users, fh, {n})
    BY DEF HandlesIn
  <2> QED BY <2>1
<1>5. w \in Seq(Entities) /\ IsInjective(w)
  BY <1>1 DEF w
<1>6. Cardinality(UsePairs(u, w)) = Cardinality(HandlesIn(Users, fh, ToSet(w)))
  BY ONLY <1>2, <1>4, <1>5, PairsCounted
<1> QED BY <1>1, <1>3, <1>6 DEF w, UsersOf, HandlesIn

Opened == {h \in Handles : pc[h] # "closed"}

\* Use counts are users, modules are on while used, and the references that no
\* clock holds are one per open handle.
PowerInv ==
  /\ Steady(PowerState)
  /\ UseCountExact
  /\ Held(PowerState) = Cardinality(Opened)

LEMMA OpenedFinite == IsFiniteSet(Opened) /\ Cardinality(Opened) \in Nat
PROOF
<1>1. IsFiniteSet(Opened)
  BY PowerAssumption, FS_Subset DEF Opened
<1> QED BY <1>1, FS_CardinalityType

LEMMA PowerSet ==
  ASSUME NEW st, Steady(st), SetPowerState(st)
  PROVE  Steady(PowerState)' /\ Held(PowerState)' = Held(st) /\ use' = st.use
PROOF
  BY DEF Steady, Held, PowerState, SetPowerState, PowerStates

\* The calls of a step start and end the use of no node.
SameUsers ==
  \A h \in Handles : /\ h \in Users' <=> h \in Users
                     /\ h \in Users => fh'[h] = fh[h]

LEMMA UsesKept ==
  ASSUME UseCountExact, UNCHANGED enabled, \A e \in Entities : use'[e] = use[e], SameUsers
  PROVE  UseCountExact'
PROOF
<1>1. ASSUME NEW n \in Nodes
      PROVE  {h \in Users' : fh'[h] = n} = {h \in Users : fh[h] = n}
  BY DEF SameUsers, Users
<1>2. ASSUME NEW e \in Entities
      PROVE  {h \in Users' : fh'[h] \in Pipelines[enabled'][e]} = {h \in Users : fh[h] \in Pipelines[enabled][e]}
  BY DEF SameUsers, Users
<1> QED BY <1>1, <1>2 DEF UseCountExact, Pipeline, Entities

\* A section that leaves counts, power and references as they were.
LEMMA Restored ==
  ASSUME PowerInv, NEW st, Moved(PowerState, st, {}, 0), SetPowerState(st), UNCHANGED enabled,
         SameUsers, \A h \in Handles : pc'[h] = "closed" <=> pc[h] = "closed"
  PROVE  PowerInv'
PROOF
<1>1. /\ Steady(st) /\ Held(st) = Held(PowerState)
      /\ \A e \in Entities : st.use[e] = use[e]
  BY DEF Moved, PowerState
<1>2. Steady(PowerState)' /\ Held(PowerState)' = Held(st) /\ use' = st.use
  BY <1>1, PowerSet
<1>3. UseCountExact'
  BY <1>1, <1>2, UsesKept DEF PowerInv
<1>4. Opened' = Opened
  BY DEF Opened
<1> QED BY <1>1, <1>2, <1>3, <1>4 DEF PowerInv

\* A step that touches none of it, but for a reset asked for by a user.
LEMMA PowerFrame ==
  ASSUME PowerInv, UNCHANGED <<enabled, use, powered, ref_count>>,
         needs_reset' \in {needs_reset, TRUE}, needs_reset' = needs_reset \/ Opened # {},
         SameUsers, \A h \in Handles : pc'[h] = "closed" <=> pc[h] = "closed"
  PROVE  PowerInv'
PROOF
<1> DEFINE st == [use |-> use, powered |-> powered, ref |-> ref_count, reset |-> needs_reset']
<1>1. Opened # {} => ref_count # 0
  <2>1. Opened # {} => Cardinality(Opened) > 0
    BY OpenedFinite, FS_EmptySet
  <2>2. Clocks(powered) \in Nat /\ ref_count \in Int
    BY ClocksType DEF PowerInv, Steady, PowerStates, PowerState
  <2>3. ref_count - Clocks(powered) = Cardinality(Opened)
    BY DEF PowerInv, Held, PowerState
  <2> QED BY <2>1, <2>2, <2>3, OpenedFinite
<1>2. Steady(st)
  BY <1>1 DEF PowerInv, Steady, PowerStates, PowerState
<1>3. Held(st) = Held(PowerState) /\ \A e \in Entities : st.use[e] = PowerState.use[e]
  BY DEF Held, PowerState
<1>4. SetPowerState(st)
  BY DEF SetPowerState
<1> HIDE DEF st
<1>5. Moved(PowerState, st, {}, 0)
  BY <1>2, <1>3 DEF Moved
<1> QED BY <1>4, <1>5, Restored

LEMMA NodeCounted ==
  ASSUME NEW st, Steady(st), NEW n \in Nodes, NEW c \in Int
  PROVE  /\ Steady(CountNode(st, n, c)) /\ Held(CountNode(st, n, c)) = Held(st)
         /\ \A e \in Entities : CountNode(st, n, c).use[e] = IF e = n THEN st.use[e] + c ELSE st.use[e]
PROOF
<1>1. st.use \in [Entities -> Int] /\ n \in Entities /\ n \notin Subdevs /\ Subdevs \subseteq Entities
  BY PowerAssumption DEF Steady, PowerStates, Entities
<1> DEFINE u == [st.use EXCEPT ![n] = @ + c]
<1>2. /\ u \in [Entities -> Int]
      /\ \A e \in Entities : u[e] = IF e = n THEN st.use[e] + c ELSE st.use[e]
  BY <1>1
<1>3. CountNode(st, n, c) = [st EXCEPT !.use = u]
  BY DEF CountNode, Steady, PowerStates
<1> HIDE DEF u
<1>4. /\ CountNode(st, n, c) \in PowerStates /\ CountNode(st, n, c).use = u
      /\ CountNode(st, n, c).powered = st.powered /\ CountNode(st, n, c).ref = st.ref
      /\ CountNode(st, n, c).reset = st.reset
  BY <1>2, <1>3 DEF Steady, PowerStates
<1>5. \A e \in Subdevs : u[e] = st.use[e]
  BY <1>1, <1>2
<1> QED BY <1>2, <1>4, <1>5 DEF Steady, Held

-----------------------------------------------------------------------------
(* open() and close().                                                     *)

\* isp_video_open and isp_video_release: the reference of a handle.
LEMMA OpenKeepsPower ==
  ASSUME CallInv, PowerInv, NEW h \in Handles, NEW n \in Nodes, Open(h, n)
  PROVE  PowerInv'
PROOF
<1>1. /\ pc[h] = "closed" /\ pc' = [pc EXCEPT ![h] = "got"] /\ fh' = [fh EXCEPT ![h] = n]
      /\ SetPowerState(IspGet(PowerState)) /\ UNCHANGED enabled
  BY DEF Open, Step, linkvars
<1> DEFINE st == IspGet(PowerState)
<1>2. /\ st \in PowerStates /\ st.use = use /\ st.powered = powered
      /\ st.ref = ref_count + 1 /\ st.reset = needs_reset
  BY DEF PowerInv, IspGet, PowerState, Steady, PowerStates
<1>3. Clocks(powered) \in Nat /\ Cardinality(Opened) \in Nat /\ ref_count \in Int
      /\ ref_count - Clocks(powered) = Cardinality(Opened)
  BY ClocksType, OpenedFinite DEF PowerInv, Held, PowerState, Steady, PowerStates
<1> HIDE DEF st
<1>4. Steady(st)
  BY <1>2, <1>3 DEF PowerInv, Steady, PowerState
<1>5. Held(st) = Cardinality(Opened) + 1
  BY <1>2, <1>3 DEF Held
<1>6. Steady(PowerState)' /\ Held(PowerState)' = Held(st) /\ use' = st.use
  BY <1>1, <1>4, PowerSet DEF st
<1>7. SameUsers
  BY <1>1 DEF SameUsers, Users, CallInv
<1>8. UseCountExact'
  BY <1>1, <1>2, <1>6, <1>7, UsesKept DEF PowerInv
<1>9. Opened' = Opened \cup {h} /\ h \notin Opened
  BY <1>1 DEF Opened, CallInv
<1>10. Cardinality(Opened') = Cardinality(Opened) + 1
  BY <1>9, OpenedFinite, FS_AddElement
<1> QED BY <1>5, <1>6, <1>8, <1>10 DEF PowerInv

LEMMA PutReleases ==
  ASSUME NEW st \in PowerStates, NEW new, new = IspPut(st)
  PROVE  /\ new \in PowerStates /\ new.use = st.use /\ new.powered = st.powered
         /\ new.ref = st.ref - 1 /\ (new.reset => st.ref # 1)
PROOF
<1>1. st.ref - 1 \in Int
  BY DEF PowerStates
<1>2. new = [st EXCEPT !.ref = st.ref - 1, !.reset = st.reset /\ st.ref # 1]
  BY DEF IspPut, PowerStates
<1> QED BY <1>1, <1>2 DEF PowerStates

LEMMA PutKeepsPower ==
  ASSUME CallInv, PowerInv, NEW h \in Handles, ReleasePuts(h)
  PROVE  PowerInv'
PROOF
<1>1. /\ pc[h] = "unused" /\ pc' = [pc EXCEPT ![h] = "closed"] /\ fh' = [fh EXCEPT ![h] = None]
      /\ SetPowerState(IspPut(PowerState)) /\ UNCHANGED enabled
  BY DEF ReleasePuts, Step, linkvars
<1> DEFINE st == IspPut(PowerState)
<1>2. /\ st \in PowerStates /\ st.use = use /\ st.powered = powered
      /\ st.ref = ref_count - 1 /\ (st.reset => ref_count # 1)
  <2>1. PowerState \in PowerStates /\ PowerState.use = use /\ PowerState.powered = powered
        /\ PowerState.ref = ref_count
    BY DEF PowerInv, Steady, PowerState
  <2> QED BY <2>1, PutReleases
<1>3. Clocks(powered) \in Nat /\ Cardinality(Opened) \in Nat /\ ref_count \in Int
      /\ ref_count - Clocks(powered) = Cardinality(Opened)
  BY ClocksType, OpenedFinite DEF PowerInv, Held, PowerState, Steady, PowerStates
<1> HIDE DEF st
<1>4. Steady(st)
  BY <1>2, <1>3 DEF PowerInv, Steady, PowerState
<1>5. Held(st) = Cardinality(Opened) - 1
  BY <1>2, <1>3 DEF Held
<1>6. Steady(PowerState)' /\ Held(PowerState)' = Held(st) /\ use' = st.use
  BY <1>1, <1>4, PowerSet DEF st
<1>7. SameUsers
  BY <1>1 DEF SameUsers, Users, CallInv
<1>8. UseCountExact'
  BY <1>1, <1>2, <1>6, <1>7, UsesKept DEF PowerInv
<1>9. Opened' = Opened \ {h} /\ h \in Opened
  BY <1>1 DEF Opened, CallInv
<1>10. Cardinality(Opened') = Cardinality(Opened) - 1
  BY <1>9, OpenedFinite, FS_RemoveElement
<1> QED BY <1>5, <1>6, <1>8, <1>10 DEF PowerInv

\* omap3isp_pipeline_pm_use: one more, or one less, user of a node and of the
\* modules of its pipeline.
LEMMA PmUseKeepsPower ==
  ASSUME LinkInv, CallInv, PowerInv, NEW h \in Handles, NEW c \in {1, -1},
         SetPowerState(PmPower(enabled, CountNode(PowerState, fh[h], c), fh[h], c)),
         UNCHANGED <<enabled, fh>>, pc[h] # "closed",
         Users' = IF c = 1 THEN Users \cup {h} ELSE Users \ {h},
         h \in Users <=> c = -1, Opened' = Opened
  PROVE  PowerInv'
PROOF
<1> DEFINE n == fh[h]
           mid == CountNode(PowerState, n, c)
           st == PmPower(enabled, mid, n, c)
<1>1. n \in Nodes /\ n \in Entities /\ c \in Int /\ Subdevs \subseteq Entities /\ n \notin Subdevs
      /\ Nodes \subseteq Entities /\ enabled \in Allowed /\ enabled \in SUBSET Links
  BY PowerAssumption, AllowedSubset DEF CallInv, Entities, LinkInv
<1>2. \A e \in Entities : use[e] \in Int
  BY DEF PowerInv, Steady, PowerStates, PowerState
<1>3. /\ \A e \in Nodes : use[e] = Cardinality(UsersOf({e}))
      /\ \A e \in Subdevs : use[e] = Cardinality(UsersOf(Pipeline(e)))
  <2>1. \A e : {u \in Users : fh[u] = e} = UsersOf({e})
    BY DEF UsersOf
  <2> QED BY <2>1 DEF PowerInv, UseCountExact, UsersOf
<1>4. ASSUME NEW S
      PROVE  Cardinality({u \in Users' : fh'[u] \in S}) = Cardinality(UsersOf(S)) + (IF n \in S THEN c ELSE 0)
  <2>1. IsFiniteSet(UsersOf(S)) /\ Cardinality(UsersOf(S)) \in Nat
    BY UsersFinite
  <2>2. h \in UsersOf(S) <=> c = -1 /\ n \in S
    BY DEF UsersOf
  <2>3. CASE n \in S /\ c = 1
    <3>1. {u \in Users' : fh'[u] \in S} = UsersOf(S) \cup {h}
      BY <2>3 DEF UsersOf
    <3>2. h \notin UsersOf(S)
      BY <2>2, <2>3
    <3>3. Cardinality(UsersOf(S) \cup {h}) = Cardinality(UsersOf(S)) + 1
      BY <2>1, <3>2, FS_AddElement
    <3> QED BY <2>3, <3>1, <3>3
  <2>4. CASE n \in S /\ c = -1
    <3>1. {u \in Users' : fh'[u] \in S} = UsersOf(S) \ {h}
      BY <2>4 DEF UsersOf
    <3>2. Cardinality(UsersOf(S) \ {h}) = Cardinality(UsersOf(S)) - 1
      BY <2>1, <2>2, <2>4, FS_RemoveElement
    <3>3. Cardinality(UsersOf(S)) - 1 = Cardinality(UsersOf(S)) + c
      BY <2>1, <2>4
    <3> QED BY <2>4, <3>1, <3>2, <3>3
  <2>5. CASE n \notin S
    <3>1. {u \in Users' : fh'[u] \in S} = UsersOf(S)
      BY <2>5 DEF UsersOf
    <3>2. Cardinality(UsersOf(S)) = Cardinality(UsersOf(S)) + 0
      BY <2>1
    <3> HIDE DEF n
    <3> QED BY <2>5, <3>1, <3>2
  <2> QED BY <2>3, <2>4, <2>5
<1>5. \A e \in Entities : n \in Pipeline(e) <=> e \in Pipelines[enabled][n]
  BY <1>1, PipelineSymmetric DEF Pipeline
<1>6. /\ Steady(mid) /\ Held(mid) = Held(PowerState)
      /\ \A e \in Entities : mid.use[e] = IF e = n THEN use[e] + c ELSE use[e]
  <2>1. PowerState.use = use
    BY DEF PowerState
  <2> QED BY <1>1, <2>1, NodeCounted DEF PowerInv
<1>7. ASSUME NEW x \in Pipelines[enabled][n] \cap Subdevs PROVE mid.use[x] + c >= 0
  <2>1. mid.use[x] = Cardinality(UsersOf(Pipeline(x))) /\ Cardinality(UsersOf(Pipeline(x))) \in Nat
    BY <1>1, <1>3, <1>6, UsersFinite
  <2>2. c = -1 => Cardinality(UsersOf(Pipeline(x))) # 0
    <3>1. c = -1 => h \in UsersOf(Pipeline(x))
      BY <1>1, <1>5 DEF UsersOf
    <3> QED BY <3>1, UsersFinite, FS_EmptySet
  <2> QED BY <2>1, <2>2
<1> HIDE DEF mid
<1>8. Moved(mid, st, Pipelines[enabled][n], c)
  BY <1>1, <1>6, <1>7, PmPowerMoves
<1>9. SetPowerState(st)
  BY DEF mid
<1> HIDE DEF st, n
<1>10. /\ Steady(PowerState)' /\ Held(PowerState)' = Held(st) /\ use' = st.use
  BY <1>8, <1>9, PowerSet DEF Moved
<1>11. \A e \in Entities : use'[e] = IF e \in Pipelines[enabled][n] \cap Subdevs THEN mid.use[e] + c ELSE mid.use[e]
  BY <1>8, <1>10 DEF Moved
<1>12. ASSUME NEW e \in Nodes PROVE use'[e] = Cardinality({u \in Users' : fh'[u] = e})
  <2>1. {u \in Users' : fh'[u] = e} = {u \in Users' : fh'[u] \in {e}}
    OBVIOUS
  <2>2. Cardinality({u \in Users' : fh'[u] \in {e}}) = Cardinality(UsersOf({e})) + (IF n \in {e} THEN c ELSE 0)
    BY <1>4
  <2>3. use'[e] = IF e = n THEN use[e] + c ELSE use[e]
    BY <1>1, <1>6, <1>11, PowerAssumption
  <2> QED BY <1>1, <1>2, <1>3, <2>1, <2>2, <2>3
<1>13. ASSUME NEW e \in Subdevs PROVE use'[e] = Cardinality({u \in Users' : fh'[u] \in Pipeline(e)})
  <2>1. Cardinality({u \in Users' : fh'[u] \in Pipeline(e)})
          = Cardinality(UsersOf(Pipeline(e))) + (IF n \in Pipeline(e) THEN c ELSE 0)
    BY <1>4
  <2>2. use'[e] = IF n \in Pipeline(e) THEN use[e] + c ELSE use[e]
    BY <1>1, <1>5, <1>6, <1>11
  <2> QED BY <1>1, <1>2, <1>3, <2>1, <2>2
<1>14. UseCountExact'
  BY <1>12, <1>13 DEF UseCountExact, Pipeline
<1> QED BY <1>6, <1>8, <1>10, <1>14 DEF PowerInv, Moved

\* A failed open gives everything back but the reference.
LEMMA OpenFailsKeepsPower ==
  ASSUME LinkInv, CallInv, PowerInv, NEW h \in Handles, OpenFails(h)
  PROVE  PowerInv'
PROOF
<1> DEFINE n == fh[h]
           mid == CountNode(PowerState, n, 1)
<1>1. /\ pc[h] = "got" /\ pc' = [pc EXCEPT ![h] = "unused"] /\ UNCHANGED <<enabled, fh>>
      /\ \E s \in PmPowerFailures(enabled, mid, n, 1) : SetPowerState(CountNode(s, n, -1))
  BY DEF OpenFails, Step, linkvars
<1>2. PICK s \in PmPowerFailures(enabled, mid, n, 1) : SetPowerState(CountNode(s, n, -1))
  BY <1>1
<1>3. n \in Nodes /\ n \in Entities /\ enabled \in Allowed
  BY <1>1 DEF CallInv, Entities, LinkInv
<1>4. /\ Steady(mid) /\ Held(mid) = Held(PowerState)
      /\ \A e \in Entities : mid.use[e] = IF e = n THEN PowerState.use[e] + 1 ELSE PowerState.use[e]
  BY <1>3, NodeCounted DEF PowerInv
<1> HIDE DEF mid, n
<1>5. Moved(mid, s, {}, 0)
  BY <1>2, <1>3, <1>4, PmFailureUndone
<1>6. Steady(s) /\ Held(s) = Held(mid) /\ \A e \in Entities : s.use[e] = mid.use[e]
  BY <1>5 DEF Moved
<1> DEFINE st == CountNode(s, n, -1)
<1>7. /\ Steady(st) /\ Held(st) = Held(s)
      /\ \A e \in Entities : st.use[e] = IF e = n THEN s.use[e] + (-1) ELSE s.use[e]
  BY <1>3, <1>6, NodeCounted
<1> HIDE DEF st
<1>8. \A e \in Entities : PowerState.use[e] \in Int
  BY DEF PowerInv, Steady, PowerStates
<1>9. \A e \in Entities : st.use[e] = PowerState.use[e]
  BY <1>4, <1>6, <1>7, <1>8
<1>10. Moved(PowerState, st, {}, 0)
  BY <1>4, <1>6, <1>7, <1>9 DEF Moved
<1>11. SameUsers /\ \A u \in Handles : pc'[u] = "closed" <=> pc[u] = "closed"
  BY <1>1 DEF SameUsers, Users, CallInv
<1> QED BY <1>1, <1>2, <1>10, <1>11, Restored DEF st

-----------------------------------------------------------------------------
(* Links and power.                                                        *)

NodesCounted(st) == \A n \in Nodes : st.use[n] = Cardinality({h \in Users : fh[h] = n})

LEMMA NodesStayCounted ==
  ASSUME NEW st, NEW new, NEW S, NEW c, Moved(st, new, S, c), NodesCounted(st)
  PROVE  NodesCounted(new)
PROOF
<1>1. Nodes \subseteq Entities /\ Nodes \cap Subdevs = {}
  BY PowerAssumption DEF Entities
<1> QED BY <1>1 DEF Moved, NodesCounted

\* The users that the two ends of a link bring.
SourceUsers(en, l) == Cardinality(UsersOf(Pipelines[en][l.src]))
SinkUsers(en, l) == Cardinality(UsersOf(Pipelines[en][l.snk]))

LEMMA LinkEnds ==
  ASSUME CallInv, NEW en \in Allowed, NEW l \in Links
  PROVE  /\ l.src \in Entities /\ l.snk \in Entities
         /\ SourceUsers(en, l) \in Nat /\ SinkUsers(en, l) \in Nat
         /\ \A st : NodesCounted(st) => /\ PmUseCount(en, st.use, l.src) = SourceUsers(en, l)
                                        /\ PmUseCount(en, st.use, l.snk) = SinkUsers(en, l)
PROOF
<1>1. l.src \in Entities /\ l.snk \in Entities
  BY PowerAssumption
<1>2. SourceUsers(en, l) \in Nat /\ SinkUsers(en, l) \in Nat
  BY UsersFinite DEF SourceUsers, SinkUsers
<1>3. ASSUME NEW st, NodesCounted(st)
      PROVE  /\ PmUseCount(en, st.use, l.src) = SourceUsers(en, l)
             /\ PmUseCount(en, st.use, l.snk) = SinkUsers(en, l)
  BY <1>1, <1>3, PmUseCountIsUsers DEF NodesCounted, SourceUsers, SinkUsers
<1> QED BY <1>1, <1>2, <1>3

LEMMA NotifyOnMoves ==
  ASSUME LinkInv, CallInv, NEW l \in Links, NEW st, Steady(st), NodesCounted(st)
  PROVE  \E mid : /\ mid = PmPower(enabled, st, l.src, SinkUsers(enabled, l))
                  /\ Moved(st, mid, Pipelines[enabled][l.src], SinkUsers(enabled, l))
                  /\ Moved(mid, NotifyOn(st, l), Pipelines[enabled][l.snk], SourceUsers(enabled, l))
PROOF
<1> DEFINE a == SourceUsers(enabled, l)
           b == SinkUsers(enabled, l)
           mid == PmPower(enabled, st, l.src, b)
<1>1. /\ enabled \in Allowed /\ l.src \in Entities /\ l.snk \in Entities /\ a \in Nat /\ b \in Nat
      /\ NotifyOn(st, l) = PmPower(enabled, mid, l.snk, a)
  BY LinkEnds DEF LinkInv, NotifyOn
<1> HIDE DEF a, b
<1>2. \A x \in Subdevs : st.use[x] \in Int /\ st.use[x] >= 0
  BY DEF Steady, PowerStates, Entities
<1>3. Moved(st, mid, Pipelines[enabled][l.src], b)
  BY <1>1, <1>2, PmPowerMoves
<1> HIDE DEF mid
<1>4. Steady(mid) /\ \A x \in Subdevs : mid.use[x] \in Int /\ mid.use[x] >= 0
  BY <1>3 DEF Moved, Steady, PowerStates, Entities
<1>5. Moved(mid, PmPower(enabled, mid, l.snk, a), Pipelines[enabled][l.snk], a)
  BY <1>1, <1>4, PmPowerMoves
<1> QED BY <1>1, <1>3, <1>5 DEF a, b, mid

LEMMA NotifyOffMoves ==
  ASSUME CallInv, NEW en \in Allowed, NEW l \in Links, NEW st, Steady(st), NodesCounted(st),
         \A x \in Pipelines[en][l.src] \cap Subdevs : st.use[x] >= SinkUsers(en, l),
         \A x \in Pipelines[en][l.snk] \cap Subdevs :
           st.use[x] >= SourceUsers(en, l)
                          + (IF x \in Pipelines[en][l.src] THEN SinkUsers(en, l) ELSE 0)
  PROVE  \E mid : /\ Moved(st, mid, Pipelines[en][l.src], -SinkUsers(en, l))
                  /\ Moved(mid, NotifyOff(en, st, l), Pipelines[en][l.snk], -SourceUsers(en, l))
PROOF
<1> DEFINE a == SourceUsers(en, l)
           b == SinkUsers(en, l)
           mid == PmPower(en, st, l.src, -b)
           A == Pipelines[en][l.src]
           B == Pipelines[en][l.snk]
<1>1. /\ l.src \in Entities /\ l.snk \in Entities /\ a \in Nat /\ b \in Nat
      /\ NotifyOff(en, st, l) = PmPower(en, mid, l.snk, -a)
  BY LinkEnds DEF NotifyOff
<1>2. /\ \A x \in A \cap Subdevs : st.use[x] >= b
      /\ \A x \in B \cap Subdevs : st.use[x] >= a + (IF x \in A THEN b ELSE 0)
      /\ \A x \in Subdevs : st.use[x] \in Int /\ x \in Entities
  BY DEF Steady, PowerStates, Entities
<1> HIDE DEF a, b
<1>3. -a \in Int /\ -b \in Int /\ \A x \in A \cap Subdevs : st.use[x] + (-b) >= 0
  BY <1>1, <1>2
<1>4. Moved(st, mid, A, -b)
  BY <1>1, <1>3, PmPowerMoves
<1> HIDE DEF mid
<1>5. Steady(mid) /\ \A x \in Subdevs : mid.use[x] = IF x \in A THEN st.use[x] + (-b) ELSE st.use[x]
  BY <1>2, <1>4 DEF Moved
<1>6. \A x \in B \cap Subdevs : mid.use[x] + (-a) >= 0
  BY <1>1, <1>2, <1>5
<1>7. Moved(mid, PmPower(en, mid, l.snk, -a), B, -a)
  BY <1>1, <1>3, <1>5, <1>6, PmPowerMoves
<1> QED BY <1>1, <1>4, <1>7 DEF a, b

\* A link without a way round it brings each end the users of the other.
LEMMA LinkBringsUsers ==
  ASSUME CallInv, NEW en \in Allowed, NEW l \in Links, l.snk \notin Pipelines[en][l.src],
         NEW x \in Entities
  PROVE  /\ x \in Pipelines[en][l.src] => x \notin Pipelines[en][l.snk]
         /\ Cardinality(UsersOf(Pipelines[en \cup {l}][x])) =
              IF x \in Pipelines[en][l.src] THEN Cardinality(UsersOf(Pipelines[en][x])) + SinkUsers(en, l)
              ELSE IF x \in Pipelines[en][l.snk] THEN Cardinality(UsersOf(Pipelines[en][x])) + SourceUsers(en, l)
              ELSE Cardinality(UsersOf(Pipelines[en][x]))
PROOF
<1> DEFINE A == Pipelines[en][l.src]
           B == Pipelines[en][l.snk]
<1>1. en \in SUBSET Links /\ l.src \in Entities /\ l.snk \in Entities
  BY AllowedSubset, PowerAssumption
<1>2. A \cap B = {}
  <2> SUFFICES ASSUME NEW y \in A \cap B PROVE FALSE
    OBVIOUS
  <2>1. Pipelines[en][y] = A /\ Pipelines[en][y] = B
    BY <1>1, PipelineSame
  <2>2. l.snk \in B
    BY <1>1, PipelineClosed
  <2> QED BY <2>1, <2>2
<1>3. Cardinality(UsersOf(A \cup B)) = Cardinality(UsersOf(A)) + Cardinality(UsersOf(B))
  <2>1. UsersOf(A \cup B) = UsersOf(A) \cup UsersOf(B) /\ UsersOf(A) \cap UsersOf(B) = {}
    BY <1>2 DEF UsersOf
  <2>2. /\ IsFiniteSet(UsersOf(A)) /\ Cardinality(UsersOf(A)) \in Nat
        /\ IsFiniteSet(UsersOf(B)) /\ Cardinality(UsersOf(B)) \in Nat
    BY UsersFinite
  <2> HIDE DEF A, B
  <2>3. Cardinality(UsersOf(A) \cup UsersOf(B))
          = Cardinality(UsersOf(A)) + Cardinality(UsersOf(B)) - Cardinality(UsersOf(A) \cap UsersOf(B))
    BY <2>2, FS_Union
  <2>4. Cardinality(UsersOf(A) \cap UsersOf(B)) = 0
    BY <2>1, FS_EmptySet
  <2>5. Cardinality(UsersOf(A \cup B)) = Cardinality(UsersOf(A) \cup UsersOf(B))
    BY <2>1
  <2> QED BY ONLY <2>2, <2>3, <2>4, <2>5
<1>4. Pipelines[en \cup {l}][x] = IF x \in A \cup B THEN A \cup B ELSE Pipelines[en][x]
  BY <1>1, PipelineJoined
<1>5. (x \in A => Pipelines[en][x] = A) /\ (x \in B => Pipelines[en][x] = B)
  BY <1>1, PipelineSame
<1>6. /\ SourceUsers(en, l) = Cardinality(UsersOf(A)) /\ SinkUsers(en, l) = Cardinality(UsersOf(B))
      /\ Cardinality(UsersOf(A)) \in Nat /\ Cardinality(UsersOf(B)) \in Nat
  BY UsersFinite DEF SourceUsers, SinkUsers
<1> HIDE DEF A, B
<1>7. /\ x \in A => x \notin B
      /\ Cardinality(UsersOf(Pipelines[en \cup {l}][x])) =
           IF x \in A THEN Cardinality(UsersOf(Pipelines[en][x])) + SinkUsers(en, l)
           ELSE IF x \in B THEN Cardinality(UsersOf(Pipelines[en][x])) + SourceUsers(en, l)
           ELSE Cardinality(UsersOf(Pipelines[en][x]))
  <2>1. CASE x \in A
    <3>1. Pipelines[en \cup {l}][x] = A \cup B /\ Pipelines[en][x] = A /\ x \notin B
      BY <1>2, <1>4, <1>5, <2>1
    <3> QED BY <1>3, <1>6, <2>1, <3>1
  <2>2. CASE x \in B
    <3>1. Pipelines[en \cup {l}][x] = A \cup B /\ Pipelines[en][x] = B /\ x \notin A
      BY <1>2, <1>4, <1>5, <2>2
    <3>2. Cardinality(UsersOf(A \cup B)) = Cardinality(UsersOf(B)) + Cardinality(UsersOf(A))
      BY <1>3, <1>6
    <3> QED BY <1>6, <2>2, <3>1, <3>2
  <2>3. CASE x \notin A \cup B
    BY <1>4, <2>3
  <2> QED BY <2>1, <2>2, <2>3
<1> QED BY <1>7 DEF A, B

LEMMA UsesAre ==
  ASSUME PowerInv
  PROVE  /\ NodesCounted(PowerState) /\ Steady(PowerState)
         /\ \A x \in Subdevs : /\ x \in Entities /\ use[x] \in Int
                               /\ use[x] = Cardinality(UsersOf(Pipelines[enabled][x]))
         /\ PowerState.use = use
PROOF
<1>1. PowerState.use = use
  BY DEF PowerState
<1> QED BY <1>1 DEF PowerInv, UseCountExact, NodesCounted, UsersOf, Pipeline, Steady, PowerStates, Entities

\* The end of a link change: the counts that were set are those of the new links.
LEMMA LinksSet ==
  ASSUME PowerInv, NEW mid, NEW st, NEW S, NEW T, NEW c, NEW d,
         Moved(PowerState, mid, S, c), Moved(mid, st, T, d),
         SetPowerState(st), UNCHANGED <<pc, fh>>,
         \A x \in Subdevs : st.use[x] = Cardinality(UsersOf(Pipelines[enabled'][x]))
  PROVE  PowerInv'
PROOF
<1>1. Steady(st) /\ Held(st) = Held(PowerState)
  BY DEF Moved
<1>2. Steady(PowerState)' /\ Held(PowerState)' = Held(st) /\ use' = st.use
  BY <1>1, PowerSet
<1>3. NodesCounted(st)
  BY UsesAre, NodesStayCounted
<1>4. Users' = Users
  BY DEF Users
<1>5. \A n \in Nodes : use'[n] = Cardinality({h \in Users' : fh'[h] = n})
  BY <1>2, <1>3, <1>4 DEF NodesCounted
<1>6. \A e \in Subdevs : use'[e] = Cardinality({h \in Users' : fh'[h] \in Pipelines[enabled'][e]})
  BY <1>2, <1>4 DEF UsersOf
<1>7. UseCountExact'
  BY <1>5, <1>6 DEF UseCountExact, Pipeline
<1>8. Opened' = Opened
  BY DEF Opened
<1> QED BY <1>1, <1>2, <1>7, <1>8 DEF PowerInv

LEMMA EnableKeepsPower ==
  ASSUME LinkInv, CallInv, PowerInv, NEW l \in Links, EnableLink(l)
  PROVE  PowerInv'
PROOF
<1> DEFINE A == Pipelines[enabled][l.src]
           B == Pipelines[enabled][l.snk]
           a == SourceUsers(enabled, l)
           b == SinkUsers(enabled, l)
           st == NotifyOn(PowerState, l)
<1>1. /\ l \notin enabled /\ l \notin Immutable /\ enabled' = enabled \cup {l}
      /\ SetPowerState(st) /\ UNCHANGED <<pc, fh>>
  BY DEF EnableLink, LinkIdle
<1>2. enabled \in Allowed /\ enabled' \in Allowed
  BY EnableKeepsLinks DEF LinkInv
<1>3. l.snk \notin A
  <2>1. l \in enabled' \ Immutable /\ enabled' \ {l} = enabled
    BY <1>1
  <2>2. l.snk \notin Pipelines[enabled' \ {l}][l.src]
    BY <1>2, <2>1, BoardGraph
  <2> QED BY <2>1, <2>2
<1>4. PICK mid : Moved(PowerState, mid, A, b) /\ Moved(mid, st, B, a)
  BY UsesAre, NotifyOnMoves
<1>5. ASSUME NEW x \in Subdevs PROVE st.use[x] = Cardinality(UsersOf(Pipelines[enabled'][x]))
  <2>1. /\ x \in Entities /\ use[x] = Cardinality(UsersOf(Pipelines[enabled][x]))
        /\ PowerState.use = use
    BY UsesAre
  <2>2. /\ mid.use[x] = IF x \in A THEN use[x] + b ELSE use[x]
        /\ st.use[x] = IF x \in B THEN mid.use[x] + a ELSE mid.use[x]
    BY <1>4, <2>1 DEF Moved
  <2>3. /\ x \in A => x \notin B
        /\ Cardinality(UsersOf(Pipelines[enabled \cup {l}][x])) =
             IF x \in A THEN Cardinality(UsersOf(Pipelines[enabled][x])) + b
             ELSE IF x \in B THEN Cardinality(UsersOf(Pipelines[enabled][x])) + a
             ELSE Cardinality(UsersOf(Pipelines[enabled][x]))
    BY <1>2, <1>3, <2>1, LinkBringsUsers
  <2> HIDE DEF A, B, a, b, st
  <2> QED BY <1>1, <2>1, <2>2, <2>3
<1> HIDE DEF A, B, a, b, st
<1> QED BY <1>1, <1>4, <1>5, LinksSet

LEMMA DisableKeepsPower ==
  ASSUME LinkInv, CallInv, PowerInv, NEW l \in Links, DisableLink(l)
  PROVE  PowerInv'
PROOF
<1> DEFINE en == enabled \ {l}
           A == Pipelines[en][l.src]
           B == Pipelines[en][l.snk]
           a == SourceUsers(en, l)
           b == SinkUsers(en, l)
           st == NotifyOff(en, PowerState, l)
<1>1. /\ l \in enabled /\ l \notin Immutable /\ enabled' = en /\ en \cup {l} = enabled
      /\ SetPowerState(st) /\ UNCHANGED <<pc, fh>>
  BY DEF DisableLink, LinkIdle
<1>2. enabled \in Allowed /\ en \in Allowed /\ l.snk \notin A
  BY <1>1, AllowedWithout, BoardGraph DEF LinkInv
<1> HIDE DEF en
<1>3. a \in Nat /\ b \in Nat /\ \A x : Cardinality(UsersOf(Pipelines[en][x])) \in Nat
  BY <1>2, LinkEnds, UsersFinite
<1>4. /\ NodesCounted(PowerState) /\ Steady(PowerState)
      /\ \A x \in Subdevs : x \in Entities /\ PowerState.use[x] = Cardinality(UsersOf(Pipelines[enabled][x]))
  BY UsesAre
<1>5. ASSUME NEW x \in Subdevs
      PROVE  /\ x \in A => x \notin B
             /\ PowerState.use[x] =
                  IF x \in A THEN Cardinality(UsersOf(Pipelines[en][x])) + b
                  ELSE IF x \in B THEN Cardinality(UsersOf(Pipelines[en][x])) + a
                  ELSE Cardinality(UsersOf(Pipelines[en][x]))
  BY <1>1, <1>2, <1>4, LinkBringsUsers
<1>6. /\ \A x \in A \cap Subdevs : PowerState.use[x] >= b
      /\ \A x \in B \cap Subdevs : PowerState.use[x] >= a + (IF x \in A THEN b ELSE 0)
  <2> HIDE DEF A, B, a, b
  <2> QED BY <1>3, <1>5
<1>7. PICK mid : Moved(PowerState, mid, A, -b) /\ Moved(mid, st, B, -a)
  BY <1>2, <1>4, <1>6, NotifyOffMoves
<1> HIDE DEF A, B, a, b, st
<1>8. ASSUME NEW x \in Subdevs PROVE st.use[x] = Cardinality(UsersOf(Pipelines[enabled'][x]))
  <2>1. /\ mid.use[x] = IF x \in A THEN PowerState.use[x] + (-b) ELSE PowerState.use[x]
        /\ st.use[x] = IF x \in B THEN mid.use[x] + (-a) ELSE mid.use[x]
    BY <1>4, <1>7 DEF Moved
  <2> QED BY <1>1, <1>3, <1>5, <2>1
<1> QED BY <1>1, <1>7, <1>8, LinksSet

\* A module that refuses its new link, or an s_power that fails: what the
\* notification did is undone on both sides.
LEMMA RefusedKeepsPower ==
  ASSUME LinkInv, CallInv, PowerInv, NEW l \in Links, EnableRefused(l)
  PROVE  PowerInv'
PROOF
<1> DEFINE A == Pipelines[enabled][l.src]
           B == Pipelines[enabled][l.snk]
           a == SourceUsers(enabled, l)
           b == SinkUsers(enabled, l)
           on == NotifyOn(PowerState, l)
           st == NotifyOff(enabled, on, l)
<1>1. SetPowerState(st) /\ UNCHANGED <<enabled, pc, fh>>
  BY DEF EnableRefused
<1>2. enabled \in Allowed /\ a \in Nat /\ b \in Nat
  BY LinkEnds DEF LinkInv
<1>3. PICK m1 : Moved(PowerState, m1, A, b) /\ Moved(m1, on, B, a)
  BY UsesAre, NotifyOnMoves
<1>4. Steady(on) /\ NodesCounted(on)
  <2>1. NodesCounted(PowerState)
    BY UsesAre
  <2>2. NodesCounted(m1)
    BY <1>3, <2>1, NodesStayCounted
  <2>3. NodesCounted(on)
    BY <1>3, <2>2, NodesStayCounted
  <2> QED BY <1>3, <2>3 DEF Moved
<1>5. \A x \in Entities : PowerState.use[x] \in Int /\ (x \in Subdevs => PowerState.use[x] >= 0)
  BY DEF PowerInv, Steady, PowerStates
<1> HIDE DEF on
<1>6. \A x \in Entities :
        /\ m1.use[x] = IF x \in A \cap Subdevs THEN PowerState.use[x] + b ELSE PowerState.use[x]
        /\ on.use[x] = IF x \in B \cap Subdevs THEN m1.use[x] + a ELSE m1.use[x]
  BY <1>3 DEF Moved
<1>7. /\ \A x \in A \cap Subdevs : on.use[x] >= b
      /\ \A x \in B \cap Subdevs : on.use[x] >= a + (IF x \in A THEN b ELSE 0)
  <2>1. Subdevs \subseteq Entities
    BY DEF Entities
  <2> HIDE DEF A, B, a, b
  <2> QED BY <1>2, <1>5, <1>6, <2>1
<1>8. PICK m2 : Moved(on, m2, A, -b) /\ Moved(m2, st, B, -a)
  BY <1>2, <1>4, <1>7, NotifyOffMoves
<1> HIDE DEF A, B, a, b, st
<1>9. \A x \in Entities :
        /\ m2.use[x] = IF x \in A \cap Subdevs THEN on.use[x] + (-b) ELSE on.use[x]
        /\ st.use[x] = IF x \in B \cap Subdevs THEN m2.use[x] + (-a) ELSE m2.use[x]
  BY <1>8 DEF Moved
<1>10. \A x \in Entities : st.use[x] = PowerState.use[x]
  BY <1>2, <1>5, <1>6, <1>9
<1>11. Moved(PowerState, st, {}, 0)
  BY <1>3, <1>8, <1>10 DEF Moved
<1>12. SameUsers
  BY <1>1 DEF SameUsers, Users
<1> QED BY <1>1, <1>11, <1>12, Restored

LEMMA FailedLinkKeepsPower ==
  ASSUME LinkInv, CallInv, PowerInv, NEW l \in Links, EnableFails(l)
  PROVE  PowerInv'
PROOF
<1> DEFINE A == Pipelines[enabled][l.src]
           a == SourceUsers(enabled, l)
           b == SinkUsers(enabled, l)
           mid == PmPower(enabled, PowerState, l.src, b)
<1>1. /\ UNCHANGED <<enabled, pc, fh>>
      /\ \E st \in NotifyFailures(PowerState, l) : SetPowerState(st)
  BY DEF EnableFails, linkvars
<1>2. PICK st \in NotifyFailures(PowerState, l) : SetPowerState(st)
  BY <1>1
<1>3. /\ enabled \in Allowed /\ l.src \in Entities /\ l.snk \in Entities /\ a \in Nat /\ b \in Nat
      /\ PmUseCount(enabled, PowerState.use, l.src) = a
      /\ PmUseCount(enabled, PowerState.use, l.snk) = b
  BY LinkEnds, UsesAre DEF LinkInv
<1>4. \/ st \in PmPowerFailures(enabled, PowerState, l.src, b)
      \/ \E s \in PmPowerFailures(enabled, mid, l.snk, a) : st = PmPower(enabled, s, l.src, -b)
  BY <1>2, <1>3 DEF NotifyFailures
<1>5. ASSUME st \in PmPowerFailures(enabled, PowerState, l.src, b)
      PROVE  Moved(PowerState, st, {}, 0)
  BY <1>3, <1>5, UsesAre, PmFailureUndone
<1>6. ASSUME NEW s \in PmPowerFailures(enabled, mid, l.snk, a), st = PmPower(enabled, s, l.src, -b)
      PROVE  Moved(PowerState, st, {}, 0)
  <2> HIDE DEF A, a, b, mid
  <2>1. Moved(PowerState, mid, A, b)
    BY UsesAre, NotifyOnMoves DEF A, b, mid
  <2>2. Steady(mid)
    BY <2>1 DEF Moved
  <2>3. Moved(mid, s, {}, 0)
    BY <1>3, <2>2, PmFailureUndone
  <2>4. Moved(PowerState, s, A, b)
    BY <2>1, <2>3 DEF Moved
  <2>5. Steady(s) /\ \A x \in A \cap Subdevs : s.use[x] + (-b) >= 0
    <3>1. \A x \in Subdevs : x \in Entities /\ PowerState.use[x] \in Int /\ PowerState.use[x] >= 0
      BY DEF PowerInv, Steady, PowerStates, Entities
    <3> QED BY <1>3, <2>4, <3>1 DEF Moved
  <2>6. -b \in Int
    BY <1>3
  <2>7. Moved(s, st, A, -b)
    BY <1>3, <1>6, <2>5, <2>6, PmPowerMoves DEF A
  <2>8. b \in Int /\ Steady(PowerState)
    BY <1>3 DEF PowerInv
  <2> QED BY <2>4, <2>7, <2>8, MoveBack
<1>7. Moved(PowerState, st, {}, 0)
  BY <1>4, <1>5, <1>6
<1>8. SameUsers
  BY <1>1 DEF SameUsers, Users
<1> QED BY <1>1, <1>2, <1>7, <1>8, Restored

-----------------------------------------------------------------------------
(* The invariant and what follows from it.                                 *)

LEMMA PowerInit == Init => PowerInv
PROOF
<1> SUFFICES ASSUME Init PROVE PowerInv
  OBVIOUS
<1>1. Steady(PowerState)
  <2>1. /\ PowerState.use = [e \in Entities |-> 0] /\ PowerState.powered = {}
        /\ PowerState.ref = 0 /\ PowerState.reset = FALSE /\ PowerState \in PowerStates
    <3>1. [e \in Entities |-> 0] \in [Entities -> Int]
      OBVIOUS
    <3> DEFINE zero == [e \in Entities |-> 0]
    <3>2. PowerState = [use |-> zero, powered |-> {}, ref |-> 0, reset |-> FALSE]
      BY DEF Init, PowerState
    <3> HIDE DEF zero
    <3>3. /\ PowerState.use = zero /\ PowerState.powered = {}
          /\ PowerState.ref = 0 /\ PowerState.reset = FALSE /\ PowerState \in PowerStates
      BY <3>1, <3>2 DEF PowerStates, zero
    <3> QED BY <3>3 DEF zero
  <2>2. \A e \in Subdevs : PowerState.use[e] = 0
    BY <2>1 DEF Entities
  <2> QED BY <2>1, <2>2 DEF Steady
<1>2. Users = {} /\ Opened = {}
  BY DEF Init, Users, Opened
<1>3. UseCountExact
  <2>1. \A S : {h \in Users : fh[h] \in S} = {} /\ \A n : {h \in Users : fh[h] = n} = {}
    BY <1>2
  <2> QED BY <2>1, FS_EmptySet DEF Init, UseCountExact, Entities
<1>4. Held(PowerState) = 0
  BY ClocksNone DEF Init, Held, PowerState
<1> QED BY <1>1, <1>2, <1>3, <1>4, FS_EmptySet DEF PowerInv

LEMMA PowerStep == LinkInv /\ CallInv /\ PowerInv /\ [Next]_vars => PowerInv'
PROOF
<1> SUFFICES ASSUME LinkInv, CallInv, PowerInv, [Next]_vars PROVE PowerInv'
  OBVIOUS
<1>1. CASE UNCHANGED vars
  <2>1. SameUsers
    BY <1>1 DEF vars, SameUsers, Users
  <2> QED BY <1>1, <2>1, PowerFrame DEF vars, linkvars, powervars
<1>2. ASSUME NEW h \in Handles, NEW n \in Nodes, Open(h, n) PROVE PowerInv'
  BY <1>2, OpenKeepsPower
<1>3. ASSUME NEW h \in Handles, OpenPowers(h) PROVE PowerInv'
  <2>1. /\ pc[h] = "got" /\ pc' = [pc EXCEPT ![h] = "open"] /\ UNCHANGED <<enabled, fh>>
        /\ SetPowerState(PmPower(enabled, CountNode(PowerState, fh[h], 1), fh[h], 1))
    BY <1>3 DEF OpenPowers, Step, linkvars
  <2>2. Users' = Users \cup {h} /\ h \notin Users /\ Opened' = Opened
    BY <2>1 DEF Users, Opened, CallInv
  <2> QED BY <2>1, <2>2, PmUseKeepsPower
<1>4. ASSUME NEW h \in Handles, Release(h) PROVE PowerInv'
  <2>1. /\ pc[h] = "open" /\ pc' = [pc EXCEPT ![h] = "unused"] /\ UNCHANGED <<enabled, fh>>
        /\ SetPowerState(PmPower(enabled, CountNode(PowerState, fh[h], -1), fh[h], -1))
    BY <1>4 DEF Release, Step, linkvars
  <2>2. Users' = Users \ {h} /\ h \in Users /\ Opened' = Opened
    BY <2>1 DEF Users, Opened, CallInv
  <2> QED BY <2>1, <2>2, PmUseKeepsPower
<1>5. ASSUME NEW h \in Handles, OpenFails(h) \/ ReleasePuts(h) PROVE PowerInv'
  BY <1>5, OpenFailsKeepsPower, PutKeepsPower
<1>6. ASSUME NEW h \in Handles,
             Streamon(h) \/ PipelineStart(h) \/ StreamonEnd(h) \/ StreamonError(h)
               \/ Streamoff(h) \/ StreamoffEnd(h)
      PROVE  PowerInv'
  <2>1. /\ pc[h] \in {"open", "streamon", "started", "streaming", "stopping"}
        /\ \E to \in {"open", "streamon", "started", "streaming", "stopping"} : pc' = [pc EXCEPT ![h] = to]
        /\ UNCHANGED <<enabled, fh, use, powered, ref_count>> /\ needs_reset' \in {needs_reset, TRUE}
    BY <1>6 DEF Streamon, PipelineStart, StreamonEnd, StreamonError, Streamoff, StreamoffEnd, Step,
                linkvars, powervars
  <2>2. /\ SameUsers /\ h \in Opened
        /\ \A u \in Handles : pc'[u] = "closed" <=> pc[u] = "closed"
    BY <2>1 DEF SameUsers, Users, Opened, CallInv
  <2> QED BY <2>1, <2>2, PowerFrame
<1>7. ASSUME NEW l \in Links, EnableLink(l) \/ EnableRefused(l) \/ EnableFails(l) \/ DisableLink(l)
      PROVE  PowerInv'
  BY <1>7, EnableKeepsPower, RefusedKeepsPower, FailedLinkKeepsPower, DisableKeepsPower
<1> QED BY <1>1, <1>2, <1>3, <1>4, <1>5, <1>6, <1>7 DEF Next

LEMMA PowerInvariant == Spec => [](LinkInv /\ CallInv /\ PowerInv)
PROOF
  BY LinkInvariant, CallInvariant, PowerInit, PowerStep, PTL DEF Spec

\* The use count of every module is the number of open handles of its pipeline,
\* whatever opens, closes, failures and link changes went before
\* (omap3isp_pipeline_pm_use, isp_pipeline_link_notify).
THEOREM ModulesCountTheirUsers == Spec => []UseCountExact
PROOF
<1>1. PowerInv => UseCountExact
  BY DEF PowerInv
<1> QED BY <1>1, PowerInvariant, PTL

\* A module has power exactly while an open video node is in its pipeline
\* (isp_pipeline_pm_power_one, isp_pipeline_pm_power).
THEOREM ModulesOnWhileUsed == Spec => []PoweredIffUsed
PROOF
<1>1. LinkInv /\ CallInv /\ PowerInv => PoweredIffUsed
  <2> SUFFICES ASSUME LinkInv, CallInv, PowerInv PROVE PoweredIffUsed
    OBVIOUS
  <2>1. powered = {e \in Subdevs : use[e] > 0}
    BY DEF PowerInv, Steady, PowerState
  <2>2. ASSUME NEW e \in Subdevs
        PROVE  use[e] > 0 <=> \E h \in Users : e \in Pipeline(fh[h])
    <3>1. use[e] = Cardinality(UsersOf(Pipeline(e))) /\ e \in Entities
      BY UsesAre DEF Pipeline
    <3>2. use[e] > 0 <=> UsersOf(Pipeline(e)) # {}
      BY <3>1, UsersFinite, FS_EmptySet
    <3>3. ASSUME NEW h \in Users PROVE fh[h] \in Pipeline(e) <=> e \in Pipeline(fh[h])
      <4>1. fh[h] \in Entities /\ enabled \in SUBSET Links
        BY AllowedSubset DEF CallInv, Users, Entities, LinkInv
      <4> QED BY <3>1, <4>1, PipelineSymmetric DEF Pipeline
    <3> QED BY <3>2, <3>3 DEF UsersOf
  <2> QED BY <2>1, <2>2 DEF PoweredIffUsed
<1> QED BY <1>1, PowerInvariant, PTL

\* The references on the ISP are one per open handle and per running sensor
\* clock, so the clocks run while any module has power (omap3isp_get,
\* omap3isp_put, isp_set_xclk).
THEOREM ClocksFollowUsers == Spec => []ClocksCounted
PROOF
<1>1. PowerInv /\ PoweredIffUsed => ClocksCounted
  <2> SUFFICES ASSUME PowerInv, PoweredIffUsed PROVE ClocksCounted
    OBVIOUS
  <2>1. /\ Clocks(powered) \in Nat /\ Cardinality(Opened) \in Nat /\ ref_count \in Int
        /\ ref_count - Clocks(powered) = Cardinality(Opened)
    BY ClocksType, OpenedFinite DEF PowerInv, Held, PowerState, Steady, PowerStates
  <2>2. powered # {} => Opened # {}
    BY DEF PoweredIffUsed, Users, Opened
  <2>3. Opened # {} => Cardinality(Opened) > 0
    BY OpenedFinite, FS_EmptySet
  <2>4. ref_count = Cardinality(Opened) + Clocks(powered) /\ (powered # {} => ref_count > Clocks(powered))
    BY <2>1, <2>2, <2>3
  <2> QED BY <2>4 DEF ClocksCounted, Clocks, Opened
<1> QED BY <1>1, PowerInvariant, ModulesOnWhileUsed, PTL

\* A pending reset of the ISP is done before its last user is gone
\* (isp_pipeline_disable, omap3isp_put).
THEOREM ResetWithLastUser == Spec => []ResetBeforeReuse
PROOF
<1>1. PowerInv => ResetBeforeReuse
  <2> SUFFICES ASSUME PowerInv PROVE ResetBeforeReuse
    OBVIOUS
  <2>1. /\ Clocks(powered) \in Nat /\ Cardinality(Opened) \in Nat /\ ref_count \in Int
        /\ ref_count - Clocks(powered) = Cardinality(Opened) /\ (needs_reset => ref_count # 0)
    BY ClocksType, OpenedFinite DEF PowerInv, Held, PowerState, Steady, PowerStates
  <2> QED BY <2>1 DEF ResetBeforeReuse
<1> QED BY <1>1, PowerInvariant, PTL

=============================================================================
