--------------------------- MODULE IspStatProofs ----------------------------
(***************************************************************************)
(* The safety properties of a statistics module, for any number of clients *)
(* and buffers, and for every size and number of configurations.           *)
(*                                                                         *)
(* copy_to_user and bufs_free run outside stat_lock, next to the interrupt *)
(* handlers.  They are kept from the memory the module writes to by        *)
(* ioctl_lock, by the order of the states of the module, and by            *)
(* buf_processing: the invariant says how these three fit together.        *)
(***************************************************************************)
EXTENDS IspStat, FiniteSetTheorems, WellFoundedInduction, TLAPS

On == state \in {"ENABLED", "DISABLING"}

\* The module does nothing and no interrupt of it is pending.
Quiet == ~en /\ ~busy /\ ~irq /\ ~dma /\ isr = "none"

\* The elements of s, and that they differ.
Ran(s) == {s[i] : i \in DOMAIN s}
Distinct(s) == \A i, j \in DOMAIN s : s[i] = s[j] => i = j

Flags ==
  /\ update \in BOOLEAN /\ sbl_ovl_recover \in BOOLEAN /\ configured \in BOOLEAN
  /\ buf_processing \in BOOLEAN /\ en \in BOOLEAN /\ busy \in BOOLEAN
  /\ skew \in BOOLEAN /\ irq \in BOOLEAN /\ sbl \in BOOLEAN /\ dma \in BOOLEAN
  /\ raced \in BOOLEAN

Places ==
  /\ kind \in Kinds
  /\ state \in {"DISABLED", "DISABLING", "ENABLED", "ENABLING"}
  /\ ioctl_lock \in Threads \cup {None}
  /\ pc \in [Threads -> {"user", "request", "copy", "alloc", "set"}]
  /\ arg \in [Threads -> Sizes]
  /\ spc \in {"off", "on", "disable", "check", "handler", "wait", "crashed"}
  /\ isr \in {"none", "module", "dma"}

Buffers ==
  /\ active_buf \in Bufs \cup {None} /\ locked_buf \in Bufs \cup {None}
  /\ addr \in Bufs \cup {None}
  /\ full \in Seq(Bufs)
  /\ buf_alloc_size \in Sizes /\ psize \in Sizes /\ rsize \in Sizes
  /\ buf_err \in 0 .. 2

Configurations ==
  /\ priv \in Counts /\ config_counter \in Counts /\ inc_config \in Counts
  /\ priv = config_counter + inc_config
  /\ regs \in Counts \cup {Recovery}
  /\ cap \in [cfg : Counts \cup {Recovery}, whole : BOOLEAN, fresh : BOOLEAN]

Types == Flags /\ Places /\ Buffers /\ Configurations

\* What the owner of ioctl_lock may rely on.
LockHeld ==
  /\ \A t \in Threads : pc[t] \in {"copy", "alloc", "set"} <=> ioctl_lock = t
  /\ locked_buf # None <=> \E t \in Threads : pc[t] = "copy"
  /\ \A t \in Threads : pc[t] = "alloc" => state = "DISABLED" /\ ~buf_processing
  /\ \A t \in Threads : pc[t] \in {"alloc", "set"} => priv < MaxConfigs /\ arg[t] > 0
  /\ \A t \in Threads : pc[t] = "set" => arg[t] <= buf_alloc_size

\* A disabled module is quiet, a handler finds it disabled by Enter, and the
\* DMA runs between two handlers.
HandlersExclude ==
  /\ ~On => Quiet
  /\ isr # "none" => On /\ ~en /\ ~irq /\ ~dma /\ buf_processing
  /\ spc = "handler" => Quiet /\ buf_processing
  /\ dma => kind = "hist" /\ ~en /\ ~busy /\ ~irq
  /\ dma /\ ~buf_processing => spc = "wait"
  /\ isr = "dma" => kind = "hist"

\* The buffer the module writes to, and the size of what it writes.
ActiveBuf ==
  /\ Distinct(full)
  /\ On => active_buf # None
  /\ active_buf # None => active_buf \notin Ran(full) /\ active_buf # locked_buf
  /\ kind = "h3a" /\ On => addr = active_buf
  /\ active_buf # None => rsize <= buf_alloc_size /\ buf_alloc_size > 0
  /\ psize > buf_alloc_size =>
       /\ active_buf = None
       /\ buf_alloc_size = 0 \/ (state = "DISABLED" /\ \E t \in Threads : pc[t] = "set")

IndInv == Types /\ LockHeld /\ HandlersExclude /\ ActiveBuf

\* Unless a client races with it, s_stream(0) finds the module on its way to
\* be disabled, and every interrupt is taken.
StopsAlone ==
  /\ spc \in Stopping => state \in {"DISABLED", "DISABLING"}
  /\ spc = "handler" => state = "DISABLING"
  /\ buf_processing /\ isr = "none" => dma \/ spc = "handler"

\* After an overflow: the two frames to ignore are those that the recovery
\* configuration and the wrong place can spoil.
Recovers ==
  /\ sbl => kind = "h3a" /\ busy /\ skew
  /\ sbl_ovl_recover => kind = "h3a" /\ buf_err = 2
  /\ regs \in {config_counter, Recovery}
  /\ regs = Recovery => kind = "h3a" /\ update /\ buf_err >= 1
  /\ kind = "hist" => buf_err <= 1
  /\ dma => ~skew
  /\ skew /\ ~sbl => buf_err = 2 \/ (buf_err = 1 /\ ~busy /\ ~irq /\ isr = "none")

Good == cap.whole /\ cap.cfg = config_counter

\* What has been captured is good, or an error is noted, or the handler is
\* about to see that the module is busy and note one.
CapturedIsGood ==
  /\ en /\ ~busy /\ cap # Nothing => irq
  /\ kind = "h3a" /\ (busy \/ cap.fresh) => Good \/ sbl \/ buf_err >= 1
  /\ kind = "hist" /\ (busy \/ irq \/ isr # "none" \/ dma) =>
       Good \/ buf_err >= 1 \/ (busy /\ (irq \/ isr = "module"))

TrueInv == ~raced => StopsAlone /\ Recovers /\ CapturedIsGood

-----------------------------------------------------------------------------
(* Sequences of buffers.                                                   *)

LEMMA WithoutRemoves ==
  ASSUME NEW s \in Seq(Bufs), Distinct(s), NEW b
  PROVE  /\ Without(s, b) \in Seq(Bufs)
         /\ Distinct(Without(s, b))
         /\ Ran(Without(s, b)) = Ran(s) \ {b}
PROOF
<1>1. CASE ~ \E i \in DOMAIN s : s[i] = b
  BY <1>1 DEF Without, Ran
<1>2. CASE \E i \in DOMAIN s : s[i] = b
  <2> DEFINE k == CHOOSE i \in DOMAIN s : s[i] = b
             w == [i \in 1 .. Len(s) - 1 |-> IF i < k THEN s[i] ELSE s[i + 1]]
  <2>1. k \in 1 .. Len(s) /\ s[k] = b
    BY <1>2
  <2>2. Without(s, b) = w
    BY <1>2 DEF Without
  <2> HIDE DEF k
  <2>3. w \in Seq(Bufs) /\ Len(w) = Len(s) - 1 /\ DOMAIN w = 1 .. Len(s) - 1
    BY <2>1
  <2>4. Distinct(w)
    BY <2>1, <2>3 DEF Distinct
  <2>5. ASSUME NEW x \in Ran(w) PROVE x \in Ran(s) \ {b}
    <3>1. PICK i \in 1 .. Len(s) - 1 : x = w[i]
      BY <2>3 DEF Ran
    <3>2. PICK j \in 1 .. Len(s) : j # k /\ x = s[j]
      BY <3>1, <2>1
    <3> QED BY <3>2, <2>1 DEF Ran, Distinct
  <2>6. ASSUME NEW x \in Ran(s) \ {b} PROVE x \in Ran(w)
    <3>1. PICK j \in 1 .. Len(s) : x = s[j]
      BY DEF Ran
    <3>2. j # k
      BY <3>1, <2>1
    <3>3. CASE j < k
      <4>1. j \in 1 .. Len(s) - 1 /\ w[j] = x
        BY <3>1, <3>3, <2>1
      <4> QED BY <4>1, <2>3 DEF Ran
    <3>4. CASE j > k
      <4>1. j - 1 \in 1 .. Len(s) - 1 /\ w[j - 1] = x
        BY <3>1, <3>4, <2>1
      <4> QED BY <4>1, <2>3 DEF Ran
    <3> QED BY <3>2, <3>3, <3>4, <2>1
  <2> HIDE DEF w
  <2> QED BY <2>2, <2>3, <2>4, <2>5, <2>6
<1> QED BY <1>1, <1>2

LEMMA AppendAdds ==
  ASSUME NEW s \in Seq(Bufs), Distinct(s), NEW b \in Bufs, b \notin Ran(s)
  PROVE  /\ Append(s, b) \in Seq(Bufs)
         /\ Distinct(Append(s, b))
         /\ Ran(Append(s, b)) = Ran(s) \cup {b}
PROOF
<1> DEFINE w == Append(s, b)
<1>1. w \in Seq(Bufs) /\ DOMAIN w = 1 .. Len(s) + 1 /\ DOMAIN s = 1 .. Len(s)
  OBVIOUS
<1>2. w[Len(s) + 1] = b /\ \A i \in 1 .. Len(s) : w[i] = s[i]
  OBVIOUS
<1> HIDE DEF w
<1>3. Distinct(w)
  BY <1>1, <1>2 DEF Distinct, Ran
<1>4. Ran(w) = Ran(s) \cup {b}
  BY <1>1, <1>2 DEF Ran
<1> QED BY <1>1, <1>3, <1>4 DEF w

LEMMA EmptyHolds == <<>> \in Seq(Bufs) /\ Distinct(<<>>) /\ Ran(<<>>) = {}
PROOF
  BY DEF Distinct, Ran

LEMMA OldestIsHeld ==
  ASSUME NEW s \in Seq(Bufs), Distinct(s)
  PROVE  /\ Oldest(s) # None => Oldest(s) \in Bufs /\ Oldest(s) \in Ran(s) \ {locked_buf}
         /\ Oldest(s) = None => Ran(s) \subseteq {locked_buf}
PROOF
<1> DEFINE ready == Without(s, locked_buf)
<1>1. ready \in Seq(Bufs) /\ Ran(ready) = Ran(s) \ {locked_buf}
  BY WithoutRemoves
<1>2. Oldest(s) = IF ready = <<>> THEN None ELSE Head(ready)
  BY DEF Oldest
<1> HIDE DEF ready
<1>3. ready = <<>> => Ran(s) \ {locked_buf} = {}
  BY <1>1, EmptyHolds
<1>4. ready # <<>> => Head(ready) \in Ran(s) \ {locked_buf} /\ Head(ready) \in Bufs
  <2> SUFFICES ASSUME ready # <<>> PROVE Head(ready) \in Ran(ready) /\ Head(ready) \in Bufs
    BY <1>1
  <2>1. 1 \in DOMAIN ready /\ Head(ready) = ready[1] /\ ready[1] \in Bufs
    BY <1>1
  <2> QED BY <2>1 DEF Ran
<1> QED BY <1>2, <1>3, <1>4, StatAssumption DEF Bufs

LEMMA HasMinimum ==
  ASSUME NEW S, S \subseteq Nat, S # {}
  PROVE  \E b \in S : \A c \in S : b <= c
PROOF
<1> DEFINE R == {ss \in Nat \X Nat : ss[1] < ss[2]}
<1>1. IsWellFoundedOn(R, Nat)
  BY NatLessThanWellFounded, Zenon DEF OpToRel
<1>2. \A b, c \in Nat : c < b => <<c, b>> \in R
  OBVIOUS
<1> HIDE DEF R
<1>3. PICK b \in S : \A c \in S : ~(<<c, b>> \in R)
  BY <1>1, WFMin
<1>4. ASSUME NEW c \in S PROVE b <= c
  <2>1. b \in Nat /\ c \in Nat /\ ~(c < b)
    BY <1>2, <1>3
  <2> QED BY <2>1
<1> QED BY <1>4

\* There is always a buffer to write to: MaxBufs is more than one.
LEMMA OldestOrEmptyFinds ==
  ASSUME NEW s \in Seq(Bufs), Distinct(s)
  PROVE  OldestOrEmpty(s) \in Bufs \ {locked_buf}
PROOF
<1> DEFINE empty == Bufs \ ({locked_buf} \cup {s[i] : i \in DOMAIN s})
<1>1. OldestOrEmpty(s) = IF empty # {} THEN CHOOSE b \in empty : \A c \in empty : b <= c
                                      ELSE Oldest(s)
  BY DEF OldestOrEmpty
<1>2. CASE empty # {}
  <2>1. empty \subseteq Nat
    BY StatAssumption DEF Bufs
  <2> HIDE DEF empty
  <2>2. \E b \in empty : \A c \in empty : b <= c
    BY <1>2, <2>1, HasMinimum
  <2>3. OldestOrEmpty(s) \in empty
    BY <1>1, <1>2, <2>2
  <2> QED BY <2>3 DEF empty
<1>3. CASE empty = {}
  <2>1. Bufs \ {locked_buf} \subseteq Ran(s)
    BY <1>3 DEF Ran
  <2>2. \E b \in Bufs : b # locked_buf
    <3>1. 1 \in Bufs /\ 2 \in Bufs
      BY StatAssumption DEF Bufs
    <3> QED BY <3>1
  <2>3. Oldest(s) # None
    BY <2>1, <2>2, OldestIsHeld
  <2>4. Ran(s) \subseteq Bufs
    BY DEF Ran
  <2> QED BY <1>1, <1>3, <2>3, <2>4, OldestIsHeld
<1> QED BY <1>2, <1>3

LEMMA DistinctIsShort ==
  ASSUME NEW s \in Seq(Bufs), Distinct(s)
  PROVE  Len(s) <= MaxBufs
PROOF
<1> SUFFICES ASSUME Len(s) > MaxBufs PROVE FALSE
  BY StatAssumption
<1>1. /\ IsFiniteSet(1 .. Len(s)) /\ Cardinality(1 .. Len(s)) = Len(s)
      /\ IsFiniteSet(Bufs) /\ Cardinality(Bufs) = MaxBufs
  <2>1. 1 \in Int /\ MaxBufs \in Int /\ Len(s) \in Int /\ ~(1 > MaxBufs) /\ ~(1 > Len(s))
    BY StatAssumption
  <2>2. Cardinality(1 .. Len(s)) = Len(s) - 1 + 1 /\ Cardinality(Bufs) = MaxBufs - 1 + 1
    BY <2>1, FS_Interval DEF Bufs
  <2> QED BY <2>1, <2>2, FS_Interval DEF Bufs
<1>2. s \in [1 .. Len(s) -> Bufs]
  OBVIOUS
<1>3. \E x, y \in 1 .. Len(s) : x # y /\ s[x] = s[y]
  BY <1>1, <1>2, FS_PigeonHole
<1> QED BY <1>3 DEF Distinct
-----------------------------------------------------------------------------
(* The inductive invariant.                                                *)

LEMMA InitInv == Init => IndInv
PROOF
<1> SUFFICES ASSUME Init PROVE IndInv
  OBVIOUS
<1> USE StatAssumption DEF Init
<1>1. Types
  <2>1. Flags
    BY DEF Flags
  <2>2. Places
    BY DEF Places, Sizes
  <2>3. Buffers
    BY EmptyHolds DEF Buffers, Sizes
  <2>4. Configurations
    BY DEF Configurations, Counts, Nothing, Recovery
  <2> QED BY <2>1, <2>2, <2>3, <2>4 DEF Types
<1>2. LockHeld
  BY DEF LockHeld
<1>3. HandlersExclude
  BY DEF HandlersExclude, On, Quiet
<1>4. ActiveBuf
  BY EmptyHolds DEF ActiveBuf, On
<1> QED BY <1>1, <1>2, <1>3, <1>4 DEF IndInv

LEMMA RequestInv ==
  ASSUME IndInv, NEW t \in Threads, Request(t)
  PROVE  IndInv'
PROOF
<1> USE StatAssumption DEF Request, Runs, Goes, bvars, cvars, avars,
        evars, uvars, rvars, hwvars, IndInv
<1>1. Types'
  <2>1. Flags'
    BY DEF Types, Flags
  <2>2. Places'
    BY DEF Types, Places, Sizes
  <2>3. Buffers'
    BY DEF Types, Buffers, Bufs, Sizes
  <2>4. Configurations'
    BY DEF Types, Configurations, Counts, Nothing, Recovery
  <2> QED BY <2>1, <2>2, <2>3, <2>4 DEF Types
<1>2. LockHeld'
  BY DEF LockHeld, Types, Flags, Places
<1>3. HandlersExclude'
  BY DEF HandlersExclude, On, Quiet, Types, Flags, Places
<1>4. ActiveBuf'
  BY DEF ActiveBuf, On, Types, Flags, Places, Buffers, LockHeld, HandlersExclude, Quiet, Sizes
<1> QED BY <1>1, <1>2, <1>3, <1>4

LEMMA RequestGetInv ==
  ASSUME IndInv, NEW t \in Threads, RequestGet(t)
  PROVE  IndInv'
PROOF
<1> USE StatAssumption DEF RequestGet, Runs, Goes, bvars, cvars, avars,
        evars, uvars, rvars, hwvars, IndInv
<1>1. Types'
  <2>1. Flags'
    BY DEF Types, Flags
  <2>2. Places'
    BY DEF Types, Places, Sizes
  <2>3. Buffers'
    BY OldestIsHeld DEF Types, Buffers, ActiveBuf
  <2>4. Configurations'
    BY DEF Types, Configurations, Counts, Nothing, Recovery
  <2> QED BY <2>1, <2>2, <2>3, <2>4 DEF Types
<1>2. LockHeld'
  BY OldestIsHeld DEF LockHeld, Types, Flags, Places
<1>3. HandlersExclude'
  BY DEF HandlersExclude, On, Quiet, Types, Flags, Places
<1>4. ActiveBuf'
  BY OldestIsHeld DEF ActiveBuf, On, Types, Flags, Places, Buffers, LockHeld, HandlersExclude, Quiet, Sizes
<1> QED BY <1>1, <1>2, <1>3, <1>4

LEMMA RequestDoneInv ==
  ASSUME IndInv, NEW t \in Threads, RequestDone(t)
  PROVE  IndInv'
PROOF
<1> USE StatAssumption DEF RequestDone, Runs, Goes, bvars, cvars, avars,
        evars, uvars, rvars, hwvars, IndInv
<1>1. Types'
  <2>1. Flags'
    BY DEF Types, Flags
  <2>2. Places'
    BY DEF Types, Places, Sizes
  <2>3. Buffers'
    BY WithoutRemoves DEF Types, Buffers, ActiveBuf
  <2>4. Configurations'
    BY DEF Types, Configurations, Counts, Nothing, Recovery
  <2> QED BY <2>1, <2>2, <2>3, <2>4 DEF Types
<1>2. LockHeld'
  BY WithoutRemoves DEF LockHeld, Types, Flags, Places
<1>3. HandlersExclude'
  BY DEF HandlersExclude, On, Quiet, Types, Flags, Places
<1>4. ActiveBuf'
  BY WithoutRemoves DEF ActiveBuf, On, Types, Flags, Places, Buffers, LockHeld, HandlersExclude, Quiet, Sizes
<1> QED BY <1>1, <1>2, <1>3, <1>4

LEMMA RequestFailsInv ==
  ASSUME IndInv, NEW t \in Threads, RequestFails(t)
  PROVE  IndInv'
PROOF
<1> USE StatAssumption DEF RequestFails, Runs, Goes, bvars, cvars, avars,
        evars, uvars, rvars, hwvars, IndInv
<1>1. Types'
  <2>1. Flags'
    BY DEF Types, Flags
  <2>2. Places'
    BY DEF Types, Places, Sizes
  <2>3. Buffers'
    BY DEF Types, Buffers, Bufs, Sizes
  <2>4. Configurations'
    BY DEF Types, Configurations, Counts, Nothing, Recovery
  <2> QED BY <2>1, <2>2, <2>3, <2>4 DEF Types
<1>2. LockHeld'
  BY DEF LockHeld, Types, Flags, Places
<1>3. HandlersExclude'
  BY DEF HandlersExclude, On, Quiet, Types, Flags, Places
<1>4. ActiveBuf'
  BY DEF ActiveBuf, On, Types, Flags, Places, Buffers, LockHeld, HandlersExclude, Quiet, Sizes
<1> QED BY <1>1, <1>2, <1>3, <1>4

LEMMA ConfigInv ==
  ASSUME IndInv, NEW t \in Threads, NEW size \in 1 .. MaxSize, Config(t, size)
  PROVE  IndInv'
PROOF
<1> USE StatAssumption DEF Config, MayAlloc, Runs, Goes, bvars, cvars, avars,
        evars, uvars, rvars, hwvars, IndInv
<1>1. Types'
  <2>1. Flags'
    BY DEF Types, Flags
  <2>2. Places'
    BY DEF Types, Places, Sizes
  <2>3. Buffers'
    BY DEF Types, Buffers, Bufs, Sizes
  <2>4. Configurations'
    BY DEF Types, Configurations, Counts, Nothing, Recovery
  <2> QED BY <2>1, <2>2, <2>3, <2>4 DEF Types
<1>2. LockHeld'
  BY DEF LockHeld, Types, Flags, Places
<1>3. HandlersExclude'
  BY DEF HandlersExclude, On, Quiet, Types, Flags, Places
<1>4. ActiveBuf'
  BY DEF ActiveBuf, On, Types, Flags, Places, Buffers, LockHeld, HandlersExclude, Quiet, Sizes
<1> QED BY <1>1, <1>2, <1>3, <1>4

LEMMA ConfigAllocInv ==
  ASSUME IndInv, NEW t \in Threads, ConfigAlloc(t)
  PROVE  IndInv'
PROOF
<1> USE StatAssumption DEF ConfigAlloc, FreeBufs, Runs, Goes, bvars, cvars, avars,
        evars, uvars, rvars, hwvars, IndInv
<1>1. Types'
  <2>1. Flags'
    BY DEF Types, Flags
  <2>2. Places'
    BY DEF Types, Places, Sizes
  <2>3. Buffers'
    BY EmptyHolds DEF Types, Buffers, Places
  <2>4. Configurations'
    BY DEF Types, Configurations, Counts, Nothing, Recovery
  <2> QED BY <2>1, <2>2, <2>3, <2>4 DEF Types
<1>2. LockHeld'
  BY EmptyHolds DEF LockHeld, Types, Flags, Places, Sizes
<1>3. HandlersExclude'
  BY DEF HandlersExclude, On, Quiet, Types, Flags, Places
<1>4. ActiveBuf'
  BY EmptyHolds DEF ActiveBuf, On, Types, Flags, Places, Buffers, LockHeld, HandlersExclude, Quiet, Sizes
<1> QED BY <1>1, <1>2, <1>3, <1>4

LEMMA ConfigNoMemoryInv ==
  ASSUME IndInv, NEW t \in Threads, ConfigNoMemory(t)
  PROVE  IndInv'
PROOF
<1> USE StatAssumption DEF ConfigNoMemory, FreeBufs, Runs, Goes, bvars, cvars, avars,
        evars, uvars, rvars, hwvars, IndInv
<1>1. Types'
  <2>1. Flags'
    BY DEF Types, Flags
  <2>2. Places'
    BY DEF Types, Places, Sizes
  <2>3. Buffers'
    BY EmptyHolds DEF Types, Buffers, Bufs, Sizes
  <2>4. Configurations'
    BY DEF Types, Configurations, Counts, Nothing, Recovery
  <2> QED BY <2>1, <2>2, <2>3, <2>4 DEF Types
<1>2. LockHeld'
  BY EmptyHolds DEF LockHeld, Types, Flags, Places
<1>3. HandlersExclude'
  BY DEF HandlersExclude, On, Quiet, Types, Flags, Places
<1>4. ActiveBuf'
  BY EmptyHolds DEF ActiveBuf, On, Types, Flags, Places, Buffers, LockHeld, HandlersExclude, Quiet, Sizes
<1> QED BY <1>1, <1>2, <1>3, <1>4

LEMMA ConfigSetInv ==
  ASSUME IndInv, NEW t \in Threads, ConfigSet(t)
  PROVE  IndInv'
PROOF
<1> USE StatAssumption DEF ConfigSet, Runs, Goes, bvars, cvars, avars,
        evars, uvars, rvars, hwvars, IndInv
<1>1. Types'
  <2>1. Flags'
    BY DEF Types, Flags
  <2>2. Places'
    BY DEF Types, Places, Sizes
  <2>3. Buffers'
    BY DEF Types, Buffers, Places
  <2>4. Configurations'
    BY DEF Types, Configurations, Counts, Recovery, LockHeld
  <2> QED BY <2>1, <2>2, <2>3, <2>4 DEF Types
<1>2. LockHeld'
  BY DEF LockHeld, Types, Flags, Places
<1>3. HandlersExclude'
  BY DEF HandlersExclude, On, Quiet, Types, Flags, Places
<1>4. ActiveBuf'
  BY DEF ActiveBuf, On, Types, Flags, Places, Buffers, LockHeld, HandlersExclude, Quiet, Sizes
<1> QED BY <1>1, <1>2, <1>3, <1>4

LEMMA EnableInv ==
  ASSUME IndInv, NEW t \in Threads, Enable(t)
  PROVE  IndInv'
PROOF
<1> USE StatAssumption DEF Enable, Runs, Goes, bvars, cvars, avars,
        evars, uvars, rvars, hwvars, IndInv
<1>1. Types'
  <2>1. Flags'
    BY DEF Types, Flags
  <2>2. Places'
    BY DEF Types, Places, Sizes
  <2>3. Buffers'
    BY DEF Types, Buffers, Bufs, Sizes
  <2>4. Configurations'
    BY DEF Types, Configurations, Counts, Nothing, Recovery
  <2> QED BY <2>1, <2>2, <2>3, <2>4 DEF Types
<1>2. LockHeld'
  BY DEF LockHeld, Types, Flags, Places
<1>3. HandlersExclude'
  BY DEF HandlersExclude, On, Quiet, Types, Flags, Places
<1>4. ActiveBuf'
  BY DEF ActiveBuf, On, Types, Flags, Places, Buffers, LockHeld, HandlersExclude, Quiet, Sizes
<1> QED BY <1>1, <1>2, <1>3, <1>4

LEMMA DisableInv ==
  ASSUME IndInv, NEW t \in Threads, Disable(t)
  PROVE  IndInv'
PROOF
<1> USE StatAssumption DEF Disable, DisableIt, Runs, Goes, bvars, cvars, avars,
        evars, uvars, rvars, hwvars, IndInv
<1>1. Types'
  <2>1. Flags'
    BY DEF Types, Flags
  <2>2. Places'
    BY DEF Types, Places, Sizes
  <2>3. Buffers'
    BY EmptyHolds DEF Types, Buffers, Bufs, Sizes
  <2>4. Configurations'
    BY DEF Types, Configurations, Counts, Nothing, Recovery
  <2> QED BY <2>1, <2>2, <2>3, <2>4 DEF Types
<1>2. LockHeld'
  BY EmptyHolds DEF LockHeld, Types, Flags, Places
<1>3. HandlersExclude'
  BY DEF HandlersExclude, On, Quiet, Types, Flags, Places
<1>4. ActiveBuf'
  BY EmptyHolds DEF ActiveBuf, On, Types, Flags, Places, Buffers, LockHeld, HandlersExclude, Quiet, Sizes
<1> QED BY <1>1, <1>2, <1>3, <1>4

LEMMA SblOverflowIsrInv ==
  ASSUME IndInv, SblOverflowIsr
  PROVE  IndInv'
PROOF
<1> USE StatAssumption DEF SblOverflowIsr, Ignored, bvars, cvars, avars,
        evars, uvars, rvars, hwvars, IndInv
<1>1. Types'
  <2>1. Flags'
    BY DEF Types, Flags
  <2>2. Places'
    BY DEF Types, Places, Sizes
  <2>3. Buffers'
    BY DEF Types, Buffers, Bufs, Sizes
  <2>4. Configurations'
    BY DEF Types, Configurations, Counts, Nothing, Recovery
  <2> QED BY <2>1, <2>2, <2>3, <2>4 DEF Types
<1>2. LockHeld'
  BY DEF LockHeld, Types, Flags, Places
<1>3. HandlersExclude'
  BY DEF HandlersExclude, On, Quiet, Types, Flags, Places
<1>4. ActiveBuf'
  BY DEF ActiveBuf, On, Types, Flags, Places, Buffers, LockHeld, HandlersExclude, Quiet, Sizes
<1> QED BY <1>1, <1>2, <1>3, <1>4

LEMMA StatIsrInv ==
  ASSUME IndInv, StatIsr
  PROVE  IndInv'
PROOF
<1> USE StatAssumption DEF StatIsr, Enter, EnterContinues, bvars, cvars, avars,
        evars, uvars, rvars, hwvars, IndInv
<1>1. Types'
  <2>1. Flags'
    BY DEF Types, Flags
  <2>2. Places'
    BY DEF Types, Places, Sizes
  <2>3. Buffers'
    BY DEF Types, Buffers, Bufs, Sizes
  <2>4. Configurations'
    BY DEF Types, Configurations, Counts, Nothing, Recovery
  <2> QED BY <2>1, <2>2, <2>3, <2>4 DEF Types
<1>2. LockHeld'
  BY DEF LockHeld, Types, Flags, Places
<1>3. HandlersExclude'
  BY DEF HandlersExclude, On, Quiet, Types, Flags, Places
<1>4. ActiveBuf'
  BY DEF ActiveBuf, On, Types, Flags, Places, Buffers, LockHeld, HandlersExclude, Quiet, Sizes
<1> QED BY <1>1, <1>2, <1>3, <1>4

LEMMA DmaIsrInv ==
  ASSUME IndInv, DmaIsr
  PROVE  IndInv'
PROOF
<1> USE StatAssumption DEF DmaIsr, Enter, EnterContinues, bvars, cvars, avars,
        evars, uvars, rvars, hwvars, IndInv
<1>1. Types'
  <2>1. Flags'
    BY DEF Types, Flags
  <2>2. Places'
    BY DEF Types, Places, Sizes
  <2>3. Buffers'
    BY DEF Types, Buffers, Bufs, Sizes
  <2>4. Configurations'
    BY DEF Types, Configurations, Counts, Nothing, Recovery
  <2> QED BY <2>1, <2>2, <2>3, <2>4 DEF Types
<1>2. LockHeld'
  BY DEF LockHeld, Types, Flags, Places
<1>3. HandlersExclude'
  BY DEF HandlersExclude, On, Quiet, Types, Flags, Places
<1>4. ActiveBuf'
  BY DEF ActiveBuf, On, Types, Flags, Places, Buffers, LockHeld, HandlersExclude, Quiet, Sizes
<1> QED BY <1>1, <1>2, <1>3, <1>4

LEMMA StreamStopInv ==
  ASSUME IndInv, StreamStop
  PROVE  IndInv'
PROOF
<1> USE StatAssumption DEF StreamStop, DisableIt, Pipeline, bvars, cvars, avars,
        evars, uvars, rvars, hwvars, IndInv
<1>1. Types'
  <2>1. Flags'
    BY DEF Types, Flags
  <2>2. Places'
    BY DEF Types, Places, Sizes
  <2>3. Buffers'
    BY EmptyHolds DEF Types, Buffers, Bufs, Sizes
  <2>4. Configurations'
    BY DEF Types, Configurations, Counts, Nothing, Recovery
  <2> QED BY <2>1, <2>2, <2>3, <2>4 DEF Types
<1>2. LockHeld'
  BY EmptyHolds DEF LockHeld, Types, Flags, Places
<1>3. HandlersExclude'
  BY DEF HandlersExclude, On, Quiet, Types, Flags, Places
<1>4. ActiveBuf'
  BY EmptyHolds DEF ActiveBuf, On, Types, Flags, Places, Buffers, LockHeld, HandlersExclude, Quiet, Sizes
<1> QED BY <1>1, <1>2, <1>3, <1>4

LEMMA StreamStopModuleInv ==
  ASSUME IndInv, StreamStopModule
  PROVE  IndInv'
PROOF
<1> USE StatAssumption DEF StreamStopModule, Pipeline, bvars, cvars, avars,
        evars, uvars, rvars, hwvars, IndInv
<1>1. Types'
  <2>1. Flags'
    BY DEF Types, Flags
  <2>2. Places'
    BY DEF Types, Places, Sizes
  <2>3. Buffers'
    BY DEF Types, Buffers, Bufs, Sizes
  <2>4. Configurations'
    BY DEF Types, Configurations, Counts, Nothing, Recovery
  <2> QED BY <2>1, <2>2, <2>3, <2>4 DEF Types
<1>2. LockHeld'
  BY DEF LockHeld, Types, Flags, Places
<1>3. HandlersExclude'
  BY DEF HandlersExclude, On, Quiet, Types, Flags, Places
<1>4. ActiveBuf'
  BY DEF ActiveBuf, On, Types, Flags, Places, Buffers, LockHeld, HandlersExclude, Quiet, Sizes
<1> QED BY <1>1, <1>2, <1>3, <1>4

LEMMA StreamStopCheckInv ==
  ASSUME IndInv, StreamStopCheck
  PROVE  IndInv'
PROOF
<1> USE StatAssumption DEF StreamStopCheck, Enter, EnterContinues, Pipeline, bvars, cvars, avars,
        evars, uvars, rvars, hwvars, IndInv
<1>1. Types'
  <2>1. Flags'
    BY DEF Types, Flags
  <2>2. Places'
    BY DEF Types, Places, Sizes
  <2>3. Buffers'
    BY DEF Types, Buffers, Bufs, Sizes
  <2>4. Configurations'
    BY DEF Types, Configurations, Counts, Nothing, Recovery
  <2> QED BY <2>1, <2>2, <2>3, <2>4 DEF Types
<1>2. LockHeld'
  BY DEF LockHeld, Types, Flags, Places
<1>3. HandlersExclude'
  BY DEF HandlersExclude, On, Quiet, Types, Flags, Places
<1>4. ActiveBuf'
  BY DEF ActiveBuf, On, Types, Flags, Places, Buffers, LockHeld, HandlersExclude, Quiet, Sizes
<1> QED BY <1>1, <1>2, <1>3, <1>4

LEMMA StreamStopCrashInv ==
  ASSUME IndInv, StreamStopCrash
  PROVE  IndInv'
PROOF
<1> USE StatAssumption DEF StreamStopCrash, Pipeline, bvars, cvars, avars,
        evars, uvars, rvars, hwvars, IndInv
<1>1. Types'
  <2>1. Flags'
    BY DEF Types, Flags
  <2>2. Places'
    BY DEF Types, Places, Sizes
  <2>3. Buffers'
    BY DEF Types, Buffers, Bufs, Sizes
  <2>4. Configurations'
    BY DEF Types, Configurations, Counts, Nothing, Recovery
  <2> QED BY <2>1, <2>2, <2>3, <2>4 DEF Types
<1>2. LockHeld'
  BY DEF LockHeld, Types, Flags, Places
<1>3. HandlersExclude'
  BY DEF HandlersExclude, On, Quiet, Types, Flags, Places
<1>4. ActiveBuf'
  BY DEF ActiveBuf, On, Types, Flags, Places, Buffers, LockHeld, HandlersExclude, Quiet, Sizes
<1> QED BY <1>1, <1>2, <1>3, <1>4

LEMMA StreamStoppedInv ==
  ASSUME IndInv, StreamStopped
  PROVE  IndInv'
PROOF
<1> USE StatAssumption DEF StreamStopped, Pipeline, bvars, cvars, avars,
        evars, uvars, rvars, hwvars, IndInv
<1>1. Types'
  <2>1. Flags'
    BY DEF Types, Flags
  <2>2. Places'
    BY DEF Types, Places, Sizes
  <2>3. Buffers'
    BY DEF Types, Buffers, Bufs, Sizes
  <2>4. Configurations'
    BY DEF Types, Configurations, Counts, Nothing, Recovery
  <2> QED BY <2>1, <2>2, <2>3, <2>4 DEF Types
<1>2. LockHeld'
  BY DEF LockHeld, Types, Flags, Places
<1>3. HandlersExclude'
  BY DEF HandlersExclude, On, Quiet, Types, Flags, Places
<1>4. ActiveBuf'
  BY DEF ActiveBuf, On, Types, Flags, Places, Buffers, LockHeld, HandlersExclude, Quiet, Sizes
<1> QED BY <1>1, <1>2, <1>3, <1>4

LEMMA FrameStartInv ==
  ASSUME IndInv, FrameStart
  PROVE  IndInv'
PROOF
<1> USE StatAssumption DEF FrameStart, bvars, cvars, avars,
        evars, uvars, rvars, hwvars, IndInv
<1>1. Types'
  <2>1. Flags'
    BY DEF Types, Flags
  <2>2. Places'
    BY DEF Types, Places, Sizes
  <2>3. Buffers'
    BY DEF Types, Buffers, Bufs, Sizes
  <2>4. Configurations'
    BY DEF Types, Configurations, Counts, Nothing, Recovery
  <2> QED BY <2>1, <2>2, <2>3, <2>4 DEF Types
<1>2. LockHeld'
  BY DEF LockHeld, Types, Flags, Places
<1>3. HandlersExclude'
  BY DEF HandlersExclude, On, Quiet, Types, Flags, Places
<1>4. ActiveBuf'
  BY DEF ActiveBuf, On, Types, Flags, Places, Buffers, LockHeld, HandlersExclude, Quiet, Sizes
<1> QED BY <1>1, <1>2, <1>3, <1>4

LEMMA FrameEndInv ==
  ASSUME IndInv, FrameEnd
  PROVE  IndInv'
PROOF
<1> USE StatAssumption DEF FrameEnd, bvars, cvars, avars,
        evars, uvars, rvars, hwvars, IndInv
<1>1. Types'
  <2>1. Flags'
    BY DEF Types, Flags
  <2>2. Places'
    BY DEF Types, Places, Sizes
  <2>3. Buffers'
    BY DEF Types, Buffers, Bufs, Sizes
  <2>4. Configurations'
    BY DEF Types, Configurations, Counts, Nothing, Recovery
  <2> QED BY <2>1, <2>2, <2>3, <2>4 DEF Types
<1>2. LockHeld'
  BY DEF LockHeld, Types, Flags, Places
<1>3. HandlersExclude'
  BY DEF HandlersExclude, On, Quiet, Types, Flags, Places
<1>4. ActiveBuf'
  BY DEF ActiveBuf, On, Types, Flags, Places, Buffers, LockHeld, HandlersExclude, Quiet, Sizes
<1> QED BY <1>1, <1>2, <1>3, <1>4

LEMMA SblOverflowInv ==
  ASSUME IndInv, SblOverflow
  PROVE  IndInv'
PROOF
<1> USE StatAssumption DEF SblOverflow, bvars, cvars, avars,
        evars, uvars, rvars, hwvars, IndInv
<1>1. Types'
  <2>1. Flags'
    BY DEF Types, Flags
  <2>2. Places'
    BY DEF Types, Places, Sizes
  <2>3. Buffers'
    BY DEF Types, Buffers, Bufs, Sizes
  <2>4. Configurations'
    BY DEF Types, Configurations, Counts, Nothing, Recovery
  <2> QED BY <2>1, <2>2, <2>3, <2>4 DEF Types
<1>2. LockHeld'
  BY DEF LockHeld, Types, Flags, Places
<1>3. HandlersExclude'
  BY DEF HandlersExclude, On, Quiet, Types, Flags, Places
<1>4. ActiveBuf'
  BY DEF ActiveBuf, On, Types, Flags, Places, Buffers, LockHeld, HandlersExclude, Quiet, Sizes
<1> QED BY <1>1, <1>2, <1>3, <1>4

-----------------------------------------------------------------------------
(* The steps that choose a buffer.                                         *)

\* isp_stat_try_enable, in an interrupt or at the start of the stream.
LEMMA TryEnableInv ==
  ASSUME IndInv, TryEnable,
         UNCHANGED <<kind, avars, uvars, raced, buf_processing, isr, busy, irq, sbl, dma>>,
         spc' = spc \/ (spc = "off" /\ spc' = "on")
  PROVE  IndInv'
PROOF
<1> USE StatAssumption DEF TryEnable, bvars, cvars, avars, evars, uvars, rvars, IndInv
<1> DEFINE Taken == state = "ENABLING" /\ ~buf_processing /\ buf_alloc_size > 0
           buf == IF active_buf = None THEN OldestOrEmpty(full) ELSE active_buf
<1>1. CASE ~Taken
  <2> USE <1>1
  <2>1. Types'
    <3>1. Flags'
      BY DEF Types, Flags
    <3>2. Places'
      BY DEF Types, Places
    <3>3. Buffers' /\ Configurations'
      BY DEF Types, Buffers, Configurations
    <3> QED BY <3>1, <3>2, <3>3 DEF Types
  <2>2. LockHeld'
    BY DEF LockHeld
  <2>3. HandlersExclude'
    BY DEF HandlersExclude, On, Quiet
  <2>4. ActiveBuf'
    BY DEF ActiveBuf, On
  <2> QED BY <2>1, <2>2, <2>3, <2>4
<1>2. CASE Taken
  <2>1. /\ buf \in Bufs \ {locked_buf}
        /\ Without(full, buf) \in Seq(Bufs)
        /\ Distinct(Without(full, buf))
        /\ Ran(Without(full, buf)) = Ran(full) \ {buf}
    <3>1. full \in Seq(Bufs) /\ Distinct(full)
      BY DEF Types, Buffers, ActiveBuf
    <3>2. OldestOrEmpty(full) \in Bufs \ {locked_buf}
      BY <3>1, OldestOrEmptyFinds
    <3>3. buf \in Bufs \ {locked_buf}
      BY <3>2 DEF Types, Buffers, ActiveBuf
    <3> HIDE DEF buf
    <3> QED BY <3>1, <3>3, WithoutRemoves
  <2>2. /\ active_buf' = buf /\ full' = Without(full, buf)
        /\ state = "ENABLING" /\ state' = "ENABLED" /\ en' = TRUE
        /\ ~buf_processing /\ buf_alloc_size > 0
        /\ psize' = psize /\ rsize' = psize /\ addr' = IF kind = "h3a" THEN buf ELSE addr
    BY <1>2 DEF SetupRegs, Recovery, Types, Configurations, Counts
  <2>3. /\ cap' = Nothing /\ update' = FALSE /\ skew' = (kind = "h3a" /\ skew)
        /\ buf_err' = IF kind = "h3a" THEN buf_err ELSE 0
        /\ priv' = priv /\ regs' = priv
        /\ config_counter' = config_counter + inc_config /\ inc_config' = 0
        /\ sbl_ovl_recover' = sbl_ovl_recover
    BY <1>2 DEF SetupRegs
  <2> HIDE DEF buf
  <2>4. Types'
    <3>1. Flags'
      BY <2>2, <2>3 DEF Types, Flags
    <3>2. Places'
      BY <2>2 DEF Types, Places
    <3>3. Buffers'
      BY <2>1, <2>2, <2>3 DEF Types, Buffers
    <3>4. Configurations'
      BY <2>3 DEF Types, Configurations, Counts, Nothing, Recovery
    <3> QED BY <3>1, <3>2, <3>3, <3>4 DEF Types
  <2>5. LockHeld'
    BY <2>2, <2>3 DEF LockHeld
  <2>6. HandlersExclude'
    BY <2>2 DEF HandlersExclude, On, Quiet
  <2>7. psize <= buf_alloc_size
    BY <2>2 DEF ActiveBuf, Types, Buffers, Sizes
  <2>8. ActiveBuf'
    BY <2>1, <2>2, <2>7 DEF ActiveBuf, On, Types, Buffers, Sizes, Bufs
  <2> QED BY <2>4, <2>5, <2>6, <2>8
<1> QED BY <1>1, <1>2

LEMMA FrameSyncInv ==
  ASSUME IndInv, FrameSync
  PROVE  IndInv'
PROOF
  BY TryEnableInv DEF FrameSync

LEMMA StreamStartInv ==
  ASSUME IndInv, StreamStart
  PROVE  IndInv'
PROOF
  BY TryEnableInv DEF StreamStart, Pipeline

\* The handler has a buffer to give to the module, and always had one.
LEMMA NextBufIsFree ==
  ASSUME IndInv, NEW fd \in BOOLEAN, NextBuf(fd) # None
  PROVE  /\ active_buf # None
         /\ NextBuf(fd) \in Bufs \ {locked_buf}
         /\ Without(HeldAfter(fd), NextBuf(fd)) \in Seq(Bufs)
         /\ Distinct(Without(HeldAfter(fd), NextBuf(fd)))
         /\ NextBuf(fd) \notin Ran(Without(HeldAfter(fd), NextBuf(fd)))
         /\ ~Queues(fd) => Ran(Without(HeldAfter(fd), NextBuf(fd))) \subseteq Ran(full)
PROOF
<1> USE StatAssumption DEF IndInv
<1>1. active_buf # None
  BY DEF NextBuf, Queues, Takes, ActiveBuf, On
<1>2. full \in Seq(Bufs) /\ Distinct(full) /\ active_buf \in Bufs \ {locked_buf}
  BY <1>1 DEF Types, Buffers, ActiveBuf
<1>3. /\ HeldAfter(fd) \in Seq(Bufs) /\ Distinct(HeldAfter(fd))
      /\ ~Queues(fd) => HeldAfter(fd) = full
  BY <1>1, <1>2, AppendAdds DEF HeldAfter, ActiveBuf
<1>4. NextBuf(fd) \in Bufs \ {locked_buf}
  BY <1>2, <1>3, OldestOrEmptyFinds DEF NextBuf
<1> QED BY <1>1, <1>3, <1>4, WithoutRemoves

\* Only after a DMA can the handler find that it is late.
LEMMA LateOrNot ==
  ASSUME NEW fd \in BOOLEAN, FinishBuffer(fd)
  PROVE  /\ skew' \in BOOLEAN
         /\ \/ buf_err' = ErrAfter /\ (skew' <=> skew)
            \/ fd /\ skew' /\ buf_err' = 1
PROOF
<1>1. PICK late \in {FALSE, fd} : /\ buf_err' = IF late THEN 1 ELSE ErrAfter
                                 /\ skew' = (skew \/ late)
  BY Zenon DEF FinishBuffer
<1>2. CASE late
  BY <1>1, <1>2
<1>3. CASE ~late
  BY <1>1, <1>3
<1> QED BY <1>2, <1>3

\* The second half of the handler, in an interrupt or called by s_stream(0).
LEMMA FinishInv ==
  ASSUME IndInv, NEW fd \in BOOLEAN, fd = (isr = "dma"), Finish(fd),
         UNCHANGED <<kind, avars, raced, uvars, busy, irq, sbl>>,
         isr' = "none",
         (isr # "none" /\ spc' = spc) \/ (spc = "handler" /\ spc' = "wait")
  PROVE  IndInv'
PROOF
<1> USE StatAssumption DEF bvars, cvars, avars, evars, uvars, rvars, IndInv
<1>1. CASE FinishDma(fd)
  <2> USE <1>1 DEF FinishDma
  <2>1. Types'
    <3>1. Flags'
      BY DEF Types, Flags
    <3>2. Places'
      BY DEF Types, Places
    <3>3. Buffers' /\ Configurations'
      BY DEF Types, Buffers, Configurations
    <3> QED BY <3>1, <3>2, <3>3 DEF Types
  <2>2. LockHeld'
    BY DEF LockHeld
  <2>3. HandlersExclude'
    BY DEF HandlersExclude, On, Quiet, StartsDma
  <2>4. ActiveBuf'
    BY DEF ActiveBuf, On
  <2> QED BY <2>1, <2>2, <2>3, <2>4
<1>2. CASE FinishDisable(fd)
  <2> USE <1>2 DEF FinishDisable
  <2>1. Types'
    <3>1. Flags'
      BY DEF Types, Flags
    <3>2. Places'
      BY DEF Types, Places
    <3>3. Buffers'
      BY DEF Types, Buffers
    <3>4. Configurations'
      BY DEF Types, Configurations, Counts, Nothing
    <3> QED BY <3>1, <3>2, <3>3, <3>4 DEF Types
  <2>2. LockHeld'
    BY DEF LockHeld
  <2>3. HandlersExclude'
    BY DEF HandlersExclude, On, Quiet
  <2>4. ActiveBuf'
    BY DEF ActiveBuf, On, Types, Buffers, Sizes
  <2> QED BY <2>1, <2>2, <2>3, <2>4
<1>3. CASE FinishBuffer(fd)
  <2>1. NextBuf(fd) # None
    BY <1>3 DEF FinishBuffer
  <2> DEFINE buf == NextBuf(fd)
             s == Without(HeldAfter(fd), NextBuf(fd))
  <2>2. /\ active_buf # None /\ buf \in Bufs \ {locked_buf}
        /\ s \in Seq(Bufs) /\ Distinct(s) /\ buf \notin Ran(s)
    BY <2>1, NextBufIsFree
  <2>3. /\ ~busy /\ state # "DISABLING"
        /\ active_buf' = buf /\ full' = s
        /\ sbl_ovl_recover' = FALSE /\ cap' = Nothing
        /\ en' = (en \/ Reenabled)
        /\ state' = IF Reenabled THEN "ENABLED" ELSE state
        /\ buf_processing' = FALSE /\ dma' = dma
    BY <1>3, Zenon DEF FinishBuffer
  <2>a. skew' \in BOOLEAN /\ buf_err' \in {1, ErrAfter}
    BY <1>3, LateOrNot
  <2>4. \/ state = "DISABLED" /\ UNCHANGED <<cvars, rvars>>
        \/ /\ state # "DISABLED"
           /\ SetupRegs(IF sbl_ovl_recover THEN Recovery ELSE priv,
                        update \/ sbl_ovl_recover, buf)
           /\ update' = sbl_ovl_recover
    BY <1>3 DEF FinishBuffer
  <2> HIDE DEF buf, s
  <2>5. /\ rsize' \in {rsize, 0, psize} /\ psize' = psize /\ priv' = priv
        /\ state # "DISABLED" /\ kind = "h3a" => addr' = buf
        /\ addr' \in {addr, buf}
    BY <2>4 DEF SetupRegs
  <2>6. psize <= buf_alloc_size /\ rsize <= buf_alloc_size
    BY <2>2 DEF ActiveBuf, Types, Buffers, Sizes
  <2>7. Types'
    <3>1. Flags'
      BY <2>3, <2>4, <2>a DEF Types, Flags
    <3>2. Places'
      BY <2>3 DEF Types, Places
    <3>3. Buffers'
      BY <2>2, <2>3, <2>5, <2>a DEF Types, Buffers, ErrAfter, Sizes
    <3>4. Configurations'
      BY <2>3, <2>4 DEF Types, Configurations, Counts, Nothing, Recovery, SetupRegs
    <3> QED BY <3>1, <3>2, <3>3, <3>4 DEF Types
  <2>8. LockHeld'
    BY <2>3, <2>5 DEF LockHeld, Reenabled
  <2>9. HandlersExclude'
    BY <2>3 DEF HandlersExclude, On, Quiet, Reenabled, Types, Places
  <2>10. ActiveBuf'
    BY <2>2, <2>3, <2>5, <2>6 DEF ActiveBuf, On, Reenabled, Types, Buffers, Places,
                                        Sizes, Bufs
  <2> QED BY <2>7, <2>8, <2>9, <2>10
<1>4. CASE FinishBusy(fd)
  <2> USE <1>4 DEF FinishBusy
  <2>1. Types'
    <3>1. Flags'
      BY DEF Types, Flags
    <3>2. Places'
      BY DEF Types, Places
    <3>3. Buffers'
      BY DEF Types, Buffers
    <3>4. Configurations'
      BY DEF Types, Configurations
    <3> QED BY <3>1, <3>2, <3>3, <3>4 DEF Types
  <2>2. LockHeld'
    BY DEF LockHeld
  <2>3. HandlersExclude'
    BY DEF HandlersExclude, On, Quiet
  <2>4. ActiveBuf'
    BY DEF ActiveBuf, On
  <2> QED BY <2>1, <2>2, <2>3, <2>4
<1> QED BY <1>1, <1>2, <1>3, <1>4 DEF Finish

LEMMA IsrFinishInv ==
  ASSUME IndInv, IsrFinish
  PROVE  IndInv'
PROOF
  BY FinishInv DEF IsrFinish

LEMMA StreamStopHandlerInv ==
  ASSUME IndInv, StreamStopHandler
  PROVE  IndInv'
PROOF
  BY FinishInv DEF StreamStopHandler, Pipeline

\* Every step preserves the invariant.
LEMMA NextInv ==
  ASSUME IndInv, [Next]_vars
  PROVE  IndInv'
PROOF
<1>1. CASE UNCHANGED vars
  <2> USE <1>1 DEF vars, bvars, cvars, avars, evars, uvars, rvars, hwvars, IndInv
  <2>1. Types'
    <3>1. Flags'
      BY DEF Types, Flags
    <3>2. Places' /\ Buffers' /\ Configurations'
      BY DEF Types, Places, Buffers, Configurations
    <3> QED BY <3>1, <3>2 DEF Types
  <2>2. LockHeld'
    BY DEF LockHeld
  <2>3. HandlersExclude'
    BY DEF HandlersExclude, On, Quiet
  <2>4. ActiveBuf'
    BY DEF ActiveBuf, On
  <2> QED BY <2>1, <2>2, <2>3, <2>4
<1>2. CASE \E t \in Threads : Client(t)
  <2>1. PICK t \in Threads : Client(t)
    BY <1>2
  <2> QED BY <2>1, RequestInv, RequestGetInv, RequestDoneInv, RequestFailsInv, ConfigInv,
            ConfigAllocInv, ConfigNoMemoryInv, ConfigSetInv, EnableInv, DisableInv DEF Client
<1>3. CASE Handlers
  BY <1>3, SblOverflowIsrInv, StatIsrInv, DmaIsrInv, IsrFinishInv, FrameSyncInv DEF Handlers
<1>4. CASE StreamStart \/ StreamStop \/ StopGoesOn
  BY <1>4, StreamStartInv, StreamStopInv, StreamStopModuleInv, StreamStopCheckInv,
     StreamStopHandlerInv, StreamStopCrashInv, StreamStoppedInv DEF StopGoesOn
<1>5. CASE FrameStart \/ FrameEnd \/ SblOverflow
  BY <1>5, FrameStartInv, FrameEndInv, SblOverflowInv
<1> QED BY <1>1, <1>2, <1>3, <1>4, <1>5 DEF Next

LEMMA Invariance == Spec => []IndInv
PROOF
<1>1. IndInv /\ [Next]_vars => IndInv'
  BY NextInv
<1> QED BY <1>1, InitInv, PTL DEF Spec

-----------------------------------------------------------------------------
(* What the invariant gives.                                               *)

\* Every variable keeps its type, for any number of clients and buffers: the
\* sequence of the buffers that wait for clients never outgrows the buffers,
\* buf_err stays between 0 and 2, and every change of the configuration is
\* counted once.
THEOREM TypeCorrect == Spec => []TypeOK
PROOF
<1>1. IndInv => TypeOK
  <2> SUFFICES ASSUME IndInv PROVE TypeOK
    OBVIOUS
  <2>1. Len(full) <= MaxBufs
    BY DistinctIsShort DEF IndInv, Types, Buffers, ActiveBuf
  <2>2. {update, sbl_ovl_recover, configured, buf_processing,
         en, busy, skew, irq, sbl, dma, raced} \subseteq BOOLEAN
    BY DEF IndInv, Types, Flags
  <2> QED BY <2>1, <2>2 DEF TypeOK, IndInv, Types, Places, Buffers, Configurations
<1> QED BY <1>1, Invariance, PTL

\* Whatever writes to memory, and the handler entered for it, use an active
\* buffer that exists, is not being copied to a client, holds no statistics a
\* client may ask for, and is large enough for the configuration in the
\* registers: for any number of clients in copy_to_user and bufs_free next to
\* the interrupt handlers of either kind of module.
THEOREM WritesToActiveBuffer == Spec => []HwTargetsActive
PROOF
<1>1. IndInv => HwTargetsActive
  <2> SUFFICES ASSUME IndInv, isr # "none" \/ dma \/ (kind = "h3a" /\ busy)
               PROVE  /\ active_buf \in Bufs \ (Held \cup {locked_buf})
                      /\ kind = "h3a" => addr = active_buf
                      /\ rsize <= buf_alloc_size
    BY DEF HwTargetsActive
  <2>1. On
    BY DEF IndInv, HandlersExclude, Quiet
  <2> QED BY <2>1 DEF IndInv, Types, Buffers, ActiveBuf, Held, Ran
<1> QED BY <1>1, Invariance, PTL

-----------------------------------------------------------------------------
(* Statistics are true.                                                    *)

LEMMA InitTrue == Init => TrueInv
PROOF
<1> SUFFICES ASSUME Init PROVE TrueInv
  OBVIOUS
<1> USE DEF Init
<1>1. StopsAlone
  BY DEF StopsAlone, Stopping
<1>2. Recovers
  BY DEF Recovers, Recovery
<1>3. CapturedIsGood
  BY DEF CapturedIsGood, Nothing
<1> QED BY <1>1, <1>2, <1>3 DEF TrueInv

\* The calls of clients that only use ioctl_lock and the configuration.
LEMMA ClientTrue ==
  ASSUME IndInv, TrueInv, update' \in {update, TRUE},
         UNCHANGED <<kind, state, config_counter, evars, raced, buf_processing,
                     spc, isr, en, regs, hwvars, cap>>
  PROVE  TrueInv'
PROOF
<1> SUFFICES ASSUME ~raced PROVE StopsAlone' /\ Recovers' /\ CapturedIsGood'
  BY DEF TrueInv
<1> USE DEF evars, hwvars, TrueInv
<1>1. StopsAlone'
  BY DEF StopsAlone
<1>2. Recovers'
  BY DEF Recovers
<1>3. CapturedIsGood'
  BY DEF CapturedIsGood, Good
<1> QED BY <1>1, <1>2, <1>3

LEMMA EnableTrue ==
  ASSUME IndInv, TrueInv, NEW t \in Threads, Enable(t)
  PROVE  TrueInv'
PROOF
<1> SUFFICES ASSUME ~raced' PROVE StopsAlone' /\ Recovers' /\ CapturedIsGood'
  BY DEF TrueInv
<1> USE StatAssumption DEF Enable, Runs, Goes, bvars, cvars, avars,
        evars, uvars, rvars, hwvars, IndInv, TrueInv
<1>1. StopsAlone'
  BY DEF StopsAlone, Stopping, HandlersExclude, On, Quiet, Types, Flags, Places
<1>2. Recovers'
  BY DEF Recovers, HandlersExclude, On, Quiet, Types, Flags, Places, Buffers
<1>3. CapturedIsGood'
  BY DEF CapturedIsGood, Good, Recovers, StopsAlone, HandlersExclude, On, Quiet, Types, Flags,
         Places, Buffers, Configurations, Nothing
<1> QED BY <1>1, <1>2, <1>3

LEMMA DisableTrue ==
  ASSUME IndInv, TrueInv, NEW t \in Threads, Disable(t)
  PROVE  TrueInv'
PROOF
<1> SUFFICES ASSUME ~raced' PROVE StopsAlone' /\ Recovers' /\ CapturedIsGood'
  BY DEF TrueInv
<1> USE StatAssumption DEF Disable, DisableIt, Runs, Goes, bvars, cvars, avars,
        evars, uvars, rvars, hwvars, IndInv, TrueInv
<1>1. StopsAlone'
  BY DEF StopsAlone, Stopping, HandlersExclude, On, Quiet, Types, Flags, Places
<1>2. Recovers'
  BY DEF Recovers, HandlersExclude, On, Quiet, Types, Flags, Places, Buffers
<1>3. CapturedIsGood'
  BY DEF CapturedIsGood, Good, Recovers, StopsAlone, HandlersExclude, On, Quiet, Types, Flags,
         Places, Buffers, Configurations, Nothing
<1> QED BY <1>1, <1>2, <1>3

LEMMA SblOverflowIsrTrue ==
  ASSUME IndInv, TrueInv, SblOverflowIsr
  PROVE  TrueInv'
PROOF
<1> SUFFICES ASSUME ~raced' PROVE StopsAlone' /\ Recovers' /\ CapturedIsGood'
  BY DEF TrueInv
<1> USE StatAssumption DEF SblOverflowIsr, Ignored, bvars, cvars, avars,
        evars, uvars, rvars, hwvars, IndInv, TrueInv
<1>1. StopsAlone'
  BY DEF StopsAlone, Stopping, HandlersExclude, On, Quiet, Types, Flags, Places
<1>2. Recovers'
  BY DEF Recovers, HandlersExclude, On, Quiet, Types, Flags, Places, Buffers
<1>3. CapturedIsGood'
  BY DEF CapturedIsGood, Good, Recovers, StopsAlone, HandlersExclude, On, Quiet, Types, Flags,
         Places, Buffers, Configurations, Nothing
<1> QED BY <1>1, <1>2, <1>3

LEMMA StatIsrTrue ==
  ASSUME IndInv, TrueInv, StatIsr
  PROVE  TrueInv'
PROOF
<1> SUFFICES ASSUME ~raced' PROVE StopsAlone' /\ Recovers' /\ CapturedIsGood'
  BY DEF TrueInv
<1> USE StatAssumption DEF StatIsr, Enter, EnterContinues, bvars, cvars, avars,
        evars, uvars, rvars, hwvars, IndInv, TrueInv
<1>1. StopsAlone'
  BY DEF StopsAlone, Stopping, HandlersExclude, On, Quiet, Types, Flags, Places
<1>2. Recovers'
  BY DEF Recovers, HandlersExclude, On, Quiet, Types, Flags, Places, Buffers
<1>3. CapturedIsGood'
  BY DEF CapturedIsGood, Good, Recovers, StopsAlone, HandlersExclude, On, Quiet, Types, Flags,
         Places, Buffers, Configurations, Nothing
<1> QED BY <1>1, <1>2, <1>3

LEMMA DmaIsrTrue ==
  ASSUME IndInv, TrueInv, DmaIsr
  PROVE  TrueInv'
PROOF
<1> SUFFICES ASSUME ~raced' PROVE StopsAlone' /\ Recovers' /\ CapturedIsGood'
  BY DEF TrueInv
<1> USE StatAssumption DEF DmaIsr, Enter, EnterContinues, bvars, cvars, avars,
        evars, uvars, rvars, hwvars, IndInv, TrueInv
<1>1. StopsAlone'
  BY DEF StopsAlone, Stopping, HandlersExclude, On, Quiet, Types, Flags, Places
<1>2. Recovers'
  BY DEF Recovers, HandlersExclude, On, Quiet, Types, Flags, Places, Buffers
<1>3. CapturedIsGood'
  BY DEF CapturedIsGood, Good, Recovers, StopsAlone, HandlersExclude, On, Quiet, Types, Flags,
         Places, Buffers, Configurations, Nothing
<1> QED BY <1>1, <1>2, <1>3

LEMMA StreamStopTrue ==
  ASSUME IndInv, TrueInv, StreamStop
  PROVE  TrueInv'
PROOF
<1> SUFFICES ASSUME ~raced' PROVE StopsAlone' /\ Recovers' /\ CapturedIsGood'
  BY DEF TrueInv
<1> USE StatAssumption DEF StreamStop, DisableIt, Pipeline, bvars, cvars, avars,
        evars, uvars, rvars, hwvars, IndInv, TrueInv
<1>1. StopsAlone'
  BY DEF StopsAlone, Stopping, HandlersExclude, On, Quiet, Types, Flags, Places
<1>2. Recovers'
  BY DEF Recovers, HandlersExclude, On, Quiet, Types, Flags, Places, Buffers
<1>3. CapturedIsGood'
  BY DEF CapturedIsGood, Good, Recovers, StopsAlone, HandlersExclude, On, Quiet, Types, Flags,
         Places, Buffers, Configurations, Nothing
<1> QED BY <1>1, <1>2, <1>3

LEMMA StreamStopModuleTrue ==
  ASSUME IndInv, TrueInv, StreamStopModule
  PROVE  TrueInv'
PROOF
<1> SUFFICES ASSUME ~raced' PROVE StopsAlone' /\ Recovers' /\ CapturedIsGood'
  BY DEF TrueInv
<1> USE StatAssumption DEF StreamStopModule, Pipeline, bvars, cvars, avars,
        evars, uvars, rvars, hwvars, IndInv, TrueInv
<1>1. StopsAlone'
  BY DEF StopsAlone, Stopping, HandlersExclude, On, Quiet, Types, Flags, Places
<1>2. Recovers'
  BY DEF Recovers, HandlersExclude, On, Quiet, Types, Flags, Places, Buffers
<1>3. CapturedIsGood'
  BY DEF CapturedIsGood, Good, Recovers, StopsAlone, HandlersExclude, On, Quiet, Types, Flags,
         Places, Buffers, Configurations, Nothing
<1> QED BY <1>1, <1>2, <1>3

LEMMA StreamStopCheckTrue ==
  ASSUME IndInv, TrueInv, StreamStopCheck
  PROVE  TrueInv'
PROOF
<1> SUFFICES ASSUME ~raced' PROVE StopsAlone' /\ Recovers' /\ CapturedIsGood'
  BY DEF TrueInv
<1> USE StatAssumption DEF StreamStopCheck, Enter, EnterContinues, Pipeline, bvars, cvars, avars,
        evars, uvars, rvars, hwvars, IndInv, TrueInv
<1>1. StopsAlone'
  BY DEF StopsAlone, Stopping, HandlersExclude, On, Quiet, Types, Flags, Places
<1>2. Recovers'
  BY DEF Recovers, HandlersExclude, On, Quiet, Types, Flags, Places, Buffers
<1>3. CapturedIsGood'
  BY DEF CapturedIsGood, Good, Recovers, StopsAlone, HandlersExclude, On, Quiet, Types, Flags,
         Places, Buffers, Configurations, Nothing
<1> QED BY <1>1, <1>2, <1>3

LEMMA StreamStopCrashTrue ==
  ASSUME IndInv, TrueInv, StreamStopCrash
  PROVE  TrueInv'
PROOF
<1> SUFFICES ASSUME ~raced' PROVE StopsAlone' /\ Recovers' /\ CapturedIsGood'
  BY DEF TrueInv
<1> USE StatAssumption DEF StreamStopCrash, Pipeline, bvars, cvars, avars,
        evars, uvars, rvars, hwvars, IndInv, TrueInv
<1>1. StopsAlone'
  BY DEF StopsAlone, Stopping, HandlersExclude, On, Quiet, Types, Flags, Places
<1>2. Recovers'
  BY DEF Recovers, HandlersExclude, On, Quiet, Types, Flags, Places, Buffers
<1>3. CapturedIsGood'
  BY DEF CapturedIsGood, Good, Recovers, StopsAlone, HandlersExclude, On, Quiet, Types, Flags,
         Places, Buffers, Configurations, Nothing
<1> QED BY <1>1, <1>2, <1>3

LEMMA StreamStoppedTrue ==
  ASSUME IndInv, TrueInv, StreamStopped
  PROVE  TrueInv'
PROOF
<1> SUFFICES ASSUME ~raced' PROVE StopsAlone' /\ Recovers' /\ CapturedIsGood'
  BY DEF TrueInv
<1> USE StatAssumption DEF StreamStopped, Pipeline, bvars, cvars, avars,
        evars, uvars, rvars, hwvars, IndInv, TrueInv
<1>1. StopsAlone'
  BY DEF StopsAlone, Stopping, HandlersExclude, On, Quiet, Types, Flags, Places
<1>2. Recovers'
  BY DEF Recovers, HandlersExclude, On, Quiet, Types, Flags, Places, Buffers
<1>3. CapturedIsGood'
  BY DEF CapturedIsGood, Good, Recovers, StopsAlone, HandlersExclude, On, Quiet, Types, Flags,
         Places, Buffers, Configurations, Nothing
<1> QED BY <1>1, <1>2, <1>3

LEMMA FrameStartTrue ==
  ASSUME IndInv, TrueInv, FrameStart
  PROVE  TrueInv'
PROOF
<1> SUFFICES ASSUME ~raced' PROVE StopsAlone' /\ Recovers' /\ CapturedIsGood'
  BY DEF TrueInv
<1> USE StatAssumption DEF FrameStart, bvars, cvars, avars,
        evars, uvars, rvars, hwvars, IndInv, TrueInv
<1>1. StopsAlone'
  BY DEF StopsAlone, Stopping, HandlersExclude, On, Quiet, Types, Flags, Places
<1>2. Recovers'
  BY DEF Recovers, HandlersExclude, On, Quiet, Types, Flags, Places, Buffers
<1>3. CapturedIsGood'
  <2>1. busy' /\ ~busy /\ cap'.cfg = regs /\ config_counter' = config_counter
    OBVIOUS
  <2>2. cap'.whole <=> ~skew /\ (kind = "hist" => cap = Nothing)
    OBVIOUS
  <2>3. kind = "h3a" => Good' \/ sbl \/ buf_err >= 1
    BY <2>1, <2>2 DEF Good, Recovers
  <2>4. kind = "hist" => Good' \/ buf_err >= 1 \/ irq
    BY <2>1, <2>2 DEF Good, Recovers, CapturedIsGood
  <2> QED BY <2>1, <2>3, <2>4 DEF CapturedIsGood
<1> QED BY <1>1, <1>2, <1>3

LEMMA FrameEndTrue ==
  ASSUME IndInv, TrueInv, FrameEnd
  PROVE  TrueInv'
PROOF
<1> SUFFICES ASSUME ~raced' PROVE StopsAlone' /\ Recovers' /\ CapturedIsGood'
  BY DEF TrueInv
<1> USE StatAssumption DEF FrameEnd, bvars, cvars, avars,
        evars, uvars, rvars, hwvars, IndInv, TrueInv
<1>1. StopsAlone'
  BY DEF StopsAlone, Stopping, HandlersExclude, On, Quiet, Types, Flags, Places
<1>2. Recovers'
  BY DEF Recovers, HandlersExclude, On, Quiet, Types, Flags, Places, Buffers
<1>3. CapturedIsGood'
  BY DEF CapturedIsGood, Good, Recovers, StopsAlone, HandlersExclude, On, Quiet, Types, Flags,
         Places, Buffers, Configurations, Nothing
<1> QED BY <1>1, <1>2, <1>3

LEMMA SblOverflowTrue ==
  ASSUME IndInv, TrueInv, SblOverflow
  PROVE  TrueInv'
PROOF
<1> SUFFICES ASSUME ~raced' PROVE StopsAlone' /\ Recovers' /\ CapturedIsGood'
  BY DEF TrueInv
<1> USE StatAssumption DEF SblOverflow, bvars, cvars, avars,
        evars, uvars, rvars, hwvars, IndInv, TrueInv
<1>1. StopsAlone'
  BY DEF StopsAlone, Stopping, HandlersExclude, On, Quiet, Types, Flags, Places
<1>2. Recovers'
  BY DEF Recovers, HandlersExclude, On, Quiet, Types, Flags, Places, Buffers
<1>3. CapturedIsGood'
  BY DEF CapturedIsGood, Good, Recovers, StopsAlone, HandlersExclude, On, Quiet, Types, Flags,
         Places, Buffers, Configurations, Nothing
<1> QED BY <1>1, <1>2, <1>3

LEMMA FinishTrue ==
  ASSUME IndInv, TrueInv, NEW fd \in BOOLEAN, fd = (isr = "dma"), Finish(fd),
         UNCHANGED <<kind, avars, raced, uvars, busy, irq, sbl>>,
         isr' = "none",
         (isr # "none" /\ spc' = spc) \/ (spc = "handler" /\ spc' = "wait")
  PROVE  TrueInv'
PROOF
<1> SUFFICES ASSUME ~raced PROVE StopsAlone' /\ Recovers' /\ CapturedIsGood'
  BY DEF TrueInv
<1> USE StatAssumption DEF bvars, cvars, avars, evars, uvars, rvars, IndInv, TrueInv
<1>1. CASE FinishDma(fd)
  <2> USE <1>1 DEF FinishDma, StartsDma
  <2>1. StopsAlone'
    BY DEF StopsAlone, Stopping, HandlersExclude, On, Quiet
  <2>2. Recovers'
    BY DEF Recovers, StopsAlone
  <2>3. CapturedIsGood'
    BY DEF CapturedIsGood, Good, HandlersExclude, StopsAlone
  <2> QED BY <2>1, <2>2, <2>3
<1>2. CASE FinishDisable(fd)
  <2> USE <1>2 DEF FinishDisable
  <2>1. StopsAlone'
    BY DEF StopsAlone, Stopping, HandlersExclude, Quiet
  <2>2. Recovers'
    BY DEF Recovers, HandlersExclude, On, Quiet
  <2>3. CapturedIsGood'
    BY DEF CapturedIsGood, Good, HandlersExclude, Quiet, Nothing
  <2> QED BY <2>1, <2>2, <2>3
<1>3. CASE FinishBuffer(fd)
  <2>1. isr # "none" /\ spc' = spc
    BY <1>3 DEF FinishBuffer, StopsAlone
  <2>2. /\ ~busy /\ state = "ENABLED" /\ state' = "ENABLED"
        /\ sbl_ovl_recover' = FALSE /\ cap' = Nothing
        /\ buf_processing' = FALSE /\ dma' = dma
    BY <1>3, <2>1 DEF FinishBuffer, HandlersExclude, On, Reenabled
  <2>3. /\ SetupRegs(IF sbl_ovl_recover THEN Recovery ELSE priv,
                     update \/ sbl_ovl_recover, NextBuf(fd))
        /\ update' = sbl_ovl_recover
    BY <1>3, <2>2 DEF FinishBuffer
  <2>4. /\ skew' \in BOOLEAN
        /\ \/ buf_err' = ErrAfter /\ (skew' <=> skew)
           \/ fd /\ skew' /\ buf_err' = 1
    BY <1>3, LateOrNot
  <2>5. StopsAlone'
    BY <2>1, <2>2 DEF StopsAlone, Stopping
  <2>6. ~sbl /\ ~irq /\ ~dma
    BY <2>1, <2>2 DEF Recovers, HandlersExclude
  <2>7. regs' \in {config_counter', Recovery}
    BY <2>3 DEF SetupRegs, Recovers, Types, Configurations, Counts
  <2>8. regs' = Recovery => kind' = "h3a" /\ update' /\ buf_err' >= 1
    <3> SUFFICES ASSUME regs' = Recovery PROVE sbl_ovl_recover
      BY <2>3, <2>4 DEF Recovers, ErrAfter, HandlersExclude
    <3> QED BY <2>3 DEF SetupRegs, Recovers, Types, Configurations, Counts, Recovery, Flags
  <2>9. skew' /\ ~sbl' => buf_err' = 2 \/ (buf_err' = 1 /\ ~busy' /\ ~irq' /\ isr' = "none")
    BY <2>1, <2>2, <2>4, <2>6 DEF Recovers, ErrAfter
  <2>10. Recovers'
    BY <2>2, <2>4, <2>6, <2>7, <2>8, <2>9 DEF Recovers, ErrAfter, Types, Buffers
  <2>11. CapturedIsGood'
    BY <2>2, <2>6 DEF CapturedIsGood, Nothing
  <2> QED BY <2>5, <2>10, <2>11
<1>4. CASE FinishBusy(fd)
  <2> USE <1>4 DEF FinishBusy
  <2>1. isr # "none" /\ spc' = spc
    BY DEF HandlersExclude, Quiet
  <2>2. StopsAlone'
    BY <2>1 DEF StopsAlone, Stopping
  <2>3. Recovers'
    BY <2>1 DEF Recovers, Types, Buffers
  <2>4. CapturedIsGood'
    BY <2>1 DEF CapturedIsGood, Good
  <2> QED BY <2>2, <2>3, <2>4
<1> QED BY <1>1, <1>2, <1>3, <1>4 DEF Finish

LEMMA TryEnableTrue ==
  ASSUME IndInv, TrueInv, TryEnable,
         UNCHANGED <<kind, avars, uvars, raced, buf_processing, isr, busy, irq, sbl, dma>>,
         spc' = spc \/ (spc = "off" /\ spc' = "on")
  PROVE  TrueInv'
PROOF
<1> SUFFICES ASSUME ~raced PROVE StopsAlone' /\ Recovers' /\ CapturedIsGood'
  BY DEF TrueInv
<1> USE StatAssumption DEF TryEnable, bvars, cvars, avars, evars, uvars, rvars, IndInv, TrueInv
<1>1. StopsAlone'
  BY DEF StopsAlone, Stopping
<1> DEFINE Taken == state = "ENABLING" /\ ~buf_processing /\ buf_alloc_size > 0
<1>2. CASE ~Taken
  <2>1. Recovers'
    BY <1>2 DEF Recovers
  <2>2. CapturedIsGood'
    BY <1>2 DEF CapturedIsGood, Good
  <2> QED BY <1>1, <2>1, <2>2
<1>3. CASE Taken
  <2>1. /\ cap' = Nothing /\ (skew' <=> kind = "h3a" /\ skew)
        /\ buf_err' = IF kind = "h3a" THEN buf_err ELSE 0
        /\ regs' = config_counter' /\ regs' # Recovery
        /\ sbl_ovl_recover' = sbl_ovl_recover
    <3>1. /\ cap' = Nothing /\ (skew' <=> kind = "h3a" /\ skew)
          /\ buf_err' = IF kind = "h3a" THEN buf_err ELSE 0
          /\ sbl_ovl_recover' = sbl_ovl_recover
      BY <1>3, Zenon
    <3>2. regs' = priv /\ config_counter' = config_counter + inc_config
      BY <1>3 DEF SetupRegs
    <3> QED BY <3>1, <3>2 DEF Types, Configurations, Counts, Recovery
  <2>2. Quiet
    BY <1>3 DEF HandlersExclude, On
  <2>3. Recovers'
    BY <2>1, <2>2 DEF Recovers, Quiet, Types, Flags
  <2>4. CapturedIsGood'
    BY <2>1, <2>2 DEF CapturedIsGood, Nothing, Quiet
  <2> QED BY <1>1, <2>3, <2>4
<1> QED BY <1>2, <1>3

\* Every step keeps the statistics true.
LEMMA NextTrue ==
  ASSUME IndInv, TrueInv, [Next]_vars
  PROVE  TrueInv'
PROOF
<1> USE DEF bvars, cvars, avars, evars, uvars, rvars, hwvars
<1>1. CASE UNCHANGED vars
  BY <1>1, ClientTrue DEF vars
<1>2. CASE \E t \in Threads : Client(t)
  <2>1. PICK t \in Threads : Client(t)
    BY <1>2
  <2>2. CASE Enable(t) \/ Disable(t)
    BY <2>2, EnableTrue, DisableTrue
  <2>3. CASE Request(t) \/ RequestGet(t) \/ RequestDone(t) \/ RequestFails(t)
    BY <2>3, ClientTrue DEF Request, RequestGet, RequestDone, RequestFails
  <2>4. CASE ConfigAlloc(t) \/ ConfigNoMemory(t) \/ ConfigSet(t)
    BY <2>4, ClientTrue DEF ConfigAlloc, ConfigNoMemory, ConfigSet
  <2>5. CASE \E size \in 1 .. MaxSize : Config(t, size)
    BY <2>5, ClientTrue DEF Config
  <2> QED BY <2>1, <2>2, <2>3, <2>4, <2>5 DEF Client
<1>3. CASE IsrFinish
  BY <1>3, FinishTrue DEF IsrFinish
<1>4. CASE StreamStopHandler
  <2>1. isr = "none" /\ isr' = "none"
    BY <1>4 DEF StreamStopHandler, Pipeline
  <2> QED BY <1>4, <2>1, FinishTrue DEF StreamStopHandler, Pipeline
<1>5. CASE FrameSync \/ StreamStart
  BY <1>5, TryEnableTrue DEF FrameSync, StreamStart, Pipeline
<1>6. CASE SblOverflowIsr \/ StatIsr \/ DmaIsr
  BY <1>6, SblOverflowIsrTrue, StatIsrTrue, DmaIsrTrue
<1>7. CASE StreamStop \/ StreamStopModule \/ StreamStopCheck \/ StreamStopCrash \/ StreamStopped
  BY <1>7, StreamStopTrue, StreamStopModuleTrue, StreamStopCheckTrue, StreamStopCrashTrue,
     StreamStoppedTrue
<1>8. CASE FrameStart \/ FrameEnd \/ SblOverflow
  BY <1>8, FrameStartTrue, FrameEndTrue, SblOverflowTrue
<1> QED BY <1>1, <1>2, <1>3, <1>4, <1>5, <1>6, <1>7, <1>8 DEF Next, Handlers, StopGoesOn

\* Of the steps, only the handler of an interrupt queues the active buffer.
LEMMA QueuesTrue ==
  ASSUME IndInv, TrueInv, NEW fd \in BOOLEAN, fd = (isr = "dma"), FinishBuffer(fd),
         isr # "none" \/ spc = "handler", ~raced, active_buf \in Held' \ Held
  PROVE  Good
PROOF
<1>1. isr # "none" /\ state # "DISABLING" /\ ~busy /\ NextBuf(fd) # None
  BY DEF FinishBuffer, TrueInv, StopsAlone
<1>2. Held' = Ran(Without(HeldAfter(fd), NextBuf(fd)))
  BY DEF FinishBuffer, Held, Ran
<1>3. Queues(fd)
  BY <1>1, <1>2, NextBufIsFree DEF Held, Ran
<1>4. ~sbl /\ buf_err = 0
  BY <1>1, <1>3 DEF TrueInv, Recovers, Queues, Takes
<1>5. kind = "h3a" \/ kind = "hist"
  BY StatAssumption DEF IndInv, Types, Places
<1>6. CASE kind = "h3a"
  BY <1>3, <1>4, <1>6 DEF Queues, TrueInv, CapturedIsGood
<1>7. CASE kind = "hist"
  BY <1>1, <1>3, <1>4, <1>7 DEF Queues, Takes, TrueInv, CapturedIsGood
<1> QED BY <1>5, <1>6, <1>7

\* Every other step leaves the buffers of the clients as they are or takes
\* some away.
LEMMA OthersQueueNothing ==
  ASSUME IndInv, [Next]_vars, ~IsrFinish, ~StreamStopHandler
  PROVE  Held' \subseteq Held
PROOF
<1> USE DEF bvars
<1>1. full \in Seq(Bufs) /\ Distinct(full)
  BY DEF IndInv, Types, Buffers, ActiveBuf
<1>2. \A b : Ran(Without(full, b)) = Ran(full) \ {b}
  BY <1>1, WithoutRemoves
<1>3. full' = full \/ full' = <<>> \/ \E b : full' = Without(full, b)
  <2>1. CASE UNCHANGED vars
    BY <2>1 DEF vars
  <2>2. CASE \E t \in Threads : Client(t)
    BY <2>2 DEF Client, Request, RequestGet, RequestDone, RequestFails, Config, ConfigAlloc,
                ConfigNoMemory, ConfigSet, Enable, Disable, DisableIt, FreeBufs
  <2>3. CASE Handlers
    BY <2>3 DEF Handlers, SblOverflowIsr, StatIsr, DmaIsr, FrameSync, TryEnable
  <2>4. CASE StreamStart \/ StreamStop \/ StopGoesOn
    BY <2>4 DEF StreamStart, TryEnable, StreamStop, DisableIt, StopGoesOn, StreamStopModule,
                StreamStopCheck, StreamStopCrash, StreamStopped
  <2>5. CASE FrameStart \/ FrameEnd \/ SblOverflow
    BY <2>5 DEF FrameStart, FrameEnd, SblOverflow
  <2> QED BY <2>1, <2>2, <2>3, <2>4, <2>5 DEF Next
<1>4. Held = Ran(full) /\ Held' = Ran(full')
  BY DEF Held, Ran
<1> QED BY <1>2, <1>3, <1>4, EmptyHolds

\* Statistics become available to clients only if they are those of one whole
\* frame and were taken with the configuration whose number they carry: no
\* frame with an SBL overflow and not the one after it, none taken with the
\* recovery configuration, and no two frames of the histogram added up,
\* unless a client enables the module during s_stream(0).
THEOREM StatisticsAreTrue == Spec => QueuedIsTrue
PROOF
<1>1. IndInv /\ TrueInv /\ [Next]_vars => TrueInv'
  BY NextTrue
<1>2. Spec => []TrueInv
  BY <1>1, InitTrue, Invariance, PTL DEF Spec
<1>3. ASSUME IndInv, TrueInv, [Next]_vars
      PROVE  [~raced /\ active_buf \in Held' \ Held =>
               cap.whole /\ cap.cfg = config_counter]_vars
  <2> SUFFICES ASSUME ~raced, active_buf \in Held' \ Held PROVE Good
    BY DEF Good
  <2>1. IsrFinish \/ StreamStopHandler
    BY <1>3, OthersQueueNothing
  <2> DEFINE fd == isr = "dma"
  <2>2. Finish(fd) /\ (isr # "none" \/ spc = "handler")
    <3>1. CASE IsrFinish
      BY <3>1 DEF IsrFinish
    <3>2. CASE StreamStopHandler
      BY <3>2 DEF StreamStopHandler, Pipeline
    <3> QED BY <2>1, <3>1, <3>2
  <2>3. FinishBuffer(fd)
    <3>1. full' # full
      BY DEF Held
    <3> HIDE DEF fd
    <3> QED BY <2>2, <3>1 DEF Finish, FinishDma, FinishDisable, FinishBusy, bvars
  <2> QED BY <1>3, <2>2, <2>3, QueuesTrue
<1> QED BY <1>2, <1>3, Invariance, PTL DEF Spec, QueuedIsTrue
=============================================================================
