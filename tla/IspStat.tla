------------------------------- MODULE IspStat ------------------------------
(***************************************************************************)
(* A statistics module of the ISP (ispstat.c): auto exposure and white     *)
(* balance or autofocus ("h3a", isph3a_aewb.c), or the histogram ("hist",  *)
(* isphist.c), whose interrupt handler copies its memory out by DMA.       *)
(* Clients configure, enable, disable and read it under ioctl_lock while   *)
(* the pipeline starts and stops and interrupts complete buffers.          *)
(*                                                                         *)
(* frame_number only serves to find the oldest buffer, so the buffers that *)
(* hold statistics are kept in the order of their frames.  Of a            *)
(* configuration only its number is kept: priv is the number of set_params *)
(* calls that changed something.  The modules are external: an enabled     *)
(* module starts with a frame, writes to the address it was given, and     *)
(* raises its interrupt at the end of the frame.  After an SBL overflow    *)
(* the H3A also puts its next frame in the wrong place.  The histogram has *)
(* a DMA channel and accumulates one frame (num_acc_frames = 1).           *)
(*                                                                         *)
(* There is one processor: a thread needs isr = "none" and no pending      *)
(* interrupt to take a step.  The handlers keep up with the frames.        *)
(***************************************************************************)
EXTENDS Integers, Sequences, FiniteSets

CONSTANTS
  Threads,
  Kinds,       \* of {"h3a", "hist"}
  MaxBufs,     \* STAT_MAX_BUFS, which is 5
  MaxConfigs,  \* bound: changes of the configuration
  MaxSize,     \* bound: sizes the configurations ask for
  None

ASSUME StatAssumption ==
  /\ Kinds \subseteq {"h3a", "hist"}
  /\ MaxBufs \in Nat /\ MaxBufs >= 3
  /\ MaxConfigs \in Nat /\ MaxSize \in Nat \ {0}
  /\ None \notin Threads \cup (1 .. MaxBufs)

VARIABLES
  kind,            \* which module
  state,           \* stat->state
  active_buf, locked_buf,
  full,            \* the buffers that are not empty and not active, oldest first
  buf_alloc_size,
  buf_err, buf_processing,
  update, sbl_ovl_recover, configured,
  priv, psize,     \* the number and the size of the client's configuration
  config_counter, inc_config,
  ioctl_lock,      \* its owner
  pc,              \* where each thread is
  arg,             \* the size its configuration asks for
  spc,             \* the pipeline: where in s_stream its thread is; "crashed"
  isr,             \* the interrupt handler that is under way
  en,              \* the enable bit of the module
  busy,            \* its busy bit: it processes a frame
  regs, rsize,     \* the configuration in its registers, and its size
  addr,            \* the buffer its address register points to
  skew,            \* the next frame goes to the wrong place or has begun already
  cap,             \* what the active buffer, or the histogram memory, holds
  irq,             \* the module's interrupt is pending
  sbl,             \* an SBL overflow is pending
  dma,             \* the DMA of the histogram runs
  raced            \* history: a client enabled the module during s_stream(0)

bvars == <<active_buf, full>>
cvars == <<update, priv, psize, config_counter, inc_config>>
avars == <<buf_alloc_size, configured>>
evars == <<buf_err, sbl_ovl_recover>>
uvars == <<ioctl_lock, pc, arg, locked_buf>>
rvars == <<regs, rsize, addr>>
hwvars == <<busy, skew, irq, sbl, dma>>
vars == <<kind, state, bvars, cvars, avars, raced, evars, uvars, buf_processing,
          spc, isr, en, rvars, hwvars, cap>>

Bufs == 1 .. MaxBufs
Recovery == -1
Stopping == {"disable", "check", "handler", "wait"}
Nothing == [cfg |-> 0, whole |-> FALSE, fresh |-> FALSE]

Init ==
  /\ kind \in Kinds
  /\ state = "DISABLED"
  /\ active_buf = None /\ locked_buf = None /\ full = <<>>
  /\ buf_alloc_size = 0 /\ buf_err = 0 /\ buf_processing = FALSE
  /\ update = FALSE /\ sbl_ovl_recover = FALSE /\ configured = FALSE
  /\ priv = 0 /\ psize = 0 /\ config_counter = 0 /\ inc_config = 0
  /\ ioctl_lock = None
  /\ pc = [t \in Threads |-> "user"]
  /\ arg = [t \in Threads |-> 0]
  /\ spc = "off" /\ isr = "none"
  /\ en = FALSE /\ busy = FALSE /\ regs = 0 /\ rsize = 0 /\ addr = None /\ skew = FALSE
  /\ cap = Nothing
  /\ irq = FALSE /\ sbl = FALSE /\ dma = FALSE
  /\ raced = FALSE

-----------------------------------------------------------------------------
(* Buffers and registers.                                                  *)

Held == {full[i] : i \in DOMAIN full}

\* s without b, which it holds once at most.
Without(s, b) ==
  IF \E i \in DOMAIN s : s[i] = b
  THEN LET k == CHOOSE i \in DOMAIN s : s[i] = b
       IN [i \in 1 .. Len(s) - 1 |-> IF i < k THEN s[i] ELSE s[i + 1]]
  ELSE s

\* isp_stat_buf_find_oldest: never the buffer that is being copied.
Oldest(s) == LET ready == Without(s, locked_buf)
             IN IF ready = <<>> THEN None ELSE Head(ready)

\* isp_stat_buf_find_oldest_or_empty, when s holds statistics.
OldestOrEmpty(s) ==
  LET empty == Bufs \ ({locked_buf} \cup {s[i] : i \in DOMAIN s})
  IN IF empty # {} THEN CHOOSE b \in empty : \A c \in empty : b <= c ELSE Oldest(s)

\* ops->setup_regs: the address of the buffer and, if update is set, the
\* configuration c.  The histogram clears its memory along with it.
SetupRegs(c, upd, buf) ==
  /\ addr' = IF kind = "h3a" THEN buf ELSE addr
  /\ regs' = IF upd THEN c ELSE regs
  /\ rsize' = IF ~upd THEN rsize ELSE IF c = Recovery THEN 0 ELSE psize
  /\ config_counter' = IF upd THEN config_counter + inc_config ELSE config_counter
  /\ inc_config' = IF upd THEN 0 ELSE inc_config
  /\ UNCHANGED <<priv, psize>>

\* isp_stat_try_enable; isp_stat_buf_insert_magic marks the buffer unwritten.
TryEnable ==
  IF state = "ENABLING" /\ ~buf_processing /\ buf_alloc_size > 0
  THEN LET buf == IF active_buf = None THEN OldestOrEmpty(full) ELSE active_buf IN
       /\ active_buf' = buf
       /\ full' = Without(full, buf)
       /\ SetupRegs(priv, TRUE, buf)
       /\ update' = FALSE
       /\ cap' = Nothing
       /\ buf_err' = IF kind = "h3a" THEN buf_err ELSE 0
       /\ skew' = (kind = "h3a" /\ skew)
       /\ state' = "ENABLED" /\ en' = TRUE
       /\ UNCHANGED sbl_ovl_recover
  ELSE UNCHANGED <<state, bvars, cvars, evars, rvars, en, skew, cap>>

-----------------------------------------------------------------------------
(* The clients' calls, under ioctl_lock.                                   *)

Runs(t, place) == pc[t] = place /\ ~irq /\ ~sbl /\ isr = "none"
Goes(t, place) == pc' = [pc EXCEPT ![t] = place]

\* omap3isp_stat_request_statistics: the module must be enabled.
Request(t) ==
  /\ Runs(t, "user") /\ state = "ENABLED"
  /\ Goes(t, "request")
  /\ UNCHANGED <<kind, state, bvars, cvars, avars, raced, evars, ioctl_lock, arg, locked_buf,
                 buf_processing, spc, isr, en, rvars, hwvars, cap>>

\* isp_stat_buf_get: the oldest buffer is locked and copied, if there is one.
RequestGet(t) ==
  /\ Runs(t, "request") /\ ioctl_lock = None
  /\ LET b == Oldest(full) IN
     /\ locked_buf' = b
     /\ ioctl_lock' = IF b = None THEN None ELSE t
     /\ Goes(t, IF b = None THEN "user" ELSE "copy")
  /\ UNCHANGED <<kind, state, bvars, cvars, avars, raced, evars, arg,
                 buf_processing, spc, isr, en, rvars, hwvars, cap>>

\* The copy is complete: the buffer is empty again and released.
RequestDone(t) ==
  /\ Runs(t, "copy")
  /\ full' = Without(full, locked_buf)
  /\ locked_buf' = None /\ ioctl_lock' = None
  /\ Goes(t, "user")
  /\ UNCHANGED <<kind, state, active_buf, cvars, avars, raced, evars, arg,
                 buf_processing, spc, isr, en, rvars, hwvars, cap>>

\* The client's memory is too small or not there: the buffer keeps its data.
RequestFails(t) ==
  /\ Runs(t, "copy")
  /\ locked_buf' = None /\ ioctl_lock' = None
  /\ Goes(t, "user")
  /\ UNCHANGED <<kind, state, bvars, cvars, avars, raced, evars, arg,
                 buf_processing, spc, isr, en, rvars, hwvars, cap>>

\* The mutant's test of the module's use is not complete.
MayAllocRunning == ~buf_processing
MayAlloc == state = "DISABLED" /\ ~buf_processing

\* omap3isp_stat_config, isp_stat_bufs_alloc: buffers are only replaced by
\* larger ones and while nothing uses them.
Config(t, size) ==
  /\ Runs(t, "user") /\ ioctl_lock = None
  /\ priv < MaxConfigs
  /\ \/ buf_alloc_size >= size /\ Goes(t, "set")
     \/ buf_alloc_size < size /\ MayAlloc /\ Goes(t, "alloc")
  /\ ioctl_lock' = t
  /\ arg' = [arg EXCEPT ![t] = size]
  /\ UNCHANGED <<kind, state, bvars, cvars, avars, raced, evars, locked_buf,
                 buf_processing, spc, isr, en, rvars, hwvars, cap>>

\* isp_stat_bufs_free.
FreeBufs == full' = <<>> /\ active_buf' = None

ConfigAlloc(t) ==
  /\ Runs(t, "alloc")
  /\ FreeBufs
  /\ buf_alloc_size' = arg[t]
  /\ Goes(t, "set")
  /\ UNCHANGED <<kind, state, cvars, configured, raced, evars, ioctl_lock, arg, locked_buf,
                 buf_processing, spc, isr, en, rvars, hwvars, cap>>

\* No memory: what was allocated is freed, and the call returns.
ConfigNoMemory(t) ==
  /\ Runs(t, "alloc")
  /\ FreeBufs
  /\ buf_alloc_size' = 0
  /\ ioctl_lock' = None
  /\ Goes(t, "user")
  /\ UNCHANGED <<kind, state, cvars, configured, raced, evars, arg, locked_buf,
                 buf_processing, spc, isr, en, rvars, hwvars, cap>>

\* ops->set_params under stat_lock, for a configuration that differs.
ConfigSet(t) ==
  /\ Runs(t, "set")
  /\ priv' = priv + 1 /\ psize' = arg[t]
  /\ inc_config' = inc_config + 1 /\ update' = TRUE
  /\ configured' = TRUE
  /\ ioctl_lock' = None
  /\ Goes(t, "user")
  /\ UNCHANGED <<kind, state, bvars, config_counter, buf_alloc_size, raced, evars, arg, locked_buf,
                 buf_processing, spc, isr, en, rvars, hwvars, cap>>

\* omap3isp_stat_enable(stat, 1).
Enable(t) ==
  /\ Runs(t, "user") /\ ioctl_lock = None
  /\ configured /\ state \in {"DISABLING", "DISABLED"}
  /\ state' = IF state = "DISABLING" THEN "ENABLED" ELSE "ENABLING"
  /\ raced' = (raced \/ spc \in Stopping)
  /\ UNCHANGED <<kind, bvars, cvars, avars, evars, uvars,
                 buf_processing, spc, isr, en, rvars, hwvars, cap>>

\* omap3isp_stat_enable(stat, 0): an enabled module also drops what it holds.
DisableIt ==
  /\ state' = CASE state = "ENABLING" -> "DISABLED"
                [] state = "ENABLED" -> "DISABLING"
                [] OTHER -> state
  /\ full' = IF state = "ENABLED" THEN <<>> ELSE full

Disable(t) ==
  /\ Runs(t, "user") /\ ioctl_lock = None
  /\ state \in {"ENABLING", "ENABLED"}
  /\ DisableIt
  /\ UNCHANGED <<kind, active_buf, cvars, avars, raced, evars, uvars,
                 buf_processing, spc, isr, en, rvars, hwvars, cap>>

-----------------------------------------------------------------------------
(* The interrupt handler __stat_isr: it is run by the module's interrupt,  *)
(* by the end of the histogram's DMA, and by s_stream(0).                  *)

\* Its first section decides whether to go on, and disables the module.
EnterContinues(from_dma) == state # "DISABLED" /\ (~buf_processing \/ from_dma)

Enter(from_dma) ==
  /\ en' = (en /\ state = "DISABLED")
  /\ buf_processing' = CASE state = "DISABLED" -> buf_processing
                         [] EnterContinues(from_dma) -> TRUE
                         [] OTHER -> state # "ENABLED"

\* The histogram starts copying its memory into the active buffer.
StartsDma(from_dma) ==
  kind = "hist" /\ ~busy /\ ~from_dma /\ buf_err = 0 /\ state = "ENABLED"

FinishDma(from_dma) ==
  /\ StartsDma(from_dma)
  /\ dma' = TRUE
  /\ UNCHANGED <<state, bvars, cvars, evars, buf_processing, en, rvars, skew, cap>>

\* A module that is being disabled is, now that it is idle.
FinishDisable(from_dma) ==
  /\ ~busy /\ ~StartsDma(from_dma) /\ state = "DISABLING"
  /\ state' = "DISABLED"
  /\ buf_processing' = FALSE
  /\ cap' = IF kind = "hist" THEN Nothing ELSE cap
  /\ UNCHANGED <<bvars, cvars, evars, en, rvars, skew, dma>>

\* isp_stat_buf_process queues the active buffer and takes another, unless
\* it is to be ignored or, as its magic words show, was not written.  The
\* registers are set up, with the recovery configuration after an overflow,
\* and the module is enabled.  After a DMA, omap3isp_hist_dma_done finds out
\* whether it is late, because the next frame has begun.
Takes(from_dma) == buf_err = 0 /\ state = "ENABLED" /\ (kind = "hist" => from_dma)

Queues(from_dma) == Takes(from_dma) /\ active_buf # None /\ (kind = "h3a" => cap.fresh)

HeldAfter(from_dma) == IF Queues(from_dma) THEN Append(full, active_buf) ELSE full

NextBuf(from_dma) == IF Queues(from_dma) \/ (Takes(from_dma) /\ active_buf = None)
                     THEN OldestOrEmpty(HeldAfter(from_dma)) ELSE active_buf

\* atomic_add_unless(&stat->buf_err, -1, 0); the mutant goes below zero.
ErrAfterUnderflow == buf_err - 1
ErrAfter == IF buf_err > 0 THEN buf_err - 1 ELSE 0

\* isp_stat_pcr_enable(stat, 1); the mutant enables a module only once.
ReenabledOnce == state = "ENABLING"
Reenabled == state \in {"ENABLING", "ENABLED"}

FinishBuffer(from_dma) ==
  LET buf == NextBuf(from_dma) IN
     /\ ~busy /\ ~StartsDma(from_dma) /\ state # "DISABLING" /\ buf # None
     /\ active_buf' = buf
     /\ full' = Without(HeldAfter(from_dma), buf)
     /\ \E late \in {FALSE, from_dma} :
          /\ buf_err' = IF late THEN 1 ELSE ErrAfter
          /\ skew' = (skew \/ late)
     /\ IF state = "DISABLED"
        THEN UNCHANGED <<cvars, rvars>>
        ELSE /\ SetupRegs(IF sbl_ovl_recover THEN Recovery ELSE priv,
                          update \/ sbl_ovl_recover, buf)
             /\ update' = sbl_ovl_recover
     /\ sbl_ovl_recover' = FALSE
     /\ cap' = Nothing
     /\ en' = (en \/ Reenabled)
     /\ state' = IF Reenabled THEN "ENABLED" ELSE state
     /\ buf_processing' = FALSE
     /\ UNCHANGED dma

\* The next frame has begun: it is too late for this one.
FinishBusy(from_dma) ==
  /\ busy
  /\ buf_err' = IF kind = "hist" THEN 1 ELSE buf_err
  /\ buf_processing' = FALSE
  /\ UNCHANGED <<state, bvars, cvars, sbl_ovl_recover, en, rvars, skew, cap, dma>>

Finish(from_dma) ==
  \/ FinishDma(from_dma) \/ FinishDisable(from_dma)
  \/ FinishBuffer(from_dma) \/ FinishBusy(from_dma)

\* How many frames an overflow spoils; the mutant forgets the second.
IgnoredOne == 1
Ignored == 2

\* isp_isr_sbl -> omap3isp_stat_sbl_overflow, before any other handler.
SblOverflowIsr ==
  /\ sbl /\ isr = "none"
  /\ sbl' = FALSE
  /\ buf_err' = Ignored
  /\ sbl_ovl_recover' = TRUE
  /\ UNCHANGED <<kind, state, bvars, cvars, avars, raced, uvars, buf_processing,
                 spc, isr, en, rvars, busy, skew, irq, dma, cap>>

\* omap3isp_stat_isr from isp_isr.
StatIsr ==
  /\ irq /\ ~sbl /\ isr = "none"
  /\ irq' = FALSE
  /\ isr' = IF EnterContinues(FALSE) THEN "module" ELSE "none"
  /\ Enter(FALSE)
  /\ UNCHANGED <<kind, state, bvars, cvars, avars, raced, evars, uvars,
                 spc, rvars, busy, skew, sbl, dma, cap>>

\* hist_dma_cb -> omap3isp_stat_dma_isr; a failed transfer spoils the buffer.
DmaIsr ==
  /\ dma /\ ~irq /\ isr = "none"
  /\ dma' = FALSE
  /\ buf_err' \in {buf_err, 1}
  /\ isr' = IF EnterContinues(TRUE) THEN "dma" ELSE "none"
  /\ Enter(TRUE)
  /\ cap' = IF state = "DISABLED" THEN Nothing ELSE cap
  /\ UNCHANGED <<kind, state, bvars, cvars, avars, raced, sbl_ovl_recover, uvars,
                 spc, rvars, busy, skew, irq, sbl>>

IsrFinish ==
  /\ isr # "none"
  /\ isr' = "none"
  /\ Finish(isr = "dma")
  /\ UNCHANGED <<kind, avars, raced, uvars, spc, busy, irq, sbl>>

\* omap3isp_stat_isr_frame_sync, with the CCDC's VD0 interrupt.
FrameSync ==
  /\ spc # "off" /\ state = "ENABLING" /\ isr = "none" /\ ~sbl
  /\ TryEnable
  /\ UNCHANGED <<kind, avars, raced, uvars, buf_processing, spc, isr, busy, irq, sbl, dma>>

-----------------------------------------------------------------------------
(* The pipeline.                                                           *)

Pipeline(place) == spc = place /\ ~irq /\ ~sbl /\ isr = "none"

\* omap3isp_stat_s_stream(1).
StreamStart ==
  /\ Pipeline("off")
  /\ spc' = "on"
  /\ TryEnable
  /\ UNCHANGED <<kind, avars, raced, uvars, buf_processing, isr, busy, irq, sbl, dma>>

\* omap3isp_stat_s_stream(0): omap3isp_stat_enable(stat, 0).
StreamStop ==
  /\ Pipeline("on") /\ ioctl_lock = None
  /\ spc' = "disable"
  /\ DisableIt
  /\ UNCHANGED <<kind, active_buf, cvars, avars, raced, evars, uvars,
                 buf_processing, isr, en, rvars, hwvars, cap>>

\* The module is disabled.
StreamStopModule ==
  /\ Pipeline("disable")
  /\ spc' = "check"
  /\ en' = FALSE
  /\ UNCHANGED <<kind, state, bvars, cvars, avars, raced, evars, uvars,
                 buf_processing, isr, rvars, hwvars, cap>>

\* The mutant waits for an interrupt.
StreamStopCheckWaits ==
  /\ Pipeline("check")
  /\ spc' = "wait"
  /\ UNCHANGED <<kind, state, bvars, cvars, avars, raced, evars, uvars,
                 buf_processing, isr, en, rvars, hwvars, cap>>

\* If it is idle the handler is called, in case no interrupt comes.
StreamStopCheck ==
  /\ Pipeline("check")
  /\ IF busy THEN spc' = "wait" /\ UNCHANGED <<en, buf_processing>>
     ELSE spc' = (IF EnterContinues(FALSE) THEN "handler" ELSE "wait") /\ Enter(FALSE)
  /\ UNCHANGED <<kind, state, bvars, cvars, avars, raced, evars, uvars, isr, rvars, hwvars, cap>>

StreamStopHandler ==
  /\ Pipeline("handler")
  /\ spc' = "wait"
  /\ Finish(FALSE)
  /\ UNCHANGED <<kind, avars, raced, uvars, isr, busy, irq, sbl>>

\* No buffer was ever taken, and the handler uses stat->active_buf, which is
\* NULL, with stat_lock held.
StreamStopCrash ==
  /\ Pipeline("handler")
  /\ ~busy /\ state # "DISABLING" /\ ~StartsDma(FALSE) /\ NextBuf(FALSE) = None
  /\ spc' = "crashed"
  /\ UNCHANGED <<kind, state, bvars, cvars, avars, raced, evars, uvars,
                 buf_processing, isr, en, rvars, hwvars, cap>>

\* isp_pipeline_wait(isp_pipeline_wait_ccdc): until omap3isp_stat_busy is
\* false or, when a client has enabled the module again, for 1 s.
StreamStopped ==
  /\ Pipeline("wait")
  /\ ~busy /\ ~buf_processing
  /\ state = "DISABLED" \/ (state # "DISABLING" /\ ~dma)
  /\ spc' = "off"
  /\ UNCHANGED <<kind, state, bvars, cvars, avars, raced, evars, uvars,
                 buf_processing, isr, en, rvars, hwvars, cap>>

-----------------------------------------------------------------------------
(* The module, while the CCDC gives it frames.                             *)

FrameStart ==
  /\ spc # "off" /\ en /\ ~busy
  /\ busy' = TRUE
  /\ cap' = [cfg |-> regs, fresh |-> FALSE,
             whole |-> ~skew /\ (kind = "hist" => cap = Nothing)]
  /\ skew' = FALSE
  /\ UNCHANGED <<kind, state, bvars, cvars, avars, raced, evars, uvars,
                 buf_processing, spc, isr, en, rvars, irq, sbl, dma>>

FrameEnd ==
  /\ busy /\ ~irq /\ ~sbl /\ isr = "none"
  /\ busy' = FALSE
  /\ irq' = TRUE
  /\ cap' = [cap EXCEPT !.fresh = TRUE]
  /\ UNCHANGED <<kind, state, bvars, cvars, avars, raced, evars, uvars,
                 buf_processing, spc, isr, en, rvars, skew, sbl, dma>>

\* The SBL loses data of the frame.
SblOverflow ==
  /\ kind = "h3a" /\ busy /\ ~skew
  /\ sbl' = TRUE /\ skew' = TRUE
  /\ cap' = [cap EXCEPT !.whole = FALSE]
  /\ UNCHANGED <<kind, state, bvars, cvars, avars, raced, evars, uvars,
                 buf_processing, spc, isr, en, rvars, busy, irq, dma>>

-----------------------------------------------------------------------------
Client(t) ==
  \/ Request(t) \/ RequestGet(t) \/ RequestDone(t) \/ RequestFails(t)
  \/ \E size \in 1 .. MaxSize : Config(t, size)
  \/ ConfigAlloc(t) \/ ConfigNoMemory(t) \/ ConfigSet(t)
  \/ Enable(t) \/ Disable(t)

Handlers == SblOverflowIsr \/ StatIsr \/ DmaIsr \/ IsrFinish \/ FrameSync

StopGoesOn == \/ StreamStopModule \/ StreamStopCheck \/ StreamStopHandler
              \/ StreamStopCrash \/ StreamStopped

Next ==
  /\ spc # "crashed"
  /\ \/ \E t \in Threads : Client(t)
     \/ Handlers
     \/ StreamStart \/ StreamStop \/ StopGoesOn
     \/ FrameStart \/ FrameEnd \/ SblOverflow

Spec == Init /\ [][Next]_vars

\* Interrupts are handled, frames and DMA end, frames come, and the thread of
\* STREAMOFF goes on between the interrupts.  The clients may do nothing.
FairSpec ==
  /\ Spec
  /\ WF_vars(SblOverflowIsr \/ StatIsr \/ DmaIsr \/ IsrFinish)
  /\ WF_vars(FrameStart) /\ SF_vars(FrameEnd)
  /\ SF_vars(StopGoesOn)

-----------------------------------------------------------------------------
Counts == 0 .. MaxConfigs
Sizes == 0 .. MaxSize

\* Every variable has its type: buf_err, an atomic counter that three handlers
\* set and one decrements, stays between 0 and 2, and every configuration is
\* counted once, in config_counter or in inc_config.
TypeOK ==
  /\ kind \in Kinds
  /\ state \in {"DISABLED", "DISABLING", "ENABLED", "ENABLING"}
  /\ active_buf \in Bufs \cup {None} /\ locked_buf \in Bufs \cup {None}
  /\ full \in Seq(Bufs) /\ Len(full) <= MaxBufs
  /\ buf_alloc_size \in Sizes /\ psize \in Sizes /\ rsize \in Sizes
  /\ buf_err \in 0 .. 2
  /\ {update, sbl_ovl_recover, configured, buf_processing,
      en, busy, skew, irq, sbl, dma, raced} \subseteq BOOLEAN
  /\ priv \in Counts /\ config_counter \in Counts /\ inc_config \in Counts
  /\ priv = config_counter + inc_config
  /\ ioctl_lock \in Threads \cup {None}
  /\ pc \in [Threads -> {"user", "request", "copy", "alloc", "set"}]
  /\ arg \in [Threads -> Sizes]
  /\ spc \in {"off", "on", "disable", "check", "handler", "wait", "crashed"}
  /\ isr \in {"none", "module", "dma"}
  /\ regs \in Counts \cup {Recovery} /\ addr \in Bufs \cup {None}
  /\ cap \in [cfg : Counts \cup {Recovery}, whole : BOOLEAN, fresh : BOOLEAN]

\* Whatever writes to memory, the H3A or the DMA of the histogram, and the
\* handler that has been entered for it, use an active buffer: one that is not
\* freed, is not being copied to a client, holds no statistics a client may
\* ask for, and is large enough for the configuration in the registers,
\* although bufs_free and copy_to_user run without stat_lock.
HwTargetsActive ==
  isr # "none" \/ dma \/ (kind = "h3a" /\ busy) =>
    /\ active_buf \in Bufs \ (Held \cup {locked_buf})
    /\ kind = "h3a" => addr = active_buf
    /\ rsize <= buf_alloc_size

\* Statistics become available to clients only if they are those of one whole
\* frame, in its place, and were taken with the configuration whose number they
\* carry: never a frame with an overflow, the one after it, one taken with the
\* recovery configuration or, of the histogram, two frames added up.  Unless a
\* client enabled the module during s_stream(0), whose call of the handler then
\* uses up a count of buf_err, or copies an empty histogram.
QueuedIsTrue ==
  [][~raced /\ active_buf \in Held' \ Held =>
       cap.whole /\ cap.cfg = config_counter]_vars

\* s_stream(0) leaves the module disabled and idle, with or without a last
\* interrupt and a DMA under way, unless a client enables it meanwhile.
StopCompletes ==
  spc = "disable" ~> raced \/ (spc = "off" /\ state = "DISABLED" /\ ~en /\ ~dma)

\* The handlers disable the module on entry, and one path does not enable it:
\* while the pipeline streams an enabled module is always enabled again.
EnabledRuns == spc = "on" /\ state = "ENABLED" ~> en \/ spc # "on" \/ state # "ENABLED"
=============================================================================
