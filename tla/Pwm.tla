-------------------------------- MODULE Pwm --------------------------------
(***************************************************************************)
(* The PWM character device of the drone: pwm.c, which gives a channel to  *)
(* one open file at a time, over omap_pwm.c, which programs an OMAP        *)
(* dual-mode timer per channel.                                            *)
(*                                                                         *)
(* An ioctl runs under dev->lock and is one step.  close() does not take   *)
(* the lock: what it does interleaves with the ioctls of other files.      *)
(*                                                                         *)
(* A timer counts from its load value to MaxUint and starts again; its     *)
(* output toggles when it overflows and when it reaches its match value.   *)
(* TLC's integers are narrower than the registers, so the widths of the    *)
(* registers, the clock and the width range are parameters.                *)
(***************************************************************************)
EXTENDS Integers, FiniteSets

CONSTANTS
  Files,     \* open files of /dev/pwm, one per process
  Channels,  \* channels clients ask for, below PWM_NB_TIMER
  Unusable,  \* channels without a free timer: 0 has none, the kernel owns some
  Freqs,     \* frequencies clients ask for
  MaxUint,   \* MAX_UINT32
  WidthMax,  \* PWM_WIDTH_MAX, a duty cycle of 100 %
  ClkSpeed,  \* rate of the timer's clock
  None       \* PWM_ID_NONE

Widths == 0 .. WidthMax

ASSUME PwmAssumption ==
  /\ Channels \subseteq Nat /\ Unusable \subseteq Channels
  /\ Freqs \subseteq Nat
  /\ MaxUint \in Nat /\ WidthMax \in Nat \ {0} /\ ClkSpeed \in Nat
  /\ ClkSpeed \div 2 <= MaxUint
  /\ None \notin Nat

VARIABLES
  pc,       \* where each file is: "closed", "open", "freeing"
  id_used,  \* info->id_used
  active,   \* omap_pwm[n].pwm_active
  ratio,    \* omap_pwm[n].ratio
  freq,     \* omap_pwm[n].freq
  mask,     \* pwm_precision_mask, one for all channels
  reserved, \* the channel's timer is reserved
  running,  \* ... and counts
  load,     \* ... from this value
  match     \* ... toggling at this one

regs == <<load, match>>
vars == <<pc, id_used, active, ratio, freq, mask, reserved, running, regs>>

Init ==
  /\ pc = [f \in Files |-> "closed"]
  /\ id_used = [f \in Files |-> None]
  /\ active = [n \in Channels |-> FALSE]
  /\ ratio = [n \in Channels |-> 0]
  /\ freq = [n \in Channels |-> 0]
  /\ mask = MaxUint
  /\ reserved = [n \in Channels |-> n \in Unusable]
  /\ running = [n \in Channels |-> FALSE]
  /\ load = [n \in Channels |-> 0]
  /\ match = [n \in Channels |-> 0]

-----------------------------------------------------------------------------
(* Arithmetic.                                                             *)

\* Mutant: the compare may fall on the overflow.
ComputeRatioUncapped(r, m) ==
  (r * (MaxUint - m) + WidthMax \div 2) \div WidthMax

\* Mutant: rounds up by a whole step.
ComputeRatioRoundsUp(r, m) ==
  LET val == (r * (MaxUint - m) + WidthMax) \div WidthMax
  IN IF val = MaxUint - m /\ val # 0 THEN val - 1 ELSE val

\* compute_ratio: a width as a number of ticks of the period MaxUint - m,
\* rounded, and never the whole period.
ComputeRatio(r, m) ==
  LET val == (r * (MaxUint - m) + WidthMax \div 2) \div WidthMax
  IN IF val = MaxUint - m /\ val # 0 THEN val - 1 ELSE val

\* omap_pwm_get_width: back from ticks to a width. It divides by 0 until a
\* frequency has been set.
GetWidth(r, m) == (ComputeRatio(r, m) * WidthMax) \div (MaxUint - m)

\* omap_pwm_set_width on channel n under the precision m.
SetWidth(n, r, m) ==
  /\ ratio' = [ratio EXCEPT ![n] = r]
  /\ match' = [match EXCEPT ![n] = m + ComputeRatio(r, m)]

-----------------------------------------------------------------------------
(* open() and the ioctls.                                                  *)

Holds(f, n) == pc[f] = "open" /\ id_used[f] = n

\* An ioctl that programs the timer of a channel without one faults in the
\* kernel; such calls are not followed.
Drives(f, n) == Holds(f, n) /\ active[n]

Open(f) ==
  /\ pc[f] = "closed"
  /\ pc' = [pc EXCEPT ![f] = "open"]
  /\ UNCHANGED <<id_used, active, ratio, freq, mask, reserved, running, regs>>

\* PWM_REQUEST of a channel nobody holds: its timer is reserved, reset and
\* programmed to no pulse.
Request(f, n) ==
  /\ Holds(f, None)
  /\ ~active[n] /\ ~reserved[n]
  /\ reserved' = [reserved EXCEPT ![n] = TRUE]
  /\ load' = [load EXCEPT ![n] = mask]
  /\ match' = [match EXCEPT ![n] = mask]
  /\ active' = [active EXCEPT ![n] = TRUE]
  /\ id_used' = [id_used EXCEPT ![f] = n]
  /\ UNCHANGED <<pc, ratio, freq, mask, running>>

\* Its timer cannot be had: omap_pwm_request ignores the error and the file
\* holds a channel that is not active.
RequestWithoutTimer(f, n) ==
  /\ Holds(f, None)
  /\ ~active[n] /\ reserved[n]
  /\ id_used' = [id_used EXCEPT ![f] = n]
  /\ UNCHANGED <<pc, active, ratio, freq, mask, reserved, running, regs>>

\* Mutant: the timer is given back as it is.
FreeTimerRunning(n) ==
  /\ reserved' = [reserved EXCEPT ![n] = FALSE]
  /\ UNCHANGED running

\* omap_dm_timer_free resets the timer, which stops it.
FreeTimer(n) ==
  /\ reserved' = [reserved EXCEPT ![n] = FALSE]
  /\ running' = [running EXCEPT ![n] = FALSE]

\* PWM_RELEASE: an inactive channel has no timer to free.
Release(f, n) ==
  /\ Holds(f, n)
  /\ IF active[n] THEN FreeTimer(n) ELSE UNCHANGED <<reserved, running>>
  /\ active' = [active EXCEPT ![n] = FALSE]
  /\ id_used' = [id_used EXCEPT ![f] = None]
  /\ UNCHANGED <<pc, ratio, freq, mask, regs>>

\* PWM_START, PWM_STOP.
Start(f, n) ==
  /\ Drives(f, n)
  /\ running' = [running EXCEPT ![n] = TRUE]
  /\ UNCHANGED <<pc, id_used, active, ratio, freq, mask, reserved, regs>>

Stop(f, n) ==
  /\ Drives(f, n)
  /\ running' = [running EXCEPT ![n] = FALSE]
  /\ UNCHANGED <<pc, id_used, active, ratio, freq, mask, reserved, regs>>

\* PWM_SET_WIDTH.
IoctlSetWidth(f, n, r) ==
  /\ Drives(f, n)
  /\ SetWidth(n, r, mask)
  /\ UNCHANGED <<pc, id_used, active, freq, mask, reserved, running, load>>

\* Mutant: the width is read back before the precision changes.
IoctlSetFreqLate(f, n, q) ==
  LET period == (ClkSpeed \div 2) \div q
  IN /\ Drives(f, n)
     /\ q # 0 /\ q < ClkSpeed \div 2
     /\ freq' = [freq EXCEPT ![n] = (ClkSpeed \div 2) \div period]
     /\ mask' = MaxUint - period
     /\ load' = [load EXCEPT ![n] = mask']
     /\ SetWidth(n, IF mask = MaxUint THEN ratio[n] ELSE GetWidth(ratio[n], mask), mask')
     /\ UNCHANGED <<pc, id_used, active, reserved, running>>

\* PWM_SET_FREQ: the period becomes the precision of all channels, and the
\* width is programmed again as far as the new precision can express it.
IoctlSetFreq(f, n, q) ==
  LET period == (ClkSpeed \div 2) \div q
  IN /\ Drives(f, n)
     /\ q # 0 /\ q < ClkSpeed \div 2
     /\ freq' = [freq EXCEPT ![n] = (ClkSpeed \div 2) \div period]
     /\ mask' = MaxUint - period
     /\ load' = [load EXCEPT ![n] = mask']
     /\ SetWidth(n, GetWidth(ratio[n], mask'), mask')
     /\ UNCHANGED <<pc, id_used, active, reserved, running>>

-----------------------------------------------------------------------------
(* close() does not take dev->lock.                                        *)

\* Mutant: the channel is given back before its timer is.
CloseFreesFlagFirst(f) ==
  /\ pc[f] = "open"
  /\ pc' = [pc EXCEPT ![f] = "freeing"]
  /\ active' = [n \in Channels |-> active[n] /\ n # id_used[f]]
  /\ UNCHANGED <<id_used, ratio, freq, mask, reserved, running, regs>>

\* pwm_release up to omap_dm_timer_free ...
CloseFrees(f) ==
  /\ pc[f] = "open"
  /\ pc' = [pc EXCEPT ![f] = "freeing"]
  /\ LET n == id_used[f]
     IN IF n # None /\ active[n] THEN FreeTimer(n) ELSE UNCHANGED <<reserved, running>>
  /\ UNCHANGED <<id_used, active, ratio, freq, mask, regs>>

\* ... then the channel is inactive and the file gone.
CloseEnds(f) ==
  /\ pc[f] = "freeing"
  /\ pc' = [pc EXCEPT ![f] = "closed"]
  /\ active' = [n \in Channels |-> active[n] /\ n # id_used[f]]
  /\ id_used' = [id_used EXCEPT ![f] = None]
  /\ UNCHANGED <<ratio, freq, mask, reserved, running, regs>>

Next ==
  \E f \in Files :
    \/ Open(f) \/ CloseFrees(f) \/ CloseEnds(f)
    \/ \E n \in Channels :
         \/ Request(f, n) \/ RequestWithoutTimer(f, n) \/ Release(f, n)
         \/ Start(f, n) \/ Stop(f, n)
         \/ \E r \in Widths : IoctlSetWidth(f, n, r)
         \/ \E q \in Freqs : IoctlSetFreq(f, n, q)

Spec == Init /\ [][Next]_vars

-----------------------------------------------------------------------------
(* Properties.                                                             *)

TypeOK ==
  /\ pc \in [Files -> {"closed", "open", "freeing"}]
  /\ id_used \in [Files -> Channels \cup {None}]
  /\ active \in [Channels -> BOOLEAN]
  /\ ratio \in [Channels -> Widths]
  /\ freq \in [Channels -> 0 .. ClkSpeed \div 2]
  /\ mask \in 0 .. MaxUint
  /\ reserved \in [Channels -> BOOLEAN]
  /\ running \in [Channels -> BOOLEAN]
  /\ load \in [Channels -> 0 .. MaxUint]
  /\ match \in [Channels -> 0 .. MaxUint]

\* Whoever holds a channel that has a timer holds it alone and with the timer
\* reserved for it, although close() gives channels back outside dev->lock:
\* the flag that lets others in is cleared after the timer is free.
HolderHasTimer ==
  \A f \in Files, n \in Channels \ Unusable :
    Holds(f, n) => /\ active[n] /\ reserved[n]
                   /\ \A g \in Files \ {f} : id_used[g] # n

\* A motor or LED signal never outlives its owner: when a process releases
\* the channel, closes the file or dies, the timer no longer counts, with
\* STOP_ON_EXIT undefined (ioctl_pwm_release, omap_dm_timer_free).
StopsWithOwner ==
  \A n \in Channels : running[n] => \E f \in Files : Holds(f, n)

\* With one channel in use the compare always falls inside the period, after
\* the load value and before the overflow, through every order of requests,
\* frequencies and widths: the output toggles twice a period (compute_ratio).
CompareInPeriod ==
  \A f \in Files, n \in Channels :
    Drives(f, n) /\ load[n] < MaxUint => load[n] <= match[n] /\ match[n] < MaxUint

\* Changing the frequency moves the duty cycle by at most one step of the new
\* precision, rounded up, whatever the precision was before
\* (omap_pwm_set_freq recomputes the ratio with the new mask).
DutyKept ==
  [][\A f \in Files, n \in Channels, q \in Freqs :
       IoctlSetFreq(f, n, q) =>
         LET step == WidthMax \div (MaxUint - mask') + 1
         IN ratio'[n] \in ratio[n] - step .. ratio[n] + step]_vars

=============================================================================
