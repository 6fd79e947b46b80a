------------------------------ MODULE PwmProofs ------------------------------
(***************************************************************************)
(* Ownership of the PWM channels, for any number of files and channels:    *)
(* whoever holds a channel holds it alone and with its timer, and no timer *)
(* counts without an owner, although close() does not take dev->lock.      *)
(*                                                                         *)
(* The arithmetic of omap_pwm.c, for any clock, register width, width      *)
(* range and frequencies: the registers and the widths stay in range, the  *)
(* compare falls inside the period and a new frequency keeps the duty      *)
(* cycle.                                                                  *)
(***************************************************************************)
EXTENDS Pwm, TLAPS

\* The types the argument needs.
OwnerTypes ==
  /\ pc \in [Files -> {"closed", "open", "freeing"}]
  /\ id_used \in [Files -> Channels \cup {None}]
  /\ active \in [Channels -> BOOLEAN]
  /\ reserved \in [Channels -> BOOLEAN]
  /\ running \in [Channels -> BOOLEAN]

\* A file names a channel while the channel is marked active, also while it
\* closes, and nobody else names it.
Claimed ==
  \A f \in Files, n \in Channels \ Unusable :
    id_used[f] = n => active[n] /\ \A g \in Files \ {f} : id_used[g] # n

\* A closed file holds nothing.
ClosedHoldsNothing == \A f \in Files : pc[f] = "closed" => id_used[f] = None

\* The timer is reserved for an open holder, no longer for a closing one and
\* never for an inactive channel: a request does not find the timer taken.
TimerFollows ==
  /\ \A f \in Files, n \in Channels \ Unusable :
       id_used[f] = n => (reserved[n] <=> pc[f] = "open")
  /\ \A n \in Channels \ Unusable : reserved[n] => active[n]

\* A channel without a timer is never marked active and never runs.
UnusableIdle ==
  \A n \in Unusable : reserved[n] /\ ~active[n] /\ ~running[n]

\* The inductive invariant.
OwnerInv ==
  /\ OwnerTypes /\ Claimed /\ ClosedHoldsNothing /\ TimerFollows /\ UnusableIdle
  /\ StopsWithOwner

\* A freed timer leaves the types of the timers alone (omap_dm_timer_free).
LEMMA FreeTimerTypes ==
  ASSUME OwnerTypes, NEW n \in Channels, FreeTimer(n)
  PROVE  reserved' \in [Channels -> BOOLEAN] /\ running' \in [Channels -> BOOLEAN]
BY DEF OwnerTypes, FreeTimer

\* The invariant holds initially (omap_pwm_init): nothing is held.
LEMMA OwnerInit == Init => OwnerInv
<1> SUFFICES ASSUME Init PROVE OwnerInv
  OBVIOUS
<1> USE PwmAssumption DEF Init
<1>1. OwnerTypes
  BY DEF OwnerTypes
<1>2. \A f \in Files, n \in Channels : id_used[f] # n
  OBVIOUS
<1>3. Claimed /\ ClosedHoldsNothing
  BY <1>2 DEF Claimed, ClosedHoldsNothing
<1>4. TimerFollows /\ UnusableIdle /\ StopsWithOwner
  BY <1>2 DEF TimerFollows, UnusableIdle, StopsWithOwner, Holds
<1>5. QED
  BY <1>1, <1>3, <1>4 DEF OwnerInv

\* Every ioctl, and each half of close(), preserves the invariant.
LEMMA OwnerStep == OwnerInv /\ [Next]_vars => OwnerInv'
<1> SUFFICES ASSUME OwnerInv, [Next]_vars PROVE OwnerInv'
  OBVIOUS
<1> USE PwmAssumption
<1> USE DEF OwnerInv, OwnerTypes, Claimed, ClosedHoldsNothing, TimerFollows,
            UnusableIdle, StopsWithOwner, Holds
<1>1. CASE UNCHANGED vars
  BY <1>1 DEF vars, regs
<1>2. ASSUME NEW f \in Files, Open(f) PROVE OwnerInv'
  BY <1>2 DEF Open
<1>3. ASSUME NEW f \in Files, CloseFrees(f) PROVE OwnerInv'
  <2>1. OwnerTypes'
    <3>1. CASE id_used[f] # None /\ active[id_used[f]]
      BY <1>3, <3>1, FreeTimerTypes DEF CloseFrees
    <3>2. CASE ~(id_used[f] # None /\ active[id_used[f]])
      BY <1>3, <3>2 DEF CloseFrees
    <3>3. QED
      BY <3>1, <3>2
  <2>2. Claimed' /\ ClosedHoldsNothing'
    BY <1>3 DEF CloseFrees, FreeTimer
  <2>3. TimerFollows' /\ UnusableIdle'
    BY <1>3 DEF CloseFrees, FreeTimer
  <2>4. StopsWithOwner'
    BY <1>3 DEF CloseFrees, FreeTimer
  <2>5. QED
    BY <2>1, <2>2, <2>3, <2>4
<1>4. ASSUME NEW f \in Files, CloseEnds(f) PROVE OwnerInv'
  <2>1. OwnerTypes'
    BY <1>4 DEF CloseEnds
  <2>2. Claimed' /\ ClosedHoldsNothing'
    BY <1>4 DEF CloseEnds
  <2>3. TimerFollows' /\ UnusableIdle'
    BY <1>4 DEF CloseEnds
  <2>4. StopsWithOwner'
    BY <1>4 DEF CloseEnds
  <2>5. QED
    BY <2>1, <2>2, <2>3, <2>4
<1>5. ASSUME NEW f \in Files, NEW n \in Channels, Request(f, n) PROVE OwnerInv'
  BY <1>5 DEF Request
<1>6. ASSUME NEW f \in Files, NEW n \in Channels, RequestWithoutTimer(f, n) PROVE OwnerInv'
  BY <1>6 DEF RequestWithoutTimer
<1>7. ASSUME NEW f \in Files, NEW n \in Channels, Release(f, n) PROVE OwnerInv'
  <2>1. OwnerTypes'
    <3>1. CASE active[n]
      BY <1>7, <3>1, FreeTimerTypes DEF Release
    <3>2. CASE ~active[n]
      BY <1>7, <3>2 DEF Release
    <3>3. QED
      BY <3>1, <3>2
  <2>2. Claimed' /\ ClosedHoldsNothing'
    BY <1>7 DEF Release, FreeTimer
  <2>3. TimerFollows' /\ UnusableIdle'
    BY <1>7 DEF Release, FreeTimer
  <2>4. StopsWithOwner'
    BY <1>7 DEF Release, FreeTimer
  <2>5. QED
    BY <2>1, <2>2, <2>3, <2>4
<1>8. ASSUME NEW f \in Files, NEW n \in Channels, Start(f, n) PROVE OwnerInv'
  BY <1>8 DEF Start, Drives
<1>9. ASSUME NEW f \in Files, NEW n \in Channels, Stop(f, n) PROVE OwnerInv'
  BY <1>9 DEF Stop, Drives
<1>10. ASSUME NEW f \in Files, NEW n \in Channels, NEW r \in Widths,
              IoctlSetWidth(f, n, r) PROVE OwnerInv'
  BY <1>10 DEF IoctlSetWidth
<1>11. ASSUME NEW f \in Files, NEW n \in Channels, NEW q \in Freqs,
              IoctlSetFreq(f, n, q) PROVE OwnerInv'
  BY <1>11 DEF IoctlSetFreq
<1>12. QED
  BY <1>1, <1>2, <1>3, <1>4, <1>5, <1>6, <1>7, <1>8, <1>9, <1>10, <1>11 DEF Next

\* The inductive invariant holds in every reachable state.
LEMMA OwnerInvariant == Spec => []OwnerInv
BY OwnerInit, OwnerStep, PTL DEF Spec

\* Whoever holds a channel that has a timer holds it alone and with its
\* timer, for any number of files and channels (ioctl_pwm_request, pwm_release).
THEOREM ChannelOwnedAlone == Spec => []HolderHasTimer
<1>1. OwnerInv => HolderHasTimer
  BY DEF OwnerInv, HolderHasTimer, Claimed, TimerFollows, Holds
<1>2. QED
  BY <1>1, OwnerInvariant, PTL

\* No timer counts without an owner, for any number of files and channels
\* (ioctl_pwm_release, omap_pwm_set_active).
THEOREM SignalStopsWithOwner == Spec => []StopsWithOwner
<1>1. OwnerInv => StopsWithOwner
  BY DEF OwnerInv
<1>2. QED
  BY <1>1, OwnerInvariant, PTL

-----------------------------------------------------------------------------
(* Arithmetic.                                                             *)

LEMMA TimesMono ==
  ASSUME NEW a \in Int, NEW b \in Int, NEW c \in Nat, a <= b
  PROVE  a * c <= b * c
OBVIOUS

LEMMA TimesCancel ==
  ASSUME NEW a \in Int, NEW b \in Int, NEW c \in Nat, a * c < b * c
  PROVE  a < b
OBVIOUS

LEMMA Division ==
  ASSUME NEW a \in Nat, NEW b \in Nat \ {0}
  PROVE  /\ a \div b \in Nat
         /\ (a \div b) * b <= a
         /\ a < (a \div b) * b + b
OBVIOUS

LEMMA Distribute ==
  ASSUME NEW a \in Int, NEW b \in Int, NEW c \in Int
  PROVE  /\ a * c \in Int /\ a * c = c * a
         /\ (a + b) * c = a * c + b * c /\ (a - b) * c = a * c - b * c
         /\ 1 * c = c /\ 2 * c = c + c
OBVIOUS

\* compute_ratio is r * period / WidthMax, rounded, and within the period.
LEMMA RatioInPeriod ==
  ASSUME NEW r \in Widths, NEW m \in 0 .. MaxUint
  PROVE  LET P == MaxUint - m  c == ComputeRatio(r, m)
         IN /\ c \in 0 .. P
            /\ P > 0 => c < P
            /\ c * WidthMax <= r * P + WidthMax \div 2
            /\ c # P - 1 => r * P + WidthMax \div 2 < c * WidthMax + WidthMax
PROOF
<1> DEFINE P == MaxUint - m
           h == WidthMax \div 2
           v == (r * P + h) \div WidthMax
<1>1. P \in Nat /\ r \in Nat /\ r <= WidthMax /\ WidthMax \in Nat /\ WidthMax > 0
  BY PwmAssumption DEF Widths
<1>2. h \in Nat /\ h < WidthMax
  BY <1>1
<1>3. r * P \in Nat /\ r * P <= WidthMax * P
  BY <1>1, TimesMono
<1>4. v \in Nat /\ v * WidthMax <= r * P + h /\ r * P + h < v * WidthMax + WidthMax
  <2> HIDE DEF h, P
  <2>1. r * P + h \in Nat /\ WidthMax \in Nat \ {0}
    BY <1>1, <1>2, <1>3
  <2> QED BY ONLY <2>1, Division
<1>5. v * WidthMax < (P + 1) * WidthMax
  <2>1. (P + 1) * WidthMax = WidthMax * P + WidthMax
    BY <1>1, Distribute
  <2>2. v * WidthMax \in Nat /\ WidthMax * P \in Nat
    BY <1>1, <1>4
  <2> HIDE DEF v, h, P
  <2> QED BY <1>1, <1>2, <1>3, <1>4, <2>1, <2>2
<1>6. v <= P
  BY <1>1, <1>4, <1>5, TimesCancel
<1>7. ComputeRatio(r, m) = IF v = P /\ v # 0 THEN v - 1 ELSE v
  BY DEF ComputeRatio
<1> HIDE DEF v, h, P
<1>8. CASE v = P /\ v # 0
  <2>1. ComputeRatio(r, m) = v - 1
    BY <1>7, <1>8
  <2>2. (v - 1) * WidthMax = v * WidthMax - WidthMax
    BY <1>1, <1>4, Distribute
  <2> QED BY <1>1, <1>2, <1>3, <1>4, <1>8, <2>1, <2>2 DEF P, h
<1>9. CASE ~(v = P /\ v # 0)
  <2>1. ComputeRatio(r, m) = v
    BY <1>7, <1>9
  <2> QED BY <1>1, <1>2, <1>3, <1>4, <1>6, <1>9, <2>1 DEF P, h
<1> QED BY <1>8, <1>9

\* omap_pwm_get_width reads back a width that compute_ratio has rounded: it is
\* in range, and off by at most one step of the precision, rounded up.
LEMMA WidthReadBack ==
  ASSUME NEW r \in Widths, NEW m \in 0 .. MaxUint, m # MaxUint
  PROVE  LET step == WidthMax \div (MaxUint - m) + 1
         IN GetWidth(r, m) \in Widths /\ GetWidth(r, m) \in r - step .. r + step
PROOF
<1> DEFINE P == MaxUint - m
           W == WidthMax
           h == W \div 2
           c == ComputeRatio(r, m)
           g == (c * W) \div P
           s == W \div P
<1>1. P \in Nat \ {0} /\ r \in Nat /\ r <= W /\ W \in Nat \ {0} /\ h \in Nat /\ h < W
  BY PwmAssumption DEF Widths
<1>2. /\ c \in Nat /\ c <= P - 1
      /\ c * W <= r * P + h
      /\ c # P - 1 => r * P + h < c * W + W
  BY <1>1, RatioInPeriod
<1>3. GetWidth(r, m) = g
  BY DEF GetWidth
<1> HIDE DEF P, W, h, c
<1>4. /\ c * W \in Nat /\ r * P \in Nat /\ W * P \in Nat /\ P * W = W * P
      /\ r * P <= W * P
  BY <1>1, <1>2, TimesMono, Distribute
<1>5. g \in Nat /\ g * P <= c * W /\ c * W < g * P + P /\ g * P \in Nat
  BY <1>1, <1>4, Division
<1>6. s \in Nat /\ s * P \in Nat /\ W < s * P + P
  BY <1>1, Division
<1> HIDE DEF g, s
\* Reading back never rounds up by more than half a step.
<1>7. g <= r + s
  <2>1. g * P < (r + s + 1) * P
    <3>1. (r + s + 1) * P = r * P + s * P + P
      BY <1>1, <1>6
    <3> QED BY <1>1, <1>2, <1>4, <1>5, <1>6, <3>1
  <2> QED BY <1>1, <1>5, <1>6, <2>1, TimesCancel
\* It rounds down, and a full width is one tick short of the period.
<1>8. r <= g + s + 1
  <2>1. r * P < c * W + W + 1
    <3>1. CASE c # P - 1
      BY <1>1, <1>2, <1>4, <3>1
    <3>2. CASE c = P - 1
      <4>1. c * W = P * W - W
        BY <1>1, <3>2, Distribute
      <4> QED BY <1>1, <1>4, <4>1
    <3> QED BY <3>1, <3>2
  <2>2. r * P < (g + s + 2) * P
    <3>1. (g + s + 2) * P = g * P + s * P + P + P
      BY <1>1, <1>5, <1>6
    <3> QED BY <1>1, <1>4, <1>5, <1>6, <2>1, <3>1
  <2> QED BY <1>1, <1>5, <1>6, <2>2, TimesCancel
\* The compare is within the period, so the width is within its range.
<1>9. g <= W
  <2>1. c * W <= P * W
    BY <1>1, <1>2, TimesMono
  <2>2. g * P < (W + 1) * P
    <3>1. (W + 1) * P = W * P + P
      BY <1>1
    <3> QED BY <1>1, <1>4, <1>5, <2>1, <3>1
  <2> QED BY <1>1, <1>5, <2>2, TimesCancel
<1>10. g \in 0 .. W /\ g \in r - (s + 1) .. r + (s + 1)
  BY <1>1, <1>5, <1>6, <1>7, <1>8, <1>9
<1> QED BY <1>3, <1>10 DEF Widths, W, P, s

\* The frequencies of IoctlSetFreq give periods of 1 to MaxUint ticks.
LEMMA PeriodInRange ==
  ASSUME NEW q \in Freqs, q # 0, q < ClkSpeed \div 2
  PROVE  LET period == (ClkSpeed \div 2) \div q
         IN /\ period \in 1 .. MaxUint
            /\ (ClkSpeed \div 2) \div period \in 0 .. ClkSpeed \div 2
PROOF
<1> DEFINE half == ClkSpeed \div 2
           period == half \div q
<1>1. half \in Nat /\ half <= MaxUint /\ q \in Nat \ {0} /\ q < half /\ MaxUint \in Nat
  BY PwmAssumption
<1> HIDE DEF half
<1>2. period \in Nat /\ period * q <= half /\ half < period * q + q
  BY <1>1, Division
<1>3. period >= 1
  BY <1>1, <1>2
<1>4. \A d \in Nat \ {0} : half \div d \in Nat /\ half \div d <= half
  <2> SUFFICES ASSUME NEW d \in Nat \ {0} PROVE half \div d \in Nat /\ half \div d <= half
    OBVIOUS
  <2>1. half \div d \in Nat /\ (half \div d) * d <= half
    BY <1>1, Division
  <2>2. (half \div d) * 1 <= (half \div d) * d
    BY <1>1, <2>1
  <2> QED BY <1>1, <2>1, <2>2
<1> HIDE DEF period
<1>5. period <= half /\ half \div period \in Nat /\ half \div period <= half
  BY <1>1, <1>2, <1>3, <1>4 DEF period
<1> QED BY <1>1, <1>3, <1>5 DEF period, half

-----------------------------------------------------------------------------
(* Registers and widths.                                                   *)

\* The types the arithmetic keeps.
RegTypes ==
  /\ ratio \in [Channels -> Widths]
  /\ freq \in [Channels -> 0 .. ClkSpeed \div 2]
  /\ mask \in 0 .. MaxUint
  /\ load \in [Channels -> 0 .. MaxUint]
  /\ match \in [Channels -> 0 .. MaxUint]

LEMMA SetWidthTypes ==
  ASSUME RegTypes, NEW n \in Channels, NEW r \in Widths, NEW m \in 0 .. MaxUint, SetWidth(n, r, m)
  PROVE  /\ ratio' \in [Channels -> Widths] /\ match' \in [Channels -> 0 .. MaxUint]
         /\ ratio'[n] = r /\ match'[n] = m + ComputeRatio(r, m)
         /\ \A k \in Channels \ {n} : match'[k] = match[k]
PROOF
<1>1. m + ComputeRatio(r, m) \in 0 .. MaxUint
  BY RatioInPeriod, PwmAssumption
<1> QED BY <1>1 DEF SetWidth, RegTypes

LEMMA SetFreqTypes ==
  ASSUME RegTypes, NEW f \in Files, NEW n \in Channels, NEW q \in Freqs, IoctlSetFreq(f, n, q)
  PROVE  /\ RegTypes' /\ mask' # MaxUint
         /\ load'[n] = mask' /\ ratio'[n] = GetWidth(ratio[n], mask')
         /\ match'[n] = mask' + ComputeRatio(ratio'[n], mask')
         /\ \A k \in Channels \ {n} : load'[k] = load[k] /\ match'[k] = match[k]
PROOF
<1>1. q # 0 /\ q < ClkSpeed \div 2
  BY DEF IoctlSetFreq
<1>2. mask' = MaxUint - (ClkSpeed \div 2) \div q /\ load' = [load EXCEPT ![n] = mask']
      /\ freq' = [freq EXCEPT ![n] = (ClkSpeed \div 2) \div ((ClkSpeed \div 2) \div q)]
      /\ SetWidth(n, GetWidth(ratio[n], mask'), mask')
  BY DEF IoctlSetFreq
<1>3. /\ (ClkSpeed \div 2) \div q \in 1 .. MaxUint
      /\ (ClkSpeed \div 2) \div ((ClkSpeed \div 2) \div q) \in 0 .. ClkSpeed \div 2
  BY <1>1, PeriodInRange
<1>4. mask' \in 0 .. MaxUint /\ mask' # MaxUint
  BY <1>2, <1>3, PwmAssumption
<1>5. ratio[n] \in Widths
  BY DEF RegTypes
<1>6. GetWidth(ratio[n], mask') \in Widths
  BY <1>4, <1>5, WidthReadBack
<1>7. /\ ratio' \in [Channels -> Widths] /\ match' \in [Channels -> 0 .. MaxUint]
      /\ ratio'[n] = GetWidth(ratio[n], mask')
      /\ match'[n] = mask' + ComputeRatio(GetWidth(ratio[n], mask'), mask')
      /\ \A k \in Channels \ {n} : match'[k] = match[k]
  BY <1>2, <1>4, <1>6, SetWidthTypes
<1>8. freq' \in [Channels -> 0 .. ClkSpeed \div 2]
  BY <1>2, <1>3 DEF RegTypes
<1>9. /\ load' \in [Channels -> 0 .. MaxUint] /\ load'[n] = mask'
      /\ \A k \in Channels \ {n} : load'[k] = load[k]
  BY <1>2, <1>4 DEF RegTypes
<1> QED BY <1>4, <1>7, <1>8, <1>9 DEF RegTypes

\* Every ioctl keeps the registers and the driver's record in range.
LEMMA RegStep == RegTypes /\ [Next]_vars => RegTypes'
PROOF
<1> SUFFICES ASSUME RegTypes, [Next]_vars PROVE RegTypes'
  OBVIOUS
<1>1. ASSUME UNCHANGED <<ratio, freq, mask, regs>> PROVE RegTypes'
  BY <1>1 DEF RegTypes, regs
<1>2. CASE UNCHANGED vars
  BY <1>1, <1>2 DEF vars
<1>3. ASSUME NEW f \in Files, Open(f) \/ CloseFrees(f) \/ CloseEnds(f) PROVE RegTypes'
  BY <1>1, <1>3 DEF Open, CloseFrees, CloseEnds
<1>4. ASSUME NEW f \in Files, NEW n \in Channels,
             RequestWithoutTimer(f, n) \/ Release(f, n) \/ Start(f, n) \/ Stop(f, n)
      PROVE  RegTypes'
  BY <1>1, <1>4 DEF RequestWithoutTimer, Release, Start, Stop
<1>5. ASSUME NEW f \in Files, NEW n \in Channels, Request(f, n) PROVE RegTypes'
  BY <1>5 DEF Request, RegTypes
<1>6. ASSUME NEW f \in Files, NEW n \in Channels, NEW r \in Widths, IoctlSetWidth(f, n, r)
      PROVE  RegTypes'
  <2>1. mask \in 0 .. MaxUint /\ SetWidth(n, r, mask) /\ UNCHANGED <<freq, mask, load>>
    BY <1>6 DEF RegTypes, IoctlSetWidth
  <2>2. ratio' \in [Channels -> Widths] /\ match' \in [Channels -> 0 .. MaxUint]
    BY <2>1, SetWidthTypes
  <2> QED BY <2>1, <2>2 DEF RegTypes
<1>7. ASSUME NEW f \in Files, NEW n \in Channels, NEW q \in Freqs, IoctlSetFreq(f, n, q)
      PROVE  RegTypes'
  BY <1>7, SetFreqTypes
<1> QED BY <1>2, <1>3, <1>4, <1>5, <1>6, <1>7 DEF Next

LEMMA RegInit == Init => RegTypes
BY PwmAssumption DEF Init, RegTypes, Widths

\* No register and no width ever leaves its range, for any clock, register
\* width and frequencies (compute_ratio, omap_pwm_set_freq).
THEOREM TypeCorrect == Spec => []TypeOK
PROOF
<1>1. OwnerInv /\ RegTypes => TypeOK
  BY DEF OwnerInv, OwnerTypes, RegTypes, TypeOK
<1>2. Spec => []RegTypes
  BY RegInit, RegStep, PTL DEF Spec
<1> QED BY <1>1, <1>2, OwnerInvariant, PTL

\* Changing the frequency keeps the duty cycle up to one step of the new
\* precision, for any clock, register width, width range and frequencies, and
\* any number of files and channels (omap_pwm_set_freq).
THEOREM FrequencyKeepsDuty == Spec => DutyKept
PROOF
<1>1. RegTypes /\ [Next]_vars =>
        [\A f \in Files, n \in Channels, q \in Freqs :
           IoctlSetFreq(f, n, q) =>
             LET step == WidthMax \div (MaxUint - mask') + 1
             IN ratio'[n] \in ratio[n] - step .. ratio[n] + step]_vars
  <2> SUFFICES ASSUME RegTypes, NEW f \in Files, NEW n \in Channels, NEW q \in Freqs,
                      IoctlSetFreq(f, n, q)
               PROVE  ratio'[n] \in ratio[n] - (WidthMax \div (MaxUint - mask') + 1)
                                    .. ratio[n] + (WidthMax \div (MaxUint - mask') + 1)
    OBVIOUS
  <2>1. /\ mask' \in 0 .. MaxUint /\ mask' # MaxUint /\ ratio[n] \in Widths
        /\ ratio'[n] = GetWidth(ratio[n], mask')
    BY SetFreqTypes DEF RegTypes
  <2> QED BY <2>1, WidthReadBack
<1>2. Spec => []RegTypes
  BY RegInit, RegStep, PTL DEF Spec
<1> QED BY <1>1, <1>2, PTL DEF Spec, DutyKept

\* With one usable channel the precision mask is the channel's own: a channel
\* in use is loaded with it and compares inside its period.
CompareInv ==
  \A n \in Channels : active[n] =>
    /\ load[n] = mask /\ mask <= match[n]
    /\ mask # MaxUint => match[n] < MaxUint

LEMMA CompareStep ==
  ASSUME \A k, n \in Channels \ Unusable : k = n,
         OwnerInv, RegTypes, CompareInv, [Next]_vars
  PROVE  CompareInv'
PROOF
<1> USE PwmAssumption
<1>1. OwnerTypes /\ UnusableIdle
  BY DEF OwnerInv
<1>2. \A n \in Channels : active[n] => n \in Channels \ Unusable
  BY <1>1 DEF UnusableIdle
<1>3. ASSUME UNCHANGED <<mask, regs>>, \A n \in Channels : active'[n] => active[n]
      PROVE  CompareInv'
  BY <1>3 DEF CompareInv, regs
<1>4. CASE UNCHANGED vars
  BY <1>3, <1>4 DEF vars
<1>5. ASSUME NEW f \in Files, Open(f) \/ CloseFrees(f) \/ CloseEnds(f) PROVE CompareInv'
  BY <1>1, <1>3, <1>5 DEF Open, CloseFrees, CloseEnds, OwnerTypes
<1>6. ASSUME NEW f \in Files, NEW n \in Channels,
             RequestWithoutTimer(f, n) \/ Release(f, n) \/ Start(f, n) \/ Stop(f, n)
      PROVE  CompareInv'
  BY <1>1, <1>3, <1>6 DEF RequestWithoutTimer, Release, Start, Stop, OwnerTypes
<1>7. ASSUME NEW f \in Files, NEW n \in Channels, Request(f, n) PROVE CompareInv'
  BY <1>1, <1>7 DEF Request, OwnerTypes, RegTypes, CompareInv
\* match is the precision plus less than a period.
<1>8. ASSUME NEW r \in Widths, NEW m \in 0 .. MaxUint
      PROVE  /\ m <= m + ComputeRatio(r, m)
             /\ m # MaxUint => m + ComputeRatio(r, m) < MaxUint
  BY <1>8, RatioInPeriod
<1>9. ASSUME NEW f \in Files, NEW n \in Channels, NEW r \in Widths, IoctlSetWidth(f, n, r)
      PROVE  CompareInv'
  <2>1. mask \in 0 .. MaxUint /\ SetWidth(n, r, mask) /\ UNCHANGED <<active, mask, load>>
    BY <1>9 DEF RegTypes, IoctlSetWidth
  <2>2. match'[n] = mask + ComputeRatio(r, mask) /\ \A k \in Channels \ {n} : match'[k] = match[k]
    BY <2>1, SetWidthTypes
  <2>3. mask <= match'[n] /\ (mask # MaxUint => match'[n] < MaxUint)
    BY <1>8, <2>1, <2>2
  <2> QED BY <2>1, <2>2, <2>3 DEF CompareInv
<1>10. ASSUME NEW f \in Files, NEW n \in Channels, NEW q \in Freqs, IoctlSetFreq(f, n, q)
       PROVE  CompareInv'
  <2>1. /\ mask' \in 0 .. MaxUint /\ ratio'[n] \in Widths
        /\ load'[n] = mask' /\ match'[n] = mask' + ComputeRatio(ratio'[n], mask')
    BY <1>10, SetFreqTypes DEF RegTypes
  <2>2. mask' <= match'[n] /\ (mask' # MaxUint => match'[n] < MaxUint)
    BY <1>8, <2>1
  <2>3. UNCHANGED active /\ active[n]
    BY <1>10 DEF IoctlSetFreq, Drives
  <2>4. \A k \in Channels : active[k] => k = n
    BY <1>2, <2>3
  <2> QED BY <2>1, <2>2, <2>3, <2>4 DEF CompareInv
<1> QED BY <1>4, <1>5, <1>6, <1>7, <1>9, <1>10 DEF Next

\* With one usable channel the compare falls inside the period after every
\* sequence of requests, frequencies and widths, for any clock, register width
\* and width range (compute_ratio).
THEOREM OutputTogglesTwice ==
  ASSUME \A k, n \in Channels \ Unusable : k = n
  PROVE  Spec => []CompareInPeriod
PROOF
<1>1. Init => CompareInv
  BY DEF Init, CompareInv
<1>2. OwnerInv /\ RegTypes /\ CompareInv /\ [Next]_vars => CompareInv'
  BY CompareStep
<1>3. CompareInv => CompareInPeriod
  BY PwmAssumption DEF CompareInv, CompareInPeriod, Drives
<1>4. Spec => []RegTypes
  BY RegInit, RegStep, PTL DEF Spec
<1> QED BY <1>1, <1>2, <1>3, <1>4, OwnerInvariant, PTL DEF Spec

=============================================================================
