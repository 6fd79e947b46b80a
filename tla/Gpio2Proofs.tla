----------------------------- MODULE Gpio2Proofs ----------------------------
(***************************************************************************)
(* HandlersOwned for any number of threads, files and pins.  As long as no *)
(* two calls on a file have overlapped and pin 0 was not asked for, one    *)
(* thread at most is inside the IRQ calls of a file, and while it is in    *)
(* GPIO_IRQ_INIT the file has no pin.                                      *)
(***************************************************************************)
EXTENDS Gpio2, TLAPS

Types ==
  /\ irq_pin \in [Files -> Pins \cup {0}]
  /\ handler \in [Pins -> Files \cup {None}]
  /\ DOMAIN pc = Threads
  /\ file \in [Threads -> Files \cup {None}]
  /\ pin \in [Threads -> Pins \cup {0}]
  /\ open \subseteq Files

\* A thread in a call uses an open file, and pins that exist.
CallsOpen ==
  \A t \in Threads : pc[t] # "user" => file[t] \in open /\ pin[t] \in Pins

Careful == hits \subseteq {"early edge"}

\* One thread at most is in the calls of a file.
Alone ==
  \A t, u \in Threads : pc[t] # "user" /\ pc[u] # "user" /\ file[t] = file[u] => t = u

\* Until GPIO_IRQ_INIT returns, the file has no pin.
InitFirst ==
  \A t \in Threads : pc[t] \in {"init", "registered"} => irq_pin[file[t]] = 0 /\ pin[t] # 0

\* Every handler belongs to an open file that knows of it.
Owned ==
  \A p \in Pins : handler[p] # None =>
    /\ p # 0 /\ handler[p] \in open
    /\ \/ irq_pin[handler[p]] = p
       \/ \E t \in Threads : file[t] = handler[p] /\ pc[t] = "registered" /\ pin[t] = p

IndInv == Types /\ CallsOpen /\ (Careful => Alone /\ InitFirst /\ Owned)

-----------------------------------------------------------------------------
LEMMA InitInd == Init => IndInv
  BY DEF Init, IndInv, Types, CallsOpen, Careful, Alone, InitFirst, Owned

\* What a call changes of the history variables.
LEMMA CallCareful ==
  ASSUME NEW t, NEW f, NEW p, Calls(t, f, p)
  PROVE  /\ Careful' => Careful
         /\ Careful' => p # 0 /\ \A u \in Threads : file[u] = f => pc[u] = "user"
  BY DEF Calls, Careful, Inside

LEMMA StepOpen ==
  ASSUME IndInv, NEW f \in Files, Open(f) PROVE IndInv'
<1>1. Types' /\ CallsOpen'
  BY DEF IndInv, Types, CallsOpen, Open, threads
<1>2. ASSUME Careful' PROVE Alone' /\ InitFirst' /\ Owned'
  <2>1. Careful /\ Alone /\ InitFirst /\ Owned
    BY <1>2 DEF IndInv, Careful, Open
  <2>2. \A p \in Pins : handler[p] # f
    BY <2>1, GpioAssumption DEF Owned, Open
  <2>3. Alone'
    BY <2>1 DEF Alone, Open, threads
  <2>4. InitFirst'
    BY <2>1 DEF InitFirst, Open, threads, IndInv, Types, CallsOpen
  <2>5. Owned'
    BY <2>1, <2>2 DEF Owned, Open, threads, IndInv, Types
  <2> QED BY <2>3, <2>4, <2>5
<1> QED BY <1>1, <1>2 DEF IndInv

LEMMA StepRelease ==
  ASSUME IndInv, NEW f \in Files, Release(f) PROVE IndInv'
<1>1. \A t \in Threads : file[t] = f => pc[t] = "user"
  BY DEF Release, Inside
<1>2. Types' /\ CallsOpen'
  BY <1>1 DEF IndInv, Types, CallsOpen, Release, threads, Unregistered
<1>3. ASSUME Careful' PROVE Alone' /\ InitFirst' /\ Owned'
  <2>1. Careful /\ Alone /\ InitFirst /\ Owned
    BY <1>3 DEF IndInv, Careful, Release
  <2>3. Alone'
    BY <2>1 DEF Alone, Release, threads
  <2>4. InitFirst'
    BY <2>1, <1>1 DEF InitFirst, Release, threads, IndInv, Types, CallsOpen
  <2>5. \A p \in Pins : handler[p] = f => irq_pin[f] = p /\ p # 0
    BY <2>1, <1>1, GpioAssumption DEF Owned
  <2>6. \A p \in Pins : handler'[p] # f /\ (handler'[p] # None => handler'[p] = handler[p])
    BY <2>5, GpioAssumption DEF Release, Unregistered, IndInv, Types
  <2>7. Owned'
    BY <2>1, <2>6, GpioAssumption DEF Owned, Release, threads, IndInv, Types
  <2> QED BY <2>3, <2>4, <2>7
<1> QED BY <1>2, <1>3 DEF IndInv

LEMMA StepIrqInit ==
  ASSUME IndInv, NEW t \in Threads, NEW f \in Files, NEW p \in Pins, IrqInit(t, f, p)
  PROVE  IndInv'
<1>1. Types' /\ CallsOpen'
  BY DEF IndInv, Types, CallsOpen, IrqInit, Enters, Calls, infos
<1>2. ASSUME Careful' PROVE Alone' /\ InitFirst' /\ Owned'
  <2>1. /\ Careful /\ Alone /\ InitFirst /\ Owned
        /\ p # 0 /\ \A u \in Threads : file[u] = f => pc[u] = "user"
    BY <1>2, CallCareful DEF IndInv, IrqInit, Enters
  <2>2. /\ pc' = [pc EXCEPT ![t] = "init"] /\ file' = [file EXCEPT ![t] = f]
        /\ pin' = [pin EXCEPT ![t] = p] /\ pc[t] = "user" /\ irq_pin[f] = 0
        /\ UNCHANGED <<open, irq_pin, handler>>
    BY DEF IrqInit, Enters, Calls, infos
  <2>3. Alone'
    BY <2>1, <2>2 DEF Alone, IndInv, Types
  <2>4. InitFirst'
    BY <2>1, <2>2 DEF InitFirst, IndInv, Types
  <2>5. Owned'
    BY <2>1, <2>2 DEF Owned, IndInv, Types
  <2> QED BY <2>3, <2>4, <2>5
<1> QED BY <1>1, <1>2 DEF IndInv

LEMMA StepIrqFree ==
  ASSUME IndInv, NEW t \in Threads, NEW f \in Files, NEW p \in Pins, IrqFree(t, f, p)
  PROVE  IndInv'
<1>1. Types' /\ CallsOpen'
  BY DEF IndInv, Types, CallsOpen, IrqFree, Unregistered, threads
<1>2. ASSUME Careful' PROVE Alone' /\ InitFirst' /\ Owned'
  <2>1. /\ Careful /\ Alone /\ InitFirst /\ Owned
        /\ p # 0 /\ \A u \in Threads : file[u] = f => pc[u] = "user"
    BY <1>2, CallCareful DEF IndInv, IrqFree
  <2>2. /\ irq_pin' = [irq_pin EXCEPT ![f] = 0] /\ irq_pin[f] = p
        /\ handler' = [handler EXCEPT ![p] = IF @ = f THEN None ELSE @]
        /\ UNCHANGED <<open, pc, file, pin>>
    BY DEF IrqFree, Unregistered, threads
  <2>3. Alone'
    BY <2>1, <2>2 DEF Alone
  <2>4. InitFirst'
    BY <2>1, <2>2 DEF InitFirst, IndInv, Types, CallsOpen
  <2>5. \A q \in Pins : handler[q] = f => q = p
    BY <2>1, <2>2, GpioAssumption DEF Owned
  <2>6. \A q \in Pins : handler'[q] # f /\ (handler'[q] # None => handler'[q] = handler[q])
    BY <2>2, <2>5, GpioAssumption DEF IndInv, Types
  <2>7. Owned'
    BY <2>1, <2>2, <2>6, GpioAssumption DEF Owned, IndInv, Types
  <2> QED BY <2>3, <2>4, <2>7
<1> QED BY <1>1, <1>2 DEF IndInv

LEMMA StepIrqInitRequest ==
  ASSUME IndInv, NEW t \in Threads, IrqInitRequest(t) PROVE IndInv'
<1> DEFINE p == pin[t]
<1>0. /\ pc[t] = "init" /\ handler[p] = None /\ p \in Pins /\ file[t] \in open
      /\ handler' = [handler EXCEPT ![p] = file[t]]
      /\ pc' = [pc EXCEPT ![t] = "registered"]
      /\ UNCHANGED <<open, irq_pin, file, pin, hits>>
  BY DEF IndInv, CallsOpen, IrqInitRequest, Goes, infos
<1>1. Types' /\ CallsOpen'
  BY <1>0 DEF IndInv, Types, CallsOpen
<1>2. ASSUME Careful' PROVE Alone' /\ InitFirst' /\ Owned'
  <2>1. Careful /\ Alone /\ InitFirst /\ Owned
    BY <1>0, <1>2 DEF IndInv, Careful
  <2>2. Alone'
    BY <1>0, <2>1 DEF Alone, IndInv, Types
  <2>3. InitFirst'
    BY <1>0, <2>1 DEF InitFirst, IndInv, Types
  <2>4. Owned'
    BY <1>0, <2>1 DEF Owned, InitFirst, IndInv, Types
  <2> QED BY <2>2, <2>3, <2>4
<1> QED BY <1>1, <1>2 DEF IndInv

LEMMA StepIrqInitDone ==
  ASSUME IndInv, NEW t \in Threads, IrqInitDone(t) PROVE IndInv'
<1> DEFINE f == file[t]
<1>0. /\ pc[t] = "registered" /\ f \in open /\ f \in Files /\ pin[t] \in Pins
      /\ irq_pin' = [irq_pin EXCEPT ![f] = pin[t]]
      /\ pc' = [pc EXCEPT ![t] = "user"] /\ file' = [file EXCEPT ![t] = None]
      /\ pin' = [pin EXCEPT ![t] = 0]
      /\ UNCHANGED <<open, handler, hits>>
  BY DEF IndInv, Types, CallsOpen, IrqInitDone, Returns
<1>1. Types' /\ CallsOpen'
  BY <1>0 DEF IndInv, Types, CallsOpen
<1>2. ASSUME Careful' PROVE Alone' /\ InitFirst' /\ Owned'
  <2>1. Careful /\ Alone /\ InitFirst /\ Owned
    BY <1>0, <1>2 DEF IndInv, Careful
  <2>2. Alone'
    BY <1>0, <2>1 DEF Alone, IndInv, Types
  <2>3. \A u \in Threads : u # t /\ pc[u] # "user" => file[u] # f
    BY <1>0, <2>1 DEF Alone
  <2>4. InitFirst'
    BY <1>0, <2>1, <2>3 DEF InitFirst, IndInv, Types, CallsOpen
  <2>5. \A q \in Pins : handler[q] = f => q = pin[t]
    BY <1>0, <2>1, <2>3, GpioAssumption DEF Owned, InitFirst
  <2>6. Owned'
    BY <1>0, <2>1, <2>5 DEF Owned, IndInv, Types
  <2> QED BY <2>2, <2>4, <2>6
<1> QED BY <1>1, <1>2 DEF IndInv

\* Steps that touch neither a pin nor a handler, and leave GPIO_IRQ_INIT only
\* where nothing is registered.
Stays(t) == pc'[t] = pc[t] /\ file'[t] = file[t] /\ pin'[t] = pin[t]

Waits(t) ==
  /\ pc[t] \in {"sleep", "awake", "waited"} /\ pc'[t] \in {"sleep", "awake", "waited"}
  /\ file'[t] = file[t] /\ pin'[t] = pin[t]

Elsewhere ==
  /\ UNCHANGED <<open, irq_pin, handler>>
  /\ Careful' => Careful
  /\ DOMAIN pc' = Threads
  /\ file' \in [Threads -> Files \cup {None}]
  /\ pin' \in [Threads -> Pins \cup {0}]
  /\ \A t \in Threads : \/ pc'[t] = "user" /\ pc[t] # "registered"
                       \/ Stays(t) \/ Waits(t)

LEMMA StepElsewhere ==
  ASSUME IndInv, Elsewhere
  PROVE  IndInv'
<1>1. Types' /\ CallsOpen'
  BY DEF IndInv, Types, CallsOpen, Elsewhere, Stays, Waits
<1>2. ASSUME Careful' PROVE Alone' /\ InitFirst' /\ Owned'
  <2>1. Careful /\ Alone /\ InitFirst /\ Owned
    BY <1>2 DEF IndInv, Elsewhere
  <2>2. Alone'
    BY <2>1 DEF Alone, Elsewhere, Stays, Waits
  <2>3. InitFirst'
    BY <2>1 DEF InitFirst, Elsewhere, Stays, Waits
  <2>4. Owned'
    BY <2>1 DEF Owned, Elsewhere, Stays, Waits
  <2> QED BY <2>2, <2>3, <2>4
<1> QED BY <1>1, <1>2 DEF IndInv

LEMMA StepIrqWait ==
  ASSUME IndInv, NEW t \in Threads, NEW f \in Files, NEW p \in Pins, IrqWait(t, f, p)
  PROVE  IndInv'
<1>0. /\ pc[t] = "user" /\ f \in open /\ Calls(t, f, p)
      /\ \E w \in {"sleep", "waited"} : pc' = [pc EXCEPT ![t] = w]
      /\ file' = [file EXCEPT ![t] = f] /\ pin' = [pin EXCEPT ![t] = p]
      /\ UNCHANGED <<open, irq_pin, handler>>
  BY DEF IrqWait, Enters, Calls, infos
<1>1. Types' /\ CallsOpen'
  BY <1>0 DEF IndInv, Types, CallsOpen
<1>2. ASSUME Careful' PROVE Alone' /\ InitFirst' /\ Owned'
  <2>1. /\ Careful /\ Alone /\ InitFirst /\ Owned
        /\ \A u \in Threads : file[u] = f => pc[u] = "user"
    BY <1>0, <1>2, CallCareful DEF IndInv
  <2>2. Alone'
    BY <1>0, <2>1 DEF Alone, IndInv, Types
  <2>3. InitFirst'
    BY <1>0, <2>1 DEF InitFirst, IndInv, Types
  <2>4. Owned'
    BY <1>0, <2>1 DEF Owned, IndInv, Types
  <2> QED BY <2>2, <2>3, <2>4
<1> QED BY <1>1, <1>2 DEF IndInv

LEMMA StepThread ==
  ASSUME IndInv, NEW t \in Threads, Thread(t) PROVE IndInv'
<1>1. ASSUME NEW f \in Files, NEW p \in Pins, IrqInit(t, f, p) PROVE IndInv'
  BY <1>1, StepIrqInit
<1>2. ASSUME NEW f \in Files, NEW p \in Pins, IrqFree(t, f, p) PROVE IndInv'
  BY <1>2, StepIrqFree
<1>3. ASSUME NEW f \in Files, NEW p \in Pins, IrqWait(t, f, p) PROVE IndInv'
  BY <1>3, StepIrqWait
<1>4. CASE IrqInitRequest(t)
  BY <1>4, StepIrqInitRequest
<1>5. CASE IrqInitDone(t)
  BY <1>5, StepIrqInitDone
<1>6. CASE IrqInitFails(t)
  <2>1. Elsewhere
    BY <1>6 DEF Elsewhere, Stays, Waits, IrqInitFails, Returns, infos, IndInv, Types, Careful
  <2> QED BY <2>1, StepElsewhere
<1>7. CASE IrqWaitWakes(t)
  <2>1. Elsewhere
    BY <1>7 DEF Elsewhere, Stays, Waits, IrqWaitWakes, Goes, infos, IndInv, Types, Careful
  <2> QED BY <2>1, StepElsewhere
<1>8. CASE IrqWaitSignal(t)
  <2>1. Elsewhere
    BY <1>8 DEF Elsewhere, Stays, Waits, IrqWaitSignal, Goes, infos, IndInv, Types, Careful
  <2> QED BY <2>1, StepElsewhere
<1>9. CASE IrqWaitDone(t)
  <2>1. Elsewhere
    BY <1>9 DEF Elsewhere, Stays, Waits, IrqWaitDone, Returns, infos, IndInv, Types, Careful
  <2> QED BY <2>1, StepElsewhere
<1> QED
  BY <1>1, <1>2, <1>3, <1>4, <1>5, <1>6, <1>7, <1>8, <1>9 DEF Thread

LEMMA StepHandler ==
  ASSUME IndInv, NEW p \in Pins, Handler(p) \/ HandlerCrash(p) PROVE IndInv'
<1>1. CASE Handler(p)
  <2>1. Elsewhere
    BY <1>1 DEF Elsewhere, Stays, Waits, Handler, infos, IndInv, Types, Careful
  <2> QED BY <2>1, StepElsewhere
<1>2. CASE HandlerCrash(p)
  <2>1. Elsewhere
    BY <1>2 DEF Elsewhere, Stays, Waits, HandlerCrash, infos, threads, IndInv, Types, Careful
  <2> QED BY <2>1, StepElsewhere
<1> QED BY <1>1, <1>2

LEMMA StepInd == IndInv /\ [Next]_vars => IndInv'
<1> SUFFICES ASSUME IndInv, [Next]_vars PROVE IndInv'
  OBVIOUS
<1>1. CASE UNCHANGED vars
  BY <1>1 DEF vars, infos, threads, IndInv, Types, CallsOpen, Careful, Alone, InitFirst, Owned
<1>2. CASE Next
  BY <1>2, StepThread, StepOpen, StepRelease, StepHandler DEF Next
<1> QED BY <1>1, <1>2

\* Whatever threads, files and pins there are: a pin's interrupt is never left
\* to a file that is closed or has forgotten it, if calls on a file do not
\* overlap and pin 0 is not used (the missing mutex and "pin 0 may be valid").
THEOREM InterruptsOwned == Spec => []HandlersOwned
<1>1. Init => IndInv
  BY InitInd
<1>2. IndInv /\ [Next]_vars => IndInv'
  BY StepInd
<1>3. IndInv => HandlersOwned
  BY DEF IndInv, Careful, Owned, HandlersOwned, Inside
<1> QED BY <1>1, <1>2, <1>3, PTL DEF Spec

-----------------------------------------------------------------------------
\* An edge that came while no call was made on the file is still counted: no
\* thread has been inside the file since to take it or to drop it.
Kept ==
  /\ done \in [Files -> Nat]
  /\ \A f \in kept : /\ f \in Files /\ done[f] > 0
                     /\ \A t \in Threads : file[t] = f => pc[t] = "user"

LEMMA KeptInit == Init => Kept
  BY DEF Init, Kept

\* A thread inside a file counts down or initialises the completion of that
\* file only, which holds no kept edge.
LEMMA KeptInside ==
  ASSUME IndInv, Kept, NEW t \in Threads, pc[t] # "user", UNCHANGED kept,
         done' \in [Files -> Nat], \A f \in Files : f # file[t] => done'[f] = done[f],
         \A u \in Threads : u # t => pc'[u] = pc[u] /\ file'[u] = file[u],
         file'[t] = file[t] \/ pc'[t] = "user"
  PROVE  Kept'
<1>1. file[t] \notin kept
  BY DEF Kept
<1> QED BY <1>1 DEF Kept

LEMMA KeptStep == IndInv /\ Kept /\ [Next]_vars => Kept'
<1> SUFFICES ASSUME IndInv, Kept, [Next]_vars PROVE Kept'
  OBVIOUS
<1>0. DOMAIN pc = Threads /\ file \in [Threads -> Files \cup {None}] /\ open \subseteq Files
  BY DEF IndInv, Types
<1>1. CASE UNCHANGED vars
  BY <1>1 DEF vars, completions, threads, Kept
<1>2. ASSUME NEW f \in Files, Open(f) \/ Release(f) PROVE Kept'
  BY <1>2 DEF Open, Release, completions, threads, Kept
<1>3. ASSUME NEW t \in Threads, NEW f \in Files, NEW p \in Pins, IrqInit(t, f, p) \/ IrqFree(t, f, p)
      PROVE  Kept'
  <2>1. CASE IrqInit(t, f, p)
    <3>1. /\ kept' = kept \ {f} /\ UNCHANGED done /\ file'[t] = f
          /\ \A u \in Threads : u # t => pc'[u] = pc[u] /\ file'[u] = file[u]
      BY <1>0, <2>1 DEF IrqInit, Enters, Calls, completions
    <3> QED BY <3>1 DEF Kept
  <2>2. CASE IrqFree(t, f, p)
    <3>1. kept' = kept \ {f} /\ UNCHANGED <<done, pc, file>>
      BY <2>2 DEF IrqFree, Calls, completions, threads
    <3> QED BY <3>1 DEF Kept
  <2> QED BY <1>3, <2>1, <2>2
<1>4. ASSUME NEW t \in Threads, NEW f \in Files, NEW p \in Pins, IrqWait(t, f, p) PROVE Kept'
  <2>1. /\ kept' = kept \ {f} /\ \A u \in Threads : u # t => pc'[u] = pc[u] /\ file'[u] = file[u]
        /\ file'[t] = f
    BY <1>0, <1>4 DEF IrqWait, Enters, Calls
  <2>2. done' \in [Files -> Nat] /\ \A g \in Files : g # f => done'[g] = done[g]
    BY <1>4 DEF IrqWait, Kept
  <2> QED BY <2>1, <2>2 DEF Kept
<1>5. ASSUME NEW t \in Threads, IrqInitRequest(t) \/ IrqInitFails(t) PROVE Kept'
  BY <1>0, <1>5, KeptInside DEF IrqInitRequest, IrqInitFails, Goes, Returns, completions, Kept
<1>6. ASSUME NEW t \in Threads, IrqInitDone(t) \/ IrqWaitDone(t) PROVE Kept'
  BY <1>0, <1>6, KeptInside DEF IrqInitDone, IrqWaitDone, Initialised, Returns, Kept
<1>7. ASSUME NEW t \in Threads, IrqWaitSignal(t) PROVE Kept'
  BY <1>0, <1>7, KeptInside DEF IrqWaitSignal, Goes, Kept
<1>8. ASSUME NEW t \in Threads, IrqWaitWakes(t) PROVE Kept'
  <2>1. /\ pc[t] = "awake" /\ UNCHANGED <<kept, file>>
        /\ \A u \in Threads : u # t => pc'[u] = pc[u]
    BY <1>0, <1>8 DEF IrqWaitWakes, Goes
  <2>2. done' \in [Files -> Nat] /\ \A f \in Files : f # file[t] => done'[f] = done[f]
    BY <1>8 DEF IrqWaitWakes, completions, Kept
  <2> QED BY <2>1, <2>2, KeptInside
<1>9. ASSUME NEW p \in Pins, Handler(p) PROVE Kept'
  <2> DEFINE f == handler[p]
  <2>1. /\ f \in Files /\ done' = [done EXCEPT ![f] = @ + 1] /\ UNCHANGED file
        /\ kept' = IF Inside(f) = {} THEN kept \cup {f} ELSE kept
        /\ \A t \in Threads : pc[t] = "user" => pc'[t] = "user"
    BY <1>0, <1>9 DEF Handler
  <2>2. done' \in [Files -> Nat] /\ done'[f] > 0 /\ \A g \in Files : done[g] > 0 => done'[g] > 0
    BY <2>1 DEF Kept
  <2> HIDE DEF f
  <2> QED BY <2>1, <2>2 DEF Kept, Inside
<1>10. ASSUME NEW p \in Pins, HandlerCrash(p) PROVE Kept'
  BY <1>10 DEF HandlerCrash, completions, threads, Kept
<1> QED BY <1>1, <1>2, <1>3, <1>4, <1>5, <1>6, <1>7, <1>8, <1>9, <1>10 DEF Next, Thread

\* An edge between two calls is never lost, whatever the number of threads and
\* whatever their calls did before: the GPIO_IRQ_WAIT that follows does not
\* sleep, although every wait ends by initialising the completion.
THEOREM EdgesAreKept == Spec => EdgesKept
<1>1. Kept /\ IndInv /\ [Next]_vars =>
        [\A t \in Threads : pc[t] = "user" /\ pc'[t] = "sleep" => file'[t] \notin kept]_vars
  <2> SUFFICES ASSUME Kept, IndInv, Next, NEW t \in Threads, pc[t] = "user", pc'[t] = "sleep"
               PROVE  file'[t] \notin kept
    OBVIOUS
  <2>0. DOMAIN pc = Threads /\ file \in [Threads -> Files \cup {None}]
    BY DEF IndInv, Types
  <2>1. \E f \in Files, p \in Pins : IrqWait(t, f, p)
    <3>1. ASSUME NEW u \in Threads, Thread(u) PROVE \E f \in Files, p \in Pins : IrqWait(t, f, p)
      <4>1. u = t
        BY <2>0, <3>1 DEF Thread, IrqInit, IrqFree, IrqWait, IrqInitRequest, IrqInitFails, IrqInitDone,
                          IrqWaitWakes, IrqWaitSignal, IrqWaitDone, Enters, Goes, Returns, threads
      <4> QED BY <2>0, <3>1, <4>1 DEF Thread, IrqInit, IrqFree, IrqInitRequest, IrqInitFails, IrqInitDone,
                          IrqWaitWakes, IrqWaitSignal, IrqWaitDone, Enters, Goes, Returns, threads
    <3>2. ASSUME NEW f \in Files, Open(f) \/ Release(f) PROVE FALSE
      BY <3>2 DEF Open, Release, threads
    <3>3. ASSUME NEW p \in Pins, Handler(p) \/ HandlerCrash(p) PROVE FALSE
      BY <2>0, <3>3 DEF Handler, HandlerCrash, threads
    <3> QED BY <3>1, <3>2, <3>3 DEF Next
  <2>2. PICK f \in Files, p \in Pins : IrqWait(t, f, p)
    BY <2>1
  <2>3. file'[t] = f /\ done[f] = 0
    BY <2>0, <2>2 DEF IrqWait, Enters
  <2> QED BY <2>3 DEF Kept
<1> QED BY <1>1, InitInd, StepInd, KeptInit, KeptStep, PTL DEF Spec, EdgesKept
=============================================================================
