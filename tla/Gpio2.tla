-------------------------------- MODULE Gpio2 -------------------------------
(***************************************************************************)
(* The GPIO character device (gpio2.c): a file may take the interrupt of   *)
(* one pin (GPIO_IRQ_INIT, GPIO_IRQ_FREE) and wait for it (GPIO_IRQ_WAIT). *)
(* The driver has no lock: the ioctls run under the big kernel lock, which *)
(* a thread gives up where it sleeps, in copy_from_user, in request_irq    *)
(* and in the wait.  Interrupts come between any two steps.                *)
(*                                                                         *)
(* The completion, gpio_request and request_irq are external, modelled as  *)
(* the driver uses them; one function stands for the owner of a pin and of *)
(* its interrupt.  GPIO_DIRECTION, GPIO_READ and GPIO_WRITE keep no state  *)
(* in the driver.                                                          *)
(*                                                                         *)
(* hits is a history variable: which of the weaknesses noted in the code,  *)
(* "XXX pin 0 may be valid" and "XXX need a mutex", or an edge before the  *)
(* completion is initialised, a behaviour has met.                         *)
(***************************************************************************)
EXTENDS Integers, Sequences

CONSTANTS
  Threads, Files,
  Pins,      \* numbers of pins, perhaps 0
  MaxDone,   \* bound: edges counted by a completion
  None

ASSUME GpioAssumption ==
  /\ Pins \subseteq Nat
  /\ MaxDone \in Nat \ {0}
  /\ None \notin Threads \cup Files

VARIABLES
  open,        \* the files that are open: their gpio_info is allocated
  irq_pin,     \* info->irq_pin of each file, 0 for none
  ready,       \* the files whose completion was initialised
  done, waitq, \* the completions: the count and the threads that sleep
  handler,     \* the file a pin's interrupt is registered for
  pc, file, pin,   \* where each thread is, and its arguments
  kept,        \* history: files with an edge after the last IRQ call on them
  hits,        \* history: see above
  crashed      \* a handler used memory that is freed or not initialised

infos == <<open, irq_pin, ready>>
completions == <<done, waitq>>
threads == <<pc, file, pin>>
vars == <<infos, completions, handler, threads, kept, hits, crashed>>

Init ==
  /\ open = {} /\ ready = {}
  /\ irq_pin = [f \in Files |-> 0]
  /\ done = [f \in Files |-> 0]
  /\ waitq = [f \in Files |-> <<>>]
  /\ handler = [p \in Pins |-> None]
  /\ pc = [t \in Threads |-> "user"]
  /\ file = [t \in Threads |-> None]
  /\ pin = [t \in Threads |-> 0]
  /\ kept = {} /\ hits = {} /\ crashed = FALSE

-----------------------------------------------------------------------------
Inside(f) == {t \in Threads : file[t] = f /\ pc[t] # "user"}

\* Thread t makes an IRQ call on file f, for pin p.
Calls(t, f, p) ==
  /\ pc[t] = "user" /\ f \in open
  /\ kept' = kept \ {f}
  /\ hits' = hits \cup (IF Inside(f) # {} THEN {"no mutex"} ELSE {})
                  \cup (IF p = 0 THEN {"pin 0"} ELSE {})

Enters(t, f, p, place) ==
  /\ Calls(t, f, p)
  /\ pc' = [pc EXCEPT ![t] = place]
  /\ file' = [file EXCEPT ![t] = f]
  /\ pin' = [pin EXCEPT ![t] = p]

Goes(t, place) ==
  /\ pc' = [pc EXCEPT ![t] = place]
  /\ UNCHANGED <<file, pin>>

Returns(t) ==
  /\ pc' = [pc EXCEPT ![t] = "user"]
  /\ file' = [file EXCEPT ![t] = None]
  /\ pin' = [pin EXCEPT ![t] = 0]

\* init_completion.
Initialised(f) ==
  /\ done' = [done EXCEPT ![f] = 0]
  /\ waitq' = [waitq EXCEPT ![f] = <<>>]

Unregistered(f, p) == [handler EXCEPT ![p] = IF @ = f THEN None ELSE @]

Open(f) ==
  /\ f \notin open
  /\ open' = open \cup {f}
  /\ irq_pin' = [irq_pin EXCEPT ![f] = 0]
  /\ ready' = ready \ {f}
  /\ done' = [done EXCEPT ![f] = 0]
  /\ waitq' = [waitq EXCEPT ![f] = <<>>]
  /\ kept' = kept \ {f}
  /\ UNCHANGED <<handler, threads, hits, crashed>>

\* gpio_release, when no call uses the file any more.  The mutant leaves the
\* interrupt to the next owner of the pin.
ReleaseKeepsIrq(f) ==
  /\ f \in open /\ Inside(f) = {}
  /\ open' = open \ {f}
  /\ irq_pin' = [irq_pin EXCEPT ![f] = 0]
  /\ UNCHANGED <<ready, completions, handler, threads, kept, hits, crashed>>

Release(f) ==
  /\ f \in open /\ Inside(f) = {}
  /\ open' = open \ {f}
  /\ handler' = IF irq_pin[f] # 0 THEN Unregistered(f, irq_pin[f]) ELSE handler
  /\ irq_pin' = [irq_pin EXCEPT ![f] = 0]
  /\ UNCHANGED <<ready, completions, threads, kept, hits, crashed>>

-----------------------------------------------------------------------------
(* GPIO_IRQ_INIT.                                                          *)

\* irq_pin is tested before the arguments are copied.
IrqInit(t, f, p) ==
  /\ Enters(t, f, p, "init")
  /\ irq_pin[f] = 0
  /\ UNCHANGED <<infos, completions, handler, crashed>>

\* gpio_request and request_irq.
IrqInitRequest(t) ==
  /\ pc[t] = "init"
  /\ handler[pin[t]] = None
  /\ handler' = [handler EXCEPT ![pin[t]] = file[t]]
  /\ Goes(t, "registered")
  /\ UNCHANGED <<infos, completions, kept, hits, crashed>>

\* The arguments are refused, the pin is taken or has no interrupt.
IrqInitFails(t) ==
  /\ pc[t] = "init"
  /\ Returns(t)
  /\ UNCHANGED <<infos, completions, handler, kept, hits, crashed>>

IrqInitDone(t) ==
  /\ pc[t] = "registered"
  /\ irq_pin' = [irq_pin EXCEPT ![file[t]] = pin[t]]
  /\ ready' = ready \cup {file[t]}
  /\ Initialised(file[t])
  /\ Returns(t)
  /\ UNCHANGED <<open, handler, kept, hits, crashed>>

-----------------------------------------------------------------------------
(* GPIO_IRQ_FREE and GPIO_IRQ_WAIT copy their arguments first.             *)

IrqFree(t, f, p) ==
  /\ Calls(t, f, p)
  /\ p # 0 /\ irq_pin[f] = p
  /\ handler' = Unregistered(f, p)
  /\ irq_pin' = [irq_pin EXCEPT ![f] = 0]
  /\ UNCHANGED <<open, ready, completions, threads, crashed>>

\* wait_for_completion_interruptible; the mutants do not look at the pin, and
\* initialise the completion before the wait.
IrqWaitUnchecked(t, f, p) ==
  /\ done[f] = 0 /\ f \in ready
  /\ Enters(t, f, p, "sleep")
  /\ waitq' = [waitq EXCEPT ![f] = Append(@, t)]
  /\ UNCHANGED <<infos, handler, done, crashed>>

IrqWaitInitFirst(t, f, p) ==
  /\ p # 0 /\ irq_pin[f] = p
  /\ Enters(t, f, p, "sleep")
  /\ done' = [done EXCEPT ![f] = 0]
  /\ waitq' = [waitq EXCEPT ![f] = <<t>>]
  /\ UNCHANGED <<infos, handler, crashed>>

IrqWait(t, f, p) ==
  /\ p # 0 /\ irq_pin[f] = p
  /\ \/ /\ done[f] = 0
        /\ Enters(t, f, p, "sleep")
        /\ waitq' = [waitq EXCEPT ![f] = Append(@, t)]
        /\ UNCHANGED done
     \/ /\ done[f] > 0
        /\ Enters(t, f, p, "waited")
        /\ done' = [done EXCEPT ![f] = @ - 1]
        /\ UNCHANGED waitq
  /\ UNCHANGED <<infos, handler, crashed>>

\* A thread that init_completion has cut off the queue empties it when it
\* removes its entry.
Dequeued(t, q) == IF \E i \in DOMAIN q : q[i] = t THEN SelectSeq(q, LAMBDA u : u # t) ELSE <<>>

\* The thread runs again; it takes the edge, unless it is gone.
IrqWaitWakes(t) ==
  /\ pc[t] = "awake"
  /\ IF done[file[t]] > 0
     THEN /\ done' = [done EXCEPT ![file[t]] = @ - 1]
          /\ waitq' = [waitq EXCEPT ![file[t]] = Dequeued(t, @)]
          /\ Goes(t, "waited")
     ELSE Goes(t, "sleep") /\ UNCHANGED completions
  /\ UNCHANGED <<infos, handler, kept, hits, crashed>>

\* A signal ends the wait, and the call returns 0 as if there was an edge.
IrqWaitSignal(t) ==
  /\ pc[t] = "sleep"
  /\ waitq' = [waitq EXCEPT ![file[t]] = Dequeued(t, @)]
  /\ Goes(t, "waited")
  /\ UNCHANGED <<infos, done, handler, kept, hits, crashed>>

\* init_completion after the wait: edges since it ended are dropped.
IrqWaitDone(t) ==
  /\ pc[t] = "waited"
  /\ Initialised(file[t])
  /\ Returns(t)
  /\ UNCHANGED <<infos, handler, kept, hits, crashed>>

-----------------------------------------------------------------------------
\* gpio_handler: complete() counts the edge and wakes the first thread.
Handler(p) ==
  LET f == handler[p] IN
  /\ f \in open \cap ready /\ done[f] < MaxDone
  /\ done' = [done EXCEPT ![f] = @ + 1]
  /\ pc' = IF waitq[f] # <<>> /\ pc[Head(waitq[f])] = "sleep"
           THEN [pc EXCEPT ![Head(waitq[f])] = "awake"] ELSE pc
  /\ kept' = IF Inside(f) = {} THEN kept \cup {f} ELSE kept
  /\ UNCHANGED <<infos, waitq, handler, file, pin, hits, crashed>>

\* The file's gpio_info is freed, or its queue is not initialised.
HandlerCrash(p) ==
  LET f == handler[p] IN
  /\ f # None /\ f \notin open \cap ready
  /\ crashed' = TRUE
  /\ hits' = IF f \in open THEN hits \cup {"early edge"} ELSE hits
  /\ UNCHANGED <<infos, completions, handler, threads, kept>>

Thread(t) ==
  \/ \E f \in Files, p \in Pins : IrqInit(t, f, p) \/ IrqFree(t, f, p) \/ IrqWait(t, f, p)
  \/ IrqInitRequest(t) \/ IrqInitFails(t) \/ IrqInitDone(t)
  \/ IrqWaitWakes(t) \/ IrqWaitSignal(t) \/ IrqWaitDone(t)

Next ==
  /\ ~crashed
  /\ \/ \E t \in Threads : Thread(t)
     \/ \E f \in Files : Open(f) \/ Release(f)
     \/ \E p \in Pins : Handler(p) \/ HandlerCrash(p)

Spec == Init /\ [][Next]_vars

\* A thread that can run does, and every pin has edges for ever.
FairSpec ==
  /\ Spec
  /\ \A t \in Threads : WF_vars(~crashed /\ (IrqInitDone(t) \/ IrqWaitWakes(t) \/ IrqWaitDone(t)))
  /\ \A p \in Pins : WF_vars(~crashed /\ Handler(p))

-----------------------------------------------------------------------------
\* Whoever has a pin's interrupt is an open file that knows it, in irq_pin, or
\* is about to: GPIO_IRQ_FREE or gpio_release will give it back, and its handler
\* never uses a gpio_info that is freed.  If calls on a file never overlap and
\* pin 0 is not used.
HandlersOwned ==
  hits \subseteq {"early edge"} =>
    \A p \in Pins : handler[p] # None =>
      /\ handler[p] \in open
      /\ \/ irq_pin[handler[p]] = p
         \/ \E t \in Inside(handler[p]) : pc[t] = "registered" /\ pin[t] = p

\* An edge that comes while no IRQ call is made on the file is not lost: the
\* next GPIO_IRQ_WAIT does not sleep, although each wait ends by resetting the
\* completion and the file's interrupt may be freed and taken again.
EdgesKept ==
  [][\A t \in Threads : pc[t] = "user" /\ pc'[t] = "sleep" => file'[t] \notin kept]_vars

\* If pins have edges for ever, a GPIO_IRQ_WAIT returns, unless calls on the
\* file overlap.
WaitReturns ==
  \A t \in Threads :
    pc[t] \in {"sleep", "awake", "waited"} ~> pc[t] = "user" \/ "no mutex" \in hits \/ crashed
=============================================================================
