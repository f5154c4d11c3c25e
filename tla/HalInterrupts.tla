---------------------------- MODULE HalInterrupts ----------------------------
(***************************************************************************)
(* How the HAL registers interrupt routines and calls them: the table      *)
(* alt_irq, written by a program with interrupts off, and alt_irq_handler, *)
(* which calls the routine of the lowest pending number until none is      *)
(* pending.  A line falls some time after its device has been served.      *)
(***************************************************************************)
EXTENDS Integers, FiniteSets

CONSTANTS
  NIrq,       \* ALT_NIRQ
  Routines    \* the interrupt routines

ASSUME HalInterruptsAssumption == NIrq \in Nat \ {0} /\ Routines # {} /\ "NULL" \notin Routines

VARIABLES
  pie,              \* the processor takes interrupts
  ienable,          \* the interrupts enabled one by one: alt_irq_active
  wants, line,      \* what the devices ask for, and what the processor sees
  handler, context, \* the table alt_irq
  step, id, new,    \* where alt_iic_isr_register is, and its arguments
  status, inner,    \* what it, and alt_irq_enable inside it, will restore
  isr, serving      \* where the exception is, and the number it serves

tableVars == <<handler, context>>
progVars == <<step, id, new, status, inner>>
intrVars == <<pie, ienable, wants, line, tableVars, progVars, isr, serving>>

Irqs == 0 .. NIrq - 1
Entries == Routines \cup {"NULL"}

IntrTypeOK ==
  /\ pie \in BOOLEAN /\ ienable \subseteq Irqs /\ wants \subseteq Irqs /\ line \subseteq Irqs
  /\ handler \in [Irqs -> Entries] /\ context \in [Irqs -> Entries]
  /\ step \in {"run", "handler", "context", "disable", "mask", "enable", "restore"}
  /\ id \in Irqs /\ new \in Entries /\ status \in BOOLEAN /\ inner \in BOOLEAN
  /\ isr \in {"none", "test", "first", "call", "serve", "again", "lost"} /\ serving \in Irqs
  /\ isr # "none" => ~pie   \* exceptions do not nest

(* alt_irq_init has let the processor take interrupts; none is enabled.    *)
IntrInit ==
  /\ pie = TRUE /\ ienable = {} /\ wants = {} /\ line = {}
  /\ handler = [i \in Irqs |-> "NULL"] /\ context = [i \in Irqs |-> "NULL"]
  /\ step = "run" /\ id = 0 /\ new = "NULL" /\ status = TRUE /\ inner = TRUE
  /\ isr = "none" /\ serving = 0

-----------------------------------------------------------------------------
(* alt_iic_isr_register, which runs while no exception does.               *)

Pending == line \cap ienable

(* An interrupt that is pending comes first.                               *)
At(label, next) == isr = "none" /\ (pie => Pending = {}) /\ step = label /\ step' = next

(* Mutant: the table is written with interrupts on.                        *)
RegisterEnabled(i, r) ==
  /\ At("run", "handler")
  /\ id' = i /\ new' = r /\ status' = pie
  /\ UNCHANGED <<pie, inner, ienable, wants, line, tableVars, isr, serving>>

Register(i, r) ==
  /\ At("run", "handler")
  /\ id' = i /\ new' = r
  /\ status' = pie /\ pie' = FALSE
  /\ UNCHANGED <<inner, ienable, wants, line, tableVars, isr, serving>>

SetHandler ==
  /\ At("handler", "context")
  /\ handler' = [handler EXCEPT ![id] = new]
  /\ UNCHANGED <<id, new, status, inner, pie, ienable, wants, line, context, isr, serving>>

SetContext ==
  /\ At("context", "disable")
  /\ context' = [context EXCEPT ![id] = new]
  /\ UNCHANGED <<id, new, status, inner, pie, ienable, wants, line, handler, isr, serving>>

(* alt_irq_enable and alt_irq_disable, inside it.                          *)
DisableAll ==
  /\ At("disable", "mask")
  /\ inner' = pie /\ pie' = FALSE
  /\ UNCHANGED <<id, new, status, ienable, wants, line, tableVars, isr, serving>>

Mask ==
  /\ At("mask", "enable")
  /\ ienable' = IF new = "NULL" THEN ienable \ {id} ELSE ienable \cup {id}
  /\ UNCHANGED <<id, new, status, inner, pie, wants, line, tableVars, isr, serving>>

(* alt_irq_enable_all restores what alt_irq_disable_all has found.         *)
EnableAll(label, next, found) ==
  /\ At(label, next)
  /\ pie' = found
  /\ UNCHANGED <<id, new, status, inner, ienable, wants, line, tableVars, isr, serving>>

Registering ==
  \/ SetHandler \/ SetContext \/ DisableAll \/ Mask
  \/ EnableAll("enable", "restore", inner) \/ EnableAll("restore", "run", status)

-----------------------------------------------------------------------------
(* The exception: the entry code, and alt_irq_handler.                     *)

Goes(from, to) ==
  isr = from /\ isr' = to /\ UNCHANGED <<ienable, wants, tableVars, progVars>>

TakeInterrupt ==
  /\ pie /\ Pending # {}
  /\ Goes("none", "test")
  /\ pie' = FALSE
  /\ UNCHANGED <<line, serving>>

(* If nothing is pending any more the entry code takes the exception for   *)
(* an instruction it does not know.                                        *)
TestPending ==
  /\ Goes("test", IF Pending = {} THEN "lost" ELSE "first")
  /\ UNCHANGED <<pie, line, serving>>

Highest(s) == CHOOSE i \in s : \A j \in s : i >= j   \* mutant: the highest number first
Lowest(s) == CHOOSE i \in s : \A j \in s : i <= j

(* The search for the bit never ends if there is none.                     *)
FirstPending ==
  /\ Goes("first", IF Pending = {} THEN "lost" ELSE "call")
  /\ serving' = IF Pending = {} THEN serving ELSE Lowest(Pending)
  /\ UNCHANGED <<pie, line>>

(* A routine satisfies its device; what its device asks for may be another *)
(* thing soon.                                                             *)
CallHandler ==
  /\ isr = "call" /\ isr' = "serve"
  /\ wants' = wants \ {serving}
  /\ UNCHANGED <<pie, ienable, line, serving, tableVars, progVars>>

(* The line may not have fallen when it returns, unless it has read from   *)
(* its device last.                                                        *)
HandlerReturns == Goes("serve", "again") /\ UNCHANGED <<pie, line, serving>>

AnyMore ==
  /\ Goes("again", IF Pending = {} THEN "none" ELSE "call")
  /\ serving' = IF Pending = {} THEN serving ELSE Lowest(Pending)
  /\ pie' = (Pending = {})
  /\ UNCHANGED line

Exception == TakeInterrupt \/ TestPending \/ FirstPending \/ CallHandler \/ HandlerReturns \/ AnyMore

-----------------------------------------------------------------------------
(* The devices.                                                            *)

Raise(i) ==
  /\ wants' = wants \cup {i}
  /\ UNCHANGED <<pie, ienable, line, tableVars, progVars, isr, serving>>

LineFollows(i) ==
  /\ i \in (wants \ line) \cup (line \ wants)
  /\ line' = IF i \in wants THEN line \cup {i} ELSE line \ {i}
  /\ UNCHANGED <<pie, ienable, wants, tableVars, progVars, isr, serving>>

IntrNext ==
  \/ \E i \in Irqs : Raise(i) \/ LineFollows(i) \/ \E r \in Entries : Register(i, r)
  \/ Registering \/ Exception

IntrSpec == IntrInit /\ [][IntrNext]_intrVars

-----------------------------------------------------------------------------

(* A routine is only called that has been registered, with the context it  *)
(* was registered with, although routines come and go at any time.         *)
CallsRegistered ==
  isr = "call" => handler[serving] # "NULL" /\ context[serving] = handler[serving]

(* No interrupt vanishes between the exception and the search for it:      *)
(* then the exception would never end.                                     *)
NeverLost == isr # "lost"

(* What an exception serves is what it was raised for: something is found  *)
(* pending, and the routine that is called is the one registered for it.   *)
ServedRight == CallsRegistered /\ NeverLost

(* The interrupt with the lowest number is served as long as it is         *)
(* enabled, whatever the others do.                                        *)
FirstIsServed == (0 \in wants /\ 0 \in ienable) ~> (0 \notin wants \/ 0 \notin ienable)
=============================================================================
