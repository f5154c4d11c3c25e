------------------------------- MODULE HpiPorts -------------------------------
(***************************************************************************)
(* What usb.c and main.c rely on when they call IO_write and IO_read: a    *)
(* call makes one access to one register of the USB controller, and a read *)
(* answers with what that register showed at some moment of the call.      *)
(* The controller changes its registers when it likes.                     *)
(***************************************************************************)
EXTENDS Naturals

CONSTANTS
  Ports,     \* the controller's registers: HPI_DATA, MAILBOX, ADDR, STATUS
  Words,     \* what a register holds
  None       \* no call, no value

VARIABLES
  reg,        \* the controller's registers
  call,       \* the call in progress
  accesses,   \* how often that call has accessed the controller
  seen,       \* what the register has shown to it
  reply       \* what the last IO_read returned

portsVars == <<reg, call, accesses, seen, reply>>

Calls == [op : {"write"}, port : Ports, data : Words] \cup [op : {"read"}, port : Ports]
Init0 == [op |-> "init"]   \* IO_init, before any call
Calling == call # None /\ call # Init0

PortsInit ==
  /\ reg \in [Ports -> Words]
  /\ call = Init0 /\ accesses = 0 /\ seen = {} /\ reply = None

(* IO_init has returned.                                                   *)
Ready ==
  /\ call = Init0
  /\ call' = None
  /\ UNCHANGED <<reg, accesses, seen, reply>>

Call(c) ==
  /\ call = None
  /\ call' = c
  /\ accesses' = 0
  /\ seen' = {reg[c.port]}
  /\ UNCHANGED <<reg, reply>>

(* A write stores its word; a read moves the controller on, which may show *)
(* another word on the register afterwards.                                *)
Access ==
  /\ Calling /\ accesses = 0
  /\ accesses' = 1
  /\ \E w \in Words :
       /\ reg' = [reg EXCEPT ![call.port] = w]
       /\ call.op = "write" => w = call.data
  /\ UNCHANGED <<call, seen, reply>>

Return ==
  /\ Calling /\ accesses = 1
  /\ IF call.op = "read" THEN reply' \in seen ELSE UNCHANGED reply
  /\ call' = None
  /\ accesses' = 0
  /\ seen' = {}
  /\ UNCHANGED reg

(* The controller changes a register.                                      *)
Change(p, w) ==
  /\ reg' = [reg EXCEPT ![p] = w]
  /\ seen' = IF Calling /\ accesses = 0 /\ p = call.port THEN seen \cup {w} ELSE seen
  /\ UNCHANGED <<call, accesses, reply>>

(* KEY[0] resets processor and controller: a call in progress is lost,     *)
(* and IO_init comes again.                                                *)
PowerUp ==
  /\ reg' \in [Ports -> Words]
  /\ call' = Init0 /\ accesses' = 0 /\ seen' = {} /\ reply' = None

PortsSpec ==
  PortsInit /\ [][ \/ Ready
                   \/ \E c \in Calls : Call(c)
                   \/ Access \/ Return
                   \/ \E p \in Ports, w \in Words : Change(p, w)
                   \/ PowerUp ]_portsVars
=============================================================================
