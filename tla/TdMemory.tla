------------------------------- MODULE TdMemory -------------------------------
(***************************************************************************)
(* The memory the lists live in: the processor writes a list, the          *)
(* controller follows it from TD to TD and stores what the keyboard sends  *)
(* into the buffers the TDs name.  List and buffers share the words from   *)
(* 0x0500 on, so a list can lose its own TDs to its data.                  *)
(***************************************************************************)
EXTENDS TdLists

CONSTANT Replies   \* how many bytes a keyboard may have to send for a request

ASSUME TdMemoryAssumption == Replies \subseteq Nat

VARIABLES
  mem,     \* the words from 0x0500 on, by address
  nth,       \* the request whose list was written last
  td,      \* the TD the controller stands on, 0 when it is done
  left,    \* bytes the keyboard still has to send
  asked,   \* bytes the buffers of the TDs run so far can take
  got,     \* bytes received by this list
  ran,     \* TDs run since the list was submitted
  last     \* the data toggle of the last packet

tdVars == <<mem, nth, td, left, asked, got, ran, last>>

Words == {\h500 + 2 * i : i \in 0 .. 95}

(* Byte i and i+1 of what the keyboard sends, apart from all words.        *)
Byte(i) == 65536 + i

ListOf(i) == IF i <= 9 THEN Enumeration[i] ELSE PollList(8, i = 10)
Requests == 1 .. 11   \* the enumeration, and an odd and an even poll

(* What the setup packet announces; a poll has none.                       *)
Announced(i) == IF i <= 9 THEN ListOf(i)[10] ELSE 8

TdInit ==
  /\ nth = 1 /\ td = ListStart /\ left = 0 /\ asked = 0 /\ got = 0 /\ ran = 0 /\ last = Data1
  /\ mem = [a \in Words |-> Stored(ListOf(1), ListStart, a, 0)]

(* The next request of main.c, the same one again, or, after another       *)
(* reset, the first; the endpoint's words come between the fifth and the   *)
(* sixth.                                                                  *)
Followers(i) == {1, i, IF i = 11 THEN 10 ELSE i + 1}

Endpoint(a) == Stored(EndpointWords, EndpointStart, a, mem[a])

SubmitNext(i) ==
  /\ td = 0 /\ i \in Followers(nth)
  /\ nth' = i /\ td' = ListStart /\ got' = 0 /\ ran' = 0
  /\ asked' = 0
  /\ \E bytes \in Replies : left' = IF bytes < Announced(i) THEN bytes ELSE Announced(i)
  /\ last' = Data1
  /\ mem' = [a \in Words |->
       Stored(ListOf(i), ListStart, a, IF nth = 5 /\ i = 6 THEN Endpoint(a) ELSE mem[a])]

Pid == (mem[td + 4] \div 16) % 16
Setup == Pid = \hD
In == Pid = 9

(* The controller carries out the TD it stands on: an IN packet brings as  *)
(* many bytes as fit and are left, and the chain goes on at the next TD.   *)
Transfer ==
  LET bytes == IF ~In THEN 0 ELSE IF left < mem[td + 2] THEN left ELSE mem[td + 2]
  IN  /\ td # 0
      /\ mem' = [a \in Words |-> IF a >= mem[td] /\ a < mem[td] + bytes
                                 THEN Byte(got + a - mem[td]) ELSE mem[a]]
      /\ left' = left - bytes
      /\ got' = got + bytes
      /\ asked' = IF In THEN asked + mem[td + 2] ELSE asked
      /\ last' = mem[td + 6]
      /\ ran' = ran + 1
      /\ td' = mem[td + 10]
      /\ UNCHANGED nth

TdNext ==
  \/ \E i \in Requests : SubmitNext(i)
  \/ Transfer

TdSpec == TdInit /\ [][TdNext]_tdVars

-----------------------------------------------------------------------------
Stages(i) == IF Len(ListOf(i)) = 6 THEN 1 ELSE (Len(ListOf(i)) - 4) \div 6

(* Type: the controller stands on one of the TDs of the list that was      *)
(* written, never in the middle of one or on the setup packet.             *)
TdTypeOK ==
  /\ nth \in Requests
  /\ td \in {0, ListStart} \cup {\h514 + 12 * i : i \in 0 .. Stages(nth) - 2}
  /\ left \in Nat /\ asked \in Nat /\ got \in Nat /\ ran \in 0 .. Stages(nth)

(* No packet of a list reaches the list: its buffers lie behind its last   *)
(* TD (or, for the reports, behind the one TD), so every TD is carried out *)
(* as it was written, however often the memory is used again.              *)
ListIntact ==
  \A i \in 1 .. Len(ListOf(nth)) : mem[ListStart + 2 * (i - 1)] = ListOf(nth)[i]

(* The chain of TDs visits every stage once and ends.                      *)
EveryStageOnce == td = 0 => ran = Stages(nth)

(* A control transfer never asks for more bytes than its setup packet      *)
(* announces: a keyboard that has sent those answers an IN beyond them     *)
(* with a stall, which fails the list.                                     *)
NotMoreThanAnnounced == nth <= 9 => asked <= Announced(nth)

(* The toggle of a control transfer: DATA0 with the setup packet, then     *)
(* DATA1 and DATA0 in turn; the stage without data is always DATA1.        *)
TogglesAlternate ==
  td # 0 /\ nth <= 9 =>
    CASE Setup -> mem[td + 6] = Data0
      [] mem[td + 2] = 0 -> mem[td + 6] = Data1
      [] OTHER -> mem[td + 6] # last

(* So every list is carried out as it was meant, whatever was written into *)
(* the same words before it and whatever the keyboard sends into them.     *)
ListsCarriedOut ==
  TdTypeOK /\ ListIntact /\ EveryStageOnce /\ NotMoreThanAnnounced /\ TogglesAlternate

(* After the second request for the configuration descriptor, with full    *)
(* packets, main.c finds byte 7 of the interface descriptor (nine bytes of *)
(* configuration descriptor come before it) where it looks for the         *)
(* keyboard's protocol.                                                    *)
KeyboardByteInPlace ==
  nth = 5 /\ td = 0 /\ got = 34 => mem[InterfaceByte7] = Byte(9 + 7)
=============================================================================
