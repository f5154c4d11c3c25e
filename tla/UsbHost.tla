------------------------------- MODULE UsbHost -------------------------------
(***************************************************************************)
(* main.c and usb.c: the program that enumerates the keyboard and then     *)
(* polls it, against the USB controller and a keyboard that comes and      *)
(* goes.  Every step of the program is one access to the controller        *)
(* (HpiPorts says why one call may be one step), but for the words of a    *)
(* list and for stores to memory nobody else looks at, which are taken     *)
(* together.                                                               *)
(*                                                                         *)
(* The nine requests of the enumeration run through nine copies of the     *)
(* same statements, the polls through a tenth; n says which copy.          *)
(***************************************************************************)
EXTENDS TdLists

CONSTANTS
  Keys,           \* the codes the keyboard reports
  PlugLooks,      \* looks at the port before the program waits for a keyboard
  PullLooks,      \* looks at the port before the program calls it removed
  Disturbances    \* what goes wrong outside, see below

(* "fault": a request may fail though the keyboard is there.               *)
(* "pull": the keyboard may be pulled out during its enumeration.          *)
(* "bounce": it may be back before the program has noticed.                *)
(* "message": the controller also reports the port's changes.              *)
ASSUME UsbHostAssumption ==
  /\ Keys \subseteq 0 .. 255
  /\ PlugLooks \in Nat \ {0} /\ PullLooks \in Nat \ {0}
  /\ Disturbances \subseteq {"fault", "pull", "bounce", "message"}

VARIABLES
  pc, n,       \* the program's next access, and in which copy
  val,         \* usb_ctl_val of UsbWaitTDListDone
  again,       \* it has looked at the flag since it entered this copy
  looks,       \* hot_plug_count
  odd,         \* toggle % 2
  key,         \* the keycode PIO
  command,     \* what the mailbox asks the controller to do
  mailbox,     \* what the controller answers, and whether it is new
  msg, flag,   \* HPI_SIE1_MSG and its flag in HPI_STATUS
  pointer,     \* HUSB_SIE1_pCurrentTDPtr: a list to run, or none
  list,        \* the list that stands at 0x0500
  run,         \* the list the controller runs, and how far it is
  control,     \* 0x0508, the control byte of the list's first TD
  word,        \* 0x051e, where the third byte of a report arrives
  plugged, addressed, configured, \* the keyboard
  kbData1,     \* its next report is sent with toggle DATA1
  pressed,     \* the key it will report
  answered,    \* history: the list whose run has put 0x03 there, or 0
  hasty        \* history: a sleep was too short, see Look

dataVars == <<val, looks, odd, key>>
hostVars == <<pc, n, again, dataVars>>
mailVars == <<command, mailbox>>
msgVars == <<msg, flag>>
listVars == <<pointer, run>>
memVars == <<list, control, word>>
ctrlVars == <<mailVars, msgVars, listVars, memVars>>
kbVars == <<plugged, addressed, configured, kbData1, pressed>>
histVars == <<answered, hasty>>
envVars == <<kbVars, histVars>>
vars == <<hostVars, ctrlVars, envVars>>

MostLooks == IF PlugLooks > PullLooks THEN PlugLooks ELSE PullLooks

Poll == 10
Lists == 1 .. 11   \* the enumeration, and the polls with odd and even toggle
Idle == [of |-> 0, stage |-> "none"]
Runs == {Idle} \cup [of : Lists, stage : {"setup", "rest", "end"}] \cup [of : {0}, stage : {"end"}]

UsbTypeOK ==
  /\ pc \in {"reset", "drain", "clear", "reclear", "init", "status", "ack1", "busreset", "ack2", "port",
             "plug", "absent", "write", "point", "sleep", "look", "read", "erase", "control",
             "retry", "consume", "await", "recheck", "info", "poll", "report",
             "present", "recount", "removed"}
  /\ n \in 0 .. Poll
  /\ val \in SUBSET {"done", "change"}
  /\ again \in BOOLEAN /\ odd \in BOOLEAN
  /\ looks \in 0 .. MostLooks
  /\ key \in 0 .. 255
  /\ command \in {"none", "reset", "init", "busreset"}
  /\ mailbox \in [text : {"ack", "nak", "garbage"}, new : BOOLEAN]
  /\ msg \in SUBSET {"done", "change"} /\ flag \in BOOLEAN
  /\ pointer \in {"none", "list", "endpoint"}
  /\ list \in {0} \cup Lists /\ run \in Runs
  /\ control \in {"active", "clean", "retried"}
  /\ word \in Nat
  /\ plugged \in BOOLEAN /\ addressed \in BOOLEAN /\ configured \in BOOLEAN
  /\ kbData1 \in BOOLEAN /\ pressed \in Keys
  /\ answered \in {0} \cup Lists /\ hasty \in BOOLEAN

UsbInit ==
  /\ pc = "reset" /\ n = 0 /\ val = {} /\ again = FALSE /\ looks = 0 /\ odd = FALSE /\ key = 0
  /\ command = "none" /\ mailbox = [text |-> "garbage", new |-> FALSE]
  /\ msg = {} /\ flag = FALSE /\ pointer = "none" /\ list = 0 /\ run = Idle
  /\ control = "retried" /\ word = 0
  /\ plugged \in BOOLEAN /\ addressed = FALSE /\ configured = FALSE
  /\ kbData1 = FALSE /\ pressed \in Keys
  /\ answered = 0 /\ hasty = FALSE

-----------------------------------------------------------------------------
(* The program: UsbSoftReset and steps 1 and 2.                            *)

Goto(label) == pc' = label

Restart == pc' = "reset" /\ n' = 0 /\ again' = FALSE

SoftReset ==
  /\ pc = "reset"
  /\ command' = "reset"
  /\ Goto("drain")
  /\ UNCHANGED <<n, again, mailbox, dataVars, msgVars, listVars, memVars, envVars>>

(* 600 ms later the mailbox and the message are read, unused.              *)
Drain ==
  /\ pc = "drain" /\ command = "none"
  /\ mailbox' = [mailbox EXCEPT !.new = FALSE]
  /\ flag' = FALSE
  /\ Goto("clear")
  /\ UNCHANGED <<n, again, command, msg, dataVars, listVars, memVars, envVars>>

(* Once in UsbSoftReset and once behind it.                                *)
ClearMessage(label, next) ==
  /\ pc = label
  /\ msg' = {}
  /\ Goto(next)
  /\ UNCHANGED <<n, again, flag, dataVars, mailVars, listVars, memVars, envVars>>

(* COMM_EXEC_INT with the number of an interrupt in COMM_INT_NUM.          *)
Execute(label, interrupt, next) ==
  /\ pc = label
  /\ command' = interrupt
  /\ Goto(next)
  /\ UNCHANGED <<n, again, mailbox, dataVars, msgVars, listVars, memVars, envVars>>

(* while (!(IO_read(HPI_STATUS) & 0xFFFF)): the answer ends the wait, but  *)
(* so does every other bit of the port: the mail that is still to be read  *)
(* by the controller, a message, a bit of a port.  One may be up at once.  *)
AwaitStatus ==
  /\ pc = "status"
  /\ Goto("ack1")
  /\ UNCHANGED <<n, again, dataVars, envVars, ctrlVars>>

(* Step 1 may find what the reset has left in the mailbox; step 2 reads it *)
(* without a wait and may find the answer to step 1 there.                 *)
Acknowledged(label, next) ==
  /\ pc = label
  /\ mailbox' = [mailbox EXCEPT !.new = FALSE]
  /\ IF mailbox.text = "ack" THEN Goto(next) /\ UNCHANGED <<n, again>> ELSE Restart
  /\ UNCHANGED <<command, dataVars, msgVars, listVars, memVars, envVars>>

Request(i) == pc' = "write" /\ n' = i /\ again' = FALSE

LookAtPort ==
  /\ pc = "port"
  /\ looks' = 0
  /\ IF plugged THEN Request(1) ELSE Goto("plug") /\ UNCHANGED <<n, again>>
  /\ UNCHANGED <<val, odd, key, envVars, ctrlVars>>

WaitForPlug ==
  /\ pc = "plug"
  /\ looks' = looks + 1
  /\ CASE plugged -> Request(1)
       [] ~plugged /\ looks' < PlugLooks -> UNCHANGED <<pc, n, again>>
       [] OTHER -> Goto("absent") /\ UNCHANGED <<n, again>>
  /\ UNCHANGED <<val, odd, key, envVars, ctrlVars>>

Absent ==
  /\ pc = "absent" /\ plugged
  /\ Restart
  /\ UNCHANGED <<dataVars, envVars, ctrlVars>>

-----------------------------------------------------------------------------
(* The program: one request, from its list to its control byte.            *)

List == IF n = Poll THEN PollList(8, odd) ELSE Enumeration[n]

WriteList ==
  /\ pc = "write"
  /\ list' = IF n = Poll /\ ~odd THEN Poll + 1 ELSE n
  /\ control' = "active"
  /\ answered' = 0
  /\ word' = Stored(List, ListStart, Report, word)
  /\ Goto("point")
  /\ UNCHANGED <<n, again, dataVars, mailVars, msgVars, hasty, listVars, kbVars>>

(* The request is submitted; only step 6 sleeps before it looks.           *)
Submit ==
  /\ pc = "point"
  /\ pointer' = "list"
  /\ Goto(IF again \/ n = 5 THEN "sleep" ELSE "look")
  /\ UNCHANGED <<n, again, run, dataVars, mailVars, msgVars, memVars, envVars>>

Wake ==
  /\ pc = "sleep"
  /\ Goto("look")
  /\ UNCHANGED <<n, again, dataVars, envVars, ctrlVars>>

(* The list has been submitted twice, and one of the two is still to be    *)
(* carried out, or is just being.                                          *)
OneMoreToCome == again /\ ~(pointer = "none" /\ run = Idle)

(* while (!(IO_read(HPI_STATUS) & HPI_STATUS_SIE1msg_FLAG)): without the   *)
(* flag the request is submitted again.  Ten milliseconds later, ten       *)
(* frames, both should be done with; if not, this is noted in hasty.       *)
Look ==
  /\ pc = "look"
  /\ Goto(IF flag THEN "read" ELSE "write")
  /\ again' = TRUE
  /\ hasty' = (hasty \/ (flag /\ OneMoreToCome))
  /\ UNCHANGED <<n, answered, dataVars, kbVars, ctrlVars>>

(* UsbWaitTDListDone: read, which takes the flag down, and erase.          *)
ReadMessage ==
  /\ pc = "read"
  /\ val' = msg
  /\ flag' = FALSE
  /\ Goto("erase")
  /\ UNCHANGED <<n, again, looks, odd, key, msg, mailVars, listVars, memVars, envVars>>

EraseMessage ==
  /\ pc = "erase"
  /\ msg' = {}
  /\ Goto(CASE val # {"done"} -> "read" [] n = Poll -> "report" [] OTHER -> "control")
  /\ val' = IF val = {"done"} THEN {} ELSE val   \* its scope ends with the call
  /\ UNCHANGED <<n, again, flag, looks, odd, key, mailVars, listVars, memVars, envVars>>

AfterRequest ==
  CASE n = 5 -> Goto("info") /\ UNCHANGED <<n, again>>
    [] n = 9 -> Goto("poll") /\ UNCHANGED <<n, again>>
    [] OTHER -> Request(n + 1)

(* The control byte is 0x03 when the first TD was carried out at once.     *)
ReadControl ==
  /\ pc = "control"
  /\ IF control = "clean" THEN AfterRequest ELSE Goto("retry") /\ UNCHANGED <<n, again>>
  /\ UNCHANGED <<dataVars, envVars, ctrlVars>>

(* UsbGetRetryCnt.                                                         *)
RetryRead ==
  /\ pc = "retry"
  /\ flag' = FALSE
  /\ Goto(IF msg = {"done"} THEN "consume" ELSE "recheck")
  /\ UNCHANGED <<n, again, msg, dataVars, mailVars, listVars, memVars, envVars>>

RetryConsume ==
  /\ pc = "consume"
  /\ msg' = {}
  /\ Goto("await")
  /\ UNCHANGED <<n, again, flag, dataVars, mailVars, listVars, memVars, envVars>>

RetryAwait ==
  /\ pc = "await" /\ flag
  /\ Goto("recheck")
  /\ UNCHANGED <<n, again, dataVars, envVars, ctrlVars>>

(* Set address starts all over; the others read the byte again and again.  *)
RetryControl ==
  /\ pc = "recheck"
  /\ CASE n = 1 -> Restart
       [] n # 1 /\ control = "clean" -> AfterRequest
       [] OTHER -> Goto("retry") /\ UNCHANGED <<n, again>>
  /\ UNCHANGED <<dataVars, envVars, ctrlVars>>

(* Mutant: the program sleeps after it, and waits for an answer.           *)
SubmitEndpointAlone ==
  /\ pc = "info"
  /\ pointer' = "endpoint"
  /\ pc' = "sleep" /\ n' = 6 /\ again' = FALSE
  /\ UNCHANGED <<run, dataVars, mailVars, msgVars, memVars, envVars>>

(* Between steps 6 and 7: the endpoint descriptor is overwritten, and its  *)
(* address submitted as if it were a list.                                 *)
SubmitEndpoint ==
  /\ pc = "info"
  /\ pointer' = "endpoint"
  /\ Request(6)
  /\ UNCHANGED <<run, dataVars, mailVars, msgVars, memVars, envVars>>

-----------------------------------------------------------------------------
(* The program: the polling loop.                                          *)

NextPoll ==
  /\ pc = "poll"
  /\ odd' = ~odd
  /\ Request(Poll)
  /\ UNCHANGED <<val, looks, key, envVars, ctrlVars>>

(* Mutant: the word before, with the modifiers; Alt is 4, the code of A.   *)
ShowModifiers ==
  /\ pc = "report"
  /\ key' \in {0, 4}
  /\ Goto("present")
  /\ UNCHANGED <<n, again, val, looks, odd, envVars, ctrlVars>>

ShowReport ==
  /\ pc = "report"
  /\ key' = word % 256
  /\ Goto("present")
  /\ UNCHANGED <<n, val, again, looks, odd, envVars, ctrlVars>>

(* The next poll comes with new random words for the ghosts, which the     *)
(* game takes as free inputs.                                              *)
StillPresent ==
  /\ pc = "present"
  /\ looks' = 0
  /\ Goto(IF plugged THEN "poll" ELSE "recount")
  /\ UNCHANGED <<n, val, again, odd, key, envVars, ctrlVars>>

Recount ==
  /\ pc = "recount"
  /\ looks' = looks + 1
  /\ Goto(CASE plugged -> "poll"
            [] ~plugged /\ looks' < PullLooks -> "recount"
            [] OTHER -> "removed")
  /\ UNCHANGED <<n, val, again, odd, key, envVars, ctrlVars>>

(* Mutant: a keyboard that is back is polled again.                        *)
RemovedPollsAgain ==
  /\ pc = "removed" /\ plugged
  /\ Goto("poll")
  /\ UNCHANGED <<n, again, dataVars, envVars, ctrlVars>>

Removed ==
  /\ pc = "removed" /\ plugged
  /\ Restart
  /\ UNCHANGED <<dataVars, envVars, ctrlVars>>

Program ==
  \/ SoftReset \/ Drain \/ ClearMessage("clear", "reclear")
  \/ ClearMessage("reclear", "init")
  \/ Execute("init", "init", "status") \/ AwaitStatus \/ Acknowledged("ack1", "busreset")
  \/ Execute("busreset", "busreset", "ack2") \/ Acknowledged("ack2", "port")
  \/ LookAtPort \/ WaitForPlug \/ Absent
  \/ WriteList \/ Submit \/ Wake \/ Look \/ ReadMessage \/ EraseMessage \/ ReadControl
  \/ RetryRead \/ RetryConsume \/ RetryAwait \/ RetryControl \/ SubmitEndpoint
  \/ NextPoll \/ ShowReport \/ StillPresent \/ Recount \/ Removed

-----------------------------------------------------------------------------
(* The controller, as far as the program sees it.                          *)

(* A message is posted over what the register holds, or beside it.         *)
Post(m) ==
  /\ flag' = TRUE
  /\ msg' \in IF m = "change" \/ "change" \in msg THEN {{m}, msg \cup {m}} ELSE {{m}}

(* The firmware is busy with one thing at a time.  A reset leaves garbage  *)
(* in the mailbox (usb.c:106-108), after an answer or instead of one.      *)
Obey ==
  /\ command # "none"
  /\ command' = "none"
  /\ hasty' = (hasty /\ command # "reset")
  /\ IF command = "reset"
     THEN /\ mailbox' \in [text : {"garbage", "ack"}, new : {TRUE}]
          /\ pointer' = "none" /\ run' = Idle
     ELSE /\ mailbox' \in [text : {"ack"} \cup IF "fault" \in Disturbances THEN {"nak"} ELSE {},
                           new : {TRUE}]
          /\ UNCHANGED listVars
  /\ IF command = "busreset" /\ mailbox'.text = "ack"
     THEN addressed' = FALSE /\ configured' = FALSE /\ kbData1' = FALSE
     ELSE UNCHANGED <<addressed, configured, kbData1>>
  /\ UNCHANGED <<plugged, pressed, answered, hostVars, msgVars, memVars>>

(* A frame begins: the controller takes the list up.  The words of the     *)
(* endpoint descriptor are no TD it could carry out.                       *)
Load ==
  /\ command = "none" /\ pointer # "none" /\ run = Idle
  /\ run' = IF pointer = "list" THEN [of |-> list, stage |-> "setup"] ELSE [of |-> 0, stage |-> "end"]
  /\ pointer' = "none"
  /\ UNCHANGED <<hostVars, mailVars, msgVars, memVars, envVars>>

(* A keyboard answers address 0 before, and address 2 after Set address,   *)
(* and its reports come once it is configured.                             *)
Answers(r) ==
  /\ plugged
  /\ r = 1 <=> ~addressed
  /\ r >= Poll => configured

MayFail(r) == ~Answers(r) \/ "fault" \in Disturbances

SetupDone ==
  /\ run.stage = "setup" /\ run.of < Poll /\ Answers(run.of)
  /\ control' = "clean" /\ answered' = run.of
  /\ run' = [run EXCEPT !.stage = "rest"]
  /\ UNCHANGED <<pointer, list, word, hasty, hostVars, mailVars, msgVars, kbVars>>

RestDone ==
  /\ run.stage = "rest" /\ Answers(run.of)
  /\ run' = [run EXCEPT !.stage = "end"]
  /\ addressed' = (addressed \/ run.of = 1)
  /\ configured' = (configured \/ run.of = 6)
  /\ kbData1' = IF run.of = 6 THEN FALSE ELSE kbData1
  /\ UNCHANGED <<pointer, plugged, pressed, histVars, hostVars, mailVars, msgVars, memVars>>

(* A TD that fails ends the list.  Its own control byte says so; only the  *)
(* first one's is at 0x0508.                                               *)
Fail ==
  /\ run.stage \in {"setup", "rest"} /\ MayFail(run.of)
  /\ run' = [run EXCEPT !.stage = "end"]
  /\ control' = IF run.stage = "setup" THEN "retried" ELSE control
  /\ UNCHANGED <<pointer, list, word, histVars, hostVars, mailVars, msgVars, kbVars>>

(* The keyboard has a report for a poll, or nothing new to say.  A report  *)
(* with the wrong toggle counts as a repetition and may be dropped.        *)
InStep == run.of = Poll <=> ~kbData1

Reported ==
  /\ run.stage = "setup" /\ run.of >= Poll /\ Answers(run.of)
  /\ run' = [run EXCEPT !.stage = "end"]
  /\ control' = "clean" /\ answered' = run.of
  /\ word' \in {pressed} \cup IF InStep THEN {} ELSE {word}
  /\ kbData1' = ~kbData1
  /\ UNCHANGED <<pointer, list, plugged, addressed, configured, pressed, hasty,
                 hostVars, mailVars, msgVars>>

NoReport ==
  /\ run.stage = "setup" /\ run.of >= Poll /\ Answers(run.of)
  /\ run' = [run EXCEPT !.stage = "end"]
  /\ UNCHANGED <<pointer, hostVars, mailVars, msgVars, memVars, envVars>>

(* The list is done, and so, perhaps, is a pointer written meanwhile.      *)
Finish ==
  /\ run.stage = "end"
  /\ Post("done")
  /\ run' = Idle
  /\ pointer' \in {pointer, "none"}
  /\ UNCHANGED <<hostVars, mailVars, memVars, envVars>>

Controller ==
  Obey \/ Load \/ SetupDone \/ RestDone \/ Fail \/ Reported \/ NoReport \/ Finish

-----------------------------------------------------------------------------
(* The keyboard and the player.                                            *)

PortChanges(now) ==
  /\ plugged' = now
  /\ addressed' = FALSE /\ configured' = FALSE /\ kbData1' = FALSE
  /\ IF "message" \in Disturbances THEN Post("change") ELSE UNCHANGED msgVars
  /\ UNCHANGED <<pressed, histVars, hostVars, mailVars, listVars, memVars>>

Polling == n = Poll /\ pc # "removed"

Plug == ~plugged /\ (~Polling \/ "bounce" \in Disturbances) /\ PortChanges(TRUE)
Pull == plugged /\ (Polling \/ "pull" \in Disturbances) /\ PortChanges(FALSE)

Press(k) ==
  /\ pressed' = k
  /\ UNCHANGED <<plugged, addressed, configured, kbData1, hostVars, ctrlVars, histVars>>

UsbNext == Program \/ Controller \/ Plug \/ Pull \/ \E k \in Keys : Press(k)

UsbSpec == UsbInit /\ [][UsbNext]_vars
=============================================================================
