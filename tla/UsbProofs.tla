------------------------------- MODULE UsbProofs -------------------------------
(***************************************************************************)
(* Theorems about UsbHost with everything that may go wrong outside: for   *)
(* every keyboard, every number of looks at the port, and whatever the     *)
(* order of the program's steps and the controller's.  The last part is    *)
(* about TdMemory, the words the lists and what they receive share.        *)
(***************************************************************************)
EXTENDS UsbProperties, TdMemory, TLAPS

-----------------------------------------------------------------------------
(* What a list leaves where the key of a report arrives.                   *)

(* A list that begins with a control transfer has a TD there: the address  *)
(* of its third TD, or 0.                                                  *)
Covers(s) == Len(s) \in Nat /\ Len(s) >= 16 /\ s[16] \in {0, \h520}

LEMMA ListsCover == \A i \in 1 .. 9 : Covers(Enumeration[i])
<1>1. Covers(SetAddress)
  BY DEF Covers, SetAddress, Td, Data0, Data1
<1>2. Covers(GetDeviceDesc1)
  BY DEF Covers, GetDeviceDesc1, Td, Data0, Data1
<1>3. Covers(GetDeviceDesc2)
  BY DEF Covers, GetDeviceDesc2, Td, Data0, Data1
<1>4. Covers(GetConfigDesc1)
  BY DEF Covers, GetConfigDesc1, Td, Data0, Data1
<1>5. Covers(GetConfigDesc2)
  BY DEF Covers, GetConfigDesc2, Td, Data0, Data1
<1>6. Covers(SetConfig)
  BY DEF Covers, SetConfig, Td, Data0, Data1
<1>7. Covers(ClassRequest)
  BY DEF Covers, ClassRequest, Td, Data0, Data1
<1>8. Covers(GetHidDesc)
  BY DEF Covers, GetHidDesc, Td, Data0, Data1
<1>9. Covers(GetReportDesc)
  BY DEF Covers, GetReportDesc, Td, Data0, Data1
<1> QED BY <1>1, <1>2, <1>3, <1>4, <1>5, <1>6, <1>7, <1>8, <1>9 DEF Enumeration

LEMMA StoredThere ==
  ASSUME NEW s, Covers(s), NEW before
  PROVE  Stored(s, ListStart, Report, before) \in {0, \h520}
<1>1. /\ Report >= ListStart /\ Report < ListStart + 2 * Len(s)
      /\ (Report - ListStart) \div 2 + 1 = 16
  BY DEF Report, ListStart, Covers
<1> QED BY <1>1 DEF Stored, Covers

(* The list of a poll ends before it.                                      *)
LEMMA PollStoresNothing ==
  \A toggle, before : Stored(PollList(8, toggle), ListStart, Report, before) = before
<1>1. \A toggle : Len(PollList(8, toggle)) = 6
  BY DEF PollList, Td, Data0, Data1
<1>2. ~(Report < ListStart + 2 * 6)
  BY DEF Report, ListStart
<1> QED BY <1>1, <1>2 DEF Stored

-----------------------------------------------------------------------------
(* Types.                                                                  *)

Requesting == {"write", "point", "sleep", "look", "read", "erase"}
Retrying == {"control", "retry", "consume", "await", "recheck"}

(* The parts of UsbTypeOK.                                                 *)
ProgramOK ==
  /\ pc \in {"reset", "drain", "clear", "reclear", "init", "status", "ack1", "busreset", "ack2", "port",
             "plug", "absent", "write", "point", "sleep", "look", "read", "erase", "control",
             "retry", "consume", "await", "recheck", "info", "poll", "report",
             "present", "recount", "removed"}
  /\ n \in 0 .. Poll /\ looks \in 0 .. MostLooks /\ key \in 0 .. 255

MessageOK ==
  /\ val \in SUBSET {"done", "change"} /\ msg \in SUBSET {"done", "change"}
  /\ command \in {"none", "reset", "init", "busreset"}
  /\ mailbox \in [text : {"ack", "nak", "garbage"}, new : BOOLEAN]

ListOK ==
  /\ pointer \in {"none", "list", "endpoint"}
  /\ list \in {0} \cup Lists /\ run \in Runs
  /\ control \in {"active", "clean", "retried"} /\ answered \in {0} \cup Lists
  /\ word \in Nat /\ pressed \in Keys

FlagsOK ==
  /\ again \in BOOLEAN /\ odd \in BOOLEAN /\ flag \in BOOLEAN
  /\ plugged \in BOOLEAN /\ addressed \in BOOLEAN /\ configured \in BOOLEAN
  /\ kbData1 \in BOOLEAN /\ hasty \in BOOLEAN

LEMMA TypeInParts == UsbTypeOK <=> ProgramOK /\ MessageOK /\ ListOK /\ FlagsOK
BY Zenon DEF UsbTypeOK, ProgramOK, MessageOK, ListOK, FlagsOK

(* Which copy of the statements the program can be in, and that a list it  *)
(* submits has been written.                                               *)
PlaceOK ==
  /\ pc \in Requesting => n \in 1 .. Poll
  /\ pc \in Retrying => n \in 1 .. 9
  /\ pc = "point" \/ pointer = "list" => list \in Lists
  /\ pc = "plug" => looks < PlugLooks
  /\ pc = "recount" => looks < PullLooks

UsbInv == ProgramOK /\ MessageOK /\ ListOK /\ FlagsOK /\ PlaceOK

LEMMA Bounds ==
  /\ PlugLooks \in Nat /\ PullLooks \in Nat /\ MostLooks \in Nat
  /\ 0 < PlugLooks /\ 0 < PullLooks /\ PlugLooks <= MostLooks /\ PullLooks <= MostLooks
BY UsbHostAssumption DEF MostLooks

LEMMA UsbStart == UsbInit => UsbInv
<1>1. SUFFICES ASSUME UsbInit PROVE UsbInv
  OBVIOUS
<1>2. ProgramOK
  BY <1>1, Bounds DEF UsbInit, ProgramOK, Poll
<1>3. MessageOK
  BY <1>1 DEF UsbInit, MessageOK
<1>4. ListOK
  BY <1>1 DEF UsbInit, ListOK, Runs
<1>5. FlagsOK
  BY <1>1 DEF UsbInit, FlagsOK
<1>6. PlaceOK
  BY <1>1 DEF UsbInit, PlaceOK, Requesting, Retrying
<1> QED BY <1>2, <1>3, <1>4, <1>5, <1>6 DEF UsbInv

(* What WriteList leaves where the key arrives: nothing, or a word of the  *)
(* list that is no key of the game.                                        *)
LEMMA WordWritten ==
  ASSUME UsbInv, WriteList
  PROVE  word' \in Nat /\ (word' = word \/ word' \in {0, \h520})
<1>1. n \in 1 .. Poll /\ word \in Nat /\ word' = Stored(List, ListStart, Report, word)
  BY DEF UsbInv, ListOK, PlaceOK, Requesting, WriteList
<1>2. CASE n = Poll
  <2>1. word' = word
    BY <1>1, <1>2, PollStoresNothing DEF List
  <2> QED BY <1>1, <2>1
<1>3. CASE n # Poll
  <2>1. n \in 1 .. 9 /\ List = Enumeration[n]
    BY <1>1, <1>3 DEF List, Poll
  <2>2. Covers(List)
    BY <2>1, ListsCover
  <2>3. word' \in {0, \h520}
    BY <1>1, <2>2, StoredThere
  <2> QED BY <2>3
<1> QED BY <1>2, <1>3

(* The program's own steps, part by part of the invariant.                 *)
LEMMA ProgramPlace ==
  ASSUME UsbInv, Program
  PROVE  ProgramOK' /\ PlaceOK'
<1> USE DEF UsbInv, ProgramOK, PlaceOK, ListOK, Requesting, Retrying,
           AfterRequest, Request, Restart, Goto, Poll,
           hostVars, dataVars, ctrlVars, mailVars, msgVars, listVars, memVars
<1>1. CASE SoftReset
  BY <1>1, Bounds DEF SoftReset
<1>2. CASE Drain
  BY <1>2, Bounds DEF Drain
<1>3. CASE ClearMessage("clear", "reclear") \/ ClearMessage("reclear", "init")
  BY <1>3, Bounds DEF ClearMessage
<1>4. CASE AwaitStatus
  BY <1>4, Bounds DEF AwaitStatus
<1>5. CASE LookAtPort
  BY <1>5, Bounds DEF LookAtPort
<1>6. CASE WaitForPlug
  BY <1>6, Bounds DEF WaitForPlug
<1>7. CASE Absent
  BY <1>7, Bounds DEF Absent
<1>8. CASE Submit
  BY <1>8, Bounds DEF Submit
<1>9. CASE Wake
  BY <1>9, Bounds DEF Wake
<1>10. CASE Look
  BY <1>10, Bounds DEF Look
<1>11. CASE ReadMessage
  BY <1>11, Bounds DEF ReadMessage
<1>12. CASE EraseMessage
  BY <1>12, Bounds DEF EraseMessage
<1>13. CASE ReadControl
  BY <1>13, Bounds DEF ReadControl
<1>14. CASE RetryRead
  BY <1>14, Bounds DEF RetryRead
<1>15. CASE RetryConsume
  BY <1>15, Bounds DEF RetryConsume
<1>16. CASE RetryAwait
  BY <1>16, Bounds DEF RetryAwait
<1>17. CASE RetryControl
  BY <1>17, Bounds DEF RetryControl
<1>18. CASE SubmitEndpoint
  BY <1>18, Bounds DEF SubmitEndpoint
<1>19. CASE NextPoll
  BY <1>19, Bounds DEF NextPoll
<1>20. CASE ShowReport
  BY <1>20, Bounds DEF ShowReport
<1>21. CASE StillPresent
  BY <1>21, Bounds DEF StillPresent
<1>22. CASE Recount
  BY <1>22, Bounds DEF Recount
<1>23. CASE Removed
  BY <1>23, Bounds DEF Removed
<1>24. CASE Execute("init", "init", "status")
  BY <1>24, Bounds DEF Execute
<1>25. CASE Acknowledged("ack1", "busreset")
  BY <1>25, Bounds DEF Acknowledged
<1>26. CASE Execute("busreset", "busreset", "ack2")
  BY <1>26, Bounds DEF Execute
<1>27. CASE Acknowledged("ack2", "port")
  BY <1>27, Bounds DEF Acknowledged
<1>28. CASE WriteList
  <2>1. /\ pc = "write" /\ pc' = "point" /\ UNCHANGED <<n, looks, key, pointer>>
        /\ list' = IF n = Poll /\ ~odd THEN Poll + 1 ELSE n
    BY <1>28 DEF WriteList
  <2>2. n \in 1 .. Poll
    BY <2>1
  <2>3. list' \in Lists
    BY <2>1, <2>2 DEF Lists
  <2> QED BY <2>1, <2>2, <2>3
<1> QED BY <1>1, <1>2, <1>3, <1>4, <1>5, <1>6, <1>7, <1>8, <1>9, <1>10, <1>11, <1>12, <1>13,
       <1>14, <1>15, <1>16, <1>17, <1>18, <1>19, <1>20, <1>21, <1>22, <1>23, <1>24, <1>25,
       <1>26, <1>27, <1>28 DEF Program

(* The mailbox and the message it reads and clears.                        *)
LEMMA ProgramMessages ==
  ASSUME UsbInv, Program
  PROVE  MessageOK'
<1> USE DEF UsbInv, MessageOK, hostVars, dataVars, ctrlVars, mailVars, msgVars, listVars, memVars
<1>1. CASE SoftReset
  BY <1>1, Bounds DEF SoftReset
<1>2. CASE Drain
  BY <1>2, Bounds DEF Drain
<1>3. CASE ClearMessage("clear", "reclear") \/ ClearMessage("reclear", "init")
  BY <1>3, Bounds DEF ClearMessage
<1>4. CASE AwaitStatus
  BY <1>4, Bounds DEF AwaitStatus
<1>5. CASE LookAtPort
  BY <1>5, Bounds DEF LookAtPort
<1>6. CASE WaitForPlug
  BY <1>6, Bounds DEF WaitForPlug
<1>7. CASE Absent
  BY <1>7, Bounds DEF Absent
<1>8. CASE Submit
  BY <1>8, Bounds DEF Submit
<1>9. CASE Wake
  BY <1>9, Bounds DEF Wake
<1>10. CASE Look
  BY <1>10, Bounds DEF Look
<1>11. CASE ReadMessage
  BY <1>11, Bounds DEF ReadMessage
<1>12. CASE EraseMessage
  BY <1>12, Bounds DEF EraseMessage
<1>13. CASE ReadControl
  BY <1>13, Bounds DEF ReadControl
<1>14. CASE RetryRead
  BY <1>14, Bounds DEF RetryRead
<1>15. CASE RetryConsume
  BY <1>15, Bounds DEF RetryConsume
<1>16. CASE RetryAwait
  BY <1>16, Bounds DEF RetryAwait
<1>17. CASE RetryControl
  BY <1>17, Bounds DEF RetryControl
<1>18. CASE SubmitEndpoint
  BY <1>18, Bounds DEF SubmitEndpoint
<1>19. CASE NextPoll
  BY <1>19, Bounds DEF NextPoll
<1>20. CASE ShowReport
  BY <1>20, Bounds DEF ShowReport
<1>21. CASE StillPresent
  BY <1>21, Bounds DEF StillPresent
<1>22. CASE Recount
  BY <1>22, Bounds DEF Recount
<1>23. CASE Removed
  BY <1>23, Bounds DEF Removed
<1>24. CASE Execute("init", "init", "status")
  BY <1>24, Bounds DEF Execute
<1>25. CASE Acknowledged("ack1", "busreset")
  BY <1>25, Bounds DEF Acknowledged
<1>26. CASE Execute("busreset", "busreset", "ack2")
  BY <1>26, Bounds DEF Execute
<1>27. CASE Acknowledged("ack2", "port")
  BY <1>27, Bounds DEF Acknowledged
<1>28. CASE WriteList
  BY <1>28, Bounds DEF WriteList
<1> QED BY <1>1, <1>2, <1>3, <1>4, <1>5, <1>6, <1>7, <1>8, <1>9, <1>10, <1>11, <1>12, <1>13,
       <1>14, <1>15, <1>16, <1>17, <1>18, <1>19, <1>20, <1>21, <1>22, <1>23, <1>24, <1>25,
       <1>26, <1>27, <1>28 DEF Program

(* The flags.                                                              *)
LEMMA ProgramFlags ==
  ASSUME UsbInv, Program
  PROVE  FlagsOK'
<1> USE DEF UsbInv, FlagsOK, AfterRequest, Request, Restart,
           hostVars, dataVars, ctrlVars, mailVars, msgVars, listVars, memVars,
           envVars, kbVars, histVars
<1>1. CASE SoftReset
  BY <1>1, Bounds DEF SoftReset
<1>2. CASE Drain
  BY <1>2, Bounds DEF Drain
<1>3. CASE ClearMessage("clear", "reclear") \/ ClearMessage("reclear", "init")
  BY <1>3, Bounds DEF ClearMessage
<1>4. CASE AwaitStatus
  BY <1>4, Bounds DEF AwaitStatus
<1>5. CASE LookAtPort
  BY <1>5, Bounds DEF LookAtPort
<1>6. CASE WaitForPlug
  BY <1>6, Bounds DEF WaitForPlug
<1>7. CASE Absent
  BY <1>7, Bounds DEF Absent
<1>8. CASE Submit
  BY <1>8, Bounds DEF Submit
<1>9. CASE Wake
  BY <1>9, Bounds DEF Wake
<1>10. CASE Look
  BY <1>10, Bounds DEF Look
<1>11. CASE ReadMessage
  BY <1>11, Bounds DEF ReadMessage
<1>12. CASE EraseMessage
  BY <1>12, Bounds DEF EraseMessage
<1>13. CASE ReadControl
  BY <1>13, Bounds DEF ReadControl
<1>14. CASE RetryRead
  BY <1>14, Bounds DEF RetryRead
<1>15. CASE RetryConsume
  BY <1>15, Bounds DEF RetryConsume
<1>16. CASE RetryAwait
  BY <1>16, Bounds DEF RetryAwait
<1>17. CASE RetryControl
  BY <1>17, Bounds DEF RetryControl
<1>18. CASE SubmitEndpoint
  BY <1>18, Bounds DEF SubmitEndpoint
<1>19. CASE NextPoll
  BY <1>19, Bounds DEF NextPoll
<1>20. CASE ShowReport
  BY <1>20, Bounds DEF ShowReport
<1>21. CASE StillPresent
  BY <1>21, Bounds DEF StillPresent
<1>22. CASE Recount
  BY <1>22, Bounds DEF Recount
<1>23. CASE Removed
  BY <1>23, Bounds DEF Removed
<1>24. CASE Execute("init", "init", "status")
  BY <1>24, Bounds DEF Execute
<1>25. CASE Acknowledged("ack1", "busreset")
  BY <1>25, Bounds DEF Acknowledged
<1>26. CASE Execute("busreset", "busreset", "ack2")
  BY <1>26, Bounds DEF Execute
<1>27. CASE Acknowledged("ack2", "port")
  BY <1>27, Bounds DEF Acknowledged
<1>28. CASE WriteList
  BY <1>28, Bounds DEF WriteList
<1> QED BY <1>1, <1>2, <1>3, <1>4, <1>5, <1>6, <1>7, <1>8, <1>9, <1>10, <1>11, <1>12, <1>13,
       <1>14, <1>15, <1>16, <1>17, <1>18, <1>19, <1>20, <1>21, <1>22, <1>23, <1>24, <1>25,
       <1>26, <1>27, <1>28 DEF Program

(* The lists it writes and submits.                                        *)
LEMMA ProgramLists ==
  ASSUME UsbInv, Program
  PROVE  ListOK'
<1> USE DEF UsbInv, ListOK, hostVars, dataVars, ctrlVars, mailVars, msgVars, listVars, memVars,
           envVars, kbVars, histVars
<1>1. CASE SoftReset
  BY <1>1, Bounds DEF SoftReset
<1>2. CASE Drain
  BY <1>2, Bounds DEF Drain
<1>3. CASE ClearMessage("clear", "reclear") \/ ClearMessage("reclear", "init")
  BY <1>3, Bounds DEF ClearMessage
<1>4. CASE AwaitStatus
  BY <1>4, Bounds DEF AwaitStatus
<1>5. CASE LookAtPort
  BY <1>5, Bounds DEF LookAtPort
<1>6. CASE WaitForPlug
  BY <1>6, Bounds DEF WaitForPlug
<1>7. CASE Absent
  BY <1>7, Bounds DEF Absent
<1>8. CASE Submit
  BY <1>8, Bounds DEF Submit
<1>9. CASE Wake
  BY <1>9, Bounds DEF Wake
<1>10. CASE Look
  BY <1>10, Bounds DEF Look
<1>11. CASE ReadMessage
  BY <1>11, Bounds DEF ReadMessage
<1>12. CASE EraseMessage
  BY <1>12, Bounds DEF EraseMessage
<1>13. CASE ReadControl
  BY <1>13, Bounds DEF ReadControl
<1>14. CASE RetryRead
  BY <1>14, Bounds DEF RetryRead
<1>15. CASE RetryConsume
  BY <1>15, Bounds DEF RetryConsume
<1>16. CASE RetryAwait
  BY <1>16, Bounds DEF RetryAwait
<1>17. CASE RetryControl
  BY <1>17, Bounds DEF RetryControl
<1>18. CASE SubmitEndpoint
  BY <1>18, Bounds DEF SubmitEndpoint
<1>19. CASE NextPoll
  BY <1>19, Bounds DEF NextPoll
<1>20. CASE ShowReport
  BY <1>20, Bounds DEF ShowReport
<1>21. CASE StillPresent
  BY <1>21, Bounds DEF StillPresent
<1>22. CASE Recount
  BY <1>22, Bounds DEF Recount
<1>23. CASE Removed
  BY <1>23, Bounds DEF Removed
<1>24. CASE Execute("init", "init", "status")
  BY <1>24, Bounds DEF Execute
<1>25. CASE Acknowledged("ack1", "busreset")
  BY <1>25, Bounds DEF Acknowledged
<1>26. CASE Execute("busreset", "busreset", "ack2")
  BY <1>26, Bounds DEF Execute
<1>27. CASE Acknowledged("ack2", "port")
  BY <1>27, Bounds DEF Acknowledged
<1>28. CASE WriteList
  <2>1. /\ list' = IF n = Poll /\ ~odd THEN Poll + 1 ELSE n
        /\ control' = "active" /\ UNCHANGED <<pointer, run, pressed>>
    BY <1>28 DEF WriteList
  <2>2. n \in 1 .. Poll
    BY <1>28 DEF WriteList, PlaceOK, Requesting
  <2>3. list' \in Lists
    BY <2>1, <2>2 DEF Lists, Poll
  <2>4. word' \in Nat
    BY <1>28, WordWritten
  <2>5. answered' = 0
    BY <1>28 DEF WriteList
  <2> QED BY <2>1, <2>3, <2>4, <2>5
<1> QED BY <1>1, <1>2, <1>3, <1>4, <1>5, <1>6, <1>7, <1>8, <1>9, <1>10, <1>11, <1>12, <1>13,
       <1>14, <1>15, <1>16, <1>17, <1>18, <1>19, <1>20, <1>21, <1>22, <1>23, <1>24, <1>25,
       <1>26, <1>27, <1>28 DEF Program

(* The program is where it was while the controller, the keyboard or the   *)
(* player moves.                                                           *)
LEMMA OutsidePlace ==
  ASSUME UsbInv, UNCHANGED hostVars, UNCHANGED list, pointer' \in {pointer, "none"}
  PROVE  ProgramOK' /\ PlaceOK'
BY DEF UsbInv, ProgramOK, PlaceOK, Requesting, Retrying, hostVars, dataVars

(* The controller.                                                         *)
LEMMA ControllerStep ==
  ASSUME UsbInv, Controller
  PROVE  UsbInv'
<1>1. UNCHANGED hostVars /\ UNCHANGED <<list, pressed>> /\ pointer' \in {pointer, "none"}
  BY DEF Controller, Obey, Load, SetupDone, RestDone, Fail, Reported, NoReport, Finish,
         listVars, memVars, kbVars, envVars
<1>2. ProgramOK' /\ PlaceOK'
  BY <1>1, OutsidePlace
<1>3. MessageOK'
  <2> USE DEF UsbInv, MessageOK, hostVars, dataVars, mailVars, msgVars
  <2>1. CASE Obey
    <3>1. command' = "none" /\ UNCHANGED <<val, msg>>
      BY <2>1 DEF Obey
    <3>2. CASE command = "reset"
      <4>1. mailbox' \in [text : {"garbage", "ack"}, new : {TRUE}]
        BY <2>1, <3>2 DEF Obey
      <4>2. mailbox' \in [text : {"ack", "nak", "garbage"}, new : BOOLEAN]
        BY <4>1
      <4> QED BY <3>1, <4>2
    <3>3. CASE command # "reset"
      <4>1. mailbox' \in [text : {"ack"} \cup IF "fault" \in Disturbances THEN {"nak"} ELSE {}, new : {TRUE}]
        BY <2>1, <3>3 DEF Obey
      <4>2. mailbox' \in [text : {"ack", "nak", "garbage"}, new : BOOLEAN]
        BY <4>1
      <4> QED BY <3>1, <4>2
    <3> QED BY <3>2, <3>3
  <2>2. CASE Finish
    <3>1. msg' \in SUBSET {"done", "change"} /\ UNCHANGED <<val, command, mailbox>>
      BY <2>2 DEF Finish, Post
    <3> QED BY <3>1
  <2>3. CASE Load \/ SetupDone \/ RestDone \/ Fail \/ Reported \/ NoReport
    BY <2>3 DEF Load, SetupDone, RestDone, Fail, Reported, NoReport
  <2> QED BY <2>1, <2>2, <2>3 DEF Controller
<1>4. FlagsOK'
  <2> USE DEF UsbInv, FlagsOK, hostVars, dataVars, mailVars, msgVars, envVars, kbVars, histVars
  <2>1. CASE Obey
    BY <2>1 DEF Obey
  <2>2. CASE Finish
    BY <2>2 DEF Finish, Post
  <2>3. CASE Load
    BY <2>3 DEF Load
  <2>4. CASE SetupDone
    BY <2>4 DEF SetupDone
  <2>5. CASE RestDone
    BY <2>5 DEF RestDone
  <2>6. CASE Fail
    BY <2>6 DEF Fail
  <2>7. CASE Reported
    BY <2>7 DEF Reported
  <2>8. CASE NoReport
    BY <2>8 DEF NoReport
  <2> QED BY <2>1, <2>2, <2>3, <2>4, <2>5, <2>6, <2>7, <2>8 DEF Controller
<1>5. ListOK'
  <2>1. ListOK /\ PlaceOK
    BY DEF UsbInv
  <2> USE DEF ListOK, listVars, memVars, envVars, kbVars, histVars, Runs, Idle
  <2>2. CASE Obey
    BY <2>1, <2>2 DEF Obey
  <2>3. CASE Load
    BY <2>1, <2>3 DEF Load, PlaceOK
  <2>4. CASE SetupDone
    BY <2>1, <2>4 DEF SetupDone
  <2>5. CASE RestDone
    BY <2>1, <2>5 DEF RestDone
  <2>6. CASE Fail
    BY <2>1, <2>6 DEF Fail
  <2>7. CASE Reported
    BY <2>1, <2>7, UsbHostAssumption DEF Reported
  <2>8. CASE NoReport
    BY <2>1, <2>8 DEF NoReport
  <2>9. CASE Finish
    BY <2>1, <2>9 DEF Finish
  <2> QED BY <2>2, <2>3, <2>4, <2>5, <2>6, <2>7, <2>8, <2>9 DEF Controller
<1> QED BY <1>2, <1>3, <1>4, <1>5 DEF UsbInv

(* The keyboard and the player.                                            *)
LEMMA OutsideStep ==
  ASSUME UsbInv, Plug \/ Pull \/ \E k \in Keys : Press(k)
  PROVE  UsbInv'
<1>1. UNCHANGED hostVars /\ UNCHANGED list /\ pointer' \in {pointer, "none"}
  BY DEF Plug, Pull, Press, PortChanges, listVars, memVars, ctrlVars
<1>2. ProgramOK' /\ PlaceOK'
  BY <1>1, OutsidePlace
<1>3. CASE Plug \/ Pull
  <2>1. PICK now \in BOOLEAN : PortChanges(now)
    BY <1>3 DEF Plug, Pull
  <2>2. MessageOK'
    BY <2>1 DEF UsbInv, MessageOK, PortChanges, Post, hostVars, dataVars, mailVars, msgVars
  <2>3. FlagsOK'
    BY <2>1 DEF UsbInv, FlagsOK, PortChanges, Post, hostVars, dataVars, msgVars, histVars
  <2>4. ListOK'
    BY <2>1 DEF UsbInv, ListOK, PortChanges, listVars, memVars, histVars
  <2> QED BY <1>2, <2>2, <2>3, <2>4 DEF UsbInv
<1>4. ASSUME NEW k \in Keys, Press(k) PROVE UsbInv'
  <2>1. MessageOK'
    BY <1>4 DEF UsbInv, MessageOK, Press, hostVars, dataVars, ctrlVars, mailVars, msgVars
  <2>2. FlagsOK'
    BY <1>4 DEF UsbInv, FlagsOK, Press, hostVars, dataVars, ctrlVars, msgVars, histVars
  <2>3. ListOK'
    BY <1>4 DEF UsbInv, ListOK, Press, ctrlVars, listVars, memVars, histVars
  <2> QED BY <1>2, <2>1, <2>2, <2>3 DEF UsbInv
<1> QED BY <1>3, <1>4

LEMMA UsbStep == UsbInv /\ [UsbNext]_vars => UsbInv'
<1>1. SUFFICES ASSUME UsbInv, [UsbNext]_vars PROVE UsbInv'
  OBVIOUS
<1>2. CASE Program
  BY <1>1, <1>2, ProgramPlace, ProgramMessages, ProgramFlags, ProgramLists DEF UsbInv
<1>3. CASE Controller
  BY <1>1, <1>3, ControllerStep
<1>4. CASE Plug \/ Pull \/ \E k \in Keys : Press(k)
  BY <1>1, <1>4, OutsideStep
<1>5. CASE UNCHANGED vars
  <2>1. UNCHANGED <<hostVars, ctrlVars, envVars>>
    BY <1>5 DEF vars
  <2>2. ProgramOK' /\ PlaceOK'
    BY <1>1, <2>1, OutsidePlace DEF ctrlVars, listVars, memVars
  <2>3. MessageOK'
    BY <1>1, <2>1 DEF UsbInv, MessageOK, hostVars, dataVars, ctrlVars, mailVars, msgVars
  <2>4. FlagsOK'
    BY <1>1, <2>1 DEF UsbInv, FlagsOK, hostVars, dataVars, ctrlVars, msgVars, envVars, kbVars, histVars
  <2>5. ListOK'
    BY <1>1, <2>1 DEF UsbInv, ListOK, ctrlVars, listVars, memVars, envVars, kbVars, histVars
  <2> QED BY <2>2, <2>3, <2>4, <2>5 DEF UsbInv
<1> QED BY <1>1, <1>2, <1>3, <1>4, <1>5 DEF UsbNext

(* The program's variables and the controller's memory keep to their       *)
(* types, whatever is pulled out and whatever fails.                       *)
THEOREM UsbTypeCorrect == UsbSpec => []UsbTypeOK
<1>1. UsbInv => UsbTypeOK
  BY TypeInParts DEF UsbInv
<1> QED BY <1>1, UsbStart, UsbStep, PTL DEF UsbSpec

-----------------------------------------------------------------------------
(* The game sees only commands the player has given: program, controller   *)
(* and keyboard together implement the source of keys.                     *)
THEOREM NoOtherCommands == UsbSpec => OnlyReportedCommands
<1>1. Source!Harmless(0) /\ Source!Harmless(\h520)
  BY DEF Source!Harmless, GameKeys
<1>2. UsbInit => Source!SourceInit
  BY <1>1 DEF UsbInit, Source!SourceInit
<1> DEFINE SourceNext == Source!PressKey \/ Source!ReportKey \/ Source!Forget \/ Source!Show
<1>3. UsbInv /\ [UsbNext]_vars => [SourceNext]_<<pressed, key, word>>
  <2>1. SUFFICES ASSUME UsbInv, [UsbNext]_vars PROVE [SourceNext]_<<pressed, key, word>>
    OBVIOUS
  <2>2. CASE WriteList
    <3>1. UNCHANGED <<pressed, key>>
      BY <2>2 DEF WriteList, dataVars, kbVars
    <3>2. word' = word \/ Source!Harmless(word')
      BY <1>1, <2>1, <2>2, WordWritten
    <3> QED BY <3>1, <3>2 DEF Source!Forget
  <2>3. CASE ShowReport
    <3>1. key' = word % 256 /\ UNCHANGED <<pressed, word>>
      BY <2>3 DEF ShowReport, envVars, kbVars, ctrlVars, memVars
    <3> QED BY <3>1 DEF Source!Show
  <2>4. CASE Program /\ ~WriteList /\ ~ShowReport
    <3>1. UNCHANGED <<pressed, key, word>>
      BY <2>4 DEF Program, SoftReset, Drain, ClearMessage, Execute, AwaitStatus, Acknowledged, LookAtPort,
                  WaitForPlug, Absent, Submit, Wake, Look, ReadMessage, EraseMessage, ReadControl,
                  RetryRead, RetryConsume, RetryAwait, RetryControl, SubmitEndpoint, NextPoll,
                  StillPresent, Recount, Removed,
                  dataVars, ctrlVars, memVars, envVars, kbVars
    <3> QED BY <3>1
  <2>5. CASE Reported
    <3>1. UNCHANGED <<pressed, key>> /\ word' \in {pressed, word}
      BY <2>5 DEF Reported, hostVars, dataVars
    <3> QED BY <3>1 DEF Source!ReportKey
  <2>6. CASE Controller /\ ~Reported
    <3>1. UNCHANGED <<pressed, key, word>>
      BY <2>6 DEF Controller, Obey, Load, SetupDone, RestDone, Fail, NoReport, Finish,
                  hostVars, dataVars, memVars, envVars, kbVars
    <3> QED BY <3>1
  <2>7. CASE Plug \/ Pull
    <3>1. UNCHANGED <<pressed, key, word>>
      BY <2>7 DEF Plug, Pull, PortChanges, hostVars, dataVars, memVars
    <3> QED BY <3>1
  <2>8. ASSUME NEW k \in Keys, Press(k) PROVE Source!PressKey
    BY <2>8 DEF Press, Source!PressKey, hostVars, dataVars, ctrlVars, memVars
  <2>9. CASE UNCHANGED vars
    BY <2>9 DEF vars, hostVars, dataVars, ctrlVars, memVars, envVars, kbVars
  <2> QED BY <2>1, <2>2, <2>3, <2>4, <2>5, <2>6, <2>7, <2>8, <2>9 DEF UsbNext
<1>4. UsbInit /\ [][UsbNext]_vars => [][SourceNext]_<<pressed, key, word>>
  BY <1>3, UsbStart, UsbStep, PTL
<1> QED BY <1>2, <1>4, PTL DEF UsbSpec, OnlyReportedCommands, Source!SourceSpec, Source!sourceVars
-----------------------------------------------------------------------------
(* Whose answers the program takes, whatever fails, whatever is pulled     *)
(* out, whenever frames begin and whatever the controller reports of the   *)
(* port.                                                                   *)

SettingUp == {"reset", "drain", "clear", "reclear", "init", "status", "ack1", "busreset",
              "ack2", "port", "plug", "absent"}
AtRest == pointer = "none" /\ run = Idle

(* In which copy of the statements the program is.                         *)
CopyOK ==
  /\ n = 0 <=> pc \in SettingUp
  /\ pc = "info" => n = 5
  /\ pc \in {"report", "present", "recount", "removed"} => n = Poll
  /\ pc = "poll" => n \in {9, Poll}

(* The list of the request the program is at stands at 0x0500.             *)
Written == ~(pc = "write" /\ ~again)

(* A reset ends whatever the controller was at, and until the next list    *)
(* there is nothing for it to take up.                                     *)
StartsAtRest ==
  /\ pc = "drain" => command \in {"none", "reset"}
  /\ command = "reset" => pc = "drain"
  /\ pc \in SettingUp \ {"reset", "drain"} => AtRest
  /\ pc = "drain" /\ command = "none" => AtRest
  /\ n = 1 /\ ~Written => AtRest

(* Which list stands there.                                                *)
ListStands == n \in 1 .. 9 => IF Written THEN list = n ELSE n = 1 \/ list = n - 1

(* The controller runs that list, or still the one before; but that one    *)
(* has not answered since it was overwritten.                              *)
AtMostOneBehind ==
  n \in 1 .. 9 =>
    /\ run.stage = "setup" =>
         run.of = list \/ (Written /\ pc # "info" /\ run.of = n - 1 /\ control = "active")
    /\ Written /\ control = "clean" => answered \in {n - 1, n}

(* The first submission of a request, and no other.                        *)
Once == n \in 1 .. 9 /\ ~again /\ pc \in {"point", "look", "sleep"}

ToCome == pointer = "list" \/ run.stage = "setup"

(* When no sleep was too short, nothing of a request is left to be carried *)
(* out once the program has seen its answer.                               *)
NothingLeft ==
  ~hasty /\ n \in 1 .. 9 =>
    /\ ~Written \/ pc \in {"info", "poll"} => ~ToCome
    /\ Once /\ pc = "point" => ~ToCome /\ control = "active"
    /\ run.stage = "setup" => run.of = n
    /\ (Once \/ pc \in {"read", "erase"} \cup Retrying) /\ ToCome =>
         control = "active" /\ ~(pointer = "list" /\ run.stage = "setup")
    /\ Written /\ control = "clean" => answered = n

OwnInv == CopyOK /\ StartsAtRest /\ ListStands /\ AtMostOneBehind /\ NothingLeft

LEMMA OwnStart == UsbInit => OwnInv
BY DEF UsbInit, OwnInv, CopyOK, StartsAtRest, ListStands, AtMostOneBehind, NothingLeft, SettingUp,
       AtRest, Idle

(* What a command changes when the controller obeys it.                    *)
LEMMA Obeyed ==
  ASSUME Obey
  PROVE  /\ command # "none" /\ command' = "none"
         /\ IF command = "reset" THEN AtRest' ELSE (hasty' <=> hasty) /\ UNCHANGED listVars
         /\ UNCHANGED <<answered, hostVars, msgVars, memVars>>
<1>1. CASE command = "reset"
  BY <1>1 DEF Obey, AtRest
<1>2. CASE command # "reset"
  <2>1. command' = "none" /\ UNCHANGED listVars
    BY <1>2, Zenon DEF Obey
  <2>2. (hasty' <=> hasty) /\ UNCHANGED <<answered, hostVars, msgVars, memVars>>
    BY <1>2 DEF Obey
  <2> QED BY <1>2, <2>1, <2>2 DEF Obey
<1> QED BY <1>1, <1>2

(* A run goes on to its next stage.                                        *)
LEMMA NextStage ==
  ASSUME UsbInv, NEW s \in {"rest", "end"}, run' = [run EXCEPT !.stage = s]
  PROVE  run'.of = run.of /\ run'.stage = s /\ run' # Idle
BY DEF UsbInv, ListOK, Runs, Idle

LEMMA ProgramOwn ==
  ASSUME UsbInv, OwnInv, Program
  PROVE  OwnInv'
<1> USE DEF UsbInv, ProgramOK, MessageOK, ListOK, FlagsOK, PlaceOK, Requesting, Retrying, Goto, Poll, Lists,
           OwnInv, CopyOK, StartsAtRest, ListStands, AtMostOneBehind, NothingLeft, Once, ToCome, Written,
           SettingUp, AtRest, Idle,
           hostVars, dataVars, ctrlVars, mailVars, msgVars, listVars, memVars, envVars, histVars
<1>1. CASE SoftReset
  BY <1>1 DEF SoftReset
<1>2. CASE Drain
  BY <1>2 DEF Drain
<1>3. CASE ClearMessage("clear", "reclear") \/ ClearMessage("reclear", "init")
  BY <1>3 DEF ClearMessage
<1>4. CASE Execute("init", "init", "status")
  BY <1>4 DEF Execute
<1>5. CASE AwaitStatus
  BY <1>5 DEF AwaitStatus
<1>6. CASE Acknowledged("ack1", "busreset")
  BY <1>6 DEF Acknowledged, Restart
<1>7. CASE Execute("busreset", "busreset", "ack2")
  BY <1>7 DEF Execute
<1>8. CASE Acknowledged("ack2", "port")
  BY <1>8 DEF Acknowledged, Restart
<1>9. CASE LookAtPort
  BY <1>9 DEF LookAtPort, Request
<1>10. CASE WaitForPlug
  BY <1>10 DEF WaitForPlug, Request
<1>11. CASE Absent
  BY <1>11 DEF Absent, Restart
<1>12. CASE WriteList
  BY <1>12 DEF WriteList
<1>13. CASE Submit
  <2>1. /\ pc = "point" /\ pc' \in {"sleep", "look"} /\ pointer' = "list"
        /\ UNCHANGED <<n, again, run, control, list, answered, hasty, command>>
    BY <1>13 DEF Submit
  <2>2. CopyOK' /\ StartsAtRest' /\ ListStands'
    BY <2>1
  <2>3. AtMostOneBehind'
    BY <2>1
  <2>4. NothingLeft'
    BY <2>1
  <2> QED BY <2>2, <2>3, <2>4
<1>14. CASE Wake
  BY <1>14 DEF Wake
<1>15. CASE Look
  BY <1>15 DEF Look, OneMoreToCome
<1>16. CASE ReadMessage
  BY <1>16 DEF ReadMessage
<1>17. CASE EraseMessage
  BY <1>17 DEF EraseMessage
<1>18. CASE ReadControl
  BY <1>18 DEF ReadControl, AfterRequest, Request
<1>19. CASE RetryRead
  BY <1>19 DEF RetryRead
<1>20. CASE RetryConsume
  BY <1>20 DEF RetryConsume
<1>21. CASE RetryAwait
  BY <1>21 DEF RetryAwait
<1>22. CASE RetryControl
  BY <1>22 DEF RetryControl, AfterRequest, Request, Restart
<1>23. CASE SubmitEndpoint
  <2>1. /\ pc = "info" /\ pc' = "write" /\ n = 5 /\ n' = 6 /\ again' = FALSE /\ pointer' = "endpoint"
        /\ UNCHANGED <<run, control, list, answered, hasty, command>>
    BY <1>23 DEF SubmitEndpoint, Request
  <2>2. CopyOK' /\ StartsAtRest' /\ ListStands'
    BY <2>1
  <2>3. AtMostOneBehind'
    BY <2>1
  <2>4. ~hasty => ~ToCome
    <3>1. n \in 1 .. 9 /\ pc \in {"info", "poll"} /\ NothingLeft
      BY <2>1
    <3> QED BY ONLY <3>1 DEF NothingLeft
  <2>5. NothingLeft'
    BY <2>1, <2>4
  <2> QED BY <2>2, <2>3, <2>5
<1>24. CASE NextPoll
  BY <1>24 DEF NextPoll, Request
<1>25. CASE ShowReport
  BY <1>25 DEF ShowReport
<1>26. CASE StillPresent
  BY <1>26 DEF StillPresent
<1>27. CASE Recount
  BY <1>27 DEF Recount
<1>28. CASE Removed
  BY <1>28 DEF Removed, Restart
<1> QED BY <1>1, <1>2, <1>3, <1>4, <1>5, <1>6, <1>7, <1>8, <1>9, <1>10, <1>11, <1>12, <1>13,
       <1>14, <1>15, <1>16, <1>17, <1>18, <1>19, <1>20, <1>21, <1>22, <1>23, <1>24, <1>25,
       <1>26, <1>27, <1>28 DEF Program

LEMMA ControllerOwn ==
  ASSUME UsbInv, OwnInv, Controller
  PROVE  OwnInv'
<1> USE DEF UsbInv, ProgramOK, ListOK, FlagsOK, PlaceOK, Requesting, Retrying, Poll, Lists,
           OwnInv, CopyOK, StartsAtRest, ListStands, AtMostOneBehind, NothingLeft, Once, ToCome, Written,
           SettingUp, AtRest, Idle,
           hostVars, mailVars, listVars, memVars, envVars, histVars
<1>1. CASE Obey
  BY <1>1, Obeyed
<1>2. CASE Load
  BY <1>2 DEF Load
<1>3. CASE SetupDone
  <2>1. /\ run' = [run EXCEPT !.stage = "rest"] /\ run.stage = "setup"
        /\ answered' = run.of /\ control' = "clean"
        /\ UNCHANGED <<pointer, list, hasty, hostVars, mailVars>>
    BY <1>3 DEF SetupDone
  <2>2. run'.stage = "rest" /\ run # Idle /\ run' # Idle
    BY <2>1, NextStage
  <2> QED BY <2>1, <2>2
<1>4. CASE RestDone
  BY <1>4, NextStage DEF RestDone
<1>5. CASE Fail
  BY <1>5, NextStage DEF Fail
<1>6. CASE Reported
  <2>1. /\ run' = [run EXCEPT !.stage = "end"] /\ run.stage = "setup" /\ run.of >= Poll
        /\ answered' = run.of /\ control' = "clean"
        /\ UNCHANGED <<pointer, list, hasty, hostVars, mailVars>>
    BY <1>6 DEF Reported
  <2>2. run'.stage = "end" /\ run # Idle /\ run' # Idle
    BY <2>1, NextStage
  <2>3. n \notin 1 .. 9
    BY <2>1, <2>2
  <2> QED BY <2>1, <2>2, <2>3
<1>7. CASE NoReport
  BY <1>7, NextStage DEF NoReport
<1>8. CASE Finish
  BY <1>8 DEF Finish, Post
<1> QED BY <1>1, <1>2, <1>3, <1>4, <1>5, <1>6, <1>7, <1>8 DEF Controller

LEMMA OwnStep == UsbInv /\ OwnInv /\ [UsbNext]_vars => OwnInv'
<1>1. SUFFICES ASSUME UsbInv, OwnInv, [UsbNext]_vars PROVE OwnInv'
  OBVIOUS
<1>2. CASE Program
  BY <1>1, <1>2, ProgramOwn
<1>3. CASE Controller
  BY <1>1, <1>3, ControllerOwn
<1>4. CASE Plug \/ Pull \/ (\E k \in Keys : Press(k)) \/ UNCHANGED vars
  <2>1. UNCHANGED <<hostVars, mailVars, listVars, memVars, histVars>>
    BY <1>4 DEF Plug, Pull, PortChanges, Press, vars, ctrlVars, envVars
  <2> QED BY <1>1, <2>1 DEF OwnInv, CopyOK, StartsAtRest, ListStands, AtMostOneBehind, NothingLeft, Once,
                  ToCome, Written, AtRest, hostVars, mailVars, listVars, memVars, histVars
<1> QED BY <1>1, <1>2, <1>3, <1>4 DEF UsbNext

(* Lists are submitted twice, share their memory, fail, are rewritten when *)
(* they run, and messages about the port come in between: the answer the   *)
(* program takes is still that to the request it waits for, or, when a     *)
(* sleep was too short, that to the one before.                            *)
THEOREM AnswersAreOwn == UsbSpec => OwnAnswer
<1> DEFINE Own == answered = n \/ (hasty /\ answered = n - 1)
<1>1. UsbInv /\ OwnInv /\ [UsbNext]_vars => [Passes => Own]_vars
  <2>1. SUFFICES ASSUME UsbInv, OwnInv, UsbNext, Passes PROVE Own
    OBVIOUS
  <2>2. pc \in {"control", "recheck"} /\ pc' # pc
    BY <2>1 DEF Passes
  <2>3. ~ UNCHANGED hostVars
    BY <2>2 DEF hostVars
  <2>4. Program
    BY <2>1, <2>3 DEF UsbNext, Controller, Obey, Load, SetupDone, RestDone, Fail, Reported, NoReport,
                      Finish, Plug, Pull, PortChanges, Press
  <2>5. ReadControl \/ RetryControl
    BY <2>2, <2>4 DEF Program, SoftReset, Drain, ClearMessage, Execute, AwaitStatus, Acknowledged,
                      LookAtPort, WaitForPlug, Absent, WriteList, Submit, Wake, Look, ReadMessage,
                      EraseMessage, RetryRead, RetryConsume, RetryAwait, SubmitEndpoint, NextPoll,
                      ShowReport, StillPresent, Recount, Removed
  <2>6. control = "clean"
    BY <2>1, <2>5 DEF ReadControl, RetryControl, Restart, Goto, Passes
  <2>7. n \in 1 .. 9 /\ Written
    BY <2>1, <2>2 DEF UsbInv, PlaceOK, Retrying, Written
  <2>8. hasty \in BOOLEAN
    BY <2>1 DEF UsbInv, FlagsOK
  <2>9. answered \in {n - 1, n} /\ (~hasty => answered = n)
    BY <2>1, <2>6, <2>7 DEF OwnInv, AtMostOneBehind, NothingLeft
  <2> QED BY <2>8, <2>9
<1>2. UsbInit /\ [][UsbNext]_vars => [][Passes => Own]_vars
  BY <1>1, UsbStart, UsbStep, OwnStart, OwnStep, PTL
<1> QED BY <1>2 DEF UsbSpec, OwnAnswer
-----------------------------------------------------------------------------
(* The memory of the lists (TdMemory).                                     *)

(* Where stage k of a list stands: in its words, and in memory.            *)
Base(k) == IF k = 0 THEN 0 ELSE 4 + 6 * k
Place(k) == ListStart + 2 * Base(k)

PidOf(l, k) == (l[Base(k) + 3] \div 16) % 16
IsIn(l, k) == PidOf(l, k) = 9

(* Every TD but the last names the next; what a list receives goes behind  *)
(* it.                                                                     *)
Chained(l, stages) ==
  /\ stages \in 1 .. 10 /\ Len(l) = IF stages = 1 THEN 6 ELSE 4 + 6 * stages
  /\ \A k \in 0 .. stages - 1 :
       /\ l[Base(k) + 6] = IF k = stages - 1 THEN 0 ELSE Place(k + 1)
       /\ l[Base(k) + 1] \in Nat /\ l[Base(k) + 2] \in 0 .. 8
       /\ IsIn(l, k) /\ l[Base(k) + 2] > 0 => l[Base(k) + 1] >= ListStart + 2 * Len(l)

(* A control transfer: the lengths add up to what is announced, and the    *)
(* toggles alternate.                                                      *)
Controls(l, stages) ==
  /\ l[10] \in Nat
  /\ PidOf(l, 0) = \hD /\ l[Base(0) + 2] = 8 /\ l[Base(0) + 4] = Data0
  /\ \A k \in 1 .. stages - 1 :
       /\ PidOf(l, k) # \hD
       /\ IsIn(l, k) => 8 * (k - 1) + l[Base(k) + 2] <= l[10]
       /\ l[Base(k) + 2] = 0 => l[Base(k) + 4] = Data1
       /\ l[Base(k) + 2] # 0 => l[Base(k) + 4] # l[Base(k - 1) + 4]

LEMMA ControlLists ==
  /\ Chained(SetAddress, 2) /\ Controls(SetAddress, 2)
  /\ Chained(GetDeviceDesc1, 3) /\ Controls(GetDeviceDesc1, 3)
  /\ Chained(GetDeviceDesc2, 5) /\ Controls(GetDeviceDesc2, 5)
  /\ Chained(GetConfigDesc1, 4) /\ Controls(GetConfigDesc1, 4)
  /\ Chained(GetConfigDesc2, 7) /\ Controls(GetConfigDesc2, 7)
  /\ Chained(SetConfig, 2) /\ Controls(SetConfig, 2)
  /\ Chained(ClassRequest, 2) /\ Controls(ClassRequest, 2)
  /\ Chained(GetHidDesc, 3) /\ Controls(GetHidDesc, 3)
  /\ Chained(GetReportDesc, 10) /\ Controls(GetReportDesc, 10)
<1> USE DEF Chained, Controls, IsIn, PidOf, Base, Place, ListStart, Td, Data0, Data1
<1>1. Chained(SetAddress, 2) /\ Controls(SetAddress, 2)
  BY DEF SetAddress
<1>2. Chained(GetDeviceDesc1, 3) /\ Controls(GetDeviceDesc1, 3)
  BY DEF GetDeviceDesc1
<1>3. Chained(GetDeviceDesc2, 5) /\ Controls(GetDeviceDesc2, 5)
  BY DEF GetDeviceDesc2
<1>4. Chained(GetConfigDesc1, 4) /\ Controls(GetConfigDesc1, 4)
  BY DEF GetConfigDesc1
<1>5. Chained(GetConfigDesc2, 7) /\ Controls(GetConfigDesc2, 7)
  BY DEF GetConfigDesc2
<1>6. Chained(SetConfig, 2) /\ Controls(SetConfig, 2)
  BY DEF SetConfig
<1>7. Chained(ClassRequest, 2) /\ Controls(ClassRequest, 2)
  BY DEF ClassRequest
<1>8. Chained(GetHidDesc, 3) /\ Controls(GetHidDesc, 3)
  BY DEF GetHidDesc
<1>9. Chained(GetReportDesc, 10) /\ Controls(GetReportDesc, 10)
  BY DEF GetReportDesc
<1> HIDE DEF Chained, Controls
<1> QED BY <1>1, <1>2, <1>3, <1>4, <1>5, <1>6, <1>7, <1>8, <1>9

LEMMA PollLists ==
  ASSUME NEW data0 \in BOOLEAN
  PROVE  Chained(PollList(8, data0), 1)
BY DEF PollList, Chained, IsIn, PidOf, Base, Place, ListStart, Td, Data0, Data1

LEMMA AllLists ==
  ASSUME NEW i \in Requests
  PROVE  /\ Chained(ListOf(i), Stages(i))
         /\ i <= 9 => Controls(ListOf(i), Stages(i)) /\ Announced(i) = ListOf(i)[10]
         /\ Announced(i) \in Nat
<1>1. ASSUME NEW l, NEW stages, Chained(l, stages), l = ListOf(i) PROVE Stages(i) = stages
  <2>1. stages \in 1 .. 10 /\ Len(l) = IF stages = 1 THEN 6 ELSE 4 + 6 * stages
    BY <1>1 DEF Chained
  <2> QED BY <1>1, <2>1 DEF Stages
<1>2. CASE i <= 9
  <2>1. PICK l, stages : l = ListOf(i) /\ Chained(l, stages) /\ Controls(l, stages)
    <3>1. i \in {1, 2, 3, 4, 5, 6, 7, 8, 9} /\ ListOf(i) = Enumeration[i]
      BY <1>2 DEF Requests, ListOf
    <3>2. \E stages : Chained(Enumeration[i], stages) /\ Controls(Enumeration[i], stages)
      BY <3>1, ControlLists DEF Enumeration
    <3> QED BY <3>1, <3>2
  <2>2. Announced(i) = ListOf(i)[10]
    BY <1>2 DEF Announced
  <2> QED BY <1>1, <2>1, <2>2 DEF Controls
<1>3. CASE ~(i <= 9)
  <2>1. Chained(ListOf(i), 1) /\ Announced(i) = 8
    BY <1>3, PollLists DEF Requests, ListOf, Announced
  <2> QED BY <1>1, <1>3, <2>1
<1> QED BY <1>2, <1>3

-----------------------------------------------------------------------------
(* The controller stands on the stage whose turn it is, and what it has    *)
(* asked for so far is what the stages behind it ask for.                  *)
Standing ==
  \/ td = 0 /\ ran = Stages(nth)
  \/ ran \in 0 .. Stages(nth) - 1 /\ td = Place(ran)

Asking ==
  nth <= 9 =>
    /\ asked <= Announced(nth)
    /\ td # 0 => /\ ran = 0 => asked = 0
                 /\ ran > 0 => /\ asked <= 8 * (ran - 1)
                               /\ last = ListOf(nth)[Base(ran - 1) + 4]

TdInv ==
  /\ nth \in Requests /\ DOMAIN mem = Words
  /\ left \in Nat /\ asked \in Nat /\ got \in Nat
  /\ ListIntact /\ Standing /\ Asking

(* A chain takes at most 64 words; its places are apart from 0 and in the  *)
(* list, and so are their words.                                           *)
LEMMA ChainPlaces ==
  ASSUME NEW stages \in 1 .. 10, NEW len, len = IF stages = 1 THEN 6 ELSE 4 + 6 * stages
  PROVE  /\ len \in 6 .. 64
         /\ \A k \in 0 .. stages - 1 :
              /\ Base(k) \in Nat /\ Place(k) \in Nat /\ Place(k) # 0
              /\ \A j \in 1 .. 6 : /\ Base(k) + j \in 1 .. len
                                   /\ ListStart + 2 * ((Base(k) + j) - 1) = Place(k) + 2 * (j - 1)
BY DEF Base, Place, ListStart

LEMMA ChainLength ==
  ASSUME NEW l, NEW stages, Chained(l, stages)
  PROVE  stages \in 1 .. 10 /\ Len(l) \in 6 .. 64
<1>1. stages \in 1 .. 10 /\ Len(l) = IF stages = 1 THEN 6 ELSE 4 + 6 * stages
  BY DEF Chained
<1> QED BY ONLY <1>1, ChainPlaces

LEMMA InTheList ==
  ASSUME NEW l, NEW stages, Chained(l, stages), NEW k \in 0 .. stages - 1
  PROVE  /\ Base(k) \in Nat /\ Place(k) \in Nat /\ Place(k) # 0
         /\ \A j \in 1 .. 6 : /\ Base(k) + j \in 1 .. Len(l)
                              /\ ListStart + 2 * ((Base(k) + j) - 1) = Place(k) + 2 * (j - 1)
<1>1. stages \in 1 .. 10 /\ Len(l) = IF stages = 1 THEN 6 ELSE 4 + 6 * stages
  BY DEF Chained
<1> QED BY <1>1, ChainPlaces

(* What the controller reads is the TD of that stage.                      *)
LEMMA Reads ==
  ASSUME TdInv, td # 0
  PROVE  /\ ran \in 0 .. Stages(nth) - 1 /\ td = Place(ran)
         /\ mem[td] = ListOf(nth)[Base(ran) + 1]
         /\ mem[td + 2] = ListOf(nth)[Base(ran) + 2]
         /\ mem[td + 4] = ListOf(nth)[Base(ran) + 3]
         /\ mem[td + 6] = ListOf(nth)[Base(ran) + 4]
         /\ mem[td + 10] = ListOf(nth)[Base(ran) + 6]
<1>1. ran \in 0 .. Stages(nth) - 1 /\ td = Place(ran)
  BY DEF TdInv, Standing
<1>2. /\ Base(ran) \in Nat /\ td \in Nat
      /\ \A j \in 1 .. 6 : /\ Base(ran) + j \in 1 .. Len(ListOf(nth))
                           /\ ListStart + 2 * ((Base(ran) + j) - 1) = td + 2 * (j - 1)
  BY <1>1, AllLists, InTheList DEF TdInv
<1>3. ASSUME NEW j \in 1 .. 6
      PROVE  mem[td + 2 * (j - 1)] = ListOf(nth)[Base(ran) + j]
  <2>1. mem[ListStart + 2 * ((Base(ran) + j) - 1)] = ListOf(nth)[Base(ran) + j]
    BY <1>2 DEF TdInv, ListIntact
  <2> QED BY <1>2, <2>1
<1>4. /\ mem[td + 2 * (1 - 1)] = ListOf(nth)[Base(ran) + 1]
      /\ mem[td + 2 * (2 - 1)] = ListOf(nth)[Base(ran) + 2]
      /\ mem[td + 2 * (3 - 1)] = ListOf(nth)[Base(ran) + 3]
      /\ mem[td + 2 * (4 - 1)] = ListOf(nth)[Base(ran) + 4]
      /\ mem[td + 2 * (6 - 1)] = ListOf(nth)[Base(ran) + 6]
  BY ONLY <1>3
<1>5. /\ td + 2 * (1 - 1) = td /\ td + 2 * (2 - 1) = td + 2 /\ td + 2 * (3 - 1) = td + 4
      /\ td + 2 * (4 - 1) = td + 6 /\ td + 2 * (6 - 1) = td + 10
  BY ONLY <1>2
<1> QED BY ONLY <1>1, <1>4, <1>5

(* The words a list takes are words of the memory.                         *)
LEMMA WordAt ==
  ASSUME NEW len \in 6 .. 64, NEW j \in 1 .. len
  PROVE  /\ j \in Nat /\ 1 <= j /\ j <= 64
         /\ ListStart + 2 * (j - 1) \in Words
<1>1. j - 1 \in 0 .. 95 /\ ListStart + 2 * (j - 1) = \h500 + 2 * (j - 1)
  BY DEF ListStart
<1> QED BY <1>1 DEF Words

LEMMA ListWords ==
  ASSUME NEW l, NEW stages, Chained(l, stages), NEW j \in 1 .. Len(l)
  PROVE  ListStart + 2 * (j - 1) \in Words /\ j \in Nat /\ 1 <= j /\ j <= 64
BY ChainLength, WordAt

(* A list that is written is in memory, whatever was there.                *)
LEMMA WrittenWhole ==
  ASSUME NEW l, NEW stages, Chained(l, stages), NEW m, NEW before, DOMAIN m = Words,
         \A a \in Words : m[a] = Stored(l, ListStart, a, before[a])
  PROVE  \A j \in 1 .. Len(l) : m[ListStart + 2 * (j - 1)] = l[j]
<1>1. Len(l) \in 6 .. 64
  BY ChainLength
<1>2. ASSUME NEW j \in 1 .. Len(l)
      PROVE  m[ListStart + 2 * (j - 1)] = l[j]
  <2>0. j \in Nat /\ 1 <= j /\ j <= Len(l) /\ j <= 64
    BY <1>1, ListWords
  <2> DEFINE a == ListStart + 2 * (j - 1)
  <2>1. a \in Words
    BY ListWords
  <2>2. a >= ListStart /\ a < ListStart + 2 * Len(l) /\ ((a - ListStart) \div 2) + 1 = j
    BY ONLY <2>0, <1>1 DEF ListStart
  <2>3. a = ListStart + 2 * (j - 1)
    OBVIOUS
  <2> HIDE DEF a
  <2>4. m[a] = Stored(l, ListStart, a, before[a])
    BY <2>1
  <2>5. Stored(l, ListStart, a, before[a]) = l[((a - ListStart) \div 2) + 1]
    BY ONLY <2>2 DEF Stored
  <2> QED BY ONLY <2>2, <2>3, <2>4, <2>5
<1> QED BY <1>2

LEMMA Submitted ==
  ASSUME NEW i \in Requests
  PROVE  /\ Stages(i) \in 1 .. 10 /\ Place(0) = ListStart /\ ListStart # 0
         /\ Announced(i) \in Nat
<1>1. Stages(i) \in 1 .. 10
  BY AllLists DEF Chained
<1> QED BY <1>1, AllLists DEF Place, Base, ListStart

LEMMA TdStart == TdInit => TdInv
<1>1. SUFFICES ASSUME TdInit PROVE TdInv
  OBVIOUS
<1>2. /\ nth = 1 /\ td = ListStart /\ left = 0 /\ asked = 0 /\ got = 0 /\ ran = 0
      /\ mem = [a \in Words |-> Stored(ListOf(1), ListStart, a, 0)] /\ 1 \in Requests
  BY <1>1 DEF TdInit, Requests
<1>3. DOMAIN mem = Words /\ ListIntact
  <2> DEFINE before == [a \in Words |-> 0]
  <2>1. DOMAIN mem = Words /\ \A a \in Words : mem[a] = Stored(ListOf(1), ListStart, a, before[a])
    BY <1>2
  <2>2. Chained(ListOf(1), Stages(1))
    BY <1>2, AllLists
  <2> HIDE DEF before
  <2>3. \A j \in 1 .. Len(ListOf(1)) : mem[ListStart + 2 * (j - 1)] = ListOf(1)[j]
    BY <2>1, <2>2, WrittenWhole
  <2> QED BY <1>2, <2>1, <2>3 DEF ListIntact
<1>4. Standing /\ Asking
  BY <1>2, Submitted DEF Standing, Asking
<1> QED BY <1>2, <1>3, <1>4 DEF TdInv

LEMMA SubmitKeeps ==
  ASSUME TdInv, NEW i \in Requests, SubmitNext(i)
  PROVE  TdInv'
<1>1. /\ nth' = i /\ td' = ListStart /\ asked' = 0 /\ got' = 0 /\ ran' = 0
      /\ mem' = [a \in Words |->
                  Stored(ListOf(i), ListStart, a, IF nth = 5 /\ i = 6 THEN Endpoint(a) ELSE mem[a])]
  BY DEF SubmitNext
<1>2. left' \in Nat
  BY TdMemoryAssumption, AllLists DEF SubmitNext
<1>3. DOMAIN mem' = Words /\ ListIntact'
  <2> DEFINE before == [a \in Words |-> IF nth = 5 /\ i = 6 THEN Endpoint(a) ELSE mem[a]]
  <2>1. DOMAIN mem' = Words /\ \A a \in Words : mem'[a] = Stored(ListOf(i), ListStart, a, before[a])
    BY <1>1
  <2>2. Chained(ListOf(i), Stages(i))
    BY AllLists
  <2> HIDE DEF before
  <2>3. \A j \in 1 .. Len(ListOf(i)) : mem'[ListStart + 2 * (j - 1)] = ListOf(i)[j]
    BY <2>1, <2>2, WrittenWhole
  <2> QED BY <1>1, <2>1, <2>3 DEF ListIntact
<1>4. Standing' /\ Asking'
  BY <1>1, Submitted DEF Standing, Asking
<1> QED BY <1>1, <1>2, <1>3, <1>4 DEF TdInv

(* What a transfer stores stays clear of the list.                         *)
Bytes == IF ~In THEN 0 ELSE IF left < mem[td + 2] THEN left ELSE mem[td + 2]

LEMMA StoresBehind ==
  ASSUME TdInv, td # 0
  PROVE  /\ Bytes \in 0 .. 8 /\ mem[td] \in Nat /\ mem[td + 2] \in 0 .. 8 /\ Bytes <= left
         /\ Bytes > 0 => In /\ mem[td] >= ListStart + 2 * Len(ListOf(nth))
         /\ In = IsIn(ListOf(nth), ran)
<1>1. Chained(ListOf(nth), Stages(nth))
  BY AllLists DEF TdInv
<1>2. In = IsIn(ListOf(nth), ran)
  BY Reads DEF In, Pid, IsIn, PidOf
<1>3. /\ mem[td] \in Nat /\ mem[td + 2] \in 0 .. 8
      /\ In /\ mem[td + 2] > 0 => mem[td] >= ListStart + 2 * Len(ListOf(nth))
  BY <1>1, <1>2, Reads DEF Chained
<1>4. left \in Nat
  BY DEF TdInv
<1> QED BY <1>2, <1>3, <1>4 DEF Bytes

LEMMA TransferKeeps ==
  ASSUME TdInv, Transfer
  PROVE  TdInv'
<1> DEFINE l == ListOf(nth)
           stages == Stages(nth)
<1>1. /\ td # 0 /\ nth' = nth /\ left' = left - Bytes /\ got' = got + Bytes
      /\ asked' = IF In THEN asked + mem[td + 2] ELSE asked
      /\ last' = mem[td + 6] /\ ran' = ran + 1 /\ td' = mem[td + 10]
      /\ mem' = [a \in Words |-> IF a >= mem[td] /\ a < mem[td] + Bytes
                                 THEN Byte(got + a - mem[td]) ELSE mem[a]]
  BY DEF Transfer, Bytes
<1>2. /\ nth \in Requests /\ left \in Nat /\ asked \in Nat /\ got \in Nat
      /\ Chained(l, stages)
      /\ nth <= 9 => Controls(l, stages) /\ Announced(nth) = l[10]
  BY AllLists DEF TdInv
<1>3. stages \in 1 .. 10 /\ Len(l) \in 6 .. 64
  BY <1>2, ChainLength
<1>4. /\ ran \in 0 .. stages - 1 /\ td = Place(ran)
      /\ mem[td + 2] = l[Base(ran) + 2] /\ mem[td + 6] = l[Base(ran) + 4]
      /\ mem[td + 10] = l[Base(ran) + 6]
  BY <1>1, Reads
<1>5. /\ Bytes \in 0 .. 8 /\ mem[td] \in Nat /\ mem[td + 2] \in 0 .. 8 /\ Bytes <= left
      /\ Bytes > 0 => mem[td] >= ListStart + 2 * Len(l)
      /\ In = IsIn(l, ran)
  BY <1>1, StoresBehind
<1>6. nth' \in Requests /\ DOMAIN mem' = Words /\ left' \in Nat /\ asked' \in Nat /\ got' \in Nat
  BY <1>1, <1>2, <1>5
<1>7. ListIntact'
  <2>1. SUFFICES ASSUME NEW j \in 1 .. Len(l)
                 PROVE  mem'[ListStart + 2 * (j - 1)] = l[j]
    BY <1>1 DEF ListIntact
  <2> DEFINE a == ListStart + 2 * (j - 1)
  <2>2. a \in Words
    BY <1>2, ListWords
  <2>3. mem[a] = l[j]
    BY DEF TdInv, ListIntact
  <2>4. a \in Nat /\ a < ListStart + 2 * Len(l)
    BY ONLY <1>3, j \in 1 .. Len(l) DEF ListStart
  <2> HIDE DEF a, l, stages
  <2>5. ~(a >= mem[td] /\ a < mem[td] + Bytes)
    BY <1>3, <1>5, <2>4 DEF ListStart
  <2>6. mem'[a] = mem[a]
    BY <1>1, <2>2, <2>5
  <2> QED BY <2>3, <2>6 DEF a
<1>8. Standing'
  <2>1. l[Base(ran) + 6] = IF ran = stages - 1 THEN 0 ELSE Place(ran + 1)
    BY <1>2, <1>4 DEF Chained
  <2>2. Stages(nth)' = stages
    BY <1>1 DEF Stages
  <2> QED BY <1>1, <1>3, <1>4, <2>1, <2>2 DEF Standing
<1>9. Asking'
  <2>1. SUFFICES ASSUME nth <= 9 PROVE Asking'
    BY <1>1 DEF Asking
  <2>2. Controls(l, stages) /\ Announced(nth) = l[10] /\ l[10] \in Nat
    BY <1>2, <2>1 DEF Controls
  <2>3. /\ asked <= l[10]
        /\ ran = 0 => asked = 0
        /\ ran > 0 => asked <= 8 * (ran - 1)
    BY <1>1, <2>1, <2>2 DEF TdInv, Asking
  <2>4. /\ ran = 0 => ~IsIn(l, ran)
        /\ IsIn(l, ran) => 8 * (ran - 1) + l[Base(ran) + 2] <= l[10]
    BY <1>3, <1>4, <2>2 DEF Controls, IsIn
  <2>5. /\ asked' <= l[10] /\ asked' <= 8 * ran
    <3>1. CASE In
      <4>1. /\ asked' = asked + mem[td + 2] /\ ran # 0
            /\ 8 * (ran - 1) + mem[td + 2] <= l[10]
        BY <1>1, <1>4, <1>5, <2>4, <3>1
      <4>2. /\ asked \in Nat /\ mem[td + 2] \in 0 .. 8 /\ ran \in Nat
        BY <1>2, <1>3, <1>4, <1>5
      <4> HIDE DEF l, stages
      <4> QED BY <2>2, <2>3, <4>1, <4>2
    <3>2. CASE ~In
      <4>1. asked' = asked /\ asked \in Nat /\ ran \in Nat
        BY <1>1, <1>2, <1>3, <1>4, <3>2
      <4> HIDE DEF l, stages
      <4> QED BY <2>3, <4>1
    <3> QED BY <3>1, <3>2
  <2>6. Announced(nth)' = l[10] /\ ListOf(nth)' = l
    BY <1>1, <2>2 DEF Announced
  <2>7. last' = l[Base(ran) + 4] /\ ran' > 0 /\ ran' - 1 = ran
    BY <1>1, <1>3, <1>4
  <2> QED BY <2>5, <2>6, <2>7, <1>1, <1>3, <1>4 DEF Asking
<1> QED BY <1>6, <1>7, <1>8, <1>9 DEF TdInv

(* The words of a list, the stage the controller stands on and what it has *)
(* asked for stay together (TdInv) through every list and every transfer.  *)
THEOREM TdHolds == TdSpec => []TdInv
<1>1. TdInv /\ [TdNext]_tdVars => TdInv'
  <2>1. ASSUME TdInv, UNCHANGED tdVars PROVE TdInv'
    BY <2>1 DEF tdVars, TdInv, ListIntact, Standing, Asking, Stages, Announced
  <2> QED BY <2>1, SubmitKeeps, TransferKeeps DEF TdNext
<1> QED BY <1>1, TdStart, PTL DEF TdSpec

LEMMA TdInvImplies == TdInv => ListsCarriedOut
<1>1. SUFFICES ASSUME TdInv PROVE ListsCarriedOut
  OBVIOUS
<1>2. /\ nth \in Requests /\ left \in Nat /\ asked \in Nat /\ got \in Nat
      /\ ListIntact /\ Standing /\ Asking
  BY <1>1 DEF TdInv
<1>3. Stages(nth) \in 1 .. 10
  BY <1>2, Submitted
<1>4. TdTypeOK
  <2>1. td = 0 \/ td = ListStart \/ \E i \in 0 .. Stages(nth) - 2 : td = \h514 + 12 * i
    <3>1. CASE ran \in 1 .. Stages(nth) - 1 /\ td = Place(ran)
      <4>1. ran - 1 \in 0 .. Stages(nth) - 2 /\ td = \h514 + 12 * (ran - 1)
        BY <1>3, <3>1 DEF Place, Base, ListStart
      <4> QED BY <4>1
    <3> QED BY <1>2, <1>3, <3>1 DEF Standing, Place, Base, ListStart
  <2>2. ran \in 0 .. Stages(nth)
    BY <1>2, <1>3 DEF Standing
  <2> QED BY <1>2, <2>1, <2>2 DEF TdTypeOK
<1>5. EveryStageOnce
  <2>1. ran \in 0 .. Stages(nth) - 1 => Place(ran) # 0
    BY <1>3 DEF Place, Base, ListStart
  <2> QED BY <1>2, <2>1 DEF Standing, EveryStageOnce
<1>6. NotMoreThanAnnounced
  BY <1>2 DEF Asking, NotMoreThanAnnounced
<1>7. TogglesAlternate
  <2>1. SUFFICES ASSUME td # 0, nth <= 9
                 PROVE  CASE Setup -> mem[td + 6] = Data0
                          [] mem[td + 2] = 0 -> mem[td + 6] = Data1
                          [] OTHER -> mem[td + 6] # last
    BY DEF TogglesAlternate
  <2> DEFINE l == ListOf(nth)
  <2>2. Controls(l, Stages(nth))
    BY <1>2, <2>1, AllLists
  <2>3. /\ ran \in 0 .. Stages(nth) - 1 /\ Setup = (PidOf(l, ran) = \hD)
        /\ mem[td + 2] = l[Base(ran) + 2] /\ mem[td + 6] = l[Base(ran) + 4]
    BY <1>1, <2>1, Reads DEF Setup, Pid, PidOf
  <2>4. ran > 0 => last = l[Base(ran - 1) + 4]
    BY <1>2, <2>1 DEF Asking
  <2>5. CASE ran = 0
    <3>1. Setup /\ mem[td + 2] = 8 /\ mem[td + 6] = Data0
      BY <2>2, <2>3, <2>5 DEF Controls
    <3> QED BY ONLY <3>1
  <2>6. CASE ran > 0
    <3>1. ran \in 1 .. Stages(nth) - 1
      BY <1>3, <2>3, <2>6
    <3>2. /\ ~Setup
          /\ mem[td + 2] = 0 => mem[td + 6] = Data1
          /\ mem[td + 2] # 0 => mem[td + 6] # last
      BY <2>2, <2>3, <2>4, <2>6, <3>1 DEF Controls
    <3> QED BY ONLY <3>2
  <2> QED BY <1>3, <2>3, <2>5, <2>6
<1> QED BY <1>2, <1>4, <1>5, <1>6, <1>7 DEF ListsCarriedOut

(* Every list of usb.c and main.c is carried out stage by stage as it was  *)
(* written, whatever the words held before and whatever the keyboard sends *)
(* into the buffers: no packet reaches the list itself, the chain ends at  *)
(* its last stage, no more is asked for than the setup packet announces,   *)
(* and the toggles alternate.                                              *)
THEOREM ListsAreCarriedOut == TdSpec => []ListsCarriedOut
BY TdHolds, TdInvImplies, PTL

-----------------------------------------------------------------------------
(* The second request for the configuration descriptor: four packets of    *)
(* eight bytes and one of two, one buffer behind the other, then the       *)
(* status packet.                                                          *)
LEMMA ConfigStages ==
  /\ ListOf(5) = GetConfigDesc2 /\ Stages(5) = 7
  /\ \A k \in 1 .. 5 : /\ IsIn(GetConfigDesc2, k)
                       /\ GetConfigDesc2[Base(k) + 1] = \h55C + 8 * (k - 1)
                       /\ GetConfigDesc2[Base(k) + 2] = IF k = 5 THEN 2 ELSE 8
  /\ ~IsIn(GetConfigDesc2, 0) /\ ~IsIn(GetConfigDesc2, 6)
<1>1. ListOf(5) = GetConfigDesc2
  BY DEF ListOf, Enumeration
<1>2. Stages(5) = 7
  <2>1. Len(GetConfigDesc2) = 46
    BY DEF GetConfigDesc2, Td
  <2>2. Stages(5) = IF Len(GetConfigDesc2) = 6 THEN 1 ELSE (Len(GetConfigDesc2) - 4) \div 6
    BY <1>1 DEF Stages
  <2> QED BY ONLY <2>1, <2>2
<1>3. \A k \in 1 .. 5 : /\ IsIn(GetConfigDesc2, k)
                       /\ GetConfigDesc2[Base(k) + 1] = \h55C + 8 * (k - 1)
                       /\ GetConfigDesc2[Base(k) + 2] = IF k = 5 THEN 2 ELSE 8
  BY DEF GetConfigDesc2, Td, IsIn, PidOf, Base
<1>4. ~IsIn(GetConfigDesc2, 0) /\ ~IsIn(GetConfigDesc2, 6)
  BY DEF GetConfigDesc2, Td, IsIn, PidOf, Base
<1> QED BY <1>1, <1>2, <1>3, <1>4

(* What has come when as many packets were full as have been asked for.    *)
Full(k) == IF k = 0 THEN 0 ELSE IF k <= 5 THEN 8 * (k - 1) ELSE 34

(* Either every packet so far was full, and the byte is in place once its  *)
(* packet came, or the keyboard has no more to send.                       *)
KeyInv ==
  nth = 5 => \/ got = Full(ran) /\ (ran >= 4 => mem[InterfaceByte7] = Byte(16))
             \/ got < Full(ran) /\ left = 0

LEMMA KeyTransfer ==
  ASSUME TdInv, KeyInv, Transfer
  PROVE  KeyInv'
<1>1. SUFFICES ASSUME nth = 5 PROVE KeyInv'
  BY DEF Transfer, KeyInv
<1>2. /\ left' = left - Bytes /\ got' = got + Bytes /\ ran' = ran + 1 /\ nth' = 5
      /\ mem' = [a \in Words |-> IF a >= mem[td] /\ a < mem[td] + Bytes
                                 THEN Byte(got + a - mem[td]) ELSE mem[a]]
  BY <1>1 DEF Transfer, Bytes
<1>3. ran \in 0 .. 6 /\ left \in Nat /\ got \in Nat
  BY <1>1, ConfigStages, Reads DEF Transfer, TdInv
<1>4. /\ In = IsIn(GetConfigDesc2, ran) /\ mem[td] = GetConfigDesc2[Base(ran) + 1]
      /\ mem[td + 2] = GetConfigDesc2[Base(ran) + 2]
  BY <1>1, ConfigStages, Reads, StoresBehind DEF Transfer
<1>5. InterfaceByte7 \in Words
  <2>1. 54 \in 0 .. 95 /\ InterfaceByte7 = \h500 + 2 * 54
    BY DEF InterfaceByte7
  <2> QED BY <2>1 DEF Words
<1>6. CASE ran \in 1 .. 5
  <2>1. /\ mem[td] = \h55C + 8 * (ran - 1)
        /\ Bytes = IF left < (IF ran = 5 THEN 2 ELSE 8) THEN left ELSE IF ran = 5 THEN 2 ELSE 8
    BY <1>4, <1>6, ConfigStages DEF Bytes
  <2>2. mem'[InterfaceByte7] = IF InterfaceByte7 >= mem[td] /\ InterfaceByte7 < mem[td] + Bytes
                               THEN Byte(got + InterfaceByte7 - mem[td]) ELSE mem[InterfaceByte7]
    BY <1>2, <1>5
  <2>3. CASE got = Full(ran) /\ ~(left < (IF ran = 5 THEN 2 ELSE 8))
    <3>1. got' = Full(ran') /\ Bytes = IF ran = 5 THEN 2 ELSE 8
      BY <1>2, <1>3, <1>6, <2>1, <2>3 DEF Full
    <3>2. ran' >= 4 => mem'[InterfaceByte7] = Byte(16)
      <4>1. CASE ran = 3
        <5>1. mem[td] = InterfaceByte7 /\ Bytes = 8 /\ got = 16
          BY <2>1, <2>3, <3>1, <4>1 DEF Full, InterfaceByte7
        <5>2. got + InterfaceByte7 - mem[td] = 16
          BY <5>1 DEF InterfaceByte7
        <5> QED BY <2>2, <5>1, <5>2 DEF InterfaceByte7
      <4>2. CASE ran > 3
        <5>1. ~(InterfaceByte7 >= mem[td])
          BY <1>6, <2>1, <4>2 DEF InterfaceByte7
        <5>2. mem[InterfaceByte7] = Byte(16)
          BY <1>1, <1>6, <2>3, <4>2 DEF KeyInv
        <5> QED BY <2>2, <5>1, <5>2
      <4> QED BY <1>2, <1>6, <4>1, <4>2
    <3> QED BY <3>1, <3>2 DEF KeyInv
  <2>4. CASE ~(got = Full(ran) /\ ~(left < (IF ran = 5 THEN 2 ELSE 8)))
    <3>1. got' < Full(ran') /\ left' = 0
      BY <1>1, <1>2, <1>3, <1>6, <2>1, <2>4 DEF KeyInv, Full
    <3> QED BY <3>1 DEF KeyInv
  <2> QED BY <2>3, <2>4
<1>7. CASE ran = 0 \/ ran = 6
  <2>1. Bytes = 0
    BY <1>4, <1>7, ConfigStages DEF Bytes
  <2>2. mem'[InterfaceByte7] = mem[InterfaceByte7]
    <3>1. mem[td] \in Nat
      BY StoresBehind DEF Transfer
    <3> QED BY <1>2, <1>5, <2>1, <3>1 DEF InterfaceByte7
  <2>3. Full(0) = 0 /\ Full(0 + 1) = 0 /\ Full(6) = 34 /\ Full(6 + 1) = 34
    BY DEF Full
  <2> QED BY <1>1, <1>2, <1>3, <1>7, <2>1, <2>2, <2>3 DEF KeyInv
<1> QED BY <1>3, <1>6, <1>7

(* Whatever the keyboards answer and however often the lists are written   *)
(* again, main.c finds the protocol of the keyboard where it looks for it. *)
THEOREM KeyboardByteStays == TdSpec => []KeyboardByteInPlace
<1>1. TdInit => KeyInv
  BY DEF TdInit, KeyInv
<1>2. TdInv /\ KeyInv /\ [TdNext]_tdVars => KeyInv'
  <2>1. ASSUME NEW i \in Requests, SubmitNext(i) PROVE KeyInv'
    BY <2>1 DEF SubmitNext, KeyInv, Full
  <2>2. ASSUME KeyInv, UNCHANGED tdVars PROVE KeyInv'
    BY <2>2 DEF tdVars, KeyInv
  <2> QED BY <2>1, <2>2, KeyTransfer DEF TdNext
<1>3. TdInv /\ KeyInv => KeyboardByteInPlace
  <2>1. SUFFICES ASSUME TdInv, KeyInv, nth = 5, td = 0, got = 34
                 PROVE  mem[InterfaceByte7] = Byte(9 + 7)
    BY DEF KeyboardByteInPlace
  <2>2. ran = 7
    <3>1. ran \in 0 .. 6 => Place(ran) # 0
      BY DEF Place, Base, ListStart
    <3> QED BY <2>1, <3>1, ConfigStages DEF TdInv, Standing
  <2> QED BY <2>1, <2>2 DEF KeyInv, Full
<1> QED BY <1>1, <1>2, <1>3, TdHolds, PTL DEF TdSpec
=============================================================================
