------------------------------- MODULE TdLists -------------------------------
(***************************************************************************)
(* The lists of transfer descriptors (TDs) that usb.c and main.c write     *)
(* into the memory of the USB controller, word by word from 0x0500.  A TD  *)
(* has six words: the address and the length of its buffer, the PID with   *)
(* endpoint and device, the data toggle, 0x0013 (active, three tries) and  *)
(* the address of the next TD.  The setup packet of a control transfer     *)
(* stands between its first and its second TD.                             *)
(***************************************************************************)
EXTENDS Naturals, Sequences

Td(buffer, length, pid, toggle, next) == <<buffer, length, pid, toggle, \h13, next>>

Data0 == \h01
Data1 == \h41

SetAddress ==
  Td(\h50C, 8, \h0D0, Data0, \h514) \o <<\h0500, \h0002, 0, 0>>
  \o Td(0, 0, \h090, Data1, 0)

GetDeviceDesc1 ==
  Td(\h50C, 8, \h2D0, Data0, \h514) \o <<\h0680, \h0100, 0, \h08>>
  \o Td(\h52C, 8, \h290, Data1, \h520)
  \o Td(0, 0, \h210, Data1, 0)

GetDeviceDesc2 ==
  Td(\h50C, 8, \h2D0, Data0, \h514) \o <<\h0680, \h0100, 0, \h12>>
  \o Td(\h544, 8, \h290, Data1, \h520)
  \o Td(\h54C, 8, \h290, Data0, \h52C)
  \o Td(\h554, 2, \h290, Data1, \h538)
  \o Td(0, 0, \h210, Data1, 0)

GetConfigDesc1 ==
  Td(\h50C, 8, \h2D0, Data0, \h514) \o <<\h0680, \h0200, 0, \h09>>
  \o Td(\h544, 8, \h290, Data1, \h520)
  \o Td(\h54C, 1, \h290, Data0, \h52C)
  \o Td(0, 0, \h210, Data1, 0)

(* Mutant: the second data stage expects the toggle of the first.          *)
ConfigDesc2SameToggle ==
  Td(\h50C, 8, \h2D0, Data0, \h514) \o <<\h0680, \h0200, 0, \hFF>>
  \o Td(\h55C, 8, \h290, Data1, \h520)
  \o Td(\h564, 8, \h290, Data1, \h52C)
  \o Td(\h56C, 8, \h290, Data1, \h538)
  \o Td(\h574, 8, \h290, Data0, \h544)
  \o Td(\h57C, 2, \h290, Data1, \h550)
  \o Td(0, 0, \h210, Data1, 0)

(* Mutant: the third data stage goes where the second went.                *)
ConfigDesc2Twice ==
  Td(\h50C, 8, \h2D0, Data0, \h514) \o <<\h0680, \h0200, 0, \hFF>>
  \o Td(\h55C, 8, \h290, Data1, \h520)
  \o Td(\h564, 8, \h290, Data0, \h52C)
  \o Td(\h564, 8, \h290, Data1, \h538)
  \o Td(\h574, 8, \h290, Data0, \h544)
  \o Td(\h57C, 2, \h290, Data1, \h550)
  \o Td(0, 0, \h210, Data1, 0)

GetConfigDesc2 ==
  Td(\h50C, 8, \h2D0, Data0, \h514) \o <<\h0680, \h0200, 0, \hFF>>
  \o Td(\h55C, 8, \h290, Data1, \h520)
  \o Td(\h564, 8, \h290, Data0, \h52C)
  \o Td(\h56C, 8, \h290, Data1, \h538)
  \o Td(\h574, 8, \h290, Data0, \h544)
  \o Td(\h57C, 2, \h290, Data1, \h550)
  \o Td(0, 0, \h210, Data1, 0)

SetConfig ==
  Td(\h50C, 8, \h2D0, Data0, \h514) \o <<\h0900, \h0001, 0, 0>>
  \o Td(0, 0, \h290, Data1, 0)

ClassRequest ==
  Td(\h50C, 8, \h2D0, Data0, \h514) \o <<\h0A21, 0, 0, 0>>
  \o Td(0, 0, \h290, Data1, 0)

GetHidDesc ==
  Td(\h50C, 8, \h2D0, Data0, \h514) \o <<\h0681, \h2100, 0, \h7B>>
  \o Td(\h544, 8, \h290, Data1, \h520)
  \o Td(0, 0, \h210, Data1, 0)

GetReportDesc ==
  Td(\h50C, 8, \h2D0, Data0, \h514) \o <<\h0681, \h2200, 0, \h7B>>
  \o Td(\h580, 8, \h290, Data1, \h520)
  \o Td(\h588, 8, \h290, Data0, \h52C)
  \o Td(\h590, 8, \h290, Data1, \h538)
  \o Td(\h598, 8, \h290, Data0, \h544)
  \o Td(\h5A0, 8, \h290, Data1, \h550)
  \o Td(\h5A8, 8, \h290, Data0, \h55C)
  \o Td(\h5B0, 8, \h290, Data1, \h568)
  \o Td(\h5B8, 3, \h290, Data0, \h574)
  \o Td(0, 0, \h210, Data1, 0)

(* The requests of the enumeration in the order of main.c.                 *)
Enumeration ==
  <<SetAddress, GetDeviceDesc1, GetDeviceDesc2, GetConfigDesc1, GetConfigDesc2,
    SetConfig, ClassRequest, GetHidDesc, GetReportDesc>>

(* The IN transfer of the polling loop: endpoint 1, data_size bytes.       *)
PollList(size, odd) == Td(\h51C, size % 16, \h291, IF odd THEN Data0 ELSE Data1, 0)

(* What main.c stores from 0x0576 on, over the descriptor received there.  *)
EndpointWords == <<\h073F, \h8105, \h0003, \h0008, \hAC0A>>

ListStart == \h500
Report == \h51E        \* the word of the report main.c takes the key from
InterfaceByte7 == \h56C
EndpointStart == \h576

(* The word a list puts at an address, or the one that was there before.   *)
Stored(list, start, address, before) ==
  IF address >= start /\ address < start + 2 * Len(list)
  THEN list[(address - start) \div 2 + 1] ELSE before
=============================================================================
