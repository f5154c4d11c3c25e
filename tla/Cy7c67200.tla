------------------------------- MODULE Cy7c67200 -------------------------------
(***************************************************************************)
(* The registers and the memory of the USB controller as cy7c67200.h,      *)
(* lcp_cmd.h and lcp_data.h describe them, and steps 1 and 2 of main.c,    *)
(* which set the controller up and call two routines of its BIOS.          *)
(*                                                                         *)
(* The header is several files in one: the author's own definitions,       *)
(* Cypress's 63700.H, parts of sys_memmap and usb.inc.  They describe the  *)
(* same registers in vocabularies of their own, and main.c uses several.   *)
(* Here a vocabulary is a function from registers, under the names of      *)
(* 63700.H, to their addresses and fields; a field is the set of its bits. *)
(* n stands for the number of a port, a device or a unit.                  *)
(***************************************************************************)
EXTENDS Integers, Sequences

Reg(at, fields) == [at |-> at, fields |-> fields]
Flags(bits) == {{b} : b \in bits}   \* fields of one bit
Endpoints(o) == {\h200 + 16 * k + o : k \in 0 .. 15}
Engines(o) == {\hC080 + o, \hC0A0 + o}   \* one register of each of the two SIEs

(* The author's own names: the control registers of the two ports.         *)
PortControl == [
  HW_REV_REG |-> Reg({\hC004}, {}),
  USBn_CTL_REG |-> Reg({\hC08A, \hC0AA}, Flags({0, 2, 7, 9, 10}))]

(* The author's own names for a device with one endpoint.                  *)
DeviceOwn == [
  DEVn_EPn_CTL_REG |-> Reg({\h200}, Flags(0 .. 7)),
  DEVn_EPn_ADDR_REG |-> Reg({\h202}, {}),
  DEVn_EPn_CNT_REG |-> Reg({\h204}, {}),
  DEVn_EPn_STAT_REG |-> Reg({\h206}, Flags(0 .. 11)),
  DEVn_EPn_CTR_REG |-> Reg({\h208}, {}),
  DEVn_IRQ_EN_REG |-> Reg({\hC08C}, Flags((0 .. 9) \cup {11, 14, 15})),
  DEVn_ADDR_REG |-> Reg({\hC08E}, {}),
  DEVn_STAT_REG |-> Reg({\hC090}, Flags((0 .. 9) \cup {14, 15})),
  DEVn_FRAME_REG |-> Reg({\hC092}, Flags({15}) \cup {0 .. 10, 12 .. 14})]

(* ... and for the host on the second port.                                *)
HostOwn == [
  HOSTn_CTL_REG |-> Reg({\hC0A0}, Flags((4 .. 6) \cup {0})),
  HOSTn_ADDR_REG |-> Reg({\hC0A2}, {}),
  HOSTn_CNT_REG |-> Reg({\hC0A4}, {0 .. 9}),
  HOSTn_PID_REG |-> Reg({\hC0A6}, {0 .. 3, 4 .. 7}),
  HOSTn_CTR_REG |-> Reg({\hC0A8}, {0 .. 15}),
  HOSTn_DEV_ADDR_REG |-> Reg({\hC0A8}, {0 .. 6}),
  HOSTn_IRQ_EN_REG |-> Reg({\hC0AC}, Flags({0, 4, 6, 9, 14, 15})),
  HOSTn_STAT_REG |-> Reg({\hC0B0}, Flags({0, 1, 4, 6, 9, 14, 15})),
  HOSTn_SOF_EOP_CNT_REG |-> Reg({\hC0B2}, {0 .. 13}),
  HOSTn_SOF_EOP_CTR_REG |-> Reg({\hC0B4}, {0 .. 13}),
  HOSTn_FRAME_REG |-> Reg({\hC0B6}, {0 .. 10})]

(* ... and for the port the processor uses. The status is a port, not a    *)
(* word.                                                                   *)
HpiOwn == [
  HPI_BKPT_REG |-> Reg({\h140}, {}),
  HPI_IRQ_ROUTING_REG |-> Reg({\h142}, {(1 .. 3) \cup (9 .. 15) \cup {6, 7}}),
  HPI_SIEn_MSG_ADR |-> Reg({\h144, \h148}, {0 .. 15}),
  HPI_MAILBOX_REG |-> Reg({\hC0C6}, {0 .. 15}),
  HPI_STAT_PORT |-> Reg({}, Flags((0 .. 8) \cup {10, 12, 14, 15}))]

(* 63700.H: the processor of the controller and its interrupts.            *)
CpuRegisters == [
  CPU_FLAGS_REG |-> Reg({\hC000}, Flags(0 .. 4)),
  BANK_REG |-> Reg({\hC002}, {5 .. 15}),
  HW_REV_REG |-> Reg({\hC004}, {}),
  IRQ_EN_REG |-> Reg({\hC00E}, Flags((0 .. 9) \cup {11, 12}))]

(* The same in the names of the BIOS, and the GPIO control in those of     *)
(* sys_memmap.                                                             *)
CpuAliases == [
  IRQ_EN_REG |-> Reg({}, Flags((0 .. 9) \cup {11, 12})),
  GPIO_CTL_REG |-> Reg({}, Flags(0 .. 7) \cup {8 .. 10})]

(* Speed, power, breakpoint and diagnostics.                               *)
PowerRegisters == [
  CPU_SPEED_REG |-> Reg({\hC008}, {0 .. 3}),
  POWER_CTL_REG |-> Reg({\hC00A}, Flags((7 .. 9) \cup {0, 1, 4, 11, 12, 14})),
  BKPT_REG |-> Reg({\hC014}, {}),
  USB_DIAG_REG |-> Reg({\hC03C}, Flags((4 .. 6) \cup (12 .. 15)) \cup {0 .. 2}),
  MEM_DIAG_REG |-> Reg({\hC03E}, Flags({0, 15}) \cup {8 .. 10})]

(* Memory, watchdog and timers.                                            *)
MemoryRegisters == [
  PGn_MAP_REG |-> Reg({\hC018, \hC01A}, {}),
  DRAM_CTL_REG |-> Reg({\hC038}, Flags(0 .. 3)),
  XMEM_CTL_REG |-> Reg({\hC03A}, Flags((11 .. 13) \cup {3, 7}) \cup {0 .. 2, 4 .. 6, 8 .. 10}),
  WDT_REG |-> Reg({\hC00C}, Flags((0 .. 2) \cup {5}) \cup {{3, 4}}),
  TMRn_REG |-> Reg({\hC010, \hC012}, {})]

(* The two ports.                                                          *)
UsbControl == [
  USBn_CTL_REG |-> Reg({\hC08A, \hC0AA}, Flags(0 .. 15) \cup {{3, 4}, {5, 6}})]

(* A host's interrupts.                                                    *)
HostInterrupts == [
  HOSTn_IRQ_EN_REG |-> Reg({\hC08C, \hC0AC}, Flags((4 .. 7) \cup {0, 9, 10, 14, 15})),
  HOSTn_STAT_REG |-> Reg({\hC090, \hC0B0}, Flags((2 .. 7) \cup {0, 9, 14, 15}))]

(* A host's transfers.  Two registers are others when they are read.       *)
HostTransfers == [
  HOSTn_CTL_REG |-> Reg({\hC080, \hC0A0}, Flags(0 .. 7)),
  HOSTn_ADDR_REG |-> Reg({\hC082, \hC0A2}, {}),
  HOSTn_CNT_REG |-> Reg({\hC084, \hC0A4}, Flags({14}) \cup {0 .. 9}),
  HOSTn_PID_REG |-> Reg({\hC086, \hC0A6}, {0 .. 3, 4 .. 7}),
  HOSTn_EP_STAT_REG |-> Reg({\hC086, \hC0A6}, Flags(0 .. 7))]

(* What a host finds afterwards, and its frames.                           *)
HostResults == [
  HOSTn_EP_STAT_REG |-> Reg({\hC086, \hC0A6}, Flags((0 .. 3) \cup (5 .. 7))),
  HOSTn_DEV_ADDR_REG |-> Reg({\hC088, \hC0A8}, {0 .. 6}),
  HOSTn_CTR_REG |-> Reg({\hC088, \hC0A8}, {0 .. 7}),
  HOSTn_SOF_EOP_CNT_REG |-> Reg({\hC092, \hC0B2}, {0 .. 13}),
  HOSTn_SOF_EOP_CTR_REG |-> Reg({\hC094, \hC0B4}, {0 .. 13}),
  HOSTn_FRAME_REG |-> Reg({\hC096, \hC0B6}, {0 .. 10})]

(* A device: its port, interrupts, address and frame.                      *)
DeviceInterrupts == [
  DEVn_SEL_REG |-> Reg({\hC084, \hC0A4}, {}),
  DEVn_IRQ_EN_REG |-> Reg({\hC08C, \hC0AC}, Flags((0 .. 8) \cup {10})),
  DEVn_STAT_REG |-> Reg({\hC090, \hC0B0}, Flags((0 .. 8) \cup {10})),
  DEVn_ADDR_REG |-> Reg({\hC08E, \hC0AE}, {0 .. 6}),
  DEVn_FRAME_REG |-> Reg({\hC092, \hC0B2}, {0 .. 10})]

(* The eight endpoints of each device.                                     *)
DeviceEndpoints == [
  DEVn_EPn_CTL_REG |-> Reg(Endpoints(0), Flags({5, 7})),
  DEVn_EPn_ADDR_REG |-> Reg(Endpoints(2), {}),
  DEVn_EPn_CNT_REG |-> Reg(Endpoints(4), {0 .. 9}),
  DEVn_EPn_STAT_REG |-> Reg(Endpoints(6), Flags({4, 8, 9})),
  DEVn_EPn_CTR_REG |-> Reg(Endpoints(8), {0 .. 7})]

(* On-the-go, and the pins.                                                *)
OtgGpio == [
  OTG_CTL_REG |-> Reg({\hC098}, Flags((0 .. 2) \cup (6 .. 12))),
  GPIO_CTL_REG |-> Reg({\hC006}, Flags((0 .. 7) \cup {11, 15}) \cup {8 .. 10}),
  GPIOn_OUT_DATA_REG |-> Reg({\hC01E, \hC024}, {}),
  GPIOn_IN_DATA_REG |-> Reg({\hC020, \hC026}, {}),
  GPIOn_DIR_REG |-> Reg({\hC022, \hC028}, {})]

(* The parallel port and the disk; a mode of EPP_CTL_REG names its low     *)
(* bits.                                                                   *)
EppIde == [
  EPP_CTL_REG |-> Reg({\hC046}, Flags((0 .. 5) \cup (12 .. 15))),
  EPP_DATA_REG |-> Reg({\hC040}, {0 .. 7}),
  EPP_BFR_READ_REG |-> Reg({\hC042}, {0 .. 7}),
  EPP_ADDR_REG |-> Reg({\hC044}, {0 .. 7}),
  IDE_MODE_REG |-> Reg({\hC048}, {0 .. 2}),
  IDE_START_ADDR_REG |-> Reg({\hC04A}, {}),
  IDE_STOP_ADDR_REG |-> Reg({\hC04C}, {}),
  IDE_CTL_REG |-> Reg({\hC04E}, Flags(0 .. 3)),
  IDE_PIO_REGS |-> Reg({\hC050, \hC052, \hC054, \hC056, \hC058, \hC05A, \hC05C, \hC05E,
                    \hC06C}, {})]

(* Its registers again, for the other kind of transfer.                    *)
Mdma == [
  MDMA_MODE_REG |-> Reg({\hC048}, Flags({3}) \cup {0 .. 2}),
  MDMA_START_ADDR_REG |-> Reg({\hC04A}, {}),
  MDMA_STOP_ADDR_REG |-> Reg({\hC04C}, {}),
  MDMA_CTL_REG |-> Reg({\hC04E}, Flags(0 .. 3))]

(* The high-speed serial port.                                             *)
HssRegisters == [
  HSS_CTL_REG |-> Reg({\hC070}, Flags(0 .. 15)),
  HSS_BAUD_REG |-> Reg({\hC072}, {0 .. 12}),
  HSS_TX_GAP_REG |-> Reg({\hC074}, {0 .. 7}),
  HSS_DATA_REG |-> Reg({\hC076}, {0 .. 7}),
  HSS_RX_ADDR_REG |-> Reg({\hC078}, {}),
  HSS_RX_CTR_REG |-> Reg({\hC07A}, {0 .. 9}),
  HSS_TX_ADDR_REG |-> Reg({\hC07C}, {}),
  HSS_TX_CTR_REG |-> Reg({\hC07E}, {0 .. 9})]

(* The same from sys_memmap.                                               *)
HssMap == [
  HSS_CTL_REG |-> Reg({\hC070}, Flags(0 .. 15)),
  HSS_BAUD_REG |-> Reg({\hC072}, {0 .. 12}),
  HSS_TX_GAP_REG |-> Reg({\hC074}, {0 .. 15}),
  HSS_DATA_REG |-> Reg({\hC076}, {0 .. 7}),
  HSS_RX_ADDR_REG |-> Reg({\hC078}, {0 .. 15}),
  HSS_RX_CTR_REG |-> Reg({\hC07A}, {0 .. 9}),
  HSS_TX_ADDR_REG |-> Reg({\hC07C}, {0 .. 15}),
  HSS_TX_CTR_REG |-> Reg({\hC07E}, {0 .. 9})]

(* The serial peripheral interface.                                        *)
SpiRegisters == [
  SPI_CFG_REG |-> Reg({\hC0C8}, Flags((5 .. 7) \cup {10, 13, 15}) \cup {0 .. 4, 9 .. 12}),
  SPI_CTL_REG |-> Reg({\hC0CA}, Flags((7 .. 15) \cup {5}) \cup {0 .. 2, {0, 4, 5}}),
  SPI_IRQ_EN_REG |-> Reg({\hC0CC}, Flags(0 .. 2)),
  SPI_STAT_REG |-> Reg({\hC0CE}, Flags((0 .. 2) \cup {8})),
  SPI_IRQ_CLR_REG |-> Reg({\hC0D0}, Flags({0, 1}))]

(* Its checksum and its data.                                              *)
SpiData == [
  SPI_CRC_CTL_REG |-> Reg({\hC0D2}, Flags(9 .. 13) \cup {{14, 15}}),
  SPI_CRC_VALUE_REG |-> Reg({\hC0D4}, {}),
  SPI_DATA_REG |-> Reg({\hC0D6}, {0 .. 7}),
  SPI_TX_ADDR_REG |-> Reg({\hC0D8}, {}),
  SPI_TX_CNT_REG |-> Reg({\hC0DA}, {0 .. 10}),
  SPI_RX_ADDR_REG |-> Reg({\hC0DC}, {}),
  SPI_RX_CNT_REG |-> Reg({\hC0DE}, {0 .. 10})]

(* The same from sys_memmap.                                               *)
SpiMap == [
  SPI_CFG_REG |-> Reg({\hC0C8}, Flags((5 .. 8) \cup (13 .. 15)) \cup {0 .. 4, 9 .. 12}),
  SPI_CTL_REG |-> Reg({\hC0CA}, Flags(6 .. 15) \cup {0 .. 2, 3 .. 5}),
  SPI_IRQ_EN_REG |-> Reg({\hC0CC}, Flags(0 .. 2))]

(* Its status, checksum and data from sys_memmap.                          *)
SpiDataMap == [
  SPI_STAT_REG |-> Reg({\hC0CE}, Flags((0 .. 2) \cup {7})),
  SPI_IRQ_CLR_REG |-> Reg({\hC0D0}, Flags({0, 1})),
  SPI_CRC_CTL_REG |-> Reg({\hC0D2}, Flags(9 .. 13) \cup {{14, 15}}),
  SPI_CRC_VALUE_REG |-> Reg({\hC0D4}, {0 .. 15}),
  SPI_DATA_REG |-> Reg({\hC0D6}, {0 .. 7}),
  SPI_TX_ADDR_REG |-> Reg({\hC0D8}, {0 .. 15}),
  SPI_TX_CNT_REG |-> Reg({\hC0DA}, {0 .. 15}),
  SPI_RX_ADDR_REG |-> Reg({\hC0DC}, {0 .. 15}),
  SPI_RX_CNT_REG |-> Reg({\hC0DE}, {0 .. 15})]

(* The disk's registers from sys_memmap: one word and bytes.               *)
IdeMap == [
  IDE_PIO_REGS |-> Reg({\hC050, \hC052, \hC054, \hC056, \hC058, \hC05A, \hC05C, \hC05E,
                    \hC06C}, {0 .. 7, 0 .. 15})]

(* The serial port for debugging, and the pulses.                          *)
UartPwm == [
  UART_CTL_REG |-> Reg({\hC0E0}, Flags({0, 4}) \cup {1 .. 3}),
  UART_STAT_REG |-> Reg({\hC0E2}, Flags({0, 1})),
  UART_DATA_REG |-> Reg({\hC0E4}, {0 .. 7}),
  PWM_CTL_REG |-> Reg({\hC0E6}, Flags((0 .. 8) \cup {15}) \cup {9 .. 11}),
  PWM_MAX_CNT_REG |-> Reg({\hC0E8}, {0 .. 9}),
  PWMn_START_REG |-> Reg({\hC0EA, \hC0EE, \hC0F2, \hC0F6}, {0 .. 9}),
  PWMn_STOP_REG |-> Reg({\hC0EC, \hC0F0, \hC0F4, \hC0F8}, {0 .. 9}),
  PWM_CYCLE_CNT_REG |-> Reg({\hC0FA}, {})]

(* What the processor and the controller share.                            *)
HpiSpace == [
  HPI_MBX_REG |-> Reg({\hC0C4}, {}),
  HPI_BKPT_REG |-> Reg({\h140}, {}),
  HPI_IRQ_ROUTING_REG |-> Reg({\h142}, Flags((0 .. 3) \cup (6 .. 15))),
  HPI_SIEn_MSG_ADR |-> Reg({\h144, \h148}, {}),
  HPI_DMACtl |-> Reg({\hC0C0}, Flags(0 .. 2)),
  HPI_MAILBOX_REG |-> Reg({\hC0C6}, {0 .. 15})]

(* The same by what a port is, host or device, and the status port.        *)
HpiAliases == [
  HPI_IRQ_ROUTING_REG |-> Reg({}, Flags((1 .. 3) \cup (9 .. 13) \cup {6, 7})),
  HPI_STAT_PORT |-> Reg({}, Flags((0 .. 3) \cup (6 .. 10) \cup {12, 14, 15}))]

(* usb.inc: the registers of an interface engine as the BIOS names them.   *)
SieAliases == [
  DEVn_EPn_CTL_REG |-> Reg(Endpoints(0), Flags(0 .. 7) \cup {4 .. 6}),
  DEVn_EPn_STAT_REG |-> Reg(Endpoints(6), Flags(0 .. 9)),
  DEVn_IRQ_EN_REG |-> Reg({}, Flags(0 .. 10)),
  USBn_CTL_REG |-> Reg({}, Flags((2 .. 4) \cup (6 .. 11) \cup {0}) \cup {{3, 4}})]

(* usb.inc: the same registers as offsets from their engine or endpoint.   *)
SieOffsets == [
  HOSTn_CTL_REG |-> Reg(Engines(0), {}),
  HOSTn_ADDR_REG |-> Reg(Engines(2), {}),
  HOSTn_CNT_REG |-> Reg(Engines(4), {}),
  DEVn_SEL_REG |-> Reg(Engines(4), {}),
  HOSTn_PID_REG |-> Reg(Engines(6), {}),
  USBn_CTL_REG |-> Reg(Engines(\hA), {}),
  HOSTn_IRQ_EN_REG |-> Reg(Engines(\hC), {}),
  DEVn_ADDR_REG |-> Reg(Engines(\hE), {}),
  HOSTn_STAT_REG |-> Reg(Engines(\h10), {}),
  HOSTn_SOF_EOP_CNT_REG |-> Reg(Engines(\h12), {}),
  HOSTn_SOF_EOP_CTR_REG |-> Reg(Engines(\h14), {}),
  DEVn_EPn_CTL_REG |-> Reg(Endpoints(0), {}),
  DEVn_EPn_ADDR_REG |-> Reg(Endpoints(2), {}),
  DEVn_EPn_CNT_REG |-> Reg(Endpoints(4), {}),
  DEVn_EPn_STAT_REG |-> Reg(Endpoints(6), {}),
  DEVn_EPn_CTR_REG |-> Reg(Endpoints(8), {})]

Vocabularies ==
  {PortControl, DeviceOwn, HostOwn, HpiOwn, CpuRegisters, CpuAliases, PowerRegisters,
   MemoryRegisters, UsbControl, HostInterrupts, HostTransfers, HostResults, DeviceInterrupts,
   DeviceEndpoints, OtgGpio, EppIde, Mdma, HssRegisters, HssMap, SpiRegisters, SpiData, SpiMap,
   SpiDataMap, IdeMap, UartPwm, HpiSpace, HpiAliases, SieAliases, SieOffsets}

Registers == UNION {DOMAIN v : v \in Vocabularies}
Descriptions(r) == {v[r] : v \in {w \in Vocabularies : r \in DOMAIN w}}
Addresses(r) == UNION {d.at : d \in Descriptions(r)}
Fields(r) == UNION {d.fields : d \in Descriptions(r)}

(* Two vocabularies disagree on the first field of SPI_CTL_REG: 63700.H    *)
(* gives its three bits as 0x0031.                                         *)
Misprinted == {"SPI_CTL_REG"}

(* The vocabularies agree where they meet: fields of one register are      *)
(* apart, or one is a part of the other, and addresses are even.           *)
ASSUME VocabulariesAgree ==
  \A r \in Registers :
    /\ \A a \in Addresses(r) : a % 2 = 0
    /\ r \notin Misprinted =>
         \A f, g \in Fields(r) : f \cap g = {} \/ f \subseteq g \/ g \subseteq f

-----------------------------------------------------------------------------
(* The memory below the registers.                                         *)

WordsIn(first, last) == {a \in first .. last : a % 2 = 0}

(* Interrupt i goes through the word at 2 * i.                             *)
Vector(i) == 2 * i
HardwareInterrupts == (0 .. 47) \ {9, 19, 22, 23, 27, 30, 31}

(* One base and the same sixteen routines for each device, those of the    *)
(* BIOS, the host's and the commands'.  SUSB1_OTG_DESC_VEC is the vector   *)
(* of REMOTE_WAKEUP_INT, and PWR_DOWN_INT is START_SRP_INT.                *)
HUSB_SIE1_INIT_INT == \h72
HUSB_RESET_INT == \h74
SoftwareInterrupts ==
  (\h40 .. \h44) \cup (\h46 .. \h4F) \cup {base + o : base \in {\h50, \h60}, o \in 0 .. 15}
  \cup {\h70, \h71, HUSB_SIE1_INIT_INT, \h73, HUSB_RESET_INT} \cup (\h77 .. \h7B)

(* lcp_data.h: the words a command's data goes through, one after the      *)
(* other from 0x019a but for the gap from 0x01a4.                          *)
HUSB_pEOT == \h1B4
COMM_INT_NUM == \h1C2
COMM_R(i) == \h1C4 + 2 * i
Arguments == {COMM_INT_NUM} \cup {COMM_R(i) : i \in 0 .. 13}
CommArea == WordsIn(\h19A, \h1A2) \cup WordsIn(\h1B0, \h1C0) \cup Arguments

(* lcp_cmd.h: the commands, the answers, and the messages of an engine.    *)
COMM_RESET == \hFA50
COMM_EXEC_INT == \hCE01
Commands == {COMM_RESET} \cup (\hCE00 .. \hCE09)
COMM_ACK == \h0FED
COMM_NAK == \hDEAD
HUSB_TDListDone == 12
HostMessages == (0 .. 7) \cup {HUSB_TDListDone, 13}
DeviceMessages == (0 .. 11) \cup {14, 15}

(* What is where keeps out of each other's way.                            *)
ASSUME RegionsApart ==
  /\ HardwareInterrupts \cap SoftwareInterrupts = {}
  /\ \A i \in HardwareInterrupts \cup SoftwareInterrupts : Vector(i) < \h140
  /\ (UNION {Addresses(r) : r \in Registers}) \cap CommArea = {}
  /\ \A r \in Registers : \A a \in Addresses(r) : a \in \h140 .. \h2FE \/ a >= \hC000
  /\ {COMM_ACK, COMM_NAK} \cap Commands = {}
  /\ HUSB_TDListDone \in HostMessages \ DeviceMessages

-----------------------------------------------------------------------------
(* UsbSoftReset and steps 1 and 2, one access or wait after the other.     *)

HPI_IRQ_ROUTING_REG == \h142
HOST1_IRQ_EN_REG == \hC08C
HOST1_STAT_REG == \hC090
HOST2_STAT_REG == \hC0B0

Store(at, word) == [op |-> "store", at |-> at, word |-> word]
Mail(word, routine) == [op |-> "mail", word |-> word, for |-> routine]
Wait(for) == [op |-> for]

SoftReset ==
  <<Mail(COMM_RESET, 0), Wait("drain"), Store(\h144, 0), Store(\h148, 0),
    Store(HOST1_STAT_REG, \hFFFF), Store(HOST2_STAT_REG, \hFFFF)>>

(* SOFEOP1_TO_CPU_EN | RESUME1_TO_HPI_EN, A_CHG_IRQ_EN | SOF_EOP_IRQ_EN    *)
Routes ==
  <<Store(\h144, 0), Store(HOST1_STAT_REG, \hFFFF), Store(HUSB_pEOT, 600),
    Store(HPI_IRQ_ROUTING_REG, \h440), Store(HOST1_IRQ_EN_REG, \h210)>>

Zeros(first) == [i \in 1 .. 14 - first |-> Store(COMM_R(first + i - 1), 0)]

InitCall ==
  Zeros(0)
  \o <<Store(COMM_INT_NUM, HUSB_SIE1_INIT_INT), Mail(COMM_EXEC_INT, HUSB_SIE1_INIT_INT),
       Wait("status"), Wait("answer")>>

(* The answer is read without waiting for it.                              *)
ResetCall ==
  <<Store(COMM_INT_NUM, HUSB_RESET_INT), Store(COMM_R(0), \h3C)>> \o Zeros(1)
  \o <<Mail(COMM_EXEC_INT, HUSB_RESET_INT), Wait("answer")>>

Setup == SoftReset \o Routes \o InitCall \o ResetCall

BitsOf(word) == {b \in 0 .. 15 : (word \div 2 ^ b) % 2 = 1}

(* Every word that is stored has a place in the header, and, unless it     *)
(* clears a whole status, consists of bits that have a name there.         *)
ASSUME WordsNamed ==
  \A i \in {j \in DOMAIN Setup : Setup[j].op = "store"} :
    LET there == {r \in Registers : Setup[i].at \in Addresses(r)}
    IN  \/ Setup[i].at \in CommArea
        \/ there # {} /\ Setup[i].word \in {0, \hFFFF}
        \/ BitsOf(Setup[i].word) \subseteq UNION UNION {Fields(r) : r \in there}

VARIABLES
  access,    \* the program's next access, or one past the last
  memory,    \* the word at one argument
  wanted,    \* history: the routine the program has last asked for
  inbox,     \* the command the BIOS has not taken up
  outbox,    \* its answer
  leftAck    \* history: the last reset has left an ACK in the mailbox

chipVars == <<access, memory, wanted, inbox, outbox, leftAck>>

Garbage == -1

ChipInit ==
  /\ access = 1
  /\ memory \in {[a \in {cell} |-> Garbage] : cell \in Arguments}
  /\ wanted = 0 /\ inbox = 0 /\ outbox = Garbage
  /\ leftAck = FALSE

AtStep(op) == access \in DOMAIN Setup /\ Setup[access].op = op
Onwards == access' = access + 1

StoreWord ==
  /\ AtStep("store")
  /\ memory' = [a \in DOMAIN memory |-> IF a = Setup[access].at THEN Setup[access].word ELSE memory[a]]
  /\ Onwards
  /\ UNCHANGED <<wanted, inbox, outbox, leftAck>>

MailCommand ==
  /\ AtStep("mail")
  /\ inbox' = Setup[access].word /\ wanted' = Setup[access].for
  /\ Onwards
  /\ UNCHANGED <<memory, outbox, leftAck>>

(* Long after the reset the mailbox is read, whatever there is.            *)
Drain ==
  /\ AtStep("drain") /\ inbox = 0
  /\ Onwards
  /\ UNCHANGED <<memory, wanted, inbox, outbox, leftAck>>

(* while (!(IO_read(HPI_STATUS) & 0xFFFF)): the answer's MBX_OUT_FLG ends  *)
(* the wait, but so does MBX_IN_FLG as long as the BIOS has not taken the  *)
(* command up, and a message, a resume, or a change of ID or VBUS, one of  *)
(* which may be up at any time.                                            *)
AwaitStatus ==
  /\ AtStep("status")
  /\ Onwards
  /\ UNCHANGED <<memory, wanted, inbox, outbox, leftAck>>

(* Mutant: what else the mailbox holds is printed and forgotten.           *)
ReadAnyAnswer ==
  /\ AtStep("answer")
  /\ Onwards
  /\ UNCHANGED <<memory, wanted, inbox, outbox, leftAck>>

(* A read takes the flag down, not the word.                               *)
ReadAnswer ==
  /\ AtStep("answer")
  /\ access' = IF outbox = COMM_ACK THEN access + 1 ELSE 1
  /\ UNCHANGED <<memory, wanted, inbox, outbox, leftAck>>

(* The rest of main.c comes back here when the keyboard has been pulled.   *)
HotPlug ==
  /\ access = Len(Setup) + 1
  /\ access' = 1
  /\ UNCHANGED <<memory, wanted, inbox, outbox, leftAck>>

(* The BIOS takes a command up, and may use the arguments' cells for its   *)
(* own purposes.  After a reset it leaves garbage in the mailbox, says     *)
(* usb.c, and perhaps it does not.                                         *)
BiosAnswers ==
  /\ inbox # 0
  /\ inbox' = 0
  /\ memory' \in {memory, [a \in DOMAIN memory |-> Garbage]}
  /\ outbox' \in {COMM_ACK, COMM_NAK, Garbage}
  /\ leftAck' = IF inbox = COMM_RESET THEN outbox' = COMM_ACK ELSE leftAck
  /\ UNCHANGED <<access, wanted>>

ChipNext ==
  StoreWord \/ MailCommand \/ Drain \/ AwaitStatus \/ ReadAnswer \/ HotPlug \/ BiosAnswers

ChipSpec == ChipInit /\ [][ChipNext]_chipVars

-----------------------------------------------------------------------------
(* What the comments say the routine is given: its number, the time of a   *)
(* bus reset, and nothing else.                                            *)
Given(routine, a) ==
  CASE a = COMM_INT_NUM -> routine
    [] routine = HUSB_RESET_INT /\ a = COMM_R(0) -> 60
    [] OTHER -> 0

(* When the BIOS gets round to a routine it has been asked for, it finds   *)
(* that routine's arguments: all have been written, whatever the last call *)
(* left, and none is overwritten for the next call, although main.c may    *)
(* leave its wait before the first is even begun and does not wait for the *)
(* second.  This rests on the garbage of usb.c:106: an ACK left from the   *)
(* reset passes for the answer to the first call.                          *)
CallComplete ==
  [][inbox = COMM_EXEC_INT /\ inbox' = 0 /\ ~leftAck =>
       \A a \in DOMAIN memory : memory[a] = Given(wanted, a)]_chipVars
=============================================================================
