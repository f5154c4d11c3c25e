------------------------------ MODULE Peripherals ------------------------------
(***************************************************************************)
(* The ports of the processor: what the program stores to, by the          *)
(* addresses of system.h and the four that main.c writes out, and where    *)
(* the interconnect of nios_system takes the stores.  The header was       *)
(* generated from the hardware once; the hardware is another copy.         *)
(***************************************************************************)
EXTENDS Integers

CONSTANT Words   \* what the program may store: a sample of the 32 bit words

ASSUME PeripheralsAssumption == Words \subseteq Nat

VARIABLES
  port,      \* the output registers of the PIOs
  outside    \* stores that have met something else

portVars == <<port, outside>>

-----------------------------------------------------------------------------
(* The hardware: address ranges, in the order of the router, and PIOs.     *)

Span(first, last) == first .. last - 1

(* Of an address; the memory chip takes whatever belongs to nobody.        *)
Routed(a) ==
  CASE a \in Span(\h0, \h10)    -> "onchip_memory2_0"
    [] a \in Span(\h20, \h30)   -> "pink_rand"
    [] a \in Span(\h30, \h40)   -> "red_rand"
    [] a \in Span(\h40, \h50)   -> "blue_rand"
    [] a \in Span(\h50, \h60)   -> "orange_rand"
    [] a \in Span(\h60, \h70)   -> "otg_hpi_w"
    [] a \in Span(\h70, \h80)   -> "otg_hpi_r"
    [] a \in Span(\h80, \h90)   -> "otg_hpi_data"
    [] a \in Span(\h90, \hA0)   -> "otg_hpi_address"
    [] a \in Span(\hA0, \hB0)   -> "otg_hpi_cs"
    [] a \in Span(\hB0, \hC0)   -> "Keycode"
    [] a \in Span(\hD0, \hE0)   -> "sdram_pll"
    [] a \in Span(\hF0, \hF8)   -> "jtag_uart_0"
    [] a \in Span(\h1000, \h1800) -> "debug"
    [] OTHER                     -> "sdram"

Pios == {"pink_rand", "red_rand", "blue_rand", "orange_rand", "otg_hpi_w", "otg_hpi_r",
         "otg_hpi_data", "otg_hpi_address", "otg_hpi_cs", "Keycode"}

(* Bits of the register: four modules serve all of them.                   *)
Bits(p) ==
  CASE p \in {"otg_hpi_cs", "otg_hpi_r", "otg_hpi_w"} -> 1
    [] p = "otg_hpi_address" -> 2
    [] p \in {"Keycode", "pink_rand", "red_rand", "blue_rand", "orange_rand"} -> 16
    [] p = "otg_hpi_data" -> 16

PortsTypeOK ==
  /\ port \in [Pios -> Nat]
  /\ \A p \in Pios : port[p] < 2 ^ Bits(p)
  /\ outside \in BOOLEAN

PortsReset == port = [p \in Pios |-> 0] /\ outside = FALSE

(* A write to a slave: a PIO keeps what is stored at offset 0.  It does    *)
(* not look at the byte enables.                                           *)
WriteSlave(a, w) ==
  LET p == Routed(a)
  IN  IF p \in Pios
      THEN /\ port' = IF a % 16 < 4 THEN [port EXCEPT ![p] = w % 2 ^ Bits(p)] ELSE port
           /\ UNCHANGED outside
      ELSE outside' = TRUE /\ UNCHANGED port

-----------------------------------------------------------------------------
(* system.h: base, width and reset value of the ports.                     *)

Config(base, width, reset) == [base |-> base, width |-> width, reset |-> reset]

KEYCODE == Config(\hB0, 16, 0)
BLUE_RAND == Config(\h40, 16, 0)
ORANGE_RAND == Config(\h50, 16, 0)
OTG_HPI_ADDRESS == Config(\h90, 2, 0)
OTG_HPI_CS == Config(\hA0, 1, 0)
OTG_HPI_DATA == Config(\h80, 16, 0)
OTG_HPI_R == Config(\h70, 1, 0)
OTG_HPI_W == Config(\h60, 1, 0)
PINK_RAND == Config(\h20, 16, 0)
RED_RAND == Config(\h30, 16, 0)

Header ==
  [Keycode |-> KEYCODE, blue_rand |-> BLUE_RAND, orange_rand |-> ORANGE_RAND,
   otg_hpi_address |-> OTG_HPI_ADDRESS, otg_hpi_cs |-> OTG_HPI_CS, otg_hpi_data |-> OTG_HPI_DATA,
   otg_hpi_r |-> OTG_HPI_R, otg_hpi_w |-> OTG_HPI_W, pink_rand |-> PINK_RAND, red_rand |-> RED_RAND]

-----------------------------------------------------------------------------
(* The program.                                                            *)

(* Mutant: two of the pointers are mixed up.                               *)
PointersSwapped ==
  [orange_rand |-> \h50, blue_rand |-> \h40, red_rand |-> \h20, pink_rand |-> \h30]

(* The pointers of main, the addresses written out.                        *)
Pointers ==
  [orange_rand |-> \h50, blue_rand |-> \h40, red_rand |-> \h30, pink_rand |-> \h20]

(* Where main.c and io_handler.c store what is meant for a port.           *)
AddressOf(p) == IF p \in DOMAIN Pointers THEN Pointers[p] ELSE Header[p].base

(* r = rand(); *orange_rand = r; and so on: the low bits go to the ghosts. *)
StoreRandom(p, w) == p \in DOMAIN Pointers /\ WriteSlave(AddressOf(p), w)

(* IOWR(KEYCODE_BASE, 0, keycode & 0xff)                                   *)
StoreKeycode(w) == WriteSlave(AddressOf("Keycode"), w % 256)

(* The stores of io_handler.c; those to cs, r and w are of a char.         *)
StoreHpi(p, w) ==
  \/ p \in {"otg_hpi_cs", "otg_hpi_r", "otg_hpi_w"} /\ WriteSlave(AddressOf(p), w % 2)
  \/ p = "otg_hpi_address" /\ WriteSlave(AddressOf(p), w % 256)
  \/ p = "otg_hpi_data" /\ WriteSlave(AddressOf(p), w % 65536)

PortsNext ==
  \E w \in Words : StoreKeycode(w) \/ \E p \in Pios : StoreRandom(p, w) \/ StoreHpi(p, w)

PortsSpec == PortsReset /\ [][PortsNext]_portVars

-----------------------------------------------------------------------------
(* A word reaches the register it is meant for, and no other port, memory  *)
(* or device: a random word the ghost whose pointer it is stored through.  *)
StoresArrive ==
  [][\A w \in Words :
       /\ StoreKeycode(w) => port' = [port EXCEPT !["Keycode"] = w % 256]
       /\ \A p \in Pios : StoreHpi(p, w) \/ StoreRandom(p, w) =>
                           port' = [port EXCEPT ![p] = w % 2 ^ Bits(p)]]_portVars

(* system.h says of each port what the hardware is: where it is and how    *)
(* wide, and what it holds after reset; so no store misses the ports.      *)
HeaderIsTrue ==
  /\ PortsTypeOK /\ ~outside
  /\ \A p \in Pios :
       /\ Routed(Header[p].base) = p /\ Header[p].base % 16 = 0
       /\ Bits(p) = Header[p].width /\ Header[p].reset = 0
=============================================================================
