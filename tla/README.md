# Pac-Man on the DE2-115: a TLA+ verification project

The repository is a Pac-Man game for an FPGA board. SystemVerilog modules keep
the game and draw it; a Nios II processor runs a USB keyboard driver in C, which
writes the key that is held and four random words into registers the game reads.
This directory models the system in TLA+, checks it with TLC on small instances
and, where the parameters allow it, on the real tables, and proves the most
important invariants with TLAPS for every value of the parameters.

Contents: 1 the system, 2 modules and code, 3 runs, 4 bounds, 5 fairness,
6 proofs, 7 where the code and its comments disagree, 8 what is not modelled,
9 plan.

## 1. The system

Source files are at the root of the repository unless a directory is given;
`usb_kb` is `software/usb_kb`, `bsp` is `software/usb_kb_bsp`.

| component | source | state | operations | modelled in |
|---|---|---|---|---|
| game control | `control.sv` | `state` (NEWGAME, LEVEL1, BEAT1, LEVEL2, BEAT2), registered `resetAll` | one transition per edge of `Clk`; asynchronous `Reset_h` | `Control` |
| Pac-Man | `pac_motion.sv` | position, motion, last commanded turn | one pixel per rising `clkdiv`; asynchronous reset | `PacMotion` |
| ghosts (4) | `ghost_motion.sv` | position, motion, `counter_rand` | one pixel per rising `ghostClk`; asynchronous reset; `hitPacman` | `GhostMotion` |
| free directions | `check_walls.sv`, `check_walls_row.sv` | none | the exits of a cell, separately for each actor | `Maze` |
| mazes, dot maps | `get_walls.sv`, `getDotStarts.sv` | none (tables) | selection by `level`, `isPre` | `MCRom`, `Game` |
| dots (144) | `pacDot.sv`, `pacDotRow.sv`, `allPacDots.sv` | eaten or not | one look at Pac-Man per edge of `Clk`; asynchronous reset | `PacDots` |
| top level | `lab8.sv` | `counter`, `clkdiv`, `ghostCounter`, `ghostClk` | dividing `Clk`; `resetObjects`, `pacManDied`, wiring | `Game`, `ClockDividers`, `TimedGame` |
| VGA timing | `VGA_controller.sv` | pixel clock, `hc`, `vc`, `hs`, `vs` | one count per pixel | `Vga` |
| picture | `Color_Mapper.sv`, `spriteData.sv`, `dotSpriteData.sv`, `lvl1sprite.sv` | none | what a pixel shows | `Picture`, `MCScreen` |
| HPI bus | `usb_kb/io_handler.c`, PIO registers, `hpi_io_intf.sv` | five PIO registers, the interface's registers | `IO_init`, `IO_write`, `IO_read` | `HpiBus`, `HpiPorts`, `HpiRefinement` |
| USB host | `usb_kb/main.c`, `usb.c` | program counter, counters of looks, the lists in the CY7C67200, its mailbox and message register, the keycode | reset, enumeration, polling, hot plug | `UsbHost`, `TdLists`, `TdMemory`, `KeySource`, `UsbProperties`, `MCUsb` |
| setup of the USB controller | `usb_kb/main.c`, `cy7c67200.h`, `lcp_cmd.h`, `lcp_data.h` | registers, comm area, mailbox | the two BIOS calls of steps 1 and 2 | `Cy7c67200` (partly) |
| ports of the processor | `bsp/system.h`, the interconnect under `lab8_soc/`, the stores of `main.c` | the output ports | a store | `Peripherals` |
| JTAG UART driver | `bsp/drivers/src/altera_avalon_jtag_uart_*.c` | two rings, `irq_enable`, `timeout`, `host_inactive` | write, read, close, ioctl, interrupt, alarm | `JtagUart`, `CharStream`, `JtagProperties` |
| HAL alarms | `bsp/HAL/src/alt_alarm_start.c`, `alt_tick.c` | the list of alarms, the count of ticks | start, stop, tick | `HalAlarms`, `IdealAlarms` |
| HAL files | `alt_open.c`, `alt_fd_lock.c`, `alt_io_redirect.c`, ... | the table of descriptors, `alt_max_fd` | open, close, ioctl, redirection of the streams | `FileTable` |
| HAL interrupts | `alt_irq_handler.c`, `alt_iic_isr_register.c`, ... | `alt_irq`, the enabled numbers | register, enable, disable, exception | `HalInterrupts` |
| HAL time of day | `alt_gettod.c`, `alt_settod.c` | `alt_nticks`, `alt_resettime` | set, get, tick | `WallClock`, `IdealClock` |
| HAL sleep | `alt_busy_sleep.c` | a register | `usleep` | `BusySleep` |
| hex displays, Nios II system, other HAL parts, `ball.sv`, `motion.sv` | | | | no (section 8) |

How they interact:

- **Shared registers, three clocks.** Control and dots are clocked by `Clk`
  (50 MHz). Pac-Man and the ghosts are clocked by `clkdiv` and `ghostClk`,
  which are themselves registers an edge of `Clk` may raise. All of them read
  each other's registers combinationally: control reads `hitPacman` and
  `anyLeft`; the dots read Pac-Man's position; the ghosts read it too; the walls
  of everyone depend on control's `state`. An edge that changes `state` may
  also raise `clkdiv` or `ghostClk`, and the actor then samples old or new walls.
  `keycode` is a register of `Clk` too: control samples it before the edge, and
  Pac-Man, on an edge that raises `clkdiv`, before or after it.
- **Reset.** `resetObjects = resetAll | Reset_h` resets actors and dots
  asynchronously. `resetAll` is a register, high for the one period of `Clk`
  after the edge that changes the state.
- **Software to game.** `keycode` and the randomness words are PIO outputs,
  written once per poll of the keyboard; the game reads them at any time.
- **Software to USB controller.** Each register access is a sequence of stores
  to one-bit PIO registers, which pass through `hpi_io_intf.sv` to the pins, and
  a load of a register that lags behind the pins. On top of it the program
  writes lists of transfer descriptors (TDs) into the controller's memory, points
  the controller at them, and waits for its messages, which share one register.
- **Software to itself.** `printf` goes through the HAL's file table to the UART
  driver, whose interrupt and alarm run between any two accesses of `write`.

What is hard, and what makes each component correct:

- *Races between the clocks*: whatever edges coincide, an actor never leaves
  the maze, a reset leaves nothing behind, no dot is passed over.
- *A hit that lasts one distance*: `hitPacman` is an equality with
  `collisionDist`, so the positions must never jump over it.
- *A change of mazes under moving actors*: during the wait the ghosts roam a
  closed pen and Pac-Man is walled in; when a level starts they are in the
  middle of a move, in cells from which the new maze has no exit.
- *Tables written by hand* (walls, dots, start cells, TD lists, addresses of
  ports, three vocabularies of registers) which must fit together.
- *Registered sync signals*, which look one count ahead; *addresses that come
  round* in ten bits.
- *Strobe, address and data one store apart* on a bus two parties drive.
- *The USB host's waits*: messages lost between a read and a clear, lists
  submitted twice, answers of an earlier request, a failed request, a keyboard
  pulled out or put back at the wrong moment, lists and data in the same words.
- *Interrupts between two accesses*: the driver's interrupt and `write`, `read`
  switch one another on and off in one word.
- *Words that come round to 0, limits of tables*: ticks, alarms, descriptors,
  the register of the sleep.

## 2. Modules and code

### The game

`Maze`, `PacMotion`, `GhostMotion`, `PacDots` and `Control` model one component
each. Their operators take the wires of the component's ports as parameters
(the maze, Pac-Man's position, the key, a random word), as the code's modules do.

- **`Maze`**: coordinates are registers of `WIDTH` values whose upper bits name
  a cell; a maze is the set of its walls; `Turns` is `outTurnL/R/U/D` with the
  special cases outside the board. `OnTrack` is the property part.
- **`PacMotion`**: `MotionFinal` is the combinational choice of the next motion,
  `PacTick` one edge of `frame_clk`.
- **`GhostMotion`**: `GhostTurn` is the sixteen-way `case(dirs)`, by the number
  of exits: none (go up), one, two (`TurnOfTwo`: an exit is compared with one
  bit of the motion, and 3 means back), three (`TurnOfThree`: towards Pac-Man),
  four (at random). `HitPacman`, `Towards`, `Sub`, `Negative`, `AbsDiff` are the
  wrapping arithmetic of the registers.
- **`PacDots`**: `eaten` is the set of cells whose flag is set.
- **`Control`**: `Die`, `Wait` and `Play` are the three branches of the
  next-state logic, with the `resetAll` each registers.
- **`Game`**: composes the five. A step is a rising edge of `Clk`. `Registers` is
  what `Clk` drives; `ClkEdge`, `ClkEdgePac`, `ClkEdgeGhosts`, `ClkEdgeBoth`
  are the four combinations of the other clocks. The three races of an edge (old
  or new walls, old or new position of Pac-Man, and the keycode, where control and
  Pac-Man each choose a key) are choices. What the tables
  must satisfy is stated in assumptions that TLC evaluates on the real tables.
- **`GameProperties`** extends it by the properties of all runs of the game, and by
  the abstract game on cells, `CellSpec`: no pixels, no clocks, no directions, but a
  walk from cell to cell that eats dots.
- **`ClockDividers`, `TimedGame`**: the dividers of `lab8.sv`, and `Game` driven
  by them: an edge moves an actor exactly when it raises its clock. The counters
  of `MCClocks` (edges round the common period) watch.
- **`MCRom`**: the tables, as in the source, and their reading. A behaviour is
  about Pac-Man alone or a ghost alone; both take the steps of `Game`. The ghost
  starts in any of the three waits, so it meets the pen and the walls of both levels.

### The screen

- **`Vga`**: counters and sync signals, the geometry as parameters.
- **`Picture`**: `Color_Mapper.sv` as pure operators: in whose square the beam
  is, which row and column of which picture memory is addressed, which dot is
  looked up, which row of which wall picture is shown, with the widths of the
  registers. Of the sprites the rows and columns that are not blank are kept
  (`PictureRows`, `PictureColumns`, read off the ROM); the wall pictures are the
  402 rows of each level in the last 804 of the memory's 1024, and which of them
  walls run along. `MCScreen` runs it together with `Vga`.

### The USB keyboard

- **`HpiBus`**: the programs of `io_handler.c` as sequences of accesses, an edge
  of `Clk` with or without the next access (`Step`, `Idle`), the registers
  between processor and pins (`Pass`). The CY7C67200 is external: it takes a
  write and moves on after a read when the strobe ends (`Strobe`), and changes
  its registers when it likes (`Change`).
- **`HpiPorts`**: the abstract specification, what `usb.c` relies on: after
  IO_init, one access per call, and a read answers with a word the register
  showed. **`HpiRefinement`** adds two history variables (accesses made, words
  seen) and states that the bus implements it.
- **`UsbHost`**: `main` after IO_init and the functions of `usb.c` it calls. A
  step of the program is one access to the controller; that a call is one step
  is what `HpiPorts` promises. `n` says in which of the nine copied requests, or
  in the poll, the program is; `pc` names the access. The words of a list are one
  step; a frame may begin between any two steps. The wait of `main.c:103` may end
  at once, with whichever of the sixteen bits. Two history variables: `answered`,
  the list whose run put the 0x03 into the control byte, and `hasty`, that since the
  last reset a sleep of 10 ms was over before both submissions of a list were
  done with.
  External are the controller (frames, mailbox answers, messages), the keyboard
  (address, configuration, data toggle, NAKs) and the player. `Disturbances` is
  the fault model: requests and mailbox commands that fail (`"fault"`), a
  keyboard pulled out during its enumeration (`"pull"`), back before that is
  noticed (`"bounce"`), port messages in between (`"message"`).
- **`TdLists`, `TdMemory`**: the nine lists of the enumeration and the two polls,
  as words, and the memory they share with the packets the keyboard sends: the
  program writes a list, the controller follows it TD by TD and stores data where
  the TDs say.
- **`KeySource`**: the abstract specification of the keycode, what the game
  relies on: the latest report, late or not at all, or a word that is no command.
- **`UsbProperties`**: the properties; `MCUsb` runs `UsbHost` and `TdMemory`.
- **`Cy7c67200`**: the header is several files in one, which describe the same
  registers under different names. A vocabulary is a function from registers to
  addresses and fields; the assumptions `VocabulariesAgree`, `RegionsApart` and
  `WordsNamed` compare them, and are evaluated by TLC. On it stand steps 1 and 2
  of `main.c`: the stores, the two BIOS calls through mailbox and comm area, the
  waits between them, and their repetition after a hot plug. The wait for the
  status may end at any time: MBX_IN_FLG is up as long as the BIOS has not taken
  the program's own mail, and messages, resumes and changes of ID or VBUS raise
  other bits of the sixteen.

### The HAL

- **`JtagUart`**: `write`, `read`, `close`, `ioctl` by their accesses, the
  interrupt with its two branches and the alarm between any two of them; the
  FIFOs and the host are external. Characters are numbered. **`CharStream`** is
  the abstract serial line each direction implements; `JtagProperties` states it.
- **`HalAlarms`**: start, stop and tick in words that come round, with the
  rollover flags. **`IdealAlarms`**: alarms that simply count down.
- **`FileTable`**: the descriptors from `alt_main` on: find, open, redirect,
  lock, release; the high-water mark `alt_max_fd`.
- **`HalInterrupts`**: registration as two stores with interrupts off, enabling,
  the entry test, the loop over the pending numbers.
- **`WallClock`, `IdealClock`**: the time of day in ticks and a correction, and
  the clock its users know. **`BusySleep`**: the three loops of the tiny core.
- **`Peripherals`**: the header's addresses, the interconnect's decoder, and the
  stores of the program, four of them to addresses written out in `main.c`.

`MCHal`, `MCScreen`, `MCUsb` and `MCRom` each hold components that share no state.
A variable `subject` names the one a behaviour is about, and the others stand
still: the reachable states are the sum of the parts and not their product.

`*Proofs` hold the theorems. Definitions marked *Mutant* are plausible mistakes
in the code; each is listed in `PROJECT.json` with the property it breaks.

Left out of the components above: `Direction` of `pac_motion.sv`, which only the
picture reads (there it is an input); colours; `UsbPrintMem`; the time zone.

## 3. Runs

| run | module, cfg | what it shows |
|---|---|---|
| `game_small` | `MCGame`, `MCGame.cfg` | both levels, deaths, resets, each key, each combination of clocks and each race; the game implements the game on cells |
| `rom` | `MCRom`, `MCRom.cfg` | Pac-Man, and a ghost from the wait into either level, on the real tables |
| `clocks` | `MCClocks`, `MCClocks.cfg` | the dividers from every phase |
| `timed_game` | `MCTimed`, `MCTimed.cfg` | the game under its dividers: when a ghost and Pac-Man slip past each other |
| `vga` | `MCScreen`, `Screen.cfg` | each pixel of a frame, and what it shows, with the real numbers |
| `vga_vsync` | `Vga`, `VgaVsync.cfg` | finding: `vs` is not where its comment says |
| `hpi_bus` | `HpiRefinement`, `HpiBus.cfg` | the bus implements single accesses |
| `usb_enumeration` | `MCUsb`, `Usb.cfg` | the whole program with frames at any time: what comes of a keyboard that stays; the lists in memory |
| `usb_any_time` | `UsbProperties`, `UsbAnyTime.cfg` | the same with every disturbance |
| `jtag` | `JtagProperties`, `Jtag.cfg` | printf and scanf with the interrupt anywhere, both serial lines |
| `hal` | `MCHal`, `Hal.cfg` | files, alarms, interrupts, clock, sleep, ports, setup of the controller |
| `file_lock` | `FileTable`, `FileLock.cfg` | finding: an exclusive lock that is not |

The properties, by the question they answer:

- *Waiting* (`WaitingAtHome`): in NEWGAME, BEAT1 and BEAT2 Pac-Man stands at his
  start, the ghosts are in the pen and nobody is hit. The last part matters:
  `pacManDied` has priority in every state, so a hit seen in BEAT1 would throw
  the player back to the first level.
- *Track* (`PacOnTrack`, `GhostsOnTrack`): actors are on the board, between cells
  on one axis only and not through walls, except ghosts in the pen at the start
  of a level and on their way up out of it.
- *The game on cells* (`CellSpec`): seen by cells, Pac-Man sets out for a
  neighbouring cell no wall separates him from, arrives, or turns back; he eats
  exactly the dots of the cells he is alone in; a level is cleared only when its
  last dot is eaten, and every level, death and reset starts from the same cell.
  The pixels, three clocks, races and the reset that lasts one period are
  invisible, but for one thing (`BeginLevel`): on the very edge that starts a
  level Pac-Man, seeing the new key and the new walls, may take his first step,
  and his start's dot may already be eaten; the reset of the next period takes
  both back. `PacCells` is the refinement mapping.
- *Dots* (`OverDots`, `Winnable`): Pac-Man only gets to cells with a dot; on the
  real tables the cells he can walk to are those with a dot, no fewer and no more.
- *Collisions* (`OverlapOnlyWhenBothMove`): the only way past `hitPacman` is an
  edge of `Clk` that moves both actors. `RiseTogether` says which edges these
  are: the half periods of the code, 200001 and 262001, are odd and coprime, so
  after a reset both clocks first rise together 200001 x 262001 periods of 20 ns
  later, about 17.5 minutes, then every 35 minutes, and on no other edge
  (`edges` is a history variable that counts them round). `ClocksCoincide` says
  that such edges never stop coming. `SlipsOnceInBoth` puts game and dividers
  together: between two resets an overlap begins unseen only on the edge half way
  round the common period. Together they delimit a real but rare miss; the
  code's comments promise nothing about it, so it is stated as the exact boundary
  and not as a defect.
- *Pen* (`NoWayBackToPen`, `OutOfRealPen`): the pen is left, in either level, and
  left for good.
- *Speed* (`OneOrTwoSteps`): one or two steps of Pac-Man for one of a ghost.
- *Sync* (`SyncOutsidePicture`); *picture* (`WallsOfTheLevel`: the board shows the
  walls of its level, those along the screen between the rows of cells and clear
  of the actors in them, although the address comes round at row 400 of level 2;
  `ActorsWhole`: an actor shows exactly the rows and columns of its picture, and
  of the 33rd pixels of the inclusive window only the last column, which is not in
  the memory, may show something else; `DotsInTheirCells`: the dot looked up is
  that of the cell in whose middle the beam is).
- *Bus* (`NoContention`, `SteadyUnderStrobe`, `OneAccessPerCall`).
- *USB* (`OwnAnswer`: the 0x03 that lets the program go on was written for the
  request it waits for, although lists are submitted twice, rewritten while they
  run and share their memory; only when a sleep was too short may it be that of
  the request before. `PluggedIsConfigured`: a keyboard that stays is configured,
  through messages erased between a read and a clear and the extra waits of
  `UsbGetRetryCnt`, or the program is caught in one of the ways the property
  names: it starts over for ever because *Set address* has been carried out twice,
  the second time in vain, or because line 103 went on before the answer
  (`StartsOver`); it has rewritten a list, and with it the control byte it reads
  for ever, under the running controller (`Overwritten`); or a sleep was too
  short. `ListsCarriedOut`: no list loses a TD to its own data, and each asks for
  what its setup packet announces; `KeyboardByteInPlace`: the third byte of the
  report arrives where `main.c` reads it; `OnlyReportedCommands`: the game sees no
  command that was not reported, whatever fails).
- *Setup of the controller* (`CallComplete`): each BIOS routine finds its own
  arguments, though the program goes on at any flag after the first call and
  waits for nothing after the second: going on too soon it finds no ACK and starts
  over. This holds unless the reset before has left an ACK in the mailbox
  (`leftAck`). With one left, which `usb.c:104` (garbage) neither promises nor
  rules out, line 106 takes it for the answer, and lines 115 to 129 overwrite
  COMM_INT_NUM and the arguments before the BIOS has read them; TLC shows it when
  that hypothesis is dropped.
- *Serial line* (`PrintingSpec`, `TypingSpec`, `NobodyStranded`, `AllShown`,
  `PrintfReturns`).
- *HAL* (`StreamsStay`: the streams of printf and scanf stay on the UART;
  `LockKeepsOut`: a locked device is not opened again; `CountsDown`: alarms fire
  neither early nor late nor never; `ServedRight`: the routine called is the one
  registered, with its own context; `FirstIsServed`: the lowest number is not
  starved; `KeepsTime`: a clock that was set goes on from there; `TakesItsTurns`:
  as many turns of the loop as the time asks for; `StoresArrive`: each store
  reaches the port it means, and no other).

Type correctness of each component, `ResetClean`, `NoDotSkipped` (between two cells
the dot of one of them is eaten, or Pac-Man has just left his start on the edge
that began the level), `HsyncInPlace` and `ForEver` are
proved (section 6) and need no run.

## 4. Bounds, and why they are enough

- `game_small`: 3 x 3 cells of 4 pixels, coordinates of 32 values,
  `collisionDist` 2, one ghost, one field of randomness. The code looks at
  positions as cell, offset 0 or not, and distance to `collisionDist`: four
  pixels give offsets before, at and after half a cell, and 2 keeps the
  ratio of the code (16 of 32). The mazes have dead ends, corners, a straight
  and a three-way cell, and differ between levels. Ghosts do not interact,
  so two ghosts add no case; the theorems cover any set of them.
- `rom`: the real constants and tables. Each actor alone, because the set of
  eaten dots alone has astronomically many values. Pac-Man, as the ghost sees
  him, is put at nine places (`Places`): a ghost uses only the signs of two
  differences. Two fields of randomness are enough: a field is chosen freely
  whenever it is used.
- `clocks`: half periods 13 and 17 for 200001 and 262001, alike in what counts
  (odd, coprime, one between one and two times the other), which
  `ScaleAssumption` checks for both pairs. `pacTicks` stops at 3: more than two is
  wrong already. `edges` counts round the 442 edges of their common period, so
  every phase that can occur is reached.
- `timed_game`: 2 x 2 cells, half periods 3 and 5, odd and coprime as the code's:
  a common period of 30 edges.
- `vga`: every pixel clock with the real numbers. What the pixels show is
  checked at the columns and rows on both sides of every border (of the board,
  of an actor's square, of a dot, of the memory's 1024 rows), with actors in two
  corners, in both levels; between borders nothing changes but the offset. The
  theorems have every pixel. `vga_vsync` uses a frame of 20 by 13.
- `hpi_bus`: two registers and two words (a call must be told from its
  neighbours and a word from a stale one), three edges between accesses. The
  Nios II/e takes at least six edges for an instruction; the fabric's latency
  is thereby covered if it is below that.
- `usb_enumeration`, `usb_any_time`: keys 0 (none) and 4 (a command). The looks at
  the port, 5 and 7 in the code, are 2 (1 in `usb_any_time`): a counter of identical
  looks, which needs one that does not end the loop and one that does. Keyboards
  answer with 5 and 34 bytes, so that last packets are short and full. `TdMemory`
  has all 96 words the lists use. Nothing bounds the number of polls, hot plugs or
  failures.
- `jtag`: rings of 3, a FIFO of 1, threshold 0, timeout 1 of an INT_MAX of 3,
  4 characters printed in calls of 2, 3 typed. A ring of three can be empty,
  partly filled, full and come round; printing must overrun ring and FIFO
  together, hence 4. The theorems have every size.
- `hal`: five descriptors (three streams, two more), two devices and a file
  system; two alarms on a word of six ticks with delays to 4, so that alarms
  before and after the rollover meet; two interrupts, two routines; a clock of two
  ticks a second and ten units of time a second, in words of 64, for 40 ticks, set
  in the first 12 of them (the product of `alt_settod.c:84` fits no longer), so that
  the 64-bit product of reading passes the word's 64 and the 32-bit one does not; a
  register of 0 to 255 for the sleep, with the times on both sides of 0, of every
  big loop and of the largest value; the two words 0 and 65793 stored to each port.
  The setup calls have no bound but this: a behaviour watches one of the fifteen
  cells for arguments, chosen at the start. The calls never compare cells.
- `file_lock`: the same table.

The proofs remove these bounds for the properties they cover.

## 5. Fairness

Only what the hardware gives.

- `Clk` is a crystal: `ClocksSpec` and `TimedSpec` have weak fairness of the
  edge of `Clk`, nothing else. No fairness for keys, the reset or the random
  words. `ClocksCoincide` excludes only behaviours in which the reset button is
  pressed infinitely often.
- `RomSpec` has weak fairness of the ghost's step (`Roam`), which `ghostClk` gives
  by the `clocks` run.
- `MCUsb`: weak fairness of the program and of the controller; nothing of the
  player, and a poll need not be answered. Nothing is assumed about the pace of
  the program against the frames. Between the first word of a list and the sleep
  lie two submissions of up to 64 words, more than 130 calls of IO_write, and in
  one place a `printf` (`main.c:363`), which may well take longer than a frame of
  a millisecond. Nor is the sleep assumed long enough: when it was not, `hasty`
  says so, and the properties that depend on it name it. `UsbSpec` has no
  fairness.
- `FairJtagSpec`: the program goes on with its call (`Working`), an interrupt that
  is pending and enabled is taken (`Interrupt`), a connected host reads (`Show`).
- `MCHal`: a registration comes to its end, the exception handler runs, and a line
  falls some time after its device was served.
- `Game`, `Vga` and the bus have none: nothing beyond safety is claimed of them.

## 6. Proofs

`tlapm` checks every proof. The assumptions are the named ASSUMEs of the
specifications: `BoardAssumption`, `PacStartAssumption`, `GhostAssumption`,
`MazeAssumption`, `PreAssumption`, `LevelAssumption`, `ApartAssumption`,
`DividerAssumption`, `VgaAssumption`, `PictureAssumption`, `HpiAssumption`,
`UsbHostAssumption`, `TdMemoryAssumption`, `JtagUartAssumption`,
`FileTableAssumption`, `HalAlarmsAssumption`, `HalInterruptsAssumption`,
`WallClockAssumption`, `BusySleepAssumption`, `PeripheralsAssumption`. TLC
evaluates them in the runs, those of the game on the real tables in `rom`. Two
theorems have a hypothesis of their own, written in their statement:
`TicksFillSeconds` and `DotsClosed`, explained below.

**The game** (`GameProofs`, `CollisionProofs`). First the arithmetic of cells: how
a step forward or back changes cell and offset (`StepForward`, `StepBack`), that a
wall has two sides (`FreeSide`), and that an actor leaving a cell by a free side is
on the track (`Leave`, `Advance`, `Between`). On it stand three invariants, each
adding to the last:

1. `PacInv` = types, `PacOnTrack`, and *while the game waits Pac-Man is home*.
   `PacOnTrack` is not inductive alone: a state change swaps the walls under him,
   and only his being home in a wait, where every maze fits him, carries it over.
   Theorems `TypeCorrect`, `PacStaysOnTrack`; and `PacStaysOverDots`, where the
   walls keep Pac-Man among the dots (`DotsClosed`, on the real tables a part of
   what `Winnable` checks).
2. `GhostInv` adds `GhostFits` of every ghost: on the track, in the pen while
   the game waits, and at an intersection outside the pen there is an exit. The
   last conjunct keeps "no options, go up" to the pen. Theorem `GhostsStayOnTrack`.
3. `GameInv` adds `WaitingAtHome`, `ResetClean` and `NoDotSkipped`, that no dot is
   passed over. `HitIsRing` shows
   the ten-bit arithmetic of `hitPacman` to be a ring of distance `collisionDist`;
   `ApartAssumption` keeps Pac-Man's home off it. Theorems `WaitingIsSafe`,
   `ResetIsClean`, `DotsAreEaten`, and as action properties `HitIsSeen` (`NoSlip`:
   an actor moving one pixel cannot pass the ring) and `NoReturnToPen`
   (`PenIsClosed`).

On top of `GameInv` stands the refinement `GameOnCells`: each step of `GameSpec` is
a step of `CellSpec` or a stutter. `StepWalks` has the pixels (what the six ways to
move by one do to the set of cells an actor is in), `DotUnderPac` ties the dots'
look at an intersection to being alone in a cell, `PlayWalks` and `CellStep` go
through the branches of `control.sv`. The walls of the old and the new state differ
only where `WaitingAtHome` and `ResetClean` keep Pac-Man at his start; that his key
need not be the one control saw costs the step of `BeginLevel`, which lets him
leave it one edge early.

**The clocks** (`TimedProofs`): `TimedImplementsGame`, each step under the
dividers is a step of `Game`, so all of the above holds of the timed game with any
limits of the counters (`CircuitIsSafe`). `CountersLimited`; `SpeedsAgree` for the
limits of the code and all of their kind, from `TicksInv`, which ties Pac-Man's
steps since the ghosts' last to the phases of both counters.
`OnceInThirtyFiveMinutes` (`RiseTogether`) rests on `EdgesInv`, which says that the
count of edges lies on a beat of either clock by what its counter shows, and on
Euclid's lemma for the two half periods (`CommonMultiple`). That lemma needs an
induction; the library's induction over the naturals takes an operator and cannot be
used, but the least element of a set can be taken (`LeastNumber`, from the
well-foundedness of < on Nat). With `HitIsSeen` it gives `MissesAreRare`
(`SlipsOnceInBoth`): of the edges between two resets, a ghost and Pac-Man can slip
past `hitPacman` on one in 35 minutes only. For the numbers of the code the
hypotheses are what TLC evaluates in `ScaleAssumption`.

**The screen** (`VgaProofs`): `VgaInv` adds to `HsyncInPlace` a window of lines in
which `vs` may be low. Theorems `CountersFit`, `HsyncIsInPlace`, `PictureIsWhole`
for every geometry; and `WallsAreRight`, `DotsAreInPlace`, `ActorsAreWhole` for
every pixel and place of the actors. The pictures' rows and columns are constants
of `Picture`, read off the ROMs.

**The bus** (`HpiProofs`): `PioInv` says what the PIO registers hold before each
access of each program, `PinsInv` that the pins are those registers or lag by one
store, `AnswerInv` how far a word on its way back has come and that it was seen
during the call. Theorems `BusTypeCorrect`, `BusNotFoughtOver`, `BusIsSteady`,
and the refinement `BusImplementsPorts`, for every GAP from three.

**The USB host** (`UsbProofs`): `UsbTypeCorrect`, and `NoOtherCommands`: program,
controller and keyboard implement `KeySource` whatever fails and whenever frames
fall. `UsbInv` says what may stand in the word that becomes the keycode: a report,
or what some list left there, and no list leaves a command. `AnswersAreOwn` has no
hypothesis about the pace of program and frames. It follows from `OwnInv`: a reset
leaves the controller nothing to do (`StartsAtRest`); the list at 0x0500 is that of
the request the program is at, once it is written (`ListStands`); the controller
runs that list or still the one before, never an older one (`AtMostOneBehind`); and
unless a sleep was too short (`hasty`), nothing of a request is left to be carried
out when the program has seen its answer (`NothingLeft`).

The lists: `ControlLists` and `PollLists` check each list of `usb.c` once, in two
predicates, `Chained` (every TD names the next, buffers behind the list) and
`Controls` (lengths add up, toggles alternate); the rest is about any list of that
form. `TdInv` says that the list is in memory as written, that the controller is
on the stage it has counted, and what it may have asked for by then
(`TdHolds`). Theorem `ListsAreCarriedOut`; and `KeyboardByteStays`, for every
`Replies`, from `KeyInv`: so far every packet was full, or nothing is left to come.

**The UART** (`JtagProofs`): `JtagInv` is the conjunction of the line each way
(`TxLine`, `RxLine`: what is in ring, FIFO and beyond, in order), what each step
of a call knows (`CallInv`, `WritePlan`, `ReadPlan`: the room computed is still
there, since the interrupt only makes more), the seconds (`TimeInv`, `FlagInv`)
and who is on duty (`SomeoneSends`, `SomeoneReceives`). Theorems `JtagTypeCorrect`,
`NobodyIsStranded`, `NeverGivesUp`, `PrintedInOrder`, `TypedInOrder`.

**The HAL** (`HalProofs`). Alarms: `AlarmInv` says that the rollover flag tells
in which round of the count an alarm lies; theorems `AlarmsAhead` and the
refinement `AlarmsCountDown`. Files: `TableInv` says, for each stage of the start,
what each descriptor may hold, and that none above the mark is in use; it implies
`FileInv` and `StreamsStay`. Theorems `FilesBelowMark`, `StreamsReachUart`, `LockedIsAlone`.
Interrupts: `IntrInv`; theorems `InterruptTypes`, `ServedAsRegistered`.
The time of day: `WallInv` says that the time the clock stands for is not negative,
so that no correction for a borrow is cut off at 0; `ClockKeepsTime` is the
refinement of `IdealClock`, for as long as the ticks fit a word. Of the 71 minutes
of `alt_settod.c:84` only this is left: nobody sets the clock after them (`LastSet`);
reading goes on being right. It needs `TicksFillSeconds`, that the rate divides the
second: with 3 ticks to 10 microseconds TLC finds a clock apart from the ideal one,
since quotient and remainder of the ticks are cut off separately. Sleeping:
`SleepInv` says how many turns the big loops done so far have taken and what is
left of the microseconds; theorems `ProductsFit` (what the last loop is called with
fits 31 bits) and the action property `SleepsLongEnough`. Ports: `HeaderHolds` and
the action property `WordsArrive`. The chip: `CallsComplete`, from `ChipInv`: the
46 accesses of the setup are numbered (`SetupIs`), those before the present one
have written their cells, the BIOS has nothing to take up while arguments are being
written, and the mailbox holds no ACK before it has taken up the first call, unless
the reset has left one. An earlier version rested on no start of a frame being
routed to the processor, which is not enough: the program's own mail raises a bit
of the status port.

**Only model-checked**: what needs liveness (`OutOfRealPen`, `ClocksCoincide`,
`PluggedIsConfigured`, `AllShown`, `PrintfReturns`, `FirstIsServed`), which is out
of the prover's reach; `Winnable`, a search through the real tables; and the
vocabularies of `Cy7c67200`, constants compared with constants.

## 7. Where the code and its comments disagree

Two runs expect a violation.

- `vga_vsync`: `VGA_controller.sv:98` gives the vertical pulse the lines 490 and
  491. The code compares `vc + 1` with them on every pixel and registers the
  result, so `vs` is low from pixel 1 of line 489 to pixel 0 of line 491. The same
  look-ahead is right for `hs`, whose counter advances on every pixel. No effect
  on the picture: `SyncOutsidePicture` holds, and is proved.
- `file_lock`: `alt_fd_lock.c:61` searches `i < alt_max_fd`, although `alt_max_fd`
  is the highest descriptor in use (`alt_open.c:79` has `<=`). A file open on a
  device under that descriptor is not seen, and the lock its comment (line 43)
  reserves for a device nobody else has open is granted. The program never asks
  for a lock.

Seen while modelling, in the models where they are reachable, without runs of
their own:

- `main.c:230` and its copies: a request that ended with another control byte than
  3 is not submitted again, as line 217 ("call the appropriate function again")
  would have it; the loop reads the same byte for ever.
- `main.c:133`: the second BIOS call is not waited for; the word read right after
  it may be the answer to the first, or one left from before a hot plug. Harmless
  for the arguments, by `CallComplete`.
- `main.c:103` ends with any status bit, MBX_IN_FLG of the mail of line 101
  included; the next line then usually finds no ACK and starts over, and with an
  ACK left from the reset the second call's arguments overwrite the first's.
- `Color_Mapper.sv:164`: `lvl1sprite.sv` holds 402 rows for each level in the last
  804 of 1024, so level 2 begins at row 622, and `DrawY + 224 + 400` shows it two
  lines higher than level 1. No line of code or comment promises where it lies, and
  the walls stay between the actors (`WallsOfTheLevel`), so no run has it.
- `getDotStarts.sv:47` says of level 2's dots that they match level 1; they are
  others, and match level 2's maze (`Winnable`).
- `main.c:186`: the first look at the flag follows the submission at once, so a
  list is nearly always submitted twice; a keyboard pulled out in a request leaves
  the program waiting. `main.c:539`: one that is back within seven looks at the
  port is polled at an address it no longer has.
- `main.c:384`: only the control byte of the first TD of a list is looked at.
- `usb.c:547`, `556`: read and clear of the message register are two accesses; the
  word is compared as a whole, so messages posted together match neither.
- `altera_avalon_jtag_uart_write.c:183`: without host and clock `write` spins for
  ever; with one it gives up at the first second missed when the timeout is small.
- `alt_settod.c:84` multiplies ticks and microseconds in 32 bits, `alt_gettod.c:93`
  in 64: 71 minutes after the start a clock that is set does not show what it was
  set to. Nothing here sets it. `main.c:41` seeds its random numbers with the
  time, which is always the same so soon after the start.
- `alt_busy_sleep.c`: called with 0 it takes 2^32 turns, as the loop tests at its
  end. 50 MHz over 9 cycles is cut down to 5 turns a microsecond.
- `cy7c67200.h`: at line 2703 a name says HOST1_SOFEOP_TO_HPI of the bit that line
  2689, after a swap noted there, gives to the CPU; TX_BIT_LEN, the mailbox address
  of a comment, and a few fields differ between the vocabularies. None is used.

## 8. What is not modelled

- `HexDriver.sv`: a stateless table for the debugging display.
- The Nios II system (`nios_system.qsys`, generated under `lab8_soc/`): processor,
  SDRAM controller, memories and the pipelines of the fabric. What the program sees
  of them is the pace of `HpiBus` and the decoder of `Peripherals`.
- HAL parts the program does not call (logging, profiling, flash, DMA, loading),
  and sequential code over memory that newlib asks for (`sbrk`, `environ`, ...):
  no state worth a property.
- Of `cy7c67200.h`: values a field may take, masks and sizes that repeat a field,
  chapter 9 of the USB standard and the slave's descriptors, which this host does
  not use. Code in `usb.c` that is no longer called, and `UsbPrintMem`.
- Colours of the picture, and what the sprites look like inside their margins.
- `ball.sv`, `motion.sv`, `*.bak`, earlier exercises: not part of the design
  `lab8.sv` instantiates. Quartus databases.
- Metastability and hold times: an edge of a divided clock samples the old or
  the new value of a register, not a mixture of their bits.

## 9. Plan

Done, in this order: the game and its properties; the proofs up to the
collisions; the real tables; the clocks and the timed game; VGA timing; the bus
and its refinement; the USB host and its lists; the picture; the UART driver; the
HAL's files, alarms, interrupts, clock and sleep; the ports; the setup of the USB
controller; proofs of the USB host and its lists, the UART, the screen and the HAL;
the game on cells, and the edges on which both clocks rise.

Next:

1. *A request that fails is submitted again* as a property of its own, with the
   counterexample of `main.c:230`; the toggles of the polls, which part when a list
   is carried out twice or a poll brings no report (`main.c:478`), and the keyboard
   of `main.c:539`: for these no property of the present ones would notice a change.
2. Composition of `UsbHost` with `Game` through the keycode: with `KeySource` on
   one side and the free keys of `Game` on the other nothing new is to be expected
   but the pace of the random words.
