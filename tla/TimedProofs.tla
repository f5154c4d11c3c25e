------------------------------ MODULE TimedProofs ------------------------------
(***************************************************************************)
(* The game under its real clocks is a special case of Game, so that every *)
(* theorem about GameSpec holds of lab8.sv with its dividers; and Pac-Man  *)
(* makes one or two steps for each of the ghosts'.                         *)
(***************************************************************************)
EXTENDS CollisionProofs, TimedGame, WellFoundedInduction, TLAPS

LEMMA TimedStep ==
  ASSUME [TimedEdge \/ TimedReset]_timedVars
  PROVE  [GameNext]_gameVars
<1>1. ASSUME TimedEdge PROVE GameNext
  <2>1. /\ Registers
        /\ PacEdge \/ PacHolds
        /\ GhostEdge \/ GhostsHold
    BY <1>1 DEF TimedEdge
  <2> QED BY <2>1 DEF GameNext, ClkEdge, ClkEdgePac, ClkEdgeGhosts, ClkEdgeBoth
<1>2. ASSUME TimedReset PROVE GameNext
  BY <1>2 DEF TimedReset, GameNext
<1>3. ASSUME UNCHANGED timedVars PROVE UNCHANGED gameVars
  BY <1>3 DEF timedVars
<1> QED BY <1>1, <1>2, <1>3

(* Whatever the phases of the two dividers, an edge of Clk is one of the   *)
(* steps of Game.                                                          *)
THEOREM TimedImplementsGame == TimedSpec => GameSpec
<1>1. TimedInit => GameInit
  BY DEF TimedInit
<1> QED BY <1>1, TimedStep, PTL DEF TimedSpec, GameSpec

-----------------------------------------------------------------------------
(* The dividers.  Edges of Clk until a divided clock rises, half of its    *)
(* period being h, given its counter and the clock.                        *)
Until(h, count, clk) == IF clk THEN 2 * h - count ELSE h - count

PacIn == Until(PACFULL + 1, counter, clkdiv)
GhostIn == Until(GHOSTFULL + 1, ghostCounter, ghostClk)

LEMMA UntilType ==
  ASSUME NEW full \in Nat, NEW count \in 0 .. full, NEW clk \in BOOLEAN
  PROVE  Until(full + 1, count, clk) \in 1 .. 2 * (full + 1)
<1>1. CASE clk = TRUE
  BY <1>1 DEF Until
<1>2. CASE clk = FALSE
  BY <1>2 DEF Until
<1> QED BY <1>1, <1>2

(* One edge of Clk, for either divider.                                    *)
CountsTo(full, count, clk, next, nextClk) ==
  /\ next \in 0 .. full /\ nextClk \in BOOLEAN
  /\ (~clk /\ nextClk) <=> Until(full + 1, count, clk) = 1
  /\ Until(full + 1, next, nextClk) =
       IF Until(full + 1, count, clk) = 1 THEN 2 * (full + 1) ELSE Until(full + 1, count, clk) - 1

LEMMA UntilStep ==
  ASSUME NEW full \in Nat, NEW count \in 0 .. full, NEW clk \in BOOLEAN,
         NEW next, next = IF count >= full THEN 0 ELSE count + 1,
         NEW nextClk, nextClk = (clk # (count >= full))
  PROVE  CountsTo(full, count, clk, next, nextClk)
<1>1. CASE count = full
  <2>1. next = 0 /\ next \in 0 .. full
    BY <1>1
  <2>2. (count >= full) = TRUE
    BY <1>1
  <2>3. CASE clk = TRUE
    <3>1. nextClk = FALSE
      BY <2>2, <2>3, Zenon
    <3>2. Until(full + 1, count, clk) = full + 2 /\ Until(full + 1, next, nextClk) = full + 1
      BY <1>1, <2>1, <2>3, <3>1 DEF Until
    <3>3. ~(~clk /\ nextClk) /\ nextClk \in BOOLEAN
      BY <2>3, <3>1, Zenon
    <3>4. Until(full + 1, count, clk) # 1
          /\ Until(full + 1, next, nextClk) = Until(full + 1, count, clk) - 1
      BY <3>2
    <3> QED BY <2>1, <3>3, <3>4, Zenon DEF CountsTo
  <2>4. CASE clk = FALSE
    <3>1. nextClk = TRUE
      BY <2>2, <2>4, Zenon
    <3>2. Until(full + 1, count, clk) = 1 /\ Until(full + 1, next, nextClk) = 2 * (full + 1)
      BY <1>1, <2>1, <2>4, <3>1 DEF Until
    <3>3. ~clk /\ nextClk /\ nextClk \in BOOLEAN
      BY <2>4, <3>1, Zenon
    <3> QED BY <2>1, <3>2, <3>3, Zenon DEF CountsTo
  <2> QED BY <2>3, <2>4
<1>2. CASE count # full
  <2>1. next = count + 1 /\ next \in 0 .. full
    BY <1>2
  <2>2. (count >= full) = FALSE
    BY <1>2
  <2>3. nextClk = clk
    BY <2>2, Zenon
  <2>4. Until(full + 1, count, clk) = Until(full + 1, next, nextClk) + 1
        /\ Until(full + 1, next, nextClk) \in Nat \ {0}
    <3>1. CASE clk = TRUE
      <4>1. nextClk = TRUE
        BY <2>3, <3>1, Zenon
      <4> QED BY <1>2, <2>1, <3>1, <4>1 DEF Until
    <3>2. CASE clk = FALSE
      <4>1. nextClk = FALSE
        BY <2>3, <3>2, Zenon
      <4> QED BY <1>2, <2>1, <3>2, <4>1 DEF Until
    <3> QED BY <3>1, <3>2, Zenon
  <2>5. Until(full + 1, count, clk) # 1 /\ Until(full + 1, next, nextClk) = Until(full + 1, count, clk) - 1
    BY <2>4
  <2>6. nextClk \in BOOLEAN
    BY <2>3, Zenon
  <2>7. ~(~clk /\ nextClk)
    <3>1. CASE clk = TRUE
      BY <3>1, Zenon
    <3>2. CASE clk = FALSE
      BY <2>3, <3>2, Zenon
    <3> QED BY <3>1, <3>2, Zenon
  <2> QED BY <2>1, <2>5, <2>6, <2>7, Zenon DEF CountsTo
<1> QED BY <1>1, <1>2

LEMMA DivideStep ==
  ASSUME DividersTypeOK, Divide
  PROVE  /\ DividersTypeOK'
         /\ PacIn \in 1 .. 2 * (PACFULL + 1)
         /\ PacRises <=> PacIn = 1
         /\ PacIn' = IF PacIn = 1 THEN 2 * (PACFULL + 1) ELSE PacIn - 1
         /\ GhostIn \in 1 .. 2 * (GHOSTFULL + 1)
         /\ GhostRises <=> GhostIn = 1
         /\ GhostIn' = IF GhostIn = 1 THEN 2 * (GHOSTFULL + 1) ELSE GhostIn - 1
<1>1. /\ PACFULL \in Nat /\ counter \in 0 .. PACFULL /\ clkdiv \in BOOLEAN
      /\ GHOSTFULL \in Nat /\ ghostCounter \in 0 .. GHOSTFULL /\ ghostClk \in BOOLEAN
  BY DividerAssumption DEF DividersTypeOK
<1>2. /\ counter' = IF counter >= PACFULL THEN 0 ELSE counter + 1
      /\ clkdiv' = (clkdiv # (counter >= PACFULL))
      /\ ghostCounter' = IF ghostCounter >= GHOSTFULL THEN 0 ELSE ghostCounter + 1
      /\ ghostClk' = (ghostClk # (ghostCounter >= GHOSTFULL))
  BY DEF Divide
<1>3. /\ counter' \in 0 .. PACFULL /\ clkdiv' \in BOOLEAN
      /\ PacRises <=> PacIn = 1
      /\ PacIn' = IF PacIn = 1 THEN 2 * (PACFULL + 1) ELSE PacIn - 1
  <2>1. CountsTo(PACFULL, counter, clkdiv, counter', clkdiv')
    BY <1>1, <1>2, UntilStep, Zenon
  <2> QED BY <2>1, Zenon DEF CountsTo, PacRises, PacIn
<1>4. /\ ghostCounter' \in 0 .. GHOSTFULL /\ ghostClk' \in BOOLEAN
      /\ GhostRises <=> GhostIn = 1
      /\ GhostIn' = IF GhostIn = 1 THEN 2 * (GHOSTFULL + 1) ELSE GhostIn - 1
  <2>1. CountsTo(GHOSTFULL, ghostCounter, ghostClk, ghostCounter', ghostClk')
    BY <1>1, <1>2, UntilStep, Zenon
  <2> QED BY <2>1, Zenon DEF CountsTo, GhostRises, GhostIn
<1>5. PacIn \in 1 .. 2 * (PACFULL + 1) /\ GhostIn \in 1 .. 2 * (GHOSTFULL + 1)
  BY <1>1, UntilType, Zenon DEF PacIn, GhostIn
<1> QED BY <1>3, <1>4, <1>5, Zenon DEF DividersTypeOK

(* With the ticks since the ghosts' last, the ticks still to come before   *)
(* their next make one or two.                                             *)
TicksInv ==
  /\ pacTicks \in 0 .. 2
  /\ pacTicks = 0 => PacIn <= GhostIn
  /\ pacTicks = 1 => GhostIn < PacIn + 2 * (PACFULL + 1)
  /\ pacTicks = 2 => GhostIn < PacIn

LEMMA ClocksStart ==
  ASSUME counter = 0, clkdiv = FALSE, ghostCounter = 0, ghostClk = FALSE, pacTicks = 0
  PROVE  DividersTypeOK /\ TicksInv
<1>1. PACFULL \in Nat /\ GHOSTFULL \in Nat /\ PACFULL + 1 < GHOSTFULL + 1
  BY DividerAssumption, ScaleAssumption DEF SameKind
<1>2. PacIn = PACFULL + 1 /\ GhostIn = GHOSTFULL + 1
  BY <1>1 DEF PacIn, GhostIn, Until
<1>3. TicksInv
  BY <1>1, <1>2 DEF TicksInv
<1>4. 0 \in 0 .. PACFULL /\ 0 \in 0 .. GHOSTFULL
  BY <1>1
<1> QED BY <1>3, <1>4, Zenon DEF DividersTypeOK

LEMMA ClockStep ==
  ASSUME DividersTypeOK, TicksInv, Clock
  PROVE  /\ DividersTypeOK' /\ TicksInv'
         /\ GhostRises => pacTicks + (IF PacRises THEN 1 ELSE 0) \in 1 .. 2
<1> DEFINE p == PACFULL + 1
           g == GHOSTFULL + 1
           now == pacTicks + (IF PacRises THEN 1 ELSE 0)
<1>1. p \in Nat /\ g \in Nat /\ p < g /\ g < 2 * p
  BY DividerAssumption, ScaleAssumption DEF SameKind
<1>2. Divide
  BY DEF Clock
<1>3. /\ DividersTypeOK'
      /\ PacIn \in 1 .. 2 * p
      /\ PacRises <=> PacIn = 1
      /\ PacIn' = IF PacIn = 1 THEN 2 * p ELSE PacIn - 1
      /\ GhostIn \in 1 .. 2 * g
      /\ GhostRises <=> GhostIn = 1
      /\ GhostIn' = IF GhostIn = 1 THEN 2 * g ELSE GhostIn - 1
  BY <1>2, DivideStep
<1>4. pacTicks' = IF GhostIn = 1 THEN 0 ELSE IF now > 3 THEN 3 ELSE now
  <2>1. pacTicks' = IF GhostRises THEN 0 ELSE IF now > 3 THEN 3 ELSE now
    BY Zenon DEF Clock
  <2>2. CASE GhostRises
    BY <1>3, <2>1, <2>2, Zenon
  <2>3. CASE ~GhostRises
    BY <1>3, <2>1, <2>3, Zenon
  <2> QED BY <2>2, <2>3, Zenon
<1>5. now = IF PacIn = 1 THEN pacTicks + 1 ELSE pacTicks + 0
  <2>1. CASE PacRises
    BY <1>3, <2>1, Zenon
  <2>2. CASE ~PacRises
    BY <1>3, <2>2, Zenon
  <2> QED BY <2>1, <2>2, Zenon
<1>6. GhostRises => GhostIn = 1
  BY <1>3, Zenon
<1> HIDE DEF now, p, g
<1>7. /\ PacIn \in 1 .. 2 * p /\ PacIn' = IF PacIn = 1 THEN 2 * p ELSE PacIn - 1
      /\ GhostIn \in 1 .. 2 * g /\ GhostIn' = IF GhostIn = 1 THEN 2 * g ELSE GhostIn - 1
      /\ p = PACFULL + 1
  BY <1>3, Zenon DEF p
<1>8. /\ pacTicks \in 0 .. 2
      /\ pacTicks = 0 => PacIn <= GhostIn
      /\ pacTicks = 1 => GhostIn < PacIn + 2 * p
      /\ pacTicks = 2 => GhostIn < PacIn
  BY Zenon DEF TicksInv, p
<1>9. GhostIn = 1 => now \in 1 .. 2
  BY <1>1, <1>5, <1>7, <1>8
<1>10. GhostIn # 1 => now \in 0 .. 2
  BY <1>1, <1>5, <1>7, <1>8
<1>11. /\ pacTicks' \in 0 .. 2
       /\ pacTicks' = 0 => PacIn' <= GhostIn'
       /\ pacTicks' = 1 => GhostIn' < PacIn' + 2 * p
       /\ pacTicks' = 2 => GhostIn' < PacIn'
  <2>1. CASE GhostIn = 1
    BY <1>1, <1>4, <1>7, <2>1
  <2>2. CASE GhostIn # 1 /\ PacIn = 1
    BY <1>1, <1>4, <1>5, <1>10, <1>7, <1>8, <2>2
  <2>3. CASE GhostIn # 1 /\ PacIn # 1
    BY <1>1, <1>4, <1>5, <1>10, <1>7, <1>8, <2>3
  <2> QED BY <2>1, <2>2, <2>3
<1>12. TicksInv'
  BY <1>11, Zenon DEF TicksInv, p
<1> QED BY <1>3, <1>9, <1>12, <1>6, Zenon DEF now

(* The clocks without their fairness.                                      *)
ClocksRun == ClocksInit /\ [][Clock \/ PressReset]_clockVars

LEMMA ClocksInvariant == ClocksRun => [](DividersTypeOK /\ TicksInv)
<1>1. ClocksInit => DividersTypeOK /\ TicksInv
  BY ClocksStart DEF ClocksInit, DividersInit
<1>2. DividersTypeOK /\ TicksInv /\ [Clock \/ PressReset]_clockVars => (DividersTypeOK /\ TicksInv)'
  <2>1. ASSUME DividersTypeOK, TicksInv, PressReset
        PROVE  (DividersTypeOK /\ TicksInv)'
    <3>1. /\ counter' = 0 /\ clkdiv' = FALSE /\ ghostCounter' = 0 /\ ghostClk' = FALSE
          /\ pacTicks' = 0
      BY <2>1 DEF PressReset, DividersReset
    <3>2. PACFULL \in Nat /\ GHOSTFULL \in Nat /\ PACFULL + 1 < GHOSTFULL + 1
      BY DividerAssumption, ScaleAssumption DEF SameKind
    <3>3. PacIn' = PACFULL + 1 /\ GhostIn' = GHOSTFULL + 1
      BY <3>1, <3>2 DEF PacIn, GhostIn, Until
    <3>4. TicksInv'
      BY <3>1, <3>2, <3>3 DEF TicksInv
    <3>5. 0 \in 0 .. PACFULL /\ 0 \in 0 .. GHOSTFULL
      BY <3>2
    <3> QED BY <3>1, <3>4, <3>5, Zenon DEF DividersTypeOK
  <2>2. ASSUME DividersTypeOK, TicksInv, UNCHANGED clockVars
        PROVE  (DividersTypeOK /\ TicksInv)'
    BY <2>2 DEF clockVars, DividersTypeOK, TicksInv, PacIn, GhostIn
  <2> QED BY <2>1, <2>2, ClockStep
<1> QED BY <1>1, <1>2, PTL DEF ClocksRun

(* No counter runs past its limit, for all limits of the same kind as      *)
(* those of the code.                                                      *)
THEOREM CountersLimited == ClocksSpec => []DividersTypeOK
BY ClocksInvariant, PTL DEF ClocksSpec, ClocksRun

(* Pac-Man makes one or two steps for each of the ghosts', in every phase  *)
(* of the dividers, with the limits of the code and all of their kind.     *)
THEOREM SpeedsAgree == ClocksSpec => OneOrTwoSteps
<1>1. ASSUME DividersTypeOK /\ TicksInv, [Clock \/ PressReset]_clockVars
      PROVE  [GhostRises /\ ~PressReset
                => pacTicks + (IF PacRises THEN 1 ELSE 0) \in 1 .. 2]_clockVars
  BY <1>1, ClockStep
<1> QED BY <1>1, ClocksInvariant, PTL DEF ClocksSpec, ClocksRun, OneOrTwoSteps

-----------------------------------------------------------------------------
(* When both clocks rise.                                                  *)

(* Every nonempty set of numbers has a least one.                          *)
LEMMA LeastNumber ==
  ASSUME NEW T, T \subseteq Nat, T # {}
  PROVE  \E x \in T : \A y \in T : x <= y
<1> DEFINE less == {ss \in Nat \X Nat : ss[1] < ss[2]}
<1>1. IsWellFoundedOn(less, Nat)
  BY NatLessThanWellFounded DEF OpToRel
<1>2. \A x, y \in Nat : y < x => <<y, x>> \in less
  OBVIOUS
<1> HIDE DEF less
<1>3. PICK x \in T : \A y \in T : <<y, x>> \notin less
  BY <1>1, WFMin
<1>4. ASSUME NEW y \in T PROVE x <= y
  <2>1. x \in Nat /\ y \in Nat /\ ~(y < x)
    BY <1>2, <1>3
  <2> QED BY ONLY <2>1
<1> QED BY <1>4

NoCommonDivisor(p, g) == \A d \in 2 .. p : p % d = 0 => g % d # 0

(* Euclid: where p and g have no common divisor, a common multiple of the  *)
(* two is a multiple of their product.                                     *)
LEMMA CommonMultiple ==
  ASSUME NEW p \in Nat \ {0}, NEW g \in Nat \ {0},
         NoCommonDivisor(p, g)
  PROVE  \A x, b \in Nat : p * x = g * b => \E k \in Nat : x = g * k
<1> DEFINE T == {y \in Nat \ {0} : \E c \in Nat : p * y = g * c}
<1>1. g \in T
  BY Z3
<1>2. PICK m \in T : \A y \in T : m <= y
  BY <1>1, LeastNumber
<1>3. PICK e \in Nat : p * m = g * e
  BY <1>2
<1>4. m \in Nat \ {0}
  BY <1>2
<1>5. ASSUME NEW y \in T PROVE \E d \in Nat : y = m * d
  <2> DEFINE q == y \div m   r == y % m
  <2>1. y \in Nat /\ q \in Nat /\ r \in 0 .. m - 1 /\ y = m * q + r
    <3>1. \A u \in Nat, v \in Nat \ {0} :
            u \div v \in Nat /\ u % v \in 0 .. v - 1 /\ u = v * (u \div v) + (u % v)
      BY Z3
    <3> QED BY <1>4, <3>1
  <2>2. PICK c \in Nat : p * y = g * c
    OBVIOUS
  <2> HIDE DEF q, r
  <2>3. p * r = g * (c - e * q)
    <3>1. \A u, v, w, z \in Int : u * (v * w + z) = (u * v) * w + u * z
      BY Z3
    <3>2. \A u, v, w, z \in Int : u * v - (u * w) * z = u * (v - w * z)
      BY Z3
    <3>3. p * y = (p * m) * q + p * r
      BY <1>4, <2>1, <3>1
    <3>4. g * c = (g * e) * q + p * r
      BY <1>3, <2>2, <3>3
    <3>5. g * c - (g * e) * q = g * (c - e * q)
      BY <2>1, <3>2
    <3>6. g * c \in Int /\ (g * e) * q \in Int /\ p * r \in Int
      <4>1. \A u, v \in Int : u * v \in Int
        BY Z3
      <4>2. g * e \in Int
        BY <4>1
      <4> QED BY <2>1, <4>1, <4>2
    <3> QED BY <3>4, <3>5, <3>6
  <2>4. c - e * q \in Nat
    <3>1. \A u, w \in Nat, z \in Int : u > 0 /\ u * z = w => z >= 0
      BY Z3
    <3>2. p * r \in Nat /\ c - e * q \in Int
      <4>1. \A u, v \in Nat : u * v \in Nat
        BY Z3
      <4> QED BY <2>1, <4>1
    <3> QED BY <2>3, <3>1, <3>2
  <2>5. r = 0
    <3>1. CASE r # 0
      <4>1. r \in T
        BY <2>1, <2>3, <2>4, <3>1
      <4> QED BY <1>2, <1>4, <2>1, <4>1
    <3> QED BY <3>1
  <2> QED BY <1>4, <2>1, <2>5
<1>6. PICK d \in Nat : g = m * d
  BY <1>1, <1>5
<1>7. p = d * e
  <2>1. \A u \in Nat \ {0}, v, w, z \in Nat : v * u = (u * w) * z => v = w * z
    <3>1. ASSUME NEW u \in Nat \ {0}, NEW v \in Nat, NEW w \in Nat, NEW z \in Nat, v * u = (u * w) * z
          PROVE  v = w * z
      <4>1. u * (v - w * z) = 0
        BY <3>1, Z3
      <4> QED BY <4>1, Z3
    <3> QED BY <3>1
  <2> QED BY <1>3, <1>4, <1>6, <2>1
<1>8. d = 1
  <2>1. d # 0 /\ e # 0
    BY <1>4, <1>6, <1>7
  <2>2. d <= p
    <3>1. \A u, v \in Nat : v # 0 => u <= u * v
      BY Z3
    <3> QED BY <1>7, <2>1, <3>1
  <2>3. \A u, v \in Nat : u # 0 => (u * v) % u = 0 /\ (v * u) % u = 0
    BY Z3
  <2>4. p % d = 0 /\ g % d = 0
    BY <1>4, <1>6, <1>7, <2>1, <2>3
  <2>5. d \notin 2 .. p
    BY <2>4, Zenon DEF NoCommonDivisor
  <2> QED BY <2>1, <2>2, <2>5
<1>9. m = g
  BY <1>4, <1>6, <1>8
<1>10. ASSUME NEW x \in Nat, NEW b \in Nat, p * x = g * b
       PROVE  \E k \in Nat : x = g * k
  <2>1. CASE x = 0
    BY <2>1
  <2>2. CASE x # 0
    <3>1. x \in T
      BY <1>10, <2>2
    <3> QED BY <1>5, <1>9, <3>1
  <2> QED BY <2>1, <2>2
<1> QED BY <1>10

-----------------------------------------------------------------------------
(* Where the edges since a reset stand relative to one of the clocks: its  *)
(* rises are at the odd multiples of its half period h, and the edges are  *)
(* counted round 2 * h * o.                                                *)
OnBeat(h, e, in) == \E i \in Nat : e + in = h * (2 * i + 1)

LEMMA BeatStep ==
  ASSUME NEW h \in Nat \ {0}, NEW o \in Nat \ {0},
         NEW e \in 0 .. 2 * h * o - 1, NEW in \in 1 .. 2 * h, OnBeat(h, e, in),
         NEW in1, in1 = IF in = 1 THEN 2 * h ELSE in - 1,
         NEW e1, e1 = (e + 1) % (2 * h * o)
  PROVE  e1 \in 0 .. 2 * h * o - 1 /\ OnBeat(h, e1, in1)
<1>1. PICK i \in Nat : e + in = h * (2 * i + 1)
  BY DEF OnBeat
<1>2. 2 * h * o \in Nat /\ 2 * h * o = h * (2 * o)
  BY Z3
<1>3. \A a, b \in Int : h * (2 * (a + 1) + 1) = h * (2 * a + 1) + 2 * h
                       /\ h * (2 * (a - b) + 1) = h * (2 * a + 1) - h * (2 * b)
                       /\ h * (2 * a + 1) \in Int
  BY Z3
<1>4. CASE e + 1 < 2 * h * o
  <2>1. e1 = e + 1
    BY <1>2, <1>4
  <2>2. CASE in = 1
    <3>1. e1 + in1 = h * (2 * (i + 1) + 1)
      BY <1>1, <1>3, <2>1, <2>2
    <3>2. OnBeat(h, e1, in1)
      <4>1. i + 1 \in Nat
        OBVIOUS
      <4> QED BY <3>1, <4>1 DEF OnBeat
    <3> QED BY <1>4, <2>1, <3>2
  <2>3. CASE in # 1
    <3>1. e1 + in1 = h * (2 * i + 1)
      BY <1>1, <2>1, <2>3
    <3> QED BY <1>4, <2>1, <3>1 DEF OnBeat
  <2> QED BY <2>2, <2>3
<1>5. CASE e + 1 = 2 * h * o
  <2>1. e1 = 0
    BY <1>2, <1>5
  <2>2. in # 1
    <3>1. SUFFICES ASSUME in = 1 PROVE FALSE
      OBVIOUS
    <3>2. h * (2 * i + 1) = h * (2 * o)
      BY <1>1, <1>2, <1>5, <3>1
    <3>3. \A a, b \in Nat : h * a = h * b => a = b
      BY Z3
    <3> QED BY <3>2, <3>3
  <2>3. in1 = h * (2 * (i - o) + 1)
    BY <1>1, <1>2, <1>3, <1>5, <2>2
  <2>4. i - o \in Nat
    <3>1. \A a \in Int : h * a > 0 => a > 0
      BY Z3
    <3> QED BY <2>2, <2>3, <3>1
  <2> QED BY <1>2, <1>5, <2>1, <2>3, <2>4 DEF OnBeat
<1> QED BY <1>2, <1>4, <1>5

(* Half way round is on the beat of either clock, as both half periods are *)
(* odd, ...                                                                *)
LEMMA HalfWayRises ==
  ASSUME NEW h \in Nat \ {0}, NEW o \in Nat, o % 2 = 1,
         NEW e \in Nat, NEW in \in 1 .. 2 * h, OnBeat(h, e, in), e + 1 = h * o
  PROVE  in = 1
<1>1. PICK i \in Nat : e + in = h * (2 * i + 1)
  BY DEF OnBeat
<1>2. PICK m \in Nat : o = 2 * m + 1
  BY Z3
<1>3. h * (2 * i + 1) - h * (2 * m + 1) = 2 * (h * (i - m)) /\ h * (i - m) \in Int
  BY Z3
<1>4. in - 1 = 2 * (h * (i - m))
  BY <1>1, <1>2, <1>3
<1>5. \A k \in Int : (0 <= h * k /\ h * k < h) => h * k = 0
  BY Z3
<1> QED BY <1>3, <1>4, <1>5

(* ... and no other place is on the beat of both, as they have no common   *)
(* divisor.                                                                *)
LEMMA BothRiseHalfWay ==
  ASSUME NEW p \in Nat \ {0}, NEW g \in Nat \ {0},
         NoCommonDivisor(p, g),
         NEW e \in 0 .. 2 * p * g - 1, OnBeat(p, e, 1), OnBeat(g, e, 1)
  PROVE  e + 1 = p * g
<1>1. PICK i \in Nat : e + 1 = p * (2 * i + 1)
  BY DEF OnBeat
<1>2. PICK j \in Nat : e + 1 = g * (2 * j + 1)
  BY DEF OnBeat
<1>3. PICK k \in Nat : 2 * i + 1 = g * k
  <2>1. p * (2 * i + 1) = g * (2 * j + 1) /\ 2 * i + 1 \in Nat /\ 2 * j + 1 \in Nat
    BY <1>1, <1>2
  <2>2. \A x, b \in Nat : p * x = g * b => \E k \in Nat : x = g * k
    BY CommonMultiple
  <2> QED BY <2>1, <2>2, Zenon
<1>4. k # 0 /\ k # 2
  BY <1>3
<1>5. k < 3
  <2>1. e + 1 = p * (g * k)
    BY <1>1, <1>3
  <2>2. p * (g * k) = (p * g) * k /\ 2 * p * g = (p * g) * 2 /\ p * g \in Nat \ {0}
    BY Z3
  <2>3. \A a \in Nat \ {0}, b \in Nat : a * b <= a * 2 => b <= 2
    BY Z3
  <2>4. (p * g) * k <= (p * g) * 2
    BY <2>1, <2>2
  <2> QED BY <2>2, <2>3, <2>4
<1>6. k = 1
  BY <1>4, <1>5
<1> QED BY <1>1, <1>3, <1>6

EdgesInv ==
  /\ edges \in 0 .. Both - 1
  /\ OnBeat(PACFULL + 1, edges, PacIn)
  /\ OnBeat(GHOSTFULL + 1, edges, GhostIn)

LEMMA Halves ==
  /\ PACFULL + 1 \in Nat \ {0} /\ GHOSTFULL + 1 \in Nat \ {0}
  /\ (PACFULL + 1) % 2 = 1 /\ (GHOSTFULL + 1) % 2 = 1
  /\ NoCommonDivisor(PACFULL + 1, GHOSTFULL + 1)
  /\ Both = 2 * (GHOSTFULL + 1) * (PACFULL + 1)
  /\ Both \in Nat \ {0}
<1>1. PACFULL + 1 \in Nat \ {0} /\ GHOSTFULL + 1 \in Nat \ {0}
  BY DividerAssumption
<1>2. \A a, b \in Nat \ {0} : 2 * a * b = 2 * b * a /\ 2 * a * b \in Nat \ {0}
  BY Z3
<1>3. Both = 2 * (GHOSTFULL + 1) * (PACFULL + 1) /\ Both \in Nat \ {0}
  BY <1>1, <1>2 DEF Both
<1>4. SameKind(PACFULL + 1, GHOSTFULL + 1)
  BY ScaleAssumption
<1>5. ASSUME NEW p, NEW g, SameKind(p, g) PROVE p % 2 = 1 /\ g % 2 = 1 /\ NoCommonDivisor(p, g)
  BY <1>5, Zenon DEF SameKind, NoCommonDivisor
<1> QED BY <1>1, <1>3, <1>4, <1>5, Zenon

LEMMA EdgesStart ==
  ASSUME counter = 0, clkdiv = FALSE, ghostCounter = 0, ghostClk = FALSE, edges = 0
  PROVE  EdgesInv
<1>1. PacIn = PACFULL + 1 /\ GhostIn = GHOSTFULL + 1
  BY Halves DEF PacIn, GhostIn, Until
<1>2. ASSUME NEW h \in Nat PROVE OnBeat(h, 0, h)
  <2>1. 0 + h = h * (2 * 0 + 1) /\ 0 \in Nat
    OBVIOUS
  <2> QED BY <2>1 DEF OnBeat
<1> QED BY <1>1, <1>2, Halves DEF EdgesInv

LEMMA EdgesStep ==
  ASSUME DividersTypeOK, EdgesInv, Clock
  PROVE  EdgesInv' /\ (PacRises /\ GhostRises <=> edges' = (PACFULL + 1) * (GHOSTFULL + 1))
<1> DEFINE p == PACFULL + 1
           g == GHOSTFULL + 1
<1>1. /\ PacIn \in 1 .. 2 * p
      /\ PacRises <=> PacIn = 1
      /\ PacIn' = IF PacIn = 1 THEN 2 * p ELSE PacIn - 1
      /\ GhostIn \in 1 .. 2 * g
      /\ GhostRises <=> GhostIn = 1
      /\ GhostIn' = IF GhostIn = 1 THEN 2 * g ELSE GhostIn - 1
  BY DivideStep DEF Clock
<1>2. /\ p \in Nat \ {0} /\ g \in Nat \ {0} /\ p % 2 = 1 /\ g % 2 = 1
      /\ NoCommonDivisor(p, g) /\ Both = 2 * p * g /\ Both = 2 * g * p
      /\ Both \in Nat \ {0}
  BY Halves DEF Both
<1>3. /\ edges \in 0 .. Both - 1 /\ edges' = (edges + 1) % Both
      /\ OnBeat(p, edges, PacIn) /\ OnBeat(g, edges, GhostIn)
  BY Zenon DEF EdgesInv, Clock
<1> HIDE DEF p, g
<1>4. edges' \in 0 .. Both - 1 /\ OnBeat(p, edges', PacIn')
  <2>1. edges \in 0 .. 2 * p * g - 1 /\ edges' = (edges + 1) % (2 * p * g)
    BY <1>2, <1>3
  <2>2. edges' \in 0 .. 2 * p * g - 1 /\ OnBeat(p, edges', PacIn')
    BY ONLY <1>1, <1>2, <1>3, <2>1, BeatStep
  <2> QED BY <1>2, <2>2
<1>5. OnBeat(g, edges', GhostIn')
  <2>1. edges \in 0 .. 2 * g * p - 1 /\ edges' = (edges + 1) % (2 * g * p)
    BY <1>2, <1>3
  <2> QED BY ONLY <1>1, <1>2, <1>3, <2>1, BeatStep
<1>6. ASSUME PacIn = 1, GhostIn = 1 PROVE edges' = p * g
  <2>1. edges + 1 = p * g
    <3>1. edges \in 0 .. 2 * p * g - 1 /\ OnBeat(p, edges, 1) /\ OnBeat(g, edges, 1)
      BY <1>2, <1>3, <1>6
    <3> QED BY ONLY <1>2, <3>1, BothRiseHalfWay
  <2>2. p * g \in Nat \ {0} /\ 2 * p * g = 2 * (p * g)
    BY <1>2, Z3
  <2> QED BY <1>2, <1>3, <2>1, <2>2
<1>7. ASSUME edges' = p * g PROVE PacIn = 1 /\ GhostIn = 1
  <2>1. p * g \in Nat \ {0} /\ 2 * p * g = 2 * (p * g) /\ p * g = g * p
    BY <1>2, Z3
  <2>2. edges + 1 = p * g /\ edges \in Nat
    BY <1>2, <1>3, <1>7, <2>1
  <2>3. PacIn = 1
    BY ONLY <1>1, <1>2, <1>3, <2>2, HalfWayRises
  <2>4. GhostIn = 1
    <3>1. edges + 1 = g * p
      BY <2>1, <2>2
    <3> QED BY ONLY <1>1, <1>2, <1>3, <2>2, <3>1, HalfWayRises
  <2> QED BY <2>3, <2>4
<1>8. EdgesInv'
  BY <1>4, <1>5, Zenon DEF EdgesInv, p, g
<1>9. PacIn = 1 /\ GhostIn = 1 <=> edges' = (PACFULL + 1) * (GHOSTFULL + 1)
  BY <1>6, <1>7, Zenon DEF p, g
<1> QED BY <1>1, <1>8, <1>9, Zenon

LEMMA EdgesInvariant == ClocksRun => []EdgesInv
<1>1. ClocksInit => EdgesInv
  BY EdgesStart DEF ClocksInit, DividersInit
<1>2. DividersTypeOK /\ EdgesInv /\ [Clock \/ PressReset]_clockVars => EdgesInv'
  <2>1. ASSUME PressReset PROVE EdgesInv'
    <3>1. /\ counter' = 0 /\ clkdiv' = FALSE /\ ghostCounter' = 0 /\ ghostClk' = FALSE
          /\ edges' = 0
      BY <2>1 DEF PressReset, DividersReset
    <3>2. (counter = 0 /\ clkdiv = FALSE /\ ghostCounter = 0 /\ ghostClk = FALSE /\ edges = 0
            => EdgesInv)'
      BY EdgesStart, PTL
    <3> QED BY <3>1, <3>2
  <2>2. ASSUME EdgesInv, UNCHANGED clockVars PROVE EdgesInv'
    BY <2>2 DEF clockVars, EdgesInv, PacIn, GhostIn
  <2> QED BY <2>1, <2>2, EdgesStep
<1> QED BY <1>1, <1>2, ClocksInvariant, PTL DEF ClocksRun

LEMMA RisesOnce == ClocksRun => RiseTogether
<1>1. ASSUME DividersTypeOK, EdgesInv, [Clock \/ PressReset]_clockVars
      PROVE  [(PacRises /\ GhostRises) <=> edges' = (PACFULL + 1) * (GHOSTFULL + 1)]_clockVars
  <2>1. ASSUME PressReset
        PROVE  (PacRises /\ GhostRises) <=> edges' = (PACFULL + 1) * (GHOSTFULL + 1)
    <3>1. edges' = 0 /\ ~PacRises
      BY <2>1, Zenon DEF PressReset, DividersReset, PacRises
    <3>2. (PACFULL + 1) * (GHOSTFULL + 1) # 0
      <4>1. \A a, b \in Nat \ {0} : a * b # 0
        BY Z3
      <4> QED BY <4>1, Halves
    <3> QED BY <3>1, <3>2, Zenon
  <2> QED BY <1>1, <2>1, EdgesStep
<1> QED BY <1>1, ClocksInvariant, EdgesInvariant, PTL DEF ClocksRun, RiseTogether

(* On no other edge do both clocks rise than half way round, for the       *)
(* limits of the code and all of their kind: the half periods are odd and  *)
(* have no common divisor.                                                 *)
THEOREM OnceInThirtyFiveMinutes == ClocksSpec => RiseTogether
BY RisesOnce, PTL DEF ClocksSpec, ClocksRun

-----------------------------------------------------------------------------
(* What the clocks say of the game.                                        *)

(* All that Game promises of its states and steps holds of lab8.sv with    *)
(* its dividers, whatever their limits.                                    *)
THEOREM CircuitIsSafe ==
  TimedSpec =>
    /\ [](GameTypeOK /\ PacOnTrack /\ GhostsOnTrack /\ NoDotSkipped)
    /\ [](WaitingAtHome /\ ResetClean)
    /\ OverlapOnlyWhenBothMove
    /\ NoWayBackToPen
    /\ CellSpec
BY TimedImplementsGame, TypeCorrect, PacStaysOnTrack, GhostsStayOnTrack, DotsAreEaten,
   WaitingIsSafe, ResetIsClean, HitIsSeen, NoReturnToPen, GameOnCells, PTL

NobodyOverlaps == \A g \in Ghosts : ~Overlap(ghost[g], pacX, pacY)

LEMMA ApartAfterReset == GameInv /\ resetAll => NobodyOverlaps
<1>1. SUFFICES ASSUME GameInv, resetAll, NEW g \in Ghosts
               PROVE  ~Overlap(ghost[g], pacX, pacY)
  BY DEF NobodyOverlaps
<1>2. PacHome /\ ghost[g] = HomeGhost
  BY <1>1 DEF GameInv, ResetClean
<1> QED BY <1>2, HomeGhostType, HomeGhostInPen, HomeIsSafe DEF PacHome

LEMMA SlipStep ==
  ASSUME GameInv, GameInv', TimedEdge, Slips
  PROVE  PacRises /\ GhostRises
<1>1. PICK g \in Ghosts : ~Overlap(ghost[g], pacX, pacY) /\ Overlap(ghost'[g], pacX', pacY')
  BY DEF Slips
<1>2. /\ Registers
      /\ PacRises \/ PacHolds
      /\ GhostRises \/ GhostsHold
      /\ PacEdge \/ PacHolds
      /\ GhostEdge \/ GhostsHold
  BY DEF TimedEdge
<1>3. <<pacX, pacY>> # <<pacX', pacY'>> /\ ghost[g] # ghost'[g]
  BY <1>1, <1>2, SeenOnEdge
<1>4. ~resetAll'
  <2>1. (GameInv /\ resetAll => NobodyOverlaps)'
    BY ApartAfterReset, PTL
  <2> QED BY <1>1, <2>1 DEF NobodyOverlaps
<1>5. PacHolds => <<pacX, pacY>> = <<pacX', pacY'>>
  BY <1>4 DEF PacHolds, pacVars
<1>6. GhostsHold => ghost[g] = ghost'[g]
  BY <1>4 DEF GhostsHold
<1> QED BY <1>2, <1>3, <1>5, <1>6

LEMMA SlipNeedsBoth == TimedSpec => [][Slips => PacRises /\ GhostRises]_timedVars
<1>1. ASSUME GameInv, GameInv', [TimedEdge \/ TimedReset]_timedVars
      PROVE  [Slips => PacRises /\ GhostRises]_timedVars
  <2>1. ASSUME TimedReset PROVE ~Slips
    <3>1. \A g \in Ghosts : ghost'[g] = HomeGhost
      BY <2>1 DEF TimedReset, PushReset, GhostReset
    <3>2. PacHome'
      BY <2>1, ResetTypes DEF TimedReset, PushReset
    <3> QED BY <3>1, <3>2, HomeGhostType, HomeGhostInPen, HomeIsSafe DEF PacHome, Slips
  <2> QED BY <1>1, <2>1, SlipStep
<1>2. GameSpec => []GameInv
  BY GameInvInit, GameInvStep, PTL DEF GameSpec
<1> QED BY <1>1, <1>2, TimedImplementsGame, PTL DEF TimedSpec

LEMMA TimedRunsClocks == TimedSpec => ClocksRun
<1>1. TimedInit => ClocksInit
  BY DEF TimedInit
<1>2. [TimedEdge \/ TimedReset]_timedVars => [Clock \/ PressReset]_clockVars
  BY DEF TimedEdge, TimedReset, timedVars
<1> QED BY <1>1, <1>2, PTL DEF TimedSpec, ClocksRun

(* hitPacman misses no contact but on the one edge in Both, for every maze *)
(* and all limits of the dividers of the code's kind.                      *)
THEOREM MissesAreRare == TimedSpec => SlipsOnceInBoth
<1>1. ASSUME [Slips => PacRises /\ GhostRises]_timedVars,
             [(PacRises /\ GhostRises) <=> edges' = (PACFULL + 1) * (GHOSTFULL + 1)]_clockVars
      PROVE  [Slips => edges' = (PACFULL + 1) * (GHOSTFULL + 1)]_timedVars
  <2>1. UNCHANGED timedVars => ~Slips
    BY DEF timedVars, gameVars, pacVars, Slips
  <2>2. UNCHANGED clockVars => ~PacRises
    BY Zenon DEF clockVars, PacRises
  <2> QED BY <1>1, <2>1, <2>2
<1> QED BY <1>1, SlipNeedsBoth, TimedRunsClocks, RisesOnce, PTL DEF RiseTogether, SlipsOnceInBoth
=============================================================================
