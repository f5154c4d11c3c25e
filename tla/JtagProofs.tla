------------------------------- MODULE JtagProofs -------------------------------
(***************************************************************************)
(* Theorems about the driver of the JTAG UART: for every size of its rings *)
(* and of the FIFOs, every threshold, and however the interrupt falls      *)
(* between the steps of write and read.                                    *)
(***************************************************************************)
EXTENDS JtagProperties, SequenceTheorems, TLAPS

-----------------------------------------------------------------------------
(* The ring.                                                               *)

LEMMA Wraps ==
  ASSUME NEW x \in 0 .. 2 * BufLen - 1
  PROVE  Wrap(x) = IF x < BufLen THEN x ELSE x - BufLen
BY JtagUartAssumption DEF Wrap

(* What a ring holds is less than its size.                                *)
LEMMA UsedType ==
  ASSUME NEW i \in Slots, NEW o \in Slots
  PROVE  Used(i, o) \in 0 .. BufLen - 1
BY JtagUartAssumption DEF Used, Slots

(* Putting k more in.                                                      *)
LEMMA UsedPut ==
  ASSUME NEW i \in Slots, NEW o \in Slots, NEW k \in Nat, Used(i, o) + k <= BufLen - 1
  PROVE  Wrap(i + k) \in Slots /\ Used(Wrap(i + k), o) = Used(i, o) + k
<1>1. BufLen \in Nat /\ i \in 0 .. BufLen - 1 /\ o \in 0 .. BufLen - 1
  BY JtagUartAssumption DEF Slots
<1>2. Used(i, o) = IF i >= o THEN i - o ELSE BufLen - o + i
  BY DEF Used
<1>3. i + k \in 0 .. 2 * BufLen - 1
  BY <1>1, <1>2
<1>4. Wrap(i + k) = IF i + k < BufLen THEN i + k ELSE i + k - BufLen
  BY <1>1, <1>3, Wraps
<1> QED BY <1>1, <1>2, <1>4 DEF Used, Slots

(* Taking k out.                                                           *)
LEMMA UsedTake ==
  ASSUME NEW i \in Slots, NEW o \in Slots, NEW k \in Nat, k <= Used(i, o)
  PROVE  Wrap(o + k) \in Slots /\ Used(i, Wrap(o + k)) = Used(i, o) - k
<1>1. BufLen \in Nat /\ i \in 0 .. BufLen - 1 /\ o \in 0 .. BufLen - 1
  BY JtagUartAssumption DEF Slots
<1>2. Used(i, o) = IF i >= o THEN i - o ELSE BufLen - o + i
  BY DEF Used
<1>3. o + k \in 0 .. 2 * BufLen - 1
  BY <1>1, <1>2
<1>4. Wrap(o + k) = IF o + k < BufLen THEN o + k ELSE o + k - BufLen
  BY <1>1, <1>3, Wraps
<1> QED BY <1>1, <1>2, <1>4 DEF Used, Slots

(* The j-th character after k have been taken out.                         *)
LEMMA WrapTwice ==
  ASSUME NEW o \in Slots, NEW k \in Nat, NEW j \in Nat, k + j < BufLen
  PROVE  Wrap(Wrap(o + k) + j) = Wrap(o + (k + j))
<1>1. BufLen \in Nat /\ o \in 0 .. BufLen - 1
  BY JtagUartAssumption DEF Slots
<1>2. Wrap(o + k) = IF o + k < BufLen THEN o + k ELSE o + k - BufLen
  BY <1>1, Wraps
<1>3. Wrap(o + (k + j)) = IF o + (k + j) < BufLen THEN o + (k + j) ELSE o + (k + j) - BufLen
  BY <1>1, Wraps
<1>4. CASE o + k < BufLen
  <2>1. Wrap(o + k) = o + k /\ (o + k) + j = o + (k + j)
    BY <1>1, <1>2, <1>4
  <2> QED BY <2>1
<1>5. CASE o + k >= BufLen
  <2>1. Wrap(o + k) + j \in 0 .. 2 * BufLen - 1 /\ Wrap(o + k) + j < BufLen
    BY <1>1, <1>2, <1>5
  <2>2. Wrap(Wrap(o + k) + j) = Wrap(o + k) + j
    BY <2>1, Wraps
  <2> QED BY <1>1, <1>2, <1>3, <1>5, <2>2
<1> QED BY <1>1, <1>4, <1>5

(* Where the contents of the ring are, seen from in: the j-th of them      *)
(* comes BufLen - Used later, the j-th free slot at once.                  *)
LEMMA FromIn ==
  ASSUME NEW i \in Slots, NEW o \in Slots, NEW j \in Nat, j < BufLen
  PROVE  /\ Wrap(o + j) \in Slots
         /\ Used(Wrap(o + j), i) = IF j >= Used(i, o) THEN j - Used(i, o)
                                                      ELSE BufLen + j - Used(i, o)
<1>1. BufLen \in Nat /\ i \in 0 .. BufLen - 1 /\ o \in 0 .. BufLen - 1
  BY JtagUartAssumption DEF Slots
<1>2. Wrap(o + j) = IF o + j < BufLen THEN o + j ELSE o + j - BufLen
  BY <1>1, Wraps
<1>3. Used(i, o) = IF i >= o THEN i - o ELSE BufLen - o + i
  BY DEF Used
<1> QED BY <1>1, <1>2, <1>3 DEF Used, Slots

(* write finds room that is free and in one piece.                         *)
LEMMA RoomIsFree ==
  ASSUME NEW i \in Slots, NEW o \in Slots
  PROVE  /\ RoomBehind(i, o) \in Nat
         /\ Used(i, o) + RoomBehind(i, o) <= BufLen - 1 /\ i + RoomBehind(i, o) <= BufLen
BY JtagUartAssumption DEF RoomBehind, Used, Slots

(* Characters that are copied into the room do not touch the contents.     *)
LEMMA RoomIsApart ==
  ASSUME NEW i \in Slots, NEW o \in Slots, NEW k \in Nat,
         Used(i, o) + k <= BufLen - 1, i + k <= BufLen,
         NEW j \in Nat, j < Used(i, o)
  PROVE  Wrap(o + j) \notin i .. i + k - 1
<1>1. BufLen \in Nat /\ i \in 0 .. BufLen - 1 /\ o \in 0 .. BufLen - 1
  BY JtagUartAssumption DEF Slots
<1>2. Used(i, o) = IF i >= o THEN i - o ELSE BufLen - o + i
  BY DEF Used
<1>3. Wrap(o + j) = IF o + j < BufLen THEN o + j ELSE o + j - BufLen
  BY <1>1, <1>2, Wraps
<1> QED BY <1>1, <1>2, <1>3

(* The k characters that are copied are the next of the contents.          *)
LEMMA RoomIsNext ==
  ASSUME NEW i \in Slots, NEW o \in Slots, NEW k \in Nat,
         Used(i, o) + k <= BufLen - 1, i + k <= BufLen,
         NEW j \in Nat, j >= Used(i, o), j < Used(i, o) + k
  PROVE  Wrap(o + j) = i + (j - Used(i, o))
<1>1. BufLen \in Nat /\ i \in 0 .. BufLen - 1 /\ o \in 0 .. BufLen - 1
  BY JtagUartAssumption DEF Slots
<1>2. Used(i, o) = IF i >= o THEN i - o ELSE BufLen - o + i
  BY DEF Used
<1>3. Wrap(o + j) = IF o + j < BufLen THEN o + j ELSE o + j - BufLen
  BY <1>1, <1>2, Wraps
<1> QED BY <1>1, <1>2, <1>3

(* A function on the first k numbers is a sequence.                        *)
LEMMA FunctionIsSeq ==
  ASSUME NEW S, NEW k \in Nat, NEW f \in [1 .. k -> S]
  PROVE  f \in Seq(S) /\ Len(f) = k
OBVIOUS

-----------------------------------------------------------------------------
(* Sequences of consecutive numbers: the first of s comes after a.         *)
Numbered(s, a) == \A i \in 1 .. Len(s) : s[i] = a + i

LEMMA NumberedTail ==
  ASSUME NEW N \in Nat, NEW a \in Nat, NEW s \in Seq(1 .. N), s # <<>>, Numbered(s, a)
  PROVE  /\ Head(s) = a + 1 /\ Head(s) \in 1 .. N
         /\ Tail(s) \in Seq(1 .. N) /\ Len(Tail(s)) = Len(s) - 1 /\ Len(s) > 0
         /\ Numbered(Tail(s), a + 1)
<1>1. /\ Head(s) \in 1 .. N /\ Tail(s) \in Seq(1 .. N) /\ Len(Tail(s)) = Len(s) - 1
      /\ \A i \in 1 .. Len(Tail(s)) : Tail(s)[i] = s[i + 1]
  BY HeadTailProperties, Zenon
<1>2. Len(s) \in Nat \ {0}
  BY EmptySeq, Zenon
<1>3. Head(s) = s[1]
  OBVIOUS
<1> QED BY <1>1, <1>2, <1>3 DEF Numbered

LEMMA NumberedAppend ==
  ASSUME NEW N \in Nat, NEW a \in Nat, NEW s \in Seq(1 .. N), Numbered(s, a),
         a + Len(s) + 1 <= N
  PROVE  /\ Append(s, a + Len(s) + 1) \in Seq(1 .. N)
         /\ Len(Append(s, a + Len(s) + 1)) = Len(s) + 1
         /\ Numbered(Append(s, a + Len(s) + 1), a)
<1> DEFINE e == a + Len(s) + 1
<1>1. Len(s) \in Nat
  BY LenProperties
<1>2. e \in 1 .. N
  BY <1>1
<1> HIDE DEF e
<1>3. /\ Append(s, e) \in Seq(1 .. N) /\ Len(Append(s, e)) = Len(s) + 1
      /\ \A i \in 1 .. Len(s) : Append(s, e)[i] = s[i]
      /\ Append(s, e)[Len(s) + 1] = e
  BY <1>2, AppendProperties
<1>4. Numbered(Append(s, e), a)
  BY <1>1, <1>3 DEF Numbered, e
<1> QED BY <1>3, <1>4 DEF e

LEMMA NumberedConcat ==
  ASSUME NEW N \in Nat, NEW a \in Nat, NEW s \in Seq(1 .. N), Numbered(s, a),
         NEW k \in Nat, a + Len(s) + k <= N, NEW f,
         f = [i \in 1 .. k |-> f[i]], \A i \in 1 .. k : f[i] = a + Len(s) + i
  PROVE  s \o f \in Seq(1 .. N) /\ Len(s \o f) = Len(s) + k /\ Numbered(s \o f, a)
<1>1. Len(s) \in Nat
  BY LenProperties
<1>2. \A i \in 1 .. k : f[i] \in 1 .. N
  BY <1>1
<1>3. f \in [1 .. k -> 1 .. N]
  BY <1>2
<1>4. f \in Seq(1 .. N) /\ Len(f) = k
  BY <1>3, FunctionIsSeq
<1>5. /\ s \o f \in Seq(1 .. N) /\ Len(s \o f) = Len(s) + Len(f)
      /\ \A i \in 1 .. Len(s) + Len(f) : (s \o f)[i] = IF i <= Len(s) THEN s[i] ELSE f[i - Len(s)]
  BY <1>4, ConcatProperties, ZenonT(60)
<1>6. ASSUME NEW i \in 1 .. Len(s \o f)
      PROVE  (s \o f)[i] = a + i
  <2>1. i \in 1 .. Len(s) + k
    BY <1>4, <1>5
  <2>2. (s \o f)[i] = IF i <= Len(s) THEN s[i] ELSE f[i - Len(s)]
    BY <1>4, <1>5, <2>1
  <2>3. CASE i <= Len(s)
    BY <1>1, <2>1, <2>2, <2>3 DEF Numbered
  <2>4. CASE ~(i <= Len(s))
    <3>1. i - Len(s) \in 1 .. k
      BY <1>1, <2>1, <2>4
    <3> QED BY <1>1, <2>1, <2>2, <2>4, <3>1
  <2> QED BY <2>3, <2>4
<1> QED BY <1>4, <1>5, <1>6 DEF Numbered

LEMMA NumberedRest ==
  ASSUME NEW N \in Nat, NEW a \in Nat, NEW s \in Seq(1 .. N), Numbered(s, a),
         NEW k \in 0 .. Len(s)
  PROVE  /\ SubSeq(s, k + 1, Len(s)) \in Seq(1 .. N)
         /\ Len(SubSeq(s, k + 1, Len(s))) = Len(s) - k
         /\ Numbered(SubSeq(s, k + 1, Len(s)), a + k)
<1>1. Len(s) \in Nat
  BY LenProperties
<1>2. \A i \in k + 1 .. Len(s) : s[i] \in 1 .. N
  BY <1>1, ElementOfSeq
<1>3. k + 1 \in Int /\ Len(s) \in Int
  BY <1>1
<1> DEFINE t == SubSeq(s, k + 1, Len(s))
<1>4. /\ t \in Seq(1 .. N)
      /\ Len(t) = IF k + 1 <= Len(s) THEN Len(s) - (k + 1) + 1 ELSE 0
      /\ \A i \in 1 .. Len(s) - (k + 1) + 1 : t[i] = s[k + 1 + i - 1]
  BY <1>2, <1>3, SubSeqProperties
<1> HIDE DEF t
<1>5. Len(t) = Len(s) - k
  BY <1>1, <1>4
<1>6. ASSUME NEW i \in 1 .. Len(t)
      PROVE  t[i] = a + k + i
  <2>1. i \in 1 .. Len(s) - (k + 1) + 1 /\ k + 1 + i - 1 \in 1 .. Len(s) /\ k + 1 + i - 1 = k + i
    BY <1>1, <1>5
  <2> QED BY <1>4, <2>1 DEF Numbered
<1> QED BY <1>4, <1>5, <1>6 DEF Numbered, t

-----------------------------------------------------------------------------
(* The contents of a ring: the first character comes after a.              *)
Holds(buf, i, o, a) == \A j \in 0 .. Used(i, o) - 1 : buf[Wrap(o + j)] = a + 1 + j

LEMMA HoldsTaken ==
  ASSUME NEW i \in Slots, NEW o \in Slots, NEW a \in Nat, NEW buf, Holds(buf, i, o, a),
         NEW k \in 0 .. Used(i, o)
  PROVE  Holds(buf, i, Wrap(o + k), a + k)
<1>1. Used(i, o) \in 0 .. BufLen - 1 /\ BufLen \in Nat /\ k \in Nat
  BY UsedType, JtagUartAssumption
<1>2. Used(i, Wrap(o + k)) = Used(i, o) - k
  BY <1>1, UsedTake
<1>3. ASSUME NEW j \in 0 .. Used(i, Wrap(o + k)) - 1
      PROVE  buf[Wrap(Wrap(o + k) + j)] = a + k + 1 + j
  <2>1. j \in Nat /\ k + j \in 0 .. Used(i, o) - 1 /\ k + j < BufLen
    BY <1>1, <1>2
  <2>2. Wrap(Wrap(o + k) + j) = Wrap(o + (k + j))
    BY <1>1, <2>1, WrapTwice
  <2>3. buf[Wrap(o + (k + j))] = a + 1 + (k + j)
    BY <2>1 DEF Holds
  <2> QED BY <1>1, <2>1, <2>2, <2>3
<1> QED BY <1>3 DEF Holds

(* Characters that are copied behind the contents leave them alone.        *)
LEMMA HoldsFilled ==
  ASSUME NEW i \in Slots, NEW o \in Slots, NEW a \in Nat, NEW buf, Holds(buf, i, o, a),
         NEW k \in Nat, Used(i, o) + k <= BufLen - 1, i + k <= BufLen,
         NEW new, \A x \in Slots : x \notin i .. i + k - 1 => new[x] = buf[x]
  PROVE  Holds(new, i, o, a)
<1>1. Used(i, o) \in 0 .. BufLen - 1 /\ BufLen \in Nat
  BY UsedType, JtagUartAssumption
<1>2. ASSUME NEW j \in 0 .. Used(i, o) - 1
      PROVE  new[Wrap(o + j)] = a + 1 + j
  <2>1. j \in Nat /\ j < Used(i, o) /\ j < BufLen
    BY <1>1
  <2>2. Wrap(o + j) \in Slots
    BY <2>1, FromIn
  <2>3. Wrap(o + j) \notin i .. i + k - 1
    BY <2>1, RoomIsApart
  <2> QED BY <2>2, <2>3 DEF Holds
<1> QED BY <1>2 DEF Holds

(* When in moves past them they are its contents too.                      *)
LEMMA HoldsPublished ==
  ASSUME NEW i \in Slots, NEW o \in Slots, NEW a \in Nat, NEW buf, Holds(buf, i, o, a),
         NEW k \in Nat, Used(i, o) + k <= BufLen - 1, i + k <= BufLen,
         \A j \in 0 .. k - 1 : buf[i + j] = a + Used(i, o) + 1 + j
  PROVE  Holds(buf, Wrap(i + k), o, a)
<1>1. Used(i, o) \in 0 .. BufLen - 1 /\ BufLen \in Nat
  BY UsedType, JtagUartAssumption
<1>2. Used(Wrap(i + k), o) = Used(i, o) + k
  BY UsedPut
<1>3. ASSUME NEW j \in 0 .. Used(Wrap(i + k), o) - 1
      PROVE  buf[Wrap(o + j)] = a + 1 + j
  <2>1. CASE j < Used(i, o)
    BY <1>1, <1>2, <2>1 DEF Holds
  <2>2. CASE j >= Used(i, o)
    <3>1. j \in Nat /\ j < Used(i, o) + k /\ j - Used(i, o) \in 0 .. k - 1
      BY <1>1, <1>2, <2>2
    <3>2. Wrap(o + j) = i + (j - Used(i, o))
      BY <2>2, <3>1, RoomIsNext
    <3>3. buf[i + (j - Used(i, o))] = a + Used(i, o) + 1 + (j - Used(i, o))
      BY <3>1
    <3> QED BY <1>1, <3>1, <3>2, <3>3
  <2> QED BY <1>1, <2>1, <2>2
<1> QED BY <1>3 DEF Holds

(* What the interrupt moves into a ring comes behind its contents.         *)
LEMMA HoldsReceived ==
  ASSUME NEW i \in Slots, NEW o \in Slots, NEW a \in Nat, NEW buf, Holds(buf, i, o, a),
         NEW k \in Nat, Used(i, o) + k <= BufLen - 1,
         NEW f, \A j \in 1 .. k : f[j] = a + Used(i, o) + j,
         NEW new, \A x \in Slots : new[x] = IF Used(x, i) < k THEN f[Used(x, i) + 1] ELSE buf[x]
  PROVE  Holds(new, Wrap(i + k), o, a)
<1>1. Used(i, o) \in 0 .. BufLen - 1 /\ BufLen \in Nat
  BY UsedType, JtagUartAssumption
<1>2. Used(Wrap(i + k), o) = Used(i, o) + k
  BY UsedPut
<1>3. ASSUME NEW j \in 0 .. Used(Wrap(i + k), o) - 1
      PROVE  new[Wrap(o + j)] = a + 1 + j
  <2>1. j \in Nat /\ j < BufLen /\ j < Used(i, o) + k
    BY <1>1, <1>2
  <2>2. /\ Wrap(o + j) \in Slots
        /\ Used(Wrap(o + j), i) = IF j >= Used(i, o) THEN j - Used(i, o)
                                                     ELSE BufLen + j - Used(i, o)
    BY <2>1, FromIn
  <2>3. CASE j < Used(i, o)
    <3>1. ~(Used(Wrap(o + j), i) < k)
      BY <1>1, <2>1, <2>2, <2>3
    <3>2. buf[Wrap(o + j)] = a + 1 + j
      BY <1>1, <2>1, <2>3 DEF Holds
    <3> QED BY <2>2, <3>1, <3>2
  <2>4. CASE j >= Used(i, o)
    <3>1. Used(Wrap(o + j), i) = j - Used(i, o) /\ j - Used(i, o) < k
      BY <1>1, <2>1, <2>2, <2>4
    <3>2. new[Wrap(o + j)] = f[j - Used(i, o) + 1]
      BY <2>2, <3>1
    <3>3. j - Used(i, o) + 1 \in 1 .. k
      BY <1>1, <2>1, <2>4
    <3>4. f[j - Used(i, o) + 1] = a + Used(i, o) + (j - Used(i, o) + 1)
      BY <3>3
    <3> QED BY <1>1, <2>1, <3>2, <3>4
  <2> QED BY <1>1, <2>1, <2>3, <2>4
<1> QED BY <1>3 DEF Holds

-----------------------------------------------------------------------------
(* The invariant, in parts.  The rings, the FIFOs and what has passed      *)
(* through them: written characters are in the ring, in the FIFO or shown. *)

TxLine ==
  /\ tx_in \in Slots /\ tx_out \in Slots /\ tx_buf \in [Slots -> 0 .. Printed]
  /\ wfifo \in Seq(1 .. Printed) /\ Len(wfifo) <= FifoDepth
  /\ shown \in Seq(1 .. Printed)
  /\ written = Len(shown) + Len(wfifo) + Used(tx_in, tx_out) /\ written \in 0 .. Printed
  /\ Numbered(wfifo, Len(shown))
  /\ Holds(tx_buf, tx_in, tx_out, Len(shown) + Len(wfifo))

(* Characters read by the program but still in the ring.                   *)
Copied == IF pc = "release" THEN m ELSE 0

RxLine ==
  /\ rx_in \in Slots /\ rx_out \in Slots /\ rx_buf \in [Slots -> 0 .. Typed]
  /\ rfifo \in Seq(1 .. Typed) /\ Len(rfifo) <= FifoDepth
  /\ got \in Seq(1 .. Typed) /\ Numbered(got, 0) /\ Copied \in 0 .. Len(got)
  /\ typed = Len(got) - Copied + Used(rx_in, rx_out) + Len(rfifo) /\ typed \in 0 .. Typed
  /\ Numbered(rfifo, typed - Len(rfifo))
  /\ Holds(rx_buf, rx_in, rx_out, Len(got) - Copied)

(* The driver's own variables, and what write and read rely on between     *)
(* their steps: the interrupt only ever makes more room for the one and    *)
(* brings more to the other.                                               *)
CallInv ==
  /\ pc \in {"idle", "room", "fill", "publish", "kick", "spin", "judge",
             "look", "take", "release", "listen", "enable", "drain"}
  /\ count \in Nat /\ done \in Nat
  /\ in \in Slots /\ out \in Slots /\ m \in 0 .. BufLen

WritePlan ==
  /\ pc \in {"room", "fill", "kick", "spin", "judge"} => written + count <= Printed
  /\ pc = "publish" => written + m + count <= Printed
  /\ pc \in {"fill", "publish"} =>
       in = tx_in /\ m > 0 /\ Used(tx_in, tx_out) + m <= BufLen - 1 /\ in + m <= BufLen
  /\ pc = "fill" => m <= count
  /\ pc = "publish" => \A j \in 0 .. m - 1 : tx_buf[in + j] = written + 1 + j

ReadPlan ==
  /\ pc \in {"take", "release"} =>
       out = rx_out /\ m > 0 /\ m <= Used(rx_in, rx_out) /\ out + m <= BufLen
  /\ pc = "take" => m <= count
  /\ pc = "release" => done > 0

(* Seconds are counted no further than two below the largest number.       *)
TimeInv == host_inactive \in 0 .. IntMax - 2 /\ timeout \in 1 .. IntMax

FlagInv ==
  /\ irq_enable \subseteq {"RE", "WE"}
  /\ block \in BOOLEAN /\ active \in BOOLEAN /\ connected \in BOOLEAN
  /\ answer \in Answers

JtagInv ==
  /\ TxLine /\ RxLine /\ CallInv /\ WritePlan /\ ReadPlan /\ TimeInv /\ FlagInv
  /\ SomeoneSends /\ SomeoneReceives

LEMMA SmallerOfTwo ==
  ASSUME NEW a \in Nat, NEW b \in Nat
  PROVE  /\ Smaller(a, b) \in Nat /\ Smaller(a, b) <= a /\ Smaller(a, b) <= b
         /\ Smaller(a, b) = a \/ Smaller(a, b) = b
BY DEF Smaller

LEMMA SmallerUpTo ==
  ASSUME NEW n \in Nat, NEW a \in 0 .. n, NEW b \in Nat
  PROVE  Smaller(a, b) \in 0 .. n
BY DEF Smaller

-----------------------------------------------------------------------------
(* What is written keeps its place.                                        *)

LEMMA FillKeepsTx ==
  ASSUME JtagInv, Fill
  PROVE  TxLine'
<1>1. /\ TxLine /\ in = tx_in /\ m \in Nat /\ m <= count /\ written + count <= Printed
      /\ Used(tx_in, tx_out) + m <= BufLen - 1 /\ in + m <= BufLen /\ count \in Nat
  BY DEF Fill, JtagInv, WritePlan, CallInv
<1>2. /\ tx_buf' = [i \in Slots |-> IF i \in in .. in + m - 1 THEN written + 1 + i - in
                                    ELSE tx_buf[i]]
      /\ UNCHANGED <<tx_in, tx_out, wfifo, written, shown>>
  BY DEF Fill, streamVars
<1>3. written \in 0 .. Printed /\ Printed \in Nat /\ BufLen \in Nat /\ in \in 0 .. BufLen - 1
  BY <1>1, JtagUartAssumption DEF TxLine, Slots
<1>4. ASSUME NEW i \in Slots
      PROVE  tx_buf'[i] \in 0 .. Printed
  <2>1. CASE i \in in .. in + m - 1
    <3>1. written + 1 + i - in \in 0 .. Printed
      BY <1>1, <1>3, <2>1
    <3> QED BY <1>2, <2>1, <3>1
  <2>2. CASE i \notin in .. in + m - 1
    BY <1>1, <1>2, <2>2 DEF TxLine
  <2> QED BY <2>1, <2>2
<1>5. tx_buf' \in [Slots -> 0 .. Printed]
  BY <1>2, <1>4
<1>6. \A x \in Slots : x \notin tx_in .. tx_in + m - 1 => tx_buf'[x] = tx_buf[x]
  BY <1>1, <1>2
<1>7. Len(shown) + Len(wfifo) \in Nat
  BY <1>1, LenProperties DEF TxLine
<1>8. Holds(tx_buf', tx_in, tx_out, Len(shown) + Len(wfifo))
  BY <1>1, <1>6, <1>7, HoldsFilled DEF TxLine
<1> QED BY <1>1, <1>2, <1>5, <1>8 DEF TxLine

LEMMA PublishKeepsTx ==
  ASSUME JtagInv, Publish
  PROVE  TxLine'
<1>1. /\ TxLine /\ in = tx_in /\ m \in Nat /\ written + m + count <= Printed /\ count \in Nat
      /\ Used(tx_in, tx_out) + m <= BufLen - 1 /\ in + m <= BufLen
      /\ \A j \in 0 .. m - 1 : tx_buf[in + j] = written + 1 + j
  BY DEF Publish, JtagInv, WritePlan, CallInv
<1>2. /\ tx_in' = Wrap(in + m) /\ written' = written + m
      /\ UNCHANGED <<tx_buf, tx_out, wfifo, shown>>
  BY DEF Publish
<1>3. Len(shown) \in Nat /\ Len(wfifo) \in Nat /\ tx_in \in Slots /\ tx_out \in Slots
  BY <1>1, LenProperties DEF TxLine
<1>4. Used(tx_in, tx_out) \in Nat
  BY <1>3, UsedType
<1>5. tx_in' \in Slots /\ Used(tx_in', tx_out) = Used(tx_in, tx_out) + m
  BY <1>1, <1>2, <1>3, UsedPut
<1> DEFINE a == Len(shown) + Len(wfifo)
<1>6. a \in Nat /\ written = a + Used(tx_in, tx_out) /\ Holds(tx_buf, tx_in, tx_out, a)
  BY <1>1, <1>3 DEF TxLine
<1> HIDE DEF a
<1>7. \A j \in 0 .. m - 1 : tx_buf[tx_in + j] = a + Used(tx_in, tx_out) + 1 + j
  BY <1>1, <1>6
<1>8. Holds(tx_buf, Wrap(tx_in + m), tx_out, a)
  BY <1>1, <1>3, <1>6, <1>7, HoldsPublished
<1>9. written' = Len(shown) + Len(wfifo) + Used(tx_in', tx_out)
  BY <1>1, <1>2, <1>3, <1>4, <1>5, <1>6 DEF a
<1>10. written \in Nat /\ Printed \in Nat
  BY <1>1, JtagUartAssumption DEF TxLine
<1>11. written' \in 0 .. Printed
  BY <1>1, <1>2, <1>10
<1> QED BY <1>1, <1>2, <1>5, <1>8, <1>9, <1>11 DEF TxLine, a

LEMMA TransmitKeepsTx ==
  ASSUME TxLine, UNCHANGED <<written, shown>>, NEW k \in Nat,
         k <= Used(tx_in, tx_out), Len(wfifo) + k <= FifoDepth, Transmit(k)
  PROVE  TxLine'
<1>1. /\ wfifo' = wfifo \o [i \in 1 .. k |-> tx_buf[Wrap(tx_out + i - 1)]]
      /\ tx_out' = Wrap(tx_out + k) /\ UNCHANGED <<tx_in, tx_buf, written, shown>>
  BY DEF Transmit
<1>2. Len(shown) \in Nat /\ Len(wfifo) \in Nat /\ tx_in \in Slots /\ tx_out \in Slots
  BY LenProperties DEF TxLine
<1>3. Used(tx_in, tx_out) \in 0 .. BufLen - 1 /\ BufLen \in Nat /\ tx_out \in Nat
  BY <1>2, UsedType, JtagUartAssumption DEF Slots
<1>4. tx_out' \in Slots /\ Used(tx_in, tx_out') = Used(tx_in, tx_out) - k
  BY <1>1, <1>2, UsedTake
<1> DEFINE a == Len(shown) + Len(wfifo)
           f == [i \in 1 .. k |-> tx_buf[Wrap(tx_out + i - 1)]]
<1>5. a \in Nat /\ written = a + Used(tx_in, tx_out) /\ Holds(tx_buf, tx_in, tx_out, a)
  BY <1>2 DEF TxLine
<1>6. ASSUME NEW i \in 1 .. k
      PROVE  f[i] = Len(shown) + Len(wfifo) + i
  <2>1. i - 1 \in 0 .. Used(tx_in, tx_out) - 1 /\ tx_out + i - 1 = tx_out + (i - 1)
    BY <1>3
  <2>2. tx_buf[Wrap(tx_out + (i - 1))] = a + 1 + (i - 1)
    BY <1>5, <2>1 DEF Holds
  <2> QED BY <1>2, <2>1, <2>2
<1>7. f = [i \in 1 .. k |-> f[i]]
  OBVIOUS
<1>8. Len(shown) + Len(wfifo) + k <= Printed /\ Printed \in Nat
  <2>1. written \in 0 .. Printed
    BY DEF TxLine
  <2> QED BY <1>2, <1>3, <1>5, <2>1, JtagUartAssumption
<1> HIDE DEF f
<1>9. wfifo \o f \in Seq(1 .. Printed) /\ Len(wfifo \o f) = Len(wfifo) + k
      /\ Numbered(wfifo \o f, Len(shown))
  <2>1. wfifo \in Seq(1 .. Printed) /\ Numbered(wfifo, Len(shown))
    BY DEF TxLine
  <2> QED BY <1>2, <1>6, <1>7, <1>8, <2>1, NumberedConcat, ZenonT(60)
<1>10. Holds(tx_buf, tx_in, Wrap(tx_out + k), a + k)
  BY <1>2, <1>3, <1>5, HoldsTaken
<1>11. wfifo' = wfifo \o f
  BY <1>1 DEF f
<1>12. Len(shown) + Len(wfifo') = a + k
  <2>1. Len(wfifo') = Len(wfifo) + k
    BY <1>9, <1>11
  <2> QED BY <1>2, <2>1
<1>13. Holds(tx_buf, tx_in, tx_out', Len(shown) + Len(wfifo'))
  BY <1>1, <1>10, <1>12
<1>14. written = Len(shown) + Len(wfifo') + Used(tx_in, tx_out')
  BY <1>2, <1>3, <1>4, <1>5, <1>12
<1>15. Len(wfifo') <= FifoDepth
  BY <1>9, <1>11
<1> QED BY <1>1, <1>4, <1>9, <1>11, <1>13, <1>14, <1>15 DEF TxLine

LEMMA ShowKeepsTx ==
  ASSUME TxLine, Show
  PROVE  TxLine' /\ shown' = Append(shown, Len(shown) + 1)
<1>1. /\ wfifo # <<>> /\ shown' = Append(shown, Head(wfifo)) /\ wfifo' = Tail(wfifo)
      /\ UNCHANGED <<tx_in, tx_out, tx_buf, written>>
  BY DEF Show
<1>2. Len(shown) \in Nat /\ Len(wfifo) \in Nat /\ Printed \in Nat /\ FifoDepth \in Nat
      /\ Used(tx_in, tx_out) \in Nat
  BY LenProperties, UsedType, JtagUartAssumption DEF TxLine
<1>3. /\ Head(wfifo) = Len(shown) + 1 /\ Head(wfifo) \in 1 .. Printed
      /\ Tail(wfifo) \in Seq(1 .. Printed) /\ Len(Tail(wfifo)) = Len(wfifo) - 1 /\ Len(wfifo) > 0
      /\ Numbered(Tail(wfifo), Len(shown) + 1)
  BY <1>1, <1>2, NumberedTail DEF TxLine
<1>4. shown' \in Seq(1 .. Printed) /\ Len(shown') = Len(shown) + 1
  BY <1>1, <1>3, AppendProperties DEF TxLine
<1>5. Len(shown') + Len(wfifo') = Len(shown) + Len(wfifo)
  BY <1>1, <1>2, <1>3, <1>4
<1>6. written' = Len(shown') + Len(wfifo') + Used(tx_in', tx_out')
  BY <1>1, <1>5 DEF TxLine
<1>7. Holds(tx_buf', tx_in', tx_out', Len(shown') + Len(wfifo'))
  BY <1>1, <1>5 DEF TxLine
<1>8. Len(wfifo') <= FifoDepth /\ wfifo' \in Seq(1 .. Printed) /\ Numbered(wfifo', Len(shown'))
  BY <1>1, <1>2, <1>3, <1>4 DEF TxLine
<1> QED BY <1>1, <1>3, <1>4, <1>6, <1>7, <1>8 DEF TxLine

-----------------------------------------------------------------------------
(* What is typed keeps its place.                                          *)

LEMMA RxNumbers ==
  ASSUME RxLine
  PROVE  /\ Len(got) \in Nat /\ Len(rfifo) \in Nat /\ Copied \in 0 .. Len(got)
         /\ Used(rx_in, rx_out) \in 0 .. BufLen - 1 /\ BufLen \in Nat /\ Typed \in Nat
         /\ rx_in \in Slots /\ rx_out \in Slots
         /\ typed \in Nat /\ FifoDepth \in Nat /\ Len(rfifo) <= FifoDepth
         /\ Len(got) - Copied \in Nat /\ typed - Len(rfifo) \in Nat
         /\ typed - Len(rfifo) = Len(got) - Copied + Used(rx_in, rx_out)
<1>1. Len(got) \in Nat /\ Len(rfifo) \in Nat /\ rx_in \in Slots /\ rx_out \in Slots
  BY LenProperties DEF RxLine
<1>2. Used(rx_in, rx_out) \in 0 .. BufLen - 1
  BY <1>1, UsedType
<1>3. Copied \in 0 .. Len(got) /\ typed = Len(got) - Copied + Used(rx_in, rx_out) + Len(rfifo)
  BY DEF RxLine
<1>4. BufLen \in Nat /\ Typed \in Nat /\ FifoDepth \in Nat /\ Len(rfifo) <= FifoDepth
  BY JtagUartAssumption DEF RxLine
<1> QED BY <1>1, <1>2, <1>3, <1>4

LEMMA ReceiveKeepsRx ==
  ASSUME RxLine, UNCHANGED <<typed, got, Copied>>,
         NEW k \in Nat, k <= Free, k <= Len(rfifo), Receive(k)
  PROVE  RxLine'
<1>1. /\ rx_buf' = [i \in Slots |-> IF Used(i, rx_in) < k THEN rfifo[Used(i, rx_in) + 1]
                                    ELSE rx_buf[i]]
      /\ rx_in' = Wrap(rx_in + k) /\ rfifo' = SubSeq(rfifo, k + 1, Len(rfifo))
      /\ UNCHANGED <<rx_out, typed, got, Copied>>
  BY DEF Receive
<1> DEFINE a == Len(got) - Copied
<1>2. /\ Len(got) \in Nat /\ Len(rfifo) \in Nat /\ rx_in \in Slots /\ rx_out \in Slots
      /\ Used(rx_in, rx_out) \in 0 .. BufLen - 1 /\ BufLen \in Nat /\ Typed \in Nat
      /\ a \in Nat /\ typed - Len(rfifo) \in Nat
      /\ typed - Len(rfifo) = a + Used(rx_in, rx_out)
  BY RxNumbers
<1>3. Holds(rx_buf, rx_in, rx_out, a) /\ Numbered(rfifo, typed - Len(rfifo))
  BY DEF RxLine
<1> HIDE DEF a
<1>4. Used(rx_in, rx_out) + k <= BufLen - 1
  BY <1>2 DEF Free
<1>5. rx_in' \in Slots /\ Used(rx_in', rx_out) = Used(rx_in, rx_out) + k
  BY <1>1, <1>2, <1>4, UsedPut
<1>6. \A j \in 1 .. k : rfifo[j] = a + Used(rx_in, rx_out) + j
  BY <1>2, <1>3 DEF Numbered
<1>7. \A x \in Slots : rx_buf'[x] = IF Used(x, rx_in) < k THEN rfifo[Used(x, rx_in) + 1]
                                    ELSE rx_buf[x]
  BY <1>1
<1>8. Holds(rx_buf', Wrap(rx_in + k), rx_out, a)
  BY <1>2, <1>3, <1>4, <1>6, <1>7, HoldsReceived
<1>9. ASSUME NEW x \in Slots
      PROVE  rx_buf'[x] \in 0 .. Typed
  <2>1. CASE Used(x, rx_in) < k
    <3>1. Used(x, rx_in) \in Nat
      BY <1>2, UsedType
    <3>2. Used(x, rx_in) + 1 \in 1 .. Len(rfifo)
      BY <1>2, <2>1, <3>1
    <3>3. rfifo[Used(x, rx_in) + 1] \in 1 .. Typed
      BY <3>2, ElementOfSeq DEF RxLine
    <3> QED BY <1>7, <2>1, <3>3
  <2>2. CASE ~(Used(x, rx_in) < k)
    BY <1>7, <2>2 DEF RxLine
  <2> QED BY <2>1, <2>2
<1>10. rx_buf' \in [Slots -> 0 .. Typed]
  BY <1>1, <1>9
<1>11. /\ rfifo' \in Seq(1 .. Typed) /\ Len(rfifo') = Len(rfifo) - k
       /\ Numbered(rfifo', typed - Len(rfifo) + k)
  <2>1. k \in 0 .. Len(rfifo) /\ rfifo \in Seq(1 .. Typed)
    BY <1>2 DEF RxLine
  <2> QED BY <1>1, <1>2, <1>3, <2>1, NumberedRest
<1>12. typed \in Nat /\ FifoDepth \in Nat /\ Len(rfifo) <= FifoDepth
  BY RxNumbers
<1>13. typed - Len(rfifo') = typed - Len(rfifo) + k /\ Len(rfifo') <= FifoDepth
  BY <1>2, <1>11, <1>12
<1>14. typed = a + Used(rx_in', rx_out) + Len(rfifo')
  <2>1. Used(rx_in', rx_out) = Used(rx_in, rx_out) + k
    BY <1>5
  <2>2. Len(rfifo') = Len(rfifo) - k
    BY <1>11
  <2>3. typed = a + Used(rx_in, rx_out) + Len(rfifo)
    BY <1>2, <1>12
  <2> QED BY <1>2, <2>1, <2>2, <2>3, SMTT(60)
<1> QED BY <1>1, <1>2, <1>5, <1>8, <1>10, <1>11, <1>13, <1>14 DEF RxLine, a

LEMMA TypeKeepsRx ==
  ASSUME RxLine, Type
  PROVE  RxLine'
<1>1. /\ typed < Typed /\ Len(rfifo) < FifoDepth
      /\ typed' = typed + 1 /\ rfifo' = Append(rfifo, typed + 1)
      /\ UNCHANGED <<rx_in, rx_out, rx_buf, got, pc, m>>
  BY DEF Type, callVars
<1>2. /\ Len(got) \in Nat /\ Len(rfifo) \in Nat /\ Typed \in Nat /\ FifoDepth \in Nat
      /\ typed - Len(rfifo) \in Nat /\ typed \in Nat
      /\ Used(rx_in, rx_out) \in Nat /\ Copied \in Nat
      /\ typed - Len(rfifo) = Len(got) - Copied + Used(rx_in, rx_out)
  BY RxNumbers
<1> DEFINE a == typed - Len(rfifo)
<1>3. a \in Nat /\ a + Len(rfifo) + 1 = typed + 1 /\ a + Len(rfifo) + 1 <= Typed
  BY <1>1, <1>2
<1>4. rfifo \in Seq(1 .. Typed) /\ Numbered(rfifo, a)
  BY DEF RxLine
<1> HIDE DEF a
<1>5. /\ Append(rfifo, a + Len(rfifo) + 1) \in Seq(1 .. Typed)
      /\ Len(Append(rfifo, a + Len(rfifo) + 1)) = Len(rfifo) + 1
      /\ Numbered(Append(rfifo, a + Len(rfifo) + 1), a)
  BY <1>2, <1>3, <1>4, NumberedAppend
<1>6. rfifo' \in Seq(1 .. Typed) /\ Len(rfifo') = Len(rfifo) + 1 /\ Numbered(rfifo', a)
  BY <1>1, <1>3, <1>5
<1>7. typed' - Len(rfifo') = a /\ Len(rfifo') <= FifoDepth /\ typed' \in 0 .. Typed
  BY <1>1, <1>2, <1>6 DEF a
<1>8. Copied' = Copied
  BY <1>1 DEF Copied
<1>9. typed' = Len(got') - Copied' + Used(rx_in', rx_out') + Len(rfifo')
  BY <1>1, <1>2, <1>6, <1>8
<1> QED BY <1>1, <1>6, <1>7, <1>8, <1>9 DEF RxLine

LEMMA TakeKeepsRx ==
  ASSUME JtagInv, Take
  PROVE  /\ RxLine'
         /\ m \in 1 .. typed - Len(got)
         /\ got' = got \o [i \in 1 .. m |-> Len(got) + i]
<1>1. /\ RxLine /\ out = rx_out /\ m \in Nat /\ m > 0 /\ m <= Used(rx_in, rx_out)
      /\ out + m <= BufLen
  BY DEF Take, JtagInv, ReadPlan, CallInv
<1>2. /\ pc = "take" /\ pc' = "release" /\ m' = m
      /\ got' = got \o [i \in 1 .. m |-> rx_buf[out + i - 1]]
      /\ UNCHANGED <<rx_in, rx_out, rx_buf, rfifo, typed>>
  BY DEF Take, rxVars
<1>3. Copied = 0 /\ Copied' = m
  BY <1>2 DEF Copied
<1>4. /\ Len(got) \in Nat /\ Len(rfifo) \in Nat /\ rx_in \in Slots /\ rx_out \in Slots
      /\ Used(rx_in, rx_out) \in 0 .. BufLen - 1 /\ BufLen \in Nat /\ Typed \in Nat
      /\ typed - Len(rfifo) = Len(got) - Copied + Used(rx_in, rx_out)
  BY <1>1, RxNumbers
<1>5. rx_out \in 0 .. BufLen - 1 /\ typed \in 0 .. Typed
  BY <1>1, <1>4 DEF Slots, RxLine
<1>6. Len(got) + m <= Typed /\ m \in 1 .. typed - Len(got)
  BY <1>1, <1>3, <1>4, <1>5
<1>7. ASSUME NEW i \in 1 .. m
      PROVE  rx_buf[out + i - 1] = Len(got) + i
  <2>1. out + i - 1 \in 0 .. 2 * BufLen - 1 /\ out + i - 1 < BufLen /\ out + i - 1 = rx_out + (i - 1)
    BY <1>1, <1>4, <1>5
  <2>2. Wrap(rx_out + (i - 1)) = out + i - 1
    BY <2>1, Wraps
  <2>3. i - 1 \in 0 .. Used(rx_in, rx_out) - 1
    BY <1>1, <1>4
  <2>4. rx_buf[Wrap(rx_out + (i - 1))] = Len(got) - Copied + 1 + (i - 1)
    BY <1>1, <2>3 DEF RxLine, Holds
  <2> QED BY <1>3, <1>4, <2>2, <2>4
<1> DEFINE f == [i \in 1 .. m |-> Len(got) + i]
<1>8. got' = got \o f
  BY <1>2, <1>7
<1>9. f = [i \in 1 .. m |-> f[i]] /\ \A i \in 1 .. m : f[i] = 0 + Len(got) + i
  BY <1>4
<1>10. 0 + Len(got) + m <= Typed /\ got \in Seq(1 .. Typed) /\ Numbered(got, 0)
  BY <1>1, <1>4, <1>6 DEF RxLine
<1> HIDE DEF f
<1>11. got \o f \in Seq(1 .. Typed) /\ Len(got \o f) = Len(got) + m /\ Numbered(got \o f, 0)
  BY <1>1, <1>4, <1>9, <1>10, NumberedConcat
<1>12. got' \in Seq(1 .. Typed) /\ Len(got') = Len(got) + m /\ Numbered(got', 0)
  BY <1>8, <1>11
<1>13. Len(got') - Copied' = Len(got) - Copied /\ Copied' \in 0 .. Len(got')
  BY <1>1, <1>3, <1>4, <1>12
<1>14. RxLine'
  BY <1>1, <1>2, <1>12, <1>13 DEF RxLine
<1> QED BY <1>6, <1>8, <1>14 DEF f

LEMMA ReleaseKeepsRx ==
  ASSUME JtagInv, Release
  PROVE  RxLine'
<1>1. /\ RxLine /\ out = rx_out /\ m \in Nat /\ m <= Used(rx_in, rx_out)
  BY DEF Release, JtagInv, ReadPlan, CallInv
<1>2. /\ pc = "release" /\ pc' = "look" /\ rx_out' = Wrap(out + m)
      /\ UNCHANGED <<rx_in, rx_buf, rfifo, typed, got>>
  BY DEF Release, streamVars
<1>3. Copied = m /\ Copied' = 0
  BY <1>2 DEF Copied
<1>4. /\ Len(got) \in Nat /\ Len(rfifo) \in Nat /\ rx_in \in Slots /\ rx_out \in Slots
      /\ Used(rx_in, rx_out) \in 0 .. BufLen - 1 /\ BufLen \in Nat
      /\ Len(got) - Copied \in Nat
  BY <1>1, RxNumbers
<1> DEFINE a == Len(got) - Copied
<1>5. a \in Nat /\ Holds(rx_buf, rx_in, rx_out, a) /\ a + m = Len(got) - Copied'
  BY <1>1, <1>3, <1>4 DEF RxLine
<1> HIDE DEF a
<1>6. Holds(rx_buf, rx_in, Wrap(rx_out + m), a + m)
  BY <1>1, <1>4, <1>5, HoldsTaken
<1>7. rx_out' \in Slots /\ Used(rx_in, rx_out') = Used(rx_in, rx_out) - m
  BY <1>1, <1>2, <1>4, UsedTake
<1>8. Holds(rx_buf', rx_in', rx_out', Len(got') - Copied')
  BY <1>1, <1>2, <1>5, <1>6
<1>9. typed' = Len(got') - Copied' + Used(rx_in', rx_out') + Len(rfifo')
  BY <1>1, <1>2, <1>3, <1>4, <1>7 DEF RxLine
<1>10. Copied' \in 0 .. Len(got')
  BY <1>2, <1>3, <1>4
<1> QED BY <1>1, <1>2, <1>7, <1>8, <1>9, <1>10 DEF RxLine

-----------------------------------------------------------------------------
(* The interrupt, a direction at a time: it fills what there is to fill,   *)
(* or goes off.                                                            *)

LEMMA InterruptReceives ==
  ASSUME RxLine, Interrupt
  PROVE  \/ UNCHANGED <<rx_in, rx_out, rx_buf, rfifo>> /\ ("RE" \in irq_enable => "RE" \in irq_enable')
         \/ \E k \in Nat : /\ k <= Free /\ k <= Len(rfifo) /\ Receive(k)
                           /\ k = Free \/ "RE" \in irq_enable'
<1> DEFINE r == Smaller(Free, Len(rfifo))
<1>1. Free \in Nat /\ Len(rfifo) \in Nat
  <2>1. Len(rfifo) \in Nat /\ Used(rx_in, rx_out) \in 0 .. BufLen - 1 /\ BufLen \in Nat
    BY RxNumbers
  <2> QED BY <2>1 DEF Free
<1>2. r \in Nat /\ r <= Free /\ r <= Len(rfifo) /\ (r = Free \/ r = Len(rfifo))
  BY <1>1, SmallerOfTwo
<1> HIDE DEF r
<1>3. CASE ReadPending
  <2>1. Receive(r)
    BY <1>3 DEF Interrupt, r
  <2>2. "RE" \in irq_enable' \/ r < Len(rfifo)
    BY <1>3 DEF Interrupt, ReadPending, r
  <2>3. r = Free \/ "RE" \in irq_enable'
    BY <1>1, <1>2, <2>2
  <2> QED BY <1>2, <2>1, <2>3
<1>4. CASE ~ReadPending
  <2>1. UNCHANGED rxVars
    BY <1>4 DEF Interrupt
  <2>2. "RE" \in irq_enable => "RE" \in irq_enable'
    BY <1>4 DEF Interrupt
  <2> QED BY <2>1, <2>2 DEF rxVars
<1> QED BY <1>3, <1>4

LEMMA InterruptTransmits ==
  ASSUME TxLine, Interrupt
  PROVE  \/ UNCHANGED <<tx_in, tx_out, tx_buf, wfifo>> /\ ("WE" \in irq_enable => "WE" \in irq_enable')
         \/ \E k \in Nat : /\ k <= Used(tx_in, tx_out) /\ Len(wfifo) + k <= FifoDepth /\ Transmit(k)
                           /\ k = Used(tx_in, tx_out) \/ "WE" \in irq_enable'
<1> DEFINE space == FifoDepth - Len(wfifo)
           w == Smaller(space, Used(tx_in, tx_out))
<1>1. space \in Nat /\ Len(wfifo) \in Nat /\ FifoDepth \in Nat
  BY LenProperties, JtagUartAssumption DEF TxLine
<1>2. Used(tx_in, tx_out) \in Nat
  BY UsedType DEF TxLine
<1> HIDE DEF space
<1>3. /\ w \in Nat /\ w <= space /\ w <= Used(tx_in, tx_out)
      /\ w = space \/ w = Used(tx_in, tx_out)
  BY <1>1, <1>2, SmallerOfTwo
<1> HIDE DEF w
<1>4. CASE WritePending
  <2>1. Transmit(w)
    BY <1>4 DEF Interrupt, w, space
  <2>2. "WE" \in irq_enable' \/ w < space
    BY <1>4 DEF Interrupt, WritePending, w, space
  <2>3. w = Used(tx_in, tx_out) \/ "WE" \in irq_enable'
    BY <1>1, <1>2, <1>3, <2>2
  <2>4. Len(wfifo) + w <= FifoDepth
    BY <1>1, <1>3 DEF space
  <2> QED BY <1>3, <2>1, <2>3, <2>4
<1>5. CASE ~WritePending
  <2>1. UNCHANGED txVars
    BY <1>5 DEF Interrupt
  <2>2. "WE" \in irq_enable => "WE" \in irq_enable'
    BY <1>5 DEF Interrupt
  <2> QED BY <2>1, <2>2 DEF txVars
<1> QED BY <1>4, <1>5

-----------------------------------------------------------------------------
(* A step of the driver, the host or the clock keeps the contents.         *)

LEMMA TxStep ==
  ASSUME JtagInv, [JtagNext]_jtagVars
  PROVE  TxLine'
<1> USE DEF txVars, streamVars, jtagVars
<1>1. TxLine
  BY DEF JtagInv
<1>2. ASSUME UNCHANGED <<tx_in, tx_out, tx_buf, wfifo, written, shown>>
      PROVE  TxLine'
  BY <1>1, <1>2 DEF TxLine
<1>3. CASE UNCHANGED jtagVars
  BY <1>2, <1>3
<1>4. CASE Fill
  BY <1>4, FillKeepsTx
<1>5. CASE Publish
  BY <1>5, PublishKeepsTx
<1>6. CASE Interrupt
  <2>1. UNCHANGED <<written, shown>>
    BY <1>6 DEF Interrupt
  <2> QED BY <1>1, <1>2, <1>6, <2>1, InterruptTransmits, TransmitKeepsTx
<1>7. CASE Show
  BY <1>1, <1>7, ShowKeepsTx
<1>8. CASE Room \/ NothingLeft \/ Kick \/ Spin \/ Judge
  BY <1>2, <1>8 DEF Room, NothingLeft, Kick, Spin, Judge
<1>9. CASE Look \/ NoRoomLeft \/ Take \/ Release \/ Listen \/ Enable \/ Drained
  BY <1>2, <1>9 DEF Look, NoRoomLeft, Take, Release, Listen, Enable, Drained
<1>10. CASE Request
  BY <1>2, <1>10 DEF Request, Write, Read, Close, SetTimeout, Call
<1>11. CASE Second \/ Type \/ Ask \/ ComeOrGo
  BY <1>2, <1>11 DEF Second, Type, Ask, ComeOrGo
<1> QED BY <1>3, <1>4, <1>5, <1>6, <1>7, <1>8, <1>9, <1>10, <1>11 DEF JtagNext, Working

LEMMA RxStep ==
  ASSUME JtagInv, [JtagNext]_jtagVars
  PROVE  RxLine'
<1> USE DEF rxVars, streamVars, callVars, jtagVars
<1>1. RxLine
  BY DEF JtagInv
<1>2. ASSUME UNCHANGED <<rx_in, rx_out, rx_buf, rfifo, typed, got, Copied>>
      PROVE  RxLine'
  BY <1>1, <1>2 DEF RxLine
<1>3. CASE UNCHANGED jtagVars
  BY <1>2, <1>3 DEF Copied
<1>4. CASE Take
  BY <1>4, TakeKeepsRx
<1>5. CASE Release
  BY <1>5, ReleaseKeepsRx
<1>6. CASE Interrupt
  <2>1. UNCHANGED <<typed, got, pc, m>>
    BY <1>6 DEF Interrupt
  <2>2. UNCHANGED <<typed, got, Copied>>
    BY <2>1 DEF Copied
  <2> QED BY <1>1, <1>2, <1>6, <2>2, InterruptReceives, ReceiveKeepsRx
<1>7. CASE Type
  BY <1>1, <1>7, TypeKeepsRx
<1>8. CASE Room \/ NothingLeft \/ Fill \/ Publish \/ Kick \/ Spin \/ Judge
  <2>1. pc # "release" /\ pc' # "release"
    BY <1>8 DEF Room, NothingLeft, Fill, Publish, Kick, Spin, Judge, Return
  <2>2. UNCHANGED <<rx_in, rx_out, rx_buf, rfifo, typed, got>>
    BY <1>8 DEF Room, NothingLeft, Fill, Publish, Kick, Spin, Judge
  <2> QED BY <1>2, <2>1, <2>2 DEF Copied
<1>9. CASE Look \/ NoRoomLeft \/ Listen \/ Enable \/ Drained
  <2>1. pc # "release" /\ pc' # "release"
    BY <1>9 DEF Look, NoRoomLeft, Listen, Enable, Drained, Return
  <2>2. UNCHANGED <<rx_in, rx_out, rx_buf, rfifo, typed, got>>
    BY <1>9 DEF Look, NoRoomLeft, Listen, Enable, Drained
  <2> QED BY <1>2, <2>1, <2>2 DEF Copied
<1>10. CASE Request
  <2>1. pc # "release" /\ pc' # "release"
    BY <1>10 DEF Request, Write, Read, Close, SetTimeout, Call
  <2>2. UNCHANGED <<rx_in, rx_out, rx_buf, rfifo, typed, got>>
    BY <1>10 DEF Request, Write, Read, Close, SetTimeout, Call
  <2> QED BY <1>2, <2>1, <2>2 DEF Copied
<1>11. CASE Second \/ Show \/ Ask \/ ComeOrGo
  BY <1>2, <1>11 DEF Second, Show, Ask, ComeOrGo, Copied
<1> QED BY <1>3, <1>4, <1>5, <1>6, <1>7, <1>8, <1>9, <1>10, <1>11 DEF JtagNext, Working

-----------------------------------------------------------------------------
(* The driver's own variables.                                             *)

LEMMA Sizes ==
  ASSUME JtagInv
  PROVE  /\ tx_in \in Slots /\ tx_out \in Slots /\ rx_in \in Slots /\ rx_out \in Slots
         /\ Used(tx_in, tx_out) \in 0 .. BufLen - 1 /\ Used(rx_in, rx_out) \in 0 .. BufLen - 1
         /\ written \in Nat /\ Printed \in Nat /\ BufLen \in Nat /\ BufLen > 0 /\ 0 \in Slots
         /\ Slots = 0 .. BufLen - 1
<1>1. /\ tx_in \in Slots /\ tx_out \in Slots /\ rx_in \in Slots /\ rx_out \in Slots
      /\ written \in 0 .. Printed
  BY DEF JtagInv, TxLine, RxLine
<1>2. Used(tx_in, tx_out) \in 0 .. BufLen - 1 /\ Used(rx_in, rx_out) \in 0 .. BufLen - 1
  BY <1>1, UsedType
<1> QED BY <1>1, <1>2, JtagUartAssumption DEF Slots

LEMMA CountIsNat ==
  ASSUME JtagInv
  PROVE  count \in Nat
  BY DEF JtagInv, CallInv

LEMMA CallStep ==
  ASSUME JtagInv, [JtagNext]_jtagVars
  PROVE  CallInv'
<1> USE DEF callVars, jtagVars
<1>1. CallInv
  BY DEF JtagInv
<1>2. ASSUME UNCHANGED <<pc, count, done, in, out, m>>
      PROVE  CallInv'
  BY <1>1, <1>2 DEF CallInv, Slots
<1>3. ASSUME UNCHANGED <<count, done, in, out, m>>,
             pc' \in {"idle", "room", "fill", "publish", "kick", "spin", "judge",
                      "look", "take", "release", "listen", "enable", "drain"}
      PROVE  CallInv'
  BY <1>1, <1>3 DEF CallInv, Slots
<1>4. ASSUME NEW code, Return(code)
      PROVE  CallInv'
  BY <1>4, Sizes DEF CallInv, Slots, Return
<1>5. CASE Room
  <2>1. RoomBehind(tx_in, tx_out) \in 0 .. BufLen
    <3>1. /\ RoomBehind(tx_in, tx_out) \in Nat
          /\ Used(tx_in, tx_out) + RoomBehind(tx_in, tx_out) <= BufLen - 1
      BY Sizes, RoomIsFree
    <3> QED BY <3>1, Sizes
  <2>2. Smaller(RoomBehind(tx_in, tx_out), count) \in 0 .. BufLen
    BY <2>1, Sizes, CountIsNat, SmallerUpTo
  <2> QED BY <1>1, <1>5, <2>2, Sizes DEF Room, CallInv, Slots
<1>6. CASE Look
  <2> DEFINE n == IF rx_in >= rx_out THEN rx_in - rx_out ELSE BufLen - rx_out
  <2>1. n \in 0 .. BufLen
    BY Sizes
  <2> HIDE DEF n
  <2>2. Smaller(n, count) \in 0 .. BufLen
    BY <2>1, Sizes, CountIsNat, SmallerUpTo
  <2>3. m' = Smaller(n, count) /\ in' = rx_in /\ out' = rx_out
        /\ pc' \in {"take", "listen", "enable"} /\ UNCHANGED <<count, done>>
    BY <1>6 DEF Look, n
  <2> QED BY <1>1, <2>2, <2>3, Sizes DEF CallInv, Slots
<1>7. CASE Fill
  <2>1. m \in Nat /\ m <= count
    BY <1>1, <1>7 DEF Fill, JtagInv, WritePlan, CallInv
  <2>2. count - m \in Nat /\ done + m \in Nat
    BY <1>1, <2>1 DEF CallInv
  <2> QED BY <1>1, <1>7, <2>2 DEF Fill, CallInv, Slots
<1>8. CASE Take
  <2>1. m \in Nat /\ m <= count
    BY <1>1, <1>8 DEF Take, JtagInv, ReadPlan, CallInv
  <2>2. count - m \in Nat /\ done + m \in Nat
    BY <1>1, <2>1 DEF CallInv
  <2> QED BY <1>1, <1>8, <2>2 DEF Take, CallInv, Slots
<1>9. CASE Kick
  BY <1>3, <1>4, <1>9 DEF Kick
<1>10. CASE Judge
  BY <1>3, <1>4, <1>10 DEF Judge
<1>11. CASE Enable
  BY <1>4, <1>11 DEF Enable
<1>12. CASE Drained
  BY <1>4, <1>12 DEF Drained
<1>13. CASE NothingLeft \/ Publish \/ Spin \/ NoRoomLeft \/ Release \/ Listen
  BY <1>3, <1>13 DEF NothingLeft, Publish, Spin, NoRoomLeft, Release, Listen
<1>14. CASE Request
  <2>1. ASSUME NEW label \in {"room", "look", "drain"}, NEW c \in Nat, NEW b, Call(label, c, b)
        PROVE  CallInv'
    BY <1>1, <2>1 DEF Call, CallInv, Slots
  <2>2. \A c \in Calls : c \in Nat
    BY JtagUartAssumption
  <2>3. ASSUME NEW c \in Calls, NEW b \in BOOLEAN, Write(c, b) \/ Read(c, b)
        PROVE  CallInv'
    BY <2>1, <2>2, <2>3 DEF Write, Read
  <2>4. ASSUME NEW b \in BOOLEAN, Close(b)
        PROVE  CallInv'
    BY <2>1, <2>4 DEF Close
  <2>5. ASSUME NEW t, SetTimeout(t)
        PROVE  CallInv'
    BY <1>2, <2>5 DEF SetTimeout
  <2> QED BY <1>14, <2>3, <2>4, <2>5 DEF Request
<1>15. CASE Interrupt \/ Second \/ Show \/ Type \/ Ask \/ ComeOrGo
  BY <1>2, <1>15 DEF Interrupt, Second, Show, Type, Ask, ComeOrGo
<1>16. CASE UNCHANGED jtagVars
  BY <1>2, <1>16
<1> QED BY <1>5, <1>6, <1>7, <1>8, <1>9, <1>10, <1>11, <1>12, <1>13, <1>14, <1>15, <1>16
        DEF JtagNext, Working

LEMMA TimeStep ==
  ASSUME JtagInv, [JtagNext]_jtagVars
  PROVE  TimeInv'
<1> USE DEF timeVars, jtagVars
<1>1. TimeInv /\ IntMax \in Nat /\ IntMax >= 2
  BY JtagUartAssumption DEF JtagInv
<1>2. ASSUME UNCHANGED <<host_inactive, timeout>>
      PROVE  TimeInv'
  BY <1>1, <1>2 DEF TimeInv
<1>3. CASE Room \/ NothingLeft \/ Fill \/ Publish \/ Kick \/ Spin \/ Judge
  BY <1>2, <1>3 DEF Room, NothingLeft, Fill, Publish, Kick, Spin, Judge
<1>4. CASE Look \/ NoRoomLeft \/ Take \/ Release \/ Listen \/ Enable \/ Drained
  BY <1>2, <1>4 DEF Look, NoRoomLeft, Take, Release, Listen, Enable, Drained
<1>5. CASE Interrupt \/ Show \/ Type \/ Ask \/ ComeOrGo
  BY <1>2, <1>5 DEF Interrupt, Show, Type, Ask, ComeOrGo
<1>6. CASE Second
  <2>1. /\ UNCHANGED timeout
        /\ \/ host_inactive' = 0
           \/ (host_inactive < IntMax - 2 /\ host_inactive' = host_inactive + 1)
           \/ UNCHANGED host_inactive
    BY <1>6 DEF Second
  <2> QED BY <1>1, <2>1 DEF TimeInv
<1>7. CASE Request
  <2>1. ASSUME NEW t \in 1 .. IntMax, SetTimeout(t)
        PROVE  TimeInv'
    <3>1. timeout' \in 1 .. IntMax /\ UNCHANGED host_inactive
      BY <1>1, <2>1 DEF SetTimeout
    <3> QED BY <1>1, <3>1 DEF TimeInv
  <2>2. ASSUME NEW label, NEW c, NEW b, Call(label, c, b)
        PROVE  TimeInv'
    BY <1>2, <2>2 DEF Call
  <2> QED BY <1>7, <2>1, <2>2 DEF Request, Write, Read, Close
<1>8. CASE UNCHANGED jtagVars
  BY <1>2, <1>8
<1> QED BY <1>3, <1>4, <1>5, <1>6, <1>7, <1>8 DEF JtagNext, Working

LEMMA FlagStep ==
  ASSUME JtagInv, [JtagNext]_jtagVars
  PROVE  FlagInv'
<1> USE DEF timeVars, callVars, jtagVars, Answers
<1>1. FlagInv
  BY DEF JtagInv
<1>2. ASSUME UNCHANGED <<irq_enable, block, active, connected, answer>>
      PROVE  FlagInv'
  BY <1>1, <1>2 DEF FlagInv
<1>3. ASSUME NEW code \in Answers, Return(code), UNCHANGED <<active, connected>>,
             irq_enable' \subseteq {"RE", "WE"}
      PROVE  FlagInv'
  BY <1>1, <1>3, Zenon DEF FlagInv, Return
<1>4. Outcome \in Answers
  BY DEF Outcome
<1>5. irq_enable \subseteq {"RE", "WE"}
  BY <1>1 DEF FlagInv
<1>6. CASE Kick
  <2>1. irq_enable' \subseteq {"RE", "WE"} /\ UNCHANGED <<active, connected>>
    BY <1>5, <1>6 DEF Kick
  <2>2. UNCHANGED <<block, answer>> \/ Return(Outcome)
    BY <1>6 DEF Kick
  <2>3. CASE UNCHANGED <<block, answer>>
    BY <1>1, <2>1, <2>3 DEF FlagInv
  <2> QED BY <1>3, <1>4, <2>1, <2>2, <2>3
<1>7. CASE Enable
  <2>1. irq_enable' \subseteq {"RE", "WE"} /\ UNCHANGED <<active, connected>> /\ Return(Outcome)
    BY <1>5, <1>7 DEF Enable
  <2> QED BY <1>3, <1>4, <2>1
<1>8. CASE Judge
  <2>1. UNCHANGED <<irq_enable, active, connected>> /\ (UNCHANGED <<block, answer>> \/ Return(Outcome))
    BY <1>8 DEF Judge
  <2> QED BY <1>2, <1>3, <1>4, <1>5, <2>1
<1>9. CASE Drained
  <2>1. UNCHANGED <<irq_enable, active, connected>> /\ (Return("closed") \/ Return("would block"))
    BY <1>9 DEF Drained
  <2> QED BY <1>3, <1>5, <2>1
<1>10. CASE Interrupt
  <2>1. irq_enable' \subseteq irq_enable
    BY <1>10 DEF Interrupt
  <2>2. UNCHANGED <<block, active, connected, answer>>
    BY <1>10 DEF Interrupt
  <2> QED BY <1>1, <2>1, <2>2 DEF FlagInv
<1>11. CASE Second \/ Show \/ Type \/ Ask
  <2>1. /\ active' \in BOOLEAN
        /\ UNCHANGED <<irq_enable, block, connected, answer>>
    BY <1>11 DEF Second, Show, Type, Ask
  <2> QED BY <1>1, <2>1 DEF FlagInv
<1>12. CASE ComeOrGo
  <2>1. connected' = ~connected /\ UNCHANGED <<irq_enable, block, active, answer>>
    BY <1>12 DEF ComeOrGo
  <2> QED BY <1>1, <2>1 DEF FlagInv
<1>13. CASE Room \/ NothingLeft \/ Fill \/ Publish \/ Spin
  BY <1>2, <1>13 DEF Room, NothingLeft, Fill, Publish, Spin
<1>14. CASE Look \/ NoRoomLeft \/ Take \/ Release \/ Listen
  BY <1>2, <1>14 DEF Look, NoRoomLeft, Take, Release, Listen
<1>15. CASE Request
  <2>1. ASSUME NEW label, NEW c, NEW b \in BOOLEAN, Call(label, c, b)
        PROVE  FlagInv'
    BY <1>1, <2>1, Zenon DEF Call, FlagInv
  <2>2. ASSUME NEW t, SetTimeout(t)
        PROVE  FlagInv'
    BY <1>2, <2>2 DEF SetTimeout
  <2> QED BY <1>15, <2>1, <2>2 DEF Request, Write, Read, Close
<1>16. CASE UNCHANGED jtagVars
  BY <1>2, <1>16
<1> QED BY <1>6, <1>7, <1>8, <1>9, <1>10, <1>11, <1>12, <1>13, <1>14, <1>15, <1>16
        DEF JtagNext, Working

-----------------------------------------------------------------------------
(* The interrupt does not upset what write and read are about.             *)

LEMMA WriteStep ==
  ASSUME JtagInv, [JtagNext]_jtagVars
  PROVE  WritePlan'
<1> USE DEF txVars, callVars, streamVars, jtagVars
<1>1. WritePlan /\ count \in Nat /\ m \in Nat
  BY DEF JtagInv, CallInv
<1>2. ASSUME UNCHANGED <<pc, count, in, m, tx_in, tx_out, tx_buf, written>>
      PROVE  WritePlan'
  BY <1>1, <1>2 DEF WritePlan
<1>3. ASSUME pc' \notin {"room", "fill", "publish", "kick", "spin", "judge"}
      PROVE  WritePlan'
  BY <1>3 DEF WritePlan
<1>4. ASSUME pc' \in {"room", "kick", "spin", "judge"}, written' + count' <= Printed
      PROVE  WritePlan'
  BY <1>4 DEF WritePlan
<1>5. CASE Room
  <2> DEFINE r == RoomBehind(tx_in, tx_out)
  <2>1. pc = "room" /\ written + count <= Printed
    BY <1>1, <1>5 DEF Room, WritePlan
  <2>2. r \in Nat /\ Used(tx_in, tx_out) + r <= BufLen - 1 /\ tx_in + r <= BufLen
    BY Sizes, RoomIsFree
  <2>3. /\ in' = tx_in /\ m' = Smaller(r, count) /\ pc' = IF m' = 0 THEN "kick" ELSE "fill"
        /\ UNCHANGED <<count, tx_in, tx_out, written>>
    BY <1>5 DEF Room
  <2> HIDE DEF r
  <2>4. m' \in Nat /\ m' <= r /\ m' <= count
    BY <1>1, <2>2, <2>3, SmallerOfTwo
  <2>5. Used(tx_in, tx_out) + m' <= BufLen - 1 /\ in' + m' <= BufLen
    <3>1. tx_in \in Nat /\ Used(tx_in, tx_out) \in Nat /\ BufLen \in Nat
      BY Sizes
    <3> QED BY <2>2, <2>3, <2>4, <3>1
  <2>6. CASE m' = 0
    BY <1>4, <2>1, <2>3, <2>6
  <2>7. CASE m' # 0
    BY <2>1, <2>3, <2>4, <2>5, <2>7 DEF WritePlan
  <2> QED BY <2>6, <2>7
<1>6. CASE Fill
  <2>1. /\ pc = "fill" /\ written + count <= Printed /\ in = tx_in /\ m > 0 /\ m <= count
        /\ Used(tx_in, tx_out) + m <= BufLen - 1 /\ in + m <= BufLen
    BY <1>1, <1>6 DEF Fill, WritePlan
  <2>2. /\ tx_buf' = [i \in Slots |-> IF i \in in .. in + m - 1 THEN written + 1 + i - in
                                      ELSE tx_buf[i]]
        /\ count' = count - m /\ pc' = "publish"
        /\ UNCHANGED <<in, m, tx_in, tx_out, written>>
    BY <1>6 DEF Fill
  <2>3. written + m + count' <= Printed
    BY <1>1, <2>1, <2>2, Sizes
  <2>4. ASSUME NEW j \in 0 .. m - 1
        PROVE  tx_buf'[in + j] = written + 1 + j
    <3>0. in \in 0 .. BufLen - 1 /\ BufLen \in Nat /\ j \in Nat /\ j < m
      BY <1>1, <2>1, Sizes
    <3>1. in + j \in Slots /\ in + j \in in .. in + m - 1
      BY <1>1, <2>1, <3>0 DEF Slots
    <3>2. written + 1 + (in + j) - in = written + 1 + j
      BY <2>1, Sizes
    <3> QED BY <2>2, <3>1, <3>2
  <2> QED BY <2>1, <2>2, <2>3, <2>4 DEF WritePlan
<1>7. CASE Publish
  <2>1. written + m + count <= Printed
    BY <1>1, <1>7 DEF Publish, WritePlan
  <2>2. pc' = "room" /\ written' = written + m /\ count' = count
    BY <1>7 DEF Publish
  <2> QED BY <1>4, <2>1, <2>2
<1>8. CASE NothingLeft \/ Spin
  BY <1>1, <1>4, <1>8 DEF NothingLeft, Spin, WritePlan
<1>9. CASE Kick
  BY <1>1, <1>3, <1>4, <1>9 DEF Kick, WritePlan, Return
<1>10. CASE Judge
  BY <1>1, <1>3, <1>4, <1>10 DEF Judge, WritePlan, Return
<1>11. CASE Look \/ NoRoomLeft \/ Take \/ Release \/ Listen \/ Enable
  BY <1>3, <1>11 DEF Look, NoRoomLeft, Take, Release, Listen, Enable, Return
<1>12. CASE Drained
  BY <1>3, <1>12 DEF Drained, Return
<1>13. CASE Interrupt
  <2>1. UNCHANGED <<pc, count, in, m, written>>
    BY <1>13 DEF Interrupt
  <2>2. TxLine
    BY DEF JtagInv
  <2>3. /\ UNCHANGED <<tx_in, tx_buf>>
        /\ Used(tx_in', tx_out') <= Used(tx_in, tx_out) /\ Used(tx_in', tx_out') \in Nat
    <3>1. CASE UNCHANGED <<tx_in, tx_out, tx_buf, wfifo>>
      BY <3>1, Sizes
    <3>2. ASSUME NEW k \in Nat, k <= Used(tx_in, tx_out), Transmit(k)
          PROVE  /\ UNCHANGED <<tx_in, tx_buf>>
                 /\ Used(tx_in', tx_out') <= Used(tx_in, tx_out) /\ Used(tx_in', tx_out') \in Nat
      <4>1. tx_out' = Wrap(tx_out + k) /\ UNCHANGED <<tx_in, tx_buf>>
        BY <3>2 DEF Transmit
      <4>2. Used(tx_in, tx_out') = Used(tx_in, tx_out) - k
        BY <3>2, <4>1, Sizes, UsedTake
      <4> QED BY <3>2, <4>1, <4>2, Sizes
    <3> QED BY <1>13, <2>2, <3>1, <3>2, InterruptTransmits
  <2>4. pc \in {"fill", "publish"} => Used(tx_in', tx_out') + m <= BufLen - 1
    BY <1>1, <2>3, Sizes DEF WritePlan
  <2> QED BY <1>1, <2>1, <2>3, <2>4 DEF WritePlan
<1>14. CASE Second \/ Show \/ Type \/ Ask \/ ComeOrGo
  BY <1>2, <1>14 DEF Second, Show, Type, Ask, ComeOrGo
<1>15. CASE Request
  <2>1. ASSUME NEW c, NEW b, Write(c, b)
        PROVE  WritePlan'
    BY <1>4, <2>1 DEF Write, Call
  <2>2. ASSUME NEW c, NEW b, Read(c, b) \/ Close(b)
        PROVE  WritePlan'
    BY <1>3, <2>2 DEF Read, Close, Call
  <2>3. ASSUME NEW t, SetTimeout(t)
        PROVE  WritePlan'
    BY <1>2, <2>3 DEF SetTimeout
  <2> QED BY <1>15, <2>1, <2>2, <2>3 DEF Request
<1>16. CASE UNCHANGED jtagVars
  BY <1>2, <1>16
<1> QED BY <1>5, <1>6, <1>7, <1>8, <1>9, <1>10, <1>11, <1>12, <1>13, <1>14, <1>15, <1>16
        DEF JtagNext, Working

LEMMA ReadStep ==
  ASSUME JtagInv, [JtagNext]_jtagVars
  PROVE  ReadPlan'
<1> USE DEF rxVars, callVars, streamVars, jtagVars
<1>1. ReadPlan /\ count \in Nat /\ m \in Nat /\ done \in Nat
  BY DEF JtagInv, CallInv
<1>2. ASSUME UNCHANGED <<pc, count, done, out, m, rx_in, rx_out>>
      PROVE  ReadPlan'
  BY <1>1, <1>2 DEF ReadPlan
<1>3. ASSUME pc' \notin {"take", "release"}
      PROVE  ReadPlan'
  BY <1>3 DEF ReadPlan
<1>4. CASE Look
  <2> DEFINE n == IF rx_in >= rx_out THEN rx_in - rx_out ELSE BufLen - rx_out
  <2>1. n \in Nat /\ n <= Used(rx_in, rx_out) /\ rx_out + n <= BufLen
    BY Sizes, SMTT(60) DEF Used
  <2>2. /\ out' = rx_out /\ m' = Smaller(n, count) /\ UNCHANGED <<rx_in, rx_out, count>>
        /\ pc' = IF m' > 0 THEN "take" ELSE IF done = 0 /\ block THEN "listen" ELSE "enable"
    BY <1>4 DEF Look
  <2> HIDE DEF n
  <2>3. m' \in Nat /\ m' <= n /\ m' <= count
    BY <1>1, <2>1, <2>2, SmallerOfTwo
  <2>4. m' <= Used(rx_in, rx_out) /\ out' + m' <= BufLen
    BY <2>1, <2>2, <2>3, Sizes
  <2>5. pc' = "take" => m' > 0
    BY <2>2
  <2>6. pc' # "release"
    BY <2>2
  <2> QED BY <2>2, <2>3, <2>4, <2>5, <2>6 DEF ReadPlan
<1>5. CASE Take
  <2>1. /\ pc = "take" /\ pc' = "release" /\ done' = done + m
        /\ UNCHANGED <<out, m, rx_in, rx_out>>
    BY <1>5 DEF Take
  <2>2. m > 0 /\ done' > 0
    BY <1>1, <2>1 DEF ReadPlan
  <2> QED BY <1>1, <2>1, <2>2 DEF ReadPlan
<1>6. CASE Release \/ NoRoomLeft \/ Listen \/ Enable
  BY <1>3, <1>6 DEF Release, NoRoomLeft, Listen, Enable, Return
<1>7. CASE Room \/ NothingLeft \/ Fill \/ Publish \/ Kick \/ Spin \/ Judge
  BY <1>3, <1>7 DEF Room, NothingLeft, Fill, Publish, Kick, Spin, Judge, Return
<1>8. CASE Drained
  BY <1>3, <1>8 DEF Drained, Return
<1>9. CASE Interrupt
  <2>1. UNCHANGED <<pc, count, done, out, m>>
    BY <1>9 DEF Interrupt
  <2>2. RxLine
    BY DEF JtagInv
  <2>3. /\ UNCHANGED rx_out
        /\ Used(rx_in', rx_out') >= Used(rx_in, rx_out) /\ Used(rx_in', rx_out') \in Nat
    <3>1. CASE UNCHANGED <<rx_in, rx_out, rx_buf, rfifo>>
      BY <3>1, Sizes
    <3>2. ASSUME NEW k \in Nat, k <= Free, Receive(k)
          PROVE  /\ UNCHANGED rx_out
                 /\ Used(rx_in', rx_out') >= Used(rx_in, rx_out) /\ Used(rx_in', rx_out') \in Nat
      <4>1. rx_in' = Wrap(rx_in + k) /\ UNCHANGED rx_out
        BY <3>2 DEF Receive
      <4>2. Used(rx_in, rx_out) + k <= BufLen - 1
        BY <3>2, Sizes DEF Free
      <4>3. Used(rx_in', rx_out) = Used(rx_in, rx_out) + k
        BY <4>1, <4>2, Sizes, UsedPut
      <4> QED BY <4>1, <4>3, Sizes
    <3> QED BY <1>9, <2>2, <3>1, <3>2, InterruptReceives
  <2>4. pc \in {"take", "release"} => m <= Used(rx_in', rx_out')
    BY <1>1, <2>3, Sizes DEF ReadPlan
  <2> QED BY <1>1, <2>1, <2>3, <2>4 DEF ReadPlan
<1>10. CASE Second \/ Show \/ Type \/ Ask \/ ComeOrGo
  BY <1>2, <1>10 DEF Second, Show, Type, Ask, ComeOrGo
<1>11. CASE Request
  BY <1>2, <1>3, <1>11 DEF Request, Write, Read, Close, Call, SetTimeout
<1>12. CASE UNCHANGED jtagVars
  BY <1>2, <1>12
<1> QED BY <1>4, <1>5, <1>6, <1>7, <1>8, <1>9, <1>10, <1>11, <1>12 DEF JtagNext, Working

-----------------------------------------------------------------------------
(* The interrupts that are switched on.                                    *)

LEMMA EmptyRing ==
  ASSUME NEW i \in Slots, NEW o \in Slots
  PROVE  Used(i, o) = 0 <=> i = o
BY JtagUartAssumption DEF Used, Slots

LEMMA SendsStep ==
  ASSUME JtagInv, [JtagNext]_jtagVars
  PROVE  SomeoneSends'
<1> USE DEF txVars, callVars, jtagVars
<1>1. SomeoneSends
  BY DEF JtagInv
<1>2. ASSUME UNCHANGED <<tx_in, tx_out, pc>>, "WE" \in irq_enable => "WE" \in irq_enable'
      PROVE  SomeoneSends'
  BY <1>1, <1>2 DEF SomeoneSends
<1>3. ASSUME UNCHANGED <<tx_in, tx_out>>, pc \notin {"room", "fill", "publish", "kick"},
             "WE" \in irq_enable => "WE" \in irq_enable'
      PROVE  SomeoneSends'
  BY <1>1, <1>3 DEF SomeoneSends
<1>4. ASSUME pc' \in {"room", "fill", "publish", "kick"} \/ "WE" \in irq_enable'
      PROVE  SomeoneSends'
  BY <1>4 DEF SomeoneSends
<1>5. CASE Room \/ NothingLeft \/ Fill \/ Publish
  BY <1>4, <1>5 DEF Room, NothingLeft, Fill, Publish
<1>6. CASE Kick
  BY <1>4, <1>6 DEF Kick
<1>7. CASE Spin \/ Judge
  BY <1>3, <1>7 DEF Spin, Judge
<1>8. CASE Look \/ NoRoomLeft \/ Take \/ Release \/ Listen \/ Drained
  BY <1>3, <1>8 DEF Look, NoRoomLeft, Take, Release, Listen, Drained
<1>9. CASE Enable
  BY <1>3, <1>9 DEF Enable
<1>10. CASE Interrupt
  <2>1. TxLine /\ UNCHANGED pc
    BY <1>10 DEF JtagInv, Interrupt
  <2>2. CASE UNCHANGED <<tx_in, tx_out, tx_buf, wfifo>> /\ ("WE" \in irq_enable => "WE" \in irq_enable')
    BY <1>2, <2>1, <2>2
  <2>3. ASSUME NEW k \in Nat, k = Used(tx_in, tx_out), Transmit(k)
        PROVE  SomeoneSends'
    <3>1. tx_out' = Wrap(tx_out + k) /\ UNCHANGED tx_in
      BY <2>3 DEF Transmit
    <3>2. tx_out' \in Slots /\ Used(tx_in, tx_out') = Used(tx_in, tx_out) - k
      <4>1. k <= Used(tx_in, tx_out)
        BY <2>3
      <4>2. tx_in \in Slots /\ tx_out \in Slots
        BY Sizes
      <4> QED BY <3>1, <4>1, <4>2, UsedTake
    <3>3. Used(tx_in, tx_out') = 0
      BY <2>3, <3>2, Sizes
    <3>4. tx_in' = tx_out'
      BY <3>1, <3>2, <3>3, Sizes, EmptyRing
    <3> QED BY <3>4 DEF SomeoneSends
  <2> QED BY <1>4, <1>10, <2>1, <2>2, <2>3, InterruptTransmits
<1>11. CASE Second \/ Show \/ Type \/ Ask \/ ComeOrGo
  BY <1>2, <1>11 DEF Second, Show, Type, Ask, ComeOrGo
<1>12. CASE Request
  BY <1>3, <1>12 DEF Request, Write, Read, Close, Call, SetTimeout
<1>13. CASE UNCHANGED jtagVars
  BY <1>2, <1>13
<1> QED BY <1>5, <1>6, <1>7, <1>8, <1>9, <1>10, <1>11, <1>12, <1>13 DEF JtagNext, Working

LEMMA ReceivesStep ==
  ASSUME JtagInv, [JtagNext]_jtagVars
  PROVE  SomeoneReceives'
<1> USE DEF rxVars, callVars, jtagVars
<1>1. SomeoneReceives /\ ReadPlan /\ done \in Nat /\ m \in Nat
  BY DEF JtagInv, CallInv
<1>2. ASSUME UNCHANGED <<rx_in, rx_out>>, "RE" \in irq_enable => "RE" \in irq_enable',
             pc \notin {"look", "take", "release", "enable"}
      PROVE  SomeoneReceives'
  BY <1>1, <1>2 DEF SomeoneReceives, Free
<1>3. ASSUME UNCHANGED <<rx_in, rx_out, pc, done>>, "RE" \in irq_enable => "RE" \in irq_enable'
      PROVE  SomeoneReceives'
  BY <1>1, <1>3 DEF SomeoneReceives, Free
<1>4. ASSUME done' > 0, pc' \in {"look", "take", "release", "enable"}
      PROVE  SomeoneReceives'
  BY <1>4 DEF SomeoneReceives
<1>5. CASE Look
  <2>1. UNCHANGED <<rx_in, rx_out, irq_enable, done>>
        /\ (pc' \in {"take", "enable"} \/ done = 0)
    BY <1>5 DEF Look
  <2>2. CASE done = 0
    BY <1>1, <2>1, <2>2 DEF SomeoneReceives, Free
  <2>3. CASE done # 0
    BY <1>1, <1>4, <2>1, <2>3
  <2> QED BY <2>2, <2>3
<1>6. CASE NoRoomLeft
  BY <1>1, <1>6 DEF NoRoomLeft, SomeoneReceives, Free
<1>7. CASE Take
  <2>1. done' = done + m /\ m > 0 /\ pc' = "release"
    BY <1>1, <1>7 DEF Take, ReadPlan
  <2> QED BY <1>1, <1>4, <2>1
<1>8. CASE Release
  BY <1>1, <1>4, <1>8 DEF Release, ReadPlan
<1>9. CASE Listen
  BY <1>2, <1>9 DEF Listen
<1>10. CASE Enable
  <2>1. /\ UNCHANGED <<rx_in, rx_out>>
        /\ irq_enable' = IF done > 0 THEN irq_enable \cup {"RE"} ELSE irq_enable
    BY <1>10 DEF Enable
  <2>2. "RE" \notin irq_enable' => "RE" \notin irq_enable /\ ~(done > 0)
    BY <2>1
  <2> QED BY <1>1, <2>1, <2>2 DEF SomeoneReceives, Free
<1>11. CASE Room \/ NothingLeft \/ Fill \/ Publish \/ Spin \/ Judge \/ Drained
  BY <1>2, <1>11 DEF Room, NothingLeft, Fill, Publish, Spin, Judge, Drained
<1>12. CASE Kick
  BY <1>2, <1>12 DEF Kick
<1>13. CASE Interrupt
  <2>1. RxLine /\ UNCHANGED <<pc, done>>
    BY <1>13 DEF JtagInv, Interrupt
  <2>2. CASE UNCHANGED <<rx_in, rx_out, rx_buf, rfifo>> /\ ("RE" \in irq_enable => "RE" \in irq_enable')
    BY <1>3, <2>1, <2>2
  <2>3. ASSUME NEW k \in Nat, k = Free, Receive(k)
        PROVE  SomeoneReceives'
    <3>1. rx_in' = Wrap(rx_in + k) /\ UNCHANGED rx_out
      BY <2>3 DEF Receive
    <3>2. Used(rx_in, rx_out) + k = BufLen - 1
      BY <2>3, Sizes DEF Free
    <3>3. Used(rx_in', rx_out) = Used(rx_in, rx_out) + k
      BY <3>1, <3>2, Sizes, UsedPut
    <3>4. Free' = 0
      BY <3>1, <3>2, <3>3, Sizes DEF Free
    <3> QED BY <3>4 DEF SomeoneReceives
  <2>4. ASSUME "RE" \in irq_enable'
        PROVE  SomeoneReceives'
    BY <2>4 DEF SomeoneReceives
  <2> QED BY <1>13, <2>1, <2>2, <2>3, <2>4, InterruptReceives
<1>14. CASE Second \/ Show \/ Type \/ Ask \/ ComeOrGo
  BY <1>3, <1>14 DEF Second, Show, Type, Ask, ComeOrGo
<1>15. CASE Request
  <2>1. ASSUME NEW label, NEW c, NEW b, Call(label, c, b)
        PROVE  SomeoneReceives'
    BY <1>2, <2>1 DEF Call
  <2>2. ASSUME NEW t, SetTimeout(t)
        PROVE  SomeoneReceives'
    BY <1>3, <2>2 DEF SetTimeout
  <2> QED BY <1>15, <2>1, <2>2 DEF Request, Write, Read, Close
<1>16. CASE UNCHANGED jtagVars
  BY <1>3, <1>16
<1> QED BY <1>5, <1>6, <1>7, <1>8, <1>9, <1>10, <1>11, <1>12, <1>13, <1>14, <1>15, <1>16
        DEF JtagNext, Working

-----------------------------------------------------------------------------
LEMMA JtagStarts == JtagInit => JtagInv
<1> SUFFICES ASSUME JtagInit
             PROVE  JtagInv
  OBVIOUS
<1>1. /\ BufLen \in Nat /\ BufLen > 1 /\ FifoDepth \in Nat /\ Printed \in Nat /\ Typed \in Nat
      /\ DefaultTimeout \in Nat \ {0} /\ IntMax \in Nat /\ DefaultTimeout < IntMax
  BY JtagUartAssumption
<1>2. <<>> \in Seq(1 .. Printed) /\ <<>> \in Seq(1 .. Typed) /\ Len(<<>>) = 0
  BY EmptySeq
<1>3. 0 \in Slots /\ Used(0, 0) = 0
  BY <1>1 DEF Slots, Used
<1>4. TxLine
  <2>1. /\ tx_in = 0 /\ tx_out = 0 /\ tx_buf \in [Slots -> 0 .. Printed]
        /\ wfifo = <<>> /\ shown = <<>> /\ written = 0
    BY <1>1 DEF JtagInit
  <2>2. Holds(tx_buf, 0, 0, 0) /\ Numbered(<<>>, 0)
    BY <1>2, <1>3 DEF Holds, Numbered
  <2> QED BY <1>1, <1>2, <1>3, <2>1, <2>2 DEF TxLine
<1>5. RxLine
  <2>1. /\ rx_in = 0 /\ rx_out = 0 /\ rx_buf \in [Slots -> 0 .. Typed]
        /\ rfifo = <<>> /\ got = <<>> /\ typed = 0 /\ Copied = 0
    BY <1>1 DEF JtagInit, Copied
  <2>2. Holds(rx_buf, 0, 0, 0) /\ Numbered(<<>>, 0)
    BY <1>2, <1>3 DEF Holds, Numbered
  <2> QED BY <1>1, <1>2, <1>3, <2>1, <2>2 DEF RxLine
<1>6. CallInv /\ WritePlan /\ ReadPlan
  BY <1>1, <1>3 DEF JtagInit, CallInv, WritePlan, ReadPlan
<1>7. TimeInv
  BY <1>1 DEF JtagInit, TimeInv
<1>8. FlagInv
  BY DEF JtagInit, FlagInv, Answers
<1>9. SomeoneSends /\ SomeoneReceives
  BY DEF JtagInit, SomeoneSends, SomeoneReceives
<1> QED BY <1>4, <1>5, <1>6, <1>7, <1>8, <1>9 DEF JtagInv

LEMMA JtagSteps == JtagInv /\ [JtagNext]_jtagVars => JtagInv'
<1> SUFFICES ASSUME JtagInv, [JtagNext]_jtagVars
             PROVE  JtagInv'
  OBVIOUS
<1>1. TxLine' /\ RxLine'
  BY TxStep, RxStep
<1>2. CallInv' /\ TimeInv' /\ FlagInv'
  BY CallStep, TimeStep, FlagStep
<1>3. WritePlan' /\ ReadPlan'
  BY WriteStep, ReadStep
<1>4. SomeoneSends' /\ SomeoneReceives'
  BY SendsStep, ReceivesStep
<1> QED BY <1>1, <1>2, <1>3, <1>4 DEF JtagInv

LEMMA JtagInvariant == JtagSpec => []JtagInv
  BY JtagStarts, JtagSteps, PTL DEF JtagSpec

(* The driver's variables keep their types: in particular write and read   *)
(* never touch a place outside their rings.                                *)
THEOREM JtagTypeCorrect == JtagSpec => []JtagTypeOK
<1>1. ASSUME JtagInv
      PROVE  JtagTypeOK
  <2>1. /\ tx_in \in Slots /\ tx_out \in Slots /\ tx_buf \in [Slots -> 0 .. Printed]
        /\ wfifo \in Seq(1 .. Printed) /\ Len(wfifo) <= FifoDepth
        /\ shown \in Seq(1 .. Printed) /\ written \in 0 .. Printed
    BY <1>1, Zenon DEF JtagInv, TxLine
  <2>2. /\ rx_in \in Slots /\ rx_out \in Slots /\ rx_buf \in [Slots -> 0 .. Typed]
        /\ rfifo \in Seq(1 .. Typed) /\ Len(rfifo) <= FifoDepth
        /\ got \in Seq(1 .. Typed) /\ typed \in 0 .. Typed
    BY <1>1, Zenon DEF JtagInv, RxLine
  <2>3. host_inactive \in 0 .. IntMax /\ timeout \in 1 .. IntMax
    BY <1>1, JtagUartAssumption DEF JtagInv, TimeInv
  <2> QED BY <1>1, <2>1, <2>2, <2>3, Zenon DEF JtagInv, JtagTypeOK, CallInv, FlagInv
<1> QED BY <1>1, JtagInvariant, PTL

(* No character waits in the ring outside write, and no room in the other  *)
(* outside read, while the interrupt that would move them is off, for      *)
(* every size of the rings and of the FIFO.                                *)
THEOREM NobodyIsStranded == JtagSpec => []NobodyStranded
<1>1. JtagInv => NobodyStranded
  BY DEF JtagInv, NobodyStranded
<1> QED BY <1>1, JtagInvariant, PTL

(* A timeout of INT_MAX - 1 never runs out, however long the host is away. *)
THEOREM NeverGivesUp == JtagSpec => []ForEver
<1>1. ASSUME JtagInv
      PROVE  ForEver
  <2>1. host_inactive \in 0 .. IntMax - 2 /\ timeout \in 1 .. IntMax /\ IntMax \in Nat
    BY <1>1, JtagUartAssumption DEF JtagInv, TimeInv
  <2> QED BY <2>1 DEF ForEver, Gone
<1> QED BY <1>1, JtagInvariant, PTL

(* What write accepts comes out at the host in order, each character once, *)
(* and no more is on its way than the ring and the FIFO hold.              *)
THEOREM PrintedInOrder == JtagSpec => PrintingSpec
<1>1. JtagInit => Printing!StreamInit
  BY DEF JtagInit, Printing!StreamInit
<1>2. ASSUME JtagInv, [JtagNext]_jtagVars
      PROVE  [Printing!Send \/ Printing!Receive]_<<written, shown>>
  <2> USE DEF txVars, rxVars, timeVars, callVars, streamVars, jtagVars
  <2>1. CASE Publish
    <3>1. TxLine'
      BY <1>2, TxStep
    <3>2. /\ written' = written + m /\ UNCHANGED shown /\ m \in Nat /\ m > 0 /\ written \in Nat
      BY <1>2, <2>1, Sizes DEF Publish, JtagInv, WritePlan, CallInv
    <3>3. /\ written' \in 0 .. Printed
          /\ written' = Len(shown') + Len(wfifo') + Used(tx_in', tx_out')
          /\ Len(shown') \in Nat /\ Len(wfifo') \in Nat /\ Len(wfifo') <= FifoDepth
          /\ tx_in' \in Slots /\ tx_out' \in Slots
      BY <3>1, LenProperties DEF TxLine
    <3>4. Used(tx_in', tx_out') \in 0 .. BufLen - 1 /\ BufLen \in Nat /\ FifoDepth \in Nat
      BY <3>3, UsedType, JtagUartAssumption
    <3>5. written' - Len(shown) <= Line
      BY <3>2, <3>3, <3>4 DEF Line
    <3>6. written' \in written + 1 .. Printed
      BY <3>2, <3>3, JtagUartAssumption
    <3> QED BY <3>2, <3>5, <3>6 DEF Printing!Send
  <2>2. CASE Show
    <3>1. TxLine /\ UNCHANGED written /\ wfifo # <<>>
      BY <1>2, <2>2 DEF JtagInv, Show
    <3>2. shown' = Append(shown, Len(shown) + 1)
      BY <2>2, <3>1, ShowKeepsTx
    <3>3. Len(shown) \in Nat /\ Len(wfifo) \in Nat \ {0} /\ shown \in Seq(1 .. Printed)
      BY <3>1, EmptySeq, LenProperties DEF TxLine
    <3>4. 1 \in 1 .. written - Len(shown)
      <4>1. written = Len(shown) + Len(wfifo) + Used(tx_in, tx_out)
        BY <3>1 DEF TxLine
      <4>2. Used(tx_in, tx_out) \in Nat
        BY <1>2, Sizes
      <4> QED BY <3>3, <4>1, <4>2
    <3>5. <<Len(shown) + 1>> = [i \in 1 .. 1 |-> Len(shown) + i]
      BY <3>3
    <3>6. shown' = shown \o [i \in 1 .. 1 |-> Len(shown) + i]
      BY <3>2, <3>3, <3>5, AppendIsConcat
    <3> QED BY <3>1, <3>4, <3>6 DEF Printing!Receive
  <2>3. CASE Room \/ NothingLeft \/ Fill \/ Kick \/ Spin \/ Judge
    BY <2>3 DEF Room, NothingLeft, Fill, Kick, Spin, Judge
  <2>4. CASE Look \/ NoRoomLeft \/ Take \/ Release \/ Listen \/ Enable \/ Drained
    BY <2>4 DEF Look, NoRoomLeft, Take, Release, Listen, Enable, Drained
  <2>5. CASE Request
    BY <2>5 DEF Request, Write, Read, Close, SetTimeout, Call
  <2>6. CASE Interrupt \/ Second \/ Type \/ Ask \/ ComeOrGo
    BY <2>6 DEF Interrupt, Second, Type, Ask, ComeOrGo
  <2>7. CASE UNCHANGED jtagVars
    BY <2>7
  <2> QED BY <1>2, <2>1, <2>2, <2>3, <2>4, <2>5, <2>6, <2>7 DEF JtagNext, Working
<1> QED BY <1>1, <1>2, JtagInvariant, PTL DEF JtagSpec, PrintingSpec, Printing!StreamSpec

(* What read hands to the program is what the host has typed, in order,    *)
(* each character once.                                                    *)
THEOREM TypedInOrder == JtagSpec => TypingSpec
<1>1. JtagInit => Typing!StreamInit
  BY DEF JtagInit, Typing!StreamInit
<1>2. ASSUME JtagInv, [JtagNext]_jtagVars
      PROVE  [Typing!Send \/ Typing!Receive]_<<typed, got>>
  <2> USE DEF txVars, rxVars, timeVars, callVars, streamVars, jtagVars
  <2>1. CASE Type
    <3>1. RxLine' /\ typed' = typed + 1 /\ UNCHANGED got
      BY <1>2, <2>1, RxStep DEF Type
    <3>2. /\ typed' \in 0 .. Typed
          /\ typed' = Len(got') - Copied' + Used(rx_in', rx_out') + Len(rfifo')
          /\ Len(got') \in Nat /\ Copied' \in 0 .. Len(got')
          /\ Len(rfifo') \in Nat /\ Len(rfifo') <= FifoDepth
          /\ rx_in' \in Slots /\ rx_out' \in Slots
      BY <3>1, LenProperties DEF RxLine
    <3>3. Used(rx_in', rx_out') \in 0 .. BufLen - 1 /\ BufLen \in Nat /\ FifoDepth \in Nat
      BY <3>2, UsedType, JtagUartAssumption
    <3>4. typed' - Len(got) <= Line
      <4> DEFINE g == Len(got')
                 c == Copied'
                 u == Used(rx_in', rx_out')
                 l == Len(rfifo')
      <4>1. /\ typed' = g - c + u + l /\ g \in Nat /\ c \in 0 .. g
            /\ l \in Nat /\ l <= FifoDepth /\ FifoDepth \in Nat
            /\ u \in 0 .. BufLen - 1 /\ BufLen \in Nat
        BY <3>2, <3>3
      <4>2. g = Len(got)
        BY <3>1
      <4> HIDE DEF g, c, u, l
      <4>3. typed' - g <= Line
        BY <4>1 DEF Line
      <4> QED BY <4>2, <4>3
    <3>5. typed \in Nat /\ Typed \in Nat
      BY <1>2, RxNumbers DEF JtagInv
    <3>6. typed' \in typed + 1 .. Typed
      BY <3>1, <3>2, <3>5
    <3> QED BY <3>1, <3>4, <3>6 DEF Typing!Send
  <2>2. CASE Take
    <3>1. m \in 1 .. typed - Len(got) /\ got' = got \o [i \in 1 .. m |-> Len(got) + i]
      BY <1>2, <2>2, TakeKeepsRx
    <3>2. UNCHANGED typed
      BY <2>2 DEF Take
    <3> QED BY <3>1, <3>2 DEF Typing!Receive
  <2>3. CASE Room \/ NothingLeft \/ Fill \/ Publish \/ Kick \/ Spin \/ Judge
    BY <2>3 DEF Room, NothingLeft, Fill, Publish, Kick, Spin, Judge
  <2>4. CASE Look \/ NoRoomLeft \/ Release \/ Listen \/ Enable \/ Drained
    BY <2>4 DEF Look, NoRoomLeft, Release, Listen, Enable, Drained
  <2>5. CASE Request
    BY <2>5 DEF Request, Write, Read, Close, SetTimeout, Call
  <2>6. CASE Interrupt \/ Second \/ Show \/ Ask \/ ComeOrGo
    BY <2>6 DEF Interrupt, Second, Show, Ask, ComeOrGo
  <2>7. CASE UNCHANGED jtagVars
    BY <2>7
  <2> QED BY <1>2, <2>1, <2>2, <2>3, <2>4, <2>5, <2>6, <2>7 DEF JtagNext, Working
<1> QED BY <1>1, <1>2, JtagInvariant, PTL DEF JtagSpec, TypingSpec, Typing!StreamSpec
=============================================================================
