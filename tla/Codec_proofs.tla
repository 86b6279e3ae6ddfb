---------------------------- MODULE Codec_proofs ----------------------------
(***************************************************************************)
(* Proofs about Codec, for headers of any length in any base, any items,   *)
(* any limits of the two ends, any chunks and any cut.                     *)
(***************************************************************************)
EXTENDS Codec, SequenceTheorems, WellFoundedInduction, TLAPS

Bytes == 0 .. Base - 1
-----------------------------------------------------------------------------
(***************************************************************************)
(* Induction over the natural numbers, for a set of numbers.               *)
(***************************************************************************)
Below == {p \in Nat \X Nat : p[1] < p[2]}

\* The order of the natural numbers is well founded.
LEMMA BelowWellFounded == IsWellFoundedOn(Below, Nat)
  BY NatLessThanWellFounded DEF OpToRel, Below

\* A nonempty set of natural numbers has a least element.
LEMMA LeastNumber ==
  ASSUME NEW S \in SUBSET Nat, S # {}
  PROVE  \E n \in S : \A i \in S : n <= i
  <1>1. PICK n \in S : \A i \in S : ~ (<<i, n>> \in Below)
    BY BelowWellFounded, WFMin
  <1>2. ASSUME NEW i \in S
        PROVE  n <= i
    <2>1. <<i, n>> \in Nat \X Nat /\ <<i, n>>[1] = i /\ <<i, n>>[2] = n
      OBVIOUS
    <2>2. ~ (i < n)
      BY <1>1, <2>1 DEF Below
    <2>. QED
      BY <2>2
  <1>. QED
    BY <1>2

\* A set with 0 and the successor of each member has every natural number.
LEMMA Induction ==
  ASSUME NEW S \in SUBSET Nat, 0 \in S, \A n \in S : n + 1 \in S
  PROVE  S = Nat
  <1>1. SUFFICES ASSUME Nat \ S # {}
                 PROVE  FALSE
    OBVIOUS
  <1>2. PICK n \in Nat \ S : \A i \in Nat \ S : n <= i
    BY <1>1, LeastNumber
  <1>3. n # 0 /\ n - 1 \in Nat /\ n - 1 \in S
    BY <1>2
  <1>. QED
    BY <1>2, <1>3

(***************************************************************************)
(* A function on 0 .. m may be defined by its value at 0 and a step.       *)
(***************************************************************************)
LEMMA Recursion ==
  ASSUME NEW m \in Nat, NEW c \in Nat, NEW step \in [1 .. m -> [Nat -> Nat]]
  PROVE  \E f \in [0 .. m -> Nat] :
           /\ f[0] = c
           /\ \A i \in 1 .. m : f[i] = step[i][f[i - 1]]
  <1> DEFINE Good(n, f) == /\ f[0] = c
                           /\ \A i \in 1 .. n : f[i] = step[i][f[i - 1]]
             S == {n \in Nat : n <= m => \E f \in [0 .. n -> Nat] : Good(n, f)}
  <1>1. 0 \in S
    <2>1. [i \in 0 .. 0 |-> c] \in [0 .. 0 -> Nat] /\ Good(0, [i \in 0 .. 0 |-> c])
      OBVIOUS
    <2>. QED
      BY <2>1
  <1>2. ASSUME NEW n \in S, n + 1 <= m
        PROVE  \E g \in [0 .. n + 1 -> Nat] : Good(n + 1, g)
    <2>1. PICK f \in [0 .. n -> Nat] : Good(n, f)
      <3>1. n <= m
        BY <1>2
      <3> HIDE DEF Good
      <3>. QED
        BY <1>2, <3>1
    <2>2. n \in Nat /\ n + 1 \in 1 .. m /\ f[n] \in Nat
      BY <1>2, <2>1
    <2>3. PICK x \in Nat : x = step[n + 1][f[n]]
      BY <2>2
    <2>4. PICK g : g = [i \in 0 .. n + 1 |-> IF i = n + 1 THEN x ELSE f[i]]
      OBVIOUS
    <2>5. g \in [0 .. n + 1 -> Nat] /\ g[n + 1] = x /\ \A i \in 0 .. n : g[i] = f[i]
      <3>1. \A i \in 0 .. n + 1 : i = n + 1 \/ i \in 0 .. n
        BY <2>2
      <3>2. \A i \in 0 .. n : i \in 0 .. n + 1 /\ i # n + 1
        BY <2>2
      <3>3. n + 1 \in 0 .. n + 1
        BY <2>2
      <3>4. f \in [0 .. n -> Nat]
        BY <2>1
      <3>5. \A i \in 0 .. n + 1 : g[i] = IF i = n + 1 THEN x ELSE f[i]
        BY <2>4
      <3>6. \A i \in 0 .. n + 1 : g[i] \in Nat
        BY <3>1, <3>4, <3>5
      <3>. QED
        BY <2>4, <3>2, <3>3, <3>5, <3>6
    <2>6. \A i \in 1 .. n + 1 : g[i] = step[i][g[i - 1]]
      <3>1. ASSUME NEW i \in 1 .. n
            PROVE  g[i] = step[i][g[i - 1]]
        <4>1. i \in 0 .. n /\ i - 1 \in 0 .. n
          BY <2>2
        <4>. QED
          BY <4>1, <2>1, <2>5
      <3>2. g[n + 1] = step[n + 1][g[n + 1 - 1]]
        <4>1. n + 1 - 1 = n /\ n \in 0 .. n
          BY <2>2
        <4>. QED
          BY <4>1, <2>3, <2>5
      <3>3. TAKE i \in 1 .. n + 1
      <3>4. CASE i = n + 1
        BY <3>2, <3>4
      <3>5. CASE i # n + 1
        <4>1. i \in 1 .. n
          BY <2>2, <3>5
        <4>. QED
          BY <4>1, <3>1
      <3>. QED
        BY <3>4, <3>5
    <2>7. g[0] = c
      BY <2>1, <2>2, <2>5
    <2>. QED
      BY <2>5, <2>6, <2>7
  <1>3. \A n \in S : n + 1 \in S
    <2>1. ASSUME NEW n \in S
          PROVE  n + 1 \in S
      <3>1. n + 1 \in Nat
        OBVIOUS
      <3>2. n + 1 <= m => \E g \in [0 .. n + 1 -> Nat] : Good(n + 1, g)
        BY <1>2
      <3>. QED
        BY <3>1, <3>2
    <2>. QED
      BY <2>1
  <1>4. S = Nat
    <2>1. S \in SUBSET Nat
      OBVIOUS
    <2> HIDE DEF S
    <2>. QED
      BY <1>1, <1>3, <2>1, Induction
  <1>5. m \in S
    BY <1>4
  <1>6. \E f \in [0 .. m -> Nat] : Good(m, f)
    <2>1. m <= m
      OBVIOUS
    <2> HIDE DEF Good
    <2>. QED
      BY <1>5, <2>1
  <1>. QED
    BY <1>6
-----------------------------------------------------------------------------
(***************************************************************************)
(* Division with remainder.                                                *)
(***************************************************************************)
LEMMA Division ==
  ASSUME NEW x \in Nat, NEW b \in Nat, b > 0
  PROVE  /\ x = b * (x \div b) + (x % b)
         /\ x \div b \in Nat
         /\ x % b \in 0 .. b - 1
  <1>1. x = b * (x \div b) + (x % b)
    OBVIOUS
  <1>2. x \div b \in Nat /\ x % b \in 0 .. b - 1
    OBVIOUS
  <1>. QED
    BY <1>1, <1>2

\* Quotient and remainder are unique.
LEMMA Quotient ==
  ASSUME NEW x \in Nat, NEW b \in Nat, b > 0,
         NEW q \in Int, NEW r \in 0 .. b - 1, x = b * q + r
  PROVE  q = x \div b
  OBVIOUS

(***************************************************************************)
(* The digits of a number: the number without its last digits, taken one   *)
(* further digit to the left.                                              *)
(***************************************************************************)
LEMMA DivisionTwice ==
  ASSUME NEW x \in Nat, NEW p \in Nat, p > 0, NEW b \in Nat, b > 0
  PROVE  x \div (b * p) = (x \div p) \div b
  <1>1. PICK q \in Nat : q = x \div p
    BY Division
  <1>2. PICK r \in 0 .. p - 1 : x = p * q + r
    BY <1>1, Division
  <1>3. PICK s \in Nat : s = q \div b
    BY Division
  <1>4. PICK t \in 0 .. b - 1 : q = b * s + t
    BY <1>3, Division
  <1>5. PICK pb \in Nat : pb = b * p /\ pb > 0
    OBVIOUS
  <1>6. x = pb * s + (p * t + r)
    <2>1. p * q = p * (b * s) + p * t
      BY <1>4
    <2>2. p * (b * s) = pb * s
      BY <1>5
    <2>. QED
      BY <2>1, <2>2, <1>2, <1>5
  <1>7. p * t + r \in 0 .. pb - 1
    <2>1. 0 <= p * t /\ p * t <= p * (b - 1)
      OBVIOUS
    <2>2. p * (b - 1) = pb - p
      BY <1>5
    <2>. QED
      BY <2>1, <2>2, <1>2, <1>5
  <1>. QED
    BY <1>1, <1>3, <1>5, <1>6, <1>7, Quotient

(***************************************************************************)
(* Power obeys its definition.                                             *)
(***************************************************************************)
LEMMA Powers ==
  /\ Power[0] = 1
  /\ \A n \in 1 .. HeaderLen : Power[n] = Base * Power[n - 1]
  /\ \A n \in 0 .. HeaderLen : Power[n] \in Nat /\ Power[n] > 0
  <1>1. HeaderLen \in Nat /\ Base \in Nat /\ Base > 0
    BY CodecAssumption
  <1>2. \E f \in [0 .. HeaderLen -> Nat] :
          /\ f[0] = 1
          /\ \A n \in 1 .. HeaderLen : f[n] = Base * f[n - 1]
    <2>1. PICK step : step = [n \in 1 .. HeaderLen |-> [x \in Nat |-> Base * x]]
      OBVIOUS
    <2>2. step \in [1 .. HeaderLen -> [Nat -> Nat]]
      BY <1>1, <2>1
    <2>3. PICK f \in [0 .. HeaderLen -> Nat] :
            /\ f[0] = 1
            /\ \A n \in 1 .. HeaderLen : f[n] = step[n][f[n - 1]]
      <3>1. 1 \in Nat
        OBVIOUS
      <3>. QED
        BY <1>1, <2>2, <3>1, Recursion
    <2>4. ASSUME NEW n \in 1 .. HeaderLen
          PROVE  f[n] = Base * f[n - 1]
      <3>1. f[n - 1] \in Nat
        BY <1>1
      <3>. QED
        BY <2>1, <2>3, <3>1
    <2>. QED
      BY <2>3, <2>4
  <1>3. Power = [n \in 0 .. HeaderLen |-> IF n = 0 THEN 1 ELSE Base * Power[n - 1]]
    <2>1. PICK f \in [0 .. HeaderLen -> Nat] :
            /\ f[0] = 1
            /\ \A n \in 1 .. HeaderLen : f[n] = Base * f[n - 1]
      BY <1>2
    <2>2. f = [n \in 0 .. HeaderLen |-> IF n = 0 THEN 1 ELSE Base * f[n - 1]]
      <3>1. ASSUME NEW n \in 0 .. HeaderLen
            PROVE  f[n] = IF n = 0 THEN 1 ELSE Base * f[n - 1]
        BY <1>1, <2>1
      <3>. QED
        BY <3>1
    <2>. QED
      BY <2>2 DEF Power
  <1>4. Power[0] = 1 /\ \A n \in 1 .. HeaderLen : Power[n] = Base * Power[n - 1]
    BY <1>1, <1>3
  <1> DEFINE S == {n \in Nat : n <= HeaderLen => Power[n] \in Nat /\ Power[n] > 0}
  <1>5. 0 \in S
    BY <1>4
  <1>6. ASSUME NEW n \in S
        PROVE  n + 1 \in S
    <2>1. CASE n + 1 <= HeaderLen
      <3>1. n + 1 \in 1 .. HeaderLen /\ n + 1 - 1 = n
        BY <1>1, <2>1
      <3>2. Power[n + 1] = Base * Power[n]
        BY <1>4, <3>1
      <3>3. PICK p \in Nat : p = Power[n] /\ p > 0
        BY <1>1, <2>1
      <3>. QED
        BY <1>1, <3>2, <3>3
    <2>. QED
      BY <2>1
  <1>7. S = Nat
    <2>1. S \in SUBSET Nat
      OBVIOUS
    <2> HIDE DEF S
    <2>. QED
      BY <1>5, <1>6, <2>1, Induction
  <1>. QED
    BY <1>1, <1>4, <1>7

\* The number of lengths a header can say.
LEMMA TopPower == Power[HeaderLen] \in Nat
  <1>1. HeaderLen \in 0 .. HeaderLen
    BY CodecAssumption
  <1>. QED
    BY <1>1, Powers

\* Every length that encode lets through can be said by a header.
LEMMA FitsHeader ==
  ASSUME NEW n \in 0 .. SendMax
  PROVE  n \in 0 .. Power[HeaderLen] - 1
  BY CodecAssumption, TopPower

(***************************************************************************)
(* What FrameLen reads: digit after digit, from the left.                  *)
(***************************************************************************)
LEMMA FrameLenReads ==
  ASSUME NEW buf, \A i \in 1 .. HeaderLen : buf[i] \in Bytes
  PROVE  \E v : /\ FrameLen(buf) = v[HeaderLen]
                /\ v[0] = 0
                /\ \A i \in 1 .. HeaderLen : v[i] = v[i - 1] * Base + buf[i]
  <1>1. HeaderLen \in Nat /\ Base \in Nat /\ Base > 0
    BY CodecAssumption
  <1>2. PICK step : step = [i \in 1 .. HeaderLen |-> [x \in Nat |-> x * Base + buf[i]]]
    OBVIOUS
  <1>3. step \in [1 .. HeaderLen -> [Nat -> Nat]]
    <2>1. ASSUME NEW i \in 1 .. HeaderLen, NEW x \in Nat
          PROVE  x * Base + buf[i] \in Nat
      <3>1. x * Base \in Nat /\ buf[i] \in Nat
        BY <1>1 DEF Bytes
      <3>. QED
        BY <3>1
    <2>. QED
      BY <1>2, <2>1
  <1>4. PICK f \in [0 .. HeaderLen -> Nat] :
          /\ f[0] = 0
          /\ \A i \in 1 .. HeaderLen : f[i] = step[i][f[i - 1]]
    <2>1. 0 \in Nat
      OBVIOUS
    <2>. QED
      BY <1>1, <1>3, <2>1, Recursion
  <1>5. f = [i \in 0 .. HeaderLen |-> IF i = 0 THEN 0 ELSE f[i - 1] * Base + buf[i]]
    <2>1. ASSUME NEW i \in 0 .. HeaderLen
          PROVE  f[i] = IF i = 0 THEN 0 ELSE f[i - 1] * Base + buf[i]
      <3>1. CASE i = 0
        BY <1>4, <3>1
      <3>2. CASE i # 0
        <4>1. i \in 1 .. HeaderLen /\ f[i - 1] \in Nat
          BY <1>1, <3>2
        <4>. QED
          BY <1>2, <1>4, <3>2, <4>1
      <3>. QED
        BY <3>1, <3>2
    <2>. QED
      BY <2>1
  <1>6. \E v : /\ FrameLen(buf) = v[HeaderLen]
               /\ v = [i \in 0 .. HeaderLen |->
                         IF i = 0 THEN 0 ELSE v[i - 1] * Base + buf[i]]
    BY <1>5 DEF FrameLen
  <1>7. PICK v : /\ FrameLen(buf) = v[HeaderLen]
                 /\ v = [i \in 0 .. HeaderLen |->
                           IF i = 0 THEN 0 ELSE v[i - 1] * Base + buf[i]]
    BY <1>6
  <1>8. v[0] = 0
    BY <1>1, <1>7
  <1>9. ASSUME NEW i \in 1 .. HeaderLen
        PROVE  v[i] = v[i - 1] * Base + buf[i]
    <2>1. i \in 0 .. HeaderLen /\ i # 0
      BY <1>1
    <2>. QED
      BY <1>7, <2>1
  <1>. QED
    BY <1>7, <1>8, <1>9

(***************************************************************************)
(* A length is a natural number.                                           *)
(***************************************************************************)
LEMMA FrameLenIsNat ==
  ASSUME NEW buf, \A i \in 1 .. HeaderLen : buf[i] \in Bytes
  PROVE  FrameLen(buf) \in Nat
  <1>1. HeaderLen \in Nat /\ Base \in Nat /\ Base > 0
    BY CodecAssumption
  <1>2. PICK v : /\ FrameLen(buf) = v[HeaderLen]
                 /\ v[0] = 0
                 /\ \A i \in 1 .. HeaderLen : v[i] = v[i - 1] * Base + buf[i]
    BY FrameLenReads
  <1> DEFINE S == {i \in Nat : i <= HeaderLen => v[i] \in Nat}
  <1>3. 0 \in S
    BY <1>2
  <1>4. ASSUME NEW i \in S
        PROVE  i + 1 \in S
    <2>1. CASE i + 1 <= HeaderLen
      <3>1. i + 1 \in 1 .. HeaderLen /\ i + 1 - 1 = i /\ v[i] \in Nat
        BY <1>1, <2>1
      <3>2. v[i + 1] = v[i] * Base + buf[i + 1]
        BY <1>2, <3>1
      <3>3. buf[i + 1] \in Nat
        BY <1>1, <3>1 DEF Bytes
      <3>4. v[i] * Base \in Nat
        BY <1>1, <3>1
      <3>. QED
        BY <3>2, <3>3, <3>4
    <2>. QED
      BY <2>1
  <1>5. S = Nat
    <2>1. S \in SUBSET Nat
      OBVIOUS
    <2> HIDE DEF S
    <2>. QED
      BY <1>3, <1>4, <2>1, Induction
  <1>. QED
    BY <1>1, <1>2, <1>5
-----------------------------------------------------------------------------
(***************************************************************************)
(* A header is HeaderLen bytes.                                            *)
(***************************************************************************)
LEMMA HeaderIsBytes ==
  ASSUME NEW n \in Nat
  PROVE  /\ Header(n) \in Seq(Bytes)
         /\ Len(Header(n)) = HeaderLen
         /\ \A i \in 1 .. HeaderLen :
              Header(n)[i] = (n \div Power[HeaderLen - i]) % Base
  <1>1. HeaderLen \in Nat /\ Base \in Nat /\ Base > 0
    BY CodecAssumption
  <1>2. ASSUME NEW i \in 1 .. HeaderLen
        PROVE  (n \div Power[HeaderLen - i]) % Base \in Bytes
    <2>1. HeaderLen - i \in 0 .. HeaderLen
      BY <1>1
    <2>2. Power[HeaderLen - i] \in Nat /\ Power[HeaderLen - i] > 0
      BY <2>1, Powers
    <2>3. n \div Power[HeaderLen - i] \in Nat
      BY <2>2, Division
    <2>. QED
      BY <1>1, <2>3, Division DEF Bytes
  <1>. QED
    BY <1>1, <1>2 DEF Header

(***************************************************************************)
(* get_u32 undoes put_u32: the reader finds the length the writer wrote,   *)
(* whatever follows it.                                                    *)
(***************************************************************************)
THEOREM HeaderRoundTrip ==
  ASSUME NEW n \in 0 .. Power[HeaderLen] - 1,
         NEW buf, \A i \in 1 .. HeaderLen : buf[i] = Header(n)[i]
  PROVE  FrameLen(buf) = n
  <1>1. HeaderLen \in Nat /\ HeaderLen > 0 /\ Base \in Nat /\ Base > 0
    BY CodecAssumption
  <1>2. n \in Nat /\ Power[HeaderLen] \in Nat /\ n < Power[HeaderLen]
    BY <1>1, Powers
  <1>3. \A i \in 1 .. HeaderLen :
          buf[i] \in Bytes /\ buf[i] = (n \div Power[HeaderLen - i]) % Base
    BY <1>2, HeaderIsBytes
  <1>4. PICK v : /\ FrameLen(buf) = v[HeaderLen]
                 /\ v[0] = 0
                 /\ \A i \in 1 .. HeaderLen : v[i] = v[i - 1] * Base + buf[i]
    BY <1>3, FrameLenReads
  <1> DEFINE S == {i \in Nat : i <= HeaderLen => v[i] = n \div Power[HeaderLen - i]}
  <1>5. 0 \in S
    <2>1. n = Power[HeaderLen] * 0 + n /\ n \in 0 .. Power[HeaderLen] - 1
      BY <1>2
    <2>2. 0 = n \div Power[HeaderLen]
      <3>1. 0 \in Int /\ Power[HeaderLen] > 0
        BY <1>2
      <3>. QED
        BY <1>2, <2>1, <3>1, Quotient
    <2>3. HeaderLen - 0 = HeaderLen
      BY <1>1
    <2>. QED
      BY <1>4, <2>2, <2>3
  <1>6. ASSUME NEW i \in S
        PROVE  i + 1 \in S
    <2>1. CASE i + 1 <= HeaderLen
      <3>1. i + 1 \in 1 .. HeaderLen /\ i + 1 - 1 = i
        BY <1>1, <2>1
      <3>2. PICK k : k = HeaderLen - (i + 1)
        OBVIOUS
      <3>3. k \in 0 .. HeaderLen /\ k + 1 \in 1 .. HeaderLen /\ k + 1 - 1 = k
             /\ HeaderLen - i = k + 1
        BY <1>1, <2>1, <3>2
      <3>4. PICK p \in Nat : p = Power[k] /\ p > 0
        BY <3>3, Powers
      <3>5. Power[k + 1] = Base * p
        BY <3>3, <3>4, Powers
      <3>6. v[i] = n \div (Base * p)
        <4>1. i <= HeaderLen
          BY <1>1, <2>1
        <4>. QED
          BY <3>3, <3>5, <4>1
      <3>7. v[i] = (n \div p) \div Base
        BY <1>1, <1>2, <3>4, <3>6, DivisionTwice
      <3>8. buf[i + 1] = (n \div p) % Base
        BY <1>3, <3>1, <3>2, <3>4
      <3>9. PICK q \in Nat : q = n \div p
        BY <1>2, <3>4, Division
      <3>10. q = Base * (q \div Base) + (q % Base) /\ q \div Base \in Nat
        BY <1>1, Division
      <3>11. v[i + 1] = v[i] * Base + buf[i + 1]
        BY <1>4, <3>1
      <3>12. v[i + 1] = q
        <4>1. PICK d \in Nat : d = q \div Base
          BY <3>10
        <4>2. v[i] = d
          BY <3>7, <3>9, <4>1, Zenon
        <4>3. d * Base = Base * d
          BY <1>1
        <4>. QED
          BY <3>8, <3>9, <3>10, <3>11, <4>1, <4>2, <4>3
      <3>. QED
        BY <3>2, <3>4, <3>9, <3>12
    <2>. QED
      BY <2>1
  <1>7. S = Nat
    <2>1. S \in SUBSET Nat
      OBVIOUS
    <2> HIDE DEF S
    <2>. QED
      BY <1>5, <1>6, <2>1, Induction
  <1>8. v[HeaderLen] = n \div Power[HeaderLen - HeaderLen]
    BY <1>1, <1>7
  <1>9. HeaderLen - HeaderLen = 0 /\ Power[0] = 1
    BY <1>1, Powers
  <1>10. n \div 1 = n
    BY <1>2
  <1>. QED
    BY <1>4, <1>8, <1>9, <1>10
-----------------------------------------------------------------------------
(***************************************************************************)
(* The bytes are compared with a tape on which all frames stand, one       *)
(* behind the other; frame i ends at at[i].                                *)
(***************************************************************************)
Tapes == [Nat -> Bytes]
Marks == [Nat -> Nat]

Holds(tape, from, bytes) == \A j \in 1 .. Len(bytes) : bytes[j] = tape[from + j]

Layout(tape, at, items) ==
  /\ at[0] = 0
  /\ \A i \in 1 .. Len(items) : /\ at[i] = at[i - 1] + Len(Frame(items[i]))
                                /\ Holds(tape, at[i - 1], Frame(items[i]))
  /\ \A i \in 0 .. Len(items) : at[i] <= at[Len(items)]

\* A frame is the header of the item's length and then the item.
LEMMA FrameIsBytes ==
  ASSUME NEW m \in Seq(Bytes)
  PROVE  /\ Frame(m) \in Seq(Bytes)
         /\ Len(Frame(m)) = HeaderLen + Len(m)
         /\ \A j \in 1 .. HeaderLen : Frame(m)[j] = Header(Len(m))[j]
         /\ \A j \in 1 .. Len(m) : Frame(m)[HeaderLen + j] = m[j]
  <1>1. HeaderLen \in Nat
    BY CodecAssumption
  <1>2. PICK h \in Seq(Bytes) : h = Header(Len(m)) /\ Len(h) = HeaderLen
    BY HeaderIsBytes
  <1>3. Frame(m) = h \o m
    BY <1>2 DEF Frame
  <1>4. /\ h \o m \in Seq(Bytes) /\ Len(h \o m) = HeaderLen + Len(m)
        /\ \A j \in 1 .. HeaderLen + Len(m) :
             (h \o m)[j] = IF j <= HeaderLen THEN h[j] ELSE m[j - HeaderLen]
    BY <1>1, <1>2
  <1>5. ASSUME NEW j \in 1 .. HeaderLen
        PROVE  (h \o m)[j] = h[j]
    <2>1. j \in 1 .. HeaderLen + Len(m) /\ j <= HeaderLen
      BY <1>1
    <2>. QED
      BY <2>1, <1>4
  <1>6. ASSUME NEW j \in 1 .. Len(m)
        PROVE  (h \o m)[HeaderLen + j] = m[j]
    <2>1. PICK k : k = HeaderLen + j
      OBVIOUS
    <2>2. k \in 1 .. HeaderLen + Len(m) /\ ~ (k <= HeaderLen) /\ k - HeaderLen = j
      BY <1>1, <2>1
    <2>3. (h \o m)[k] = m[k - HeaderLen]
      BY <1>4, <2>2
    <2>. QED
      BY <2>1, <2>2, <2>3
  <1>. QED
    BY <1>2, <1>3, <1>4, <1>5, <1>6

(***************************************************************************)
(* A concatenation stands on the tape exactly if its parts do, and so does *)
(* every part of what stands there.                                        *)
(***************************************************************************)
LEMMA HoldsConcat ==
  ASSUME NEW tape, NEW from \in Nat, NEW a \in Seq(Bytes), NEW b \in Seq(Bytes),
         Holds(tape, from, a), Holds(tape, from + Len(a), b)
  PROVE  Holds(tape, from, a \o b)
  <1>1. /\ Len(a \o b) = Len(a) + Len(b) /\ Len(a) \in Nat /\ Len(b) \in Nat
        /\ \A j \in 1 .. Len(a) + Len(b) :
             (a \o b)[j] = IF j <= Len(a) THEN a[j] ELSE b[j - Len(a)]
    OBVIOUS
  <1>2. ASSUME NEW j \in 1 .. Len(a) + Len(b)
        PROVE  (a \o b)[j] = tape[from + j]
    <2>1. CASE j <= Len(a)
      <3>1. j \in 1 .. Len(a)
        BY <1>1, <2>1
      <3>. QED
        BY <3>1, <2>1, <1>1 DEF Holds
    <2>2. CASE ~ (j <= Len(a))
      <3>1. PICK i : i = j - Len(a)
        OBVIOUS
      <3>2. i \in 1 .. Len(b) /\ from + Len(a) + i = from + j
        BY <1>1, <2>2, <3>1
      <3>3. b[i] = tape[from + Len(a) + i]
        BY <3>2 DEF Holds
      <3>. QED
        BY <1>1, <2>2, <3>1, <3>2, <3>3
    <2>. QED
      BY <2>1, <2>2
  <1>. QED
    BY <1>1, <1>2 DEF Holds

\* A part of what stands on the tape stands there at its own place.
LEMMA HoldsPart ==
  ASSUME NEW tape, NEW from \in Nat, NEW a \in Seq(Bytes), Holds(tape, from, a),
         NEW p \in Nat, NEW q \in Nat, p <= q, q <= Len(a)
  PROVE  /\ SubSeq(a, p + 1, q) \in Seq(Bytes)
         /\ Len(SubSeq(a, p + 1, q)) = q - p
         /\ Holds(tape, from + p, SubSeq(a, p + 1, q))
  <1>1. /\ SubSeq(a, p + 1, q) \in Seq(Bytes)
        /\ Len(SubSeq(a, p + 1, q)) = q - p
        /\ \A j \in 1 .. q - p : SubSeq(a, p + 1, q)[j] = a[p + j]
    OBVIOUS
  <1>2. ASSUME NEW j \in 1 .. q - p
        PROVE  a[p + j] = tape[from + p + j]
    <2>1. p + j \in 1 .. Len(a) /\ from + (p + j) = from + p + j
      OBVIOUS
    <2>. QED
      BY <2>1 DEF Holds
  <1>. QED
    BY <1>1, <1>2 DEF Holds

\* What stands on a tape stands on every tape that agrees so far.
LEMMA HoldsSame ==
  ASSUME NEW tape, NEW other, NEW from \in Nat, NEW a \in Seq(Bytes),
         NEW end \in Nat, from + Len(a) <= end,
         \A j \in 1 .. end : other[j] = tape[j],
         Holds(tape, from, a)
  PROVE  Holds(other, from, a)
  <1>1. ASSUME NEW j \in 1 .. Len(a)
        PROVE  a[j] = other[from + j]
    <2>1. from + j \in 1 .. end
      OBVIOUS
    <2>. QED
      BY <2>1 DEF Holds
  <1>. QED
    BY <1>1 DEF Holds

(***************************************************************************)
(* A frame can be added at the end of the tape.                            *)
(***************************************************************************)
LEMMA LayoutGrows ==
  ASSUME NEW tape \in Tapes, NEW at \in Marks,
         NEW items \in Seq(Seq(Bytes)), Layout(tape, at, items),
         NEW m \in Seq(Bytes), NEW more, more = Append(items, m)
  PROVE  \E tape2 \in Tapes, at2 \in Marks :
           /\ Layout(tape2, at2, more)
           /\ \A i \in 0 .. Len(items) : at2[i] = at[i]
           /\ at2[Len(more)] = at[Len(items)] + Len(Frame(m))
           /\ \A j \in 1 .. at[Len(items)] : tape2[j] = tape[j]
           /\ Holds(tape2, at[Len(items)], Frame(m))
  <1>1. PICK n \in Nat : n = Len(items)
    OBVIOUS
  <1>2. /\ more \in Seq(Seq(Bytes)) /\ Len(more) = n + 1 /\ more[n + 1] = m
        /\ \A i \in 1 .. n : more[i] = items[i] /\ items[i] \in Seq(Bytes)
    <2>1. PICK B : B = Seq(Bytes)
      OBVIOUS
    <2>2. items \in Seq(B) /\ m \in B
      BY <2>1
    <2>3. /\ more \in Seq(B) /\ Len(more) = n + 1 /\ more[n + 1] = m
          /\ \A i \in 1 .. n : more[i] = items[i] /\ items[i] \in B
      <3>1. more \in Seq(B) /\ Len(more) = n + 1
        BY <2>2, <1>1
      <3>2. more[n + 1] = m
        BY <2>2, <1>1
      <3>3. ASSUME NEW i \in 1 .. n
            PROVE  more[i] = items[i] /\ items[i] \in B
        <4>1. i \in 1 .. Len(items)
          BY <1>1
        <4>. QED
          BY <2>2, <4>1
      <3>. QED
        BY <3>1, <3>2, <3>3
    <2>. QED
      BY <2>1, <2>3
  <1>3. PICK f \in Seq(Bytes) : f = Frame(m)
    BY FrameIsBytes
  <1>4. PICK from \in Nat : from = at[n]
    BY <1>1 DEF Marks
  <1>5. PICK len \in Nat : len = Len(f)
    BY <1>3
  <1>6. PICK tape2 : tape2 = [j \in Nat |-> IF j \in from + 1 .. from + len
                                              THEN f[j - from] ELSE tape[j]]
    OBVIOUS
  <1>7. PICK at2 : at2 = [i \in Nat |-> IF i = n + 1 THEN from + len ELSE at[i]]
    OBVIOUS
  <1>8. tape2 \in Tapes
    <2>1. ASSUME NEW j \in Nat, j \in from + 1 .. from + len
          PROVE  f[j - from] \in Bytes
      <3>1. j - from \in 1 .. Len(f)
        BY <1>5, <2>1
      <3>. QED
        BY <3>1, <1>3
    <2>. QED
      BY <1>6, <2>1 DEF Tapes
  <1>9. at2 \in Marks
    <2>1. from + len \in Nat
      OBVIOUS
    <2>2. \A i \in Nat : at[i] \in Nat
      BY DEF Marks
    <2>. QED
      BY <1>7, <2>1, <2>2 DEF Marks
  <1>10. /\ \A i \in 0 .. n : at2[i] = at[i]
         /\ at2[n + 1] = from + len
    BY <1>7
  <1>11. \A j \in 1 .. from : tape2[j] = tape[j]
    BY <1>6
  <1>12. Holds(tape2, from, f)
    <2>1. ASSUME NEW j \in 1 .. Len(f)
          PROVE  f[j] = tape2[from + j]
      <3>1. /\ from + j \in Nat /\ from + j \in from + 1 .. from + len
            /\ from + j - from = j
        BY <1>5
      <3>. QED
        BY <3>1, <1>6
    <2>. QED
      BY <2>1 DEF Holds
  <1>13. Layout(tape2, at2, more)
    <2>1. at2[0] = 0
      <3>1. at[0] = 0
        BY DEF Layout
      <3>2. 0 \in 0 .. n
        OBVIOUS
      <3>. QED
        BY <3>1, <3>2, <1>10
    <2>2. ASSUME NEW i \in 1 .. n
          PROVE  /\ at2[i] = at2[i - 1] + Len(Frame(more[i]))
                 /\ Holds(tape2, at2[i - 1], Frame(more[i]))
      <3>0. i - 1 \in 0 .. n /\ i \in 0 .. n /\ i - 1 \in Nat /\ i \in Nat
        OBVIOUS
      <3>1. more[i] = items[i] /\ items[i] \in Seq(Bytes)
        BY <1>2
      <3>2. at2[i] = at[i] /\ at2[i - 1] = at[i - 1] /\ at[i] \in Nat /\ at[i - 1] \in Nat
        BY <1>10, <3>0 DEF Marks
      <3>3. /\ at[i] = at[i - 1] + Len(Frame(items[i]))
            /\ Holds(tape, at[i - 1], Frame(items[i]))
            /\ at[i] <= from
        BY <1>1, <1>4, <3>0 DEF Layout
      <3>4. Frame(items[i]) \in Seq(Bytes)
        BY <3>1, FrameIsBytes
      <3>5. Holds(tape2, at[i - 1], Frame(items[i]))
        <4>1. PICK a \in Nat : a = at[i - 1]
          BY <3>2
        <4>2. PICK g \in Seq(Bytes) : g = Frame(items[i])
          BY <3>4
        <4>3. Holds(tape, a, g) /\ a + Len(g) <= from
          BY <3>3, <4>1, <4>2
        <4>4. Holds(tape2, a, g)
          BY <1>11, <4>3, HoldsSame
        <4>. QED
          BY <4>1, <4>2, <4>4
      <3>. QED
        BY <3>1, <3>2, <3>3, <3>5
    <2> DEFINE Placed(i) == /\ at2[i] = at2[i - 1] + Len(Frame(more[i]))
                            /\ Holds(tape2, at2[i - 1], Frame(more[i]))
    <2>3. Placed(n + 1)
      <3>1. n + 1 - 1 = n /\ n \in 0 .. n
        OBVIOUS
      <3>2. at2[n + 1 - 1] = from
        BY <3>1, <1>4, <1>10
      <3>3. Frame(more[n + 1]) = f
        BY <1>2, <1>3
      <3>4. at2[n + 1] = at2[n + 1 - 1] + Len(f)
        BY <3>2, <1>5, <1>10
      <3>5. Holds(tape2, at2[n + 1 - 1], f)
        BY <3>2, <1>12
      <3>. QED
        BY <3>3, <3>4, <3>5
    <2>4. ASSUME NEW i \in 1 .. n + 1
          PROVE  Placed(i)
      <3>1. ASSUME NEW k \in 1 .. n
            PROVE  Placed(k)
        BY <2>2, Zenon
      <3> HIDE DEF Placed
      <3>2. CASE i = n + 1
        BY <2>3, <3>2
      <3>3. CASE i # n + 1
        <4>1. i \in 1 .. n
          BY <3>3
        <4>. QED
          BY <3>1, <4>1
      <3>. QED
        BY <3>2, <3>3
    <2>5. ASSUME NEW i \in 0 .. n + 1
          PROVE  at2[i] <= at2[n + 1]
      <3>1. CASE i = n + 1
        BY <1>10, <3>1
      <3>2. CASE i # n + 1
        <4>1. i \in 0 .. n
          BY <3>2
        <4>2. at2[i] = at[i] /\ at[i] <= from /\ at[i] \in Nat
          BY <4>1, <1>1, <1>4, <1>10 DEF Layout, Marks
        <4>. QED
          BY <4>2, <1>10
      <3>. QED
        BY <3>1, <3>2
    <2>. QED
      BY <2>1, <2>4, <2>5, <1>2 DEF Layout
  <1>. QED
    BY <1>1, <1>2, <1>3, <1>4, <1>5, <1>8, <1>9, <1>10, <1>11, <1>12, <1>13
-----------------------------------------------------------------------------
(***************************************************************************)
(* The inductive invariant: typed state, items that encode let through;    *)
(* the stream has ended once the reader was told so; and an open reader is *)
(* in step with the frames: what it has and what is under way is the tape  *)
(* behind the frames yielded, to the end unless the stream was cut.        *)
(***************************************************************************)
Shape ==
  /\ writer \in {"open", "closed", "cut"} /\ reader \in {"open", "over", "failed"}
  /\ readable \in BOOLEAN /\ eof \in BOOLEAN
  /\ sent \in Seq(Payloads) /\ yielded \in Seq(Known)
  /\ wire \in Seq(Bytes) /\ src \in Seq(Bytes)

Admitted == \A i \in 1 .. Len(sent) : Len(sent[i]) <= SendMax

Ended == eof => wire = <<>> /\ writer # "open"

InStep(tape, at) ==
  /\ Layout(tape, at, sent)
  /\ Len(yielded) <= Len(sent)
  /\ Holds(tape, at[Len(yielded)], src)
  /\ Holds(tape, at[Len(yielded)] + Len(src), wire)
  /\ at[Len(yielded)] + Len(src) + Len(wire) <= at[Len(sent)]
  /\ writer # "cut" => at[Len(yielded)] + Len(src) + Len(wire) = at[Len(sent)]

Aligned ==
  reader = "open" =>
    \E tape \in Tapes, at \in Marks : InStep(tape, at)

CodecInv == Shape /\ Admitted /\ Ended /\ Aligned /\ NeverWaitsInVain

\* An empty tape will do before the first frame.
LEMMA InitInv == Init => CodecInv
  <1> SUFFICES ASSUME Init
               PROVE  CodecInv
    OBVIOUS
  <1>1. HeaderLen \in Nat /\ HeaderLen > 0 /\ Base \in Nat /\ Base > 0
    BY CodecAssumption
  <1>2. Shape /\ Ended
    <2>1. <<>> \in Seq(Payloads) /\ <<>> \in Seq(Known) /\ <<>> \in Seq(Bytes)
      OBVIOUS
    <2>2. Shape
      BY <2>1 DEF Init, Shape
    <2>3. Ended
      BY DEF Init, Ended
    <2>. QED
      BY <2>2, <2>3
  <1>3. Len(sent) = 0 /\ Len(yielded) = 0 /\ Len(src) = 0 /\ Len(wire) = 0
    BY DEF Init
  <1>4. Admitted
    BY <1>3 DEF Admitted
  <1>5. NeverWaitsInVain
    BY <1>1, <1>3 DEF NeverWaitsInVain, HeaderThere
  <1>6. Aligned
    <2>1. PICK zero : zero = [j \in Nat |-> 0]
      OBVIOUS
    <2>2. zero \in Tapes /\ zero \in Marks /\ zero[0] = 0
      BY <1>1, <2>1 DEF Bytes, Tapes, Marks
    <2>3. Layout(zero, zero, sent)
      BY <1>3, <2>1 DEF Layout
    <2>4. Holds(zero, 0, src) /\ Holds(zero, 0, wire)
      BY <1>3 DEF Holds
    <2>5. InStep(zero, zero)
      BY <1>3, <2>2, <2>3, <2>4 DEF InStep
    <2>. QED
      BY <2>2, <2>5 DEF Aligned
  <1>. QED
    BY <1>2, <1>4, <1>5, <1>6 DEF CodecInv

\* All four sequences have a length.
LEMMA Lengths ==
  ASSUME Shape
  PROVE  /\ Len(src) \in Nat /\ Len(wire) \in Nat
         /\ Len(sent) \in Nat /\ Len(yielded) \in Nat
  <1>1. Len(src) \in Nat
    BY LenProperties DEF Shape
  <1>2. Len(wire) \in Nat
    BY LenProperties DEF Shape
  <1>3. Len(sent) \in Nat
    BY LenProperties DEF Shape
  <1>4. Len(yielded) \in Nat
    BY LenProperties DEF Shape
  <1>. QED
    BY <1>1, <1>2, <1>3, <1>4

\* Items are sequences of bytes.
LEMMA ItemIsBytes ==
  ASSUME NEW m \in Payloads
  PROVE  m \in Seq(Bytes) /\ Len(m) \in Nat
  BY CodecAssumption DEF Bytes

\* The next item's frame stands on the tape where the reader is.
LEMMA NextOnTape ==
  ASSUME Shape, Admitted,
         NEW tape \in Tapes, NEW at \in Marks, InStep(tape, at),
         NEW k \in Nat, k = Len(yielded), k < Len(sent)
  PROVE  /\ k + 1 \in 1 .. Len(sent) /\ sent[k + 1] \in Payloads
         /\ sent[k + 1] \in Seq(Bytes) /\ Len(sent[k + 1]) \in 0 .. SendMax
         /\ at[k + 1] = at[k] + HeaderLen + Len(sent[k + 1])
         /\ at[k + 1] <= at[Len(sent)]
         /\ Holds(tape, at[k], Frame(sent[k + 1]))
  <1>1. k + 1 \in 1 .. Len(sent) /\ k + 1 - 1 = k /\ k + 1 \in 0 .. Len(sent)
    <2>1. PICK n \in Nat : n = Len(sent)
      BY Lengths
    <2>2. k < n
      BY <2>1
    <2>3. k + 1 \in 1 .. n /\ k + 1 - 1 = k /\ k + 1 \in 0 .. n
      BY <2>2
    <2>. QED
      BY <2>1, <2>3
  <1>2. sent[k + 1] \in Payloads
    BY <1>1 DEF Shape
  <1>3. PICK m : m = sent[k + 1]
    OBVIOUS
  <1>4. m \in Seq(Bytes) /\ Len(m) \in Nat
    BY <1>2, <1>3, ItemIsBytes
  <1>5. Len(m) <= SendMax
    BY <1>1, <1>3 DEF Admitted
  <1>6. /\ at[k + 1] = at[k + 1 - 1] + Len(Frame(m))
        /\ Holds(tape, at[k + 1 - 1], Frame(m))
        /\ at[k + 1] <= at[Len(sent)]
    BY <1>1, <1>3 DEF InStep, Layout
  <1>7. Len(Frame(m)) = HeaderLen + Len(m)
    BY <1>4, FrameIsBytes
  <1>8. at[k + 1] = at[k] + HeaderLen + Len(m)
    <2>1. HeaderLen \in Nat /\ at[k] \in Nat
      BY CodecAssumption DEF Marks
    <2>. QED
      BY <1>1, <1>4, <1>6, <1>7, <2>1
  <1>9. Len(m) \in 0 .. SendMax
    BY <1>4, <1>5, CodecAssumption
  <1>10. Holds(tape, at[k], Frame(m))
    BY <1>1, <1>6
  <1>11. /\ k + 1 \in 1 .. Len(sent)
         /\ m \in Seq(Bytes) /\ Len(m) \in 0 .. SendMax
         /\ at[k + 1] = at[k] + HeaderLen + Len(m)
         /\ at[k + 1] <= at[Len(sent)]
         /\ Holds(tape, at[k], Frame(m))
    BY <1>1, <1>4, <1>6, <1>8, <1>9, <1>10
  <1>12. sent[k + 1] = m
    BY <1>3
  <1>. QED
    BY <1>2, <1>11, <1>12

\* The reader's buffer begins with that frame, or with part of it.
LEMMA NextInBuffer ==
  ASSUME Shape, Admitted,
         NEW tape \in Tapes, NEW at \in Marks, InStep(tape, at),
         NEW k \in Nat, k = Len(yielded), src # <<>>
  PROVE  /\ k < Len(sent)
         /\ HeaderThere(src) => FrameLen(src) = Len(sent[k + 1])
         /\ Whole(src) => Body(src) = sent[k + 1]
  <1>1. /\ HeaderLen \in Nat /\ HeaderLen > 0 /\ SendMax \in Nat
        /\ SendMax < Power[HeaderLen] /\ Power[HeaderLen] \in Nat
    BY CodecAssumption, TopPower
  <1>2. /\ Len(src) \in Nat /\ Len(src) > 0 /\ Len(wire) \in Nat /\ Len(sent) \in Nat
        /\ at[k] \in Nat /\ at[Len(sent)] \in Nat
    <2>0. at[k] \in Nat /\ at[Len(sent)] \in Nat
      BY Lengths DEF Marks
    <2>1. src \in Seq(Bytes)
      BY DEF Shape
    <2>2. Len(src) # 0
      BY <2>1
    <2>. QED
      BY <2>0, <2>2, Lengths
  <1>3. k < Len(sent)
    <2>1. at[k] + Len(src) + Len(wire) <= at[Len(sent)] /\ k <= Len(sent)
      BY DEF InStep
    <2>2. k # Len(sent)
      BY <1>2, <2>1
    <2>. QED
      BY <1>2, <2>1, <2>2
  <1>4. PICK m \in Seq(Bytes) : m = sent[k + 1] /\ Len(m) \in 0 .. SendMax
                                 /\ Holds(tape, at[k], Frame(m))
    <2>1. /\ sent[k + 1] \in Seq(Bytes) /\ Len(sent[k + 1]) \in 0 .. SendMax
          /\ Holds(tape, at[k], Frame(sent[k + 1]))
      BY <1>3, NextOnTape
    <2>. QED
      BY <2>1
  <1>5. Holds(tape, at[k], src)
    BY DEF InStep
  <1>6. ASSUME HeaderThere(src)
        PROVE  FrameLen(src) = Len(m)
    <2>1. ASSUME NEW j \in 1 .. HeaderLen
          PROVE  src[j] = Header(Len(m))[j]
      <3>1. j \in 1 .. Len(src)
        BY <1>1, <1>2, <1>6 DEF HeaderThere
      <3>2. src[j] = tape[at[k] + j]
        BY <1>5, <3>1 DEF Holds
      <3>3. /\ Frame(m)[j] = Header(Len(m))[j]
            /\ Len(Frame(m)) = HeaderLen + Len(m)
        BY FrameIsBytes
      <3>4. j \in 1 .. Len(Frame(m))
        BY <1>1, <3>3
      <3>5. Frame(m)[j] = tape[at[k] + j]
        BY <1>4, <3>4 DEF Holds
      <3>. QED
        BY <3>2, <3>3, <3>5
    <2>2. Len(m) \in 0 .. Power[HeaderLen] - 1
      BY <1>4, FitsHeader
    <2>. QED
      BY <2>1, <2>2, HeaderRoundTrip
  <1>7. ASSUME Whole(src)
        PROVE  Body(src) = m
    <2>1. HeaderThere(src) /\ FrameLen(src) = Len(m) /\ Len(m) \in Nat
      <3>1. HeaderThere(src)
        BY <1>7 DEF Whole
      <3>. QED
        BY <1>6, <3>1
    <2>2. Len(src) >= HeaderLen + Len(m)
      BY <1>7, <2>1 DEF Whole
    <2>3. PICK b : b = SubSeq(src, HeaderLen + 1, HeaderLen + Len(m))
      OBVIOUS
    <2>4. /\ b \in Seq(Bytes) /\ Len(b) = Len(m)
          /\ Holds(tape, at[k] + HeaderLen, b)
      <3>1. PICK q \in Nat : q = HeaderLen + Len(m)
        BY <1>1, <2>1
      <3>2. HeaderLen <= q /\ q <= Len(src) /\ q - HeaderLen = Len(m)
        BY <1>1, <2>1, <2>2, <3>1
      <3>3. /\ SubSeq(src, HeaderLen + 1, q) \in Seq(Bytes)
            /\ Len(SubSeq(src, HeaderLen + 1, q)) = q - HeaderLen
            /\ Holds(tape, at[k] + HeaderLen, SubSeq(src, HeaderLen + 1, q))
        BY <1>1, <1>2, <1>5, <3>2, HoldsPart DEF Shape
      <3>. QED
        BY <2>3, <3>1, <3>2, <3>3
    <2>5. ASSUME NEW j \in 1 .. Len(m)
          PROVE  b[j] = m[j]
      <3>1. b[j] = tape[at[k] + HeaderLen + j]
        BY <2>4 DEF Holds
      <3>2. at[k] + HeaderLen + j = at[k] + (HeaderLen + j)
        BY <1>1, <1>2
      <3>3. /\ Frame(m)[HeaderLen + j] = m[j]
            /\ Len(Frame(m)) = HeaderLen + Len(m)
        BY FrameIsBytes
      <3>4. HeaderLen + j \in 1 .. Len(Frame(m))
        BY <1>1, <2>1, <3>3
      <3>5. Frame(m)[HeaderLen + j] = tape[at[k] + (HeaderLen + j)]
        BY <1>4, <3>4 DEF Holds
      <3>. QED
        BY <3>1, <3>2, <3>3, <3>5
    <2>6. b = m
      BY <2>4, <2>5, SeqEqual
    <2>. QED
      BY <2>1, <2>3, <2>6 DEF Body
  <1>. QED
    BY <1>3, <1>4, <1>6, <1>7
-----------------------------------------------------------------------------
(***************************************************************************)
(* The writer's steps.                                                     *)
(***************************************************************************)

\* Steps that leave buffer and reader alone keep it waiting for good reason.
LEMMA WaitsSame ==
  ASSUME NeverWaitsInVain, UNCHANGED <<reader, readable, src>>
  PROVE  NeverWaitsInVain'
  BY DEF NeverWaitsInVain, HeaderThere, FrameLen

\* encode puts one more frame at the end of the tape and of the wire.
LEMMA EncodeInv ==
  ASSUME CodecInv, NEW m \in Payloads, Encode(m)
  PROVE  CodecInv'
  <1>1. Shape /\ Admitted /\ Ended /\ Aligned /\ NeverWaitsInVain
    BY DEF CodecInv
  <1>2. /\ writer = "open" /\ Len(m) <= SendMax
        /\ wire' = wire \o Frame(m) /\ sent' = Append(sent, m)
        /\ UNCHANGED <<writer, src, readable, eof, reader, yielded>>
    BY DEF Encode
  <1>3. m \in Seq(Bytes) /\ Len(m) \in Nat /\ Frame(m) \in Seq(Bytes)
    BY ItemIsBytes, FrameIsBytes
  <1>4. wire' \in Seq(Bytes)
    BY <1>1, <1>2, <1>3 DEF Shape
  <1>5. /\ sent' \in Seq(Payloads) /\ Len(sent') = Len(sent) + 1
        /\ \A i \in 1 .. Len(sent) : sent'[i] = sent[i]
        /\ sent'[Len(sent) + 1] = m
    BY <1>1, <1>2 DEF Shape
  <1>6. Shape'
    BY <1>1, <1>2, <1>4, <1>5 DEF Shape
  <1>7. Admitted'
    <2>1. PICK n \in Nat : n = Len(sent)
      BY <1>1, Lengths
    <2>2. ASSUME NEW i \in 1 .. n + 1
          PROVE  Len(sent'[i]) <= SendMax
      <3>1. CASE i = n + 1
        BY <1>2, <1>5, <2>1, <3>1
      <3>2. CASE i # n + 1
        <4>1. i \in 1 .. n
          BY <3>2
        <4>. QED
          BY <1>1, <1>5, <2>1, <4>1 DEF Admitted
      <3>. QED
        BY <3>1, <3>2
    <2>. QED
      BY <1>5, <2>1, <2>2 DEF Admitted
  <1>8. Ended'
    BY <1>1, <1>2 DEF Ended
  <1>9. Aligned'
    <2>1. SUFFICES ASSUME reader = "open"
                   PROVE  \E tape \in Tapes, at \in Marks : InStep(tape, at)'
      BY <1>2 DEF Aligned
    <2>2. PICK tape \in Tapes, at \in Marks : InStep(tape, at)
      BY <1>1, <2>1 DEF Aligned
    <2>3. PICK n \in Nat, k \in Nat, a \in Nat, b \in Nat :
            n = Len(sent) /\ k = Len(yielded) /\ a = Len(src) /\ b = Len(wire)
      BY <1>1, Lengths
    <2>4. sent \in Seq(Seq(Bytes)) /\ sent' = Append(sent, m)
      <3>1. Payloads \subseteq Seq(Bytes)
        BY ItemIsBytes
      <3>. QED
        BY <1>1, <1>2, <3>1 DEF Shape
    <2>5. Layout(tape, at, sent)
      BY <2>2 DEF InStep
    <2>6. PICK tape2 \in Tapes, at2 \in Marks :
            /\ Layout(tape2, at2, sent')
            /\ \A i \in 0 .. n : at2[i] = at[i]
            /\ at2[Len(sent')] = at[n] + Len(Frame(m))
            /\ \A j \in 1 .. at[n] : tape2[j] = tape[j]
            /\ Holds(tape2, at[n], Frame(m))
      BY <1>3, <2>3, <2>4, <2>5, LayoutGrows
    <2>7. /\ k <= n /\ Holds(tape, at[k], src) /\ Holds(tape, at[k] + a, wire)
          /\ at[k] + a + b = at[n]
      BY <1>2, <2>2, <2>3 DEF InStep
    <2>8. PICK from \in Nat, end \in Nat : from = at[k] /\ end = at[n]
      BY DEF Marks
    <2>9. at2[k] = from
      BY <2>3, <2>6, <2>7, <2>8
    <2>10. src \in Seq(Bytes) /\ wire \in Seq(Bytes)
      BY <1>1 DEF Shape
    <2>11. from + a <= end /\ from + a \in Nat /\ from + a + b = end
      BY <2>7, <2>8
    <2>12. Holds(tape2, from, src) /\ Holds(tape2, from + a, wire)
      <3>1. \A j \in 1 .. end : tape2[j] = tape[j]
        BY <2>6, <2>8
      <3>2. Holds(tape, from, src) /\ from + Len(src) <= end
        BY <2>3, <2>7, <2>8, <2>11
      <3>3. Holds(tape, from + a, wire) /\ from + a + Len(wire) <= end
        BY <2>3, <2>7, <2>8, <2>11
      <3>4. Holds(tape2, from, src)
        BY <2>10, <3>1, <3>2, HoldsSame
      <3>5. Holds(tape2, from + a, wire)
        BY <2>10, <2>11, <3>1, <3>3, HoldsSame
      <3>. QED
        BY <3>4, <3>5
    <2>14. Holds(tape2, from + a, wire \o Frame(m))
      <3>1. Holds(tape2, from + a + Len(wire), Frame(m))
        BY <2>3, <2>6, <2>8, <2>11
      <3>. QED
        BY <1>3, <2>10, <2>11, <2>12, <3>1, HoldsConcat
    <2>15. PICK f \in Nat : f = Len(Frame(m)) /\ Len(wire') = b + f
      BY <1>2, <1>3, <2>3, <2>10
    <2>16. from + a + (b + f) = end + f
      BY <2>11
    <2>17. InStep(tape2, at2)'
      <3>1. Len(yielded') <= Len(sent')
        BY <1>2, <1>5, <2>3, <2>7
      <3>2. Holds(tape2, at2[Len(yielded')], src')
        BY <1>2, <2>3, <2>9, <2>12
      <3>3. Holds(tape2, at2[Len(yielded')] + Len(src'), wire')
        BY <1>2, <2>3, <2>9, <2>14
      <3>4. at2[Len(yielded')] + Len(src') + Len(wire') = at2[Len(sent')]
        BY <1>2, <2>3, <2>6, <2>8, <2>9, <2>15, <2>16
      <3>5. at2[Len(sent')] \in Nat
        BY <2>6, <2>8, <2>15
      <3>. QED
        BY <2>6, <3>1, <3>2, <3>3, <3>4, <3>5 DEF InStep
    <2>. QED
      BY <2>17
  <1>10. NeverWaitsInVain'
    BY <1>1, <1>2, WaitsSame
  <1>. QED
    BY <1>6, <1>7, <1>8, <1>9, <1>10 DEF CodecInv

\* Steps that move no byte keep the reader in step.
LEMMA AlignedSame ==
  ASSUME Aligned, UNCHANGED <<sent, yielded, src, wire, reader>>,
         writer' # "cut" => writer # "cut"
  PROVE  Aligned'
  <1>1. SUFFICES ASSUME reader = "open"
                 PROVE  \E tape \in Tapes, at \in Marks : InStep(tape, at)'
    BY DEF Aligned
  <1>2. PICK tape \in Tapes, at \in Marks : InStep(tape, at)
    BY <1>1 DEF Aligned
  <1>3. InStep(tape, at)'
    BY <1>2 DEF InStep
  <1>. QED
    BY <1>3

\* A refused item leaves nothing behind.
LEMMA EncodeTooLongInv ==
  ASSUME CodecInv, NEW m \in Payloads, EncodeTooLong(m)
  PROVE  CodecInv'
  <1>1. Shape /\ Admitted /\ Ended /\ Aligned /\ NeverWaitsInVain
    BY DEF CodecInv
  <1>2. /\ writer = "open" /\ writer' = "closed"
        /\ UNCHANGED <<sent, wire, src, readable, eof, reader, yielded>>
    BY DEF EncodeTooLong
  <1>3. Shape' /\ Admitted' /\ Ended'
    BY <1>1, <1>2 DEF Shape, Admitted, Ended
  <1>4. Aligned' /\ NeverWaitsInVain'
    BY <1>1, <1>2, AlignedSame, WaitsSame
  <1>. QED
    BY <1>3, <1>4 DEF CodecInv

\* A cut takes the end of the wire away and nothing else.
LEMMA CloseInv ==
  ASSUME CodecInv, Close
  PROVE  CodecInv'
  <1>1. Shape /\ Admitted /\ Ended /\ Aligned /\ NeverWaitsInVain
    BY DEF CodecInv
  <1>2. /\ writer = "open"
        /\ UNCHANGED <<sent, src, readable, eof, reader, yielded>>
    BY DEF Close
  <1>3. NeverWaitsInVain'
    BY <1>1, <1>2, WaitsSame
  <1>4. CASE writer' = "closed" /\ UNCHANGED wire
    <2>1. Shape' /\ Admitted' /\ Ended'
      BY <1>1, <1>2, <1>4 DEF Shape, Admitted, Ended
    <2>2. Aligned'
      BY <1>1, <1>2, <1>4, AlignedSame
    <2>. QED
      BY <1>3, <2>1, <2>2 DEF CodecInv
  <1>5. ASSUME NEW n \in 0 .. Len(wire), writer' = "cut", wire' = SubSeq(wire, 1, n)
        PROVE  CodecInv'
    <2>1. wire \in Seq(Bytes) /\ Len(wire) \in Nat
      BY <1>1, Lengths DEF Shape
    <2>2. n \in Nat /\ n <= Len(wire) /\ 0 <= n /\ n - 0 = n
      BY <1>5, <2>1
    <2>3. wire' = SubSeq(wire, 0 + 1, n)
      BY <1>5
    <2>4. wire' \in Seq(Bytes) /\ Len(wire') = n
      <3>1. Holds(wire, 0, wire)
        BY DEF Holds
      <3>. QED
        BY <2>1, <2>2, <2>3, <3>1, HoldsPart
    <2>5. Shape' /\ Admitted' /\ Ended'
      <3>1. Shape'
        BY <1>1, <1>2, <1>5, <2>4 DEF Shape
      <3>2. Admitted' /\ Ended'
        BY <1>1, <1>2, <1>5 DEF Admitted, Ended
      <3>. QED
        BY <3>1, <3>2
    <2>6. Aligned'
      <3>1. SUFFICES ASSUME reader = "open"
                     PROVE  \E tape \in Tapes, at \in Marks : InStep(tape, at)'
        BY <1>2 DEF Aligned
      <3>2. PICK tape \in Tapes, at \in Marks : InStep(tape, at)
        BY <1>1, <3>1 DEF Aligned
      <3>3. PICK k \in Nat, a \in Nat, b \in Nat, l \in Nat :
              k = Len(yielded) /\ a = Len(src) /\ b = Len(wire) /\ l = Len(sent)
        BY <1>1, Lengths
      <3>4. PICK from \in Nat, end \in Nat : from = at[k] + a /\ end = at[l]
        <4>1. at[k] \in Nat /\ at[l] \in Nat
          BY DEF Marks
        <4>2. at[k] + a \in Nat
          BY <4>1
        <4>. QED
          BY <4>1, <4>2
      <3>5. /\ Layout(tape, at, sent) /\ k <= l
            /\ Holds(tape, at[k], src) /\ Holds(tape, from, wire)
            /\ from + b <= end
        BY <3>2, <3>3, <3>4 DEF InStep
      <3>6. Holds(tape, from + 0, wire')
        BY <2>1, <2>2, <2>3, <3>5, HoldsPart
      <3>7. from + 0 = from /\ from + n <= end
        BY <2>2, <3>3, <3>5
      <3>8. InStep(tape, at)'
        BY <1>2, <1>5, <2>4, <3>3, <3>4, <3>5, <3>6, <3>7 DEF InStep
      <3>. QED
        BY <3>8
    <2>. QED
      BY <1>3, <2>5, <2>6 DEF CodecInv
  <1>. QED
    BY <1>4, <1>5 DEF Close
-----------------------------------------------------------------------------
(***************************************************************************)
(* The reader's steps.                                                     *)
(***************************************************************************)

\* A read moves the front of the wire to the end of the buffer.
LEMMA ReadInv ==
  ASSUME CodecInv, NEW n \in 1 .. Len(wire), Read(n)
  PROVE  CodecInv'
  <1>1. Shape /\ Admitted /\ Ended /\ Aligned /\ NeverWaitsInVain
    BY DEF CodecInv
  <1>2. /\ reader = "open"
        /\ src' = src \o SubSeq(wire, 1, n)
        /\ wire' = SubSeq(wire, n + 1, Len(wire))
        /\ readable' = TRUE
        /\ UNCHANGED <<writer, sent, eof, reader, yielded>>
    BY DEF Read
  <1>3. PICK b \in Nat : b = Len(wire)
    BY <1>1, Lengths
  <1>4. n \in Nat /\ n <= b /\ 0 <= n /\ b <= b /\ n > 0
    BY <1>3
  <1>5. src \in Seq(Bytes) /\ wire \in Seq(Bytes)
    BY <1>1 DEF Shape
  <1>6. PICK part \in Seq(Bytes) : part = SubSeq(wire, 0 + 1, n)
    <2>1. Holds(wire, 0, wire)
      BY DEF Holds
    <2>. QED
      BY <1>3, <1>4, <1>5, <2>1, HoldsPart
  <1>7. src' = src \o part
    BY <1>2, <1>6
  <1>8. /\ wire' \in Seq(Bytes) /\ Len(wire') = b - n /\ Len(part) = n
    <2>1. Holds(wire, 0, wire)
      BY DEF Holds
    <2>2. Len(part) = n - 0
      BY <1>3, <1>4, <1>5, <1>6, <2>1, HoldsPart
    <2>3. wire' \in Seq(Bytes) /\ Len(wire') = b - n
      BY <1>2, <1>3, <1>4, <1>5, <2>1, HoldsPart
    <2>. QED
      BY <1>4, <2>2, <2>3
  <1>9. src' \in Seq(Bytes) /\ Len(src') = Len(src) + n
    <2>1. src \o part \in Seq(Bytes) /\ Len(src \o part) = Len(src) + Len(part)
      BY <1>5, ConcatProperties
    <2>. QED
      BY <1>7, <1>8, <2>1
  <1>10. Shape'
    BY <1>1, <1>2, <1>8, <1>9 DEF Shape
  <1>11. Admitted'
    BY <1>1, <1>2 DEF Admitted
  <1>12. Ended'
    <2>1. wire # <<>>
      BY <1>3, <1>4
    <2>. QED
      BY <1>1, <1>2, <2>1 DEF Ended
  <1>13. NeverWaitsInVain'
    BY <1>2 DEF NeverWaitsInVain
  <1>14. Aligned'
    <2>1. PICK tape \in Tapes, at \in Marks : InStep(tape, at)
      BY <1>1, <1>2 DEF Aligned
    <2>2. PICK k \in Nat, a \in Nat, l \in Nat :
            k = Len(yielded) /\ a = Len(src) /\ l = Len(sent)
      BY <1>1, Lengths
    <2>3. PICK from \in Nat, end \in Nat : from = at[k] /\ end = at[l]
      BY DEF Marks
    <2>4. /\ Layout(tape, at, sent) /\ k <= l
          /\ Holds(tape, from, src) /\ Holds(tape, from + a, wire)
          /\ from + a + b <= end /\ (writer # "cut" => from + a + b = end)
      BY <1>3, <2>1, <2>2, <2>3 DEF InStep
    <2>5. from + a \in Nat
      OBVIOUS
    <2>6. Holds(tape, from + a, part)
      <3>1. Holds(tape, from + a + 0, part)
        BY <1>3, <1>4, <1>5, <1>6, <2>4, <2>5, HoldsPart
      <3>2. from + a + 0 = from + a
        OBVIOUS
      <3>. QED
        BY <3>1, <3>2
    <2>7. Holds(tape, from, src')
      BY <1>5, <1>7, <2>2, <2>4, <2>6, HoldsConcat
    <2>8. Holds(tape, from + a + n, wire')
      BY <1>2, <1>3, <1>4, <1>5, <2>4, <2>5, HoldsPart
    <2>9. /\ from + (a + n) = from + a + n
          /\ from + (a + n) + (b - n) = from + a + b
      BY <1>4
    <2>10. /\ Len(src') = a + n /\ Len(wire') = b - n
           /\ at[Len(yielded')] = from /\ at[Len(sent')] = end
           /\ Len(yielded') <= Len(sent')
      BY <1>2, <1>8, <1>9, <2>2, <2>3, <2>4
    <2>11. InStep(tape, at)'
      BY <1>2, <2>4, <2>7, <2>8, <2>9, <2>10 DEF InStep
    <2>. QED
      BY <2>11 DEF Aligned
  <1>. QED
    BY <1>10, <1>11, <1>12, <1>13, <1>14 DEF CodecInv

\* The end of the stream is seen only with nothing under way.
LEMMA ReadEndInv ==
  ASSUME CodecInv, ReadEnd
  PROVE  CodecInv'
  <1>1. Shape /\ Admitted /\ Ended /\ Aligned /\ NeverWaitsInVain
    BY DEF CodecInv
  <1>2. /\ wire = <<>> /\ writer # "open" /\ eof' = TRUE /\ readable' = TRUE
        /\ UNCHANGED <<writer, sent, wire, src, reader, yielded>>
    BY DEF ReadEnd
  <1>3. Shape' /\ Admitted' /\ Ended'
    BY <1>1, <1>2 DEF Shape, Admitted, Ended
  <1>4. Aligned'
    BY <1>1, <1>2, AlignedSame
  <1>5. NeverWaitsInVain'
    BY <1>2 DEF NeverWaitsInVain
  <1>. QED
    BY <1>3, <1>4, <1>5 DEF CodecInv

\* What deserializes is of the reader's type.
LEMMA ParseKnown ==
  ASSUME NEW body, Parse(body) # Refused
  PROVE  Parse(body) \in Known
  BY DEF Parse

(***************************************************************************)
(* A whole frame in front of an open reader is the next item's, and what   *)
(* decode leaves in the buffer begins with the frame behind it.            *)
(***************************************************************************)
LEMMA WholeFrame ==
  ASSUME CodecInv, reader = "open", Whole(src)
  PROVE  /\ Len(yielded) < Len(sent)
         /\ sent[Len(yielded) + 1] \in Payloads
         /\ Len(sent[Len(yielded) + 1]) <= RecvMax
         /\ Body(src) = sent[Len(yielded) + 1]
         /\ Rest(src) \in Seq(Bytes)
         /\ \E tape \in Tapes, at \in Marks :
              /\ InStep(tape, at)
              /\ at[Len(yielded) + 1] + Len(Rest(src)) = at[Len(yielded)] + Len(src)
              /\ Holds(tape, at[Len(yielded) + 1], Rest(src))
  <1>1. Shape /\ Admitted /\ Aligned
    BY DEF CodecInv
  <1>2. PICK tape \in Tapes, at \in Marks : InStep(tape, at)
    BY <1>1 DEF Aligned
  <1>3. PICK k \in Nat, a \in Nat, l \in Nat :
          k = Len(yielded) /\ a = Len(src) /\ l = Len(sent)
    BY <1>1, Lengths
  <1>4. HeaderLen \in Nat /\ HeaderLen > 0 /\ RecvMax \in Nat
    BY CodecAssumption
  <1>5. HeaderThere(src) /\ src # <<>>
    <2>1. HeaderThere(src)
      BY DEF Whole
    <2>2. a > 0
      BY <1>3, <1>4, <2>1 DEF HeaderThere
    <2>. QED
      BY <1>3, <2>1, <2>2
  <1>6. k < Len(sent) /\ FrameLen(src) = Len(sent[k + 1]) /\ Body(src) = sent[k + 1]
    BY <1>1, <1>2, <1>3, <1>5, NextInBuffer
  <1>7. PICK m \in Payloads : m = sent[k + 1]
    BY <1>1, <1>2, <1>3, <1>6, NextOnTape
  <1>8. m \in Seq(Bytes) /\ Len(m) \in Nat /\ FrameLen(src) = Len(m)
    BY <1>6, <1>7, ItemIsBytes
  <1>9. Len(m) <= RecvMax
    BY <1>4, <1>8 DEF Whole, Oversized
  <1>10. PICK f \in Nat : f = HeaderLen + Len(m)
    BY <1>4, <1>8
  <1>11. f <= a
    BY <1>3, <1>8, <1>10 DEF Whole
  <1>12. PICK from \in Nat : from = at[k]
    BY DEF Marks
  <1>13. at[k + 1] = from + f
    <2>1. at[k + 1] = from + HeaderLen + Len(m)
      BY <1>1, <1>2, <1>3, <1>6, <1>7, <1>12, NextOnTape
    <2>2. from + HeaderLen + Len(m) = from + (HeaderLen + Len(m))
      BY <1>4, <1>8
    <2>. QED
      BY <1>10, <2>1, <2>2
  <1>14. Rest(src) = SubSeq(src, f + 1, a)
    BY <1>3, <1>8, <1>10 DEF Rest
  <1>15. /\ Rest(src) \in Seq(Bytes) /\ Len(Rest(src)) = a - f
         /\ Holds(tape, from + f, Rest(src))
    <2>1. src \in Seq(Bytes)
      BY <1>1 DEF Shape
    <2>2. Holds(tape, from, src)
      BY <1>2, <1>3, <1>12 DEF InStep
    <2>3. a <= Len(src)
      BY <1>3
    <2>. QED
      BY <1>11, <1>14, <2>1, <2>2, <2>3, HoldsPart
  <1>16. at[k + 1] + Len(Rest(src)) = at[k] + Len(src)
    <2>1. from + f + (a - f) = from + a
      OBVIOUS
    <2>. QED
      BY <2>1, <1>3, <1>12, <1>13, <1>15
  <1>17. Holds(tape, at[k + 1], Rest(src))
    BY <1>13, <1>15
  <1>. QED
    BY <1>2, <1>3, <1>6, <1>7, <1>9, <1>15, <1>16, <1>17

\* decode takes one frame away and stays in step.
LEMMA DecodeItemInv ==
  ASSUME CodecInv, DecodeItem
  PROVE  CodecInv'
  <1>1. Shape /\ Admitted /\ Ended /\ Aligned /\ NeverWaitsInVain
    BY DEF CodecInv
  <1>2. /\ reader = "open" /\ readable = TRUE /\ Whole(src)
        /\ yielded' = Append(yielded, Parse(Body(src))) /\ src' = Rest(src)
        /\ UNCHANGED <<writer, sent, wire, readable, eof, reader>>
    BY <1>1 DEF DecodeItem, Shape
  <1>3. Parse(Body(src)) \in Known
    BY ParseKnown DEF DecodeItem
  <1>4. PICK tape \in Tapes, at \in Marks :
          /\ InStep(tape, at)
          /\ at[Len(yielded) + 1] + Len(Rest(src)) = at[Len(yielded)] + Len(src)
          /\ Holds(tape, at[Len(yielded) + 1], Rest(src))
    BY <1>2, WholeFrame
  <1>5. Len(yielded) < Len(sent) /\ src' \in Seq(Bytes)
    BY <1>2, WholeFrame
  <1>6. yielded' \in Seq(Known) /\ Len(yielded') = Len(yielded) + 1
    BY <1>1, <1>2, <1>3 DEF Shape
  <1>7. Shape'
    BY <1>1, <1>2, <1>5, <1>6 DEF Shape
  <1>8. Admitted' /\ Ended'
    BY <1>1, <1>2 DEF Admitted, Ended
  <1>9. NeverWaitsInVain'
    BY <1>2 DEF NeverWaitsInVain
  <1>10. Aligned'
    <2>1. PICK k \in Nat, a \in Nat, b \in Nat, l \in Nat :
            k = Len(yielded) /\ a = Len(src) /\ b = Len(wire) /\ l = Len(sent)
      BY <1>1, Lengths
    <2>2. PICK from \in Nat, next \in Nat, end \in Nat :
            from = at[k] /\ next = at[k + 1] /\ end = at[l]
      BY DEF Marks
    <2>3. /\ Layout(tape, at, sent) /\ Holds(tape, from + a, wire)
          /\ from + a + b <= end /\ (writer # "cut" => from + a + b = end)
      BY <1>4, <2>1, <2>2 DEF InStep
    <2>4. PICK r \in Nat : r = Len(src')
      BY <1>5, LenProperties
    <2>5. next + r = from + a
      BY <1>2, <1>4, <2>1, <2>2, <2>4
    <2>6. /\ at[Len(yielded')] = next /\ at[Len(sent')] = end
          /\ Len(yielded') <= Len(sent') /\ Len(wire') = b
      BY <1>2, <1>5, <1>6, <2>1, <2>2
    <2>7. Holds(tape, next, src')
      BY <1>2, <1>4, <2>1, <2>2
    <2>8. Holds(tape, next + r, wire')
      BY <1>2, <2>3, <2>5
    <2>9. InStep(tape, at)'
      <3>1. Layout(tape, at, sent')
        BY <1>2, <2>3
      <3>2. /\ at[Len(yielded')] + Len(src') + Len(wire') <= at[Len(sent')]
            /\ writer' # "cut" =>
                 at[Len(yielded')] + Len(src') + Len(wire') = at[Len(sent')]
        BY <1>2, <2>3, <2>4, <2>5, <2>6
      <3>. QED
        BY <2>4, <2>6, <2>7, <2>8, <3>1, <3>2 DEF InStep
    <2>. QED
      BY <2>9 DEF Aligned
  <1>. QED
    BY <1>7, <1>8, <1>9, <1>10 DEF CodecInv

\* A reader that failed is asked for nothing more.
LEMMA DecodeErrorInv ==
  ASSUME CodecInv, DecodeError
  PROVE  CodecInv'
  <1>1. Shape /\ Admitted /\ Ended
    BY DEF CodecInv
  <1>2. /\ reader = "open" /\ reader' = "failed"
        /\ UNCHANGED <<writer, sent, wire, readable, eof, yielded>>
    BY DEF DecodeError
  <1>3. src' \in Seq(Bytes)
    <2>1. CASE UNCHANGED src
      BY <1>1, <2>1 DEF Shape
    <2>2. CASE Whole(src) /\ src' = Rest(src)
      BY <1>2, <2>2, WholeFrame
    <2>. QED
      BY <2>1, <2>2 DEF DecodeError
  <1>4. Shape' /\ Admitted' /\ Ended'
    BY <1>1, <1>2, <1>3 DEF Shape, Admitted, Ended
  <1>5. Aligned' /\ NeverWaitsInVain'
    BY <1>2 DEF Aligned, NeverWaitsInVain
  <1>. QED
    BY <1>4, <1>5 DEF CodecInv

\* More is awaited only for an admissible frame not yet whole.
LEMMA DecodeNeedsMoreInv ==
  ASSUME CodecInv, DecodeNeedsMore
  PROVE  CodecInv'
  <1>1. Shape /\ Admitted /\ Ended /\ Aligned
    BY DEF CodecInv
  <1>2. /\ reader = "open" /\ ~Oversized(src) /\ ~Whole(src) /\ readable' = FALSE
        /\ UNCHANGED <<writer, sent, wire, src, eof, reader, yielded>>
    BY DEF DecodeNeedsMore
  <1>3. Shape' /\ Admitted' /\ Ended'
    BY <1>1, <1>2 DEF Shape, Admitted, Ended
  <1>4. Aligned'
    BY <1>1, <1>2, AlignedSame
  <1>5. ASSUME HeaderThere(src)
        PROVE  FrameLen(src) <= RecvMax /\ Len(src) < HeaderLen + FrameLen(src)
    <2>1. PICK a \in Nat : a = Len(src)
      BY <1>1, Lengths
    <2>2. HeaderLen \in Nat /\ RecvMax \in Nat
      BY CodecAssumption
    <2>3. FrameLen(src) \in Nat
      <3>1. ASSUME NEW i \in 1 .. HeaderLen
            PROVE  src[i] \in Bytes
        <4>1. i \in 1 .. a
          BY <1>5, <2>1, <2>2 DEF HeaderThere
        <4>. QED
          BY <1>1, <2>1, <4>1 DEF Shape
      <3>. QED
        BY <3>1, FrameLenIsNat
    <2>4. ~ (FrameLen(src) > RecvMax) /\ ~ (a >= HeaderLen + FrameLen(src))
      BY <1>2, <1>5, <2>1 DEF Oversized, Whole
    <2>. QED
      BY <2>1, <2>2, <2>3, <2>4
  <1>6. NeverWaitsInVain'
    BY <1>2, <1>5 DEF NeverWaitsInVain, HeaderThere, FrameLen
  <1>. QED
    BY <1>3, <1>4, <1>6 DEF CodecInv

\* decode_eof ends the reader.
LEMMA DecodeEofInv ==
  ASSUME CodecInv, DecodeEof
  PROVE  CodecInv'
  <1>1. Shape /\ Admitted /\ Ended
    BY DEF CodecInv
  <1>2. /\ reader' \in {"over", "failed"}
        /\ UNCHANGED <<writer, sent, wire, src, readable, eof, yielded>>
    BY DEF DecodeEof
  <1>3. Shape' /\ Admitted' /\ Ended'
    BY <1>1, <1>2 DEF Shape, Admitted, Ended
  <1>4. Aligned' /\ NeverWaitsInVain'
    BY <1>2 DEF Aligned, NeverWaitsInVain
  <1>. QED
    BY <1>3, <1>4 DEF CodecInv

\* Every step keeps the invariant.
LEMMA StepInv == CodecInv /\ [Next]_vars => CodecInv'
  <1> SUFFICES ASSUME CodecInv, [Next]_vars
               PROVE  CodecInv'
    OBVIOUS
  <1>1. ASSUME NEW m \in Payloads, Encode(m)
        PROVE  CodecInv'
    BY <1>1, EncodeInv
  <1>2. ASSUME NEW m \in Payloads, EncodeTooLong(m)
        PROVE  CodecInv'
    BY <1>2, EncodeTooLongInv
  <1>3. CASE Close
    BY <1>3, CloseInv
  <1>4. ASSUME NEW n \in 1 .. Len(wire), Read(n)
        PROVE  CodecInv'
    BY <1>4, ReadInv
  <1>5. CASE ReadEnd
    BY <1>5, ReadEndInv
  <1>6. CASE DecodeItem
    BY <1>6, DecodeItemInv
  <1>7. CASE DecodeError
    BY <1>7, DecodeErrorInv
  <1>8. CASE DecodeNeedsMore
    BY <1>8, DecodeNeedsMoreInv
  <1>9. CASE DecodeEof
    BY <1>9, DecodeEofInv
  <1>10. CASE UNCHANGED vars
    <2>1. Shape /\ Admitted /\ Ended /\ Aligned /\ NeverWaitsInVain
      BY DEF CodecInv
    <2>2. Shape' /\ Admitted' /\ Ended'
      BY <2>1, <1>10 DEF vars, Shape, Admitted, Ended
    <2>3. Aligned' /\ NeverWaitsInVain'
      BY <2>1, <1>10, AlignedSame, WaitsSame DEF vars
    <2>. QED
      BY <2>2, <2>3 DEF CodecInv
  <1>. QED
    BY <1>1, <1>2, <1>3, <1>4, <1>5, <1>6, <1>7, <1>8, <1>9, <1>10 DEF Next, Poll
-----------------------------------------------------------------------------
(***************************************************************************)
(* The reader is in step with the frames in every reachable state.         *)
(***************************************************************************)
THEOREM Invariance == Spec => []CodecInv
  BY InitInv, StepInv, PTL DEF Spec

(***************************************************************************)
(* No chunking makes decode hold back a whole item, or wait for a frame it *)
(* will refuse.                                                            *)
(***************************************************************************)
THEOREM NoVainWait == Spec => []NeverWaitsInVain
  <1>1. CodecInv => NeverWaitsInVain
    BY DEF CodecInv
  <1>. QED
    BY <1>1, Invariance, PTL
-----------------------------------------------------------------------------
(***************************************************************************)
(* Each step of the codec is a step or a stutter of the channel of items.  *)
(***************************************************************************)
Meaning(m) == IF Len(m) > RecvMax THEN Refused ELSE Parse(m)

\* The codec starts as the channel does.
LEMMA ChannelInit == Init => Channel!Init
  BY DEF Init, Channel!Init

\* A decoded item is the channel's next item.
LEMMA ChannelYield ==
  ASSUME CodecInv, DecodeItem
  PROVE  Channel!Yield
  <1>1. /\ reader = "open" /\ Whole(src) /\ Parse(Body(src)) # Refused
        /\ yielded' = Append(yielded, Parse(Body(src)))
        /\ UNCHANGED <<writer, sent, reader>>
    BY DEF DecodeItem
  <1>2. PICK m \in Payloads : m = sent[Len(yielded) + 1] /\ m = Body(src)
    BY <1>1, WholeFrame
  <1>3. Len(yielded) < Len(sent) /\ Len(m) <= RecvMax
    BY <1>1, <1>2, WholeFrame
  <1>4. ~ (Len(m) > RecvMax)
    BY <1>2, <1>3, ItemIsBytes, CodecAssumption
  <1>5. Meaning(m) = Parse(Body(src))
    BY <1>2, <1>4 DEF Meaning
  <1>6. [p \in Payloads |-> IF Len(p) > RecvMax THEN Refused ELSE Parse(p)][m]
          = Parse(Body(src))
    BY <1>5 DEF Meaning
  <1>. QED
    BY <1>1, <1>2, <1>3, <1>6 DEF Channel!Yield, Channel!Pending, Channel!Upcoming

(***************************************************************************)
(* The channel fails where the next item is refused.                       *)
(***************************************************************************)
LEMMA ChannelRefuses ==
  ASSUME reader = "open", reader' = "failed", UNCHANGED <<writer, sent, yielded>>,
         Len(yielded) < Len(sent),
         NEW m \in Payloads, m = sent[Len(yielded) + 1], Meaning(m) = Refused
  PROVE  Channel!Fail
  <1>1. [p \in Payloads |-> IF Len(p) > RecvMax THEN Refused ELSE Parse(p)][m] = Refused
    BY DEF Meaning
  <1>. QED
    BY <1>1 DEF Channel!Fail, Channel!Pending, Channel!Upcoming

\* A failure before the end of the stream is a refusal of the next item.
LEMMA ChannelFail ==
  ASSUME CodecInv, DecodeError
  PROVE  Channel!Fail
  <1>1. Shape /\ Admitted /\ Aligned
    BY DEF CodecInv
  <1>2. /\ reader = "open" /\ reader' = "failed"
        /\ UNCHANGED <<writer, sent, yielded>>
    BY DEF DecodeError
  <1>3. CASE Oversized(src)
    <2>1. PICK tape \in Tapes, at \in Marks : InStep(tape, at)
      BY <1>1, <1>2 DEF Aligned
    <2>2. PICK k \in Nat, a \in Nat : k = Len(yielded) /\ a = Len(src)
      BY <1>1, Lengths
    <2>3. HeaderThere(src) /\ FrameLen(src) > RecvMax
      BY <1>3 DEF Oversized
    <2>4. src # <<>>
      <3>1. a > 0
        BY <2>2, <2>3, CodecAssumption DEF HeaderThere
      <3>. QED
        BY <2>2, <3>1
    <2>5. k < Len(sent) /\ FrameLen(src) = Len(sent[k + 1])
      BY <1>1, <2>1, <2>2, <2>3, <2>4, NextInBuffer
    <2>6. PICK m \in Payloads : m = sent[k + 1]
      BY <1>1, <2>1, <2>2, <2>5, NextOnTape
    <2>7. Meaning(m) = Refused
      BY <2>3, <2>5, <2>6 DEF Meaning
    <2>. QED
      BY <1>2, <2>2, <2>5, <2>6, <2>7, ChannelRefuses
  <1>4. CASE Whole(src) /\ Parse(Body(src)) = Refused
    <2>1. PICK m \in Payloads : m = sent[Len(yielded) + 1] /\ m = Body(src)
      BY <1>2, <1>4, WholeFrame
    <2>2. Len(yielded) < Len(sent)
      BY <1>2, <1>4, WholeFrame
    <2>3. Meaning(m) = Refused
      BY <1>4, <2>1 DEF Meaning
    <2>. QED
      BY <1>2, <2>1, <2>2, <2>3, ChannelRefuses
  <1>. QED
    BY <1>3, <1>4 DEF DecodeError

(***************************************************************************)
(* At the end of the stream an empty buffer means that every item was      *)
(* yielded, and part of a frame that the stream was cut.                   *)
(***************************************************************************)
LEMMA ChannelEnd ==
  ASSUME CodecInv, DecodeEof
  PROVE  Channel!End \/ Channel!Fail
  <1>1. Shape /\ Admitted /\ Ended /\ Aligned
    BY DEF CodecInv
  <1>2. /\ reader = "open" /\ eof /\ ~Oversized(src) /\ ~Whole(src)
        /\ reader' = IF src = <<>> THEN "over" ELSE "failed"
        /\ UNCHANGED <<writer, sent, yielded>>
    BY DEF DecodeEof
  <1>3. wire = <<>> /\ writer \in {"closed", "cut"}
    BY <1>1, <1>2 DEF Ended, Shape
  <1>4. CASE writer = "cut"
    BY <1>2, <1>4 DEF Channel!End, Channel!Fail
  <1>5. CASE writer = "closed"
    <2>1. PICK tape \in Tapes, at \in Marks : InStep(tape, at)
      BY <1>1, <1>2 DEF Aligned
    <2>2. PICK k \in Nat, a \in Nat, l \in Nat :
            k = Len(yielded) /\ a = Len(src) /\ l = Len(sent)
      BY <1>1, Lengths
    <2>3. PICK from \in Nat, end \in Nat : from = at[k] /\ end = at[l]
      BY DEF Marks
    <2>4. k <= l /\ from + a = end
      <3>1. Len(wire) = 0
        BY <1>3
      <3>2. k <= l /\ from + a + Len(wire) = end
        BY <1>5, <2>1, <2>2, <2>3 DEF InStep
      <3>. QED
        BY <3>1, <3>2
    <2>5. HeaderLen \in Nat /\ HeaderLen > 0
      BY CodecAssumption
    <2>6. ASSUME k < l
          PROVE  HeaderThere(src) /\ a >= HeaderLen + Len(sent[k + 1]) /\ a > 0
      <3>1. /\ sent[k + 1] \in Seq(Bytes)
            /\ at[k + 1] = from + HeaderLen + Len(sent[k + 1])
            /\ at[k + 1] <= end
        BY <1>1, <2>1, <2>2, <2>3, <2>6, NextOnTape
      <3>2. PICK n \in Nat : n = Len(sent[k + 1])
        BY <3>1, LenProperties
      <3>3. from + HeaderLen + n <= end
        BY <3>1, <3>2
      <3>4. a >= HeaderLen + n /\ a >= HeaderLen /\ a > 0
        BY <2>4, <2>5, <3>3
      <3>. QED
        BY <2>2, <3>2, <3>4 DEF HeaderThere
    <2>7. CASE src = <<>>
      <3>1. a = 0
        BY <2>2, <2>7
      <3>2. ~ (k < l)
        BY <2>6, <3>1
      <3>. QED
        BY <1>2, <1>5, <2>2, <2>7, <3>2 DEF Channel!End, Channel!Pending
    <2>8. CASE src # <<>>
      <3>1. /\ k < l
            /\ HeaderThere(src) => FrameLen(src) = Len(sent[k + 1])
        BY <1>1, <2>1, <2>2, <2>8, NextInBuffer
      <3>2. HeaderThere(src) /\ a >= HeaderLen + FrameLen(src)
        BY <2>6, <3>1
      <3>. QED
        BY <1>2, <2>2, <3>2 DEF Whole
    <2>. QED
      BY <2>7, <2>8
  <1>. QED
    BY <1>3, <1>4, <1>5

\* Every step of the codec is a step or a stutter of the channel.
LEMMA ChannelStep == CodecInv /\ [Next]_vars => [Channel!Next]_(Channel!fvars)
  <1> SUFFICES ASSUME CodecInv, [Next]_vars
               PROVE  Channel!Next \/ UNCHANGED Channel!fvars
    OBVIOUS
  <1>1. ASSUME NEW m \in Payloads, Encode(m)
        PROVE  Channel!Next
    BY <1>1 DEF Encode, Channel!Next, Channel!Send
  <1>2. ASSUME NEW m \in Payloads, EncodeTooLong(m)
        PROVE  Channel!Next
    BY <1>2 DEF EncodeTooLong, Channel!Next, Channel!Close
  <1>3. CASE Close
    BY <1>3 DEF Close, Channel!Next, Channel!Close
  <1>4. ASSUME NEW n \in 1 .. Len(wire), Read(n)
        PROVE  UNCHANGED Channel!fvars
    BY <1>4 DEF Read, Channel!fvars
  <1>5. CASE ReadEnd
    BY <1>5 DEF ReadEnd, Channel!fvars
  <1>6. CASE DecodeItem
    BY <1>6, ChannelYield DEF Channel!Next
  <1>7. CASE DecodeError
    BY <1>7, ChannelFail DEF Channel!Next
  <1>8. CASE DecodeNeedsMore
    BY <1>8 DEF DecodeNeedsMore, Channel!fvars
  <1>9. CASE DecodeEof
    BY <1>9, ChannelEnd DEF Channel!Next
  <1>10. CASE UNCHANGED vars
    BY <1>10 DEF vars, Channel!fvars
  <1>. QED
    BY <1>1, <1>2, <1>3, <1>4, <1>5, <1>6, <1>7, <1>8, <1>9, <1>10 DEF Next, Poll

(***************************************************************************)
(* The codec implements the channel of whole items: for any chunks, any    *)
(* cut and any limits of the two ends, the reader gets the items in order, *)
(* once, and fails only at an item it refuses or at a cut.                 *)
(***************************************************************************)
THEOREM CodecImplementsChannel == Spec => ImplementsChannel
  BY ChannelInit, ChannelStep, Invariance, PTL DEF Spec, ImplementsChannel, Channel!Spec
=============================================================================
