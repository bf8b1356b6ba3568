------------------------ MODULE AperPrimitivesProofs ------------------------
(***************************************************************************)
(* The primitive types of the aligned PER codec arrive as they were sent:  *)
(* what an encoder puts behind any bits its decoder reads back, whatever   *)
(* follows; and octets that end before the value does are refused.         *)
(***************************************************************************)
EXTENDS AperPrimitives, SequenceTheorems, WellFoundedInduction, TLAPS

-----------------------------------------------------------------------------
(* Digits.                                                                 *)

\* Induction over the numbers, for a set.
LEMMA NatInSet ==
  ASSUME NEW A, 0 \in A, \A n \in Nat : n \in A => n + 1 \in A
  PROVE  \A n \in Nat : n \in A
  <1> DEFINE B == Nat \ A
  <1>1. ASSUME B # {} PROVE FALSE
    <2>1. PICK b \in B : \A y \in B : ~ (<<y, b>> \in OpToRel(<, Nat))
      BY <1>1, NatLessThanWellFounded, WFMin
    <2>2. ASSUME NEW x \in Nat, NEW y \in Nat, y < x
          PROVE  <<y, x>> \in OpToRel(<, Nat)
      BY <2>2, Zenon DEF OpToRel
    <2>3. \A y \in B : ~ (y < b)
      BY <2>1, <2>2, Zenon
    <2>4. b \in Nat /\ b # 0 /\ b \notin A
      OBVIOUS
    <2>5. b - 1 \in Nat /\ b - 1 < b /\ b - 1 + 1 = b
      BY <2>4
    <2>6. b - 1 \in A
      BY <2>3, <2>5
    <2> QED
      BY <2>4, <2>5, <2>6
  <1> QED
    BY <1>1

\* The values Shifted goes through.
Steps(start, base, digits) ==
    CHOOSE g : g = [i \in 0 .. Len(digits) |->
                       IF i = 0 THEN start ELSE base * g[i - 1] + digits[i]]

LEMMA ShiftedIs ==
  ASSUME NEW start, NEW base, NEW digits
  PROVE  Shifted(start, base, digits) = Steps(start, base, digits)[Len(digits)]
  BY DEF Shifted, Steps

LEMMA ShiftedUnique ==
  ASSUME NEW start \in Int, NEW base \in Int, NEW digits \in Seq(Int),
         NEW g \in [0 .. Len(digits) -> Int], g[0] = start,
         \A i \in 1 .. Len(digits) : g[i] = base * g[i - 1] + digits[i]
  PROVE  Shifted(start, base, digits) = g[Len(digits)]
  <1> DEFINE n == Len(digits)
             s == Steps(start, base, digits)
             A == {i \in Nat : i <= n => s[i] = g[i]}
  <1>1. n \in Nat
    OBVIOUS
  <1>2. g = [i \in 0 .. n |-> IF i = 0 THEN start ELSE base * g[i - 1] + digits[i]]
    <2>1. \A i \in 0 .. n : g[i] = IF i = 0 THEN start ELSE base * g[i - 1] + digits[i]
      <3> TAKE i \in 0 .. n
      <3>1. i # 0 => i \in 1 .. n
        BY <1>1
      <3> QED
        BY <3>1
    <2>2. g = [i \in 0 .. n |-> g[i]]
      OBVIOUS
    <2> HIDE DEF n
    <2> QED
      BY <2>1, <2>2
  <1>3. s = [i \in 0 .. n |-> IF i = 0 THEN start ELSE base * s[i - 1] + digits[i]]
    BY <1>2 DEF Steps
  <1> HIDE DEF n, s
  <1>4. s[0] = start /\ \A i \in 1 .. n : s[i] = base * s[i - 1] + digits[i]
    BY <1>1, <1>3
  <1>5. 0 \in A
    BY <1>4
  <1>6. \A i \in Nat : i \in A => i + 1 \in A
    <2> SUFFICES ASSUME NEW i \in Nat, i \in A, i + 1 <= n
                 PROVE  s[i + 1] = g[i + 1]
      OBVIOUS
    <2>1. s[i] = g[i]
      BY <1>1
    <2>2. i + 1 \in 1 .. n /\ (i + 1) - 1 = i
      BY <1>1
    <2> QED
      BY <1>4, <2>1, <2>2 DEF n
  <1> HIDE DEF A
  <1>7. n \in A
    BY <1>1, <1>5, <1>6, NatInSet
  <1>8. s[n] = g[n]
    BY <1>1, <1>7 DEF A
  <1> QED
    BY <1>8, ShiftedIs DEF s, n

\* The powers of two the codec needs.
LEMMA Powers ==
  /\ 2^0 = 1
  /\ \A n \in 0 .. 16 : 2^n \in Nat /\ 2^n > 0
  /\ \A n \in 0 .. 15 : 2^n \in Nat /\ 2^n > 0 /\ 2^(n + 1) = 2 * 2^n
  OBVIOUS

LEMMA Halved ==
  ASSUME NEW v \in Int, NEW p \in Nat, p > 0
  PROVE  /\ v \div (2 * p) = (v \div p) \div 2
         /\ v \div p \in Int
  OBVIOUS

-----------------------------------------------------------------------------
(* Bits.                                                                   *)

Bit == {0, 1}
Octet == 0 .. 255

\* The low bits of a number.
BitsIn(value, n) == [i \in 1 .. n |-> (value \div 2^(n - i)) % 2]

\* What is in the first bits of an input.
Carries(pd, bits) ==
    Len(bits) <= 8 * Len(pd) /\ \A i \in 1 .. Len(bits) : BitAt(pd, i - 1) = bits[i]

\* An output that has been written on.
Continues(out, po) == Len(po) <= Len(out) /\ \A i \in 1 .. Len(po) : out[i] = po[i]

\* Bits and octets are numbers.
LEMMA BitsAreNumbers ==
  /\ \A s \in Seq(Bit) : s \in Seq(Int) /\ s \in Seq(Octet) /\ Len(s) \in Nat
  /\ \A s \in Seq(Octet) : /\ s \in Seq(Int) /\ Len(s) \in Nat
                            /\ \A k \in 1 .. Len(s) : s[k] \in Nat /\ s[k] < 256
  <1>1. Bit \subseteq Octet /\ Octet \subseteq Int /\ \A o \in Octet : o \in Nat /\ o < 256
    BY DEF Bit, Octet
  <1>2. ASSUME NEW S, NEW T, S \subseteq T, NEW s \in Seq(S)
        PROVE  s \in Seq(T) /\ Len(s) \in Nat /\ \A k \in 1 .. Len(s) : s[k] \in S
    BY <1>2
  <1> HIDE DEF Bit, Octet
  <1>3. \A s \in Seq(Bit) : s \in Seq(Octet) /\ Len(s) \in Nat
    BY <1>1, <1>2
  <1>4. \A s \in Seq(Octet) : /\ s \in Seq(Int) /\ Len(s) \in Nat
                              /\ \A k \in 1 .. Len(s) : s[k] \in Nat /\ s[k] < 256
    BY <1>1, <1>2
  <1> QED
    BY <1>3, <1>4

LEMMA BitsAre ==
  ASSUME NEW n \in 0 .. 16, NEW value \in Nat
  PROVE  BitsIn(value, n) \in Seq(Bit) /\ Len(BitsIn(value, n)) = n
  <1>1. ASSUME NEW i \in 1 .. n PROVE (value \div 2^(n - i)) % 2 \in Bit
    <2>1. n - i \in 0 .. 16
      OBVIOUS
    <2>2. 2^(n - i) \in Nat /\ 2^(n - i) > 0
      BY <2>1, Powers
    <2>3. value \div 2^(n - i) \in Int
      BY <2>2
    <2> QED
      BY <2>3 DEF Bit
  <1>2. BitsIn(value, n) \in [1 .. n -> Bit] /\ n \in Nat
    BY <1>1 DEF BitsIn
  <1> QED
    BY <1>2

\* The number its bits make.
LEMMA NumberOfBits ==
  ASSUME NEW n \in 0 .. 16, NEW value \in Nat, value < 2^n
  PROVE  Number(BitsIn(value, n)) = value
  <1> DEFINE digits == BitsIn(value, n)
             g == [i \in 0 .. n |-> value \div 2^(n - i)]
  <1>1. value \in Nat /\ 2^n \in Nat /\ value < 2^n
    BY Powers
  <1>2. digits \in Seq(Int) /\ Len(digits) = n
    <2>1. digits \in Seq(Bit) /\ Len(digits) = n
      BY <1>1, BitsAre
    <2> HIDE DEF digits
    <2> QED
      BY <2>1, BitsAreNumbers
  <1>3. ASSUME NEW i \in 0 .. n PROVE value \div 2^(n - i) \in Int
    <2>1. n - i \in 0 .. 16
      OBVIOUS
    <2>2. 2^(n - i) \in Nat /\ 2^(n - i) > 0
      BY <2>1, Powers
    <2> QED
      BY <1>1, <2>2
  <1>4. g[0] = 0
    <2>1. g[0] = value \div 2^n
      OBVIOUS
    <2> QED
      BY <1>1, <2>1
  <1>5. g[n] = value
    <2>1. g[n] = value \div 2^0
      OBVIOUS
    <2> QED
      BY <1>1, <2>1, Powers
  <1>6. ASSUME NEW i \in 1 .. n PROVE g[i] = 2 * g[i - 1] + digits[i]
    <2> DEFINE p == 2^(n - i)
    <2>1. n - i \in 0 .. 15 /\ n - (i - 1) = (n - i) + 1
      OBVIOUS
    <2>2. p \in Nat /\ p > 0 /\ 2^(n - (i - 1)) = 2 * p
      <3>1. 2^((n - i) + 1) = 2 * 2^(n - i) /\ 2^(n - i) \in Nat /\ 2^(n - i) > 0
        BY <2>1, Powers, Zenon
      <3> QED
        BY <2>1, <3>1
    <2>3. g[i] = value \div p /\ g[i - 1] = value \div 2^(n - (i - 1))
      OBVIOUS
    <2>4. digits[i] = (value \div p) % 2
      BY DEF BitsIn
    <2> HIDE DEF p, g, digits
    <2>5. g[i - 1] = (value \div p) \div 2 /\ value \div p \in Int
      <3>1. value \in Int
        BY <1>1
      <3>2. value \div (2 * p) = (value \div p) \div 2 /\ value \div p \in Int
        BY <2>2, <3>1, Halved
      <3> QED
        BY <2>2, <2>3, <3>2
    <2> QED
      BY <2>3, <2>4, <2>5
  <1>7. g \in [0 .. n -> Int]
    BY <1>3
  <1> HIDE DEF g, digits
  <1>8. Shifted(0, 2, digits) = g[n]
    <2>1. g \in [0 .. Len(digits) -> Int]
          /\ \A i \in 1 .. Len(digits) : g[i] = 2 * g[i - 1] + digits[i]
      BY <1>2, <1>6, <1>7
    <2>2. 0 \in Int /\ 2 \in Int
      OBVIOUS
    <2>3. Shifted(0, 2, digits) = g[Len(digits)]
      BY <1>2, <1>4, <2>1, <2>2, ShiftedUnique, Zenon
    <2> QED
      BY <1>2, <2>3
  <1> QED
    BY <1>5, <1>8 DEF Number, digits

LEMMA Written ==
  ASSUME NEW S, NEW po \in Seq(S), NEW bits \in Seq(S)
  PROVE  /\ po \o bits \in Seq(S)
         /\ Len(po \o bits) = Len(po) + Len(bits)
         /\ Continues(po \o bits, po)
         /\ \A i \in 1 .. Len(bits) : (po \o bits)[Len(po) + i] = bits[i]
  BY DEF Continues

LEMMA CarriesBeginning ==
  ASSUME NEW pd, NEW S, NEW po \in Seq(S), NEW out \in Seq(S), Len(pd) \in Nat,
         Continues(out, po), Carries(pd, out)
  PROVE  Carries(pd, po)
  BY DEF Continues, Carries

LEMMA ContinuesFurther ==
  ASSUME NEW S, NEW a \in Seq(S), NEW b \in Seq(S), NEW c \in Seq(S),
         Continues(b, a), Continues(c, b)
  PROVE  Continues(c, a)
  BY DEF Continues

\* What is written is where it was written.
LEMMA WrittenIsCarried ==
  ASSUME NEW po \in Seq(Bit), NEW bits \in Seq(Bit), NEW pd \in Seq(Octet),
         Carries(pd, po \o bits)
  PROVE  /\ Len(po) + Len(bits) <= 8 * Len(pd)
         /\ \A i \in 1 .. Len(bits) : BitAt(pd, Len(po) + i - 1) = bits[i]
  <1> DEFINE out == po \o bits
             pos == Len(po)
  <1>1. pos \in Nat /\ Len(bits) \in Nat
    BY BitsAreNumbers
  <1>2. Len(out) = pos + Len(bits) /\ \A i \in 1 .. Len(bits) : out[pos + i] = bits[i]
    BY Written
  <1>3. Len(out) <= 8 * Len(pd) /\ \A k \in 1 .. Len(out) : BitAt(pd, k - 1) = out[k]
    BY DEF Carries
  <1> HIDE DEF out, pos
  <1>4. ASSUME NEW i \in 1 .. Len(bits) PROVE BitAt(pd, pos + i - 1) = bits[i]
    <2>1. pos + i \in 1 .. Len(out) /\ (pos + i) - 1 = pos + i - 1
      BY <1>1, <1>2
    <2>2. BitAt(pd, (pos + i) - 1) = out[pos + i]
      BY <1>3, <2>1, Zenon
    <2> QED
      BY <1>2, <2>1, <2>2
  <1>5. pos + Len(bits) <= 8 * Len(pd)
    BY <1>2, <1>3
  <1> QED
    BY <1>4, <1>5 DEF pos

\* What is written, as the sequence of its bits.
LEMMA FewBitsAre ==
  ASSUME NEW po \in Seq(Bit), NEW n \in 0 .. 16, NEW value \in Nat,
         NEW out, out = asn_put_few_bits(po, value, n)
  PROVE  /\ out = po \o BitsIn(value, n)
         /\ out \in Seq(Bit) /\ Len(out) = Len(po) + n /\ Continues(out, po)
  <1> DEFINE bits == BitsIn(value, n)
  <1>1. out = po \o bits
    BY DEF asn_put_few_bits, BitsIn
  <1>2. bits \in Seq(Bit) /\ Len(bits) = n
    BY BitsAre
  <1> HIDE DEF bits
  <1>3. out \in Seq(Bit) /\ Len(out) = Len(po) + n /\ Continues(out, po)
    BY <1>1, <1>2, Written
  <1> QED
    BY <1>1, <1>3 DEF bits

\* What is read where given bits are.
LEMMA FewBitsRead ==
  ASSUME NEW pd \in Seq(Octet), NEW pos \in Nat, NEW n \in 0 .. 16, NEW value \in Nat, value < 2^n,
         pos + n <= 8 * Len(pd), \A i \in 1 .. n : BitAt(pd, pos + i - 1) = BitsIn(value, n)[i]
  PROVE  asn_get_few_bits(pd, pos, n) = Got(value, pos + n)
  <1>1. Len(pd) \in Nat
    OBVIOUS
  <1>2. [i \in 1 .. n |-> BitAt(pd, pos + i - 1)] = BitsIn(value, n)
    BY DEF BitsIn
  <1>3. Number(BitsIn(value, n)) = value
    BY NumberOfBits
  <1> QED
    BY <1>1, <1>2, <1>3 DEF asn_get_few_bits

LEMMA FewBitsArrive ==
  ASSUME NEW po \in Seq(Bit), NEW n \in 0 .. 16, NEW value \in Nat, value < 2^n,
         NEW pd \in Seq(Octet), Carries(pd, asn_put_few_bits(po, value, n))
  PROVE  asn_get_few_bits(pd, Len(po), n) = Got(value, Len(po) + n)
  <1> DEFINE bits == BitsIn(value, n)
             pos == Len(po)
  <1>1. bits \in Seq(Bit) /\ Len(bits) = n
    BY BitsAre
  <1>2. pos \in Nat
    BY BitsAreNumbers
  <1>3. asn_put_few_bits(po, value, n) = po \o bits
    BY FewBitsAre
  <1> HIDE DEF bits
  <1>4. pos + n <= 8 * Len(pd) /\ \A i \in 1 .. n : BitAt(pd, pos + i - 1) = bits[i]
    BY <1>1, <1>3, WrittenIsCarried
  <1> HIDE DEF pos
  <1>5. asn_get_few_bits(pd, pos, n) = Got(value, pos + n)
    BY <1>2, <1>4, FewBitsRead DEF bits
  <1> QED
    BY <1>5 DEF pos

\* The bits of octets, or of bits.
BitsOfUnits(units, unit_bits) ==
    [i \in 1 .. Len(units) * unit_bits |->
        (units[(i - 1) \div unit_bits + 1] \div 2^((-i) % unit_bits)) % 2]

\* Where the bits of the k-th octet are.
LEMMA OctetBits ==
  ASSUME NEW units \in Seq(Octet)
  PROVE  /\ BitsOfUnits(units, 8) \in Seq(Bit)
         /\ Len(BitsOfUnits(units, 8)) = 8 * Len(units)
         /\ \A k \in 1 .. Len(units) : \A i \in 1 .. 8 :
                BitsOfUnits(units, 8)[8 * (k - 1) + i] = BitsIn(units[k], 8)[i]
  <1> DEFINE n == Len(units)
             bit(j) == (units[(j - 1) \div 8 + 1] \div 2^((-j) % 8)) % 2
  <1>1. n \in Nat /\ \A k \in 1 .. n : units[k] \in Nat
    BY BitsAreNumbers
  <1> HIDE DEF n
  <1>2. ASSUME NEW k \in 1 .. n, NEW i \in 1 .. 8
        PROVE  /\ 8 * (k - 1) + i \in 1 .. n * 8
               /\ bit(8 * (k - 1) + i) = BitsIn(units[k], 8)[i]
               /\ bit(8 * (k - 1) + i) \in Bit
    <2> DEFINE j == 8 * (k - 1) + i
    <2>1. k \in Nat /\ k >= 1 /\ k <= n /\ i \in Nat /\ i >= 1 /\ i <= 8
      BY <1>1
    <2>2. j \in 1 .. n * 8 /\ (j - 1) \div 8 + 1 = k /\ (-j) % 8 = 8 - i
      BY <1>1, <2>1
    <2> HIDE DEF j
    <2>3. bit(j) = (units[k] \div 2^(8 - i)) % 2
      BY <2>2
    <2>4. (units[k] \div 2^(8 - i)) % 2 \in Bit
      <3> DEFINE unit == units[k]
      <3>0. unit \in Nat /\ 8 \in 0 .. 16
        BY <1>1
      <3> HIDE DEF unit
      <3>1. BitsIn(unit, 8) \in Seq(Bit) /\ Len(BitsIn(unit, 8)) = 8
        BY <3>0, BitsAre
      <3>2. BitsIn(unit, 8)[i] \in Bit
        BY <3>1
      <3> QED
        BY <3>2 DEF BitsIn, unit
    <2> QED
      BY <2>2, <2>3, <2>4 DEF BitsIn, j
  <1>3. \A j \in 1 .. n * 8 : \E k \in 1 .. n : \E i \in 1 .. 8 : j = 8 * (k - 1) + i
    <2> TAKE j \in 1 .. n * 8
    <2>1. (j - 1) \div 8 + 1 \in 1 .. n /\ ((j - 1) % 8) + 1 \in 1 .. 8
      BY <1>1
    <2>2. j = 8 * (((j - 1) \div 8 + 1) - 1) + (((j - 1) % 8) + 1)
      BY <1>1
    <2> QED
      BY <2>1, <2>2
  <1>4. BitsOfUnits(units, 8) = [j \in 1 .. n * 8 |-> bit(j)]
    BY DEF BitsOfUnits, n
  <1> HIDE DEF bit
  <1>5. \A j \in 1 .. n * 8 : bit(j) \in Bit
    BY <1>2, <1>3
  <1>6. BitsOfUnits(units, 8) \in [1 .. n * 8 -> Bit] /\ n * 8 \in Nat
    BY <1>1, <1>4, <1>5
  <1>7. BitsOfUnits(units, 8) \in Seq(Bit) /\ Len(BitsOfUnits(units, 8)) = 8 * n
    BY <1>1, <1>6
  <1>8. \A k \in 1 .. n : \A i \in 1 .. 8 :
            BitsOfUnits(units, 8)[8 * (k - 1) + i] = BitsIn(units[k], 8)[i]
    BY <1>2, <1>4
  <1> QED
    BY <1>7, <1>8 DEF n

LEMMA BitBits ==
  ASSUME NEW units \in Seq(Bit)
  PROVE  /\ BitsOfUnits(units, 1) = units
         /\ \A k \in 1 .. Len(units) : \A i \in 1 .. 1 :
                BitsOfUnits(units, 1)[1 * (k - 1) + i] = BitsIn(units[k], 1)[i]
  <1> DEFINE n == Len(units)
             bit(j) == (units[(j - 1) \div 1 + 1] \div 2^((-j) % 1)) % 2
  <1>1. n \in Nat /\ \A k \in 1 .. n : units[k] \in Bit
    OBVIOUS
  <1>2. units = [j \in 1 .. n |-> units[j]]
    OBVIOUS
  <1> HIDE DEF n
  <1>3. 2^0 = 1
    OBVIOUS
  <1>4. \A b \in Bit : (b \div 1) % 2 = b
    BY DEF Bit
  <1>5. ASSUME NEW j \in 1 .. n PROVE bit(j) = units[j] /\ BitsIn(units[j], 1)[1] = units[j]
    <2>1. (j - 1) \div 1 + 1 = j /\ (-j) % 1 = 0
      BY <1>1
    <2>2. bit(j) = (units[j] \div 1) % 2
      BY <1>3, <2>1
    <2>3. BitsIn(units[j], 1)[1] = (units[j] \div 1) % 2
      BY <1>3 DEF BitsIn
    <2> HIDE DEF bit
    <2> QED
      BY <1>1, <1>4, <2>2, <2>3
  <1>6. BitsOfUnits(units, 1) = [j \in 1 .. n |-> bit(j)]
    <2>1. n * 1 = n
      BY <1>1
    <2>2. BitsOfUnits(units, 1) = [j \in 1 .. n * 1 |-> bit(j)]
      BY DEF BitsOfUnits, n
    <2> HIDE DEF bit
    <2> QED
      BY <2>1, <2>2
  <1> HIDE DEF bit
  <1>7. BitsOfUnits(units, 1) = units
    BY <1>2, <1>5, <1>6
  <1>8. ASSUME NEW k \in 1 .. n, NEW i \in 1 .. 1
        PROVE  BitsOfUnits(units, 1)[1 * (k - 1) + i] = BitsIn(units[k], 1)[i]
    <2>1. i = 1 /\ 1 * (k - 1) + i = k
      BY <1>1
    <2> QED
      BY <1>5, <1>7, <2>1
  <1> QED
    BY <1>7, <1>8 DEF n

Units(unit_bits) == IF unit_bits = 8 THEN Seq(Octet) ELSE Seq(Bit)

LEMMA UnitsAre ==
  ASSUME NEW u \in {1, 8}, NEW units \in Units(u)
  PROVE  /\ BitsOfUnits(units, u) \in Seq(Bit)
         /\ Len(BitsOfUnits(units, u)) = Len(units) * u
         /\ Len(units) \in Nat
         /\ units = [k \in 1 .. Len(units) |-> units[k]]
         /\ \A k \in 1 .. Len(units) :
                /\ units[k] \in Nat /\ units[k] < 2^u
                /\ \A i \in 1 .. u : BitsOfUnits(units, u)[(k - 1) * u + i] = BitsIn(units[k], u)[i]
  <1>1. CASE u = 8
    <2>1. units \in Seq(Octet)
      BY <1>1 DEF Units
    <2>2. 2^u = 256
      BY <1>1
    <2>3. Len(units) \in Nat /\ \A k \in 1 .. Len(units) : units[k] \in Nat /\ units[k] < 2^u
      BY <2>1, <2>2, BitsAreNumbers
    <2>4. units = [k \in 1 .. Len(units) |-> units[k]]
      BY <2>1
    <2>6. /\ BitsOfUnits(units, u) \in Seq(Bit)
          /\ Len(BitsOfUnits(units, u)) = 8 * Len(units)
          /\ \A k \in 1 .. Len(units) : \A i \in 1 .. u :
                 BitsOfUnits(units, u)[8 * (k - 1) + i] = BitsIn(units[k], u)[i]
      BY <1>1, <2>1, OctetBits
    <2>7. \A k \in 1 .. Len(units) : \A i \in 1 .. u :
              BitsOfUnits(units, u)[(k - 1) * u + i] = BitsIn(units[k], u)[i]
      <3> TAKE k \in 1 .. Len(units)
      <3> TAKE i \in 1 .. u
      <3>1. (k - 1) * u = 8 * (k - 1)
        BY <2>3, <1>1
      <3> QED
        BY <2>6, <3>1
    <2>8. 8 * Len(units) = Len(units) * u
      BY <2>3, <1>1
    <2> QED
      BY <2>3, <2>4, <2>6, <2>7, <2>8
  <1>2. CASE u = 1
    <2>1. units \in Seq(Bit)
      BY <1>2 DEF Units
    <2>2. 2^u = 2
      BY <1>2
    <2>3. Len(units) \in Nat /\ \A k \in 1 .. Len(units) : units[k] \in Nat /\ units[k] < 2^u
      <3>1. \A k \in 1 .. Len(units) : units[k] \in Bit
        BY <2>1
      <3> QED
        BY <2>1, <2>2, <3>1, BitsAreNumbers DEF Bit
    <2>4. units = [k \in 1 .. Len(units) |-> units[k]]
      BY <2>1
    <2>6. /\ BitsOfUnits(units, u) = units
          /\ \A k \in 1 .. Len(units) : \A i \in 1 .. u :
                 BitsOfUnits(units, u)[1 * (k - 1) + i] = BitsIn(units[k], u)[i]
      BY <1>2, <2>1, BitBits
    <2>7. \A k \in 1 .. Len(units) : \A i \in 1 .. u :
              BitsOfUnits(units, u)[(k - 1) * u + i] = BitsIn(units[k], u)[i]
      <3> TAKE k \in 1 .. Len(units)
      <3> TAKE i \in 1 .. u
      <3>1. (k - 1) * u = 1 * (k - 1)
        BY <2>3, <1>2
      <3> QED
        BY <2>6, <3>1
    <2>8. Len(units) = Len(units) * u
      BY <2>3, <1>2
    <2> QED
      BY <2>1, <2>3, <2>4, <2>6, <2>7, <2>8
  <1> QED
    BY <1>1, <1>2

LEMMA ManyBitsAre ==
  ASSUME NEW po \in Seq(Bit), NEW u \in {1, 8}, NEW units \in Units(u),
         NEW out, out = asn_put_many_bits(po, units, u)
  PROVE  /\ out = po \o BitsOfUnits(units, u)
         /\ out \in Seq(Bit) /\ Len(out) = Len(po) + Len(units) * u /\ Continues(out, po)
  <1> DEFINE bits == BitsOfUnits(units, u)
  <1>1. out = po \o bits
    BY DEF asn_put_many_bits, BitsOfUnits
  <1>2. bits \in Seq(Bit) /\ Len(bits) = Len(units) * u
    BY UnitsAre
  <1> HIDE DEF bits
  <1>3. out \in Seq(Bit) /\ Len(out) = Len(po) + Len(units) * u /\ Continues(out, po)
    BY <1>1, <1>2, Written
  <1> QED
    BY <1>1, <1>3 DEF bits

LEMMA ManyBitsArrive ==
  ASSUME NEW po \in Seq(Bit), NEW u \in {1, 8}, NEW units \in Units(u), NEW pd \in Seq(Octet),
         Carries(pd, asn_put_many_bits(po, units, u))
  PROVE  asn_get_many_bits(pd, Len(po), Len(units), u) = Got(units, Len(po) + Len(units) * u)
  <1> DEFINE bits == BitsOfUnits(units, u)
             out == asn_put_many_bits(po, units, u)
             pos == Len(po)
             n == Len(units)
  <1>1. /\ n \in Nat /\ units = [k \in 1 .. n |-> units[k]] /\ Len(bits) = n * u
        /\ \A k \in 1 .. n :
               /\ units[k] \in Nat /\ units[k] < 2^u
               /\ \A i \in 1 .. u : bits[(k - 1) * u + i] = BitsIn(units[k], u)[i]
    BY UnitsAre
  <1>2. bits \in Seq(Bit)
    BY UnitsAre
  <1>3. pos \in Nat /\ Len(pd) \in Nat
    BY BitsAreNumbers
  <1>4. out = po \o bits /\ Len(out) = pos + n * u
    BY ManyBitsAre
  <1> HIDE DEF bits, pos, n, out
  <1>5. \A j \in 1 .. n * u : BitAt(pd, pos + j - 1) = bits[j]
    BY <1>1, <1>2, <1>4, WrittenIsCarried DEF pos, out
  <1>6. pos + n * u <= 8 * Len(pd)
    BY <1>4 DEF Carries, out
  <1>7. ASSUME NEW k \in 1 .. n
        PROVE  asn_get_few_bits(pd, pos + (k - 1) * u, u) = Got(units[k], pos + (k - 1) * u + u)
    <2> DEFINE at == pos + (k - 1) * u
    <2>1. at \in Nat /\ at + u <= pos + n * u /\ at + u <= 8 * Len(pd) /\ u \in 0 .. 16
      <3>1. n \in Nat /\ pos \in Nat /\ Len(pd) \in Nat
        BY <1>1, <1>3
      <3>2. CASE u = 1
        BY <1>6, <3>1, <3>2
      <3>3. CASE u = 8
        BY <1>6, <3>1, <3>3
      <3> QED
        BY <3>2, <3>3
    <2>2. ASSUME NEW i \in 1 .. u PROVE BitAt(pd, at + i - 1) = BitsIn(units[k], u)[i]
      <3>1. (k - 1) * u + i \in 1 .. n * u /\ pos + ((k - 1) * u + i) - 1 = at + i - 1
        <4>1. n \in Nat /\ pos \in Nat
          BY <1>1, <1>3
        <4>2. CASE u = 1
          BY <4>1, <4>2
        <4>3. CASE u = 8
          BY <4>1, <4>3
        <4> QED
          BY <4>2, <4>3
      <3>2. bits[(k - 1) * u + i] = BitsIn(units[k], u)[i]
        BY <1>1
      <3> HIDE DEF at
      <3>3. BitAt(pd, pos + ((k - 1) * u + i) - 1) = bits[(k - 1) * u + i]
        BY <1>5, <3>1, Zenon
      <3> QED
        BY <3>1, <3>2, <3>3
    <2>3. units[k] \in Nat /\ units[k] < 2^u
      BY <1>1
    <2> HIDE DEF at
    <2>4. asn_get_few_bits(pd, at, u) = Got(units[k], at + u)
      BY <2>1, <2>2, <2>3, FewBitsRead
    <2> QED
      BY <2>4 DEF at
  <1>8. ~ (pos + n * u > 8 * Len(pd))
    <2>1. n * u \in Nat
      BY <1>1
    <2> QED
      BY <1>3, <1>6, <2>1
  <1>9. [k \in 1 .. n |-> asn_get_few_bits(pd, pos + (k - 1) * u, u).value] = units
    <2>1. ASSUME NEW k \in 1 .. n
          PROVE  asn_get_few_bits(pd, pos + (k - 1) * u, u).value = units[k]
      <3>1. Got(units[k], pos + (k - 1) * u + u).value = units[k]
        BY DEF Got
      <3> QED
        BY <1>7, <3>1
    <2> QED
      BY <1>1, <2>1
  <1>10. asn_get_many_bits(pd, pos, n, u) = Got(units, pos + n * u)
    BY <1>8, <1>9 DEF asn_get_many_bits
  <1> QED
    BY <1>10 DEF pos, n

-----------------------------------------------------------------------------
(* Alignment and lengths.                                                  *)

LEMMA AlignAre ==
  ASSUME NEW po \in Seq(Bit), NEW out, out = aper_put_align(po)
  PROVE  /\ out \in Seq(Bit) /\ Len(out) = aper_get_align(Len(po)) /\ Continues(out, po)
         /\ Len(out) % 8 = 0 /\ Len(out) - Len(po) \in 0 .. 7
  <1> DEFINE n == Gap(Len(po))
             zeros == [i \in 1 .. n |-> 0]
  <1>1. Len(po) \in Nat
    BY BitsAreNumbers
  <1>2. n \in 0 .. 7 /\ (Len(po) + n) % 8 = 0
    BY <1>1 DEF Gap
  <1>3. out = po \o zeros
    BY DEF aper_put_align
  <1>4. aper_get_align(Len(po)) = Len(po) + n
    BY DEF aper_get_align
  <1> HIDE DEF n
  <1>5. zeros \in Seq(Bit) /\ Len(zeros) = n
    <2>1. zeros \in [1 .. n -> Bit] /\ n \in Nat
      BY <1>2 DEF Bit
    <2> HIDE DEF zeros
    <2> QED
      BY <2>1
  <1> HIDE DEF zeros
  <1>6. out \in Seq(Bit) /\ Len(out) = Len(po) + n /\ Continues(out, po)
    BY <1>3, <1>5, Written
  <1> QED
    BY <1>1, <1>2, <1>4, <1>6

\* The bits of a number of two octets.
LEMMA SplitBits ==
  ASSUME NEW v \in Nat, v < 65536
  PROVE  /\ v \div 256 \in Nat /\ v \div 256 < 256 /\ v % 256 \in Nat /\ v % 256 < 256
         /\ \A i \in 1 .. 8 : BitsIn(v, 16)[i] = BitsIn(v \div 256, 8)[i]
         /\ \A i \in 1 .. 8 : BitsIn(v, 16)[8 + i] = BitsIn(v % 256, 8)[i]
  <1>1. v \div 256 \in Nat /\ v \div 256 < 256 /\ v % 256 \in Nat /\ v % 256 < 256
    OBVIOUS
  <1>2. ASSUME NEW i \in 1 .. 8 PROVE BitsIn(v, 16)[i] = BitsIn(v \div 256, 8)[i]
    <2>1. CASE i = 1
      BY <2>1 DEF BitsIn
    <2>2. CASE i = 2
      BY <2>2 DEF BitsIn
    <2>3. CASE i = 3
      BY <2>3 DEF BitsIn
    <2>4. CASE i = 4
      BY <2>4 DEF BitsIn
    <2>5. CASE i = 5
      BY <2>5 DEF BitsIn
    <2>6. CASE i = 6
      BY <2>6 DEF BitsIn
    <2>7. CASE i = 7
      BY <2>7 DEF BitsIn
    <2>8. CASE i = 8
      BY <2>8 DEF BitsIn
    <2> QED
      BY <2>1, <2>2, <2>3, <2>4, <2>5, <2>6, <2>7, <2>8
  <1>3. ASSUME NEW i \in 1 .. 8 PROVE BitsIn(v, 16)[8 + i] = BitsIn(v % 256, 8)[i]
    <2>1. CASE i = 1
      BY <2>1 DEF BitsIn
    <2>2. CASE i = 2
      BY <2>2 DEF BitsIn
    <2>3. CASE i = 3
      BY <2>3 DEF BitsIn
    <2>4. CASE i = 4
      BY <2>4 DEF BitsIn
    <2>5. CASE i = 5
      BY <2>5 DEF BitsIn
    <2>6. CASE i = 6
      BY <2>6 DEF BitsIn
    <2>7. CASE i = 7
      BY <2>7 DEF BitsIn
    <2>8. CASE i = 8
      BY <2>8 DEF BitsIn
    <2> QED
      BY <2>1, <2>2, <2>3, <2>4, <2>5, <2>6, <2>7, <2>8
  <1> QED
    BY <1>1, <1>2, <1>3

LEMMA SizeOfFewBits ==
  /\ 2^1 = 2 /\ 2^6 = 64 /\ 2^7 = 128 /\ 2^8 = 256 /\ 2^16 = 65536
  /\ 1 \in 0 .. 16 /\ 8 \in 0 .. 16 /\ 16 \in 0 .. 16
  OBVIOUS

LEMMA GotIs ==
  ASSUME NEW value, NEW pos
  PROVE  Got(value, pos).ok /\ Got(value, pos).value = value /\ Got(value, pos).pos = pos
  BY DEF Got

LEMMA ShortLength ==
  ASSUME NEW pd, NEW pos, NEW length, length < 128, NEW end,
         asn_get_few_bits(pd, pos, 8) = Got(length, end)
  PROVE  uper_get_length(pd, pos) = Got(length, end)
  BY GotIs DEF uper_get_length, Get

LEMMA LongLength ==
  ASSUME NEW pd, NEW pos, NEW high \in 128 .. 191, NEW at, NEW low \in Nat, NEW end,
         asn_get_few_bits(pd, pos, 8) = Got(high, at),
         asn_get_few_bits(pd, at, 8) = Got(low, end)
  PROVE  uper_get_length(pd, pos) = Got(((high - 128) * 256) + low, end)
  BY GotIs DEF uper_get_length, Get

\* A number of one octet, out and in.
LEMMA OctetArrives ==
  ASSUME NEW po \in Seq(Bit), NEW v \in Nat, v < 256
  PROVE  /\ asn_put_few_bits(po, v, 8) \in Seq(Bit)
         /\ Len(asn_put_few_bits(po, v, 8)) = Len(po) + 8
         /\ Continues(asn_put_few_bits(po, v, 8), po)
         /\ \A pd \in Seq(Octet) : Carries(pd, asn_put_few_bits(po, v, 8)) =>
                asn_get_few_bits(pd, Len(po), 8) = Got(v, Len(po) + 8)
  <1> DEFINE n == 8
             out == asn_put_few_bits(po, v, n)
  <1>1. n \in 0 .. 16 /\ v < 2^n
    OBVIOUS
  <1> HIDE DEF n
  <1>2. out \in Seq(Bit) /\ Len(out) = Len(po) + n /\ Continues(out, po)
    BY <1>1, FewBitsAre
  <1>3. ASSUME NEW pd \in Seq(Octet), Carries(pd, asn_put_few_bits(po, v, n))
        PROVE  asn_get_few_bits(pd, Len(po), n) = Got(v, Len(po) + n)
    BY <1>1, <1>3, FewBitsArrive
  <1> HIDE DEF out
  <1> QED
    BY <1>2, <1>3 DEF n, out

\* A number of two octets, out.
LEMMA TwoOctetsOut ==
  ASSUME NEW po \in Seq(Bit), NEW v \in Nat
  PROVE  /\ asn_put_few_bits(po, v, 16) \in Seq(Bit)
         /\ asn_put_few_bits(po, v, 16) = po \o BitsIn(v, 16)
         /\ Len(asn_put_few_bits(po, v, 16)) = Len(po) + 16
         /\ Continues(asn_put_few_bits(po, v, 16), po)
         /\ BitsIn(v, 16) \in Seq(Bit) /\ Len(BitsIn(v, 16)) = 16
  <1> DEFINE n == 16
             out == asn_put_few_bits(po, v, n)
  <1>1. n \in 0 .. 16
    OBVIOUS
  <1> HIDE DEF n
  <1>2. out = po \o BitsIn(v, n) /\ out \in Seq(Bit) /\ Len(out) = Len(po) + n /\ Continues(out, po)
    BY <1>1, FewBitsAre
  <1>3. BitsIn(v, n) \in Seq(Bit) /\ Len(BitsIn(v, n)) = n
    BY <1>1, BitsAre
  <1> HIDE DEF out
  <1> QED
    BY <1>2, <1>3 DEF n, out

LEMMA TwoOctetsSent ==
  ASSUME NEW po \in Seq(Bit), NEW v \in Nat
  PROVE  /\ asn_put_few_bits(po, v, 16) \in Seq(Bit)
         /\ Len(asn_put_few_bits(po, v, 16)) = Len(po) + 16
         /\ Continues(asn_put_few_bits(po, v, 16), po)
  BY TwoOctetsOut

LEMMA TwoOctetsWhere ==
  ASSUME NEW po \in Seq(Bit), NEW v \in Nat, NEW pd \in Seq(Octet),
         Carries(pd, asn_put_few_bits(po, v, 16))
  PROVE  /\ Len(po) + 16 <= 8 * Len(pd)
         /\ \A i \in 1 .. 16 : BitAt(pd, Len(po) + i - 1) = BitsIn(v, 16)[i]
  <1> DEFINE bits == BitsIn(v, 16)
  <1>1. asn_put_few_bits(po, v, 16) = po \o bits /\ bits \in Seq(Bit) /\ Len(bits) = 16
    BY TwoOctetsOut
  <1> HIDE DEF bits
  <1>2. Carries(pd, po \o bits)
    BY <1>1
  <1>3. Len(po) + Len(bits) <= 8 * Len(pd)
    /\ \A i \in 1 .. Len(bits) : BitAt(pd, Len(po) + i - 1) = bits[i]
    BY <1>1, <1>2, WrittenIsCarried
  <1> QED
    BY <1>1, <1>3 DEF bits

\* An octet is read where its bits are.
LEMMA OctetRead ==
  ASSUME NEW pd \in Seq(Octet), NEW pos \in Nat, NEW v \in Nat, v < 256, pos + 8 <= 8 * Len(pd),
         \A i \in 1 .. 8 : BitAt(pd, pos + i - 1) = BitsIn(v, 8)[i]
  PROVE  asn_get_few_bits(pd, pos, 8) = Got(v, pos + 8)
  <1> DEFINE n == 8
  <1>1. n \in 0 .. 16 /\ v < 2^n
    OBVIOUS
  <1> HIDE DEF n
  <1>2. pos + n <= 8 * Len(pd) /\ \A i \in 1 .. n : BitAt(pd, pos + i - 1) = BitsIn(v, n)[i]
    BY DEF n
  <1>3. asn_get_few_bits(pd, pos, n) = Got(v, pos + n)
    BY <1>1, <1>2, FewBitsRead
  <1> QED
    BY <1>3 DEF n

\* A number of two octets is read as two of one.
LEMMA TwoOctetsRead ==
  ASSUME NEW po \in Seq(Bit), NEW v \in Nat, v < 65536, NEW pd \in Seq(Octet),
         Carries(pd, asn_put_few_bits(po, v, 16))
  PROVE  /\ asn_get_few_bits(pd, Len(po), 8) = Got(v \div 256, Len(po) + 8)
         /\ asn_get_few_bits(pd, Len(po) + 8, 8) = Got(v % 256, Len(po) + 16)
  <1> DEFINE high == v \div 256
             low == v % 256
             bits == BitsIn(v, 16)
             pos == Len(po)
             next == pos + 8
  <1>1. pos \in Nat /\ Len(pd) \in Nat
    BY BitsAreNumbers
  <1>2. pos + 16 <= 8 * Len(pd) /\ \A i \in 1 .. 16 : BitAt(pd, pos + i - 1) = bits[i]
    BY TwoOctetsWhere
  <1>3. /\ high \in Nat /\ high < 256 /\ low \in Nat /\ low < 256
        /\ \A i \in 1 .. 8 : bits[i] = BitsIn(high, 8)[i]
        /\ \A i \in 1 .. 8 : bits[8 + i] = BitsIn(low, 8)[i]
    BY SplitBits
  <1> HIDE DEF high, low, bits, pos
  <1>4. asn_get_few_bits(pd, pos, 8) = Got(high, pos + 8)
    <2>1. \A i \in 1 .. 8 : BitAt(pd, pos + i - 1) = BitsIn(high, 8)[i]
      BY <1>2, <1>3
    <2>2. pos + 8 <= 8 * Len(pd)
      BY <1>1, <1>2
    <2>3. high \in Nat /\ high < 256 /\ pos \in Nat
      BY <1>1, <1>3
    <2> QED
      BY <2>1, <2>2, <2>3, OctetRead
  <1>5. asn_get_few_bits(pd, next, 8) = Got(low, next + 8)
    <2>1. ASSUME NEW i \in 1 .. 8 PROVE BitAt(pd, next + i - 1) = BitsIn(low, 8)[i]
      <3>1. 8 + i \in 1 .. 16 /\ pos + (8 + i) - 1 = next + i - 1
        BY <1>1
      <3> HIDE DEF next
      <3>2. BitAt(pd, pos + (8 + i) - 1) = bits[8 + i]
        BY <1>2, <3>1
      <3>3. bits[8 + i] = BitsIn(low, 8)[i]
        BY <1>3
      <3> QED
        BY <3>1, <3>2, <3>3
    <2>2. next + 8 <= 8 * Len(pd) /\ next \in Nat
      BY <1>1, <1>2
    <2>3. low \in Nat /\ low < 256
      BY <1>3
    <2> HIDE DEF next
    <2> QED
      BY <2>1, <2>2, <2>3, OctetRead
  <1>6. next + 8 = pos + 16
    BY <1>1
  <1> QED
    BY <1>4, <1>5, <1>6 DEF pos, high, low

LEMMA AlignSent ==
  ASSUME NEW po \in Seq(Bit)
  PROVE  /\ aper_put_align(po) \in Seq(Bit)
         /\ Len(aper_put_align(po)) = aper_get_align(Len(po))
         /\ Continues(aper_put_align(po), po)
  BY AlignAre

LEMMA ShortLengthArrives ==
  ASSUME NEW a \in Seq(Bit), NEW length \in Nat, length <= 127
  PROVE  /\ asn_put_few_bits(a, length, 8) \in Seq(Bit)
         /\ Continues(asn_put_few_bits(a, length, 8), a)
         /\ \A pd \in Seq(Octet) : Carries(pd, asn_put_few_bits(a, length, 8)) =>
                uper_get_length(pd, Len(a)) = Got(length, Len(asn_put_few_bits(a, length, 8)))
  <1> DEFINE out == asn_put_few_bits(a, length, 8)
  <1>1. length < 256 /\ length < 128
    OBVIOUS
  <1>2. /\ out \in Seq(Bit) /\ Len(out) = Len(a) + 8 /\ Continues(out, a)
        /\ \A pd \in Seq(Octet) : Carries(pd, out) =>
               asn_get_few_bits(pd, Len(a), 8) = Got(length, Len(a) + 8)
    BY <1>1, OctetArrives
  <1> HIDE DEF out
  <1>3. ASSUME NEW pd \in Seq(Octet), Carries(pd, out)
        PROVE  uper_get_length(pd, Len(a)) = Got(length, Len(out))
    <2>1. asn_get_few_bits(pd, Len(a), 8) = Got(length, Len(a) + 8)
      BY <1>2, <1>3
    <2>2. uper_get_length(pd, Len(a)) = Got(length, Len(a) + 8)
      BY <1>1, <2>1, ShortLength
    <2> QED
      BY <1>2, <2>2
  <1> QED
    BY <1>2, <1>3 DEF out

\* The two octets of a length of the long form.
LongForm == 32768 .. 49151

LEMMA LongLengthArrives ==
  ASSUME NEW a \in Seq(Bit), NEW v \in LongForm
  PROVE  /\ asn_put_few_bits(a, v, 16) \in Seq(Bit)
         /\ Continues(asn_put_few_bits(a, v, 16), a)
         /\ \A pd \in Seq(Octet) : Carries(pd, asn_put_few_bits(a, v, 16)) =>
                uper_get_length(pd, Len(a)) = Got(v - 32768, Len(asn_put_few_bits(a, v, 16)))
  <1>1. v \in Nat
    BY DEF LongForm
  <1>2. /\ asn_put_few_bits(a, v, 16) \in Seq(Bit)
        /\ Len(asn_put_few_bits(a, v, 16)) = Len(a) + 16
        /\ Continues(asn_put_few_bits(a, v, 16), a)
    BY <1>1, TwoOctetsSent
  <1> DEFINE out == asn_put_few_bits(a, v, 16)
             high == v \div 256
             low == v % 256
  <1>3. v < 65536
    BY DEF LongForm
  <1>4. high \in 128 .. 191 /\ low \in Nat /\ ((high - 128) * 256) + low = v - 32768
    BY DEF LongForm
  <1>5. out \in Seq(Bit) /\ Len(out) = Len(a) + 16 /\ Continues(out, a)
    BY <1>2
  <1>6. ASSUME NEW pd \in Seq(Octet), Carries(pd, out)
        PROVE  uper_get_length(pd, Len(a)) = Got(v - 32768, Len(out))
    <2>1. /\ asn_get_few_bits(pd, Len(a), 8) = Got(high, Len(a) + 8)
          /\ asn_get_few_bits(pd, Len(a) + 8, 8) = Got(low, Len(a) + 16)
      BY <1>1, <1>3, <1>6, TwoOctetsRead
    <2> HIDE DEF high, low, out
    <2>2. uper_get_length(pd, Len(a)) = Got(((high - 128) * 256) + low, Len(a) + 16)
      BY <1>4, <2>1, LongLength
    <2> QED
      BY <1>4, <1>5, <2>2
  <1> HIDE DEF out
  <1> QED
    BY <1>5, <1>6 DEF out

\* A length goes out aligned, in one octet or two, and comes back.
LEMMA LengthArrives ==
  ASSUME NEW po \in Seq(Bit), NEW length \in Nat, length < 16384
  PROVE  /\ aper_put_length(po, length) \in Seq(Bit)
         /\ Continues(aper_put_length(po, length), po)
         /\ \A pd \in Seq(Octet) : Carries(pd, aper_put_length(po, length)) =>
                aper_get_length(pd, Len(po)) = Got(length, Len(aper_put_length(po, length)))
  <1>1. PICK a : a = aper_put_align(po)
    OBVIOUS
  <1>2. PICK out : out = aper_put_length(po, length)
    OBVIOUS
  <1>3. a \in Seq(Bit) /\ Len(a) = aper_get_align(Len(po)) /\ Continues(a, po)
    BY <1>1, AlignSent
  <1>4. \A pd : aper_get_length(pd, Len(po)) = uper_get_length(pd, Len(a))
    BY <1>3 DEF aper_get_length
  <1>5. /\ out \in Seq(Bit) /\ Continues(out, a)
        /\ \A pd \in Seq(Octet) : Carries(pd, out) =>
               uper_get_length(pd, Len(a)) = Got(length, Len(out))
    <2>1. CASE length <= 127
      <3>1. out = asn_put_few_bits(a, length, 8)
        BY <1>1, <1>2, <2>1 DEF aper_put_length
      <3>2. /\ asn_put_few_bits(a, length, 8) \in Seq(Bit)
            /\ Continues(asn_put_few_bits(a, length, 8), a)
            /\ \A pd \in Seq(Octet) : Carries(pd, asn_put_few_bits(a, length, 8)) =>
                   uper_get_length(pd, Len(a)) = Got(length, Len(asn_put_few_bits(a, length, 8)))
        BY <1>3, <2>1, ShortLengthArrives
      <3> QED
        BY <3>1, <3>2
    <2>2. CASE length > 127
      <3>1. out = asn_put_few_bits(a, 32768 + length, 16)
        BY <1>1, <1>2, <2>2 DEF aper_put_length
      <3>2. PICK v : v = 32768 + length
        OBVIOUS
      <3>3. v \in LongForm /\ v - 32768 = length
        BY <2>2, <3>2 DEF LongForm
      <3>4. /\ asn_put_few_bits(a, v, 16) \in Seq(Bit)
            /\ Continues(asn_put_few_bits(a, v, 16), a)
            /\ \A pd \in Seq(Octet) : Carries(pd, asn_put_few_bits(a, v, 16)) =>
                   uper_get_length(pd, Len(a)) = Got(v - 32768, Len(asn_put_few_bits(a, v, 16)))
        BY <1>3, <3>3, LongLengthArrives
      <3> QED
        BY <3>1, <3>2, <3>3, <3>4
    <2> QED
      BY <2>1, <2>2
  <1>6. Continues(out, po)
    BY <1>3, <1>5, ContinuesFurther
  <1> QED
    BY <1>2, <1>4, <1>5, <1>6

-----------------------------------------------------------------------------
(* Primitive types.                                                        *)

\* Steps of an encoder, one behind the other.
LEMMA CarriesFirst ==
  ASSUME NEW a \in Seq(Bit), NEW b \in Seq(Bit), NEW pd \in Seq(Octet),
         Continues(b, a), Carries(pd, b)
  PROVE  Carries(pd, a)
  <1>1. Len(pd) \in Nat
    BY BitsAreNumbers
  <1> QED
    BY <1>1, CarriesBeginning

LEMMA FewBitsSent ==
  ASSUME NEW po \in Seq(Bit), NEW n \in 0 .. 16, NEW value \in Nat
  PROVE  /\ asn_put_few_bits(po, value, n) \in Seq(Bit)
         /\ Len(asn_put_few_bits(po, value, n)) = Len(po) + n
         /\ Continues(asn_put_few_bits(po, value, n), po)
  BY FewBitsAre

\* The mark of an extensible type, of a value without extensions.
Marked(extensible, po) == IF extensible THEN asn_put_few_bits(po, 0, 1) ELSE po
MarkBits(extensible) == IF extensible THEN 1 ELSE 0

LEMMA MarkArrives ==
  ASSUME NEW po \in Seq(Bit), NEW extensible \in BOOLEAN
  PROVE  /\ Marked(extensible, po) \in Seq(Bit)
         /\ Continues(Marked(extensible, po), po)
         /\ \A pd \in Seq(Octet) : Carries(pd, Marked(extensible, po)) =>
                asn_get_few_bits(pd, Len(po), MarkBits(extensible))
                    = Got(0, Len(Marked(extensible, po)))
  <1> DEFINE n == MarkBits(extensible)
             out == Marked(extensible, po)
  <1>1. n \in 0 .. 16 /\ 0 < 2^n
    BY DEF MarkBits
  <1>2. out = asn_put_few_bits(po, 0, n)
    <2>1. CASE extensible
      BY <2>1 DEF Marked, MarkBits
    <2>2. CASE ~extensible
      <3>1. asn_put_few_bits(po, 0, 0) = po
        BY DEF asn_put_few_bits
      <3> QED
        BY <2>2, <3>1 DEF Marked, MarkBits
    <2> QED
      BY <2>1, <2>2
  <1> HIDE DEF n, out
  <1>3. /\ asn_put_few_bits(po, 0, n) \in Seq(Bit)
        /\ Len(asn_put_few_bits(po, 0, n)) = Len(po) + n
        /\ Continues(asn_put_few_bits(po, 0, n), po)
    BY <1>1, FewBitsSent
  <1>4. ASSUME NEW pd \in Seq(Octet), Carries(pd, asn_put_few_bits(po, 0, n))
        PROVE  asn_get_few_bits(pd, Len(po), n) = Got(0, Len(po) + n)
    BY <1>1, <1>4, FewBitsArrive
  <1> QED
    BY <1>2, <1>3, <1>4 DEF n, out

\* A value of an ENUMERATED that its bits have room for arrives as it was sent
\* (NativeEnumerated_encode_aper and NativeEnumerated_decode_aper).
THEOREM EnumeratedArrives ==
  ASSUME NEW flags, NEW bits \in 0 .. 16, NEW names, Len(names) \in Nat, Len(names) <= 2^bits,
         NEW value \in 0 .. Len(names) - 1, NEW po \in Seq(Bit),
         NEW td, td = NativeEnumerated(flags, bits, names),
         NEW out, out = NativeEnumerated_encode_aper(td, value, po)
  PROVE  /\ out \in Seq(Bit) /\ Continues(out, po)
         /\ \A pd \in Seq(Octet) : Carries(pd, out) =>
                NativeEnumerated_decode_aper(td, pd, Len(po)) = Got(value, Len(out))
  <1>1. PICK extensible \in BOOLEAN : extensible = (flags = "extensible")
    OBVIOUS
  <1>2. PICK marked : marked = Marked(extensible, po)
    OBVIOUS
  <1>3. /\ td.names = names /\ td.value.extensible = extensible
        /\ td.value.effective_bits = bits
    BY <1>1 DEF NativeEnumerated, Bounds
  <1>4. 2^bits \in Nat /\ value \in Nat /\ value < 2^bits /\ ~(value >= Len(names))
    BY Powers
  <1>5. out = asn_put_few_bits(marked, value, bits)
    BY <1>2, <1>3 DEF NativeEnumerated_encode_aper, Marked
  <1>6. /\ marked \in Seq(Bit) /\ Continues(marked, po)
        /\ \A pd \in Seq(Octet) : Carries(pd, marked) =>
               asn_get_few_bits(pd, Len(po), MarkBits(extensible)) = Got(0, Len(marked))
    BY <1>2, MarkArrives
  <1>7. /\ asn_put_few_bits(marked, value, bits) \in Seq(Bit)
        /\ Len(asn_put_few_bits(marked, value, bits)) = Len(marked) + bits
        /\ Continues(asn_put_few_bits(marked, value, bits), marked)
    BY <1>4, <1>6, FewBitsSent
  <1>8. out \in Seq(Bit) /\ Len(out) = Len(marked) + bits /\ Continues(out, marked)
    BY <1>5, <1>7
  <1>9. Continues(out, po)
    BY <1>6, <1>8, ContinuesFurther
  <1>10. ASSUME NEW pd \in Seq(Octet), Carries(pd, out)
         PROVE  NativeEnumerated_decode_aper(td, pd, Len(po)) = Got(value, Len(out))
    <2>1. Carries(pd, marked)
      BY <1>6, <1>8, <1>10, CarriesFirst
    <2>2. asn_get_few_bits(pd, Len(po), MarkBits(extensible)) = Got(0, Len(marked))
      BY <1>6, <2>1
    <2>3. asn_get_few_bits(pd, Len(marked), bits) = Got(value, Len(out))
      <3>1. Carries(pd, asn_put_few_bits(marked, value, bits))
        BY <1>5, <1>10
      <3>2. asn_get_few_bits(pd, Len(marked), bits) = Got(value, Len(marked) + bits)
        BY <1>4, <1>6, <3>1, FewBitsArrive
      <3> QED
        BY <1>8, <3>2
    <2> QED
      BY <1>3, <1>4, <2>2, <2>3, GotIs DEF NativeEnumerated_decode_aper, Get, MarkBits
  <1> QED
    BY <1>8, <1>9, <1>10

\* The bits of a range have room for every number of it.
LEMMA BitsOfIs ==
  ASSUME NEW range \in 1 .. 255
  PROVE  BitsOf(range) \in 1 .. 8 /\ range <= 2^BitsOf(range)
  <1> DEFINE P(i) == 2^i >= range /\ (i = 1 \/ 2^(i - 1) < range)
  <1>1. \E i \in 1 .. 8 : P(i)
    <2>1. 2^1 = 2 /\ 2^2 = 4 /\ 2^3 = 8 /\ 2^4 = 16
          /\ 2^5 = 32 /\ 2^6 = 64 /\ 2^7 = 128 /\ 2^8 = 256
      OBVIOUS
    <2>2. CASE range <= 2
      <3>1. P(1)
        BY <2>1, <2>2
      <3> QED
        BY <3>1
    <2>3. CASE range > 2 /\ range <= 4
      <3>1. P(2)
        BY <2>1, <2>3
      <3> QED
        BY <3>1
    <2>4. CASE range > 4 /\ range <= 8
      <3>1. P(3)
        BY <2>1, <2>4
      <3> QED
        BY <3>1
    <2>5. CASE range > 8 /\ range <= 16
      <3>1. P(4)
        BY <2>1, <2>5
      <3> QED
        BY <3>1
    <2>6. CASE range > 16 /\ range <= 32
      <3>1. P(5)
        BY <2>1, <2>6
      <3> QED
        BY <3>1
    <2>7. CASE range > 32 /\ range <= 64
      <3>1. P(6)
        BY <2>1, <2>7
      <3> QED
        BY <3>1
    <2>8. CASE range > 64 /\ range <= 128
      <3>1. P(7)
        BY <2>1, <2>8
      <3> QED
        BY <3>1
    <2>9. CASE range > 128
      <3>1. P(8)
        BY <2>1, <2>9
      <3> QED
        BY <3>1
    <2> QED
      BY <2>2, <2>3, <2>4, <2>5, <2>6, <2>7, <2>8, <2>9
  <1>2. BitsOf(range) = CHOOSE i \in 1 .. 8 : P(i)
    BY DEF BitsOf
  <1>3. BitsOf(range) \in 1 .. 8 /\ P(BitsOf(range))
    <2> HIDE DEF P
    <2> QED
      BY <1>1, <1>2, Zenon
  <1> QED
    BY <1>3

\* An encoder went on behind po, and a number is read from its output.
SentBehind(out, po) == out \in Seq(Bit) /\ Continues(out, po)
NumberRead(out, at, n, value) ==
    \A pd \in Seq(Octet) : Carries(pd, out) => asn_get_few_bits(pd, at, n) = Got(value, Len(out))

\* A number on an octet boundary.
LEMMA AlignedArrives ==
  ASSUME NEW po \in Seq(Bit), NEW n \in 0 .. 16, NEW value \in Nat, value < 2^n
  PROVE  /\ SentBehind(asn_put_few_bits(aper_put_align(po), value, n), po)
         /\ NumberRead(asn_put_few_bits(aper_put_align(po), value, n),
                       aper_get_align(Len(po)), n, value)
  <1> DEFINE out == asn_put_few_bits(aper_put_align(po), value, n)
  <1>1. PICK a : a = aper_put_align(po)
    OBVIOUS
  <1>2. a \in Seq(Bit) /\ Len(a) = aper_get_align(Len(po)) /\ Continues(a, po)
    BY <1>1, AlignSent
  <1>3. /\ asn_put_few_bits(a, value, n) \in Seq(Bit)
        /\ Len(asn_put_few_bits(a, value, n)) = Len(a) + n
        /\ Continues(asn_put_few_bits(a, value, n), a)
    BY <1>2, FewBitsSent
  <1>4. out = asn_put_few_bits(a, value, n)
    BY <1>1
  <1> HIDE DEF out
  <1>5. out \in Seq(Bit) /\ Len(out) = Len(a) + n /\ Continues(out, a)
    BY <1>3, <1>4
  <1>6. Continues(out, po)
    BY <1>2, <1>5, ContinuesFurther
  <1>7. ASSUME NEW pd \in Seq(Octet), Carries(pd, out)
        PROVE  asn_get_few_bits(pd, Len(a), n) = Got(value, Len(out))
    <2>1. Carries(pd, asn_put_few_bits(a, value, n))
      BY <1>4, <1>7
    <2>2. asn_get_few_bits(pd, Len(a), n) = Got(value, Len(a) + n)
      BY <1>2, <2>1, FewBitsArrive
    <2> QED
      BY <1>5, <2>2
  <1> QED
    BY <1>2, <1>5, <1>6, <1>7 DEF out, SentBehind, NumberRead

LEMMA PlainArrives ==
  ASSUME NEW po \in Seq(Bit), NEW n \in 0 .. 16, NEW value \in Nat, value < 2^n
  PROVE  /\ SentBehind(asn_put_few_bits(po, value, n), po)
         /\ NumberRead(asn_put_few_bits(po, value, n), Len(po), n, value)
  <1> DEFINE out == asn_put_few_bits(po, value, n)
  <1>1. /\ asn_put_few_bits(po, value, n) \in Seq(Bit)
        /\ Len(asn_put_few_bits(po, value, n)) = Len(po) + n
        /\ Continues(asn_put_few_bits(po, value, n), po)
    BY FewBitsSent
  <1>2. ASSUME NEW pd \in Seq(Octet), Carries(pd, out)
        PROVE  asn_get_few_bits(pd, Len(po), n) = Got(value, Len(out))
    <2>1. asn_get_few_bits(pd, Len(po), n) = Got(value, Len(po) + n)
      BY <1>2, FewBitsArrive
    <2> QED
      BY <1>1, <2>1
  <1> QED
    BY <1>1, <1>2 DEF SentBehind, NumberRead

\* A number within a range.
Ranges == 1 .. 65536

LEMMA RangeBits ==
  ASSUME NEW range \in Ranges, NEW number \in Nat, number < range
  PROVE  /\ range <= 255 => BitsOf(range) \in 0 .. 16 /\ number < 2^BitsOf(range)
         /\ range = 256 => 8 \in 0 .. 16 /\ number < 2^8
         /\ 16 \in 0 .. 16 /\ number < 2^16
  <1>1. range \in Nat /\ range >= 1 /\ range <= 65536
    BY DEF Ranges
  <1>2. ASSUME range <= 255 PROVE BitsOf(range) \in 0 .. 16 /\ number < 2^BitsOf(range)
    <2>1. range \in 1 .. 255
      BY <1>1, <1>2
    <2>2. BitsOf(range) \in 1 .. 8 /\ range <= 2^BitsOf(range)
      BY <2>1, BitsOfIs
    <2>3. BitsOf(range) \in 0 .. 16
      BY <2>2
    <2>4. 2^BitsOf(range) \in Nat
      BY <2>3, Powers
    <2> QED
      BY <1>1, <2>2, <2>3, <2>4
  <1>3. 8 \in 0 .. 16 /\ 16 \in 0 .. 16 /\ 2^8 = 256 /\ 2^16 = 65536
    OBVIOUS
  <1> QED
    BY <1>1, <1>2, <1>3

LEMMA NumberArrives ==
  ASSUME NEW po \in Seq(Bit), NEW range \in Ranges, NEW number \in Nat, number < range,
         NEW out, out = aper_put_nsnnwn(po, range, number)
  PROVE  /\ out \in Seq(Bit) /\ Continues(out, po)
         /\ \A pd \in Seq(Octet) : Carries(pd, out) =>
                aper_get_nsnnwn(pd, Len(po), range) = Got(number, Len(out))
  <1>1. /\ range <= 255 => BitsOf(range) \in 0 .. 16 /\ number < 2^BitsOf(range)
        /\ range = 256 => 8 \in 0 .. 16 /\ number < 2^8
        /\ 16 \in 0 .. 16 /\ number < 2^16
    BY RangeBits
  <1>2. CASE range <= 255
    <2>1. PICK n : n = BitsOf(range)
      OBVIOUS
    <2>2. n \in 0 .. 16 /\ number < 2^n
      BY <1>1, <1>2, <2>1
    <2>3. out = asn_put_few_bits(po, number, n)
      BY <1>2, <2>1 DEF aper_put_nsnnwn
    <2>4. \A pd : aper_get_nsnnwn(pd, Len(po), range) = asn_get_few_bits(pd, Len(po), n)
      BY <1>2, <2>1 DEF aper_get_nsnnwn
    <2>5. /\ SentBehind(asn_put_few_bits(po, number, n), po)
          /\ NumberRead(asn_put_few_bits(po, number, n), Len(po), n, number)
      BY <2>2, PlainArrives
    <2> QED
      BY <2>3, <2>4, <2>5 DEF SentBehind, NumberRead
  <1>3. ASSUME ~(range <= 255) PROVE
          \E n \in 0 .. 16 :
             /\ number < 2^n
             /\ out = asn_put_few_bits(aper_put_align(po), number, n)
             /\ \A pd : aper_get_nsnnwn(pd, Len(po), range)
                            = asn_get_few_bits(pd, aper_get_align(Len(po)), n)
    <2>1. CASE range = 256
      <3>1. out = asn_put_few_bits(aper_put_align(po), number, 8)
        BY <1>3, <2>1 DEF aper_put_nsnnwn
      <3>2. \A pd : aper_get_nsnnwn(pd, Len(po), range)
                        = asn_get_few_bits(pd, aper_get_align(Len(po)), 8)
        BY <1>3, <2>1 DEF aper_get_nsnnwn
      <3> QED
        BY <1>1, <2>1, <3>1, <3>2
    <2>2. CASE range # 256
      <3>1. out = asn_put_few_bits(aper_put_align(po), number, 16)
        BY <1>3, <2>2 DEF aper_put_nsnnwn
      <3>2. \A pd : aper_get_nsnnwn(pd, Len(po), range)
                        = asn_get_few_bits(pd, aper_get_align(Len(po)), 16)
        BY <1>3, <2>2 DEF aper_get_nsnnwn
      <3> QED
        BY <1>1, <3>1, <3>2
    <2> QED
      BY <2>1, <2>2
  <1>4. CASE ~(range <= 255)
    <2>1. PICK n \in 0 .. 16 :
             /\ number < 2^n
             /\ out = asn_put_few_bits(aper_put_align(po), number, n)
             /\ \A pd : aper_get_nsnnwn(pd, Len(po), range)
                            = asn_get_few_bits(pd, aper_get_align(Len(po)), n)
      BY <1>3, <1>4
    <2>2. /\ SentBehind(asn_put_few_bits(aper_put_align(po), number, n), po)
          /\ NumberRead(asn_put_few_bits(aper_put_align(po), number, n),
                        aper_get_align(Len(po)), n, number)
      BY <2>1, AlignedArrives
    <2> QED
      BY <2>1, <2>2 DEF SentBehind, NumberRead
  <1> QED
    BY <1>2, <1>4

LEMMA ManyBitsSent ==
  ASSUME NEW po \in Seq(Bit), NEW u \in {1, 8}, NEW units \in Units(u)
  PROVE  /\ asn_put_many_bits(po, units, u) \in Seq(Bit)
         /\ Len(asn_put_many_bits(po, units, u)) = Len(po) + Len(units) * u
         /\ Continues(asn_put_many_bits(po, units, u), po)
  BY ManyBitsAre

UnitsRead(out, at, units, u) ==
    \A pd \in Seq(Octet) : Carries(pd, out) =>
        asn_get_many_bits(pd, at, Len(units), u) = Got(units, Len(out))

\* Content where it comes, and on an octet boundary.
LEMMA ContentHere ==
  ASSUME NEW po \in Seq(Bit), NEW u \in {1, 8}, NEW units \in Units(u)
  PROVE  /\ SentBehind(asn_put_many_bits(po, units, u), po)
         /\ UnitsRead(asn_put_many_bits(po, units, u), Len(po), units, u)
  <1> DEFINE out == asn_put_many_bits(po, units, u)
  <1>1. out \in Seq(Bit) /\ Len(out) = Len(po) + Len(units) * u /\ Continues(out, po)
    BY ManyBitsSent
  <1>2. ASSUME NEW pd \in Seq(Octet), Carries(pd, asn_put_many_bits(po, units, u))
        PROVE  asn_get_many_bits(pd, Len(po), Len(units), u) = Got(units, Len(po) + Len(units) * u)
    BY <1>2, ManyBitsArrive
  <1> HIDE DEF out
  <1> QED
    BY <1>1, <1>2 DEF out, SentBehind, UnitsRead

LEMMA ContentAligned ==
  ASSUME NEW po \in Seq(Bit), NEW u \in {1, 8}, NEW units \in Units(u)
  PROVE  LET out == asn_put_many_bits(aper_put_align(po), units, u)
         IN  /\ SentBehind(out, po)
             /\ UnitsRead(out, aper_get_align(Len(po)), units, u)
  <1>1. PICK a : a = aper_put_align(po)
    OBVIOUS
  <1>2. a \in Seq(Bit) /\ Len(a) = aper_get_align(Len(po)) /\ Continues(a, po)
    BY <1>1, AlignSent
  <1>3. PICK out : out = asn_put_many_bits(a, units, u)
    OBVIOUS
  <1>4. SentBehind(out, a) /\ UnitsRead(out, Len(a), units, u)
    BY <1>2, <1>3, ContentHere
  <1>5. SentBehind(out, po)
    <2>1. out \in Seq(Bit) /\ Continues(out, a)
      BY <1>4 DEF SentBehind
    <2>2. Continues(out, po)
      BY <1>2, <2>1, ContinuesFurther
    <2> QED
      BY <2>1, <2>2 DEF SentBehind
  <1> QED
    BY <1>1, <1>2, <1>3, <1>4, <1>5

\* The length of a string is sent and read, and what follows begins an octet.
LengthRead(out, at, length) ==
    \A pd \in Seq(Octet) : Carries(pd, out) => aper_get_length(pd, at) = Got(length, Len(out))

LEMMA LengthSent ==
  ASSUME NEW po \in Seq(Bit), NEW length \in Nat, length < 16384
  PROVE  /\ SentBehind(aper_put_length(po, length), po)
         /\ LengthRead(aper_put_length(po, length), Len(po), length)
  BY LengthArrives DEF SentBehind, LengthRead

LEMMA OctetKeepsBoundary ==
  ASSUME NEW a \in Seq(Bit), Len(a) % 8 = 0, NEW v \in Nat, NEW n \in {8, 16}
  PROVE  Len(asn_put_few_bits(a, v, n)) % 8 = 0
  <1>1. n \in 0 .. 16
    OBVIOUS
  <1>2. Len(asn_put_few_bits(a, v, n)) = Len(a) + n
    BY <1>1, FewBitsSent
  <1>3. Len(a) \in Nat
    BY BitsAreNumbers
  <1>4. \A m \in Nat : m % 8 = 0 => (m + 8) % 8 = 0 /\ (m + 16) % 8 = 0
    OBVIOUS
  <1> QED
    BY <1>2, <1>3, <1>4

LEMMA LengthOnBoundary ==
  ASSUME NEW po \in Seq(Bit), NEW length \in Nat
  PROVE  Len(aper_put_length(po, length)) % 8 = 0
  <1>1. PICK a : a = aper_put_align(po)
    OBVIOUS
  <1>2. a \in Seq(Bit) /\ Len(a) % 8 = 0
    BY <1>1, AlignAre
  <1>3. 32768 + length \in Nat
    OBVIOUS
  <1>4. /\ Len(asn_put_few_bits(a, length, 8)) % 8 = 0
        /\ Len(asn_put_few_bits(a, 32768 + length, 16)) % 8 = 0
    BY <1>2, <1>3, OctetKeepsBoundary
  <1>5. CASE length <= 127
    BY <1>1, <1>4, <1>5 DEF aper_put_length
  <1>6. CASE ~(length <= 127)
    BY <1>1, <1>4, <1>6 DEF aper_put_length
  <1> QED
    BY <1>5, <1>6

LEMMA OnBoundary ==
  ASSUME NEW pos \in Nat, pos % 8 = 0
  PROVE  aper_get_align(pos) = pos
  BY DEF aper_get_align, Gap

\* What is behind a length or a number is behind what came before it.
LEMMA SentFurther ==
  ASSUME NEW po \in Seq(Bit), NEW led, NEW out, SentBehind(led, po), SentBehind(out, led)
  PROVE  /\ SentBehind(out, po)
         /\ \A pd \in Seq(Octet) : Carries(pd, out) => Carries(pd, led)
  <1>1. led \in Seq(Bit) /\ Continues(led, po) /\ out \in Seq(Bit) /\ Continues(out, led)
    BY DEF SentBehind
  <1>2. Continues(out, po)
    BY <1>1, ContinuesFurther
  <1>3. \A pd \in Seq(Octet) : Carries(pd, out) => Carries(pd, led)
    BY <1>1, CarriesFirst
  <1> QED
    BY <1>1, <1>2, <1>3 DEF SentBehind

LEMMA ReadBehindLength ==
  ASSUME NEW po \in Seq(Bit), NEW n \in Nat, n < 16384, NEW u \in {1, 8},
         NEW units \in Units(u), Len(units) = n
  PROVE  LET out == asn_put_many_bits(aper_put_length(po, n), units, u)
         IN  /\ SentBehind(out, po)
             /\ \A pd \in Seq(Octet) : Carries(pd, out) =>
                    \E at : /\ aper_get_length(pd, Len(po)) = Got(n, at)
                            /\ aper_get_align(at) = at
                            /\ asn_get_many_bits(pd, at, n, u) = Got(units, Len(out))
  <1>1. PICK led : led = aper_put_length(po, n)
    OBVIOUS
  <1>2. SentBehind(led, po) /\ LengthRead(led, Len(po), n)
    BY <1>1, LengthSent
  <1>3. led \in Seq(Bit) /\ Len(led) % 8 = 0 /\ Len(led) \in Nat
    BY <1>1, <1>2, LengthOnBoundary, BitsAreNumbers DEF SentBehind
  <1>4. aper_get_align(Len(led)) = Len(led)
    BY <1>3, OnBoundary
  <1>5. PICK out : out = asn_put_many_bits(led, units, u)
    OBVIOUS
  <1>6. SentBehind(out, led) /\ UnitsRead(out, Len(led), units, u)
    BY <1>3, <1>5, ContentHere
  <1>7. SentBehind(out, po) /\ \A pd \in Seq(Octet) : Carries(pd, out) => Carries(pd, led)
    BY <1>2, <1>6, SentFurther
  <1>8. ASSUME NEW pd \in Seq(Octet), Carries(pd, out)
        PROVE  \E at : /\ aper_get_length(pd, Len(po)) = Got(n, at)
                       /\ aper_get_align(at) = at
                       /\ asn_get_many_bits(pd, at, n, u) = Got(units, Len(out))
    <2>1. aper_get_length(pd, Len(po)) = Got(n, Len(led))
      BY <1>2, <1>7, <1>8 DEF LengthRead
    <2>2. asn_get_many_bits(pd, Len(led), n, u) = Got(units, Len(out))
      BY <1>6, <1>8 DEF UnitsRead
    <2> QED
      BY <1>4, <2>1, <2>2
  <1>9. out = asn_put_many_bits(aper_put_length(po, n), units, u)
    BY <1>1, <1>5
  <1> QED
    BY <1>7, <1>8, <1>9

\* The coder of strings, case after case.
LEMMA UnboundedString ==
  ASSUME NEW td, NEW bits \in Int, td.size.effective_bits = bits, bits < 0
  PROVE  /\ \A value, po : OCTET_STRING_encode_aper(td, value, po)
                = asn_put_many_bits(aper_put_length(po, Len(value)), value, UnitBits(td))
         /\ \A pd, pos, n, at : aper_get_length(pd, pos) = Got(n, at) /\ aper_get_align(at) = at =>
                OCTET_STRING_decode_aper(td, pd, pos) = asn_get_many_bits(pd, at, n, UnitBits(td))
  <1>1. ASSUME NEW value, NEW po
        PROVE  OCTET_STRING_encode_aper(td, value, po)
                = asn_put_many_bits(aper_put_length(po, Len(value)), value, UnitBits(td))
    BY DEF OCTET_STRING_encode_aper
  <1>2. ASSUME NEW pd, NEW pos, NEW n, NEW at,
               aper_get_length(pd, pos) = Got(n, at), aper_get_align(at) = at
        PROVE  OCTET_STRING_decode_aper(td, pd, pos) = asn_get_many_bits(pd, at, n, UnitBits(td))
    BY <1>2, GotIs DEF OCTET_STRING_decode_aper, Get
  <1> QED
    BY <1>1, <1>2

LEMMA FixedString ==
  ASSUME NEW td, td.size.effective_bits = 0, NEW n \in Int,
         td.size.lower_bound = n, td.size.upper_bound = n
  PROVE  /\ \A value, po : Len(value) = n =>
                OCTET_STRING_encode_aper(td, value, po)
                    = asn_put_many_bits(IF OctetsOf(td, n) > 2 THEN aper_put_align(po) ELSE po,
                                        value, UnitBits(td))
         /\ \A pd, pos : OCTET_STRING_decode_aper(td, pd, pos)
                = asn_get_many_bits(pd, IF OctetsOf(td, n) > 2 THEN aper_get_align(pos) ELSE pos,
                                    n, UnitBits(td))
  <1>1. ASSUME NEW value, NEW po, Len(value) = n
        PROVE  OCTET_STRING_encode_aper(td, value, po)
                    = asn_put_many_bits(IF OctetsOf(td, n) > 2 THEN aper_put_align(po) ELSE po,
                                        value, UnitBits(td))
    BY <1>1 DEF OCTET_STRING_encode_aper
  <1>2. ASSUME NEW pd, NEW pos
        PROVE  OCTET_STRING_decode_aper(td, pd, pos)
                = asn_get_many_bits(pd, IF OctetsOf(td, n) > 2 THEN aper_get_align(pos) ELSE pos,
                                    n, UnitBits(td))
    BY DEF OCTET_STRING_decode_aper
  <1> QED
    BY <1>1, <1>2

LEMMA RangedString ==
  ASSUME NEW td, NEW bits \in Int, td.size.effective_bits = bits, bits > 0,
         NEW lower \in Int, NEW upper \in Int,
         td.size.lower_bound = lower, td.size.upper_bound = upper,
         NEW n \in Int, lower <= n, n <= upper
  PROVE  /\ \A value, po, led :
                Len(value) = n /\ led = aper_put_nsnnwn(po, upper - lower + 1, n - lower) =>
                OCTET_STRING_encode_aper(td, value, po)
                    = asn_put_many_bits(IF OctetsOf(td, n) > 2 THEN aper_put_align(led) ELSE led,
                                        value, UnitBits(td))
         /\ \A pd, pos, at : aper_get_nsnnwn(pd, pos, upper - lower + 1) = Got(n - lower, at) =>
                OCTET_STRING_decode_aper(td, pd, pos)
                    = asn_get_many_bits(pd, IF n > 2 THEN aper_get_align(at) ELSE at,
                                        n, UnitBits(td))
  <1>1. ASSUME NEW value, NEW po, NEW led,
               Len(value) = n, led = aper_put_nsnnwn(po, upper - lower + 1, n - lower)
        PROVE  OCTET_STRING_encode_aper(td, value, po)
                    = asn_put_many_bits(IF OctetsOf(td, n) > 2 THEN aper_put_align(led) ELSE led,
                                        value, UnitBits(td))
    BY <1>1 DEF OCTET_STRING_encode_aper
  <1>2. ASSUME NEW pd, NEW pos, NEW at, NEW number, number = n - lower,
               aper_get_nsnnwn(pd, pos, upper - lower + 1) = Got(number, at)
        PROVE  OCTET_STRING_decode_aper(td, pd, pos)
                    = asn_get_many_bits(pd, IF n > 2 THEN aper_get_align(at) ELSE at,
                                        n, UnitBits(td))
    <2>1. number + lower = n
      BY <1>2
    <2> QED
      BY <1>2, <2>1, GotIs DEF OCTET_STRING_decode_aper, Get
  <1> QED
    BY <1>1, <1>2

StringRead(td, out, at, value) ==
    \A pd \in Seq(Octet) : Carries(pd, out) =>
        OCTET_STRING_decode_aper(td, pd, at) = Got(value, Len(out))

LEMMA UnitBitsAre ==
  ASSUME NEW td
  PROVE  UnitBits(td) \in {1, 8}
  BY DEF UnitBits

LEMMA UnboundedStringArrives ==
  ASSUME NEW td, NEW bits \in Int, td.size.effective_bits = bits, bits < 0,
         NEW value \in Units(UnitBits(td)), Len(value) \in Nat, Len(value) < 16384,
         NEW po \in Seq(Bit)
  PROVE  /\ SentBehind(OCTET_STRING_encode_aper(td, value, po), po)
         /\ StringRead(td, OCTET_STRING_encode_aper(td, value, po), Len(po), value)
  <1>1. PICK u : u = UnitBits(td)
    OBVIOUS
  <1>2. u \in {1, 8} /\ value \in Units(u)
    BY <1>1, UnitBitsAre
  <1>3. PICK n : n = Len(value)
    OBVIOUS
  <1>4. n \in Nat /\ n < 16384
    BY <1>3
  <1>5. PICK out : out = asn_put_many_bits(aper_put_length(po, n), value, u)
    OBVIOUS
  <1>6. OCTET_STRING_encode_aper(td, value, po) = out
    BY <1>1, <1>3, <1>5, UnboundedString
  <1>7. /\ SentBehind(out, po)
        /\ \A pd \in Seq(Octet) : Carries(pd, out) =>
               \E at : /\ aper_get_length(pd, Len(po)) = Got(n, at)
                       /\ aper_get_align(at) = at
                       /\ asn_get_many_bits(pd, at, n, u) = Got(value, Len(out))
    BY <1>2, <1>3, <1>4, <1>5, ReadBehindLength
  <1>8. ASSUME NEW pd \in Seq(Octet), Carries(pd, out)
        PROVE  OCTET_STRING_decode_aper(td, pd, Len(po)) = Got(value, Len(out))
    <2>1. PICK at : /\ aper_get_length(pd, Len(po)) = Got(n, at)
                    /\ aper_get_align(at) = at
                    /\ asn_get_many_bits(pd, at, n, u) = Got(value, Len(out))
      BY <1>7, <1>8
    <2>2. OCTET_STRING_decode_aper(td, pd, Len(po)) = asn_get_many_bits(pd, at, n, u)
      BY <1>1, <2>1, UnboundedString
    <2> QED
      BY <2>1, <2>2
  <1> QED
    BY <1>6, <1>7, <1>8 DEF StringRead

LEMMA FixedStringArrives ==
  ASSUME NEW td, td.size.effective_bits = 0, NEW value \in Units(UnitBits(td)),
         NEW n \in Int, Len(value) = n, td.size.lower_bound = n, td.size.upper_bound = n,
         NEW po \in Seq(Bit)
  PROVE  /\ SentBehind(OCTET_STRING_encode_aper(td, value, po), po)
         /\ StringRead(td, OCTET_STRING_encode_aper(td, value, po), Len(po), value)
  <1>1. PICK u : u = UnitBits(td)
    OBVIOUS
  <1>2. u \in {1, 8} /\ value \in Units(u)
    BY <1>1, UnitBitsAre
  <1>3. CASE OctetsOf(td, n) > 2
    <2>1. PICK out : out = asn_put_many_bits(aper_put_align(po), value, u)
      OBVIOUS
    <2>2. SentBehind(out, po) /\ UnitsRead(out, aper_get_align(Len(po)), value, u)
      BY <1>2, <2>1, ContentAligned
    <2>3. OCTET_STRING_encode_aper(td, value, po) = out
      BY <1>1, <1>3, <2>1, FixedString
    <2>4. \A pd : OCTET_STRING_decode_aper(td, pd, Len(po))
                      = asn_get_many_bits(pd, aper_get_align(Len(po)), Len(value), u)
      BY <1>1, <1>3, FixedString
    <2> QED
      BY <2>2, <2>3, <2>4 DEF UnitsRead, StringRead
  <1>4. CASE ~(OctetsOf(td, n) > 2)
    <2>1. PICK out : out = asn_put_many_bits(po, value, u)
      OBVIOUS
    <2>2. SentBehind(out, po) /\ UnitsRead(out, Len(po), value, u)
      BY <1>2, <2>1, ContentHere
    <2>3. OCTET_STRING_encode_aper(td, value, po) = out
      BY <1>1, <1>4, <2>1, FixedString
    <2>4. \A pd : OCTET_STRING_decode_aper(td, pd, Len(po))
                      = asn_get_many_bits(pd, Len(po), Len(value), u)
      BY <1>1, <1>4, FixedString
    <2> QED
      BY <2>2, <2>3, <2>4 DEF UnitsRead, StringRead
  <1> QED
    BY <1>3, <1>4

LEMMA RangedStringArrives ==
  ASSUME NEW td, NEW bits \in Int, td.size.effective_bits = bits, bits > 0,
         NEW value \in Units(UnitBits(td)), NEW n \in Int, Len(value) = n,
         NEW lower \in Int, NEW upper \in Int,
         td.size.lower_bound = lower, td.size.upper_bound = upper, lower <= n, n <= upper,
         upper - lower + 1 \in Ranges, (OctetsOf(td, n) > 2) = (n > 2), NEW po \in Seq(Bit)
  PROVE  /\ SentBehind(OCTET_STRING_encode_aper(td, value, po), po)
         /\ StringRead(td, OCTET_STRING_encode_aper(td, value, po), Len(po), value)
  <1>1. PICK u : u = UnitBits(td)
    OBVIOUS
  <1>2. u \in {1, 8} /\ value \in Units(u)
    BY <1>1, UnitBitsAre
  <1>3. PICK number : number = n - lower
    OBVIOUS
  <1>4. PICK range : range = upper - lower + 1
    OBVIOUS
  <1>5. number \in Nat /\ range \in Ranges /\ number < range
    BY <1>3, <1>4
  <1>6. PICK led : led = aper_put_nsnnwn(po, range, number)
    OBVIOUS
  <1>7. /\ led \in Seq(Bit) /\ Continues(led, po)
        /\ \A pd \in Seq(Octet) : Carries(pd, led) =>
               aper_get_nsnnwn(pd, Len(po), range) = Got(number, Len(led))
    BY <1>5, <1>6, NumberArrives
  <1>8. SentBehind(led, po)
    BY <1>7 DEF SentBehind
  <1>9. PICK out : OCTET_STRING_encode_aper(td, value, po) = out
    OBVIOUS
  <1>10. PICK at : at = IF n > 2 THEN aper_get_align(Len(led)) ELSE Len(led)
    OBVIOUS
  <1>11. SentBehind(out, led) /\ UnitsRead(out, at, value, u)
    <2>1. CASE n > 2
      <3>1. out = asn_put_many_bits(aper_put_align(led), value, u)
        BY <1>1, <1>3, <1>4, <1>6, <1>9, <2>1, RangedString
      <3> QED
        BY <1>2, <1>7, <1>10, <2>1, <3>1, ContentAligned
    <2>2. CASE ~(n > 2)
      <3>1. out = asn_put_many_bits(led, value, u)
        BY <1>1, <1>3, <1>4, <1>6, <1>9, <2>2, RangedString
      <3> QED
        BY <1>2, <1>7, <1>10, <2>2, <3>1, ContentHere
    <2> QED
      BY <2>1, <2>2
  <1>12. SentBehind(out, po) /\ \A pd \in Seq(Octet) : Carries(pd, out) => Carries(pd, led)
    BY <1>8, <1>11, SentFurther
  <1>13. ASSUME NEW pd \in Seq(Octet), Carries(pd, out)
         PROVE  OCTET_STRING_decode_aper(td, pd, Len(po)) = Got(value, Len(out))
    <2>1. asn_get_many_bits(pd, at, n, u) = Got(value, Len(out))
      BY <1>11, <1>13 DEF UnitsRead
    <2>2. aper_get_nsnnwn(pd, Len(po), range) = Got(number, Len(led))
      BY <1>7, <1>12, <1>13
    <2>3. OCTET_STRING_decode_aper(td, pd, Len(po)) = asn_get_many_bits(pd, at, n, u)
      <3>1. number + lower = n
        BY <1>3
      <3> QED
        BY <1>1, <1>4, <1>10, <2>2, <3>1, GotIs DEF OCTET_STRING_decode_aper, Get
    <2> QED
      BY <2>1, <2>3
  <1> QED
    BY <1>9, <1>12, <1>13 DEF StringRead

\* The decoder asks whether there are more than two units where the encoder asks
\* for octets: in bit strings of 3 to 16 bits they differ.
LongOrShort(td, n) == td.kind = "BIT STRING" => n > 16 \/ n <= 2

\* The strings that arrive: without a constraint, of a fixed SIZE, or of a SIZE
\* in a range, but for the bit strings above.
Fits(td, bits, lower, upper, n) ==
    \/ bits < 0 /\ n < 16384
    \/ bits = 0 /\ lower = n /\ upper = n
    \/ /\ bits > 0 /\ lower <= n /\ n <= upper /\ upper - lower + 1 \in Ranges
       /\ LongOrShort(td, n)

LEMMA OctetsAre ==
  ASSUME NEW td, NEW n \in Nat
  PROVE  /\ td.kind # "BIT STRING" => OctetsOf(td, n) = n
         /\ td.kind = "BIT STRING" => OctetsOf(td, n) = (n + 7) \div 8
  <1>1. ASSUME NEW u, u = UnitBits(td), u \in {1, 8}
        PROVE  OctetsOf(td, n) = (n * u + 7) \div 8
    BY <1>1 DEF OctetsOf
  <1>2. n * 1 = n /\ (n * 8 + 7) \div 8 = n
    OBVIOUS
  <1>3. /\ td.kind = "BIT STRING" => UnitBits(td) = 1
        /\ td.kind # "BIT STRING" => UnitBits(td) = 8
    BY DEF UnitBits
  <1>4. td.kind = "BIT STRING" => OctetsOf(td, n) = (n * 1 + 7) \div 8
    BY <1>1, <1>3
  <1>5. td.kind # "BIT STRING" => OctetsOf(td, n) = (n * 8 + 7) \div 8
    BY <1>1, <1>3
  <1> QED
    BY <1>2, <1>4, <1>5

LEMMA SmallDivision ==
  ASSUME NEW n \in Nat
  PROVE  /\ n > 16 => (n + 7) \div 8 > 2
         /\ n <= 2 => ~((n + 7) \div 8 > 2)
  OBVIOUS

LEMMA SameAlignment ==
  ASSUME NEW td, NEW n \in Nat, LongOrShort(td, n)
  PROVE  (OctetsOf(td, n) > 2) = (n > 2)
  <1>1. CASE td.kind = "BIT STRING"
    <2>1. OctetsOf(td, n) = (n + 7) \div 8
      BY <1>1, OctetsAre
    <2>2. CASE n > 16
      <3>1. n > 2
        BY <2>2
      <3> QED
        BY <2>1, <2>2, <3>1, SmallDivision
    <2>3. CASE n <= 2
      <3>1. ~(n > 2)
        BY <2>3
      <3> QED
        BY <2>1, <2>3, <3>1, SmallDivision
    <2>4. n > 16 \/ n <= 2
      BY <1>1 DEF LongOrShort
    <2> QED
      BY <2>2, <2>3, <2>4
  <1>2. CASE td.kind # "BIT STRING"
    BY <1>2, OctetsAre
  <1> QED
    BY <1>1, <1>2

LEMMA SizeIs ==
  ASSUME NEW flags, NEW bits, NEW lower, NEW upper, NEW checked,
         NEW td, td \in {OCTET_STRING(Bounds(flags, bits, lower, upper), checked),
                         BIT_STRING(Bounds(flags, bits, lower, upper), checked)}
  PROVE  /\ td.size.effective_bits = bits
         /\ td.size.lower_bound = lower /\ td.size.upper_bound = upper
  <1>1. PICK size : size = Bounds(flags, bits, lower, upper)
    OBVIOUS
  <1>2. size.effective_bits = bits /\ size.lower_bound = lower /\ size.upper_bound = upper
    BY <1>1 DEF Bounds
  <1>3. CASE td = OCTET_STRING(size, checked)
    BY <1>2, <1>3 DEF OCTET_STRING
  <1>4. CASE td = BIT_STRING(size, checked)
    BY <1>2, <1>4 DEF BIT_STRING
  <1> QED
    BY <1>1, <1>3, <1>4

\* A string arrives as it was sent, whatever is before it and behind it: with
\* its length in one octet or two, in a range, or without any, and with its
\* content aligned or not (OCTET_STRING_encode_aper, OCTET_STRING_decode_aper).
THEOREM StringArrives ==
  ASSUME NEW flags, NEW bits \in Int, NEW lower \in Int, NEW upper \in Int, NEW checked,
         NEW td, td \in {OCTET_STRING(Bounds(flags, bits, lower, upper), checked),
                         BIT_STRING(Bounds(flags, bits, lower, upper), checked)},
         NEW value \in Units(UnitBits(td)),
         Fits(td, bits, lower, upper, Len(value)), NEW po \in Seq(Bit)
  PROVE  /\ SentBehind(OCTET_STRING_encode_aper(td, value, po), po)
         /\ StringRead(td, OCTET_STRING_encode_aper(td, value, po), Len(po), value)
  <1>1. /\ td.size.effective_bits = bits
        /\ td.size.lower_bound = lower /\ td.size.upper_bound = upper
    BY SizeIs
  <1>2. PICK n : n = Len(value)
    OBVIOUS
  <1>3. n \in Nat
    <2>1. UnitBits(td) \in {1, 8}
      BY UnitBitsAre
    <2> QED
      BY <1>2, <2>1, UnitsAre
  <1>4. CASE bits < 0 /\ n < 16384
    BY <1>1, <1>2, <1>3, <1>4, UnboundedStringArrives
  <1>5. CASE bits = 0 /\ lower = n /\ upper = n
    BY <1>1, <1>2, <1>3, <1>5, FixedStringArrives
  <1>6. CASE /\ bits > 0 /\ lower <= n /\ n <= upper /\ upper - lower + 1 \in Ranges
             /\ LongOrShort(td, n)
    <2>1. (OctetsOf(td, n) > 2) = (n > 2)
      BY <1>3, <1>6, SameAlignment
    <2> QED
      BY <1>1, <1>2, <1>3, <1>6, <2>1, RangedStringArrives
  <1> QED
    BY <1>2, <1>4, <1>5, <1>6 DEF Fits
-----------------------------------------------------------------------------
(* Integers.                                                               *)

\* The octets of a number, the highest one first.
OctetsIn(v, n) == [i \in 1 .. n |-> (v \div 256^(n - i)) % 256]

LEMMA PowersOf256 ==
  /\ 256^0 = 1 /\ 256^1 = 256 /\ 256^2 = 65536 /\ 256^3 = 16777216 /\ 256^4 = 4294967296
  BY SMT

LEMMA DividedFurther ==
  ASSUME NEW v \in Int, NEW p \in Nat, p > 0
  PROVE  /\ v \div (256 * p) = (v \div p) \div 256
         /\ v \div p \in Int
  BY SMT

LEMMA LowOctet ==
  ASSUME NEW w \in Int
  PROVE  /\ w = 256 * (w \div 256) + (w % 256)
         /\ w \div 256 \in Int /\ w % 256 \in 0 .. 255
  BY SMT

\* The octet of a number at p, and what is above it.
SplitAt(v, p, q) ==
    /\ v \div p = 256 * (v \div q) + ((v \div p) % 256)
    /\ v \div p \in Int /\ v \div q \in Int
    /\ (v \div p) % 256 \in 0 .. 255

LEMMA OctetAbove ==
  ASSUME NEW v \in Int, NEW p \in Nat, p > 0, NEW q, q = 256 * p
  PROVE  SplitAt(v, p, q)
  <1>1. PICK w : w = v \div p
    BY SMT
  <1>2. w \in Int /\ v \div (256 * p) = w \div 256
    BY SMT, <1>1, DividedFurther
  <1>3. w = 256 * (w \div 256) + (w % 256) /\ w \div 256 \in Int /\ w % 256 \in 0 .. 255
    BY SMT, <1>2, LowOctet
  <1> QED
    BY SMT, <1>1, <1>2, <1>3 DEF SplitAt

LEMMA NextOctet ==
  ASSUME NEW v \in Int, NEW k \in 0 .. 3
  PROVE  SplitAt(v, 256^k, 256^(k + 1))
  <1>1. CASE k = 0
    <2>1. 256^k = 1 /\ 256^(k + 1) = 256
      BY SMT, <1>1
    <2>2. PICK p, q : p = 1 /\ q = 256
      BY SMT
    <2>3. p \in Nat /\ p > 0 /\ q = 256 * p
      BY SMT, <2>2
    <2>4. SplitAt(v, p, q)
      BY SMT, <2>3, OctetAbove
    <2> QED
      BY SMT, <2>1, <2>2, <2>4
  <1>2. CASE k = 1
    <2>1. 256^k = 256 /\ 256^(k + 1) = 65536
      BY SMT, <1>2
    <2>2. PICK p, q : p = 256 /\ q = 65536
      BY SMT
    <2>3. p \in Nat /\ p > 0 /\ q = 256 * p
      BY SMT, <2>2
    <2>4. SplitAt(v, p, q)
      BY SMT, <2>3, OctetAbove
    <2> QED
      BY SMT, <2>1, <2>2, <2>4
  <1>3. CASE k = 2
    <2>1. 256^k = 65536 /\ 256^(k + 1) = 16777216
      BY SMT, <1>3
    <2>2. PICK p, q : p = 65536 /\ q = 16777216
      BY SMT
    <2>3. p \in Nat /\ p > 0 /\ q = 256 * p
      BY SMT, <2>2
    <2>4. SplitAt(v, p, q)
      BY SMT, <2>3, OctetAbove
    <2> QED
      BY SMT, <2>1, <2>2, <2>4
  <1>4. CASE k = 3
    <2>1. 256^k = 16777216 /\ 256^(k + 1) = 4294967296
      BY SMT, <1>4
    <2>2. PICK p, q : p = 16777216 /\ q = 4294967296
      BY SMT
    <2>3. p \in Nat /\ p > 0 /\ q = 256 * p
      BY SMT, <2>2
    <2>4. SplitAt(v, p, q)
      BY SMT, <2>3, OctetAbove
    <2> QED
      BY SMT, <2>1, <2>2, <2>4
  <1> QED
    BY SMT, <1>1, <1>2, <1>3, <1>4

\* The first of n octets tells the sign.
SignIn(v, n) ==
    /\ v < 0 => v \div 256^n = -1 /\ (v \div 256^(n - 1)) % 256 > 127
    /\ ~(v < 0) => v \div 256^n = 0 /\ ~((v \div 256^(n - 1)) % 256 > 127)

LEMMA SignInOne ==
  ASSUME NEW v \in Int, v >= -128, v <= 127
  PROVE  SignIn(v, 1)
  BY SMT, PowersOf256 DEF SignIn

LEMMA SignInTwo ==
  ASSUME NEW v \in Int, v >= -32768, v <= 32767
  PROVE  SignIn(v, 2)
  BY SMT, PowersOf256 DEF SignIn

LEMMA SignInThree ==
  ASSUME NEW v \in Int, v >= -8388608, v <= 8388607
  PROVE  SignIn(v, 3)
  BY SMT, PowersOf256 DEF SignIn

LEMMA SignInFour ==
  ASSUME NEW v \in Int, v >= -2147483648, v <= 2147483647
  PROVE  SignIn(v, 4)
  BY SMT, PowersOf256 DEF SignIn

\* How many octets asn_long2INTEGER needs.
Shortest(value) ==
    LET fits(k) == -128 * 256^(k - 1) <= value /\ value < 128 * 256^(k - 1)
    IN  IF fits(1) THEN 1 ELSE IF fits(2) THEN 2 ELSE IF fits(3) THEN 3 ELSE 4

LEMMA ShortestOctets ==
  ASSUME NEW v
  PROVE  TwosComplement(v) = OctetsIn(v, Shortest(v))
  BY SMT DEF TwosComplement, OctetsIn, Shortest

LEMMA ShortestIs ==
  ASSUME NEW v \in Int, v >= -2147483648, v <= 2147483647
  PROVE  Shortest(v) \in 1 .. 4 /\ SignIn(v, Shortest(v))
  <1>1. CASE v >= -128 /\ v <= 127
    <2>1. Shortest(v) = 1
      BY SMT, <1>1, PowersOf256 DEF Shortest
    <2> QED
      BY SMT, <1>1, <2>1, SignInOne
  <1>2. CASE ~(v >= -128 /\ v <= 127) /\ v >= -32768 /\ v <= 32767
    <2>1. Shortest(v) = 2
      BY SMT, <1>2, PowersOf256 DEF Shortest
    <2> QED
      BY SMT, <1>2, <2>1, SignInTwo
  <1>3. CASE ~(v >= -32768 /\ v <= 32767) /\ v >= -8388608 /\ v <= 8388607
    <2>1. Shortest(v) = 3
      BY SMT, <1>3, PowersOf256 DEF Shortest
    <2> QED
      BY SMT, <1>3, <2>1, SignInThree
  <1>4. CASE ~(v >= -8388608 /\ v <= 8388607)
    <2>1. Shortest(v) = 4
      BY SMT, <1>4, PowersOf256 DEF Shortest
    <2> QED
      BY SMT, <2>1, SignInFour
  <1> QED
    BY SMT, <1>1, <1>2, <1>3, <1>4

LEMMA SplitIn ==
  ASSUME NEW v \in Int, NEW n \in 1 .. 4, NEW i \in 1 .. n
  PROVE  SplitAt(v, 256^(n - i), 256^(n - (i - 1)))
  <1>1. PICK k : k = n - i
    BY SMT
  <1>2. k \in 0 .. 3 /\ n - (i - 1) = k + 1
    BY SMT, <1>1
  <1>3. SplitAt(v, 256^k, 256^(k + 1))
    BY Zenon, <1>2, NextOctet
  <1> QED
    BY Zenon, <1>1, <1>2, <1>3

LEMMA OctetsMakeNumber ==
  ASSUME NEW v \in Int, NEW n \in 1 .. 4, NEW start \in Int, v \div 256^n = start
  PROVE  /\ OctetsIn(v, n) \in Seq(Octet) /\ Len(OctetsIn(v, n)) = n
         /\ Shifted(start, 256, OctetsIn(v, n)) = v
  <1> DEFINE digits == OctetsIn(v, n)
             g == [i \in 0 .. n |-> v \div 256^(n - i)]
  <1>1. ASSUME NEW i \in 1 .. n
        PROVE  SplitAt(v, 256^(n - i), 256^(n - (i - 1)))
    BY Zenon, <1>1, SplitIn
  <1>2. digits \in [1 .. n -> Octet] /\ n \in Nat
    BY SMT, <1>1 DEF OctetsIn, Octet, SplitAt
  <1>3. digits \in Seq(Octet) /\ Len(digits) = n
    <2> HIDE DEF digits
    <2> QED
      BY SMT, <1>2
  <1>4. digits \in Seq(Int)
    <2> HIDE DEF digits
    <2> QED
      BY SMT, <1>3, BitsAreNumbers
  <1>5. g[0] = start
    BY SMT
  <1>6. g[n] = v
    <2>1. g[n] = v \div 256^0
      BY SMT
    <2> QED
      BY SMT, <2>1, PowersOf256
  <1>7. g \in [0 .. n -> Int]
    <2>1. ASSUME NEW i \in 0 .. n PROVE v \div 256^(n - i) \in Int
      <3>1. CASE i = 0
        BY SMT, <3>1
      <3>2. CASE i # 0
        <4>1. i \in 1 .. n
          BY SMT, <3>2
        <4>2. SplitAt(v, 256^(n - i), 256^(n - (i - 1)))
          BY SMT, <4>1, <1>1
        <4> QED
          BY SMT, <4>2 DEF SplitAt
      <3> QED
        BY SMT, <3>1, <3>2
    <2> QED
      BY SMT, <2>1
  <1>8. ASSUME NEW i \in 1 .. n PROVE g[i] = 256 * g[i - 1] + digits[i]
    <2>1. g[i] = v \div 256^(n - i) /\ g[i - 1] = v \div 256^(n - (i - 1))
      BY SMT
    <2>2. digits[i] = (v \div 256^(n - i)) % 256
      BY SMT DEF OctetsIn
    <2>3. SplitAt(v, 256^(n - i), 256^(n - (i - 1)))
      BY SMT, <1>1
    <2> HIDE DEF g, digits
    <2> QED
      BY SMT, <2>1, <2>2, <2>3 DEF SplitAt
  <1> HIDE DEF g, digits
  <1>9. Shifted(start, 256, digits) = g[n]
    <2>1. g \in [0 .. Len(digits) -> Int]
          /\ \A i \in 1 .. Len(digits) : g[i] = 256 * g[i - 1] + digits[i]
      BY SMT, <1>3, <1>7, <1>8
    <2>2. 256 \in Int
      BY SMT
    <2>3. Shifted(start, 256, digits) = g[Len(digits)]
      BY SMT, <1>4, <1>5, <2>1, <2>2, ShiftedUnique
    <2> QED
      BY SMT, <1>3, <2>3
  <1> QED
    BY SMT, <1>3, <1>6, <1>9 DEF digits

\* The integers of four octets.
Long == {v \in Int : v >= -2147483648 /\ v <= 2147483647}

LEMMA LongIs ==
  ASSUME NEW value \in Long
  PROVE  value \in Int /\ Shortest(value) \in 1 .. 4 /\ SignIn(value, Shortest(value))
  <1>1. value \in Int /\ value >= -2147483648 /\ value <= 2147483647
    BY SMT DEF Long
  <1> QED
    BY SMT, <1>1, ShortestIs

\* asn_INTEGER2long takes back what asn_long2INTEGER made, of every integer
\* of four octets.
LEMMA TwosComplementIs ==
  ASSUME NEW value \in Long
  PROVE  /\ TwosComplement(value) \in Seq(Octet)
         /\ Len(TwosComplement(value)) \in 1 .. 4
         /\ asn_INTEGER2imax(TwosComplement(value)) = value
  <1>1. PICK n : n = Shortest(value)
    BY SMT
  <1>2. n \in 1 .. 4 /\ SignIn(value, n) /\ value \in Int
    BY SMT, <1>1, LongIs
  <1>3. PICK octets : octets = OctetsIn(value, n)
    BY SMT
  <1>4. TwosComplement(value) = octets
    BY SMT, <1>1, <1>3, ShortestOctets
  <1>5. octets[1] = (value \div 256^(n - 1)) % 256
    BY SMT, <1>2, <1>3 DEF OctetsIn
  <1>6. PICK start : start = value \div 256^n
    BY SMT
  <1>7. start \in Int /\ start = IF octets[1] > 127 THEN -1 ELSE 0
    BY SMT, <1>2, <1>5, <1>6 DEF SignIn
  <1>8. octets \in Seq(Octet) /\ Len(octets) = n /\ Shifted(start, 256, octets) = value
    <2>1. /\ OctetsIn(value, n) \in Seq(Octet) /\ Len(OctetsIn(value, n)) = n
          /\ Shifted(start, 256, OctetsIn(value, n)) = value
      <3>1. n \in 1 .. 4
        BY <1>2
      <3>2. start \in Int
        BY <1>7
      <3>3. value \div 256^n = start
        BY Zenon, <1>6
      <3> QED
        BY Zenon, <1>2, <3>1, <3>2, <3>3, OctetsMakeNumber
    <2> QED
      BY Zenon, <1>3, <2>1
  <1>9. octets # <<>>
    BY SMT, <1>2, <1>8
  <1>10. asn_INTEGER2imax(octets) = value
    BY SMT, <1>7, <1>8, <1>9 DEF asn_INTEGER2imax
  <1> QED
    BY SMT, <1>2, <1>4, <1>8, <1>10

\* The coder of integers, case after case.
IntegerRead(td, out, at, value) ==
    \A pd \in Seq(Octet) : Carries(pd, out) =>
        INTEGER_decode_aper(td, pd, at) = Got(value, Len(out))

LEMMA UnboundedIntegerIs ==
  ASSUME NEW td, NEW bits \in Int, td.value.effective_bits = bits, bits < 0
  PROVE  /\ \A value, po : INTEGER_encode_aper(td, value, po)
                = asn_put_many_bits(aper_put_length(po, Len(TwosComplement(value))),
                                    TwosComplement(value), 8)
         /\ \A pd, pos, n, at, octets, end :
                aper_get_length(pd, pos) = Got(n, at)
                /\ asn_get_many_bits(pd, at, n, 8) = Got(octets, end) =>
                    INTEGER_decode_aper(td, pd, pos) = Got(asn_INTEGER2imax(octets), end)
  <1>1. ASSUME NEW value, NEW po
        PROVE  INTEGER_encode_aper(td, value, po)
                = asn_put_many_bits(aper_put_length(po, Len(TwosComplement(value))),
                                    TwosComplement(value), 8)
    BY SMT DEF INTEGER_encode_aper
  <1>2. ASSUME NEW pd, NEW pos, NEW n, NEW at, NEW octets, NEW end,
               aper_get_length(pd, pos) = Got(n, at),
               asn_get_many_bits(pd, at, n, 8) = Got(octets, end)
        PROVE  INTEGER_decode_aper(td, pd, pos) = Got(asn_INTEGER2imax(octets), end)
    BY SMT, <1>2, GotIs DEF INTEGER_decode_aper, Get
  <1> QED
    BY SMT, <1>1, <1>2

LEMMA UnitsOfOctets ==
  Units(8) = Seq(Octet)
  BY SMT DEF Units

LEMMA UnboundedIntegerArrives ==
  ASSUME NEW td, NEW bits \in Int, td.value.effective_bits = bits, bits < 0,
         NEW value \in Long, NEW po \in Seq(Bit)
  PROVE  /\ SentBehind(INTEGER_encode_aper(td, value, po), po)
         /\ IntegerRead(td, INTEGER_encode_aper(td, value, po), Len(po), value)
  <1>1. PICK octets : octets = TwosComplement(value)
    BY SMT
  <1>2. octets \in Seq(Octet) /\ Len(octets) \in 1 .. 4 /\ asn_INTEGER2imax(octets) = value
    BY SMT, <1>1, TwosComplementIs
  <1>3. PICK n : n = Len(octets)
    BY SMT
  <1>4. n \in Nat /\ n < 16384 /\ octets \in Units(8) /\ 8 \in {1, 8}
    BY SMT, <1>2, <1>3, UnitsOfOctets
  <1>5. PICK out : out = asn_put_many_bits(aper_put_length(po, n), octets, 8)
    BY SMT
  <1>6. INTEGER_encode_aper(td, value, po) = out
    <2>1. INTEGER_encode_aper(td, value, po)
              = asn_put_many_bits(aper_put_length(po, Len(TwosComplement(value))),
                                  TwosComplement(value), 8)
      BY Zenon, UnboundedIntegerIs
    <2> QED
      BY Zenon, <1>1, <1>3, <1>5, <2>1
  <1>7. /\ SentBehind(out, po)
        /\ \A pd \in Seq(Octet) : Carries(pd, out) =>
               \E at : /\ aper_get_length(pd, Len(po)) = Got(n, at)
                       /\ aper_get_align(at) = at
                       /\ asn_get_many_bits(pd, at, n, 8) = Got(octets, Len(out))
    BY SMT, <1>3, <1>4, <1>5, ReadBehindLength
  <1>8. ASSUME NEW pd \in Seq(Octet), Carries(pd, out)
        PROVE  INTEGER_decode_aper(td, pd, Len(po)) = Got(value, Len(out))
    <2>1. PICK at : /\ aper_get_length(pd, Len(po)) = Got(n, at)
                    /\ asn_get_many_bits(pd, at, n, 8) = Got(octets, Len(out))
      BY SMT, <1>7, <1>8
    <2>2. INTEGER_decode_aper(td, pd, Len(po)) = Got(asn_INTEGER2imax(octets), Len(out))
      BY SMT, <2>1, UnboundedIntegerIs
    <2> QED
      BY SMT, <1>2, <2>2
  <1> QED
    BY SMT, <1>6, <1>7, <1>8 DEF IntegerRead

\* An integer of a constrained type, in as many bits as its range has.
Within(td, bits, lower, upper, value) ==
    /\ td.value.effective_bits = bits
    /\ td.value.lower_bound = lower /\ td.value.upper_bound = upper
    /\ lower <= value /\ value <= upper

\* A coder of integers that puts v into n bits at a position.
Codes(td, value, po, out, at, n, v) ==
    /\ INTEGER_encode_aper(td, value, po) = out
    /\ \A pd, end : asn_get_few_bits(pd, at, n) = Got(v, end) =>
           INTEGER_decode_aper(td, pd, Len(po)) = Got(value, end)

LEMMA SmallIntegerIs ==
  ASSUME NEW td, NEW bits \in 0 .. 16, NEW lower \in Int, NEW upper \in Int, NEW value \in Int,
         Within(td, bits, lower, upper, value), NEW v, v = value - lower, NEW po
  PROVE  /\ bits < 8 => Codes(td, value, po, asn_put_few_bits(po, v, bits), Len(po), bits, v)
         /\ bits = 8 => Codes(td, value, po, asn_put_few_bits(aper_put_align(po), v, 8),
                               aper_get_align(Len(po)), 8, v)
         /\ bits > 8 => Codes(td, value, po, asn_put_few_bits(aper_put_align(po), v, 16),
                               aper_get_align(Len(po)), 16, v)
  <1>1. value \in lower .. upper /\ v + lower = value
    BY SMT DEF Within
  <1>2. ASSUME bits < 8
        PROVE  Codes(td, value, po, asn_put_few_bits(po, v, bits),
                     Len(po), bits, v)
    <2>1. INTEGER_encode_aper(td, value, po) = asn_put_few_bits(po, v, bits)
      BY SMT, <1>1, <1>2 DEF INTEGER_encode_aper, Within
    <2>2. ASSUME NEW pd, NEW end, asn_get_few_bits(pd, Len(po), bits) = Got(v, end)
          PROVE  INTEGER_decode_aper(td, pd, Len(po)) = Got(value, end)
      BY SMT, <1>1, <1>2, <2>2, GotIs DEF INTEGER_decode_aper, Get, Within
    <2> QED
      BY SMT, <2>1, <2>2 DEF Codes
  <1>3. ASSUME bits = 8
        PROVE  Codes(td, value, po, asn_put_few_bits(aper_put_align(po), v, 8),
                     aper_get_align(Len(po)), 8, v)
    <2>1. INTEGER_encode_aper(td, value, po) = asn_put_few_bits(aper_put_align(po), v, 8)
      BY SMT, <1>1, <1>3 DEF INTEGER_encode_aper, Within
    <2>2. ASSUME NEW pd, NEW end, asn_get_few_bits(pd, aper_get_align(Len(po)), 8) = Got(v, end)
          PROVE  INTEGER_decode_aper(td, pd, Len(po)) = Got(value, end)
      BY SMT, <1>1, <1>3, <2>2, GotIs DEF INTEGER_decode_aper, Get, Within
    <2> QED
      BY SMT, <2>1, <2>2 DEF Codes
  <1>4. ASSUME bits > 8
        PROVE  Codes(td, value, po, asn_put_few_bits(aper_put_align(po), v, 16),
                     aper_get_align(Len(po)), 16, v)
    <2>1. INTEGER_encode_aper(td, value, po) = asn_put_few_bits(aper_put_align(po), v, 16)
      BY SMT, <1>1, <1>4 DEF INTEGER_encode_aper, Within
    <2>2. ASSUME NEW pd, NEW end, asn_get_few_bits(pd, aper_get_align(Len(po)), 16) = Got(v, end)
          PROVE  INTEGER_decode_aper(td, pd, Len(po)) = Got(value, end)
      BY SMT, <1>1, <1>4, <2>2, GotIs DEF INTEGER_decode_aper, Get, Within
    <2> QED
      BY SMT, <2>1, <2>2 DEF Codes
  <1> QED
    BY SMT, <1>2, <1>3, <1>4

\* A number that so many bits have room for.
Room(v, n) == v \in Nat /\ v < 2^n

LEMMA MoreRoom ==
  ASSUME NEW v, NEW n \in 9 .. 16, Room(v, n)
  PROVE  Room(v, 16)
  <1>1. CASE n = 9 BY SMT, <1>1 DEF Room
  <1>2. CASE n = 10 BY SMT, <1>2 DEF Room
  <1>3. CASE n = 11 BY SMT, <1>3 DEF Room
  <1>4. CASE n = 12 BY SMT, <1>4 DEF Room
  <1>5. CASE n = 13 BY SMT, <1>5 DEF Room
  <1>6. CASE n = 14 BY SMT, <1>6 DEF Room
  <1>7. CASE n = 15 BY SMT, <1>7 DEF Room
  <1>8. CASE n = 16 BY SMT, <1>8 DEF Room
  <1> QED
    BY SMT, <1>1, <1>2, <1>3, <1>4, <1>5, <1>6, <1>7, <1>8

LEMMA PlainIs ==
  ASSUME NEW po \in Seq(Bit), NEW n \in 0 .. 16, NEW v, Room(v, n)
  PROVE  /\ SentBehind(asn_put_few_bits(po, v, n), po)
         /\ NumberRead(asn_put_few_bits(po, v, n), Len(po), n, v)
         /\ SentBehind(asn_put_few_bits(aper_put_align(po), v, n), po)
         /\ NumberRead(asn_put_few_bits(aper_put_align(po), v, n), aper_get_align(Len(po)), n, v)
  <1>1. v \in Nat /\ v < 2^n
    BY DEF Room
  <1> QED
    BY <1>1, PlainArrives, AlignedArrives

LEMMA CodesArrive ==
  ASSUME NEW td, NEW value, NEW po, NEW out, NEW at, NEW n, NEW v,
         Codes(td, value, po, out, at, n, v), SentBehind(out, po), NumberRead(out, at, n, v)
  PROVE  /\ SentBehind(INTEGER_encode_aper(td, value, po), po)
         /\ IntegerRead(td, INTEGER_encode_aper(td, value, po), Len(po), value)
  BY SMT DEF Codes, NumberRead, IntegerRead

LEMMA SmallIntegerArrives ==
  ASSUME NEW td, NEW bits \in 0 .. 16, NEW lower \in Int, NEW upper \in Int, NEW value \in Int,
         Within(td, bits, lower, upper, value), Room(value - lower, bits), NEW po \in Seq(Bit)
  PROVE  /\ SentBehind(INTEGER_encode_aper(td, value, po), po)
         /\ IntegerRead(td, INTEGER_encode_aper(td, value, po), Len(po), value)
  <1>1. PICK v : v = value - lower
    BY SMT
  <1>2. Room(v, bits)
    BY SMT, <1>1
  <1>3. CASE bits < 8
    <2>1. Codes(td, value, po, asn_put_few_bits(po, v, bits), Len(po), bits, v)
      BY Zenon, <1>1, <1>3, SmallIntegerIs
    <2>2. SentBehind(asn_put_few_bits(po, v, bits), po)
          /\ NumberRead(asn_put_few_bits(po, v, bits), Len(po), bits, v)
      BY Zenon, <1>2, PlainIs
    <2> QED
      BY Zenon, <2>1, <2>2, CodesArrive
  <1>4. CASE bits = 8
    <2>1. Codes(td, value, po, asn_put_few_bits(aper_put_align(po), v, 8),
                aper_get_align(Len(po)), 8, v)
      BY Zenon, <1>1, <1>4, SmallIntegerIs
    <2>2. Room(v, 8) /\ 8 \in 0 .. 16
      BY SMT, <1>2, <1>4
    <2>3. SentBehind(asn_put_few_bits(aper_put_align(po), v, 8), po)
          /\ NumberRead(asn_put_few_bits(aper_put_align(po), v, 8), aper_get_align(Len(po)), 8, v)
      BY Zenon, <2>2, PlainIs
    <2> QED
      BY Zenon, <2>1, <2>3, CodesArrive
  <1>5. CASE bits > 8
    <2>1. Codes(td, value, po, asn_put_few_bits(aper_put_align(po), v, 16),
                aper_get_align(Len(po)), 16, v)
      BY Zenon, <1>1, <1>5, SmallIntegerIs
    <2>2. Room(v, 16) /\ 16 \in 0 .. 16
      BY SMT, <1>2, <1>5, MoreRoom
    <2>3. SentBehind(asn_put_few_bits(aper_put_align(po), v, 16), po)
          /\ NumberRead(asn_put_few_bits(aper_put_align(po), v, 16), aper_get_align(Len(po)), 16, v)
      BY Zenon, <2>2, PlainIs
    <2> QED
      BY Zenon, <2>1, <2>3, CodesArrive
  <1>6. bits < 8 \/ bits = 8 \/ bits > 8
    BY SMT
  <1> QED
    BY Zenon, <1>3, <1>4, <1>5, <1>6

\* A number of more than 16 bits, in as few octets as it needs, which are
\* counted in front.
Wide == {v \in Nat : v < 4294967296}

LEMMA WideIs ==
  ASSUME NEW v \in Wide
  PROVE  \E n \in 1 .. 4 : v \div 256^(n - 1) < 256
                           /\ (n = 1 \/ v \div 256^(n - 1) > 0)
  <1>1. v \in Nat /\ v < 4294967296
    BY SMT DEF Wide
  <1>2. CASE v < 256
    <2>1. v \div 256^(1 - 1) < 256
      BY SMT, <1>1, <1>2, PowersOf256
    <2> QED
      BY SMT, <2>1
  <1>3. CASE v >= 256 /\ v < 65536
    <2>1. v \div 256^(2 - 1) < 256 /\ v \div 256^(2 - 1) > 0
      BY SMT, <1>1, <1>3, PowersOf256
    <2> QED
      BY SMT, <2>1
  <1>4. CASE v >= 65536 /\ v < 16777216
    <2>1. v \div 256^(3 - 1) < 256 /\ v \div 256^(3 - 1) > 0
      BY SMT, <1>1, <1>4, PowersOf256
    <2> QED
      BY SMT, <2>1
  <1>5. CASE v >= 16777216
    <2>1. v \div 256^(4 - 1) < 256 /\ v \div 256^(4 - 1) > 0
      BY SMT, <1>1, <1>5, PowersOf256
    <2> QED
      BY SMT, <2>1
  <1> QED
    BY SMT, <1>1, <1>2, <1>3, <1>4, <1>5

LEMMA MagnitudeIs ==
  ASSUME NEW v \in Wide
  PROVE  /\ v \in Int /\ Magnitude(v) \in 1 .. 4
         /\ v \div 256^(Magnitude(v) - 1) < 256
  <1> DEFINE P(n) == v \div 256^(n - 1) < 256 /\ (n = 1 \/ v \div 256^(n - 1) > 0)
  <1>1. \E n \in 1 .. 4 : P(n)
    BY SMT, WideIs
  <1>2. Magnitude(v) = CHOOSE n \in 1 .. 4 : P(n)
    BY SMT DEF Magnitude
  <1>3. Magnitude(v) \in 1 .. 4 /\ P(Magnitude(v))
    <2> HIDE DEF P
    <2> QED
      BY Zenon, <1>1, <1>2
  <1>4. v \in Int
    BY SMT DEF Wide
  <1> QED
    BY <1>3, <1>4

LEMMA NothingAbove ==
  ASSUME NEW v \in Wide, NEW n \in 1 .. 4, v \div 256^(n - 1) < 256
  PROVE  v \div 256^n = 0
  <1>1. v \in Nat
    BY SMT DEF Wide
  <1>2. CASE n = 1
    BY SMT, <1>1, <1>2, PowersOf256
  <1>3. CASE n = 2
    BY SMT, <1>1, <1>3, PowersOf256
  <1>4. CASE n = 3
    BY SMT, <1>1, <1>4, PowersOf256
  <1>5. CASE n = 4
    BY SMT, <1>1, <1>5, PowersOf256
  <1> QED
    BY SMT, <1>2, <1>3, <1>4, <1>5

LEMMA OctetsOfWide ==
  ASSUME NEW v \in Wide, NEW n, n = Magnitude(v)
  PROVE  /\ n \in 1 .. 4
         /\ OctetsIn(v, n) \in Seq(Octet) /\ Len(OctetsIn(v, n)) = n
         /\ Shifted(0, 256, OctetsIn(v, n)) = v
  <1>1. v \in Int /\ n \in 1 .. 4 /\ v \div 256^(n - 1) < 256
    BY Zenon, MagnitudeIs
  <1>2. v \div 256^n = 0
    BY Zenon, <1>1, NothingAbove
  <1>3. 0 \in Int
    BY SMT
  <1> QED
    BY Zenon, <1>1, <1>2, <1>3, OctetsMakeNumber

LEMMA CountBits ==
  ASSUME NEW bits \in 17 .. 32, NEW n \in 1 .. 4
  PROVE  /\ BitsOf(RangeOctets(bits)) \in 0 .. 16
         /\ Room(n - 1, BitsOf(RangeOctets(bits)))
  <1>1. PICK range : range = RangeOctets(bits)
    BY SMT
  <1>2. range \in 3 .. 4 /\ range \in 1 .. 255
    BY SMT, <1>1 DEF RangeOctets
  <1>3. PICK r : r = BitsOf(range)
    BY SMT
  <1>4. r \in 1 .. 8 /\ range <= 2^r
    BY SMT, <1>2, <1>3, BitsOfIs
  <1>5. CASE r = 1
    BY SMT, <1>2, <1>4, <1>5
  <1>6. CASE r = 2
    BY SMT, <1>1, <1>3, <1>6 DEF Room
  <1>7. CASE r = 3
    BY SMT, <1>1, <1>3, <1>7 DEF Room
  <1>8. CASE r = 4
    BY SMT, <1>1, <1>3, <1>8 DEF Room
  <1>9. CASE r = 5
    BY SMT, <1>1, <1>3, <1>9 DEF Room
  <1>10. CASE r = 6
    BY SMT, <1>1, <1>3, <1>10 DEF Room
  <1>11. CASE r = 7
    BY SMT, <1>1, <1>3, <1>11 DEF Room
  <1>12. CASE r = 8
    BY SMT, <1>1, <1>3, <1>12 DEF Room
  <1> QED
    BY SMT, <1>4, <1>5, <1>6, <1>7, <1>8, <1>9, <1>10, <1>11, <1>12

\* A coder of integers that puts the octets of v behind their number.
CodesWide(td, value, po, v, n, r) ==
    /\ INTEGER_encode_aper(td, value, po)
           = asn_put_many_bits(aper_put_align(asn_put_few_bits(po, n - 1, r)), OctetsIn(v, n), 8)
    /\ \A pd, at, octets, end :
           /\ asn_get_few_bits(pd, Len(po), r) = Got(n - 1, at)
           /\ asn_get_many_bits(pd, aper_get_align(at), n, 8) = Got(octets, end)
           /\ Shifted(0, 256, octets) = v
           => INTEGER_decode_aper(td, pd, Len(po)) = Got(value, end)

LEMMA WideIntegerIs ==
  ASSUME NEW td, NEW bits \in 17 .. 32, NEW lower \in Int, NEW upper \in Int, NEW value \in Int,
         Within(td, bits, lower, upper, value), NEW v, v = value - lower, NEW po,
         NEW n, n = Magnitude(v), n \in 1 .. 4,
         NEW r, r = BitsOf(RangeOctets(bits))
  PROVE  CodesWide(td, value, po, v, n, r)
  <1>1. value \in lower .. upper /\ v + lower = value /\ n - 1 + 1 = n
    BY SMT DEF Within
  <1>2. INTEGER_encode_aper(td, value, po)
            = asn_put_many_bits(aper_put_align(asn_put_few_bits(po, n - 1, r)), OctetsIn(v, n), 8)
    <2>1. PICK ct : ct = td.value
      BY SMT
    <2>2. /\ ct.effective_bits = bits /\ ct.lower_bound = lower /\ ct.upper_bound = upper
          /\ ~(bits < 0) /\ ~(bits < 8) /\ bits # 8 /\ bits \notin 9 .. 16
          /\ ~(bits >= 0 /\ value \notin lower .. upper)
      BY SMT, <1>1, <2>1 DEF Within
    <2>3. INTEGER_encode_aper(td, value, po)
            = asn_put_many_bits(
                  aper_put_align(asn_put_few_bits(po, Magnitude(v) - 1, BitsOf(RangeOctets(bits)))),
                  [i \in 1 .. Magnitude(v) |-> (v \div 256^(Magnitude(v) - i)) % 256], 8)
      BY Zenon, <2>1, <2>2 DEF INTEGER_encode_aper
    <2> QED
      BY Zenon, <2>3 DEF OctetsIn
  <1>3. ASSUME NEW pd, NEW at, NEW octets, NEW end,
               asn_get_few_bits(pd, Len(po), r) = Got(n - 1, at),
               asn_get_many_bits(pd, aper_get_align(at), n, 8) = Got(octets, end),
               Shifted(0, 256, octets) = v
        PROVE  INTEGER_decode_aper(td, pd, Len(po)) = Got(value, end)
    <2>1. PICK m : m = n - 1
      BY SMT
    <2>2. asn_get_few_bits(pd, Len(po), r) = Got(m, at) /\ m + 1 = n
      BY SMT, <1>3, <2>1
    <2>3. /\ ~(td.value.effective_bits < 0) /\ td.value.effective_bits \notin 0 .. 7
          /\ td.value.effective_bits # 8 /\ td.value.effective_bits \notin 9 .. 16
      BY SMT DEF Within
    <2>4. \A pos : INTEGER_decode_aper(td, pd, pos)
              = LET first == asn_get_few_bits(pd, pos, BitsOf(RangeOctets(td.value.effective_bits)))
                    second == asn_get_many_bits(pd, aper_get_align(first.pos), first.value + 1, 8)
                    third == Got(Shifted(0, 256, second.value), second.pos)
                IN  IF first.ok
                    THEN IF second.ok
                         THEN IF third.ok THEN Got(third.value + td.value.lower_bound, third.pos)
                              ELSE Failed
                         ELSE Failed
                    ELSE Failed
      BY Zenon, <2>3 DEF INTEGER_decode_aper, Get
    <2>5. PICK first : first = asn_get_few_bits(pd, Len(po), r)
      BY SMT
    <2>6. first.ok /\ first.value + 1 = n /\ first.pos = at
      BY SMT, <1>3, <2>2, <2>5, GotIs
    <2>7. PICK second : second = asn_get_many_bits(pd, aper_get_align(at), n, 8)
      BY SMT
    <2>8. second.ok /\ second.value = octets /\ second.pos = end
      BY SMT, <1>3, <2>7, GotIs
    <2>9. PICK third : third = Got(v, end)
      BY SMT
    <2>10. third.ok /\ third.value + lower = value /\ third.pos = end
      BY SMT, <1>1, <2>9, GotIs
    <2>11. td.value.effective_bits = bits /\ td.value.lower_bound = lower
      BY Zenon DEF Within
    <2>12. asn_get_few_bits(pd, Len(po), BitsOf(RangeOctets(td.value.effective_bits))) = first
      BY Zenon, <2>5, <2>11
    <2>13. asn_get_many_bits(pd, aper_get_align(first.pos), first.value + 1, 8) = second
      BY Zenon, <2>6, <2>7
    <2>14. Got(Shifted(0, 256, second.value), second.pos) = third
      BY Zenon, <1>3, <2>8, <2>9
    <2>15. INTEGER_decode_aper(td, pd, Len(po)) = Got(third.value + td.value.lower_bound, third.pos)
      BY Zenon, <2>4, <2>6, <2>8, <2>10, <2>12, <2>13, <2>14
    <2> QED
      BY Zenon, <2>10, <2>11, <2>15
  <1> QED
    BY SMT, <1>2, <1>3 DEF CodesWide

LEMMA WideIntegerArrives ==
  ASSUME NEW td, NEW bits \in 17 .. 32, NEW lower \in Int, NEW upper \in Int, NEW value \in Int,
         Within(td, bits, lower, upper, value), value - lower \in Wide, NEW po \in Seq(Bit)
  PROVE  /\ SentBehind(INTEGER_encode_aper(td, value, po), po)
         /\ IntegerRead(td, INTEGER_encode_aper(td, value, po), Len(po), value)
  <1>1. PICK v : v = value - lower
    BY SMT
  <1>2. PICK n : n = Magnitude(v)
    BY SMT
  <1>3. PICK r : r = BitsOf(RangeOctets(bits))
    BY SMT
  <1>4. PICK octets : octets = OctetsIn(v, n)
    BY SMT
  <1>5. n \in 1 .. 4 /\ octets \in Seq(Octet) /\ Len(octets) = n /\ Shifted(0, 256, octets) = v
    BY Zenon, <1>1, <1>2, <1>4, OctetsOfWide
  <1>6. r \in 0 .. 16 /\ Room(n - 1, r)
    BY Zenon, <1>3, <1>5, CountBits
  <1>7. PICK led : led = asn_put_few_bits(po, n - 1, r)
    BY SMT
  <1>8. SentBehind(led, po) /\ NumberRead(led, Len(po), r, n - 1)
    BY Zenon, <1>6, <1>7, PlainIs
  <1>9. PICK out : out = asn_put_many_bits(aper_put_align(led), octets, 8)
    BY SMT
  <1>10. SentBehind(out, led) /\ UnitsRead(out, aper_get_align(Len(led)), octets, 8)
    <2>1. led \in Seq(Bit)
      BY Zenon, <1>8 DEF SentBehind
    <2>2. octets \in Units(8) /\ 8 \in {1, 8}
      BY SMT, <1>5, UnitsOfOctets
    <2> QED
      BY Zenon, <1>9, <2>1, <2>2, ContentAligned
  <1>11. SentBehind(out, po) /\ \A pd \in Seq(Octet) : Carries(pd, out) => Carries(pd, led)
    BY Zenon, <1>8, <1>10, SentFurther
  <1>12. CodesWide(td, value, po, v, n, r)
    BY Zenon, <1>1, <1>2, <1>3, <1>5, WideIntegerIs
  <1>13. out = INTEGER_encode_aper(td, value, po)
    BY Zenon, <1>4, <1>7, <1>9, <1>12 DEF CodesWide
  <1>14. ASSUME NEW pd \in Seq(Octet), Carries(pd, out)
         PROVE  INTEGER_decode_aper(td, pd, Len(po)) = Got(value, Len(out))
    <2>1. asn_get_few_bits(pd, Len(po), r) = Got(n - 1, Len(led))
      BY Zenon, <1>8, <1>11, <1>14 DEF NumberRead
    <2>2. asn_get_many_bits(pd, aper_get_align(Len(led)), n, 8) = Got(octets, Len(out))
      BY Zenon, <1>5, <1>10, <1>14 DEF UnitsRead
    <2>3. n \in 1 .. 4 /\ Shifted(0, 256, octets) = v
      BY Zenon, <1>5
    <2> QED
      BY Zenon, <1>12, <2>1, <2>2, <2>3 DEF CodesWide
  <1> QED
    BY Zenon, <1>11, <1>13, <1>14 DEF IntegerRead

\* The integers that arrive: of four octets, if they have no constraint, and
\* those of a range that the bits of the type have room for.
Holds(bits, lower, upper, value) ==
    \/ bits < 0 /\ value \in Long
    \/ /\ lower <= value /\ value <= upper
       /\ \/ bits \in 0 .. 16 /\ Room(value - lower, bits)
          \/ bits \in 17 .. 32 /\ value - lower \in Wide

\* An integer arrives as it was sent, whatever is before it and behind it: with
\* its octets counted, in the bits of its range, in one octet or two, or in as
\* few octets as it needs (INTEGER_encode_aper, INTEGER_decode_aper).
THEOREM IntegerArrives ==
  ASSUME NEW bits \in Int, NEW lower \in Int, NEW upper \in Int, NEW value \in Int,
         NEW td, td.value = Fixed(bits, lower, upper),
         Holds(bits, lower, upper, value), NEW po \in Seq(Bit)
  PROVE  /\ SentBehind(INTEGER_encode_aper(td, value, po), po)
         /\ IntegerRead(td, INTEGER_encode_aper(td, value, po), Len(po), value)
  <1>1. /\ td.value.effective_bits = bits
        /\ td.value.lower_bound = lower /\ td.value.upper_bound = upper
    BY SMT DEF Fixed, Bounds
  <1>2. CASE bits < 0 /\ value \in Long
    BY Zenon, <1>1, <1>2, UnboundedIntegerArrives
  <1>3. CASE lower <= value /\ value <= upper /\ bits \in 0 .. 16 /\ Room(value - lower, bits)
    <2>1. Within(td, bits, lower, upper, value)
      BY Zenon, <1>1, <1>3 DEF Within
    <2> QED
      BY Zenon, <1>3, <2>1, SmallIntegerArrives
  <1>4. CASE lower <= value /\ value <= upper /\ bits \in 17 .. 32 /\ value - lower \in Wide
    <2>1. Within(td, bits, lower, upper, value)
      BY Zenon, <1>1, <1>4 DEF Within
    <2> QED
      BY Zenon, <1>4, <2>1, WideIntegerArrives
  <1> QED
    BY Zenon, <1>2, <1>3, <1>4 DEF Holds

-----------------------------------------------------------------------------
(* Octets of an output.                                                    *)

LEMMA ElementOf ==
  ASSUME NEW S, NEW s \in Seq(S), NEW k \in 1 .. Len(s)
  PROVE  s[k] \in S
  BY SMT

\* The number of eight bits has these bits.
Weighed(b) ==
    128 * b[1] + 64 * b[2] + 32 * b[3] + 16 * b[4] + 8 * b[5] + 4 * b[6] + 2 * b[7] + b[8]

HasBits(v, b1, b2, b3, b4, b5, b6, b7, b8) ==
    /\ v \in Nat /\ v < 256
    /\ (v \div 128) % 2 = b1 /\ (v \div 64) % 2 = b2
    /\ (v \div 32) % 2 = b3 /\ (v \div 16) % 2 = b4
    /\ (v \div 8) % 2 = b5 /\ (v \div 4) % 2 = b6
    /\ (v \div 2) % 2 = b7 /\ (v \div 1) % 2 = b8

LEMMA BitsOfWeighed ==
  ASSUME NEW b \in Seq(Bit), Len(b) = 8
  PROVE  Weighed(b) \in Nat /\ Weighed(b) < 256 /\ BitsIn(Weighed(b), 8) = b
  <1>1. PICK v : v = Weighed(b)
    BY SMT
  <1>2. \A i \in 1 .. 8 : b[i] \in Bit
    BY SMT, ElementOf
  <1>3. b[1] \in Bit /\ b[2] \in Bit /\ b[3] \in Bit /\ b[4] \in Bit
        /\ b[5] \in Bit /\ b[6] \in Bit /\ b[7] \in Bit /\ b[8] \in Bit
    BY SMT, <1>2
  <1>4. /\ v \in Nat /\ v < 256
        /\ (v \div 128) % 2 = b[1] /\ (v \div 64) % 2 = b[2]
        /\ (v \div 32) % 2 = b[3] /\ (v \div 16) % 2 = b[4]
        /\ (v \div 8) % 2 = b[5] /\ (v \div 4) % 2 = b[6]
        /\ (v \div 2) % 2 = b[7] /\ (v \div 1) % 2 = b[8]
    <2>1. PICK b1 \in Bit, b2 \in Bit, b3 \in Bit, b4 \in Bit,
               b5 \in Bit, b6 \in Bit, b7 \in Bit, b8 \in Bit :
            /\ b1 = b[1] /\ b2 = b[2] /\ b3 = b[3] /\ b4 = b[4]
            /\ b5 = b[5] /\ b6 = b[6] /\ b7 = b[7] /\ b8 = b[8]
      BY SMT, <1>3
    <2>2. HasBits(128 * b1 + 64 * b2 + 32 * b3 + 16 * b4 + 8 * b5 + 4 * b6 + 2 * b7 + b8,
                  b1, b2, b3, b4, b5, b6, b7, b8)
      BY SMT DEF Bit, HasBits
    <2>3. v = 128 * b1 + 64 * b2 + 32 * b3 + 16 * b4 + 8 * b5 + 4 * b6 + 2 * b7 + b8
      BY SMT, <1>1, <2>1 DEF Weighed
    <2>4. HasBits(v, b[1], b[2], b[3], b[4], b[5], b[6], b[7], b[8])
      BY SMT, <2>1, <2>2, <2>3
    <2> QED
      BY Zenon, <2>4 DEF HasBits
  <1>5. ASSUME NEW i \in 1 .. 8 PROVE (v \div 2^(8 - i)) % 2 = b[i]
    <2>1. CASE i = 1 BY SMT, <1>4, <2>1
    <2>2. CASE i = 2 BY SMT, <1>4, <2>2
    <2>3. CASE i = 3 BY SMT, <1>4, <2>3
    <2>4. CASE i = 4 BY SMT, <1>4, <2>4
    <2>5. CASE i = 5 BY SMT, <1>4, <2>5
    <2>6. CASE i = 6 BY SMT, <1>4, <2>6
    <2>7. CASE i = 7 BY SMT, <1>4, <2>7
    <2>8. CASE i = 8 BY SMT, <1>4, <2>8
    <2> QED
      BY SMT, <2>1, <2>2, <2>3, <2>4, <2>5, <2>6, <2>7, <2>8
  <1>6. b = [i \in 1 .. 8 |-> b[i]]
    BY SMT
  <1>7. BitsIn(v, 8) = b
    BY SMT, <1>5, <1>6 DEF BitsIn
  <1> QED
    BY SMT, <1>1, <1>4, <1>7

LEMMA OctetOfBits ==
  ASSUME NEW b \in Seq(Bit), Len(b) = 8
  PROVE  /\ Number(b) \in Octet
         /\ \A j \in 0 .. 7 : (Number(b) \div 2^(7 - j)) % 2 = b[j + 1]
  <1>1. PICK v : v = Weighed(b)
    BY SMT
  <1>2. v \in Nat /\ v < 256 /\ BitsIn(v, 8) = b
    BY SMT, <1>1, BitsOfWeighed
  <1>3. v < 2^8 /\ 8 \in 0 .. 16
    BY SMT, <1>2
  <1>4. Number(b) = v
    BY SMT, <1>2, <1>3, NumberOfBits
  <1>5. ASSUME NEW j \in 0 .. 7 PROVE (v \div 2^(7 - j)) % 2 = b[j + 1]
    <2>1. j + 1 \in 1 .. 8 /\ 8 - (j + 1) = 7 - j
      BY SMT
    <2>2. BitsIn(v, 8)[j + 1] = (v \div 2^(8 - (j + 1))) % 2
      BY SMT, <2>1 DEF BitsIn
    <2> QED
      BY SMT, <1>2, <2>1, <2>2
  <1>6. v \in Octet
    BY SMT, <1>2 DEF Octet
  <1> QED
    BY SMT, <1>4, <1>5, <1>6

LEMMA SequenceOf ==
  ASSUME NEW S, NEW n \in Nat, NEW s \in [1 .. n -> S]
  PROVE  s \in Seq(S) /\ Len(s) = n
  BY SMT

LEMMA OctetWithin ==
  ASSUME NEW bits \in Seq(Bit), NEW k \in Nat, k >= 1, 8 * k <= Len(bits)
  PROVE  /\ SubSeq(bits, 8 * k - 7, 8 * k) \in Seq(Bit)
         /\ Len(SubSeq(bits, 8 * k - 7, 8 * k)) = 8
         /\ \A j \in 0 .. 7 : SubSeq(bits, 8 * k - 7, 8 * k)[j + 1] = bits[8 * k - 7 + j]
  <1>1. PICK low : low = 8 * k - 7
    BY SMT
  <1>2. PICK high : high = 8 * k
    BY SMT
  <1>3. low \in 1 .. Len(bits) /\ high \in 1 .. Len(bits) /\ high - low + 1 = 8 /\ low <= high
    BY SMT, <1>1, <1>2, BitsAreNumbers
  <1>4. SubSeq(bits, low, high) = [i \in 1 .. 8 |-> bits[low + i - 1]]
    BY SMT, <1>3
  <1>5. ASSUME NEW i \in 1 .. 8 PROVE bits[low + i - 1] \in Bit
    <2>1. low + i - 1 \in 1 .. Len(bits)
      BY SMT, <1>3
    <2> QED
      BY SMT, <2>1, ElementOf
  <1>6. PICK s : s = SubSeq(bits, low, high)
    BY Zenon
  <1>7. s \in [1 .. 8 -> Bit] /\ 8 \in Nat
    BY Zenon, <1>4, <1>5, <1>6
  <1>8. s \in Seq(Bit) /\ Len(s) = 8
    BY Zenon, <1>7, SequenceOf
  <1>9. \A j \in 0 .. 7 : s[j + 1] = bits[low + j]
    BY SMT, <1>4, <1>6
  <1>10. s = SubSeq(bits, 8 * k - 7, 8 * k)
    BY Zenon, <1>1, <1>2, <1>6
  <1>11. \A j \in 0 .. 7 : s[j + 1] = bits[8 * k - 7 + j]
    BY Zenon, <1>1, <1>9
  <1> QED
    BY Zenon, <1>8, <1>10, <1>11

\* The octets of bits that end on an octet boundary.
OctetsOfBits(bits) ==
    [k \in 1 .. Len(bits) \div 8 |-> Number(SubSeq(bits, 8 * k - 7, 8 * k))]

LEMMA OctetsOfBitsAre ==
  ASSUME NEW bits \in Seq(Bit), NEW out, out = OctetsOfBits(bits)
  PROVE  /\ out \in Seq(Octet) /\ Len(out) = Len(bits) \div 8
         /\ \A k \in 1 .. Len(out) : \A j \in 0 .. 7 :
                (out[k] \div 2^(7 - j)) % 2 = bits[8 * k - 7 + j]
  <1>1. PICK n : n = Len(bits) \div 8
    BY SMT
  <1>2. n \in Nat /\ \A k \in 1 .. n : k \in Nat /\ k >= 1 /\ 8 * k <= Len(bits)
    BY SMT, <1>1, BitsAreNumbers
  <1>3. ASSUME NEW k \in 1 .. n
        PROVE  /\ Number(SubSeq(bits, 8 * k - 7, 8 * k)) \in Octet
               /\ \A j \in 0 .. 7 :
                      (Number(SubSeq(bits, 8 * k - 7, 8 * k)) \div 2^(7 - j)) % 2
                          = bits[8 * k - 7 + j]
    <2>1. PICK b : b = SubSeq(bits, 8 * k - 7, 8 * k)
      BY Zenon
    <2>2. b \in Seq(Bit) /\ Len(b) = 8 /\ \A j \in 0 .. 7 : b[j + 1] = bits[8 * k - 7 + j]
      BY Zenon, <1>2, <2>1, OctetWithin
    <2>3. Number(b) \in Octet /\ \A j \in 0 .. 7 : (Number(b) \div 2^(7 - j)) % 2 = b[j + 1]
      BY SMT, <2>2, OctetOfBits
    <2> QED
      BY SMT, <2>1, <2>2, <2>3
  <1>4. out = [k \in 1 .. n |-> Number(SubSeq(bits, 8 * k - 7, 8 * k))]
    BY SMT, <1>1 DEF OctetsOfBits
  <1>5. out \in [1 .. n -> Octet]
    BY SMT, <1>3, <1>4
  <1>6. out \in Seq(Octet) /\ Len(out) = n
    BY SMT, <1>2, <1>5
  <1>7. \A k \in 1 .. n : \A j \in 0 .. 7 : (out[k] \div 2^(7 - j)) % 2 = bits[8 * k - 7 + j]
    BY Zenon, <1>3, <1>4
  <1> QED
    BY Zenon, <1>1, <1>6, <1>7

LEMMA OctetsCarry ==
  ASSUME NEW bits \in Seq(Bit), Len(bits) % 8 = 0,
         NEW pd \in Seq(Octet), Continues(pd, OctetsOfBits(bits))
  PROVE  Carries(pd, bits)
  <1>1. PICK out : out = OctetsOfBits(bits)
    BY SMT
  <1>2. /\ out \in Seq(Octet) /\ Len(out) = Len(bits) \div 8
        /\ \A k \in 1 .. Len(out) : \A j \in 0 .. 7 :
               (out[k] \div 2^(7 - j)) % 2 = bits[8 * k - 7 + j]
    BY Zenon, <1>1, OctetsOfBitsAre
  <1>3. Len(bits) \in Nat /\ Len(pd) \in Nat /\ Len(out) <= Len(pd)
        /\ \A k \in 1 .. Len(out) : pd[k] = out[k]
    BY Zenon, <1>1, BitsAreNumbers DEF Continues
  <1>4. Len(bits) = 8 * Len(out)
    BY SMT, <1>2, <1>3
  <1>5. ASSUME NEW i \in 1 .. Len(bits) PROVE BitAt(pd, i - 1) = bits[i]
    <2>1. PICK k : k = (i - 1) \div 8 + 1
      BY SMT
    <2>2. PICK j : j = (i - 1) % 8
      BY SMT
    <2>3. k \in 1 .. Len(out) /\ j \in 0 .. 7 /\ 8 * k - 7 + j = i
      BY SMT, <1>3, <1>4, <2>1, <2>2
    <2>4. BitAt(pd, i - 1) = (pd[k] \div 2^(7 - j)) % 2
      BY SMT, <2>1, <2>2 DEF BitAt
    <2>5. (out[k] \div 2^(7 - j)) % 2 = bits[8 * k - 7 + j]
      BY Zenon, <1>2, <2>3
    <2>6. pd[k] = out[k]
      BY Zenon, <1>3, <2>3
    <2> QED
      BY SMT, <2>3, <2>4, <2>5, <2>6
  <1>6. Len(bits) <= 8 * Len(pd)
    BY SMT, <1>3, <1>4
  <1> QED
    BY SMT, <1>5, <1>6 DEF Carries

\* The octets of an output carry its bits to whoever reads them, whatever
\* octets follow: what the other theorems ask of an input is what the
\* encoder's asn_put_aligned_flush gives.
THEOREM FlushCarries ==
  ASSUME NEW po \in Seq(Bit)
  PROVE  /\ asn_put_aligned_flush(po) \in Seq(Octet)
         /\ \A pd \in Seq(Octet) : Continues(pd, asn_put_aligned_flush(po)) => Carries(pd, po)
  <1>1. PICK padded : padded = aper_put_align(po)
    BY SMT
  <1>2. padded \in Seq(Bit) /\ Continues(padded, po) /\ Len(padded) % 8 = 0
    BY SMT, <1>1, AlignAre
  <1>3. asn_put_aligned_flush(po) = OctetsOfBits(padded)
    BY Zenon, <1>1 DEF asn_put_aligned_flush, OctetsOfBits
  <1>4. OctetsOfBits(padded) \in Seq(Octet)
    BY SMT, <1>2, OctetsOfBitsAre
  <1>5. ASSUME NEW pd \in Seq(Octet), Continues(pd, OctetsOfBits(padded))
        PROVE  Carries(pd, po)
    <2>1. Carries(pd, padded)
      BY Zenon, <1>2, <1>5, OctetsCarry
    <2> QED
      BY Zenon, <1>2, <2>1, CarriesFirst
  <1> QED
    BY Zenon, <1>3, <1>4, <1>5

-----------------------------------------------------------------------------
(* Octets that end early.                                                  *)

\* An input that begins as an output does, and ends before it.
CutShort(pd, out) ==
    8 * Len(pd) < Len(out) /\ \A i \in 1 .. 8 * Len(pd) : BitAt(pd, i - 1) = out[i]

LEMMA CutOrCarried ==
  ASSUME NEW led \in Seq(Bit), NEW out \in Seq(Bit), Continues(out, led),
         NEW pd \in Seq(Octet), CutShort(pd, out)
  PROVE  CutShort(pd, led) \/ Carries(pd, led)
  <1>1. PICK m : m = 8 * Len(pd)
    BY Zenon
  <1>2. m \in Nat /\ Len(led) \in Nat /\ Len(out) \in Nat
    BY SMT, <1>1, BitsAreNumbers
  <1>3. m < Len(out) /\ \A i \in 1 .. m : BitAt(pd, i - 1) = out[i]
    BY SMT, <1>1 DEF CutShort
  <1>4. Len(led) <= Len(out) /\ \A i \in 1 .. Len(led) : out[i] = led[i]
    BY SMT DEF Continues
  <1>5. CASE m < Len(led)
    <2>1. \A i \in 1 .. m : BitAt(pd, i - 1) = led[i]
      BY SMT, <1>2, <1>3, <1>4, <1>5
    <2> QED
      BY SMT, <1>1, <1>5, <2>1 DEF CutShort
  <1>6. CASE Len(led) <= m
    <2>1. \A i \in 1 .. Len(led) : BitAt(pd, i - 1) = led[i]
      BY SMT, <1>2, <1>3, <1>4, <1>6
    <2> QED
      BY SMT, <1>1, <1>6, <2>1 DEF Carries
  <1> QED
    BY SMT, <1>2, <1>5, <1>6

NumberRefused(out, at, n) ==
    \A pd \in Seq(Octet) : CutShort(pd, out) => asn_get_few_bits(pd, at, n) = Failed
UnitsRefused(out, at, length, u) ==
    \A pd \in Seq(Octet) : CutShort(pd, out) => asn_get_many_bits(pd, at, length, u) = Failed
LengthRefused(out, at) ==
    \A pd \in Seq(Octet) : CutShort(pd, out) => aper_get_length(pd, at) = Failed

LEMMA PlainCut ==
  ASSUME NEW po \in Seq(Bit), NEW n \in 0 .. 16, NEW value \in Nat
  PROVE  /\ NumberRefused(asn_put_few_bits(po, value, n), Len(po), n)
         /\ NumberRefused(asn_put_few_bits(aper_put_align(po), value, n),
                          aper_get_align(Len(po)), n)
  <1>1. ASSUME NEW a \in Seq(Bit)
        PROVE  NumberRefused(asn_put_few_bits(a, value, n), Len(a), n)
    <2>1. PICK out : out = asn_put_few_bits(a, value, n)
      BY Zenon
    <2>2. Len(out) = Len(a) + n
      BY Zenon, <1>1, <2>1, FewBitsSent
    <2>3. ASSUME NEW pd \in Seq(Octet), CutShort(pd, out)
          PROVE  asn_get_few_bits(pd, Len(a), n) = Failed
      <3>1. Len(a) + n > 8 * Len(pd)
        BY SMT, <1>1, <2>2, <2>3, BitsAreNumbers DEF CutShort
      <3> QED
        BY Zenon, <3>1 DEF asn_get_few_bits
    <2> QED
      BY Zenon, <2>1, <2>3 DEF NumberRefused
  <1>2. PICK a : a = aper_put_align(po)
    BY Zenon
  <1>3. a \in Seq(Bit) /\ Len(a) = aper_get_align(Len(po))
    BY SMT, <1>2, AlignSent
  <1>4. NumberRefused(asn_put_few_bits(a, value, n), Len(a), n)
    BY Zenon, <1>1, <1>3
  <1> QED
    BY Zenon, <1>1, <1>2, <1>3, <1>4

LEMMA ContentCut ==
  ASSUME NEW po \in Seq(Bit), NEW u \in {1, 8}, NEW units \in Units(u)
  PROVE  /\ UnitsRefused(asn_put_many_bits(po, units, u), Len(po), Len(units), u)
         /\ UnitsRefused(asn_put_many_bits(aper_put_align(po), units, u),
                         aper_get_align(Len(po)), Len(units), u)
  <1>1. ASSUME NEW a \in Seq(Bit)
        PROVE  UnitsRefused(asn_put_many_bits(a, units, u), Len(a), Len(units), u)
    <2>1. PICK out : out = asn_put_many_bits(a, units, u)
      BY Zenon
    <2>2. PICK n : n = Len(a) + Len(units) * u
      BY Zenon
    <2>3. Len(out) = n
      BY SMT, <1>1, <2>1, <2>2, ManyBitsSent
    <2>4. ASSUME NEW pd \in Seq(Octet), CutShort(pd, out)
          PROVE  asn_get_many_bits(pd, Len(a), Len(units), u) = Failed
      <3>1. n > 8 * Len(pd)
        BY SMT, <2>3, <2>4 DEF CutShort
      <3> QED
        BY Zenon, <2>2, <3>1 DEF asn_get_many_bits
    <2> QED
      BY Zenon, <2>1, <2>4 DEF UnitsRefused
  <1>2. PICK a : a = aper_put_align(po)
    BY Zenon
  <1>3. a \in Seq(Bit) /\ Len(a) = aper_get_align(Len(po))
    BY SMT, <1>2, AlignSent
  <1>4. UnitsRefused(asn_put_many_bits(a, units, u), Len(a), Len(units), u)
    BY Zenon, <1>1, <1>3
  <1> QED
    BY Zenon, <1>1, <1>2, <1>3, <1>4

\* A length that ends early, in the first octet or in the second.
LEMMA LengthCutShortly ==
  ASSUME NEW pd, NEW pos, asn_get_few_bits(pd, pos, 8) = Failed
  PROVE  uper_get_length(pd, pos) = Failed
  <1>1. ~Failed.ok
    BY Zenon DEF Failed
  <1> QED
    BY Zenon, <1>1 DEF uper_get_length, Get

LEMMA LengthCutInside ==
  ASSUME NEW pd, NEW pos, NEW high \in 128 .. 191, NEW at,
         asn_get_few_bits(pd, pos, 8) = Got(high, at), asn_get_few_bits(pd, at, 8) = Failed
  PROVE  uper_get_length(pd, pos) = Failed
  <1>1. ~Failed.ok
    BY Zenon DEF Failed
  <1>2. ~(high < 128)
    BY SMT
  <1> QED
    BY SMT, <1>1, <1>2, GotIs DEF uper_get_length, Get

LEMMA NothingBehind ==
  ASSUME NEW pd, NEW pos, NEW n, pos + n > 8 * Len(pd)
  PROVE  asn_get_few_bits(pd, pos, n) = Failed
  BY Zenon DEF asn_get_few_bits

LEMMA HighOctet ==
  ASSUME NEW v \in LongForm
  PROVE  /\ v \in Nat /\ v \div 256 \in 128 .. 191
         /\ v \div 256 \in Nat /\ v \div 256 < 256
         /\ \A i \in 1 .. 8 : BitsIn(v, 16)[i] = BitsIn(v \div 256, 8)[i]
  <1>1. v \in Nat /\ v < 65536 /\ v \div 256 \in 128 .. 191
    BY SMT DEF LongForm
  <1>2. /\ v \div 256 \in Nat /\ v \div 256 < 256
        /\ \A i \in 1 .. 8 : BitsIn(v, 16)[i] = BitsIn(v \div 256, 8)[i]
    BY SMT, <1>1, SplitBits
  <1> QED
    BY SMT, <1>1, <1>2

LEMMA LongLengthCut ==
  ASSUME NEW a \in Seq(Bit), NEW v \in LongForm, NEW pd \in Seq(Octet),
         CutShort(pd, asn_put_few_bits(a, v, 16))
  PROVE  uper_get_length(pd, Len(a)) = Failed
  <1>1. PICK out : out = asn_put_few_bits(a, v, 16)
    BY Zenon
  <1>2. PICK bits : bits = BitsIn(v, 16)
    BY Zenon
  <1>3. v \in Nat
    BY SMT, HighOctet
  <1>4. out = a \o bits /\ Len(out) = Len(a) + 16 /\ bits \in Seq(Bit) /\ Len(bits) = 16
    BY Zenon, <1>1, <1>2, <1>3, TwoOctetsOut
  <1>5. PICK pos : pos = Len(a)
    BY Zenon
  <1>6. pos \in Nat /\ Len(pd) \in Nat
    BY SMT, <1>5, BitsAreNumbers
  <1>7. 8 * Len(pd) < pos + 16 /\ \A i \in 1 .. 8 * Len(pd) : BitAt(pd, i - 1) = out[i]
    BY SMT, <1>1, <1>4, <1>5 DEF CutShort
  <1>8. CASE pos + 8 > 8 * Len(pd)
    <2>1. asn_get_few_bits(pd, pos, 8) = Failed
      BY Zenon, <1>8, NothingBehind
    <2> QED
      BY Zenon, <1>5, <2>1, LengthCutShortly
  <1>9. CASE pos + 8 <= 8 * Len(pd)
    <2>1. PICK high : high = v \div 256
      BY Zenon
    <2>2. high \in 128 .. 191 /\ high \in Nat /\ high < 256
      BY Zenon, <2>1, HighOctet
    <2>3. \A i \in 1 .. 8 : bits[i] = BitsIn(high, 8)[i]
      BY Zenon, <1>2, <2>1, HighOctet
    <2>4. ASSUME NEW i \in 1 .. 8 PROVE BitAt(pd, pos + i - 1) = BitsIn(high, 8)[i]
      <3>1. pos + i \in 1 .. 8 * Len(pd) /\ (pos + i) - 1 = pos + i - 1
        BY SMT, <1>6, <1>9
      <3>2. BitAt(pd, pos + i - 1) = out[pos + i]
        BY SMT, <1>7, <3>1
      <3>3. i \in 1 .. Len(bits)
        BY SMT, <1>4
      <3>4. out[pos + i] = bits[i]
        <4>1. (a \o bits)[Len(a) + i] = bits[i]
          <5>1. bits \in Seq(Bit)
            BY Zenon, <1>4
          <5> QED
            BY SMT, <3>3, <5>1, Written
        <4> QED
          BY Zenon, <1>4, <1>5, <4>1
      <3> QED
        BY SMT, <2>3, <3>2, <3>4
    <2>5. asn_get_few_bits(pd, pos, 8) = Got(high, pos + 8)
      BY SMT, <1>6, <1>9, <2>2, <2>4, OctetRead
    <2>6. asn_get_few_bits(pd, pos + 8, 8) = Failed
      <3>1. PICK next : next = pos + 8
        BY SMT
      <3>2. next + 8 > 8 * Len(pd)
        BY SMT, <1>6, <1>7, <3>1
      <3> QED
        BY Zenon, <3>1, <3>2, NothingBehind
    <2> QED
      BY Zenon, <1>5, <2>2, <2>5, <2>6, LengthCutInside
  <1> QED
    BY SMT, <1>6, <1>8, <1>9

\* The lengths that do not come in fragments.
Lengths == {n \in Nat : n < 16384}

LEMMA LengthCut ==
  ASSUME NEW po \in Seq(Bit), NEW length \in Lengths
  PROVE  LengthRefused(aper_put_length(po, length), Len(po))
  <1>1. PICK a : a = aper_put_align(po)
    BY Zenon
  <1>2. a \in Seq(Bit) /\ Len(a) = aper_get_align(Len(po))
    BY SMT, <1>1, AlignSent
  <1>3. PICK out : out = aper_put_length(po, length)
    BY Zenon
  <1>4. \A pd : aper_get_length(pd, Len(po)) = uper_get_length(pd, Len(a))
    BY SMT, <1>2 DEF aper_get_length
  <1>5. ASSUME NEW pd \in Seq(Octet), CutShort(pd, out)
        PROVE  uper_get_length(pd, Len(a)) = Failed
    <2>1. CASE length <= 127
      <3>1. out = asn_put_few_bits(a, length, 8)
        BY SMT, <1>1, <1>3, <2>1 DEF aper_put_length
      <3>2. 8 \in 0 .. 16 /\ length \in Nat
        BY SMT DEF Lengths
      <3>3. NumberRefused(asn_put_few_bits(a, length, 8), Len(a), 8)
        BY Zenon, <1>2, <3>2, PlainCut
      <3>4. asn_get_few_bits(pd, Len(a), 8) = Failed
        BY Zenon, <1>5, <3>1, <3>3 DEF NumberRefused
      <3> QED
        BY Zenon, <3>4, LengthCutShortly
    <2>2. CASE length > 127
      <3>1. out = asn_put_few_bits(a, 32768 + length, 16) /\ 32768 + length \in LongForm
        BY SMT, <1>1, <1>3, <2>2 DEF aper_put_length, Lengths, LongForm
      <3>2. PICK v \in LongForm : out = asn_put_few_bits(a, v, 16)
        BY SMT, <3>1
      <3> QED
        BY Zenon, <1>2, <1>5, <3>2, LongLengthCut
    <2> QED
      BY SMT, <2>1, <2>2 DEF Lengths
  <1> QED
    BY Zenon, <1>3, <1>4, <1>5 DEF LengthRefused

NumberInRangeRefused(out, at, range) ==
    \A pd \in Seq(Octet) : CutShort(pd, out) => aper_get_nsnnwn(pd, at, range) = Failed

LEMMA NumberInRangeCut ==
  ASSUME NEW po \in Seq(Bit), NEW range \in Ranges, NEW number \in Nat, number < range
  PROVE  NumberInRangeRefused(aper_put_nsnnwn(po, range, number), Len(po), range)
  <1>1. PICK out : out = aper_put_nsnnwn(po, range, number)
    BY SMT
  <1>2. CASE range <= 255
    <2>1. PICK n : n = BitsOf(range)
      BY SMT
    <2>2. n \in 0 .. 16
      BY SMT, <1>2, <2>1, RangeBits
    <2>3. out = asn_put_few_bits(po, number, n)
      BY SMT, <1>1, <1>2, <2>1 DEF aper_put_nsnnwn
    <2>4. \A pd : aper_get_nsnnwn(pd, Len(po), range) = asn_get_few_bits(pd, Len(po), n)
      BY SMT, <1>2, <2>1 DEF aper_get_nsnnwn
    <2>5. NumberRefused(out, Len(po), n)
      BY SMT, <2>2, <2>3, PlainCut
    <2> QED
      BY SMT, <1>1, <2>4, <2>5 DEF NumberRefused, NumberInRangeRefused
  <1>3. ASSUME ~(range <= 255)
        PROVE  \E n \in 0 .. 16 :
                  /\ out = asn_put_few_bits(aper_put_align(po), number, n)
                  /\ \A pd : aper_get_nsnnwn(pd, Len(po), range)
                                 = asn_get_few_bits(pd, aper_get_align(Len(po)), n)
    <2>1. CASE range = 256
      <3>1. out = asn_put_few_bits(aper_put_align(po), number, 8)
        BY SMT, <1>1, <1>3, <2>1 DEF aper_put_nsnnwn
      <3>2. \A pd : aper_get_nsnnwn(pd, Len(po), range)
                        = asn_get_few_bits(pd, aper_get_align(Len(po)), 8)
        BY SMT, <1>3, <2>1 DEF aper_get_nsnnwn
      <3> QED
        BY SMT, <3>1, <3>2
    <2>2. CASE range # 256
      <3>1. out = asn_put_few_bits(aper_put_align(po), number, 16)
        BY SMT, <1>1, <1>3, <2>2 DEF aper_put_nsnnwn
      <3>2. \A pd : aper_get_nsnnwn(pd, Len(po), range)
                        = asn_get_few_bits(pd, aper_get_align(Len(po)), 16)
        BY SMT, <1>3, <2>2 DEF aper_get_nsnnwn
      <3> QED
        BY SMT, <3>1, <3>2
    <2> QED
      BY SMT, <2>1, <2>2
  <1>4. CASE ~(range <= 255)
    <2>1. PICK n \in 0 .. 16 :
             /\ out = asn_put_few_bits(aper_put_align(po), number, n)
             /\ \A pd : aper_get_nsnnwn(pd, Len(po), range)
                            = asn_get_few_bits(pd, aper_get_align(Len(po)), n)
      BY SMT, <1>3, <1>4
    <2>2. NumberRefused(out, aper_get_align(Len(po)), n)
      BY SMT, <2>1, PlainCut
    <2> QED
      BY SMT, <1>1, <2>1, <2>2 DEF NumberRefused, NumberInRangeRefused
  <1> QED
    BY SMT, <1>2, <1>4

\* The decoder of strings fails where one of its steps does.
StringRefused(td, out, at) ==
    \A pd \in Seq(Octet) : CutShort(pd, out) => OCTET_STRING_decode_aper(td, pd, at) = Failed

LEMMA StringWithoutLength ==
  ASSUME NEW td, NEW bits \in Int, td.size.effective_bits = bits, NEW pd, NEW pos
  PROVE  /\ bits < 0 /\ aper_get_length(pd, pos) = Failed =>
                OCTET_STRING_decode_aper(td, pd, pos) = Failed
         /\ bits > 0
            /\ aper_get_nsnnwn(pd, pos, td.size.upper_bound - td.size.lower_bound + 1) = Failed =>
                OCTET_STRING_decode_aper(td, pd, pos) = Failed
  <1>1. ~Failed.ok
    BY Zenon DEF Failed
  <1>2. ASSUME bits < 0, aper_get_length(pd, pos) = Failed
        PROVE  OCTET_STRING_decode_aper(td, pd, pos) = Failed
    BY SMT, <1>1, <1>2 DEF OCTET_STRING_decode_aper, Get
  <1>3. ASSUME bits > 0,
               aper_get_nsnnwn(pd, pos, td.size.upper_bound - td.size.lower_bound + 1) = Failed
        PROVE  OCTET_STRING_decode_aper(td, pd, pos) = Failed
    BY SMT, <1>1, <1>3 DEF OCTET_STRING_decode_aper, Get
  <1> QED
    BY SMT, <1>2, <1>3

LEMMA UnboundedStringCut ==
  ASSUME NEW td, NEW bits \in Int, td.size.effective_bits = bits, bits < 0,
         NEW value \in Units(UnitBits(td)), Len(value) \in Lengths, NEW po \in Seq(Bit)
  PROVE  StringRefused(td, OCTET_STRING_encode_aper(td, value, po), Len(po))
  <1>1. PICK u : u = UnitBits(td)
    BY SMT
  <1>2. u \in {1, 8} /\ value \in Units(u)
    BY SMT, <1>1, UnitBitsAre
  <1>3. PICK n \in Lengths : n = Len(value)
    BY SMT
  <1>4. PICK led : led = aper_put_length(po, n)
    BY SMT
  <1>5. /\ SentBehind(led, po) /\ LengthRead(led, Len(po), n) /\ LengthRefused(led, Len(po))
        /\ Len(led) % 8 = 0
    <2>1. n \in Nat /\ n < 16384
      BY SMT DEF Lengths
    <2>2. SentBehind(led, po) /\ LengthRead(led, Len(po), n)
      BY SMT, <1>4, <2>1, LengthSent
    <2>3. Len(led) % 8 = 0
      BY SMT, <1>4, <2>1, LengthOnBoundary
    <2>4. LengthRefused(led, Len(po))
      BY SMT, <1>4, LengthCut
    <2> QED
      BY SMT, <2>2, <2>3, <2>4
  <1>6. led \in Seq(Bit) /\ aper_get_align(Len(led)) = Len(led)
    <2>1. led \in Seq(Bit) /\ Len(led) \in Nat
      BY SMT, <1>5, BitsAreNumbers DEF SentBehind
    <2> QED
      BY SMT, <1>5, <2>1, OnBoundary
  <1>7. PICK out : out = asn_put_many_bits(led, value, u)
    BY SMT
  <1>8. OCTET_STRING_encode_aper(td, value, po) = out
    <2>1. OCTET_STRING_encode_aper(td, value, po)
              = asn_put_many_bits(aper_put_length(po, Len(value)), value, UnitBits(td))
      BY Zenon, UnboundedString
    <2> QED
      BY Zenon, <1>1, <1>3, <1>4, <1>7, <2>1
  <1>9. SentBehind(out, led) /\ UnitsRefused(out, Len(led), n, u)
    BY Zenon, <1>2, <1>3, <1>6, <1>7, ContentHere, ContentCut
  <1>10. ASSUME NEW pd \in Seq(Octet), CutShort(pd, out)
         PROVE  OCTET_STRING_decode_aper(td, pd, Len(po)) = Failed
    <2>1. CutShort(pd, led) \/ Carries(pd, led)
      BY Zenon, <1>6, <1>9, <1>10, CutOrCarried DEF SentBehind
    <2>2. CASE CutShort(pd, led)
      <3>1. aper_get_length(pd, Len(po)) = Failed
        BY Zenon, <1>5, <2>2 DEF LengthRefused
      <3> QED
        BY Zenon, <3>1, StringWithoutLength
    <2>3. CASE Carries(pd, led)
      <3>1. aper_get_length(pd, Len(po)) = Got(n, Len(led))
        BY Zenon, <1>5, <2>3 DEF LengthRead
      <3>2. OCTET_STRING_decode_aper(td, pd, Len(po)) = asn_get_many_bits(pd, Len(led), n, UnitBits(td))
        BY Zenon, <1>6, <3>1, UnboundedString
      <3>3. asn_get_many_bits(pd, Len(led), n, u) = Failed
        BY Zenon, <1>9, <1>10 DEF UnitsRefused
      <3> QED
        BY Zenon, <1>1, <3>2, <3>3
    <2> QED
      BY Zenon, <2>1, <2>2, <2>3
  <1> QED
    BY Zenon, <1>8, <1>10 DEF StringRefused

LEMMA FixedStringCut ==
  ASSUME NEW td, td.size.effective_bits = 0, NEW value \in Units(UnitBits(td)),
         NEW n \in Int, Len(value) = n, td.size.lower_bound = n, td.size.upper_bound = n,
         NEW po \in Seq(Bit)
  PROVE  StringRefused(td, OCTET_STRING_encode_aper(td, value, po), Len(po))
  <1>1. PICK u : u = UnitBits(td)
    BY SMT
  <1>2. u \in {1, 8} /\ value \in Units(u)
    BY SMT, <1>1, UnitBitsAre
  <1>3. CASE OctetsOf(td, n) > 2
    <2>1. PICK out : out = asn_put_many_bits(aper_put_align(po), value, u)
      BY SMT
    <2>2. UnitsRefused(out, aper_get_align(Len(po)), Len(value), u)
      BY Zenon, <1>2, <2>1, ContentCut
    <2>3. OCTET_STRING_encode_aper(td, value, po) = out
      BY SMT, <1>1, <1>3, <2>1, FixedString
    <2>4. \A pd : OCTET_STRING_decode_aper(td, pd, Len(po))
                      = asn_get_many_bits(pd, aper_get_align(Len(po)), Len(value), u)
      BY SMT, <1>1, <1>3, FixedString
    <2> QED
      BY SMT, <2>2, <2>3, <2>4 DEF UnitsRefused, StringRefused
  <1>4. CASE ~(OctetsOf(td, n) > 2)
    <2>1. PICK out : out = asn_put_many_bits(po, value, u)
      BY SMT
    <2>2. UnitsRefused(out, Len(po), Len(value), u)
      BY Zenon, <1>2, <2>1, ContentCut
    <2>3. OCTET_STRING_encode_aper(td, value, po) = out
      BY SMT, <1>1, <1>4, <2>1, FixedString
    <2>4. \A pd : OCTET_STRING_decode_aper(td, pd, Len(po))
                      = asn_get_many_bits(pd, Len(po), Len(value), u)
      BY SMT, <1>1, <1>4, FixedString
    <2> QED
      BY SMT, <2>2, <2>3, <2>4 DEF UnitsRefused, StringRefused
  <1> QED
    BY SMT, <1>3, <1>4

LEMMA RangedStringCut ==
  ASSUME NEW td, NEW bits \in Int, td.size.effective_bits = bits, bits > 0,
         NEW value \in Units(UnitBits(td)), NEW n \in Int, Len(value) = n,
         NEW lower \in Int, NEW upper \in Int,
         td.size.lower_bound = lower, td.size.upper_bound = upper, lower <= n, n <= upper,
         upper - lower + 1 \in Ranges, (OctetsOf(td, n) > 2) = (n > 2), NEW po \in Seq(Bit)
  PROVE  StringRefused(td, OCTET_STRING_encode_aper(td, value, po), Len(po))
  <1>1. PICK u : u = UnitBits(td)
    BY SMT
  <1>2. u \in {1, 8} /\ value \in Units(u)
    BY SMT, <1>1, UnitBitsAre
  <1>3. PICK number : number = n - lower
    BY SMT
  <1>4. PICK range : range = upper - lower + 1
    BY SMT
  <1>5. number \in Nat /\ range \in Ranges /\ number < range
    BY <1>3, <1>4
  <1>6. PICK led : led = aper_put_nsnnwn(po, range, number)
    BY SMT
  <1>7. /\ led \in Seq(Bit)
        /\ \A pd \in Seq(Octet) : Carries(pd, led) =>
               aper_get_nsnnwn(pd, Len(po), range) = Got(number, Len(led))
        /\ NumberInRangeRefused(led, Len(po), range)
    BY SMT, <1>5, <1>6, NumberArrives, NumberInRangeCut
  <1>8. PICK out : OCTET_STRING_encode_aper(td, value, po) = out
    BY SMT
  <1>9. PICK at : at = IF n > 2 THEN aper_get_align(Len(led)) ELSE Len(led)
    BY Zenon
  <1>10. SentBehind(out, led) /\ UnitsRefused(out, at, n, u)
    <2>1. CASE n > 2
      <3>1. out = asn_put_many_bits(aper_put_align(led), value, u)
        BY SMT, <1>1, <1>3, <1>4, <1>6, <1>8, <2>1, RangedString
      <3>2. SentBehind(out, led)
        BY SMT, <1>2, <1>7, <3>1, ContentAligned
      <3>3. UnitsRefused(out, aper_get_align(Len(led)), Len(value), u)
        BY SMT, <1>2, <1>7, <3>1, ContentCut
      <3> QED
        BY SMT, <1>9, <2>1, <3>2, <3>3
    <2>2. CASE ~(n > 2)
      <3>1. out = asn_put_many_bits(led, value, u)
        BY SMT, <1>1, <1>3, <1>4, <1>6, <1>8, <2>2, RangedString
      <3>2. SentBehind(out, led)
        BY SMT, <1>2, <1>7, <3>1, ContentHere
      <3>3. UnitsRefused(out, Len(led), Len(value), u)
        BY SMT, <1>2, <1>7, <3>1, ContentCut
      <3> QED
        BY SMT, <1>9, <2>2, <3>2, <3>3
    <2> QED
      BY SMT, <2>1, <2>2
  <1>11. ASSUME NEW pd \in Seq(Octet), CutShort(pd, out)
         PROVE  OCTET_STRING_decode_aper(td, pd, Len(po)) = Failed
    <2>1. CutShort(pd, led) \/ Carries(pd, led)
      BY SMT, <1>7, <1>10, <1>11, CutOrCarried DEF SentBehind
    <2>2. CASE CutShort(pd, led)
      <3>1. aper_get_nsnnwn(pd, Len(po), upper - lower + 1) = Failed
        BY SMT, <1>4, <1>7, <2>2 DEF NumberInRangeRefused
      <3> QED
        BY Zenon, <3>1, StringWithoutLength
    <2>3. CASE Carries(pd, led)
      <3>1. aper_get_nsnnwn(pd, Len(po), range) = Got(number, Len(led))
        BY SMT, <1>7, <2>3
      <3>2. number + lower = n
        BY SMT, <1>3
      <3>3. OCTET_STRING_decode_aper(td, pd, Len(po)) = asn_get_many_bits(pd, at, n, u)
        BY <1>1, <1>4, <1>9, <3>1, <3>2, GotIs DEF OCTET_STRING_decode_aper, Get
      <3>4. asn_get_many_bits(pd, at, n, u) = Failed
        BY SMT, <1>10, <1>11 DEF UnitsRefused
      <3> QED
        BY SMT, <3>3, <3>4
    <2> QED
      BY SMT, <2>1, <2>2, <2>3
  <1> QED
    BY SMT, <1>8, <1>11 DEF StringRefused

\* A string of which the end is missing is refused, wherever it is cut: the
\* decoder never makes a string of fewer octets, or of octets it was not given
\* (OCTET_STRING_decode_aper).
THEOREM StringCutRefused ==
  ASSUME NEW flags, NEW bits \in Int, NEW lower \in Int, NEW upper \in Int, NEW checked,
         NEW td, td \in {OCTET_STRING(Bounds(flags, bits, lower, upper), checked),
                         BIT_STRING(Bounds(flags, bits, lower, upper), checked)},
         NEW value \in Units(UnitBits(td)),
         Fits(td, bits, lower, upper, Len(value)), NEW po \in Seq(Bit)
  PROVE  StringRefused(td, OCTET_STRING_encode_aper(td, value, po), Len(po))
  <1>1. /\ td.size.effective_bits = bits
        /\ td.size.lower_bound = lower /\ td.size.upper_bound = upper
    BY SMT, SizeIs
  <1>2. PICK n : n = Len(value)
    BY SMT
  <1>3. n \in Nat
    <2>1. UnitBits(td) \in {1, 8}
      BY SMT, UnitBitsAre
    <2> QED
      BY SMT, <1>2, <2>1, UnitsAre
  <1>4. CASE bits < 0 /\ n < 16384
    <2>1. Len(value) \in Lengths
      BY SMT, <1>2, <1>3, <1>4 DEF Lengths
    <2> QED
      BY SMT, <1>1, <1>4, <2>1, UnboundedStringCut
  <1>5. CASE bits = 0 /\ lower = n /\ upper = n
    BY SMT, <1>1, <1>2, <1>3, <1>5, FixedStringCut
  <1>6. CASE /\ bits > 0 /\ lower <= n /\ n <= upper /\ upper - lower + 1 \in Ranges
             /\ LongOrShort(td, n)
    <2>1. (OctetsOf(td, n) > 2) = (n > 2)
      BY SMT, <1>3, <1>6, SameAlignment
    <2> QED
      BY SMT, <1>1, <1>2, <1>3, <1>6, <2>1, RangedStringCut
  <1> QED
    BY SMT, <1>2, <1>4, <1>5, <1>6 DEF Fits

\* The decoder of integers fails where one of its steps does.
IntegerRefused(td, out, at) ==
    \A pd \in Seq(Octet) : CutShort(pd, out) => INTEGER_decode_aper(td, pd, at) = Failed

LEMMA UnboundedIntegerFails ==
  ASSUME NEW td, NEW bits \in Int, td.value.effective_bits = bits, bits < 0, NEW pd, NEW pos
  PROVE  /\ aper_get_length(pd, pos) = Failed => INTEGER_decode_aper(td, pd, pos) = Failed
         /\ \A n, at : aper_get_length(pd, pos) = Got(n, at)
                       /\ asn_get_many_bits(pd, at, n, 8) = Failed =>
                            INTEGER_decode_aper(td, pd, pos) = Failed
  <1>1. ~Failed.ok
    BY Zenon DEF Failed
  <1>2. ASSUME aper_get_length(pd, pos) = Failed
        PROVE  INTEGER_decode_aper(td, pd, pos) = Failed
    BY SMT, <1>1, <1>2 DEF INTEGER_decode_aper, Get
  <1>3. ASSUME NEW n, NEW at, aper_get_length(pd, pos) = Got(n, at),
               asn_get_many_bits(pd, at, n, 8) = Failed
        PROVE  INTEGER_decode_aper(td, pd, pos) = Failed
    BY SMT, <1>1, <1>3, GotIs DEF INTEGER_decode_aper, Get
  <1> QED
    BY Zenon, <1>2, <1>3

LEMMA UnboundedIntegerCut ==
  ASSUME NEW td, NEW bits \in Int, td.value.effective_bits = bits, bits < 0,
         NEW value \in Long, NEW po \in Seq(Bit)
  PROVE  IntegerRefused(td, INTEGER_encode_aper(td, value, po), Len(po))
  <1>1. PICK octets : octets = TwosComplement(value)
    BY Zenon
  <1>2. octets \in Seq(Octet) /\ Len(octets) \in 1 .. 4
    BY Zenon, <1>1, TwosComplementIs
  <1>3. PICK n : n = Len(octets)
    BY Zenon
  <1>4. n \in Nat /\ n < 16384 /\ n \in Lengths /\ octets \in Units(8) /\ 8 \in {1, 8}
    BY SMT, <1>2, <1>3, UnitsOfOctets DEF Lengths
  <1>5. PICK led : led = aper_put_length(po, n)
    BY Zenon
  <1>6. led \in Seq(Bit) /\ LengthRead(led, Len(po), n) /\ LengthRefused(led, Len(po))
    BY SMT, <1>4, <1>5, LengthSent, LengthCut DEF SentBehind
  <1>7. PICK out : out = asn_put_many_bits(led, octets, 8)
    BY Zenon
  <1>8. INTEGER_encode_aper(td, value, po) = out
    <2>1. INTEGER_encode_aper(td, value, po)
              = asn_put_many_bits(aper_put_length(po, Len(TwosComplement(value))),
                                  TwosComplement(value), 8)
      BY SMT, UnboundedIntegerIs
    <2> QED
      BY SMT, <1>1, <1>3, <1>5, <1>7, <2>1
  <1>9. SentBehind(out, led) /\ UnitsRefused(out, Len(led), n, 8)
    <2>1. octets \in Units(8) /\ 8 \in {1, 8}
      BY SMT, <1>4
    <2> QED
      BY Zenon, <1>3, <1>6, <1>7, <2>1, ContentHere, ContentCut
  <1>10. ASSUME NEW pd \in Seq(Octet), CutShort(pd, out)
         PROVE  INTEGER_decode_aper(td, pd, Len(po)) = Failed
    <2>1. CutShort(pd, led) \/ Carries(pd, led)
      BY Zenon, <1>6, <1>9, <1>10, CutOrCarried DEF SentBehind
    <2>2. CASE CutShort(pd, led)
      <3>1. aper_get_length(pd, Len(po)) = Failed
        BY Zenon, <1>6, <2>2 DEF LengthRefused
      <3> QED
        BY Zenon, <3>1, UnboundedIntegerFails
    <2>3. CASE Carries(pd, led)
      <3>1. aper_get_length(pd, Len(po)) = Got(n, Len(led))
        BY Zenon, <1>6, <2>3 DEF LengthRead
      <3>2. asn_get_many_bits(pd, Len(led), n, 8) = Failed
        BY Zenon, <1>9, <1>10 DEF UnitsRefused
      <3> QED
        BY Zenon, <3>1, <3>2, UnboundedIntegerFails
    <2> QED
      BY Zenon, <2>1, <2>2, <2>3
  <1> QED
    BY SMT, <1>8, <1>10 DEF IntegerRefused

\* An integer of at most 16 bits.
LEMMA SmallIntegerFails ==
  ASSUME NEW td, NEW bits \in 0 .. 16, td.value.effective_bits = bits, NEW pd, NEW pos
  PROVE  /\ bits < 8 /\ asn_get_few_bits(pd, pos, bits) = Failed =>
                INTEGER_decode_aper(td, pd, pos) = Failed
         /\ bits = 8 /\ asn_get_few_bits(pd, aper_get_align(pos), 8) = Failed =>
                INTEGER_decode_aper(td, pd, pos) = Failed
         /\ bits > 8 /\ asn_get_few_bits(pd, aper_get_align(pos), 16) = Failed =>
                INTEGER_decode_aper(td, pd, pos) = Failed
  <1>1. ~Failed.ok
    BY Zenon DEF Failed
  <1>2. ASSUME bits < 8, asn_get_few_bits(pd, pos, bits) = Failed
        PROVE  INTEGER_decode_aper(td, pd, pos) = Failed
    BY SMT, <1>1, <1>2 DEF INTEGER_decode_aper, Get
  <1>3. ASSUME bits = 8, asn_get_few_bits(pd, aper_get_align(pos), 8) = Failed
        PROVE  INTEGER_decode_aper(td, pd, pos) = Failed
    BY SMT, <1>1, <1>3 DEF INTEGER_decode_aper, Get
  <1>4. ASSUME bits > 8, asn_get_few_bits(pd, aper_get_align(pos), 16) = Failed
        PROVE  INTEGER_decode_aper(td, pd, pos) = Failed
    BY SMT, <1>1, <1>4 DEF INTEGER_decode_aper, Get
  <1> QED
    BY SMT, <1>2, <1>3, <1>4

LEMMA SmallIntegerCut ==
  ASSUME NEW td, NEW bits \in 0 .. 16, NEW lower \in Int, NEW upper \in Int, NEW value \in Int,
         Within(td, bits, lower, upper, value), NEW po \in Seq(Bit)
  PROVE  IntegerRefused(td, INTEGER_encode_aper(td, value, po), Len(po))
  <1>1. PICK v : v = value - lower
    BY SMT
  <1>2. v \in Nat /\ td.value.effective_bits = bits
    BY SMT, <1>1 DEF Within
  <1>3. PICK out : out = INTEGER_encode_aper(td, value, po)
    BY Zenon
  <1>4. CASE bits < 8
    <2>1. Codes(td, value, po, asn_put_few_bits(po, v, bits), Len(po), bits, v)
      BY Zenon, <1>1, <1>4, SmallIntegerIs
    <2>2. NumberRefused(out, Len(po), bits)
      BY Zenon, <1>2, <1>3, <2>1, PlainCut DEF Codes
    <2> QED
      BY Zenon, <1>2, <1>3, <1>4, <2>2, SmallIntegerFails DEF NumberRefused, IntegerRefused
  <1>5. CASE bits = 8
    <2>1. Codes(td, value, po, asn_put_few_bits(aper_put_align(po), v, 8),
                aper_get_align(Len(po)), 8, v)
      BY Zenon, <1>1, <1>5, SmallIntegerIs
    <2>2. 8 \in 0 .. 16
      BY SMT
    <2>3. NumberRefused(out, aper_get_align(Len(po)), 8)
      BY Zenon, <1>2, <1>3, <2>1, <2>2, PlainCut DEF Codes
    <2> QED
      BY Zenon, <1>2, <1>3, <1>5, <2>3, SmallIntegerFails DEF NumberRefused, IntegerRefused
  <1>6. CASE bits > 8
    <2>1. Codes(td, value, po, asn_put_few_bits(aper_put_align(po), v, 16),
                aper_get_align(Len(po)), 16, v)
      BY Zenon, <1>1, <1>6, SmallIntegerIs
    <2>2. 16 \in 0 .. 16
      BY SMT
    <2>3. NumberRefused(out, aper_get_align(Len(po)), 16)
      BY Zenon, <1>2, <1>3, <2>1, <2>2, PlainCut DEF Codes
    <2> QED
      BY Zenon, <1>2, <1>3, <1>6, <2>3, SmallIntegerFails DEF NumberRefused, IntegerRefused
  <1>7. bits < 8 \/ bits = 8 \/ bits > 8
    BY SMT
  <1> QED
    BY Zenon, <1>4, <1>5, <1>6, <1>7

\* An integer of more than 16 bits.
LEMMA WideIntegerFails ==
  ASSUME NEW td, NEW bits \in 17 .. 32, td.value.effective_bits = bits,
         NEW r, r = BitsOf(RangeOctets(bits)), NEW pd, NEW pos
  PROVE  /\ asn_get_few_bits(pd, pos, r) = Failed => INTEGER_decode_aper(td, pd, pos) = Failed
         /\ \A n \in 1 .. 4 : \A at :
                asn_get_few_bits(pd, pos, r) = Got(n - 1, at)
                /\ asn_get_many_bits(pd, aper_get_align(at), n, 8) = Failed =>
                    INTEGER_decode_aper(td, pd, pos) = Failed
  <1>1. ~Failed.ok
    BY Zenon DEF Failed
  <1>2. /\ ~(td.value.effective_bits < 0) /\ td.value.effective_bits \notin 0 .. 7
        /\ td.value.effective_bits # 8 /\ td.value.effective_bits \notin 9 .. 16
    BY SMT
  <1>3. INTEGER_decode_aper(td, pd, pos)
            = LET first == asn_get_few_bits(pd, pos, BitsOf(RangeOctets(td.value.effective_bits)))
                  second == asn_get_many_bits(pd, aper_get_align(first.pos), first.value + 1, 8)
                  third == Got(Shifted(0, 256, second.value), second.pos)
              IN  IF first.ok
                  THEN IF second.ok
                       THEN IF third.ok THEN Got(third.value + td.value.lower_bound, third.pos)
                            ELSE Failed
                       ELSE Failed
                  ELSE Failed
    BY Zenon, <1>2 DEF INTEGER_decode_aper, Get
  <1>4. PICK first : first = asn_get_few_bits(pd, pos, r)
    BY Zenon
  <1>5. asn_get_few_bits(pd, pos, BitsOf(RangeOctets(td.value.effective_bits))) = first
    BY Zenon, <1>4
  <1>6. ASSUME first = Failed
        PROVE  INTEGER_decode_aper(td, pd, pos) = Failed
    BY Zenon, <1>1, <1>3, <1>5, <1>6
  <1>7. ASSUME NEW n \in 1 .. 4, NEW at, first = Got(n - 1, at),
               asn_get_many_bits(pd, aper_get_align(at), n, 8) = Failed
        PROVE  INTEGER_decode_aper(td, pd, pos) = Failed
    <2>1. PICK m : m = n - 1
      BY SMT
    <2>2. first = Got(m, at) /\ m + 1 = n
      BY SMT, <1>7, <2>1
    <2>3. first.value + 1 = n /\ first.pos = at
      BY SMT, <2>2, GotIs
    <2>4. PICK second : second = asn_get_many_bits(pd, aper_get_align(first.pos), first.value + 1, 8)
      BY Zenon
    <2>5. second = Failed
      BY Zenon, <1>7, <2>3, <2>4
    <2> QED
      BY Zenon, <1>1, <1>3, <1>5, <2>4, <2>5
  <1> QED
    BY Zenon, <1>4, <1>6, <1>7

LEMMA WideIntegerCut ==
  ASSUME NEW td, NEW bits \in 17 .. 32, NEW lower \in Int, NEW upper \in Int, NEW value \in Int,
         Within(td, bits, lower, upper, value), value - lower \in Wide, NEW po \in Seq(Bit)
  PROVE  IntegerRefused(td, INTEGER_encode_aper(td, value, po), Len(po))
  <1>1. PICK v : v = value - lower
    BY SMT
  <1>2. PICK n : n = Magnitude(v)
    BY SMT
  <1>3. PICK r : r = BitsOf(RangeOctets(bits))
    BY SMT
  <1>4. PICK octets : octets = OctetsIn(v, n)
    BY SMT
  <1>5. n \in 1 .. 4 /\ octets \in Seq(Octet) /\ Len(octets) = n
    BY Zenon, <1>1, <1>2, <1>4, OctetsOfWide
  <1>6. r \in 0 .. 16 /\ Room(n - 1, r)
    BY Zenon, <1>3, <1>5, CountBits
  <1>7. PICK led : led = asn_put_few_bits(po, n - 1, r)
    BY SMT
  <1>8. led \in Seq(Bit) /\ NumberRead(led, Len(po), r, n - 1)
    BY Zenon, <1>6, <1>7, PlainIs DEF SentBehind
  <1>9. NumberRefused(led, Len(po), r)
    <2>1. n - 1 \in Nat
      BY SMT, <1>5
    <2> QED
      BY Zenon, <1>6, <1>7, <2>1, PlainCut
  <1>10. PICK out : out = asn_put_many_bits(aper_put_align(led), octets, 8)
    BY SMT
  <1>11. SentBehind(out, led) /\ UnitsRefused(out, aper_get_align(Len(led)), n, 8)
    <2>1. octets \in Units(8) /\ 8 \in {1, 8}
      BY SMT, <1>5, UnitsOfOctets
    <2>2. UnitsRefused(out, aper_get_align(Len(led)), Len(octets), 8)
      BY Zenon, <1>8, <1>10, <2>1, ContentCut
    <2> QED
      BY Zenon, <1>5, <1>8, <1>10, <2>1, <2>2, ContentAligned
  <1>12. CodesWide(td, value, po, v, n, r)
    BY Zenon, <1>1, <1>2, <1>3, <1>5, WideIntegerIs
  <1>13. out = INTEGER_encode_aper(td, value, po)
    BY Zenon, <1>4, <1>7, <1>10, <1>12 DEF CodesWide
  <1>14. td.value.effective_bits = bits
    BY Zenon DEF Within
  <1>15. ASSUME NEW pd \in Seq(Octet), CutShort(pd, out)
         PROVE  INTEGER_decode_aper(td, pd, Len(po)) = Failed
    <2>1. CutShort(pd, led) \/ Carries(pd, led)
      BY Zenon, <1>8, <1>11, <1>15, CutOrCarried DEF SentBehind
    <2>2. CASE CutShort(pd, led)
      <3>1. asn_get_few_bits(pd, Len(po), r) = Failed
        BY Zenon, <1>9, <2>2 DEF NumberRefused
      <3> QED
        BY Zenon, <1>3, <1>14, <3>1, WideIntegerFails
    <2>3. CASE Carries(pd, led)
      <3>1. asn_get_few_bits(pd, Len(po), r) = Got(n - 1, Len(led))
        BY Zenon, <1>8, <2>3 DEF NumberRead
      <3>2. asn_get_many_bits(pd, aper_get_align(Len(led)), n, 8) = Failed
        BY Zenon, <1>11, <1>15 DEF UnitsRefused
      <3> QED
        BY Zenon, <1>3, <1>5, <1>14, <3>1, <3>2, WideIntegerFails
    <2> QED
      BY Zenon, <2>1, <2>2, <2>3
  <1> QED
    BY Zenon, <1>13, <1>15 DEF IntegerRefused

\* An integer of which the end is missing is refused, wherever it is cut: no
\* shorter number is read from the octets that are there (INTEGER_decode_aper).
THEOREM IntegerCutRefused ==
  ASSUME NEW bits \in Int, NEW lower \in Int, NEW upper \in Int, NEW value \in Int,
         NEW td, td.value = Fixed(bits, lower, upper),
         Holds(bits, lower, upper, value), NEW po \in Seq(Bit)
  PROVE  IntegerRefused(td, INTEGER_encode_aper(td, value, po), Len(po))
  <1>1. /\ td.value.effective_bits = bits
        /\ td.value.lower_bound = lower /\ td.value.upper_bound = upper
    BY SMT DEF Fixed, Bounds
  <1>2. CASE bits < 0 /\ value \in Long
    BY Zenon, <1>1, <1>2, UnboundedIntegerCut
  <1>3. CASE lower <= value /\ value <= upper /\ bits \in 0 .. 16
    <2>1. Within(td, bits, lower, upper, value)
      BY Zenon, <1>1, <1>3 DEF Within
    <2> QED
      BY Zenon, <1>3, <2>1, SmallIntegerCut
  <1>4. CASE lower <= value /\ value <= upper /\ bits \in 17 .. 32 /\ value - lower \in Wide
    <2>1. Within(td, bits, lower, upper, value)
      BY Zenon, <1>1, <1>4 DEF Within
    <2> QED
      BY Zenon, <1>4, <2>1, WideIntegerCut
  <1> QED
    BY Zenon, <1>2, <1>3, <1>4 DEF Holds

\* The mark of an extensible type, cut off.
LEMMA MarkCut ==
  ASSUME NEW po \in Seq(Bit), NEW extensible \in BOOLEAN
  PROVE  NumberRefused(Marked(extensible, po), Len(po), MarkBits(extensible))
  <1>1. CASE extensible
    <2>1. 1 \in 0 .. 16 /\ 0 \in Nat
      BY SMT
    <2> QED
      BY Zenon, <1>1, <2>1, PlainCut DEF Marked, MarkBits
  <1>2. CASE ~extensible
    <2>1. 0 \in 0 .. 16 /\ 0 \in Nat
      BY SMT
    <2>2. asn_put_few_bits(po, 0, 0) = po
      BY SMT DEF asn_put_few_bits
    <2>3. NumberRefused(asn_put_few_bits(po, 0, 0), Len(po), 0)
      BY Zenon, <2>1, PlainCut
    <2> QED
      BY Zenon, <1>2, <2>2, <2>3 DEF Marked, MarkBits
  <1> QED
    BY Zenon, <1>1, <1>2

LEMMA EnumeratedFails ==
  ASSUME NEW td, NEW extensible \in BOOLEAN, td.value.extensible = extensible, NEW pd, NEW pos
  PROVE  /\ asn_get_few_bits(pd, pos, MarkBits(extensible)) = Failed =>
                NativeEnumerated_decode_aper(td, pd, pos) = Failed
         /\ \A at : asn_get_few_bits(pd, pos, MarkBits(extensible)) = Got(0, at)
                    /\ asn_get_few_bits(pd, at, td.value.effective_bits) = Failed =>
                        NativeEnumerated_decode_aper(td, pd, pos) = Failed
  <1>1. ~Failed.ok
    BY Zenon DEF Failed
  <1>2. ASSUME asn_get_few_bits(pd, pos, MarkBits(extensible)) = Failed
        PROVE  NativeEnumerated_decode_aper(td, pd, pos) = Failed
    BY SMT, <1>1, <1>2 DEF NativeEnumerated_decode_aper, Get, MarkBits
  <1>3. ASSUME NEW at, asn_get_few_bits(pd, pos, MarkBits(extensible)) = Got(0, at),
               asn_get_few_bits(pd, at, td.value.effective_bits) = Failed
        PROVE  NativeEnumerated_decode_aper(td, pd, pos) = Failed
    BY SMT, <1>1, <1>3, GotIs DEF NativeEnumerated_decode_aper, Get, MarkBits
  <1> QED
    BY Zenon, <1>2, <1>3

\* An ENUMERATED of which the end is missing is refused, in the mark of its
\* extensions or in its value (NativeEnumerated_decode_aper).
THEOREM EnumeratedCutRefused ==
  ASSUME NEW flags, NEW bits \in 0 .. 16, NEW names, Len(names) \in Nat,
         NEW value \in 0 .. Len(names) - 1, NEW po \in Seq(Bit),
         NEW td, td = NativeEnumerated(flags, bits, names),
         NEW out, out = NativeEnumerated_encode_aper(td, value, po)
  PROVE  \A pd \in Seq(Octet) : CutShort(pd, out) =>
             NativeEnumerated_decode_aper(td, pd, Len(po)) = Failed
  <1>1. PICK extensible \in BOOLEAN : extensible = (flags = "extensible")
    BY Zenon
  <1>2. PICK marked : marked = Marked(extensible, po)
    BY Zenon
  <1>3. /\ td.names = names /\ td.value.extensible = extensible
        /\ td.value.effective_bits = bits
    BY SMT, <1>1 DEF NativeEnumerated, Bounds
  <1>4. value \in Nat /\ out = asn_put_few_bits(marked, value, bits)
    BY SMT, <1>2, <1>3 DEF NativeEnumerated_encode_aper, Marked
  <1>5. /\ marked \in Seq(Bit)
        /\ \A pd \in Seq(Octet) : Carries(pd, marked) =>
               asn_get_few_bits(pd, Len(po), MarkBits(extensible)) = Got(0, Len(marked))
    BY Zenon, <1>2, MarkArrives
  <1>6. out \in Seq(Bit) /\ Continues(out, marked) /\ NumberRefused(out, Len(marked), bits)
    BY Zenon, <1>4, <1>5, FewBitsSent, PlainCut
  <1>7. ASSUME NEW pd \in Seq(Octet), CutShort(pd, out)
        PROVE  NativeEnumerated_decode_aper(td, pd, Len(po)) = Failed
    <2>1. CutShort(pd, marked) \/ Carries(pd, marked)
      BY Zenon, <1>5, <1>6, <1>7, CutOrCarried
    <2>2. CASE CutShort(pd, marked)
      <3>1. asn_get_few_bits(pd, Len(po), MarkBits(extensible)) = Failed
        BY Zenon, <1>2, <2>2, MarkCut DEF NumberRefused
      <3> QED
        BY Zenon, <1>3, <3>1, EnumeratedFails
    <2>3. CASE Carries(pd, marked)
      <3>1. asn_get_few_bits(pd, Len(po), MarkBits(extensible)) = Got(0, Len(marked))
        BY Zenon, <1>5, <2>3
      <3>2. asn_get_few_bits(pd, Len(marked), td.value.effective_bits) = Failed
        BY Zenon, <1>3, <1>6, <1>7 DEF NumberRefused
      <3> QED
        BY Zenon, <1>3, <3>1, <3>2, EnumeratedFails
    <2> QED
      BY Zenon, <2>1, <2>2, <2>3
  <1> QED
    BY Zenon, <1>7

\* Some of the octets of an output, from the first on but not all of them, are
\* its bits cut short: what the theorems about a missing end ask of an input is
\* what is left of the octets of asn_put_aligned_flush.
THEOREM FlushCutShort ==
  ASSUME NEW po \in Seq(Bit), NEW pd \in Seq(Octet), Len(pd) < Len(asn_put_aligned_flush(po)),
         \A k \in 1 .. Len(pd) : pd[k] = asn_put_aligned_flush(po)[k]
  PROVE  CutShort(pd, po)
  <1>1. PICK all : all = asn_put_aligned_flush(po)
    BY Zenon
  <1>2. PICK padded : padded = aper_put_align(po)
    BY Zenon
  <1>3. padded \in Seq(Bit) /\ Len(padded) % 8 = 0 /\ Len(padded) - Len(po) \in 0 .. 7
    BY Zenon, <1>2, AlignAre
  <1>4. all \in Seq(Octet) /\ Len(all) = Len(padded) \div 8
    <2>1. all = OctetsOfBits(padded)
      BY Zenon, <1>1, <1>2 DEF asn_put_aligned_flush, OctetsOfBits
    <2> QED
      BY Zenon, <1>3, <2>1, OctetsOfBitsAre
  <1>5. /\ Len(po) \in Nat /\ Len(padded) \in Nat /\ Len(pd) \in Nat /\ Len(all) \in Nat
        /\ Len(pd) < Len(all) /\ \A k \in 1 .. Len(pd) : pd[k] = all[k]
    BY Zenon, <1>1, <1>3, <1>4, BitsAreNumbers
  <1>6. 8 * Len(pd) < Len(po)
    BY SMT, <1>3, <1>4, <1>5
  <1>7. \A i \in 1 .. Len(po) : BitAt(all, i - 1) = po[i]
    <2>1. Continues(all, all)
      BY SMT DEF Continues
    <2>2. Carries(all, po)
      BY SMT, <1>1, <1>4, <1>5, <2>1, FlushCarries
    <2> QED
      BY Zenon, <2>2 DEF Carries
  <1>8. ASSUME NEW i \in 1 .. 8 * Len(pd) PROVE BitAt(pd, i - 1) = po[i]
    <2>1. PICK k : k = (i - 1) \div 8 + 1
      BY SMT
    <2>2. k \in 1 .. Len(pd) /\ i \in 1 .. Len(po)
      BY SMT, <1>5, <1>6, <2>1
    <2>3. pd[k] = all[k]
      BY Zenon, <1>5, <2>2
    <2>4. BitAt(pd, i - 1) = BitAt(all, i - 1)
      BY SMT, <2>1, <2>3 DEF BitAt
    <2> QED
      BY Zenon, <1>7, <2>2, <2>4
  <1> QED
    BY SMT, <1>6, <1>8 DEF CutShort
=============================================================================
