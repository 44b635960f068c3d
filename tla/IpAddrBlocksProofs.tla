------------------------- MODULE IpAddrBlocksProofs -------------------------
(***************************************************************************)
(* Proofs about IpAddrBlocks, for every width of an octet, of the address  *)
(* families and of the integer form, every caller's value and every input  *)
(* of a peer.                                                              *)
(***************************************************************************)
EXTENDS IpAddrBlocks, WellFoundedInduction, TLAPS

-----------------------------------------------------------------------------
(* Induction, over sets of numbers: a set that is not all of Nat lacks a   *)
(* least number.                                                           *)

LEMMA Least ==
  ASSUME NEW T \in SUBSET Nat, T # {}
  PROVE  \E x \in T : \A y \in T : x <= y
<1>1. \E x \in T : \A y \in T : ~(<<y, x>> \in OpToRel(<, Nat))
  BY NatLessThanWellFounded, WFMin
<1>2. PICK x \in T : \A y \in T : ~(<<y, x>> \in OpToRel(<, Nat))
  BY <1>1
<1>3. ASSUME NEW y \in T PROVE x <= y
  <2>1. ~(y < x)
    BY <1>2 DEF OpToRel
  <2>. QED
    BY <2>1
<1>. QED
  BY <1>3

LEMMA SetInduction ==
  ASSUME NEW T, T \subseteq Nat, 0 \in T, \A n \in T : n + 1 \in T
  PROVE  \A n \in Nat : n \in T
<1>. SUFFICES ASSUME Nat \ T # {} PROVE FALSE
  OBVIOUS
<1>1. PICK x \in Nat \ T : \A y \in Nat \ T : x <= y
  BY Least
<1>2. x - 1 \in Nat /\ x - 1 \notin Nat \ T
  BY <1>1
<1>. QED
  BY <1>1, <1>2

\* The beginnings, up to n, of a function defined by recursion.
Beginning(D, a, step, n, g) ==
  /\ g \in [0 .. n -> D] /\ g[0] = a
  /\ \A i \in 0 .. n - 1 : g[i + 1] = step[i][g[i]]

LEMMA BeginningsExist ==
  ASSUME NEW D, NEW a \in D, NEW step \in [Nat -> [D -> D]]
  PROVE  \A n \in Nat : \E g : Beginning(D, a, step, n, g)
<1>. DEFINE T == {n \in Nat : \E g : Beginning(D, a, step, n, g)}
<1>1. 0 \in T
  <2>. DEFINE g == [i \in 0 .. 0 |-> a]
  <2>1. g \in [0 .. 0 -> D] /\ g[0] = a
    OBVIOUS
  <2>2. \A i \in 0 .. 0 - 1 : FALSE
    OBVIOUS
  <2>3. Beginning(D, a, step, 0, g)
    BY <2>1, <2>2 DEF Beginning
  <2>. QED
    BY <2>3
<1>2. ASSUME NEW n \in T PROVE n + 1 \in T
  <2>1. PICK g : Beginning(D, a, step, n, g)
    OBVIOUS
  <2>2. /\ g \in [0 .. n -> D] /\ g[0] = a /\ n \in Nat
        /\ \A i \in 0 .. n - 1 : g[i + 1] = step[i][g[i]]
    BY <2>1 DEF Beginning
  <2>. DEFINE last == step[n][g[n]]
              h == [i \in 0 .. n + 1 |-> IF i = n + 1 THEN last ELSE g[i]]
  <2>3. last \in D
    BY <2>2
  <2>4. h[n + 1] = last /\ \A i \in 0 .. n : h[i] = g[i]
    BY <2>2
  <2>5. h \in [0 .. n + 1 -> D]
    <3>. HIDE DEF last
    <3>. QED
      BY <2>2, <2>3
  <2>. HIDE DEF h
  <2>6. \A i \in 0 .. n : h[i + 1] = step[i][h[i]]
    <3>. TAKE i \in 0 .. n
    <3>1. CASE i = n
      BY <2>2, <2>4, <3>1
    <3>2. CASE i # n
      <4>1. i \in 0 .. n - 1 /\ i + 1 \in 0 .. n
        BY <2>2, <3>2
      <4>. QED
        BY <2>2, <2>4, <4>1
    <3>. QED
      BY <3>1, <3>2
  <2>7. (n + 1) - 1 = n /\ h[0] = a /\ n + 1 \in Nat
    BY <2>2, <2>4
  <2>8. Beginning(D, a, step, n + 1, h)
    BY <2>5, <2>6, <2>7 DEF Beginning
  <2>. QED
    BY <2>7, <2>8
<1>3. T \subseteq Nat
  OBVIOUS
<1>. HIDE DEF T
<1>4. \A n \in Nat : n \in T
  BY <1>1, <1>2, <1>3, SetInduction
<1>. QED
  BY <1>4 DEF T

Agree(m, n, g, h) == \A i \in Nat : i <= m /\ i <= n => g[i] = h[i]

LEMMA BeginningsAgree ==
  ASSUME NEW D, NEW a \in D, NEW step \in [Nat -> [D -> D]],
         NEW m \in Nat, NEW n \in Nat, NEW g, NEW h,
         Beginning(D, a, step, m, g), Beginning(D, a, step, n, h)
  PROVE  Agree(m, n, g, h)
<1>. DEFINE T == {i \in Nat : i <= m /\ i <= n => g[i] = h[i]}
<1>1. 0 \in T
  BY DEF Beginning
<1>2. ASSUME NEW i \in T PROVE i + 1 \in T
  <2>. SUFFICES ASSUME i + 1 <= m, i + 1 <= n PROVE g[i + 1] = h[i + 1]
    OBVIOUS
  <2>1. i \in 0 .. m - 1 /\ i \in 0 .. n - 1 /\ g[i] = h[i]
    OBVIOUS
  <2>. QED
    BY <2>1 DEF Beginning
<1>3. T \subseteq Nat
  OBVIOUS
<1>. HIDE DEF T
<1>4. \A i \in Nat : i \in T
  BY <1>1, <1>2, <1>3, SetInduction
<1>. QED
  BY <1>4 DEF T, Agree

\* A function may be defined by recursion over Nat.
Unrolls(f, D, a, step) ==
  f \in [Nat -> D] /\ f[0] = a /\ \A n \in Nat : f[n + 1] = step[n][f[n]]

LEMMA Recursion ==
  ASSUME NEW D, NEW a \in D, NEW step \in [Nat -> [D -> D]]
  PROVE  \E f : Unrolls(f, D, a, step)
<1>. DEFINE G(n) == CHOOSE g : Beginning(D, a, step, n, g)
            f == [n \in Nat |-> G(n)[n]]
<1>1. \A n \in Nat : Beginning(D, a, step, n, G(n))
  BY BeginningsExist
<1>. HIDE DEF G
<1>2. \A n \in Nat : G(n)[n] \in D
  BY <1>1 DEF Beginning
<1>3. f \in [Nat -> D] /\ f[0] = a
  BY <1>1, <1>2 DEF Beginning
<1>4. ASSUME NEW n \in Nat PROVE f[n + 1] = step[n][f[n]]
  <2>1. n + 1 \in Nat /\ n \in 0 .. (n + 1) - 1
    OBVIOUS
  <2>2. G(n + 1)[n + 1] = step[n][G(n + 1)[n]]
    BY <1>1, <2>1 DEF Beginning
  <2>3. PICK g, h : /\ g = G(n + 1) /\ Beginning(D, a, step, n + 1, g)
                    /\ h = G(n) /\ Beginning(D, a, step, n, h)
    BY <1>1, <2>1
  <2>4. Agree(n + 1, n, g, h)
    BY <2>1, <2>3, BeginningsAgree
  <2>5. G(n + 1)[n] = G(n)[n]
    BY <2>3, <2>4 DEF Agree
  <2>. QED
    BY <2>1, <2>2, <2>5
<1>. QED
  BY <1>3, <1>4 DEF Unrolls

-----------------------------------------------------------------------------
(* Powers.                                                                 *)

LEMMA PowerRecursion ==
  ASSUME NEW b \in Nat
  PROVE  /\ Power(b, 0) = 1
         /\ \A n \in Nat : Power(b, n) \in Nat /\ Power(b, n + 1) = b * Power(b, n)
<1>. DEFINE step == [k \in Nat |-> [x \in Nat |-> b * x]]
            Is(p) == p = [k \in Nat |-> IF k = 0 THEN 1 ELSE b * p[k - 1]]
            power == CHOOSE p : Is(p)
<1>1. step \in [Nat -> [Nat -> Nat]] /\ 1 \in Nat
      /\ \A k, x \in Nat : step[k][x] = b * x
  OBVIOUS
<1>. HIDE DEF step
<1>2. PICK f : Unrolls(f, Nat, 1, step)
  BY <1>1, Recursion
<1>3. f \in [Nat -> Nat] /\ f[0] = 1 /\ \A n \in Nat : f[n + 1] = step[n][f[n]]
  BY <1>2 DEF Unrolls
<1>4. ASSUME NEW k \in Nat PROVE f[k] = IF k = 0 THEN 1 ELSE b * f[k - 1]
  <2>1. CASE k = 0
    BY <1>3, <2>1
  <2>2. CASE k # 0
    <3>1. k - 1 \in Nat /\ (k - 1) + 1 = k
      BY <2>2
    <3>2. f[(k - 1) + 1] = step[k - 1][f[k - 1]]
      BY <1>3, <3>1
    <3>3. f[k] = b * f[k - 1]
      BY <1>1, <1>3, <3>1, <3>2
    <3>. QED
      BY <2>2, <3>3
  <2>. QED
    BY <2>1, <2>2
<1>5. Is(f)
  BY <1>3, <1>4
<1>6. Is(power)
  BY <1>5
<1>. HIDE DEF power
<1>7. power[0] = 1 /\ \A n \in Nat : power[n + 1] = b * power[n]
  <2>1. power[0] = 1
    BY <1>6
  <2>2. ASSUME NEW n \in Nat PROVE power[n + 1] = b * power[n]
    <3>1. n + 1 \in Nat /\ n + 1 # 0 /\ (n + 1) - 1 = n
      OBVIOUS
    <3>. QED
      BY <1>6, <3>1
  <2>. QED
    BY <2>1, <2>2
<1>8. \A n \in Nat : power[n] \in Nat
  <2>. DEFINE T == {n \in Nat : power[n] \in Nat}
  <2>1. 0 \in T /\ T \subseteq Nat
    BY <1>7
  <2>2. ASSUME NEW n \in T PROVE n + 1 \in T
    <3>1. n + 1 \in Nat /\ b * power[n] \in Nat
      OBVIOUS
    <3>. QED
      BY <1>7, <3>1
  <2>. HIDE DEF T
  <2>3. \A n \in Nat : n \in T
    BY <2>1, <2>2, SetInduction
  <2>. QED
    BY <2>3 DEF T
<1>9. \A n : Power(b, n) = power[n]
  BY DEF Power, power
<1>. QED
  BY <1>7, <1>8, <1>9

LEMMA PowerPositive ==
  ASSUME NEW b \in Nat \ {0}
  PROVE  \A n \in Nat : Power(b, n) \in Nat \ {0}
<1>. DEFINE T == {n \in Nat : Power(b, n) \in Nat \ {0}}
<1>1. 0 \in T /\ T \subseteq Nat
  BY PowerRecursion
<1>2. ASSUME NEW n \in T PROVE n + 1 \in T
  <2>1. \A x \in Nat \ {0} : b * x \in Nat \ {0}
    OBVIOUS
  <2>2. n + 1 \in Nat /\ Power(b, n + 1) = b * Power(b, n)
    BY PowerRecursion
  <2>. QED
    BY <2>1, <2>2
<1>. HIDE DEF T
<1>3. \A n \in Nat : n \in T
  BY <1>1, <1>2, SetInduction
<1>. QED
  BY <1>3 DEF T

LEMMA PowerMonotone ==
  ASSUME NEW b \in Nat \ {0}, NEW m \in Nat
  PROVE  \A n \in Nat : m <= n => Power(b, m) <= Power(b, n)
<1>. DEFINE T == {n \in Nat : m <= n => Power(b, m) <= Power(b, n)}
<1>1. 0 \in T /\ T \subseteq Nat
  <2>1. m <= 0 => m = 0
    OBVIOUS
  <2>. QED
    BY <2>1, PowerPositive
<1>2. ASSUME NEW n \in T PROVE n + 1 \in T
  <2>1. \A x \in Nat \ {0} : x <= b * x
    OBVIOUS
  <2>2. Power(b, n) \in Nat \ {0} /\ Power(b, n + 1) = b * Power(b, n)
    BY PowerRecursion, PowerPositive
  <2>3. Power(b, n) <= Power(b, n + 1)
    BY <2>1, <2>2
  <2>4. CASE m <= n
    BY <2>3, <2>4, PowerPositive
  <2>5. CASE m = n + 1
    BY <2>5, PowerPositive
  <2>. QED
    BY <2>4, <2>5
<1>. HIDE DEF T
<1>3. \A n \in Nat : n \in T
  BY <1>1, <1>2, SetInduction
<1>. QED
  BY <1>3 DEF T

\* n bits count further than n, so an octet holds the number of its bits.
LEMMA PowerOfTwoGrows == \A n \in Nat : n < Power(2, n)
<1>. DEFINE T == {n \in Nat : n < Power(2, n)}
<1>1. 0 \in T /\ T \subseteq Nat
  BY PowerRecursion
<1>2. ASSUME NEW n \in T PROVE n + 1 \in T
  <2>1. Power(2, n + 1) = 2 * Power(2, n) /\ Power(2, n) \in Nat
    BY PowerRecursion
  <2>. QED
    BY <2>1
<1>. HIDE DEF T
<1>3. \A n \in Nat : n \in T
  BY <1>1, <1>2, SetInduction
<1>. QED
  BY <1>3 DEF T

LEMMA BitsFitOctet == Bits \in Nat \ {0} /\ Bits <= OctetMax /\ Base \in Nat \ {0, 1}
  BY PowerOfTwoGrows, WidthAssumption, OctetAssumption, BitsAssumption DEF Base

-----------------------------------------------------------------------------
(* The least and the greatest number of a set.                             *)

LEMMA MinFacts ==
  ASSUME NEW S \in SUBSET Nat, S # {}
  PROVE  Min(S) \in S /\ \A y \in S : Min(S) <= y
BY Least DEF Min

LEMMA MaxFacts ==
  ASSUME NEW S \in SUBSET Nat, S # {}, NEW n \in Nat, \A x \in S : x <= n
  PROVE  Max(S) \in S /\ \A y \in S : y <= Max(S)
<1>. DEFINE T == {n - x : x \in S}
<1>1. \A x \in S : x \in Nat /\ n - x \in Nat
  OBVIOUS
<1>2. T \subseteq Nat /\ T # {}
  BY <1>1
<1>3. PICK t \in T : \A y \in T : t <= y
  BY <1>2, Least
<1>4. PICK x \in S : t = n - x
  BY <1>3
<1>5. \A y \in S : n - x <= n - y
  BY <1>3, <1>4
<1>6. \A y \in S : x >= y
  BY <1>1, <1>5
<1>7. \E z \in S : \A y \in S : z >= y
  BY <1>6
<1>8. Max(S) \in S /\ \A y \in S : Max(S) >= y
  BY <1>7 DEF Max
<1>. QED
  BY <1>8

LEMMA MinOfTwo == \A a, b \in Int : Min({a, b}) = IF a <= b THEN a ELSE b
<1>. SUFFICES ASSUME NEW a \in Int, NEW b \in Int
              PROVE  Min({a, b}) = IF a <= b THEN a ELSE b
  OBVIOUS
<1>1. \E x \in {a, b} : \A y \in {a, b} : x <= y
  OBVIOUS
<1>2. Min({a, b}) \in {a, b} /\ \A y \in {a, b} : Min({a, b}) <= y
  BY <1>1 DEF Min
<1>. QED
  BY <1>2

LEMMA MaxOfTwo == \A a, b \in Int : Max({a, b}) = IF a <= b THEN b ELSE a
<1>. SUFFICES ASSUME NEW a \in Int, NEW b \in Int
              PROVE  Max({a, b}) = IF a <= b THEN b ELSE a
  OBVIOUS
<1>1. \E x \in {a, b} : \A y \in {a, b} : x >= y
  OBVIOUS
<1>2. Max({a, b}) \in {a, b} /\ \A y \in {a, b} : Max({a, b}) >= y
  BY <1>1 DEF Max
<1>. QED
  BY <1>2

-----------------------------------------------------------------------------
(* Octets.                                                                 *)

LEMMA OctetFacts == /\ Base \in Nat \ {0, 1} /\ Fill \in Octet /\ 0 \in Octet
                    /\ Octet = 0 .. Base - 1 /\ Octet \subseteq Nat
BY OctetAssumption DEF Base, Fill, Octet

LEMMA ModFacts ==
  \A x \in Nat : \A m \in Nat \ {0} : x % m \in 0 .. x /\ x % m < m
<1>1. \A x \in Nat : \A m \in Nat \ {0} : x % m \in 0 .. m - 1
  OBVIOUS
<1>2. \A x \in Nat : \A m \in Nat \ {0} : x \div m \in Nat /\ x = m * (x \div m) + (x % m)
  OBVIOUS
<1>3. \A m, q, r \in Nat : r <= m * q + r
  OBVIOUS
<1>. QED
  BY <1>1, <1>2, <1>3

\* The bits of an octet in front of the end of a prefix.
LEMMA KeptFacts ==
  ASSUME NEW n \in Int
  PROVE  /\ Max({0, Min({Bits, n})}) \in 0 .. Bits
         /\ n >= Bits => Max({0, Min({Bits, n})}) = Bits
         /\ n <= 0 => Max({0, Min({Bits, n})}) = 0
         /\ n \in 0 .. Bits => Max({0, Min({Bits, n})}) = n
BY MinOfTwo, MaxOfTwo, WidthAssumption

\* Clearing the host bits of an address gives an address.
LEMMA NetworkTyped ==
  ASSUME NEW w \in Nat, NEW addr \in [1 .. w -> Octet], NEW n \in Nat
  PROVE  Network([addr |-> addr, prefixLen |-> n]) \in [1 .. w -> Octet]
<1>. DEFINE kept(i) == Max({0, Min({Bits, n - Bits * (i - 1)})})
            m(i) == Power(2, Bits - kept(i))
<1>1. Network([addr |-> addr, prefixLen |-> n]) = [i \in 1 .. w |-> addr[i] - (addr[i] % m(i))]
  BY DEF Network
<1>2. ASSUME NEW i \in 1 .. w PROVE addr[i] - (addr[i] % m(i)) \in Octet
  <2>1. Bits \in Nat /\ n - Bits * (i - 1) \in Int
    BY WidthAssumption
  <2>2. kept(i) \in 0 .. Bits
    BY <2>1, KeptFacts
  <2>. HIDE DEF kept
  <2>3. Bits - kept(i) \in Nat
    BY <2>1, <2>2
  <2>4. m(i) \in Nat \ {0}
    <3>1. 2 \in Nat \ {0}
      OBVIOUS
    <3>. QED
      BY <2>3, <3>1, PowerPositive
  <2>. HIDE DEF m
  <2>5. addr[i] \in Nat /\ addr[i] \in Octet
    BY OctetFacts
  <2>6. addr[i] % m(i) \in 0 .. addr[i]
    BY <2>4, <2>5, ModFacts
  <2>7. \A x, y \in Nat : x \in 0 .. OctetMax /\ y \in 0 .. x => x - y \in 0 .. OctetMax
    BY OctetAssumption
  <2>. QED
    BY <2>5, <2>6, <2>7 DEF Octet
<1>. HIDE DEF m
<1>. QED
  BY <1>1, <1>2

-----------------------------------------------------------------------------
(* Significant octets: prefix_to_framed and addr_to_framed_trimmed.        *)

\* The octets that hold n bits: rounded up, and the rest unused.
LEMMA OctetsOfBits ==
  ASSUME NEW b \in Nat \ {0}, NEW n \in Nat
  PROVE  LET q == (n + b - 1) \div b
         IN  /\ q \in Nat /\ q * b - n \in 0 .. b - 1
             /\ \A w \in Nat : n <= w * b => q <= w
<1>. DEFINE q == (n + b - 1) \div b
            r == (n + b - 1) % b
<1>1. n + b - 1 \in Nat
  OBVIOUS
<1>2. \A x \in Nat : x \div b \in Nat /\ x % b \in 0 .. b - 1
  OBVIOUS
<1>3. \A x \in Nat : x = b * (x \div b) + (x % b)
  OBVIOUS
<1>4. q \in Nat /\ r \in 0 .. b - 1 /\ n + b - 1 = b * q + r
  BY <1>1, <1>2, <1>3
<1>. HIDE DEF q, r
<1>5. q * b = b * q /\ b * q \in Nat
  BY <1>4
<1>6. q * b - n \in 0 .. b - 1
  BY <1>4, <1>5
<1>7. ASSUME NEW w \in Nat, n <= w * b PROVE q <= w
  <2>. SUFFICES ASSUME q >= w + 1 PROVE FALSE
    BY <1>4
  <2>1. \A x, y \in Nat : x >= y + 1 => b * x >= b * y + b
    OBVIOUS
  <2>2. b * q >= b * w + b /\ w * b = b * w
    BY <2>1, <1>4
  <2>. QED
    BY <1>4, <1>5, <1>7, <2>2
<1>. QED
  BY <1>4, <1>6, <1>7 DEF q

\* Sequences given by their elements, and their beginnings.
LEMMA SeqOfFunction ==
  \A m \in Nat : \A S : \A d \in [1 .. m -> S] : d \in Seq(S) /\ Len(d) = m
OBVIOUS

LEMMA BeginningOfSeq ==
  ASSUME NEW S, NEW s \in Seq(S), NEW n \in 0 .. Len(s)
  PROVE  /\ SubSeq(s, 1, n) \in Seq(S) /\ Len(SubSeq(s, 1, n)) = n
         /\ \A i \in 1 .. n : SubSeq(s, 1, n)[i] = s[i]
<1>1. n \in Nat /\ 1 .. n \subseteq 1 .. Len(s)
  OBVIOUS
<1>. QED
  BY <1>1

LEMMA PrefixFramed ==
  ASSUME NEW w \in Nat, NEW addr \in [1 .. w -> Octet], NEW n \in 0 .. w * Bits,
         NEW net, net = [addr |-> addr, prefixLen |-> n]
  PROVE  LET framed == PrefixToFramed(net)
         IN  /\ framed.significant \in Seq(Octet)
             /\ Len(framed.significant) = (n + Bits - 1) \div Bits
             /\ Len(framed.significant) <= w
             /\ framed.unused = Len(framed.significant) * Bits - n
             /\ framed.unused \in 0 .. Bits - 1
             /\ \A i \in 1 .. Len(framed.significant) :
                  framed.significant[i] = Network(net)[i]
<1>. DEFINE q == (n + Bits - 1) \div Bits
            network == Network(net)
<1>1. n \in Nat /\ Bits \in Nat \ {0} /\ w * Bits \in Nat /\ n <= w * Bits
  BY WidthAssumption
<1>2. q \in Nat /\ q * Bits - n \in 0 .. Bits - 1 /\ q <= w
  BY <1>1, OctetsOfBits
<1>3. network \in [1 .. w -> Octet]
  BY <1>1, NetworkTyped
<1>4. PrefixToFramed(net) = [significant |-> SubSeq(network, 1, q), unused |-> q * Bits - n]
  BY DEF PrefixToFramed
<1>. HIDE DEF q, network
<1>5. network \in Seq(Octet) /\ Len(network) = w
  BY <1>3, SeqOfFunction
<1>6. q \in 0 .. Len(network)
  BY <1>2, <1>5
<1>7. /\ SubSeq(network, 1, q) \in Seq(Octet) /\ Len(SubSeq(network, 1, q)) = q
      /\ \A i \in 1 .. q : SubSeq(network, 1, q)[i] = network[i]
  BY <1>5, <1>6, BeginningOfSeq
<1>. DEFINE framed == PrefixToFramed(net)
<1>8. framed.significant = SubSeq(network, 1, q) /\ framed.unused = q * Bits - n
  BY <1>4
<1>. HIDE DEF framed
<1>9. /\ framed.significant \in Seq(Octet) /\ Len(framed.significant) = q
      /\ framed.unused = Len(framed.significant) * Bits - n
      /\ framed.unused \in 0 .. Bits - 1
      /\ \A i \in 1 .. Len(framed.significant) : framed.significant[i] = network[i]
  BY <1>2, <1>7, <1>8
<1>. QED
  BY <1>2, <1>9 DEF q, network, framed

LEMMA AddrFramed ==
  ASSUME NEW w \in Nat, NEW addr \in [1 .. w -> Octet], NEW fill
  PROVE  LET s == AddrToFramedTrimmed(addr, fill)
         IN  /\ s \in Seq(Octet) /\ Len(s) <= w
             /\ \A i \in 1 .. Len(s) : s[i] = addr[i]
             /\ \A i \in Len(s) + 1 .. w : addr[i] = fill
<1>. DEFINE kept == {i \in DOMAIN addr : addr[i] # fill}
            S == {0} \cup kept
            n == Max(S)
<1>1. S \in SUBSET Nat /\ S # {} /\ \A i \in S : i <= w
  OBVIOUS
<1>2. n \in S /\ \A i \in S : i <= n
  <2>. HIDE DEF S
  <2>. QED
    BY <1>1, MaxFacts
<1>3. n \in 0 .. w /\ \A i \in n + 1 .. w : addr[i] = fill
  <2>1. n \in 0 .. w
    BY <1>1, <1>2
  <2>2. ASSUME NEW i \in n + 1 .. w, addr[i] # fill PROVE FALSE
    <3>1. i \in DOMAIN addr
      BY <2>1
    <3>2. i \in S
      BY <2>2, <3>1
    <3>. HIDE DEF n, S
    <3>. QED
      BY <1>2, <2>1, <3>2
  <2>. QED
    BY <2>1, <2>2
<1>4. AddrToFramedTrimmed(addr, fill) = SubSeq(addr, 1, n)
  BY DEF AddrToFramedTrimmed
<1>. HIDE DEF n
<1>5. addr \in Seq(Octet) /\ Len(addr) = w
  BY SeqOfFunction
<1>6. /\ SubSeq(addr, 1, n) \in Seq(Octet) /\ Len(SubSeq(addr, 1, n)) = n
      /\ \A i \in 1 .. n : SubSeq(addr, 1, n)[i] = addr[i]
  BY <1>3, <1>5, BeginningOfSeq
<1>. QED
  BY <1>3, <1>4, <1>6

-----------------------------------------------------------------------------
(* The integer form: absolute_int_from_framed, framed_from_absolute_int.   *)

\* The values of the beginnings of `unused + 1 || significant'.
IsValue(significant, unused, v) ==
  /\ v \in [0 .. Len(significant) -> Nat] /\ v[0] = unused + 1
  /\ \A i \in 0 .. Len(significant) - 1 : v[i + 1] = v[i] * Base + significant[i + 1]

LEMMA ValueExists ==
  ASSUME NEW s \in Seq(Octet), NEW u \in Nat
  PROVE  \E v : IsValue(s, u, v) /\ AbsoluteIntFromFramed(s, u) = v[Len(s)]
<1>. DEFINE digit(k) == IF k < Len(s) THEN s[k + 1] ELSE 0
            step == [k \in Nat |-> [x \in Nat |-> x * Base + digit(k)]]
            Is(v) == v = [n \in 0 .. Len(s) |->
                            IF n = 0 THEN u + 1 ELSE v[n - 1] * Base + s[n]]
            value0 == CHOOSE v : Is(v)
<1>1. \A k \in Nat : digit(k) \in Nat /\ (k < Len(s) => digit(k) = s[k + 1])
  BY OctetFacts
<1>. HIDE DEF digit
<1>2. \A k, x \in Nat : x * Base + digit(k) \in Nat
  <2>1. \A x, y, z \in Nat : x * y + z \in Nat
    OBVIOUS
  <2>. QED
    BY <1>1, <2>1, OctetFacts
<1>3. step \in [Nat -> [Nat -> Nat]] /\ u + 1 \in Nat
  <2>. DEFINE next(k, x) == x * Base + digit(k)
  <2>1. \A k, x \in Nat : next(k, x) \in Nat
    BY <1>2
  <2>. DEFINE row(k) == [x \in Nat |-> next(k, x)]
  <2>2. step = [k \in Nat |-> row(k)]
    OBVIOUS
  <2>. HIDE DEF next, step
  <2>3. \A k \in Nat : row(k) \in [Nat -> Nat]
    BY <2>1
  <2>. HIDE DEF row
  <2>4. step \in [Nat -> [Nat -> Nat]]
    BY <2>2, <2>3, Zenon
  <2>5. u + 1 \in Nat
    OBVIOUS
  <2>. QED
    BY <2>4, <2>5, Zenon
<1>4. \A k, x \in Nat : step[k][x] = x * Base + digit(k)
  OBVIOUS
<1>. HIDE DEF step
<1>5. PICK f : Unrolls(f, Nat, u + 1, step)
  BY <1>3, Recursion
<1>6. f \in [Nat -> Nat] /\ f[0] = u + 1 /\ \A n \in Nat : f[n + 1] = step[n][f[n]]
  BY <1>5 DEF Unrolls
<1>7. \A n \in Nat : f[n + 1] = f[n] * Base + digit(n)
  BY <1>4, <1>6
<1>. DEFINE g == [n \in 0 .. Len(s) |-> f[n]]
<1>8. ASSUME NEW n \in 0 .. Len(s)
      PROVE  g[n] = IF n = 0 THEN u + 1 ELSE g[n - 1] * Base + s[n]
  <2>1. CASE n = 0
    BY <1>6, <2>1
  <2>2. CASE n # 0
    <3>1. n - 1 \in Nat /\ n - 1 \in 0 .. Len(s) /\ (n - 1) + 1 = n /\ n - 1 < Len(s)
      BY <2>2
    <3>2. digit(n - 1) = s[n]
      BY <1>1, <3>1
    <3>3. f[n] = f[n - 1] * Base + digit(n - 1)
      BY <1>7, <3>1
    <3>. QED
      BY <2>2, <3>1, <3>2, <3>3
  <2>. QED
    BY <2>1, <2>2
<1>9. Is(g)
  BY <1>8
<1>10. Is(value0)
  BY <1>9
<1>11. AbsoluteIntFromFramed(s, u) = value0[Len(s)]
  BY DEF AbsoluteIntFromFramed
<1>. HIDE DEF value0
<1>12. value0[0] = u + 1
  BY <1>10
<1>13. \A n \in 0 .. Len(s) - 1 : value0[n + 1] = value0[n] * Base + s[n + 1]
  <2>. TAKE n \in 0 .. Len(s) - 1
  <2>1. n + 1 \in 0 .. Len(s) /\ n + 1 # 0 /\ (n + 1) - 1 = n
    OBVIOUS
  <2>. QED
    BY <1>10, <2>1
<1>14. \A n \in 0 .. Len(s) : value0[n] \in Nat
  <2>. DEFINE T == {n \in Nat : n <= Len(s) => value0[n] \in Nat}
  <2>1. 0 \in T /\ T \subseteq Nat
    BY <1>12
  <2>2. ASSUME NEW n \in T PROVE n + 1 \in T
    <3>. SUFFICES ASSUME n + 1 <= Len(s) PROVE value0[n + 1] \in Nat
      OBVIOUS
    <3>1. n \in 0 .. Len(s) - 1 /\ value0[n] \in Nat /\ s[n + 1] \in Nat
      BY OctetFacts
    <3>2. value0[n + 1] = value0[n] * Base + s[n + 1]
      BY <1>13, <3>1
    <3>3. \A x, y, z \in Nat : x * y + z \in Nat
      OBVIOUS
    <3>. QED
      BY <3>1, <3>2, <3>3, OctetFacts
  <2>. HIDE DEF T
  <2>3. \A n \in Nat : n \in T
    BY <2>1, <2>2, SetInduction
  <2>. QED
    BY <2>3 DEF T
<1>15. value0 \in [0 .. Len(s) -> Nat]
  <2>1. value0 = [n \in 0 .. Len(s) |-> value0[n]]
    BY <1>10
  <2>. QED
    BY <1>14, <2>1
<1>. QED
  BY <1>11, <1>12, <1>13, <1>15 DEF IsValue

\* The value of n + 1 octets is below the n + 1-th power of the base.
LEMMA ValueBounds ==
  ASSUME NEW s \in Seq(Octet), NEW u \in Nat, NEW v, IsValue(s, u, v)
  PROVE  \A n \in 0 .. Len(s) : /\ v[n] + 1 <= (u + 2) * Power(Base, n)
                                /\ (u + 1) * Power(Base, n) <= v[n]
<1>. DEFINE T == {n \in Nat : n <= Len(s) => /\ v[n] + 1 <= (u + 2) * Power(Base, n)
                                             /\ (u + 1) * Power(Base, n) <= v[n]}
<1>1. 0 \in T /\ T \subseteq Nat
  <2>1. Power(Base, 0) = 1
    BY PowerRecursion, OctetFacts
  <2>2. v[0] = u + 1
    BY DEF IsValue
  <2>3. v[0] + 1 <= (u + 2) * Power(Base, 0) /\ (u + 1) * Power(Base, 0) <= v[0]
    BY <2>1, <2>2
  <2>. QED
    BY <2>3
<1>2. ASSUME NEW n \in T PROVE n + 1 \in T
  <2>. SUFFICES ASSUME n + 1 <= Len(s)
                PROVE  /\ v[n + 1] + 1 <= (u + 2) * Power(Base, n + 1)
                       /\ (u + 1) * Power(Base, n + 1) <= v[n + 1]
    OBVIOUS
  <2>. DEFINE p == Power(Base, n)
              q == Power(Base, n + 1)
              d == s[n + 1]
  <2>1. n \in 0 .. Len(s) - 1 /\ n \in 0 .. Len(s) /\ d \in Octet
    OBVIOUS
  <2>2. v[n] \in Nat /\ v[n + 1] = v[n] * Base + d
    BY <2>1 DEF IsValue
  <2>3. p \in Nat /\ q = Base * p /\ Base \in Nat
    BY PowerRecursion, OctetFacts
  <2>4. v[n] + 1 <= (u + 2) * p /\ (u + 1) * p <= v[n]
    OBVIOUS
  <2>5. d \in Nat /\ d + 1 <= Base
    BY <2>1, OctetFacts
  <2>. HIDE DEF p, q, d
  <2>6. \A a, b, c \in Nat : a <= c => a * b <= c * b
    OBVIOUS
  <2>7. /\ (v[n] + 1) * Base <= ((u + 2) * p) * Base
        /\ ((u + 1) * p) * Base <= v[n] * Base
    <3>1. v[n] + 1 \in Nat /\ (u + 2) * p \in Nat /\ (u + 1) * p \in Nat
      BY <2>2, <2>3
    <3>. QED
      BY <2>2, <2>3, <2>4, <2>6, <3>1
  <2>8. /\ ((u + 2) * p) * Base = (u + 2) * q /\ ((u + 1) * p) * Base = (u + 1) * q
        /\ (v[n] + 1) * Base = v[n] * Base + Base
    BY <2>2, <2>3
  <2>9. /\ (u + 2) * q \in Nat /\ (u + 1) * q \in Nat /\ v[n] * Base \in Nat
    BY <2>2, <2>3
  <2>10. \A x, y, z, b, e \in Nat : x + b <= y /\ z <= x /\ e + 1 <= b =>
            (x + e) + 1 <= y /\ z <= x + e
    OBVIOUS
  <2>11. v[n] * Base + d + 1 <= (u + 2) * q /\ (u + 1) * q <= v[n] * Base + d
    BY <2>3, <2>5, <2>7, <2>8, <2>9, <2>10
  <2>. QED
    BY <2>2, <2>11 DEF q
<1>. HIDE DEF T
<1>3. \A n \in Nat : n \in T
  BY <1>1, <1>2, SetInduction
<1>. QED
  BY <1>3 DEF T

LEMMA CborIntIsInt == CborInt \subseteq Int /\ U64 \subseteq Nat
BY U64MaxAssumption DEF CborInt, U64

\* What fits the integer form is a u64.
LEMMA AbsoluteInU64 ==
  ASSUME NEW s \in Seq(Octet), NEW u \in Nat, FitsIntForm(s, u)
  PROVE  AbsoluteIntFromFramed(s, u) \in U64
<1>1. PICK v : IsValue(s, u, v) /\ AbsoluteIntFromFramed(s, u) = v[Len(s)]
  BY ValueExists
<1>. DEFINE n == Len(s)
            p == Power(Base, n)
            q == Power(Base, n + 1)
            r == Power(Base, MaxIntFormBytes)
<1>2. n \in Nat /\ n \in 0 .. Len(s) /\ n + 1 \in Nat
  OBVIOUS
<1>3. v[n] \in Nat /\ v[n] + 1 <= (u + 2) * p
  BY <1>1, <1>2, ValueBounds DEF IsValue
<1>4. n + 1 <= MaxIntFormBytes /\ MaxIntFormBytes \in Nat /\ u + 2 <= Base
  BY WidthAssumption, OctetFacts DEF FitsIntForm
<1>5. p \in Nat /\ q \in Nat /\ r \in Nat /\ q = Base * p /\ Base \in Nat \ {0}
  BY <1>2, <1>4, PowerRecursion, OctetFacts
<1>6. q <= r
  BY <1>2, <1>4, <1>5, PowerMonotone
<1>7. U64Max = r - 1
  BY U64Assumption
<1>8. AbsoluteIntFromFramed(s, u) = v[n]
  BY <1>1
<1>. HIDE DEF n, p, q, r
<1>9. \A a, b, c \in Nat : a <= c => a * b <= c * b
  OBVIOUS
<1>10. (u + 2) * p <= Base * p
  BY <1>4, <1>5, <1>9
<1>11. (u + 2) * p \in Nat
  BY <1>5
<1>. QED
  BY <1>3, <1>5, <1>6, <1>7, <1>8, <1>10, <1>11 DEF U64

\* The octets read from a number: at least one, without leading zeros.
LEMMA FramedFacts ==
  ASSUME NEW n \in Nat
  PROVE  /\ Framed(n) \in Seq(Octet) /\ Framed(n) # <<>>
         /\ Head(Framed(n)) \in Octet /\ Tail(Framed(n)) \in Seq(Octet)
<1>. DEFINE b == ToBeBytes(n)
            S == {Len(b)} \cup {i \in DOMAIN b : b[i] # 0}
            k == Min(S)
<1>1. U128Bytes \in Nat \ {0}
  BY WidthAssumption DEF U128Bytes
<1>2. ASSUME NEW i \in 1 .. U128Bytes
      PROVE  (n \div Power(Base, U128Bytes - i)) % Base \in Octet
  <2>1. U128Bytes - i \in Nat
    BY <1>1
  <2>2. Power(Base, U128Bytes - i) \in Nat \ {0} /\ Base \in Nat \ {0}
    BY <2>1, PowerPositive, OctetFacts
  <2>3. \A x \in Nat : \A m \in Nat \ {0} : x \div m \in Nat
    OBVIOUS
  <2>4. \A x \in Nat : \A m \in Nat \ {0} : x % m \in 0 .. m - 1
    OBVIOUS
  <2>. QED
    BY <2>2, <2>3, <2>4, OctetFacts
<1>3. b \in [1 .. U128Bytes -> Octet]
  BY <1>2 DEF ToBeBytes
<1>4. b \in Seq(Octet) /\ Len(b) = U128Bytes
  BY <1>1, <1>3, SeqOfFunction
<1>5. S \in SUBSET Nat /\ S # {} /\ S \subseteq 1 .. U128Bytes
  BY <1>1, <1>3, <1>4
<1>6. k \in 1 .. U128Bytes
  <2>. HIDE DEF S
  <2>. QED
    BY <1>5, MinFacts
<1>7. Framed(n) = SubSeq(b, k, Len(b))
  BY DEF Framed, WithoutLeadingZeros
<1>. HIDE DEF b, k
<1>8. Framed(n) \in Seq(Octet) /\ Len(Framed(n)) = Len(b) - k + 1
  BY <1>1, <1>4, <1>6, <1>7
<1>9. Len(Framed(n)) \in Nat \ {0}
  BY <1>1, <1>4, <1>6, <1>8
<1>10. \A t \in Seq(Octet) : Len(t) # 0 =>
          t # <<>> /\ Head(t) \in Octet /\ Tail(t) \in Seq(Octet)
  OBVIOUS
<1>. QED
  BY <1>8, <1>9, <1>10

-----------------------------------------------------------------------------
(* Reading the digits of a number back.                                    *)

LEMMA DivisionUnique ==
  ASSUME NEW m \in Nat \ {0}, NEW q \in Nat, NEW r \in 0 .. m - 1, NEW x, x = m * q + r
  PROVE  x \div m = q /\ x % m = r
<1>. DEFINE d == x \div m
            e == x % m
<1>1. x \in Nat
  <2>1. m * q \in Nat
    OBVIOUS
  <2>. QED
    BY <2>1
<1>2. \A y \in Nat : \A n \in Nat \ {0} : y \div n \in Nat /\ y % n \in 0 .. n - 1
  OBVIOUS
<1>3. \A y \in Nat : \A n \in Nat \ {0} : y = n * (y \div n) + (y % n)
  OBVIOUS
<1>4. d \in Nat /\ e \in 0 .. m - 1 /\ m * d + e = m * q + r
  BY <1>1, <1>2, <1>3
<1>. HIDE DEF d, e
<1>5. \A a, b \in Nat : a >= b + 1 => m * a >= m * b + m
  OBVIOUS
<1>6. m * d \in Nat /\ m * q \in Nat
  BY <1>4
<1>7. ~(d >= q + 1)
  BY <1>4, <1>5, <1>6
<1>8. ~(q >= d + 1)
  BY <1>4, <1>5, <1>6
<1>9. d = q
  BY <1>4, <1>7, <1>8
<1>10. e = r
  BY <1>4, <1>6, <1>9
<1>. QED
  BY <1>9, <1>10 DEF d, e

LEMMA DivisionSmall ==
  ASSUME NEW m \in Nat \ {0}, NEW x \in 0 .. m - 1
  PROVE  x \div m = 0 /\ x % m = x
<1>1. x = m * 0 + x /\ 0 \in Nat
  OBVIOUS
<1>. QED
  BY <1>1, DivisionUnique

LEMMA DivisionTwice ==
  ASSUME NEW x \in Nat, NEW m \in Nat \ {0}, NEW b \in Nat \ {0}
  PROVE  x \div (b * m) = (x \div m) \div b
<1>. DEFINE q == x \div m
            r == x % m
            p == q \div b
            t == q % b
<1>2. \A y \in Nat : \A n \in Nat \ {0} : y \div n \in Nat /\ y % n \in 0 .. n - 1
  OBVIOUS
<1>3. \A y \in Nat : \A n \in Nat \ {0} : y = n * (y \div n) + (y % n)
  OBVIOUS
<1>4. q \in Nat /\ r \in 0 .. m - 1 /\ x = m * q + r
  BY <1>2, <1>3
<1>. HIDE DEF q, r
<1>5. p \in Nat /\ t \in 0 .. b - 1 /\ q = b * p + t
  BY <1>2, <1>3, <1>4
<1>. HIDE DEF p, t
<1>6. x = (b * m) * p + (m * t + r)
  BY <1>4, <1>5
<1>7. b * m \in Nat \ {0}
  OBVIOUS
<1>8. m * t + r \in 0 .. (b * m) - 1
  <2>1. \A y, z \in Nat : y + 1 <= z => m * y + m <= z * m
    OBVIOUS
  <2>2. m * t + m <= b * m /\ m * t \in Nat
    BY <1>5, <2>1
  <2>. QED
    BY <1>4, <1>7, <2>2
<1>9. x \div (b * m) = p
  BY <1>5, <1>6, <1>7, <1>8, DivisionUnique
<1>. QED
  BY <1>9 DEF p, q

\* Dividing the value of s by a power of the base drops octets at its end.
LEMMA ValueShifted ==
  ASSUME NEW s \in Seq(Octet), NEW u \in Nat, NEW v, IsValue(s, u, v)
  PROVE  \A k \in 0 .. Len(s) : v[Len(s)] \div Power(Base, k) = v[Len(s) - k]
<1>. DEFINE n == Len(s)
            T == {k \in Nat : k <= n => v[n] \div Power(Base, k) = v[n - k]}
<1>1. /\ n \in Nat /\ n = Len(s)
      /\ \A i \in 0 .. n - 1 : v[i + 1] = v[i] * Base + s[i + 1]
  BY DEF IsValue
<1>2. v \in [0 .. n -> Nat]
  BY DEF IsValue
<1>. HIDE DEF n
<1>3. \A i \in 0 .. n : v[i] \in Nat
  BY <1>2, <1>1
<1>4. 0 \in T /\ T \subseteq Nat
  <2>1. Power(Base, 0) = 1 /\ v[n] \in Nat
    <3>1. n \in 0 .. n
      BY <1>1
    <3>. QED
      BY <3>1, <1>3, PowerRecursion, OctetFacts
  <2>2. v[n] \div 1 = v[n] /\ v[n - 0] = v[n]
    BY <1>1, <2>1
  <2>. QED
    BY <2>1, <2>2
<1>5. ASSUME NEW k \in T PROVE k + 1 \in T
  <2>. SUFFICES ASSUME k + 1 <= n PROVE v[n] \div Power(Base, k + 1) = v[n - (k + 1)]
    OBVIOUS
  <2>. DEFINE i == n - (k + 1)
  <2>1. k \in Nat /\ i \in 0 .. n - 1 /\ i + 1 = n - k /\ i + 1 \in 1 .. n
    BY <1>1
  <2>2. v[n] \in Nat /\ v[i] \in Nat
    <3>1. n \in 0 .. n /\ i \in 0 .. n
      BY <1>1, <2>1
    <3>. QED
      BY <1>3, <3>1
  <2>3. Power(Base, k) \in Nat \ {0} /\ Power(Base, k + 1) = Base * Power(Base, k)
    BY <2>1, OctetFacts, PowerRecursion, PowerPositive
  <2>4. v[n] \div Power(Base, k) = v[i + 1]
    BY <1>1, <2>1
  <2>5. v[i + 1] = v[i] * Base + s[i + 1] /\ s[i + 1] \in 0 .. Base - 1
    <3>1. v[i + 1] = v[i] * Base + s[i + 1]
      BY <1>1, <2>1
    <3>2. s[i + 1] \in Octet
      BY <1>1, <2>1
    <3>. QED
      BY <3>1, <3>2, OctetFacts
  <2>6. v[i + 1] = Base * v[i] + s[i + 1]
    BY <2>2, <2>5, OctetFacts
  <2>7. v[i + 1] \div Base = v[i]
    <3>. DEFINE x == v[i + 1]
                q == v[i]
                r == s[i + 1]
    <3>1. x = Base * q + r /\ q \in Nat /\ r \in 0 .. Base - 1 /\ Base \in Nat \ {0}
      BY <2>2, <2>5, <2>6, OctetFacts
    <3>. HIDE DEF x, q, r
    <3>2. x \div Base = q
      BY <3>1, DivisionUnique
    <3>. QED
      BY <3>2 DEF x, q
  <2>. HIDE DEF i
  <2>8. v[n] \div (Base * Power(Base, k)) = (v[n] \div Power(Base, k)) \div Base
    BY <2>2, <2>3, OctetFacts, DivisionTwice
  <2>. QED
    BY <2>3, <2>4, <2>7, <2>8 DEF i
<1>. HIDE DEF T
<1>6. \A k \in Nat : k \in T
  BY <1>4, <1>5, SetInduction
<1>. QED
  BY <1>1, <1>6 DEF T

\* The digits of the value of s: zeros, then unused + 1, then s.
LEMMA ValueDigits ==
  ASSUME NEW s \in Seq(Octet), NEW u \in Nat, FitsIntForm(s, u),
         NEW k \in Nat
  PROVE  LET digit == (AbsoluteIntFromFramed(s, u) \div Power(Base, k)) % Base
         IN  /\ k < Len(s) => digit = s[Len(s) - k]
             /\ k = Len(s) => digit = u + 1
             /\ k > Len(s) => digit = 0
<1>. DEFINE n == Len(s)
            abs == AbsoluteIntFromFramed(s, u)
            p == Power(Base, k)
<1>1. PICK v : IsValue(s, u, v) /\ abs = v[n]
  BY ValueExists
<1>2. n \in Nat /\ n = Len(s) /\ n \in 0 .. n /\ v[0] = u + 1
      /\ \A i \in 0 .. n - 1 : v[i + 1] = v[i] * Base + s[i + 1]
  BY <1>1 DEF IsValue
<1>3. \A i \in 0 .. n : v[i] \in Nat
  BY <1>1 DEF IsValue
<1>4. \A i \in 0 .. n : abs \div Power(Base, i) = v[n - i]
  BY <1>1, ValueShifted
<1>5. abs \in Nat /\ abs + 1 <= (u + 2) * Power(Base, n)
  BY <1>1, <1>2, <1>3, ValueBounds
<1>6. u + 1 \in 0 .. Base - 1 /\ u + 2 <= Base
  BY OctetFacts DEF FitsIntForm
<1>7. Base \in Nat \ {0, 1} /\ p \in Nat \ {0}
  BY OctetFacts, PowerPositive
<1>. HIDE DEF n, abs, p
<1>8. CASE k < n
  <2>. DEFINE i == n - k - 1
  <2>1. i \in 0 .. n - 1 /\ i \in 0 .. n /\ i + 1 = n - k /\ k \in 0 .. n /\ i + 1 \in 1 .. n
    BY <1>2, <1>8
  <2>2. abs \div p = v[i + 1]
    BY <1>4, <2>1 DEF p
  <2>3. v[i + 1] = v[i] * Base + s[i + 1] /\ v[i] \in Nat
    BY <1>2, <1>3, <2>1
  <2>4. s[i + 1] \in 0 .. Base - 1
    <3>1. s[i + 1] \in Octet
      BY <1>2, <2>1
    <3>. QED
      BY <3>1, OctetFacts
  <2>. DEFINE x == v[i + 1]
              q == v[i]
              r == s[i + 1]
  <2>5. x = Base * q + r /\ q \in Nat /\ r \in 0 .. Base - 1 /\ Base \in Nat \ {0}
    BY <1>7, <2>3, <2>4
  <2>6. r = s[n - k]
    BY <2>1
  <2>. HIDE DEF x, q, r
  <2>7. x % Base = r
    BY <2>5, DivisionUnique
  <2>8. (abs \div p) % Base = s[n - k]
    BY <2>2, <2>6, <2>7 DEF x
  <2>. QED
    BY <1>2, <1>8, <2>8 DEF n, abs, p
<1>9. CASE k = n
  <2>1. abs \div p = v[0]
    BY <1>2, <1>4, <1>9 DEF p
  <2>2. u + 1 = Base * 0 + (u + 1) /\ Base \in Nat \ {0}
    BY <1>7
  <2>. DEFINE x == u + 1
  <2>3. x = Base * 0 + x /\ x \in 0 .. Base - 1
    BY <1>6, <2>2
  <2>. HIDE DEF x
  <2>4. x % Base = x
    BY <1>7, <2>3, DivisionUnique
  <2>5. (abs \div p) % Base = u + 1
    BY <1>2, <2>1, <2>4 DEF x
  <2>. QED
    BY <1>2, <1>9, <2>5 DEF n, abs, p
<1>10. CASE k > n
  <2>. DEFINE q == Power(Base, n)
              r == Power(Base, n + 1)
  <2>1. n + 1 \in Nat /\ n + 1 <= k
    BY <1>2, <1>10
  <2>2. q \in Nat /\ r \in Nat /\ r = Base * q
    BY <1>2, <1>7, PowerRecursion, <2>1
  <2>3. r <= p
    BY <1>7, <2>1, PowerMonotone DEF p
  <2>4. abs + 1 <= (u + 2) * q
    BY <1>5
  <2>. HIDE DEF q, r
  <2>5. \A a, b, c \in Nat : a <= c => a * b <= c * b
    OBVIOUS
  <2>6. (u + 2) * q <= Base * q /\ (u + 2) * q \in Nat
    BY <1>6, <1>7, <2>2, <2>5
  <2>7. abs \in 0 .. p - 1
    BY <1>5, <1>7, <2>2, <2>3, <2>4, <2>6
  <2>8. abs = p * 0 + abs
    BY <1>5, <1>7
  <2>9. abs \div p = 0
    BY <1>7, <2>7, <2>8, DivisionUnique
  <2>10. 0 % Base = 0
    <3>1. 0 = Base * 0 + 0 /\ 0 \in 0 .. Base - 1
      BY <1>7
    <3>. QED
      BY <1>7, <3>1, DivisionUnique
  <2>11. (abs \div p) % Base = 0
    BY <2>9, <2>10
  <2>. QED
    BY <1>2, <1>10, <2>11 DEF n, abs, p
<1>. QED
  BY <1>2, <1>8, <1>9, <1>10 DEF n

\* framed_from_absolute_int reads what absolute_int_from_framed wrote.
LEMMA FramedInverse ==
  ASSUME NEW s \in Seq(Octet), NEW u \in Nat, FitsIntForm(s, u)
  PROVE  /\ IsFramed(AbsoluteIntFromFramed(s, u))
         /\ FramedFromAbsoluteInt(AbsoluteIntFromFramed(s, u))
               = [significant |-> s, unused |-> u]
<1>. DEFINE n == Len(s)
            abs == AbsoluteIntFromFramed(s, u)
            b == ToBeBytes(abs)
            w == U128Bytes
            S == {Len(b)} \cup {i \in DOMAIN b : b[i] # 0}
<1>1. n \in Nat /\ w \in Nat /\ n + 1 <= w /\ u + 1 \in Octet
  BY WidthAssumption DEF FitsIntForm, U128Bytes
<1>2. abs \in U64 /\ abs \in Nat
  BY AbsoluteInU64, CborIntIsInt
<1>3. ASSUME NEW i \in 1 .. w
      PROVE  /\ b[i] = (abs \div Power(Base, w - i)) % Base
             /\ i < w - n => b[i] = 0
             /\ i = w - n => b[i] = u + 1
             /\ i > w - n => b[i] = s[i - (w - n)]
  <2>1. b[i] = (abs \div Power(Base, w - i)) % Base
    BY DEF ToBeBytes
  <2>2. w - i \in Nat /\ n - (w - i) = i - (w - n)
    BY <1>1
  <2>3. /\ w - i < n => b[i] = s[n - (w - i)]
        /\ w - i = n => b[i] = u + 1
        /\ w - i > n => b[i] = 0
    BY <2>1, <2>2, ValueDigits
  <2>. HIDE DEF n, w, b
  <2>. QED
    BY <1>1, <2>1, <2>2, <2>3
<1>4. DOMAIN b = 1 .. w
  BY DEF ToBeBytes
<1>. HIDE DEF n, abs, w, b
<1>5. ASSUME NEW i \in 1 .. w PROVE b[i] \in Octet
  <2>1. CASE i < w - n
    BY <1>3, <2>1, OctetFacts
  <2>2. CASE i = w - n
    BY <1>1, <1>3, <2>2
  <2>3. CASE i > w - n
    <3>1. i - (w - n) \in 1 .. Len(s)
      BY <1>1, <2>3 DEF n
    <3>. QED
      BY <1>3, <2>3, <3>1
  <2>. QED
    BY <1>1, <2>1, <2>2, <2>3
<1>6. b \in [1 .. w -> Octet]
  <2>1. b = [i \in 1 .. w |-> b[i]]
    BY <1>4 DEF b, ToBeBytes, w
  <2>. QED
    BY <1>5, <2>1
<1>7. b \in Seq(Octet) /\ Len(b) = w
  BY <1>1, <1>6, SeqOfFunction
<1>8. w - n \in 1 .. w /\ b[w - n] # 0
  <2>1. w - n \in 1 .. w
    BY <1>1
  <2>2. u + 1 # 0
    OBVIOUS
  <2>. QED
    BY <1>3, <2>1, <2>2
<1>9. S \in SUBSET Nat /\ S # {} /\ w - n \in S
  BY <1>1, <1>4, <1>7, <1>8
<1>10. \A i \in S : w - n <= i
  <2>. TAKE i \in S
  <2>1. CASE i = w
    BY <1>1, <2>1
  <2>2. CASE i # w
    <3>1. i \in 1 .. w /\ b[i] # 0
      BY <1>4, <1>7, <2>2
    <3>2. ~(i < w - n)
      BY <1>3, <3>1
    <3>. QED
      BY <1>1, <3>1, <3>2
  <2>. QED
    BY <2>1, <2>2
<1>11. Min(S) = w - n
  <2>. HIDE DEF S
  <2>1. Min(S) \in S /\ \A y \in S : Min(S) <= y
    BY <1>9, MinFacts
  <2>. DEFINE m == Min(S)
  <2>2. m \in Nat /\ m <= w - n /\ w - n <= m
    BY <1>9, <1>10, <2>1
  <2>. HIDE DEF m
  <2>3. m = w - n
    BY <1>1, <2>2
  <2>. QED
    BY <2>3 DEF m
<1>12. Framed(abs) = SubSeq(b, w - n, w)
  BY <1>7, <1>11 DEF Framed, WithoutLeadingZeros, b
<1>. DEFINE f == SubSeq(b, w - n, w)
<1>13. /\ f \in Seq(Octet) /\ Len(f) = n + 1
       /\ \A j \in 1 .. n + 1 : f[j] = b[w - n + j - 1]
  BY <1>1, <1>7, <1>8
<1>. HIDE DEF f
<1>14. Head(f) = u + 1
  <2>1. f[1] = b[w - n]
    <3>1. 1 \in 1 .. n + 1 /\ w - n + 1 - 1 = w - n
      BY <1>1
    <3>. QED
      BY <1>13, <3>1
  <2>2. Head(f) = f[1]
    BY <1>1, <1>13
  <2>. QED
    BY <1>3, <1>8, <2>1, <2>2
<1>15. Tail(f) = s
  <2>1. Tail(f) \in Seq(Octet) /\ Len(Tail(f)) = n /\ \A j \in 1 .. n : Tail(f)[j] = f[j + 1]
    BY <1>1, <1>13
  <2>2. ASSUME NEW j \in 1 .. n PROVE Tail(f)[j] = s[j]
    <3>1. j + 1 \in 1 .. n + 1 /\ w - n + (j + 1) - 1 = w - n + j
          /\ w - n + j \in 1 .. w /\ w - n + j > w - n /\ (w - n + j) - (w - n) = j
      BY <1>1
    <3>2. f[j + 1] = b[w - n + j]
      BY <1>13, <3>1
    <3>3. b[w - n + j] = s[j]
      BY <1>3, <3>1
    <3>. QED
      BY <2>1, <3>2, <3>3
  <2>3. \A x, y \in Seq(Octet) :
           Len(x) = Len(y) /\ (\A j \in 1 .. Len(y) : x[j] = y[j]) => x = y
    OBVIOUS
  <2>. QED
    BY <2>1, <2>2, <2>3 DEF n
<1>16. Framed(abs) = f
  BY <1>12 DEF f
<1>17. (u + 1) - 1 = u /\ u + 1 >= 1 /\ abs >= 0
  BY <1>2
<1>18. IsFramed(abs)
  BY <1>14, <1>16, <1>17 DEF IsFramed
<1>19. FramedFromAbsoluteInt(abs) = [significant |-> s, unused |-> u]
  BY <1>14, <1>15, <1>16, <1>17 DEF FramedFromAbsoluteInt
<1>. QED
  BY <1>18, <1>19 DEF abs

-----------------------------------------------------------------------------
(* The shapes of values and of items.                                      *)

LEMMA EntryShapes ==
  ASSUME NEW afi \in DOMAIN Width, NEW e \in AddrEntry(afi)
  PROVE  /\ Width[afi] \in Nat
         /\ e.kind \in {"prefix", "range"}
         /\ e.kind = "prefix" =>
              /\ e = AddrPrefix(e.net)
              /\ e.net = [addr |-> e.net.addr, prefixLen |-> e.net.prefixLen]
              /\ e.net.addr \in [1 .. Width[afi] -> Octet]
              /\ e.net.prefixLen \in 0 .. Width[afi] * Bits
         /\ e.kind = "range" =>
              /\ e = AddrRange(e.min, e.max)
              /\ e.min \in [1 .. Width[afi] -> Octet]
              /\ e.max \in [1 .. Width[afi] -> Octet]
<1>1. Width[afi] \in Nat
  BY WidthAssumption
<1>2. CASE e \in [kind : {"prefix"}, net : Net(afi)]
  BY <1>1, <1>2 DEF AddrPrefix, Address, Net
<1>3. CASE e \in [kind : {"range"}, min : Address(afi), max : Address(afi)]
  BY <1>1, <1>3 DEF AddrRange, Address
<1>. QED
  BY <1>2, <1>3 DEF AddrEntry

LEMMA PrefixTyped ==
  ASSUME NEW afi \in DOMAIN Width, NEW addr \in [1 .. Width[afi] -> Octet],
         NEW n \in 0 .. Width[afi] * Bits
  PROVE  AddrPrefix([addr |-> addr, prefixLen |-> n]) \in AddrEntry(afi)
BY DEF AddrPrefix, AddrEntry, Address, Net

LEMMA RangeTyped ==
  ASSUME NEW afi \in DOMAIN Width, NEW min \in [1 .. Width[afi] -> Octet],
         NEW max \in [1 .. Width[afi] -> Octet]
  PROVE  AddrRange(min, max) \in AddrEntry(afi)
BY DEF AddrRange, AddrEntry, Address

\* An entry of some family is an entry.
LEMMA FamilyEntry ==
  ASSUME NEW afi \in DOMAIN Width
  PROVE  AddrEntry(afi) \subseteq AnyEntry
<1>1. Address(afi) \subseteq AnyAddress
  BY DEF AnyAddress
<1>2. Net(afi) \subseteq UNION {Net(a) : a \in DOMAIN Width}
  OBVIOUS
<1>3. [kind : {"prefix"}, net : Net(afi)]
        \subseteq [kind : {"prefix"}, net : UNION {Net(a) : a \in DOMAIN Width}]
  BY <1>2
<1>4. [kind : {"range"}, min : Address(afi), max : Address(afi)]
        \subseteq [kind : {"range"}, min : AnyAddress, max : AnyAddress]
  BY <1>1
<1>. QED
  BY <1>3, <1>4 DEF AddrEntry, AnyEntry

LEMMA FamilyShapes ==
  ASSUME NEW f \in IpFamily
  PROVE  /\ f.afi \in 0 .. U16Max /\ f.safi \in Safi
         /\ f = [afi |-> f.afi, safi |-> f.safi, choice |-> f.choice]
         /\ f.choice.kind \in {"inherit", "prefixes"}
         /\ f.choice.kind = "inherit" => f.choice = Inherit
         /\ f.choice.kind = "prefixes" => /\ f.choice.entries \in Seq(AnyEntry)
                                          /\ f.choice = EntryList(f.choice.entries)
BY DEF IpFamily, Inherit, EntryList

LEMMA ValueShapes ==
  ASSUME NEW v \in Value
  PROVE  /\ v.kind = "blocks" /\ v.families \in Seq(IpFamily) /\ v = Blocks(v.families)
         /\ v # NoValue
BY DEF Value, Blocks, NoValue

\* The framed octets of an entry, and when it fits the integer form.
LEMMA SignificantFacts ==
  ASSUME NEW e \in AnyEntry
  PROVE  /\ e.kind \in {"prefix", "range"}
         /\ e.kind = "prefix" =>
              /\ PrefixToFramed(e.net).significant \in Seq(Octet)
              /\ PrefixToFramed(e.net).unused \in Nat
              /\ PrefixToFramed(e.net).unused + 1 \in Octet
         /\ e.kind = "range" =>
              /\ AddrToFramedTrimmed(e.min, 0) \in Seq(Octet)
              /\ AddrToFramedTrimmed(e.max, Fill) \in Seq(Octet)
<1>1. e.kind \in {"prefix", "range"}
  BY DEF AnyEntry
<1>2. \A afi \in DOMAIN Width : Width[afi] \in Nat
  BY WidthAssumption
<1>3. CASE e.kind = "prefix"
  <2>1. PICK afi \in DOMAIN Width : e.net \in Net(afi)
    BY <1>3 DEF AnyEntry
  <2>2. /\ e.net = [addr |-> e.net.addr, prefixLen |-> e.net.prefixLen]
        /\ e.net.addr \in [1 .. Width[afi] -> Octet]
        /\ e.net.prefixLen \in 0 .. Width[afi] * Bits
    BY <2>1 DEF Net, Address
  <2>. DEFINE framed == PrefixToFramed(e.net)
  <2>3. framed.significant \in Seq(Octet) /\ framed.unused \in 0 .. Bits - 1
    BY <1>2, <2>2, PrefixFramed
  <2>. HIDE DEF framed
  <2>4. framed.unused \in Nat /\ framed.unused + 1 \in Octet
    BY <2>3, BitsFitOctet, OctetAssumption DEF Octet
  <2>. QED
    BY <1>3, <2>3, <2>4 DEF framed
<1>4. CASE e.kind = "range"
  <2>1. PICK a \in DOMAIN Width, b \in DOMAIN Width : e.min \in Address(a) /\ e.max \in Address(b)
    BY <1>4 DEF AnyEntry, AnyAddress
  <2>2. e.min \in [1 .. Width[a] -> Octet] /\ e.max \in [1 .. Width[b] -> Octet]
    BY <2>1 DEF Address
  <2>. QED
    BY <1>2, <1>4, <2>2, AddrFramed
<1>. QED
  BY <1>1, <1>3, <1>4

LEMMA FitsWhenUsed ==
  ASSUME NEW entries \in Seq(AnyEntry), UsesIntForm(entries), NEW i \in 1 .. Len(entries)
  PROVE  /\ entries[i].kind = "prefix" =>
              FitsIntForm(PrefixToFramed(entries[i].net).significant,
                          PrefixToFramed(entries[i].net).unused)
         /\ entries[i].kind = "range" =>
              /\ FitsIntForm(AddrToFramedTrimmed(entries[i].min, 0), 0)
              /\ FitsIntForm(AddrToFramedTrimmed(entries[i].max, Fill), 0)
<1>. DEFINE e == entries[i]
<1>1. e \in AnyEntry /\ i \in DOMAIN entries
  OBVIOUS
<1>2. \A s \in Significant(e) : Len(s) < MaxIntFormBytes
  BY <1>1 DEF UsesIntForm
<1>. HIDE DEF e
<1>3. \A s \in Seq(Octet) : Len(s) < MaxIntFormBytes => Len(s) + 1 <= MaxIntFormBytes
  BY WidthAssumption
<1>4. 0 + 1 \in Octet
  BY OctetAssumption DEF Octet
<1>5. CASE e.kind = "prefix"
  <2>1. PrefixToFramed(e.net).significant \in Significant(e)
    BY <1>5 DEF Significant
  <2>. QED
    BY <1>1, <1>2, <1>3, <1>5, <2>1, SignificantFacts DEF FitsIntForm, e
<1>6. CASE e.kind = "range"
  <2>1. /\ AddrToFramedTrimmed(e.min, 0) \in Significant(e)
        /\ AddrToFramedTrimmed(e.max, Fill) \in Significant(e)
    BY <1>6 DEF Significant
  <2>. QED
    BY <1>1, <1>2, <1>3, <1>4, <1>6, <2>1, SignificantFacts DEF FitsIntForm, e
<1>. QED
  BY <1>1, <1>5, <1>6, SignificantFacts DEF e

\* A delta between two u64 numbers is a CBOR integer, and reading it undoes
\* writing it: next_delta and next_absolute.
LEMMA DeltaChainFacts ==
  ASSUME NEW before \in U64, NEW start \in BOOLEAN, NEW abs \in U64
  PROVE  /\ NextDelta(before, start, abs) \in CborInt
         /\ NextAbsolute(before, start, NextDelta(before, start, abs)) = abs
BY U64MaxAssumption DEF NextDelta, NextAbsolute, U64, CborInt

\* A complete array of typed elements is a typed item.
LEMMA ArrayItemFacts ==
  ASSUME NEW S, NEW s \in Seq(S)
  PROVE  /\ ArrayItem(s) \in ArrayOf(S)
         /\ ArrayItem(s).type = "array" /\ ArrayItem(s).len = Len(s)
         /\ ArrayItem(s).items = s
<1>1. Len(s) \in Nat /\ Len(s) <= Len(s)
  OBVIOUS
<1>2. ArrayItem(s) \in [type : {"array"}, len : Nat, items : Seq(S)]
  BY <1>1 DEF ArrayItem
<1>3. /\ ArrayItem(s).items = s /\ ArrayItem(s).len = Len(s)
      /\ ArrayItem(s).type = "array"
  BY DEF ArrayItem
<1>4. Len(ArrayItem(s).items) <= ArrayItem(s).len
  BY <1>1, <1>3, Zenon
<1>. QED
  BY <1>2, <1>3, <1>4 DEF ArrayOf

LEMMA LeafFacts ==
  /\ \A n \in Int : IntItem(n) \in Leaf
  /\ \A b \in Seq(Octet) : BytesItem(b) \in Leaf
  /\ NullItem \in Leaf
  /\ Leaf \subseteq Nested1 /\ Nested1 \subseteq Nested2 /\ Leaf \subseteq Nested2
  /\ Leaf \subseteq Nested3
<1>1. Leaf \subseteq Nested1 /\ Leaf \subseteq Nested2 /\ Leaf \subseteq Nested3
  BY DEF Nested1, Nested2, Nested3
<1>2. ArrayOf(Leaf) \subseteq ArrayOf(Nested1)
  BY <1>1 DEF ArrayOf
<1>3. Nested1 \subseteq Nested2
  BY <1>1, <1>2 DEF Nested1, Nested2
<1>. QED
  BY <1>1, <1>3 DEF IntItem, BytesItem, NullItem, Leaf

\* A pair of leaves is an item of depth 1.
LEMMA PairTyped ==
  ASSUME NEW a \in Leaf, NEW b \in Leaf
  PROVE  ArrayItem(<<a, b>>) \in Nested1
<1>1. <<a, b>> \in Seq(Leaf)
  OBVIOUS
<1>. QED
  BY <1>1, ArrayItemFacts DEF Nested1

-----------------------------------------------------------------------------
(* The invariant.  The encoder is between two families, three items for    *)
(* each, or within the entries of one, whose form it chose by all of them; *)
(* the decoder is within the families and the entries the headers claim.   *)

EncoderInv ==
  /\ pc \in {"encode", "encodingBlocks", "encodingFamily"} => value \in Value
  /\ pc = "encodingBlocks" => \E j \in 0 .. Len(value.families) : Len(out) = 3 * j
  /\ pc = "encodingFamily" =>
       /\ \E j \in 0 .. Len(value.families) - 1 : Len(out) = 3 * j + 2
       /\ Family.choice.kind = "prefixes"
       /\ Len(inner) <= Len(Family.choice.entries)
       /\ intForm = UsesIntForm(Family.choice.entries)
       /\ intForm => previous \in U64

DecoderInv ==
  /\ pc \in {"decode", "decodingBlocks", "decodingFamily"} => wire \in Nested3
  /\ pc \in {"decodingBlocks", "decodingFamily"} =>
       wire.type = "array" /\ Len(out) <= wire.len \div 3
  /\ pc = "decodingFamily" =>
       /\ Len(out) < wire.len \div 3
       /\ ReadsHead /\ IsList(Part(3)) /\ Part(3).len > 0
       /\ inner # <<>> => Afi \in DOMAIN Width /\ inner \in Seq(AddrEntry(Afi))
       /\ Len(inner) <= Part(3).len

IInv == TypeOK /\ EncodeNeverFails /\ EncoderInv /\ DecoderInv

LEMMA InitInv == Init => IInv
<1>. SUFFICES ASSUME Init PROVE IInv
  OBVIOUS
<1>1. pc = "encode" => value \in Value
  BY CallersAssumption DEF Init
<1>2. pc = "decode" => wire \in Nested3
  BY ForeignAssumption DEF Init
<1>3. /\ pc \in {"encode", "decode"} /\ value \in Value \cup {NoValue}
      /\ wire \in Nested3 \cup {NoWire}
  BY CallersAssumption, ForeignAssumption DEF Init
<1>4. intForm \in BOOLEAN /\ first \in BOOLEAN
  BY DEF Init
<1>5. previous \in Int
  BY DEF Init
<1>. QED
  BY <1>1, <1>2, <1>3, <1>4, <1>5 DEF IInv, TypeOK, EncodeNeverFails, EncoderInv, DecoderInv

-----------------------------------------------------------------------------
(* The encoder.                                                            *)

\* Where the encoder is: the family it writes next, or writes.
LEMMA AtFamily ==
  ASSUME NEW v \in Value, NEW j \in 0 .. Len(v.families) - 1,
         NEW n, n \in {3 * j, 3 * j + 2}
  PROVE  /\ n \div 3 + 1 = j + 1 /\ j + 1 \in 1 .. Len(v.families)
         /\ v.families[n \div 3 + 1] \in IpFamily
<1>1. v.families \in Seq(IpFamily)
  BY ValueShapes
<1>2. \A k \in Nat : (3 * k) \div 3 = k /\ (3 * k + 2) \div 3 = k
  OBVIOUS
<1>3. j \in Nat /\ j + 1 \in 1 .. Len(v.families)
  BY <1>1
<1>4. n \div 3 = j
  BY <1>2, <1>3
<1>. QED
  BY <1>1, <1>3, <1>4

LEMMA WithinBlocks ==
  ASSUME IInv, pc = "encodingBlocks", Len(out) < 3 * Len(value.families)
  PROVE  /\ value \in Value /\ out \in Seq(Nested2) /\ Family \in IpFamily
         /\ \E j \in 0 .. Len(value.families) - 1 : Len(out) = 3 * j
<1>1. value \in Value /\ out \in Seq(Nested2) /\ value.families \in Seq(IpFamily)
  BY ValueShapes DEF IInv, TypeOK, EncoderInv
<1>2. PICK j \in 0 .. Len(value.families) : Len(out) = 3 * j
  BY DEF IInv, EncoderInv
<1>3. j \in 0 .. Len(value.families) - 1
  BY <1>1, <1>2
<1>4. Family \in IpFamily
  BY <1>1, <1>2, <1>3, AtFamily DEF Family
<1>. QED
  BY <1>1, <1>2, <1>3, <1>4

LEMMA WithinFamily ==
  ASSUME IInv, pc = "encodingFamily"
  PROVE  /\ value \in Value /\ out \in Seq(Nested2) /\ inner \in Seq(Nested1)
         /\ Family \in IpFamily /\ Family.choice.entries \in Seq(AnyEntry)
         /\ \E j \in 0 .. Len(value.families) - 1 : Len(out) = 3 * j + 2
<1>1. value \in Value /\ out \in Seq(Nested2) /\ inner \in Seq(Nested1)
  BY DEF IInv, TypeOK, EncoderInv
<1>2. PICK j \in 0 .. Len(value.families) - 1 : Len(out) = 3 * j + 2
  BY DEF IInv, EncoderInv
<1>3. Family \in IpFamily
  BY <1>1, <1>2, AtFamily DEF Family
<1>4. Family.choice.entries \in Seq(AnyEntry)
  BY <1>3, FamilyShapes DEF IInv, EncoderInv
<1>. QED
  BY <1>1, <1>2, <1>3, <1>4

LEMMA Head3Typed ==
  ASSUME Family \in IpFamily
  PROVE  Head3 \in Seq(Nested2) /\ Len(Head3) = 2
<1>1. Family.afi \in Int /\ (Family.safi # NoSafi => Family.safi \in Int)
  BY FamilyShapes, WidthAssumption DEF Safi
<1>2. /\ IntItem(Family.afi) \in Nested2
      /\ (IF Family.safi = NoSafi THEN NullItem ELSE IntItem(Family.safi)) \in Nested2
  BY <1>1, LeafFacts
<1>. QED
  BY <1>2 DEF Head3

\* A step that goes on writing entries.
LEMMA WritesEntry ==
  ASSUME IInv, pc = "encodingFamily", pc' = pc,
         Len(inner) < Len(Family.choice.entries),
         NEW item \in Nested1, inner' = Append(inner, item),
         UNCHANGED <<value, wire, out, intForm>>,
         previous' \in Int, first' \in BOOLEAN, intForm => previous' \in U64
  PROVE  IInv'
<1>1. /\ inner \in Seq(Nested1) /\ Family.choice.entries \in Seq(AnyEntry)
  BY WithinFamily
<1>2. /\ inner' \in Seq(Nested1) /\ Len(inner') <= Len(Family.choice.entries)
  BY <1>1
<1>3. Family' = Family
  BY DEF Family
<1>4. TypeOK' /\ EncodeNeverFails'
  BY <1>2 DEF IInv, TypeOK, EncodeNeverFails
<1>5. EncoderInv'
  BY <1>2, <1>3 DEF IInv, EncoderInv
<1>6. DecoderInv'
  BY DEF DecoderInv
<1>. QED
  BY <1>4, <1>5, <1>6 DEF IInv

LEMMA EncodeEntry ==
  ASSUME IInv, EncodeIntPrefix \/ EncodeIntRange \/ EncodeRawPrefix \/ EncodeRawRange
  PROVE  IInv'
<1>. DEFINE entries == Family.choice.entries
<1>1. /\ pc = "encodingFamily" /\ Len(inner) < Len(entries)
      /\ Entry = entries[Len(inner) + 1]
  BY DEF EncodeIntPrefix, EncodeIntRange, EncodeRawPrefix, EncodeRawRange,
         EncodingEntry, Entry
<1>2. inner \in Seq(Nested1) /\ entries \in Seq(AnyEntry)
  BY <1>1, WithinFamily
<1>3. Len(inner) + 1 \in 1 .. Len(entries) /\ Entry \in AnyEntry
  BY <1>1, <1>2
<1>4. /\ intForm \in BOOLEAN /\ first \in BOOLEAN /\ previous \in Int
      /\ intForm = UsesIntForm(entries) /\ (intForm => previous \in U64)
  BY <1>1 DEF IInv, TypeOK, EncoderInv
<1>5. CASE EncodeIntPrefix
  <2>. DEFINE framed == PrefixToFramed(Entry.net)
              abs    == AbsoluteIntFromFramed(framed.significant, framed.unused)
              delta  == NextDelta(previous, first, abs)
  <2>1. Entry.kind = "prefix" /\ intForm
    BY <1>5 DEF EncodeIntPrefix, EncodingEntry
  <2>2. framed.significant \in Seq(Octet) /\ framed.unused \in Nat
    BY <1>3, <2>1, SignificantFacts
  <2>3. FitsIntForm(framed.significant, framed.unused)
    BY <1>1, <1>2, <1>3, <1>4, <2>1, FitsWhenUsed
  <2>4. WriteInts(FitsIntForm(framed.significant, framed.unused),
                  {delta}, IntItem(delta), abs)
    BY <1>5 DEF EncodeIntPrefix
  <2>. HIDE DEF framed
  <2>5. abs \in U64
    BY <2>2, <2>3, AbsoluteInU64
  <2>. HIDE DEF abs
  <2>6. delta \in CborInt /\ previous \in U64
    BY <1>4, <2>1, <2>5, DeltaChainFacts
  <2>. HIDE DEF delta
  <2>7. IntItem(delta) \in Nested1 /\ abs \in Int
    BY <2>5, <2>6, LeafFacts, CborIntIsInt
  <2>8. /\ inner' = Append(inner, IntItem(delta)) /\ pc' = pc
        /\ previous' = abs /\ first' = FALSE
        /\ UNCHANGED <<value, wire, out, intForm>>
    BY <2>3, <2>4, <2>6 DEF WriteInts, held
  <2>. QED
    BY <1>1, <2>5, <2>7, <2>8, WritesEntry
<1>6. CASE EncodeIntRange
  <2>. DEFINE min == AddrToFramedTrimmed(Entry.min, 0)
              max == AddrToFramedTrimmed(Entry.max, Fill)
              minAbs == AbsoluteIntFromFramed(min, 0)
              maxAbs == AbsoluteIntFromFramed(max, 0)
              minDelta == NextDelta(previous, first, minAbs)
              maxDelta == NextDelta(minAbs, FALSE, maxAbs)
              item == ArrayItem(<<IntItem(minDelta), IntItem(maxDelta)>>)
  <2>1. Entry.kind = "range" /\ intForm
    BY <1>6 DEF EncodeIntRange, EncodingEntry
  <2>2. min \in Seq(Octet) /\ max \in Seq(Octet)
    BY <1>3, <2>1, SignificantFacts
  <2>3. FitsIntForm(min, 0) /\ FitsIntForm(max, 0)
    BY <1>1, <1>2, <1>3, <1>4, <2>1, FitsWhenUsed
  <2>4. WriteInts(FitsIntForm(min, 0) /\ FitsIntForm(max, 0), {minDelta, maxDelta},
                  item, maxAbs)
    BY <1>6 DEF EncodeIntRange
  <2>. HIDE DEF min, max
  <2>5. minAbs \in U64 /\ maxAbs \in U64
    BY <2>2, <2>3, AbsoluteInU64
  <2>. HIDE DEF minAbs, maxAbs
  <2>6. minDelta \in CborInt /\ maxDelta \in CborInt /\ previous \in U64
    BY <1>4, <2>1, <2>5, DeltaChainFacts
  <2>. HIDE DEF minDelta, maxDelta
  <2>7. item \in Nested1 /\ maxAbs \in Int
    BY <2>5, <2>6, LeafFacts, PairTyped, CborIntIsInt
  <2>. HIDE DEF item
  <2>8. /\ inner' = Append(inner, item) /\ pc' = pc
        /\ previous' = maxAbs /\ first' = FALSE
        /\ UNCHANGED <<value, wire, out, intForm>>
    BY <2>3, <2>4, <2>6 DEF WriteInts, held
  <2>. QED
    BY <1>1, <2>5, <2>7, <2>8, WritesEntry
<1>7. CASE EncodeRawPrefix
  <2>. DEFINE framed == PrefixToFramed(Entry.net)
              bytes == <<framed.unused>> \o framed.significant
  <2>1. Entry.kind = "prefix" /\ ~intForm /\ WriteBytes(BytesItem(bytes))
    BY <1>4, <1>7 DEF EncodeRawPrefix, EncodingEntry
  <2>2. framed.significant \in Seq(Octet) /\ framed.unused \in Nat
        /\ framed.unused + 1 \in Octet
    BY <1>3, <2>1, SignificantFacts
  <2>. HIDE DEF framed
  <2>3. framed.unused \in Octet
    BY <2>2, OctetAssumption DEF Octet
  <2>4. bytes \in Seq(Octet)
    BY <2>2, <2>3
  <2>. HIDE DEF bytes
  <2>5. BytesItem(bytes) \in Nested1
    BY <2>4, LeafFacts
  <2>6. /\ inner' = Append(inner, BytesItem(bytes)) /\ pc' = pc
        /\ UNCHANGED <<value, wire, out, intForm, previous, first>>
    BY <2>1 DEF WriteBytes, held, chain
  <2>. QED
    BY <1>1, <1>4, <2>1, <2>5, <2>6, WritesEntry
<1>8. CASE EncodeRawRange
  <2>. DEFINE min == AddrToFramedTrimmed(Entry.min, 0)
              max == AddrToFramedTrimmed(Entry.max, Fill)
              item == ArrayItem(<<BytesItem(<<0>> \o min), BytesItem(<<0>> \o max)>>)
  <2>1. Entry.kind = "range" /\ ~intForm /\ WriteBytes(item)
    BY <1>4, <1>8 DEF EncodeRawRange, EncodingEntry
  <2>2. min \in Seq(Octet) /\ max \in Seq(Octet) /\ 0 \in Octet
    BY <1>3, <2>1, SignificantFacts, OctetFacts
  <2>. HIDE DEF min, max
  <2>3. <<0>> \o min \in Seq(Octet) /\ <<0>> \o max \in Seq(Octet)
    BY <2>2
  <2>4. item \in Nested1
    BY <2>3, LeafFacts, PairTyped
  <2>. HIDE DEF item
  <2>5. /\ inner' = Append(inner, item) /\ pc' = pc
        /\ UNCHANGED <<value, wire, out, intForm, previous, first>>
    BY <2>1 DEF WriteBytes, held, chain
  <2>. QED
    BY <1>1, <1>4, <2>1, <2>4, <2>5, WritesEntry
<1>. QED
  BY <1>5, <1>6, <1>7, <1>8

LEMMA Concatenated ==
  ASSUME NEW S, NEW s \in Seq(S), NEW t \in Seq(S)
  PROVE  s \o t \in Seq(S) /\ Len(s \o t) = Len(s) + Len(t)
OBVIOUS

LEMMA Appended ==
  ASSUME NEW S, NEW s \in Seq(S), NEW x \in S
  PROVE  Append(s, x) \in Seq(S) /\ Len(Append(s, x)) = Len(s) + 1
OBVIOUS

\* The steps between two families.
LEMMA EncodeBetween ==
  ASSUME IInv, EncodeBlocks \/ EncodeInheritFamily \/ EncodeFamily
  PROVE  IInv'
<1>1. CASE EncodeBlocks
  <2>1. /\ pc = "encode" /\ pc' = "encodingBlocks" /\ out' = <<>>
        /\ UNCHANGED <<value, wire, inner, intForm, previous, first>>
    BY <1>1 DEF EncodeBlocks, held, chain
  <2>2. value \in Value /\ value.families \in Seq(IpFamily)
    BY <2>1, ValueShapes DEF IInv, EncoderInv
  <2>3. Len(out') = 3 * 0 /\ 0 \in 0 .. Len(value.families)
    BY <2>1, <2>2
  <2>4. TypeOK' /\ EncodeNeverFails'
    BY <2>1 DEF IInv, TypeOK, EncodeNeverFails
  <2>. QED
    BY <2>1, <2>2, <2>3, <2>4 DEF IInv, EncoderInv, DecoderInv
<1>2. CASE EncodeInheritFamily
  <2>. DEFINE part == Append(Head3, NullItem)
  <2>1. /\ pc = "encodingBlocks" /\ pc' = "encodingBlocks" /\ out' = out \o part
        /\ Len(out) < 3 * Len(value.families)
        /\ UNCHANGED <<value, wire, inner, intForm, previous, first>>
    BY <1>2 DEF EncodeInheritFamily, EncodingBlocks, held, chain
  <2>2. value \in Value /\ out \in Seq(Nested2) /\ Family \in IpFamily
    BY <2>1, WithinBlocks
  <2>3. PICK j \in 0 .. Len(value.families) - 1 : Len(out) = 3 * j
    BY <2>1, WithinBlocks
  <2>4. Head3 \in Seq(Nested2) /\ Len(Head3) = 2 /\ NullItem \in Nested2
    BY <2>2, Head3Typed, LeafFacts
  <2>5. part \in Seq(Nested2) /\ Len(part) = 3
    <3>1. part \in Seq(Nested2) /\ Len(part) = Len(Head3) + 1
      BY <2>4, Appended
    <3>. HIDE DEF part
    <3>. QED
      BY <2>4, <3>1
  <2>. HIDE DEF part
  <2>6. out' \in Seq(Nested2) /\ Len(out') = Len(out) + 3
    BY <2>1, <2>2, <2>5, Concatenated
  <2>7. value.families \in Seq(IpFamily)
    BY <2>2, ValueShapes
  <2>8. Len(out') = 3 * (j + 1) /\ j + 1 \in 0 .. Len(value.families)
    BY <2>3, <2>6, <2>7
  <2>9. TypeOK' /\ EncodeNeverFails'
    BY <2>1, <2>6 DEF IInv, TypeOK, EncodeNeverFails
  <2>. QED
    BY <2>1, <2>2, <2>8, <2>9 DEF IInv, EncoderInv, DecoderInv
<1>3. CASE EncodeFamily
  <2>1. /\ pc = "encodingBlocks" /\ pc' = "encodingFamily" /\ out' = out \o Head3
        /\ Len(out) < 3 * Len(value.families) /\ Family.choice.kind = "prefixes"
        /\ inner' = <<>> /\ intForm' = UsesIntForm(Family.choice.entries)
        /\ previous' = 0 /\ first' = TRUE
        /\ UNCHANGED <<value, wire>>
    BY <1>3 DEF EncodeFamily, EncodingBlocks, StartChain, held
  <2>2. value \in Value /\ out \in Seq(Nested2) /\ Family \in IpFamily
    BY <2>1, WithinBlocks
  <2>3. PICK j \in 0 .. Len(value.families) - 1 : Len(out) = 3 * j
    BY <2>1, WithinBlocks
  <2>4. Head3 \in Seq(Nested2) /\ Len(Head3) = 2
    BY <2>2, Head3Typed
  <2>5. out' \in Seq(Nested2) /\ Len(out') = 3 * j + 2
    BY <2>1, <2>2, <2>3, <2>4, Concatenated
  <2>6. Len(out) \div 3 + 1 = j + 1 /\ Len(out') \div 3 + 1 = j + 1
    BY <2>2, <2>3, <2>5, AtFamily
  <2>7. Family' = Family
    BY <2>1, <2>6 DEF Family
  <2>8. Family.choice.entries \in Seq(AnyEntry)
    BY <2>1, <2>2, FamilyShapes
  <2>9. Len(inner') <= Len(Family'.choice.entries) /\ inner' \in Seq(Nested1)
    BY <2>1, <2>7, <2>8
  <2>10. previous' \in U64 /\ previous' \in Int /\ first' \in BOOLEAN
    BY <2>1, U64MaxAssumption DEF U64
  <2>11. intForm' \in BOOLEAN
    BY <2>1 DEF UsesIntForm
  <2>12. TypeOK' /\ EncodeNeverFails'
    BY <2>1, <2>5, <2>9, <2>10, <2>11 DEF IInv, TypeOK, EncodeNeverFails
  <2>13. EncoderInv'
    BY <2>1, <2>2, <2>5, <2>7, <2>9, <2>10 DEF EncoderInv
  <2>. QED
    BY <2>1, <2>12, <2>13 DEF IInv, DecoderInv
<1>. QED
  BY <1>1, <1>2, <1>3

\* The steps that end the two loops.
LEMMA EncodeEnds ==
  ASSUME IInv, EncodeFamilyEnd \/ EncodeBlocksEnd
  PROVE  IInv'
<1>1. CASE EncodeFamilyEnd
  <2>1. /\ pc = "encodingFamily" /\ pc' = "encodingBlocks"
        /\ out' = Append(out, ArrayItem(inner))
        /\ UNCHANGED <<value, wire, inner, intForm, previous, first>>
    BY <1>1 DEF EncodeFamilyEnd, held, chain
  <2>2. /\ value \in Value /\ out \in Seq(Nested2) /\ inner \in Seq(Nested1)
        /\ value.families \in Seq(IpFamily)
    BY <2>1, WithinFamily, ValueShapes
  <2>3. PICK j \in 0 .. Len(value.families) - 1 : Len(out) = 3 * j + 2
    BY <2>1, WithinFamily
  <2>4. ArrayItem(inner) \in Nested2
    BY <2>2, ArrayItemFacts DEF Nested2
  <2>5. out' \in Seq(Nested2) /\ Len(out') = Len(out) + 1
    BY <2>1, <2>2, <2>4
  <2>6. Len(out') = 3 * (j + 1) /\ j + 1 \in 0 .. Len(value.families)
    BY <2>2, <2>3, <2>5
  <2>7. TypeOK' /\ EncodeNeverFails'
    BY <2>1, <2>5 DEF IInv, TypeOK, EncodeNeverFails
  <2>. QED
    BY <2>1, <2>2, <2>6, <2>7 DEF IInv, EncoderInv, DecoderInv
<1>2. CASE EncodeBlocksEnd
  <2>1. /\ pc = "encodingBlocks" /\ pc' = "decode" /\ wire' = ArrayItem(out)
        /\ UNCHANGED <<value, out, inner, intForm, previous, first>>
    BY <1>2 DEF EncodeBlocksEnd, chain
  <2>2. out \in Seq(Nested2)
    BY <2>1 DEF IInv, TypeOK
  <2>3. wire' \in Nested3
    BY <2>1, <2>2, ArrayItemFacts DEF Nested3
  <2>4. TypeOK' /\ EncodeNeverFails'
    BY <2>1, <2>3 DEF IInv, TypeOK, EncodeNeverFails
  <2>. QED
    BY <2>1, <2>3, <2>4 DEF IInv, EncoderInv, DecoderInv
<1>. QED
  BY <1>1, <1>2

LEMMA EncodeInvariant == ASSUME IInv, Encode PROVE IInv'
BY EncodeEntry, EncodeBetween, EncodeEnds DEF Encode

-----------------------------------------------------------------------------
(* The decoder.                                                            *)

\* build_addr and build_prefix make addresses of the family.
LEMMA BuildFacts ==
  ASSUME NEW afi \in DOMAIN Width, NEW s \in Seq(Octet), FitsFamily(afi, s),
         NEW fill \in Octet
  PROVE  /\ BuildAddr(afi, s, fill) \in [1 .. Width[afi] -> Octet]
         /\ \A i \in 1 .. Len(s) : BuildAddr(afi, s, fill)[i] = s[i]
         /\ \A i \in Len(s) + 1 .. Width[afi] : BuildAddr(afi, s, fill)[i] = fill
<1>. DEFINE w == Width[afi]
            m == w - Len(s)
            t == [i \in 1 .. m |-> fill]
<1>1. w \in Nat /\ Len(s) \in Nat /\ Len(s) <= w /\ m \in Nat
  BY WidthAssumption DEF FitsFamily
<1>2. t \in [1 .. m -> Octet]
  OBVIOUS
<1>3. \A i \in 1 .. m : t[i] = fill
  OBVIOUS
<1>4. BuildAddr(afi, s, fill) = s \o t
  BY DEF BuildAddr
<1>. HIDE DEF t
<1>5. t \in Seq(Octet) /\ Len(t) = m
  BY <1>1, <1>2, SeqOfFunction
<1>6. s \o t \in Seq(Octet) /\ Len(s \o t) = Len(s) + Len(t)
  BY <1>5, Concatenated
<1>7. Len(s \o t) = w
  BY <1>1, <1>5, <1>6
<1>8. s \o t \in [1 .. w -> Octet]
  <2>1. \A S : \A q \in Seq(S) : q \in [1 .. Len(q) -> S]
    OBVIOUS
  <2>. QED
    BY <1>6, <1>7, <2>1
<1>9. \A i \in 1 .. Len(s) : (s \o t)[i] = s[i]
  BY <1>5
<1>10. ASSUME NEW i \in Len(s) + 1 .. w PROVE (s \o t)[i] = fill
  <2>1. i \in Len(s) + 1 .. Len(s) + Len(t) /\ i - Len(s) \in 1 .. m
    BY <1>1, <1>5
  <2>2. (s \o t)[i] = t[i - Len(s)]
    BY <1>5, <2>1
  <2>. QED
    BY <1>3, <2>1, <2>2
<1>. QED
  BY <1>4, <1>8, <1>9, <1>10

LEMMA BuildPrefixTyped ==
  ASSUME NEW afi, NEW s \in Seq(Octet), NEW unused \in Nat, FormsPrefix(afi, s, unused)
  PROVE  afi \in DOMAIN Width /\ AddrPrefix(BuildPrefix(afi, s, unused)) \in AddrEntry(afi)
<1>1. /\ afi \in DOMAIN Width /\ FitsFamily(afi, s) /\ Len(s) <= Width[afi]
      /\ unused <= Len(s) * Bits
  BY DEF FormsPrefix, FitsFamily
<1>2. BuildAddr(afi, s, 0) \in [1 .. Width[afi] -> Octet]
  BY <1>1, OctetFacts, BuildFacts
<1>3. Len(s) \in Nat /\ Width[afi] \in Nat /\ Bits \in Nat
  BY <1>1, WidthAssumption
<1>4. \A a, b, c, u \in Nat : a <= b /\ u <= a * c => a * c - u \in 0 .. b * c
  <2>. TAKE a, b, c, u \in Nat
  <2>. HAVE a <= b /\ u <= a * c
  <2>1. a * c <= b * c /\ a * c \in Nat /\ b * c \in Nat
    OBVIOUS
  <2>. QED
    BY <2>1
<1>5. Len(s) * Bits - unused \in 0 .. Width[afi] * Bits
  BY <1>1, <1>3, <1>4
<1>. QED
  BY <1>1, <1>2, <1>5, PrefixTyped DEF BuildPrefix

LEMMA WireFacts ==
  ASSUME IInv, pc \in {"decodingBlocks", "decodingFamily"}
  PROVE  /\ wire \in Nested3 /\ wire.type = "array"
         /\ wire.items \in Seq(Nested2) /\ wire.len \in Nat
         /\ out \in Seq(IpFamily) /\ \A i \in DOMAIN out : IsFit(out[i])
         /\ Len(out) <= wire.len \div 3 /\ wire.len \div 3 \in Nat
<1>1. /\ wire \in Nested3 /\ wire.type = "array" /\ Len(out) <= wire.len \div 3
      /\ out \in Seq(IpFamily) /\ \A i \in DOMAIN out : IsFit(out[i])
  BY DEF IInv, TypeOK, DecoderInv
<1>2. wire.items \in Seq(Nested2) /\ wire.len \in Nat
  BY <1>1 DEF Nested3, Leaf, ArrayOf
<1>3. \A n \in Nat : n \div 3 \in Nat
  OBVIOUS
<1>. QED
  BY <1>1, <1>2, <1>3

\* The parts of the family being read.
LEMMA PartFacts ==
  ASSUME IInv, pc \in {"decodingBlocks", "decodingFamily"}, ReadsHead
  PROVE  /\ Afi \in 0 .. U16Max /\ Part(3) \in Nested2
         /\ (IF IsNull(Part(2)) THEN NoSafi ELSE Part(2).int) \in Safi
<1>1. wire.items \in Seq(Nested2) /\ out \in Seq(IpFamily)
  BY WireFacts
<1>2. 3 * Len(out) + 3 \in 1 .. Len(wire.items)
  BY <1>1 DEF ReadsHead, HasPart, HasElement
<1>. QED
  BY <1>1, <1>2 DEF ReadsHead, Part, IsU16, Afi, Safi

\* The list of the family being read.
LEMMA ListFacts ==
  ASSUME IInv, pc = "decodingFamily"
  PROVE  /\ Part(3) \in Nested2 /\ Part(3).items \in Seq(Nested1) /\ Part(3).len \in Nat
         /\ inner = <<>> \/ (Afi \in DOMAIN Width /\ inner \in Seq(AddrEntry(Afi)))
         /\ Len(inner) \in Nat /\ Len(inner) <= Part(3).len
         /\ HasElement(Part(3), Position) => Current \in Nested1
<1>1. /\ ReadsHead /\ Part(3).type = "array" /\ Len(inner) <= Part(3).len
      /\ inner = <<>> \/ (Afi \in DOMAIN Width /\ inner \in Seq(AddrEntry(Afi)))
  BY DEF IInv, DecoderInv, IsList
<1>2. Part(3) \in Nested2
  BY <1>1, PartFacts
<1>3. Part(3).items \in Seq(Nested1) /\ Part(3).len \in Nat
  BY <1>1, <1>2 DEF Nested2, Leaf, ArrayOf
<1>4. Len(inner) \in Nat
  BY <1>1
<1>5. HasElement(Part(3), Position) => Current \in Nested1
  <2>1. \A s \in Seq(Nested1) : \A n \in Nat : n + 1 <= Len(s) => s[n + 1] \in Nested1
    OBVIOUS
  <2>. QED
    BY <1>3, <1>4, <2>1 DEF HasElement, Position, Current
<1>. QED
  BY <1>1, <1>2, <1>3, <1>4, <1>5

LEMMA RefuseKeeps == ASSUME IInv, Refuse PROVE IInv'
<1>1. pc' = "refused" /\ UNCHANGED <<value, wire, out, inner, intForm, previous, first>>
  BY DEF Refuse, held, chain
<1>2. TypeOK' /\ EncodeNeverFails'
  BY <1>1 DEF IInv, TypeOK, EncodeNeverFails
<1>. QED
  BY <1>1, <1>2 DEF IInv, EncoderInv, DecoderInv

\* A step that adds a family whose addresses are those of its AFI.
LEMMA ReadsFamily ==
  ASSUME IInv, pc \in {"decodingBlocks", "decodingFamily"}, Len(out) < wire.len \div 3,
         ReadsHead, NEW choice, PushFamily(choice),
         \/ choice = Inherit
         \/ \E s : /\ choice = EntryList(s)
                   /\ s = <<>> \/ (Afi \in DOMAIN Width /\ s \in Seq(AddrEntry(Afi)))
  PROVE  IInv'
<1>. DEFINE f == FamilyOf(choice)
<1>1. /\ pc' = "decodingBlocks" /\ out' = Append(out, f)
      /\ UNCHANGED <<value, wire, inner, intForm, previous, first>>
  BY DEF PushFamily, held, chain
<1>2. Afi \in 0 .. U16Max /\ (IF IsNull(Part(2)) THEN NoSafi ELSE Part(2).int) \in Safi
  BY PartFacts
<1>3. /\ out \in Seq(IpFamily) /\ \A i \in DOMAIN out : IsFit(out[i])
      /\ wire \in Nested3 /\ wire.type = "array" /\ wire.len \div 3 \in Nat
  BY WireFacts
<1>4. f \in IpFamily /\ IsFit(f)
  <2>1. CASE choice = Inherit
    BY <1>2, <2>1 DEF FamilyOf, IpFamily, IsFit, Inherit
  <2>2. ASSUME NEW s, choice = EntryList(s),
               s = <<>> \/ (Afi \in DOMAIN Width /\ s \in Seq(AddrEntry(Afi)))
        PROVE  f \in IpFamily /\ IsFit(f)
    <3>1. s \in Seq(AnyEntry)
      <4>1. CASE s = <<>>
        BY <4>1
      <4>2. CASE Afi \in DOMAIN Width /\ s \in Seq(AddrEntry(Afi))
        <5>1. AddrEntry(Afi) \subseteq AnyEntry
          BY <4>2, FamilyEntry
        <5>. QED
          BY <4>2, <5>1
      <4>. QED
        BY <2>2, <4>1, <4>2
    <3>2. choice \in [kind : {"prefixes"}, entries : Seq(AnyEntry)]
      BY <2>2, <3>1 DEF EntryList
    <3>3. f \in IpFamily
      BY <1>2, <3>2 DEF FamilyOf, IpFamily
    <3>4. f.afi = Afi /\ f.choice.entries = s
      BY <2>2 DEF FamilyOf, EntryList
    <3>5. \A i \in DOMAIN s : Afi \in DOMAIN Width /\ s[i] \in AddrEntry(Afi)
      BY <2>2
    <3>. HIDE DEF f
    <3>. QED
      BY <3>3, <3>4, <3>5 DEF IsFit
  <2>. QED
    BY <2>1, <2>2
<1>. HIDE DEF f
<1>5. /\ out' \in Seq(IpFamily) /\ Len(out') = Len(out) + 1
      /\ \A i \in DOMAIN out' : IsFit(out'[i])
  BY <1>1, <1>3, <1>4
<1>6. Len(out') <= wire.len \div 3
  BY <1>3, <1>5
<1>7. TypeOK' /\ EncodeNeverFails'
  BY <1>1, <1>5 DEF IInv, TypeOK, EncodeNeverFails
<1>. QED
  BY <1>1, <1>3, <1>6, <1>7 DEF IInv, EncoderInv, DecoderInv

\* A step that adds an entry of the family.
LEMMA ReadsEntry ==
  ASSUME IInv, pc = "decodingFamily", HasElement(Part(3), Position), pc' = pc,
         Afi \in DOMAIN Width, NEW e \in AddrEntry(Afi), inner' = Append(inner, e),
         UNCHANGED <<value, wire, out, intForm>>,
         previous' \in Int, first' \in BOOLEAN
  PROVE  IInv'
<1>1. inner \in Seq(AddrEntry(Afi)) /\ Part(3).len \in Nat
  <2>1. \A S : <<>> \in Seq(S)
    OBVIOUS
  <2>. QED
    BY <2>1, ListFacts
<1>2. inner' \in Seq(AddrEntry(Afi)) /\ Len(inner') = Len(inner) + 1
  BY <1>1
<1>3. Len(inner') <= Part(3).len
  BY <1>2 DEF HasElement, Position
<1>4. \A i \in 1 .. 3 : Part(i)' = Part(i) /\ (HasPart(i)' <=> HasPart(i))
  BY DEF Part, HasPart
<1>5. Afi' = Afi /\ Part(3)' = Part(3) /\ (ReadsHead' <=> ReadsHead)
  BY <1>4 DEF Afi, ReadsHead
<1>6. TypeOK' /\ EncodeNeverFails'
  BY <1>2, <1>5 DEF IInv, TypeOK, EncodeNeverFails
<1>7. DecoderInv'
  BY <1>2, <1>3, <1>5 DEF IInv, DecoderInv
<1>. QED
  BY <1>6, <1>7 DEF IInv, EncoderInv

\* framed_from_absolute_int on a number that has a framing.
LEMMA FramedTyped ==
  ASSUME NEW abs \in Int, IsFramed(abs)
  PROVE  /\ FramedFromAbsoluteInt(abs).significant \in Seq(Octet)
         /\ FramedFromAbsoluteInt(abs).unused \in Nat
<1>1. abs \in Nat /\ Head(Framed(abs)) >= 1
  BY DEF IsFramed
<1>2. Head(Framed(abs)) \in Octet /\ Tail(Framed(abs)) \in Seq(Octet)
  BY <1>1, FramedFacts
<1>3. Head(Framed(abs)) - 1 \in Nat
  BY <1>1, <1>2, OctetAssumption DEF Octet
<1>. QED
  BY <1>2, <1>3 DEF FramedFromAbsoluteInt

LEMMA BytesShape ==
  ASSUME NEW item \in Nested1, IsBytes(item), item.bytes # <<>>
  PROVE  /\ item.bytes \in Seq(Octet) /\ Tail(item.bytes) \in Seq(Octet)
         /\ Head(item.bytes) \in Octet
<1>1. item.bytes \in Seq(Octet)
  BY DEF Nested1, Leaf, ArrayOf, IsBytes
<1>. QED
  BY <1>1

LEMMA PairItems ==
  ASSUME NEW item \in Nested1, IsPair(item)
  PROVE  item.items[1] \in Leaf /\ item.items[2] \in Leaf
<1>1. item.items \in Seq(Leaf) /\ Len(item.items) = 2
  BY DEF Nested1, Leaf, ArrayOf, IsPair, IsList
<1>. QED
  BY <1>1

LEMMA NextAbsoluteTyped ==
  ASSUME NEW before \in Int, NEW start \in BOOLEAN, NEW raw \in Int
  PROVE  NextAbsolute(before, start, raw) \in Int
BY DEF NextAbsolute

LEMMA DecodeEntry ==
  ASSUME IInv, DecodeIntPrefix \/ DecodeIntRange \/ DecodeRawPrefix \/ DecodeRawRange
  PROVE  IInv'
<1>1. pc = "decodingFamily" /\ HasElement(Part(3), Position)
  BY DEF DecodeIntPrefix, DecodeIntRange, DecodeRawPrefix, DecodeRawRange, HasCurrent
<1>2. Current \in Nested1
  BY <1>1, ListFacts
<1>3. previous \in Int /\ first \in BOOLEAN
  BY DEF IInv, TypeOK
<1>4. CASE DecodeIntPrefix
  <2>. DEFINE abs    == NextAbsolute(previous, first, Current.int)
              framed == FramedFromAbsoluteInt(abs)
              entry  == AddrPrefix(BuildPrefix(Afi, framed.significant, framed.unused))
  <2>1. /\ Current.int \in CborInt /\ IsFramed(abs)
        /\ FormsPrefix(Afi, framed.significant, framed.unused)
        /\ PushInt(entry, abs)
    BY <1>4 DEF DecodeIntPrefix, ReadsIntPrefix, IsCborInt
  <2>2. abs \in Int
    BY <1>3, <2>1, CborIntIsInt, NextAbsoluteTyped
  <2>. HIDE DEF abs
  <2>3. framed.significant \in Seq(Octet) /\ framed.unused \in Nat
    BY <2>1, <2>2, FramedTyped
  <2>. HIDE DEF framed
  <2>4. Afi \in DOMAIN Width /\ entry \in AddrEntry(Afi)
    BY <2>1, <2>3, BuildPrefixTyped
  <2>. HIDE DEF entry
  <2>5. /\ inner' = Append(inner, entry) /\ previous' = abs /\ first' = FALSE
        /\ UNCHANGED <<pc, value, wire, out, intForm>>
    BY <2>1 DEF PushInt, held
  <2>. QED
    BY <1>1, <2>2, <2>4, <2>5, ReadsEntry
<1>5. CASE DecodeIntRange
  <2>. DEFINE minAbs == Bounds(Current).min
              maxAbs == Bounds(Current).max
              min    == FramedFromAbsoluteInt(minAbs).significant
              max    == FramedFromAbsoluteInt(maxAbs).significant
              entry  == AddrRange(BuildAddr(Afi, min, 0), BuildAddr(Afi, max, Fill))
  <2>1. /\ Current.items[1].int \in CborInt /\ Current.items[2].int \in CborInt
        /\ IsFramed(minAbs) /\ FitsFamily(Afi, min)
        /\ IsFramed(maxAbs) /\ FitsFamily(Afi, max)
        /\ PushInt(entry, maxAbs)
    BY <1>5 DEF DecodeIntRange, ReadsIntRange, IsCborInt
  <2>2. minAbs \in Int /\ maxAbs \in Int
    <3>1. Current.items[1].int \in Int /\ Current.items[2].int \in Int
      BY <2>1, CborIntIsInt
    <3>2. NextAbsolute(previous, first, Current.items[1].int) \in Int
      BY <1>3, <3>1, NextAbsoluteTyped
    <3>3. NextAbsolute(NextAbsolute(previous, first, Current.items[1].int), FALSE,
                       Current.items[2].int) \in Int
      BY <3>1, <3>2, NextAbsoluteTyped
    <3>. QED
      BY <3>2, <3>3 DEF Bounds
  <2>. HIDE DEF minAbs, maxAbs
  <2>3. min \in Seq(Octet) /\ max \in Seq(Octet)
    BY <2>1, <2>2, FramedTyped
  <2>. HIDE DEF min, max
  <2>4. Afi \in DOMAIN Width
    BY <2>1 DEF FitsFamily
  <2>5. entry \in AddrEntry(Afi)
    BY <2>1, <2>3, <2>4, BuildFacts, RangeTyped, OctetFacts
  <2>. HIDE DEF entry
  <2>6. /\ inner' = Append(inner, entry) /\ previous' = maxAbs /\ first' = FALSE
        /\ UNCHANGED <<pc, value, wire, out, intForm>>
    BY <2>1 DEF PushInt, held
  <2>. QED
    BY <1>1, <2>2, <2>4, <2>5, <2>6, ReadsEntry
<1>6. CASE DecodeRawPrefix
  <2>. DEFINE entry == AddrPrefix(BuildPrefix(Afi, Tail(Current.bytes), Head(Current.bytes)))
  <2>1. /\ IsBytes(Current) /\ Current.bytes # <<>>
        /\ FormsPrefix(Afi, Tail(Current.bytes), Head(Current.bytes))
        /\ PushRaw(entry)
    BY <1>6 DEF DecodeRawPrefix, ReadsRawPrefix
  <2>2. Tail(Current.bytes) \in Seq(Octet) /\ Head(Current.bytes) \in Nat
    BY <1>2, <2>1, BytesShape, OctetFacts
  <2>3. Afi \in DOMAIN Width /\ entry \in AddrEntry(Afi)
    BY <2>1, <2>2, BuildPrefixTyped
  <2>. HIDE DEF entry
  <2>4. /\ inner' = Append(inner, entry)
        /\ UNCHANGED <<pc, value, wire, out, intForm, previous, first>>
    BY <2>1 DEF PushRaw, held, chain
  <2>. QED
    BY <1>1, <1>3, <2>3, <2>4, ReadsEntry
<1>7. CASE DecodeRawRange
  <2>. DEFINE min   == Tail(Current.items[1].bytes)
              max   == Tail(Current.items[2].bytes)
              entry == AddrRange(BuildAddr(Afi, min, 0), BuildAddr(Afi, max, Fill))
  <2>1. /\ IsPair(Current) /\ IsBytes(Current.items[1]) /\ IsBytes(Current.items[2])
        /\ Current.items[1].bytes # <<>> /\ Current.items[2].bytes # <<>>
        /\ FitsFamily(Afi, min) /\ FitsFamily(Afi, max)
        /\ PushRaw(entry)
    BY <1>7 DEF DecodeRawRange, ReadsRawRange
  <2>2. Current.items[1] \in Nested1 /\ Current.items[2] \in Nested1
    BY <1>2, <2>1, PairItems, LeafFacts
  <2>3. min \in Seq(Octet) /\ max \in Seq(Octet)
    BY <2>1, <2>2, BytesShape
  <2>. HIDE DEF min, max
  <2>4. Afi \in DOMAIN Width
    BY <2>1 DEF FitsFamily
  <2>5. entry \in AddrEntry(Afi)
    BY <2>1, <2>3, <2>4, BuildFacts, RangeTyped, OctetFacts
  <2>. HIDE DEF entry
  <2>6. /\ inner' = Append(inner, entry)
        /\ UNCHANGED <<pc, value, wire, out, intForm, previous, first>>
    BY <2>1 DEF PushRaw, held, chain
  <2>. QED
    BY <1>1, <1>3, <2>4, <2>5, <2>6, ReadsEntry
<1>. QED
  BY <1>4, <1>5, <1>6, <1>7

LEMMA DecodeInvariant == ASSUME IInv, Decode PROVE IInv'
<1>1. CASE DecodeBlocks
  <2>1. /\ pc = "decode" /\ pc' = "decodingBlocks" /\ out' = <<>> /\ wire.type = "array"
        /\ UNCHANGED <<value, wire, inner, intForm, previous, first>>
    BY <1>1 DEF DecodeBlocks, held, chain
  <2>2. wire \in Nested3 /\ wire.len \in Nat
    BY <2>1 DEF IInv, DecoderInv, Nested3, Leaf, ArrayOf
  <2>3. out' \in Seq(IpFamily) /\ DOMAIN out' = {} /\ Len(out') <= wire.len \div 3
    BY <2>1, <2>2
  <2>4. TypeOK' /\ EncodeNeverFails'
    BY <2>1, <2>3 DEF IInv, TypeOK, EncodeNeverFails
  <2>. QED
    BY <2>1, <2>2, <2>3, <2>4 DEF IInv, EncoderInv, DecoderInv
<1>2. CASE DecodeRefuse \/ RefuseFamily \/ RefuseEntry
  BY <1>2, RefuseKeeps DEF DecodeRefuse, RefuseFamily, RefuseEntry
<1>3. CASE DecodeInheritFamily
  BY <1>3, ReadsFamily DEF DecodeInheritFamily, DecodingBlocks
<1>4. CASE DecodeEmptyFamily
  <2>1. /\ pc = "decodingBlocks" /\ Len(out) < wire.len \div 3 /\ ReadsHead
        /\ PushFamily(EntryList(<<>>))
    BY <1>4 DEF DecodeEmptyFamily, DecodingBlocks
  <2>. QED
    BY <2>1, ReadsFamily
<1>5. CASE DecodeFamily
  <2>1. /\ pc = "decodingBlocks" /\ pc' = "decodingFamily" /\ inner' = <<>>
        /\ Len(out) < wire.len \div 3 /\ ReadsHead /\ IsList(Part(3)) /\ Part(3).len > 0
        /\ intForm' = IsIntForm(Part(3)) /\ previous' = 0 /\ first' = TRUE
        /\ UNCHANGED <<value, wire, out>>
    BY <1>5 DEF DecodeFamily, DecodingBlocks, StartChain, held
  <2>2. \A i \in 1 .. 3 : Part(i)' = Part(i) /\ (HasPart(i)' <=> HasPart(i))
    BY <2>1 DEF Part, HasPart
  <2>3. Afi' = Afi /\ Part(3)' = Part(3) /\ (ReadsHead' <=> ReadsHead)
    BY <2>2 DEF Afi, ReadsHead
  <2>4. intForm' \in BOOLEAN /\ first' \in BOOLEAN
    BY <2>1 DEF IsIntForm, IsInt
  <2>5. previous' \in Int /\ DOMAIN inner' = {} /\ Len(inner') = 0
    BY <2>1
  <2>6. Part(3).len \in Nat
    BY <2>1, PartFacts DEF IsList, Nested2, Leaf, ArrayOf
  <2>7. TypeOK' /\ EncodeNeverFails'
    BY <2>1, <2>4, <2>5 DEF IInv, TypeOK, EncodeNeverFails
  <2>8. DecoderInv'
    BY <2>1, <2>3, <2>5, <2>6 DEF IInv, DecoderInv
  <2>. QED
    BY <2>1, <2>7, <2>8 DEF IInv, EncoderInv
<1>6. CASE DecodeIntPrefix \/ DecodeIntRange \/ DecodeRawPrefix \/ DecodeRawRange
  BY <1>6, DecodeEntry
<1>7. CASE DecodeFamilyEnd
  <2>1. /\ pc = "decodingFamily" /\ PushFamily(EntryList(inner))
        /\ Len(out) < wire.len \div 3 /\ ReadsHead
    BY <1>7 DEF DecodeFamilyEnd, IInv, DecoderInv
  <2>2. inner = <<>> \/ (Afi \in DOMAIN Width /\ inner \in Seq(AddrEntry(Afi)))
    BY <2>1, ListFacts
  <2>. QED
    BY <2>1, <2>2, ReadsFamily
<1>8. CASE DecodeBlocksEnd
  <2>1. /\ pc = "decodingBlocks" /\ pc' = "encode" /\ value' = Blocks(out)
        /\ UNCHANGED <<wire, out, inner, intForm, previous, first>>
    BY <1>8 DEF DecodeBlocksEnd, chain
  <2>2. value' \in Value
    BY <2>1, WireFacts DEF Value, Blocks
  <2>3. TypeOK' /\ EncodeNeverFails'
    BY <2>1, <2>2 DEF IInv, TypeOK, EncodeNeverFails
  <2>. QED
    BY <2>1, <2>2, <2>3 DEF IInv, EncoderInv, DecoderInv
<1>. QED
  BY <1>1, <1>2, <1>3, <1>4, <1>5, <1>6, <1>7, <1>8 DEF Decode

LEMMA StepInv == IInv /\ [Next]_vars => IInv'
<1>. SUFFICES ASSUME IInv, [Next]_vars PROVE IInv'
  OBVIOUS
<1>1. CASE Next
  BY <1>1, EncodeInvariant, DecodeInvariant DEF Next
<1>2. CASE UNCHANGED vars
  BY <1>2 DEF vars, IInv, TypeOK, EncodeNeverFails, EncoderInv, DecoderInv, Family,
     ReadsHead, HasPart, Part, Afi
<1>. QED
  BY <1>1, <1>2

\* Throughout a session, the encoder and the decoder are where IInv says.
THEOREM Invariance == Spec => []IInv
BY InitInv, StepInv, PTL DEF Spec

\* Every variable keeps its type, and in a value that is read every address has
\* the width of its family, whatever a peer sends.
THEOREM TypeCorrect == Spec => []TypeOK
BY Invariance, PTL DEF IInv

\* The `expect' of C509Certificate::encode is not reached through IPAddrBlocks:
\* what the integer form is chosen for fits it, every delta is a CBOR integer.
THEOREM NeverPanics == Spec => []EncodeNeverFails
BY Invariance, PTL DEF IInv

-----------------------------------------------------------------------------
(* Round trips.  First those of one entry: its framing is read back as the *)
(* entry with its host bits cleared.                                       *)

\* Clearing host bits leaves nothing to clear, and nothing behind the prefix.
LEMMA NetworkFacts ==
  ASSUME NEW w \in Nat, NEW addr \in [1 .. w -> Octet], NEW n \in 0 .. w * Bits,
         NEW net, net = [addr |-> addr, prefixLen |-> n]
  PROVE  /\ Network(net) \in [1 .. w -> Octet]
         /\ \A i \in (n + Bits - 1) \div Bits + 1 .. w : Network(net)[i] = 0
         /\ Network([net EXCEPT !.addr = Network(net)]) = Network(net)
<1>. DEFINE kept(i) == Max({0, Min({Bits, n - Bits * (i - 1)})})
            m(i) == Power(2, Bits - kept(i))
            q == (n + Bits - 1) \div Bits
            cleared == Network(net)
<1>1. w * Bits \in Nat /\ n \in Nat /\ Bits \in Nat \ {0}
  BY WidthAssumption
<1>2. cleared \in [1 .. w -> Octet]
  BY <1>1, NetworkTyped
<1>3. \A i \in 1 .. w : cleared[i] = addr[i] - (addr[i] % m(i))
  BY DEF Network
<1>4. \A i \in 1 .. w : kept(i) \in 0 .. Bits
  <2>. TAKE i \in 1 .. w
  <2>1. n - Bits * (i - 1) \in Int
    BY <1>1
  <2>. QED
    BY <2>1, KeptFacts
<1>5. \A i \in 1 .. w : m(i) \in Nat \ {0}
  <2>. TAKE i \in 1 .. w
  <2>1. Bits - kept(i) \in Nat
    <3>. HIDE DEF kept
    <3>. QED
      BY <1>1, <1>4
  <2>2. 2 \in Nat \ {0}
    OBVIOUS
  <2>. QED
    BY <2>1, <2>2, PowerPositive
<1>6. Network([net EXCEPT !.addr = cleared]) = [i \in 1 .. w |-> cleared[i] - (cleared[i] % m(i))]
  <2>. HIDE DEF cleared
  <2>1. [net EXCEPT !.addr = cleared] = [addr |-> cleared, prefixLen |-> n]
    OBVIOUS
  <2>. QED
    BY <1>2, <2>1 DEF Network
<1>7. ASSUME NEW i \in q + 1 .. w PROVE cleared[i] = 0
  <2>1. q \in Nat /\ q * Bits - n \in 0 .. Bits - 1
    BY <1>1, OctetsOfBits
  <2>. HIDE DEF q
  <2>2. i \in 1 .. w /\ i - 1 \in Nat /\ q <= i - 1
    BY <2>1
  <2>3. \A x, y \in Nat : x <= y => Bits * x <= Bits * y
    BY <1>1
  <2>4. Bits * q <= Bits * (i - 1) /\ Bits * q = q * Bits /\ Bits * (i - 1) \in Nat
    BY <1>1, <2>1, <2>2, <2>3
  <2>5. n - Bits * (i - 1) \in Int /\ n - Bits * (i - 1) <= 0
    BY <1>1, <2>1, <2>4
  <2>6. kept(i) = 0
    BY <2>5, KeptFacts
  <2>7. m(i) = Base
    <3>1. Bits - 0 = Bits
      BY <1>1
    <3>. HIDE DEF kept
    <3>. QED
      BY <2>6, <3>1, BitsAssumption
  <2>. HIDE DEF m
  <2>. DEFINE x == addr[i]
  <2>8. x \in 0 .. Base - 1 /\ x \in Nat
    BY <2>2, OctetFacts
  <2>. HIDE DEF x
  <2>9. x % Base = x
    BY <2>8, OctetFacts, DivisionSmall
  <2>10. cleared[i] = x - (x % Base)
    BY <1>3, <2>2, <2>7 DEF x
  <2>. HIDE DEF cleared
  <2>. QED
    BY <2>8, <2>9, <2>10
<1>8. ASSUME NEW i \in 1 .. w PROVE cleared[i] - (cleared[i] % m(i)) = cleared[i]
  <2>. DEFINE x == addr[i]
              y == cleared[i]
              k == m(i)
              d == x \div k
              e == x % k
  <2>1. x \in Nat /\ k \in Nat \ {0} /\ y = x - e
    BY <1>3, <1>5, OctetFacts
  <2>. HIDE DEF x, y, k
  <2>2. \A z \in Nat : \A o \in Nat \ {0} : z \div o \in Nat /\ z % o \in 0 .. o - 1
    OBVIOUS
  <2>3. \A z \in Nat : \A o \in Nat \ {0} : z = o * (z \div o) + (z % o)
    OBVIOUS
  <2>4. d \in Nat /\ e \in 0 .. k - 1 /\ x = k * d + e
    BY <2>1, <2>2, <2>3
  <2>. HIDE DEF d, e
  <2>5. y = k * d + 0 /\ 0 \in 0 .. k - 1 /\ k * d \in Nat
    BY <2>1, <2>4
  <2>6. y % k = 0
    BY <2>1, <2>4, <2>5, DivisionUnique
  <2>7. y - (y % k) = y
    BY <2>5, <2>6
  <2>. QED
    BY <2>7 DEF y, k
<1>9. Network([net EXCEPT !.addr = cleared]) = cleared
  <2>. HIDE DEF cleared, m
  <2>. QED
    BY <1>2, <1>6, <1>8
<1>. QED
  BY <1>2, <1>7, <1>9

LEMMA SameAddress ==
  ASSUME NEW w, NEW a \in [1 .. w -> Octet], NEW b \in [1 .. w -> Octet],
         \A i \in 1 .. w : a[i] = b[i]
  PROVE  a = b
<1>1. a = [i \in 1 .. w |-> a[i]] /\ b = [i \in 1 .. w |-> b[i]]
  OBVIOUS
<1>. QED
  BY <1>1, Zenon

\* build_prefix reads the framing of prefix_to_framed as the prefix without host bits.
LEMMA PrefixInverse ==
  ASSUME NEW afi \in DOMAIN Width, NEW e \in AddrEntry(afi), e.kind = "prefix"
  PROVE  LET framed == PrefixToFramed(e.net)
         IN  /\ FormsPrefix(afi, framed.significant, framed.unused)
             /\ AddrPrefix(BuildPrefix(afi, framed.significant, framed.unused)) = MaskedEntry(e)
<1>. DEFINE w == Width[afi]
            net == e.net
            addr == net.addr
            n == net.prefixLen
            s == PrefixToFramed(net).significant
            u == PrefixToFramed(net).unused
            built == BuildAddr(afi, s, 0)
            cleared == Network(net)
<1>1. /\ w \in Nat /\ e = AddrPrefix(net) /\ net = [addr |-> addr, prefixLen |-> n]
      /\ addr \in [1 .. w -> Octet] /\ n \in 0 .. w * Bits
  BY EntryShapes
<1>. HIDE DEF w, net, addr, n
<1>2. /\ s \in Seq(Octet) /\ Len(s) = (n + Bits - 1) \div Bits /\ Len(s) <= w
      /\ u = Len(s) * Bits - n /\ u \in 0 .. Bits - 1
      /\ \A i \in 1 .. Len(s) : s[i] = cleared[i]
  BY <1>1, PrefixFramed
<1>3. /\ cleared \in [1 .. w -> Octet]
      /\ \A i \in Len(s) + 1 .. w : cleared[i] = 0
  <2>1. /\ Network(net) \in [1 .. w -> Octet]
        /\ \A i \in (n + Bits - 1) \div Bits + 1 .. w : Network(net)[i] = 0
    BY <1>1, NetworkFacts
  <2>. QED
    BY <1>2, <2>1
<1>. HIDE DEF s, u, cleared
<1>4. FitsFamily(afi, s)
  BY <1>2 DEF FitsFamily, w
<1>5. /\ built \in [1 .. w -> Octet]
      /\ \A i \in 1 .. Len(s) : built[i] = s[i]
      /\ \A i \in Len(s) + 1 .. w : built[i] = 0
  BY <1>2, <1>4, OctetFacts, BuildFacts DEF w
<1>. HIDE DEF built
<1>6. built = cleared
  <2>1. ASSUME NEW i \in 1 .. w PROVE built[i] = cleared[i]
    <3>1. CASE i \in 1 .. Len(s)
      BY <1>2, <1>5, <3>1
    <3>2. CASE i \in Len(s) + 1 .. w
      BY <1>3, <1>5, <3>2
    <3>. QED
      BY <1>1, <1>2, <3>1, <3>2
  <2>2. built = [i \in 1 .. w |-> built[i]] /\ cleared = [i \in 1 .. w |-> cleared[i]]
    BY <1>3, <1>5
  <2>. QED
    BY <2>1, <2>2, Zenon
<1>7. Len(s) * Bits \in Nat /\ n \in Nat
  <2>1. Len(s) \in Nat /\ Bits \in Nat /\ w * Bits \in Nat
    BY <1>1, <1>2, WidthAssumption
  <2>. QED
    BY <1>1, <2>1
<1>8. u <= Len(s) * Bits /\ Len(s) * Bits - u = n
  BY <1>2, <1>7
<1>9. FormsPrefix(afi, s, u)
  BY <1>4, <1>8 DEF FormsPrefix
<1>10. BuildPrefix(afi, s, u) = [addr |-> cleared, prefixLen |-> n]
  BY <1>6, <1>8 DEF BuildPrefix, built
<1>11. [net EXCEPT !.addr = cleared] = [addr |-> cleared, prefixLen |-> n]
  BY <1>1
<1>12. e.kind = "prefix" /\ e.net = net
  BY DEF net
<1>13. MaskedEntry(e) = AddrPrefix([addr |-> cleared, prefixLen |-> n])
  BY <1>11, <1>12 DEF MaskedEntry, cleared
<1>. QED
  BY <1>9, <1>10, <1>13 DEF s, u, net

\* build_addr reads the framing of addr_to_framed_trimmed as the address.
LEMMA AddrInverse ==
  ASSUME NEW afi \in DOMAIN Width, NEW addr \in [1 .. Width[afi] -> Octet],
         NEW fill \in Octet
  PROVE  LET s == AddrToFramedTrimmed(addr, fill)
         IN  FitsFamily(afi, s) /\ BuildAddr(afi, s, fill) = addr
<1>. DEFINE w == Width[afi]
            s == AddrToFramedTrimmed(addr, fill)
            built == BuildAddr(afi, s, fill)
<1>0. w \in Nat
  BY WidthAssumption
<1>1. /\ s \in Seq(Octet) /\ Len(s) <= w
      /\ \A i \in 1 .. Len(s) : s[i] = addr[i]
      /\ \A i \in Len(s) + 1 .. w : addr[i] = fill
  BY <1>0, AddrFramed
<1>2. FitsFamily(afi, s)
  BY <1>1 DEF FitsFamily
<1>. HIDE DEF s
<1>3. /\ built \in [1 .. w -> Octet]
      /\ \A i \in 1 .. Len(s) : built[i] = s[i]
      /\ \A i \in Len(s) + 1 .. w : built[i] = fill
  BY <1>1, <1>2, BuildFacts
<1>. HIDE DEF built
<1>4. ASSUME NEW i \in 1 .. w PROVE built[i] = addr[i]
  <2>1. CASE i \in 1 .. Len(s)
    BY <1>1, <1>3, <2>1
  <2>2. CASE i \in Len(s) + 1 .. w
    BY <1>1, <1>3, <2>2
  <2>. QED
    BY <1>0, <1>1, <2>1, <2>2
<1>5. built = addr
  <2>1. built \in [1 .. w -> Octet] /\ addr \in [1 .. w -> Octet]
    BY <1>3
  <2>. HIDE DEF w
  <2>. QED
    BY <1>4, <2>1, SameAddress
<1>. QED
  BY <1>2, <1>5 DEF built, s

\* A masked entry is an entry of the family, and masking it again changes nothing.
LEMMA MaskedEntryFacts ==
  ASSUME NEW afi \in DOMAIN Width, NEW e \in AddrEntry(afi)
  PROVE  MaskedEntry(e) \in AddrEntry(afi) /\ MaskedEntry(MaskedEntry(e)) = MaskedEntry(e)
<1>. DEFINE w == Width[afi]
            net == e.net
            cleared == Network(net)
            netted == [net EXCEPT !.addr = cleared]
<1>1. CASE e.kind = "prefix"
  <2>1. /\ w \in Nat /\ e = AddrPrefix(net)
        /\ net = [addr |-> net.addr, prefixLen |-> net.prefixLen]
        /\ net.addr \in [1 .. w -> Octet] /\ net.prefixLen \in 0 .. w * Bits
    BY <1>1, EntryShapes
  <2>. HIDE DEF w, net
  <2>2. cleared \in [1 .. w -> Octet] /\ Network(netted) = cleared
    BY <2>1, NetworkFacts
  <2>. HIDE DEF cleared
  <2>3. netted = [addr |-> cleared, prefixLen |-> net.prefixLen]
    BY <2>1
  <2>4. netted.addr = cleared /\ [netted EXCEPT !.addr = cleared] = netted
    BY <2>3
  <2>. HIDE DEF netted
  <2>5. MaskedEntry(e) = AddrPrefix(netted)
    BY <1>1 DEF MaskedEntry, netted, cleared, net
  <2>6. AddrPrefix(netted).kind = "prefix" /\ AddrPrefix(netted).net = netted
    BY DEF AddrPrefix
  <2>7. MaskedEntry(AddrPrefix(netted)) = AddrPrefix([netted EXCEPT !.addr = Network(netted)])
    BY <2>6 DEF MaskedEntry
  <2>8. AddrPrefix(netted) \in AddrEntry(afi)
    BY <2>1, <2>2, <2>3, PrefixTyped DEF w
  <2>. QED
    BY <2>2, <2>4, <2>5, <2>7, <2>8
<1>2. CASE e.kind # "prefix"
  BY <1>2 DEF MaskedEntry
<1>. QED
  BY <1>1, <1>2

-----------------------------------------------------------------------------
(* Then those of a value.  While the encoder runs, what it has written is  *)
(* the encoding of the beginning of the value; while the decoder runs on   *)
(* the encoding of a value, what it has read is the beginning of that      *)
(* value without host bits, and its chain is where the encoder's was.      *)

\* The numbers of an entry in the integer form, and the one the chain goes on
\* from.
PrefixNumber(e) == AbsoluteIntFromFramed(PrefixToFramed(e.net).significant,
                                         PrefixToFramed(e.net).unused)
MinNumber(e)    == AbsoluteIntFromFramed(AddrToFramedTrimmed(e.min, 0), 0)
MaxNumber(e)    == AbsoluteIntFromFramed(AddrToFramedTrimmed(e.max, Fill), 0)
LastNumber(e)   == IF e.kind = "prefix" THEN PrefixNumber(e) ELSE MaxNumber(e)

\* The chain state in front of the k-th entry of s.
Before(s, k) == IF k = 1 THEN 0 ELSE LastNumber(s[k - 1])

\* The element written for an entry, in each form.
IntEntry(e, before, start) ==
  IF e.kind = "prefix"
    THEN IntItem(NextDelta(before, start, PrefixNumber(e)))
    ELSE ArrayItem(<<IntItem(NextDelta(before, start, MinNumber(e))),
                     IntItem(NextDelta(MinNumber(e), FALSE, MaxNumber(e)))>>)

RawEntry(e) ==
  IF e.kind = "prefix"
    THEN BytesItem(<<PrefixToFramed(e.net).unused>> \o PrefixToFramed(e.net).significant)
    ELSE ArrayItem(<<BytesItem(<<0>> \o AddrToFramedTrimmed(e.min, 0)),
                     BytesItem(<<0>> \o AddrToFramedTrimmed(e.max, Fill))>>)

EncodedEntry(s, k) ==
  IF UsesIntForm(s) THEN IntEntry(s[k], Before(s, k), k = 1) ELSE RawEntry(s[k])

EncodedList(s) == ArrayItem([k \in 1 .. Len(s) |-> EncodedEntry(s, k)])

\* The three items of a family.
AfiItem(f)    == IntItem(f.afi)
SafiItem(f)   == IF f.safi = NoSafi THEN NullItem ELSE IntItem(f.safi)
ChoiceItem(f) == IF f.choice.kind = "inherit" THEN NullItem ELSE EncodedList(f.choice.entries)

\* From the i-th place on, s has the items of the families of v.
Stands(s, i, f) == /\ s[3 * i - 2] = AfiItem(f) /\ s[3 * i - 1] = SafiItem(f)
                   /\ s[3 * i] = ChoiceItem(f)

Carries(w, v) ==
  /\ w.type = "array" /\ w.len = 3 * Len(v.families) /\ Len(w.items) = w.len
  /\ \A i \in 1 .. Len(v.families) : Stands(w.items, i, v.families[i])

\* What the encoder has written is what Carries wants, so far.
WrittenInv ==
  /\ pc \in {"encodingBlocks", "encodingFamily"} =>
       \A i \in 1 .. Len(value.families) :
         3 * i <= Len(out) => Stands(out, i, value.families[i])
  /\ pc = "encodingFamily" =>
       /\ out[Len(out) - 1] = AfiItem(Family) /\ out[Len(out)] = SafiItem(Family)
       /\ \A k \in 1 .. Len(inner) : inner[k] = EncodedEntry(Family.choice.entries, k)
       /\ intForm => /\ previous = Before(Family.choice.entries, Len(inner) + 1)
                     /\ first = (Len(inner) = 0)

\* What is read back from the encoding of a value, so far.
ReadInv ==
  value # NoValue =>
    /\ pc \in {"decode", "decodingBlocks", "decodingFamily"} => Carries(wire, value)
    /\ AllFit(value) =>
         /\ pc # "refused"
         /\ pc \in {"decodingBlocks", "decodingFamily"} =>
              \A i \in 1 .. Len(out) : out[i] = MaskedFamily(value.families[i])
         /\ pc = "decodingFamily" =>
              LET f == value.families[Len(out) + 1]
              IN  /\ f.choice.kind = "prefixes"
                  /\ intForm = UsesIntForm(f.choice.entries)
                  /\ \A k \in 1 .. Len(inner) : inner[k] = MaskedEntry(f.choice.entries[k])
                  /\ intForm => /\ previous = Before(f.choice.entries, Len(inner) + 1)
                                /\ first = (Len(inner) = 0)

Match == WrittenInv /\ ReadInv

-----------------------------------------------------------------------------
LEMMA BeforeTyped ==
  ASSUME NEW s \in Seq(AnyEntry), UsesIntForm(s), NEW k \in 1 .. Len(s) + 1
  PROVE  Before(s, k) \in U64
<1>1. CASE k = 1
  BY <1>1, U64MaxAssumption DEF Before, U64
<1>2. CASE k # 1
  <2>. DEFINE e == s[k - 1]
  <2>1. k - 1 \in 1 .. Len(s) /\ e \in AnyEntry
    BY <1>2
  <2>2. CASE e.kind = "prefix"
    BY <2>1, <2>2, FitsWhenUsed, SignificantFacts, AbsoluteInU64, <1>2
    DEF Before, LastNumber, PrefixNumber
  <2>3. CASE e.kind = "range"
    BY <2>1, <2>3, FitsWhenUsed, SignificantFacts, AbsoluteInU64, <1>2
    DEF Before, LastNumber, MaxNumber
  <2>. QED
    BY <2>1, <2>2, <2>3, SignificantFacts
<1>. QED
  BY <1>1, <1>2

LEMMA BeforeNext ==
  ASSUME NEW s, NEW k \in Nat \ {0}
  PROVE  Before(s, k + 1) = LastNumber(s[k])
BY DEF Before

\* Every element the encoder writes is the encoding of its entry.
LEMMA WritesEncoded ==
  ASSUME IInv, IInv', Match,
         EncodeIntPrefix \/ EncodeIntRange \/ EncodeRawPrefix \/ EncodeRawRange
  PROVE  LET entries == Family.choice.entries
             k == Len(inner) + 1
         IN  /\ pc = "encodingFamily" /\ pc' = pc /\ k \in 1 .. Len(entries)
             /\ inner' = Append(inner, EncodedEntry(entries, k))
             /\ UNCHANGED <<value, wire, out, intForm>>
             /\ intForm => previous' = LastNumber(entries[k]) /\ first' = FALSE
<1>. DEFINE entries == Family.choice.entries
            k == Len(inner) + 1
<1>1. /\ pc = "encodingFamily" /\ Len(inner) < Len(entries) /\ Entry = entries[k]
  BY DEF EncodeIntPrefix, EncodeIntRange, EncodeRawPrefix, EncodeRawRange,
         EncodingEntry, Entry
<1>2. /\ inner \in Seq(Nested1) /\ entries \in Seq(AnyEntry)
      /\ k \in 1 .. Len(entries) /\ (k = 1 <=> Len(inner) = 0)
  <2>1. inner \in Seq(Nested1) /\ entries \in Seq(AnyEntry)
    BY <1>1, WithinFamily
  <2>. QED
    BY <1>1, <2>1
<1>3. intForm = UsesIntForm(entries)
  BY <1>1 DEF IInv, EncoderInv
<1>4. intForm => previous = Before(entries, k) /\ first = (Len(inner) = 0)
  BY <1>1 DEF Match, WrittenInv
<1>5. pc' # "panicked"
  BY DEF IInv, EncodeNeverFails
<1>. DEFINE item == EncodedEntry(entries, k)
<1>6. CASE EncodeIntPrefix
  <2>. DEFINE delta == NextDelta(previous, first, PrefixNumber(Entry))
  <2>1. Entry.kind = "prefix" /\ intForm
    BY <1>6 DEF EncodeIntPrefix, EncodingEntry
  <2>2. item = IntItem(delta)
    BY <1>1, <1>2, <1>3, <1>4, <2>1 DEF EncodedEntry, IntEntry
  <2>3. \E fits : WriteInts(fits, {delta}, IntItem(delta), PrefixNumber(Entry))
    BY <1>6 DEF EncodeIntPrefix, PrefixNumber
  <2>. HIDE DEF delta
  <2>4. /\ inner' = Append(inner, IntItem(delta)) /\ pc' = pc
        /\ previous' = PrefixNumber(Entry) /\ first' = FALSE
        /\ UNCHANGED <<value, wire, out, intForm>>
    BY <1>5, <2>3 DEF WriteInts, held
  <2>5. LastNumber(Entry) = PrefixNumber(Entry)
    BY <2>1 DEF LastNumber
  <2>. QED
    BY <1>1, <1>2, <2>2, <2>4, <2>5
<1>7. CASE EncodeIntRange
  <2>. DEFINE d1 == NextDelta(previous, first, MinNumber(Entry))
              d2 == NextDelta(MinNumber(Entry), FALSE, MaxNumber(Entry))
              pair == ArrayItem(<<IntItem(d1), IntItem(d2)>>)
  <2>1. Entry.kind = "range" /\ intForm
    BY <1>7 DEF EncodeIntRange, EncodingEntry
  <2>2. item = pair
    BY <1>1, <1>2, <1>3, <1>4, <2>1 DEF EncodedEntry, IntEntry
  <2>3. \E fits : WriteInts(fits, {d1, d2}, pair, MaxNumber(Entry))
    BY <1>7 DEF EncodeIntRange, MinNumber, MaxNumber
  <2>. HIDE DEF pair
  <2>4. /\ inner' = Append(inner, pair) /\ pc' = pc
        /\ previous' = MaxNumber(Entry) /\ first' = FALSE
        /\ UNCHANGED <<value, wire, out, intForm>>
    BY <1>5, <2>3 DEF WriteInts, held
  <2>5. LastNumber(Entry) = MaxNumber(Entry)
    BY <2>1 DEF LastNumber
  <2>. QED
    BY <1>1, <1>2, <2>2, <2>4, <2>5
<1>8. CASE EncodeRawPrefix \/ EncodeRawRange
  <2>1. ~intForm
    BY <1>8 DEF EncodeRawPrefix, EncodeRawRange, EncodingEntry
  <2>2. item = RawEntry(Entry)
    BY <1>1, <1>3, <2>1 DEF EncodedEntry
  <2>3. WriteBytes(RawEntry(Entry))
    BY <1>8 DEF EncodeRawPrefix, EncodeRawRange, EncodingEntry, RawEntry
  <2>4. inner' = Append(inner, item) /\ UNCHANGED <<pc, value, wire, out, intForm>>
    BY <2>2, <2>3 DEF WriteBytes, held, chain
  <2>. QED
    BY <1>1, <1>2, <2>1, <2>4
<1>. QED
  BY <1>6, <1>7, <1>8

\* What stands in a sequence stands in one that goes on from it.
LEMMA StandsKept ==
  ASSUME NEW s, NEW t, NEW f, NEW i \in Nat \ {0}, Len(s) \in Nat, 3 * i <= Len(s),
         \A n \in 1 .. Len(s) : t[n] = s[n], Stands(s, i, f)
  PROVE  Stands(t, i, f)
<1>1. {3 * i - 2, 3 * i - 1, 3 * i} \subseteq 1 .. Len(s)
  OBVIOUS
<1>. QED
  BY <1>1 DEF Stands

LEMMA KeptByConcat ==
  ASSUME NEW S, NEW s \in Seq(S), NEW t \in Seq(S)
  PROVE  /\ \A n \in 1 .. Len(s) : (s \o t)[n] = s[n]
         /\ \A n \in 1 .. Len(t) : (s \o t)[Len(s) + n] = t[n]
OBVIOUS

LEMMA KeptByAppend ==
  ASSUME NEW S, NEW s \in Seq(S), NEW x \in S
  PROVE  /\ \A n \in 1 .. Len(s) : Append(s, x)[n] = s[n]
         /\ Append(s, x)[Len(s) + 1] = x
OBVIOUS

\* The family the encoder is at, by its place in the value.
LEMMA FamilyAt ==
  ASSUME IInv, NEW j \in 0 .. Len(value.families) - 1, value \in Value,
         Len(out) \in {3 * j, 3 * j + 2}
  PROVE  Family = value.families[j + 1] /\ Family \in IpFamily
BY AtFamily DEF Family

LEMMA EncodeMatchesBetween ==
  ASSUME IInv, Match, EncodeBlocks \/ EncodeInheritFamily \/ EncodeFamily
  PROVE  WrittenInv'
<1>1. CASE EncodeBlocks
  <2>1. pc' = "encodingBlocks" /\ out' = <<>> /\ value' = value /\ pc = "encode"
    BY <1>1 DEF EncodeBlocks, held
  <2>2. value.families \in Seq(IpFamily) /\ Len(out') = 0
    BY <2>1, ValueShapes DEF IInv, EncoderInv
  <2>3. \A i \in 1 .. Len(value.families) : ~(3 * i <= Len(out'))
    BY <2>2
  <2>. QED
    BY <2>1, <2>3 DEF WrittenInv
<1>2. CASE EncodeInheritFamily
  <2>. DEFINE part == Append(Head3, NullItem)
              fs   == value.families
  <2>1. /\ pc = "encodingBlocks" /\ pc' = "encodingBlocks" /\ out' = out \o part
        /\ Len(out) < 3 * Len(value.families) /\ value' = value
        /\ Family.choice.kind = "inherit"
    BY <1>2 DEF EncodeInheritFamily, EncodingBlocks, held
  <2>2. value \in Value /\ out \in Seq(Nested2)
    BY <2>1, WithinBlocks
  <2>3. PICK j \in 0 .. Len(value.families) - 1 : Len(out) = 3 * j
    BY <2>1, WithinBlocks
  <2>4. Family = fs[j + 1] /\ Family \in IpFamily
    BY <2>2, <2>3, FamilyAt
  <2>5. Head3 \in Seq(Nested2) /\ Len(Head3) = 2 /\ NullItem \in Nested2
    BY <2>4, Head3Typed, LeafFacts
  <2>6. part \in Seq(Nested2) /\ Len(part) = Len(Head3) + 1
    BY <2>5, Appended
  <2>7. part[1] = AfiItem(Family) /\ part[2] = SafiItem(Family) /\ part[3] = ChoiceItem(Family)
    <3>1. Head3[1] = AfiItem(Family) /\ Head3[2] = SafiItem(Family)
      BY DEF Head3, AfiItem, SafiItem
    <3>2. NullItem = ChoiceItem(Family)
      BY <2>1 DEF ChoiceItem
    <3>3. (\A n \in 1 .. Len(Head3) : part[n] = Head3[n]) /\ part[Len(Head3) + 1] = NullItem
      BY <2>5, KeptByAppend
    <3>. HIDE DEF part, Head3
    <3>4. part[1] = Head3[1] /\ part[2] = Head3[2] /\ part[3] = NullItem
      BY <2>5, <3>3
    <3>. QED
      BY <3>1, <3>2, <3>4
  <2>. HIDE DEF part
  <2>8. /\ out' \in Seq(Nested2) /\ Len(out') = Len(out) + 3
        /\ \A n \in 1 .. Len(out) : out'[n] = out[n]
        /\ \A n \in 1 .. 3 : out'[Len(out) + n] = part[n]
    <3>1. Len(part) = 3
      BY <2>5, <2>6
    <3>2. out' \in Seq(Nested2) /\ Len(out') = Len(out) + Len(part)
      BY <2>1, <2>2, <2>6, Concatenated
    <3>3. /\ \A n \in 1 .. Len(out) : out'[n] = out[n]
          /\ \A n \in 1 .. Len(part) : out'[Len(out) + n] = part[n]
      BY <2>1, <2>2, <2>6, KeptByConcat
    <3>. QED
      BY <3>1, <3>2, <3>3
  <2>9. ASSUME NEW i \in 1 .. Len(fs), 3 * i <= Len(out')
        PROVE  Stands(out', i, fs[i])
    <3>1. Len(out) \in Nat /\ i \in Nat \ {0} /\ j \in Nat
      BY <2>2
    <3>2. CASE 3 * i <= Len(out)
      <4>1. Stands(out, i, fs[i])
        BY <2>1, <2>9, <3>2 DEF Match, WrittenInv
      <4>. QED
        BY <2>8, <3>1, <3>2, <4>1, StandsKept
    <3>3. CASE ~(3 * i <= Len(out))
      <4>0. \A m \in Nat : 3 * i <= m + 3 /\ ~(3 * i <= m) /\ m = 3 * j =>
              /\ i = j + 1 /\ 3 * i - 2 = m + 1 /\ 3 * i - 1 = m + 2 /\ 3 * i = m + 3
        BY <3>1
      <4>00. 3 * i <= Len(out) + 3
        BY <2>8, <2>9
      <4>1. i = j + 1 /\ 3 * i - 2 = Len(out) + 1 /\ 3 * i - 1 = Len(out) + 2
            /\ 3 * i = Len(out) + 3
        BY <2>3, <3>1, <3>3, <4>0, <4>00
      <4>2. /\ out'[3 * i - 2] = part[1] /\ out'[3 * i - 1] = part[2]
            /\ out'[3 * i] = part[3]
        BY <2>8, <4>1
      <4>. QED
        BY <2>4, <2>7, <4>1, <4>2 DEF Stands
    <3>. QED
      BY <3>2, <3>3
  <2>. QED
    BY <2>1, <2>9 DEF WrittenInv
<1>3. CASE EncodeFamily
  <2>. DEFINE fs == value.families
  <2>1. /\ pc = "encodingBlocks" /\ pc' = "encodingFamily" /\ out' = out \o Head3
        /\ Len(out) < 3 * Len(value.families) /\ value' = value
        /\ inner' = <<>> /\ previous' = 0 /\ first' = TRUE
    BY <1>3 DEF EncodeFamily, EncodingBlocks, StartChain, held
  <2>2. value \in Value /\ out \in Seq(Nested2)
    BY <2>1, WithinBlocks
  <2>3. PICK j \in 0 .. Len(value.families) - 1 : Len(out) = 3 * j
    BY <2>1, WithinBlocks
  <2>4. Family = fs[j + 1] /\ Family \in IpFamily
    BY <2>2, <2>3, FamilyAt
  <2>5. Head3 \in Seq(Nested2) /\ Len(Head3) = 2
    BY <2>4, Head3Typed
  <2>6. Head3[1] = AfiItem(Family) /\ Head3[2] = SafiItem(Family)
    BY DEF Head3, AfiItem, SafiItem
  <2>7. /\ out' \in Seq(Nested2) /\ Len(out') = 3 * j + 2
        /\ \A n \in 1 .. Len(out) : out'[n] = out[n]
        /\ \A n \in 1 .. 2 : out'[3 * j + n] = Head3[n]
    <3>1. out' \in Seq(Nested2) /\ Len(out') = Len(out) + Len(Head3)
      BY <2>1, <2>2, <2>5, Concatenated
    <3>. HIDE DEF Head3
    <3>. QED
      BY <2>1, <2>2, <2>3, <2>5, <3>1, KeptByConcat
  <2>8. Family' = Family
    <3>1. Len(out') \div 3 + 1 = j + 1
      BY <2>2, <2>7, AtFamily
    <3>. QED
      BY <2>1, <2>4, <3>1 DEF Family
  <2>9. ASSUME NEW i \in 1 .. Len(fs), 3 * i <= Len(out')
        PROVE  Stands(out', i, fs[i])
    <3>1. 3 * i <= Len(out) /\ Len(out) \in Nat /\ i \in Nat \ {0}
      BY <2>2, <2>3, <2>7, <2>9
    <3>2. Stands(out, i, fs[i])
      BY <2>1, <2>9, <3>1 DEF Match, WrittenInv
    <3>. QED
      BY <2>7, <3>1, <3>2, StandsKept
  <2>10. out'[Len(out') - 1] = AfiItem(Family) /\ out'[Len(out')] = SafiItem(Family)
    <3>1. Len(out') - 1 = 3 * j + 1
      BY <2>7
    <3>. HIDE DEF Head3
    <3>. QED
      BY <2>6, <2>7, <3>1
  <2>11. 1 .. Len(inner') = {} /\ Len(inner') = 0
    BY <2>1
  <2>12. previous' = Before(Family.choice.entries, Len(inner') + 1) /\ first' = (Len(inner') = 0)
    <3>1. Len(inner') + 1 = 1
      BY <2>11
    <3>2. Before(Family.choice.entries, Len(inner') + 1) = 0
      BY <3>1 DEF Before
    <3>. QED
      BY <2>1, <2>11, <3>2, Zenon
  <2>. QED
    BY <2>1, <2>8, <2>9, <2>10, <2>11, <2>12 DEF WrittenInv
<1>. QED
  BY <1>1, <1>2, <1>3

LEMMA SameSeq ==
  ASSUME NEW S, NEW s \in Seq(S), NEW t, t = [k \in 1 .. Len(s) |-> t[k]],
         \A k \in 1 .. Len(s) : s[k] = t[k]
  PROVE  s = t
<1>1. s = [k \in 1 .. Len(s) |-> s[k]]
  OBVIOUS
<1>. QED
  BY <1>1, Zenon

LEMMA EncodeMatchesEntry ==
  ASSUME IInv, IInv', Match,
         EncodeIntPrefix \/ EncodeIntRange \/ EncodeRawPrefix \/ EncodeRawRange
  PROVE  WrittenInv'
<1>. DEFINE entries == Family.choice.entries
            n == Len(inner)
            item == EncodedEntry(entries, n + 1)
<1>1. /\ pc = "encodingFamily" /\ pc' = "encodingFamily"
      /\ inner' = Append(inner, item)
      /\ UNCHANGED <<value, wire, out, intForm>>
      /\ intForm => previous' = LastNumber(entries[n + 1]) /\ first' = FALSE
  BY WritesEncoded
<1>2. Family' = Family
  BY <1>1 DEF Family
<1>3. inner \in Seq(Nested1) /\ inner' \in Seq(Nested1)
  BY <1>1 DEF IInv, TypeOK
<1>. HIDE DEF item
<1>4. n \in Nat /\ Len(inner') = n + 1 /\ inner'[n + 1] = item
      /\ \A k \in 1 .. n : inner'[k] = inner[k]
  BY <1>1, <1>3
<1>5. ASSUME NEW k \in 1 .. Len(inner') PROVE inner'[k] = EncodedEntry(entries, k)
  <2>1. CASE k \in 1 .. n
    BY <1>1, <1>4, <2>1 DEF Match, WrittenInv
  <2>2. CASE k = n + 1
    BY <1>4, <2>2 DEF item
  <2>. QED
    BY <1>4, <2>1, <2>2
<1>6. intForm' => previous' = Before(entries, Len(inner') + 1)
  BY <1>1, <1>4, BeforeNext
<1>7. intForm' => first' = (Len(inner') = 0)
  <2>1. (Len(inner') = 0) = FALSE
    BY <1>4
  <2>2. intForm' => first' = FALSE
    BY <1>1
  <2>. QED
    BY <2>1, <2>2, Zenon
<1>8. \A i \in 1 .. Len(value.families) : 3 * i <= Len(out) => Stands(out, i, value.families[i])
  BY <1>1 DEF Match, WrittenInv
<1>9. out[Len(out) - 1] = AfiItem(Family) /\ out[Len(out)] = SafiItem(Family)
  BY <1>1 DEF Match, WrittenInv
<1>. HIDE DEF entries, n
<1>. QED
  BY <1>1, <1>2, <1>5, <1>6, <1>7, <1>8, <1>9 DEF WrittenInv, entries

LEMMA EncodeMatchesFamilyEnd ==
  ASSUME IInv, Match, EncodeFamilyEnd
  PROVE  WrittenInv'
<1>. DEFINE fs == value.families
            entries == Family.choice.entries
            item == ArrayItem(inner)
<1>1. /\ pc = "encodingFamily" /\ pc' = "encodingBlocks" /\ out' = Append(out, item)
      /\ Len(inner) = Len(entries) /\ value' = value
  BY DEF EncodeFamilyEnd, held
<1>2. /\ value \in Value /\ out \in Seq(Nested2) /\ inner \in Seq(Nested1)
      /\ Family.choice.kind = "prefixes"
  BY <1>1, WithinFamily DEF IInv, EncoderInv
<1>3. PICK j \in 0 .. Len(fs) - 1 : Len(out) = 3 * j + 2
  BY <1>1, WithinFamily
<1>4. Family = fs[j + 1]
  BY <1>2, <1>3, FamilyAt
<1>5. item = ChoiceItem(Family)
  <2>. DEFINE t == [k \in 1 .. Len(entries) |-> EncodedEntry(entries, k)]
  <2>1. \A k \in 1 .. Len(inner) : inner[k] = t[k]
    BY <1>1 DEF Match, WrittenInv
  <2>2. t = [k \in 1 .. Len(inner) |-> t[k]]
    BY <1>1
  <2>. HIDE DEF t
  <2>3. inner = t
    BY <1>2, <2>1, <2>2, SameSeq
  <2>. QED
    BY <1>2, <2>3 DEF ChoiceItem, EncodedList, t
<1>6. item \in Nested2
  BY <1>2, ArrayItemFacts DEF Nested2
<1>. HIDE DEF item
<1>7. /\ Len(out') = Len(out) + 1 /\ out'[Len(out) + 1] = item
      /\ \A n \in 1 .. Len(out) : out'[n] = out[n]
  BY <1>1, <1>2, <1>6, Appended, KeptByAppend
<1>8. out[Len(out) - 1] = AfiItem(Family) /\ out[Len(out)] = SafiItem(Family)
  BY <1>1 DEF Match, WrittenInv
<1>9. ASSUME NEW i \in 1 .. Len(fs), 3 * i <= Len(out')
      PROVE  Stands(out', i, fs[i])
  <2>1. Len(out) \in Nat /\ i \in Nat \ {0} /\ j \in Nat
    BY <1>2
  <2>2. CASE 3 * i <= Len(out)
    <3>1. Stands(out, i, fs[i])
      BY <1>1, <1>9, <2>2 DEF Match, WrittenInv
    <3>. QED
      BY <1>7, <2>1, <2>2, <3>1, StandsKept
  <2>3. CASE ~(3 * i <= Len(out))
    <3>1. \A m \in Nat : 3 * i <= m + 1 /\ ~(3 * i <= m) /\ m = 3 * j + 2 =>
            /\ i = j + 1 /\ 3 * i - 2 = m - 1 /\ 3 * i - 1 = m /\ 3 * i = m + 1
            /\ m - 1 \in 1 .. m /\ m \in 1 .. m
      BY <2>1
    <3>2. /\ i = j + 1 /\ 3 * i - 2 = Len(out) - 1 /\ 3 * i - 1 = Len(out)
          /\ 3 * i = Len(out) + 1 /\ Len(out) - 1 \in 1 .. Len(out)
          /\ Len(out) \in 1 .. Len(out)
      BY <1>3, <1>7, <1>9, <2>1, <2>3, <3>1
    <3>3. /\ out'[3 * i - 2] = AfiItem(Family) /\ out'[3 * i - 1] = SafiItem(Family)
          /\ out'[3 * i] = ChoiceItem(Family)
      BY <1>5, <1>7, <1>8, <3>2
    <3>. QED
      BY <1>4, <3>2, <3>3 DEF Stands
  <2>. QED
    BY <2>2, <2>3
<1>. QED
  BY <1>1, <1>9 DEF WrittenInv

\* A whole call of the encoder writes the encoding of the value.
LEMMA EncodeMatches ==
  ASSUME IInv, IInv', Match, Encode
  PROVE  Match' /\ value' = value /\ value # NoValue
<1>1. pc \in {"encode", "encodingBlocks", "encodingFamily"} /\ value' = value
  BY DEF Encode, EncodeBlocks, EncodeInheritFamily, EncodeFamily, EncodeIntPrefix,
         EncodeIntRange, EncodeRawPrefix, EncodeRawRange, EncodeFamilyEnd,
         EncodeBlocksEnd, EncodingBlocks, EncodingEntry, WriteInts, WriteBytes, held
<1>2. value \in Value
  BY <1>1 DEF IInv, EncoderInv
<1>3. CASE EncodeBlocksEnd
  <2>1. /\ pc = "encodingBlocks" /\ pc' = "decode" /\ wire' = ArrayItem(out)
        /\ Len(out) = 3 * Len(value.families)
    BY <1>3 DEF EncodeBlocksEnd
  <2>2. out \in Seq(Nested2) /\ value.families \in Seq(IpFamily)
    BY <1>2, <2>1, ValueShapes DEF IInv, TypeOK
  <2>3. /\ wire'.type = "array" /\ wire'.len = 3 * Len(value.families)
        /\ wire'.items = out /\ Len(wire'.items) = wire'.len
    BY <2>1, <2>2, ArrayItemFacts
  <2>4. ASSUME NEW i \in 1 .. Len(value.families)
        PROVE  Stands(wire'.items, i, value.families[i])
    <3>1. 3 * i <= Len(out)
      BY <2>1, <2>2
    <3>. QED
      BY <2>1, <2>3, <3>1 DEF Match, WrittenInv
  <2>5. Carries(wire', value)
    BY <2>3, <2>4 DEF Carries
  <2>. QED
    BY <1>1, <1>2, <2>1, <2>5, ValueShapes DEF Match, WrittenInv, ReadInv
<1>4. CASE ~EncodeBlocksEnd
  <2>1. WrittenInv'
    BY <1>4, EncodeMatchesBetween, EncodeMatchesEntry, EncodeMatchesFamilyEnd DEF Encode
  <2>2. pc' \in {"encodingBlocks", "encodingFamily", "panicked"}
    BY <1>1, <1>4 DEF Encode, EncodeBlocks, EncodeInheritFamily, EncodeFamily, EncodeIntPrefix,
         EncodeIntRange, EncodeRawPrefix, EncodeRawRange, EncodeFamilyEnd,
         EncodingBlocks, EncodingEntry, WriteInts, WriteBytes, held
  <2>. QED
    BY <1>1, <1>2, <2>1, <2>2, ValueShapes DEF Match, ReadInv
<1>. QED
  BY <1>3, <1>4

-----------------------------------------------------------------------------
(* The decoder, on the encoding of a value whose addresses are of their    *)
(* families.                                                               *)

\* The decoder stands in front of the family that follows those it has read.
LEMMA AtPart ==
  ASSUME IInv, Match, value # NoValue, pc \in {"decodingBlocks", "decodingFamily"},
         Len(out) < wire.len \div 3
  PROVE  LET f == value.families[Len(out) + 1]
         IN  /\ Len(out) + 1 \in 1 .. Len(value.families) /\ f \in IpFamily
             /\ ReadsHead /\ Part(3) = ChoiceItem(f)
             /\ \A choice : FamilyOf(choice) = [afi |-> f.afi, safi |-> f.safi, choice |-> choice]
<1>. DEFINE fs == value.families
            n == Len(out)
            f == fs[n + 1]
<1>1. value \in Value
  BY DEF IInv, TypeOK
<1>2. fs \in Seq(IpFamily) /\ Len(fs) \in Nat
  BY <1>1, ValueShapes
<1>3. Carries(wire, value)
  BY DEF Match, ReadInv
<1>4. n \in Nat /\ wire.len \div 3 = Len(fs)
  <2>1. \A m \in Nat : (3 * m) \div 3 = m
    OBVIOUS
  <2>2. out \in Seq(IpFamily)
    BY WireFacts
  <2>3. wire.len = 3 * Len(fs)
    BY <1>3 DEF Carries
  <2>. HIDE DEF fs
  <2>4. wire.len \div 3 = Len(fs)
    BY <1>2, <2>1, <2>3
  <2>. QED
    BY <2>2, <2>4
<1>5. n + 1 \in 1 .. Len(fs) /\ f \in IpFamily
  BY <1>2, <1>4
<1>. HIDE DEF fs, n
<1>6. /\ 3 * (n + 1) - 2 = 3 * n + 1 /\ 3 * (n + 1) - 1 = 3 * n + 2 /\ 3 * (n + 1) = 3 * n + 3
      /\ 3 * n + 1 <= 3 * Len(fs) /\ 3 * n + 2 <= 3 * Len(fs) /\ 3 * n + 3 <= 3 * Len(fs)
  BY <1>2, <1>4, <1>5
<1>7. Stands(wire.items, n + 1, f)
  BY <1>3, <1>5 DEF Carries, fs
<1>8. Part(1) = AfiItem(f) /\ Part(2) = SafiItem(f) /\ Part(3) = ChoiceItem(f)
  BY <1>6, <1>7 DEF Stands, Part, n
<1>9. wire.len = 3 * Len(fs) /\ Len(wire.items) = 3 * Len(fs)
  BY <1>3 DEF Carries, fs
<1>10. HasPart(1) /\ HasPart(2) /\ HasPart(3)
  BY <1>6, <1>9 DEF HasPart, HasElement, n
<1>. HIDE DEF f
<1>11. /\ f.afi \in 0 .. U16Max /\ f.safi \in Safi /\ U16Max \in Nat
  BY <1>5, FamilyShapes, WidthAssumption DEF f
<1>12. /\ Part(1).type = "int" /\ Part(1).int = f.afi
       /\ f.safi = NoSafi => Part(2).type = "null"
       /\ f.safi # NoSafi => Part(2).type = "int" /\ Part(2).int = f.safi
  BY <1>8 DEF AfiItem, SafiItem, IntItem, NullItem
<1>13. f.safi # NoSafi => f.safi \in 0 .. U16Max
  BY <1>11 DEF Safi
<1>14. ReadsHead
  BY <1>10, <1>11, <1>12, <1>13 DEF ReadsHead, IsU16, IsInt, IsNull
<1>15. (IF IsNull(Part(2)) THEN NoSafi ELSE Part(2).int) = f.safi /\ Afi = f.afi
  BY <1>12 DEF IsNull, Afi
<1>. QED
  BY <1>5, <1>8, <1>14, <1>15 DEF FamilyOf, f, fs, n

\* What a family that fits its AFI holds.
LEMMA FitFamily ==
  ASSUME NEW f \in IpFamily, IsFit(f), f.choice.kind = "prefixes"
  PROVE  LET entries == f.choice.entries
         IN  /\ entries \in Seq(AnyEntry)
             /\ \A k \in 1 .. Len(entries) :
                  f.afi \in DOMAIN Width /\ entries[k] \in AddrEntry(f.afi)
             /\ ChoiceItem(f).type = "array" /\ ChoiceItem(f).len = Len(entries)
             /\ ChoiceItem(f).items = [k \in 1 .. Len(entries) |-> EncodedEntry(entries, k)]
             /\ Len(ChoiceItem(f).items) = Len(entries)
<1>. DEFINE entries == f.choice.entries
            items == [k \in 1 .. Len(entries) |-> EncodedEntry(entries, k)]
<1>1. entries \in Seq(AnyEntry)
  BY FamilyShapes
<1>2. ChoiceItem(f) = ArrayItem(items)
  BY DEF ChoiceItem, EncodedList
<1>3. Len(items) = Len(entries)
  <2>1. Len(entries) \in Nat
    BY <1>1
  <2>2. items \in [1 .. Len(entries) -> {EncodedEntry(entries, k) : k \in 1 .. Len(entries)}]
    OBVIOUS
  <2>. HIDE DEF items
  <2>. QED
    BY <2>1, <2>2, SeqOfFunction
<1>. HIDE DEF items
<1>4. ChoiceItem(f).type = "array" /\ ChoiceItem(f).len = Len(items) /\ ChoiceItem(f).items = items
  BY <1>2 DEF ArrayItem
<1>5. DOMAIN entries = 1 .. Len(entries)
  BY <1>1
<1>. QED
  BY <1>1, <1>3, <1>4, <1>5 DEF IsFit, items

\* A number in the integer form is read as the entry it was written for.
LEMMA ReadsIntEntry ==
  ASSUME NEW s \in Seq(AnyEntry), UsesIntForm(s), NEW k \in 1 .. Len(s),
         Afi \in DOMAIN Width, s[k] \in AddrEntry(Afi), first \in BOOLEAN,
         previous = Before(s, k), first = (k = 1),
         NEW item, item = EncodedEntry(s, k)
  PROVE  /\ s[k].kind = "prefix" =>
              LET abs    == NextAbsolute(previous, first, item.int)
                  framed == FramedFromAbsoluteInt(abs)
              IN  /\ ReadsIntPrefix(item) /\ ~ReadsIntRange(item)
                  /\ abs = LastNumber(s[k])
                  /\ AddrPrefix(BuildPrefix(Afi, framed.significant, framed.unused))
                        = MaskedEntry(s[k])
         /\ s[k].kind = "range" =>
              LET bounds == Bounds(item)
                  min == FramedFromAbsoluteInt(bounds.min).significant
                  max == FramedFromAbsoluteInt(bounds.max).significant
              IN  /\ ReadsIntRange(item) /\ ~ReadsIntPrefix(item)
                  /\ bounds.max = LastNumber(s[k])
                  /\ AddrRange(BuildAddr(Afi, min, 0), BuildAddr(Afi, max, Fill))
                        = MaskedEntry(s[k])
<1>. DEFINE e == s[k]
<1>1. k \in 1 .. Len(s) + 1 /\ e \in AnyEntry
  OBVIOUS
<1>2. previous \in U64
  BY <1>1, BeforeTyped
<1>3. item = IntEntry(e, previous, first)
  BY DEF EncodedEntry
<1>4. CASE e.kind = "prefix"
  <2>. DEFINE sig == PrefixToFramed(e.net).significant
              unused == PrefixToFramed(e.net).unused
              abs == AbsoluteIntFromFramed(sig, unused)
              delta == NextDelta(previous, first, abs)
  <2>1. sig \in Seq(Octet) /\ unused \in Nat /\ FitsIntForm(sig, unused)
    BY <1>1, <1>4, SignificantFacts, FitsWhenUsed
  <2>2. abs \in U64 /\ IsFramed(abs)
        /\ FramedFromAbsoluteInt(abs) = [significant |-> sig, unused |-> unused]
    BY <2>1, AbsoluteInU64, FramedInverse
  <2>3. abs = LastNumber(e) /\ abs = PrefixNumber(e)
    BY <1>4 DEF LastNumber, PrefixNumber
  <2>4. /\ FormsPrefix(Afi, sig, unused)
        /\ AddrPrefix(BuildPrefix(Afi, sig, unused)) = MaskedEntry(e)
    BY <1>4, PrefixInverse
  <2>. HIDE DEF abs, sig, unused
  <2>5. delta \in CborInt /\ NextAbsolute(previous, first, delta) = abs
    BY <1>2, <2>2, DeltaChainFacts
  <2>6. item = IntItem(delta)
    BY <1>3, <1>4, <2>3 DEF IntEntry
  <2>. HIDE DEF delta
  <2>7. item.type = "int" /\ item.int = delta
    BY <2>6 DEF IntItem
  <2>8. /\ FramedFromAbsoluteInt(abs).significant = sig
        /\ FramedFromAbsoluteInt(abs).unused = unused
    BY <2>2
  <2>9. ReadsIntPrefix(item)
    BY <2>2, <2>4, <2>5, <2>7, <2>8 DEF ReadsIntPrefix, IsCborInt, IsInt
  <2>10. ~ReadsIntRange(item)
    BY <2>7 DEF ReadsIntRange, IsPair, IsList
  <2>. QED
    BY <1>4, <2>3, <2>4, <2>5, <2>7, <2>8, <2>9, <2>10
<1>5. CASE e.kind = "range"
  <2>. DEFINE min == AddrToFramedTrimmed(e.min, 0)
              max == AddrToFramedTrimmed(e.max, Fill)
              minAbs == AbsoluteIntFromFramed(min, 0)
              maxAbs == AbsoluteIntFromFramed(max, 0)
              d1 == NextDelta(previous, first, minAbs)
              d2 == NextDelta(minAbs, FALSE, maxAbs)
  <2>1. /\ min \in Seq(Octet) /\ FitsIntForm(min, 0)
        /\ max \in Seq(Octet) /\ FitsIntForm(max, 0)
    BY <1>1, <1>5, SignificantFacts, FitsWhenUsed
  <2>2. /\ e = AddrRange(e.min, e.max)
        /\ e.min \in [1 .. Width[Afi] -> Octet] /\ e.max \in [1 .. Width[Afi] -> Octet]
    BY <1>5, EntryShapes
  <2>3. /\ FitsFamily(Afi, min) /\ BuildAddr(Afi, min, 0) = e.min
        /\ FitsFamily(Afi, max) /\ BuildAddr(Afi, max, Fill) = e.max
    BY <2>2, AddrInverse, OctetFacts
  <2>4. minAbs = MinNumber(e) /\ maxAbs = MaxNumber(e) /\ maxAbs = LastNumber(e)
    BY <1>5 DEF LastNumber, MinNumber, MaxNumber
  <2>. HIDE DEF min, max
  <2>5. 0 \in Nat
    OBVIOUS
  <2>6. /\ minAbs \in U64 /\ IsFramed(minAbs)
        /\ FramedFromAbsoluteInt(minAbs) = [significant |-> min, unused |-> 0]
    BY <2>1, <2>5, AbsoluteInU64, FramedInverse
  <2>7. /\ maxAbs \in U64 /\ IsFramed(maxAbs)
        /\ FramedFromAbsoluteInt(maxAbs) = [significant |-> max, unused |-> 0]
    BY <2>1, <2>5, AbsoluteInU64, FramedInverse
  <2>. HIDE DEF minAbs, maxAbs
  <2>8. /\ d1 \in CborInt /\ NextAbsolute(previous, first, d1) = minAbs
        /\ d2 \in CborInt /\ NextAbsolute(minAbs, FALSE, d2) = maxAbs
    BY <1>2, <2>6, <2>7, DeltaChainFacts
  <2>9. item = ArrayItem(<<IntItem(d1), IntItem(d2)>>)
    BY <1>3, <1>5, <2>4 DEF IntEntry
  <2>. HIDE DEF d1, d2
  <2>10. /\ item.type = "array" /\ item.len = 2 /\ Len(item.items) = 2
         /\ item.items[1].type = "int" /\ item.items[1].int = d1
         /\ item.items[2].type = "int" /\ item.items[2].int = d2
    BY <2>9 DEF ArrayItem, IntItem
  <2>11. Bounds(item).min = minAbs /\ Bounds(item).max = maxAbs
    BY <2>8, <2>10 DEF Bounds
  <2>12. /\ FramedFromAbsoluteInt(minAbs).significant = min
         /\ FramedFromAbsoluteInt(maxAbs).significant = max
    BY <2>6, <2>7
  <2>13. ReadsIntRange(item)
    BY <2>3, <2>6, <2>7, <2>8, <2>10, <2>11, <2>12
    DEF ReadsIntRange, IsPair, IsList, IsCborInt, IsInt
  <2>14. ~ReadsIntPrefix(item)
    BY <2>10 DEF ReadsIntPrefix, IsCborInt, IsInt
  <2>15. MaskedEntry(e) = e
    BY <1>5 DEF MaskedEntry
  <2>. QED
    BY <1>5, <2>2, <2>3, <2>4, <2>11, <2>12, <2>13, <2>14, <2>15
<1>. QED
  BY <1>1, <1>4, <1>5, SignificantFacts

\* A byte string of the raw form is read as the entry it was written for.
LEMMA ReadsRawEntry ==
  ASSUME Afi \in DOMAIN Width, NEW e \in AddrEntry(Afi),
         NEW item, item = RawEntry(e)
  PROVE  /\ e.kind = "prefix" =>
              /\ ReadsRawPrefix(item) /\ ~ReadsRawRange(item)
              /\ AddrPrefix(BuildPrefix(Afi, Tail(item.bytes), Head(item.bytes))) = MaskedEntry(e)
         /\ e.kind = "range" =>
              /\ ReadsRawRange(item) /\ ~ReadsRawPrefix(item)
              /\ AddrRange(BuildAddr(Afi, Tail(item.items[1].bytes), 0),
                           BuildAddr(Afi, Tail(item.items[2].bytes), Fill)) = MaskedEntry(e)
<1>0. ASSUME NEW s \in Seq(Octet), NEW u \in Octet
      PROVE  /\ <<u>> \o s # <<>> /\ Head(<<u>> \o s) = u /\ Tail(<<u>> \o s) = s
  <2>. DEFINE t == <<u>> \o s
              n == Len(s)
  <2>1. <<u>> \in Seq(Octet) /\ Len(<<u>>) = 1 /\ <<u>>[1] = u
    OBVIOUS
  <2>2. t \in Seq(Octet) /\ Len(t) = Len(<<u>>) + n
    BY <2>1, Concatenated
  <2>3. /\ \A i \in 1 .. Len(<<u>>) : t[i] = <<u>>[i]
        /\ \A i \in 1 .. n : t[Len(<<u>>) + i] = s[i]
    BY <2>1, KeptByConcat
  <2>. HIDE DEF t
  <2>4. n \in Nat /\ Len(t) = n + 1 /\ t[1] = u /\ \A i \in 1 .. n : t[1 + i] = s[i]
    BY <2>1, <2>2, <2>3
  <2>5. t # <<>> /\ Head(t) = u
    BY <2>2, <2>4
  <2>6. Tail(t) \in Seq(Octet) /\ Len(Tail(t)) = n
    BY <2>2, <2>4, <2>5
  <2>7. \A i \in 1 .. n : Tail(t)[i] = t[1 + i]
    BY <2>2, <2>4, <2>5
  <2>8. \A i \in 1 .. Len(Tail(t)) : Tail(t)[i] = s[i]
    BY <2>4, <2>6, <2>7
  <2>9. s = [i \in 1 .. Len(Tail(t)) |-> s[i]]
    BY <2>6
  <2>10. Tail(t) = s
    BY <2>6, <2>8, <2>9, SameSeq
  <2>. QED
    BY <2>5, <2>10 DEF t
<1>1. CASE e.kind = "prefix"
  <2>. DEFINE sig == PrefixToFramed(e.net).significant
              unused == PrefixToFramed(e.net).unused
  <2>1. e \in AnyEntry
    BY FamilyEntry
  <2>2. sig \in Seq(Octet) /\ unused \in Octet
    <3>1. sig \in Seq(Octet) /\ unused \in Nat /\ unused + 1 \in Octet
      BY <1>1, <2>1, SignificantFacts
    <3>. HIDE DEF sig, unused
    <3>. QED
      BY <3>1, OctetAssumption DEF Octet
  <2>3. /\ FormsPrefix(Afi, sig, unused)
        /\ AddrPrefix(BuildPrefix(Afi, sig, unused)) = MaskedEntry(e)
    BY <1>1, PrefixInverse
  <2>4. item = BytesItem(<<unused>> \o sig)
    BY <1>1 DEF RawEntry
  <2>. HIDE DEF sig, unused
  <2>5. item.type = "bytes" /\ item.bytes = <<unused>> \o sig
    BY <2>4 DEF BytesItem
  <2>6. item.bytes # <<>> /\ Head(item.bytes) = unused /\ Tail(item.bytes) = sig
    BY <1>0, <2>2, <2>5
  <2>7. ReadsRawPrefix(item)
    BY <2>3, <2>5, <2>6 DEF ReadsRawPrefix, IsBytes
  <2>8. ~ReadsRawRange(item)
    BY <2>5 DEF ReadsRawRange, IsPair, IsList
  <2>. QED
    BY <1>1, <2>3, <2>6, <2>7, <2>8
<1>2. CASE e.kind = "range"
  <2>. DEFINE min == AddrToFramedTrimmed(e.min, 0)
              max == AddrToFramedTrimmed(e.max, Fill)
              b1 == <<0>> \o min
              b2 == <<0>> \o max
  <2>1. e \in AnyEntry
    BY FamilyEntry
  <2>2. min \in Seq(Octet) /\ max \in Seq(Octet)
    BY <1>2, <2>1, SignificantFacts
  <2>3. /\ e = AddrRange(e.min, e.max)
        /\ e.min \in [1 .. Width[Afi] -> Octet] /\ e.max \in [1 .. Width[Afi] -> Octet]
    BY <1>2, EntryShapes
  <2>4. /\ FitsFamily(Afi, min) /\ BuildAddr(Afi, min, 0) = e.min
        /\ FitsFamily(Afi, max) /\ BuildAddr(Afi, max, Fill) = e.max
    BY <2>3, AddrInverse, OctetFacts
  <2>5. item = ArrayItem(<<BytesItem(b1), BytesItem(b2)>>)
    BY <1>2 DEF RawEntry
  <2>. HIDE DEF min, max
  <2>6. /\ b1 # <<>> /\ Head(b1) = 0 /\ Tail(b1) = min
        /\ b2 # <<>> /\ Head(b2) = 0 /\ Tail(b2) = max
    BY <1>0, <2>2, OctetFacts
  <2>. HIDE DEF b1, b2
  <2>7. /\ item.type = "array" /\ item.len = 2 /\ Len(item.items) = 2
        /\ item.items[1].type = "bytes" /\ item.items[1].bytes = b1
        /\ item.items[2].type = "bytes" /\ item.items[2].bytes = b2
    BY <2>5 DEF ArrayItem, BytesItem
  <2>8. IsPair(item)
    BY <2>7 DEF IsPair, IsList
  <2>9. ASSUME NEW i \in 1 .. 2
        PROVE  /\ IsBytes(item.items[i]) /\ item.items[i].bytes # <<>>
               /\ Head(item.items[i].bytes) = 0
               /\ FitsFamily(Afi, Tail(item.items[i].bytes))
    <3>1. i = 1 \/ i = 2
      OBVIOUS
    <3>. QED
      BY <2>4, <2>6, <2>7, <3>1 DEF IsBytes
  <2>10. ReadsRawRange(item)
    BY <2>8, <2>9 DEF ReadsRawRange
  <2>11. ~ReadsRawPrefix(item)
    BY <2>7 DEF ReadsRawPrefix, IsBytes
  <2>12. MaskedEntry(e) = e
    BY <1>2 DEF MaskedEntry
  <2>. QED
    BY <1>2, <2>3, <2>4, <2>6, <2>7, <2>10, <2>11, <2>12
<1>. QED
  BY <1>1, <1>2, EntryShapes

\* Inside a family, the decoder is at the encoding of the family's next entry.
LEMMA AtEntry ==
  ASSUME IInv, Match, value # NoValue, AllFit(value), pc = "decodingFamily"
  PROVE  LET f == value.families[Len(out) + 1]
             entries == f.choice.entries
             k == Len(inner) + 1
         IN  /\ Len(out) < wire.len \div 3
             /\ f \in IpFamily /\ IsFit(f) /\ f.choice.kind = "prefixes" /\ Afi = f.afi
             /\ entries \in Seq(AnyEntry) /\ Part(3).len = Len(entries)
             /\ intForm = UsesIntForm(entries)
             /\ \A i \in 1 .. Len(inner) : inner[i] = MaskedEntry(entries[i])
             /\ inner = <<>> \/ inner \in Seq(AddrEntry(Afi))
             /\ k <= Part(3).len =>
                  /\ HasCurrent /\ k \in 1 .. Len(entries)
                  /\ Afi \in DOMAIN Width /\ entries[k] \in AddrEntry(Afi)
                  /\ Current = EncodedEntry(entries, k)
                  /\ intForm => /\ previous = Before(entries, k)
                                /\ first = (k = 1)
<1>. DEFINE n == Len(out)
            f == value.families[n + 1]
            entries == f.choice.entries
            k == Len(inner) + 1
<1>1. n < wire.len \div 3
  BY DEF IInv, DecoderInv
<1>2. /\ n + 1 \in 1 .. Len(value.families) /\ f \in IpFamily
      /\ Part(3) = ChoiceItem(f)
  BY <1>1, AtPart
<1>3. Afi = f.afi
  <2>1. FamilyOf(Inherit) = [afi |-> f.afi, safi |-> f.safi, choice |-> Inherit]
    BY <1>1, AtPart
  <2>2. FamilyOf(Inherit).afi = Afi
    BY DEF FamilyOf
  <2>. HIDE DEF f
  <2>. QED
    BY <2>1, <2>2
<1>4. IsFit(f)
  <2>1. value.families \in Seq(IpFamily)
    BY ValueShapes DEF IInv, TypeOK
  <2>. QED
    BY <1>2, <2>1 DEF AllFit
<1>5. /\ f.choice.kind = "prefixes" /\ intForm = UsesIntForm(entries)
      /\ \A i \in 1 .. Len(inner) : inner[i] = MaskedEntry(entries[i])
      /\ intForm => previous = Before(entries, k) /\ first = (Len(inner) = 0)
  BY DEF Match, ReadInv
<1>6. /\ entries \in Seq(AnyEntry)
      /\ \A i \in 1 .. Len(entries) : f.afi \in DOMAIN Width /\ entries[i] \in AddrEntry(f.afi)
      /\ Part(3).len = Len(entries) /\ Len(Part(3).items) = Len(entries)
      /\ Part(3).items = [i \in 1 .. Len(entries) |-> EncodedEntry(entries, i)]
  BY <1>2, <1>4, <1>5, FitFamily
<1>7. /\ inner = <<>> \/ inner \in Seq(AddrEntry(Afi))
      /\ Len(inner) \in Nat
  BY ListFacts
<1>. HIDE DEF entries, f
<1>8. ASSUME k <= Part(3).len
      PROVE  /\ HasCurrent /\ k \in 1 .. Len(entries)
             /\ Afi \in DOMAIN Width /\ entries[k] \in AddrEntry(Afi)
             /\ Current = EncodedEntry(entries, k)
             /\ intForm => previous = Before(entries, k) /\ first = (k = 1)
  <2>1. k \in 1 .. Len(entries) /\ (k = 1 <=> Len(inner) = 0)
    BY <1>6, <1>7, <1>8
  <2>2. HasCurrent
    BY <1>6, <1>8 DEF HasCurrent, HasElement, Position
  <2>3. Current = EncodedEntry(entries, k)
    BY <1>6, <2>1 DEF Current, Position
  <2>. HIDE DEF k
  <2>4. intForm => previous = Before(entries, k)
    BY <1>5
  <2>5. intForm => first = (k = 1)
    BY <1>5, <2>1, Zenon
  <2>. QED
    BY <1>3, <1>6, <2>1, <2>2, <2>3, <2>4, <2>5
<1>. QED
  BY <1>1, <1>2, <1>3, <1>4, <1>5, <1>6, <1>7, <1>8 DEF entries, f

\* There, one step reads the entry without its host bits, and none refuses it.
LEMMA ReadsBack ==
  ASSUME IInv, Match, value # NoValue, AllFit(value),
         DecodeIntPrefix \/ DecodeIntRange \/ DecodeRawPrefix \/ DecodeRawRange
  PROVE  LET e == value.families[Len(out) + 1].choice.entries[Len(inner) + 1]
         IN  /\ pc = "decodingFamily" /\ pc' = pc /\ Len(inner) + 1 <= Part(3).len
             /\ inner' = Append(inner, MaskedEntry(e))
             /\ UNCHANGED <<value, wire, out, intForm>>
             /\ intForm => previous' = LastNumber(e) /\ first' = FALSE
<1>. DEFINE entries == value.families[Len(out) + 1].choice.entries
            k == Len(inner) + 1
            e == entries[k]
<1>1. pc = "decodingFamily" /\ HasCurrent
  BY DEF DecodeIntPrefix, DecodeIntRange, DecodeRawPrefix, DecodeRawRange, HasCurrent
<1>2. k <= Part(3).len
  BY <1>1 DEF HasCurrent, HasElement, Position
<1>3. /\ entries \in Seq(AnyEntry) /\ intForm = UsesIntForm(entries)
      /\ k \in 1 .. Len(entries) /\ Afi \in DOMAIN Width /\ e \in AddrEntry(Afi)
      /\ Current = EncodedEntry(entries, k)
      /\ intForm => previous = Before(entries, k) /\ first = (k = 1)
  BY <1>1, <1>2, AtEntry
<1>4. first \in BOOLEAN /\ e.kind \in {"prefix", "range"}
  BY <1>3, EntryShapes DEF IInv, TypeOK
<1>. HIDE DEF entries, k
<1>5. CASE intForm
  <2>. DEFINE abs    == NextAbsolute(previous, first, Current.int)
              framed == FramedFromAbsoluteInt(abs)
              bounds == Bounds(Current)
              min    == FramedFromAbsoluteInt(bounds.min).significant
              max    == FramedFromAbsoluteInt(bounds.max).significant
  <2>1. /\ e.kind = "prefix" =>
             /\ ReadsIntPrefix(Current) /\ ~ReadsIntRange(Current)
             /\ abs = LastNumber(e)
             /\ AddrPrefix(BuildPrefix(Afi, framed.significant, framed.unused)) = MaskedEntry(e)
        /\ e.kind = "range" =>
             /\ ReadsIntRange(Current) /\ ~ReadsIntPrefix(Current)
             /\ bounds.max = LastNumber(e)
             /\ AddrRange(BuildAddr(Afi, min, 0), BuildAddr(Afi, max, Fill)) = MaskedEntry(e)
    BY <1>3, <1>4, <1>5, ReadsIntEntry
  <2>2. DecodeIntPrefix =>
          PushInt(AddrPrefix(BuildPrefix(Afi, framed.significant, framed.unused)), abs)
    BY DEF DecodeIntPrefix
  <2>3. DecodeIntRange =>
          PushInt(AddrRange(BuildAddr(Afi, min, 0), BuildAddr(Afi, max, Fill)), bounds.max)
    BY DEF DecodeIntRange
  <2>. HIDE DEF abs, framed, bounds, min, max, e
  <2>4. \/ DecodeIntPrefix /\ ReadsIntPrefix(Current)
        \/ DecodeIntRange /\ ReadsIntRange(Current)
    BY <1>5 DEF DecodeIntPrefix, DecodeIntRange, DecodeRawPrefix, DecodeRawRange
  <2>5. PushInt(MaskedEntry(e), LastNumber(e))
    BY <1>4, <2>1, <2>2, <2>3, <2>4
  <2>. QED
    BY <1>1, <1>2, <2>5 DEF PushInt, held, e, entries, k
<1>6. CASE ~intForm
  <2>. DEFINE prefix == AddrPrefix(BuildPrefix(Afi, Tail(Current.bytes), Head(Current.bytes)))
              range  == AddrRange(BuildAddr(Afi, Tail(Current.items[1].bytes), 0),
                                  BuildAddr(Afi, Tail(Current.items[2].bytes), Fill))
  <2>1. Current = RawEntry(e)
    BY <1>3, <1>6 DEF EncodedEntry
  <2>2. /\ e.kind = "prefix" =>
             ReadsRawPrefix(Current) /\ ~ReadsRawRange(Current) /\ prefix = MaskedEntry(e)
        /\ e.kind = "range" =>
             ReadsRawRange(Current) /\ ~ReadsRawPrefix(Current) /\ range = MaskedEntry(e)
    BY <1>3, <2>1, ReadsRawEntry
  <2>3. /\ DecodeRawPrefix => PushRaw(prefix)
        /\ DecodeRawRange => PushRaw(range)
    BY DEF DecodeRawPrefix, DecodeRawRange
  <2>. HIDE DEF prefix, range, e
  <2>4. \/ DecodeRawPrefix /\ ReadsRawPrefix(Current)
        \/ DecodeRawRange /\ ReadsRawRange(Current)
    BY <1>6 DEF DecodeIntPrefix, DecodeIntRange, DecodeRawPrefix, DecodeRawRange
  <2>5. PushRaw(MaskedEntry(e))
    BY <1>4, <2>2, <2>3, <2>4
  <2>. QED
    BY <1>1, <1>2, <1>6, <2>5 DEF PushRaw, held, chain, e, entries, k
<1>. QED
  BY <1>5, <1>6

LEMMA EntryNotRefused ==
  ASSUME IInv, Match, value # NoValue, AllFit(value)
  PROVE  ~RefuseEntry
<1>. SUFFICES ASSUME RefuseEntry PROVE FALSE
  OBVIOUS
<1>. DEFINE entries == value.families[Len(out) + 1].choice.entries
            k == Len(inner) + 1
            e == entries[k]
<1>1. pc = "decodingFamily" /\ k <= Part(3).len
  BY DEF RefuseEntry, Position
<1>3. /\ entries \in Seq(AnyEntry) /\ intForm = UsesIntForm(entries) /\ HasCurrent
      /\ k \in 1 .. Len(entries) /\ Afi \in DOMAIN Width /\ e \in AddrEntry(Afi)
      /\ Current = EncodedEntry(entries, k)
      /\ intForm => previous = Before(entries, k) /\ first = (k = 1)
  BY <1>1, AtEntry
<1>4. first \in BOOLEAN /\ e.kind \in {"prefix", "range"}
  BY <1>3, EntryShapes DEF IInv, TypeOK
<1>. HIDE DEF entries, k
<1>5. IF intForm THEN ~ReadsIntPrefix(Current) /\ ~ReadsIntRange(Current)
                 ELSE ~ReadsRawPrefix(Current) /\ ~ReadsRawRange(Current)
  BY <1>3 DEF RefuseEntry
<1>6. CASE intForm
  <2>1. /\ e.kind = "prefix" => ReadsIntPrefix(Current)
        /\ e.kind = "range" => ReadsIntRange(Current)
    BY <1>3, <1>4, <1>6, ReadsIntEntry
  <2>. QED
    BY <1>4, <1>5, <1>6, <2>1
<1>7. CASE ~intForm
  <2>1. Current = RawEntry(e)
    BY <1>3, <1>7 DEF EncodedEntry
  <2>2. /\ e.kind = "prefix" => ReadsRawPrefix(Current)
        /\ e.kind = "range" => ReadsRawRange(Current)
    BY <1>3, <2>1, ReadsRawEntry
  <2>. QED
    BY <1>4, <1>5, <1>7, <2>2
<1>. QED
  BY <1>6, <1>7

LEMMA DecodeMatchesEntry ==
  ASSUME IInv, Match,
         DecodeIntPrefix \/ DecodeIntRange \/ DecodeRawPrefix \/ DecodeRawRange
  PROVE  Match' /\ value' = value
<1>. DEFINE f == value.families[Len(out) + 1]
            entries == f.choice.entries
            n == Len(inner)
            item == MaskedEntry(entries[n + 1])
<1>1. pc = "decodingFamily" /\ pc' = pc /\ UNCHANGED <<value, wire, out, intForm>>
  BY DEF DecodeIntPrefix, DecodeIntRange, DecodeRawPrefix, DecodeRawRange, HasCurrent,
         PushInt, PushRaw, held, chain
<1>2. WrittenInv'
  BY <1>1 DEF WrittenInv
<1>3. CASE value = NoValue
  BY <1>1, <1>2, <1>3 DEF Match, ReadInv
<1>4. CASE value # NoValue /\ ~AllFit(value)
  BY <1>1, <1>2, <1>4 DEF Match, ReadInv
<1>5. CASE value # NoValue /\ AllFit(value)
  <2>1. /\ n + 1 <= Part(3).len /\ inner' = Append(inner, item)
        /\ intForm => previous' = LastNumber(entries[n + 1]) /\ first' = FALSE
    BY <1>5, ReadsBack
  <2>2. /\ Afi \in DOMAIN Width /\ entries[n + 1] \in AddrEntry(Afi)
        /\ inner = <<>> \/ inner \in Seq(AddrEntry(Afi))
        /\ f.choice.kind = "prefixes" /\ intForm = UsesIntForm(entries)
        /\ \A i \in 1 .. n : inner[i] = MaskedEntry(entries[i])
    BY <1>1, <1>5, <2>1, AtEntry
  <2>3. item \in AddrEntry(Afi) /\ inner \in Seq(AddrEntry(Afi))
    <3>1. <<>> \in Seq(AddrEntry(Afi))
      OBVIOUS
    <3>2. inner \in Seq(AddrEntry(Afi))
      BY <2>2, <3>1
    <3>. QED
      BY <2>2, <3>2, MaskedEntryFacts
  <2>. HIDE DEF item, f
  <2>4. n \in Nat /\ Len(inner') = n + 1 /\ inner'[n + 1] = item
        /\ \A i \in 1 .. n : inner'[i] = inner[i]
    BY <2>1, <2>3
  <2>5. ASSUME NEW i \in 1 .. Len(inner') PROVE inner'[i] = MaskedEntry(entries[i])
    <3>1. CASE i \in 1 .. n
      BY <2>2, <2>4, <3>1
    <3>2. CASE i = n + 1
      BY <2>4, <3>2 DEF item
    <3>. QED
      BY <2>4, <3>1, <3>2
  <2>6. intForm => previous' = Before(entries, Len(inner') + 1)
    BY <2>1, <2>4, BeforeNext
  <2>7. intForm => first' = (Len(inner') = 0)
    <3>1. (Len(inner') = 0) = FALSE
      BY <2>4
    <3>. QED
      BY <2>1, <3>1, Zenon
  <2>8. Carries(wire, value) /\ \A i \in 1 .. Len(out) : out[i] = MaskedFamily(value.families[i])
    BY <1>1, <1>5 DEF Match, ReadInv
  <2>. HIDE DEF n
  <2>. QED
    BY <1>1, <1>2, <2>2, <2>5, <2>6, <2>7, <2>8 DEF Match, ReadInv, f
<1>. QED
  BY <1>1, <1>3, <1>4, <1>5

\* Clearing the host bits of a family, and what that keeps.
LEMMA MaskedFamilyFacts ==
  ASSUME NEW f \in IpFamily, IsFit(f)
  PROVE  /\ f.choice.kind = "inherit" =>
              MaskedFamily(f) = [afi |-> f.afi, safi |-> f.safi, choice |-> Inherit]
         /\ f.choice.kind = "prefixes" =>
              MaskedFamily(f) =
                [afi |-> f.afi, safi |-> f.safi,
                 choice |-> EntryList([i \in 1 .. Len(f.choice.entries) |->
                                         MaskedEntry(f.choice.entries[i])])]
         /\ MaskedFamily(f) \in IpFamily /\ IsFit(MaskedFamily(f))
         /\ MaskedFamily(MaskedFamily(f)) = MaskedFamily(f)
<1>. DEFINE c == f.choice
            afi == f.afi
            safi == f.safi
<1>1. /\ afi \in 0 .. U16Max /\ safi \in Safi
      /\ f = [afi |-> afi, safi |-> safi, choice |-> c]
      /\ c.kind \in {"inherit", "prefixes"}
  BY FamilyShapes
<1>2. CASE c.kind = "inherit"
  <2>1. MaskedFamily(f) = f /\ c = Inherit
    BY <1>2, FamilyShapes DEF MaskedFamily
  <2>. QED
    BY <1>1, <1>2, <2>1
<1>3. CASE c.kind = "prefixes"
  <2>. DEFINE entries == c.entries
              n == Len(entries)
              masked == [i \in 1 .. n |-> MaskedEntry(entries[i])]
              again == [i \in 1 .. n |-> MaskedEntry(masked[i])]
              g == [afi |-> afi, safi |-> safi, choice |-> EntryList(masked)]
  <2>1. /\ entries \in Seq(AnyEntry) /\ c = EntryList(entries)
        /\ n \in Nat /\ DOMAIN entries = 1 .. n
    BY <1>3, FamilyShapes
  <2>2. \A i \in 1 .. n : afi \in DOMAIN Width /\ entries[i] \in AddrEntry(afi)
    BY <1>3, <2>1 DEF IsFit
  <2>3. MaskedFamily(f) = [f EXCEPT !.choice.entries = [i \in DOMAIN @ |-> MaskedEntry(@[i])]]
    BY <1>3 DEF MaskedFamily
  <2>4. [f EXCEPT !.choice.entries = [i \in DOMAIN @ |-> MaskedEntry(@[i])]]
          = [f EXCEPT !.choice = [c EXCEPT !.entries = masked]]
    BY <2>1
  <2>. HIDE DEF masked, c, afi, safi
  <2>5. [c EXCEPT !.entries = masked] = EntryList(masked)
    BY <2>1 DEF EntryList
  <2>6. [f EXCEPT !.choice = EntryList(masked)] = g
    BY <1>1
  <2>7. MaskedFamily(f) = g
    BY <2>3, <2>4, <2>5, <2>6
  <2>8. \A i \in 1 .. n : /\ masked[i] = MaskedEntry(entries[i])
                          /\ masked[i] \in AddrEntry(afi) /\ afi \in DOMAIN Width
                          /\ MaskedEntry(masked[i]) = masked[i]
    BY <2>2, MaskedEntryFacts DEF masked
  <2>9. masked = [i \in 1 .. n |-> masked[i]]
    BY DEF masked
  <2>10. \A i \in 1 .. n : masked[i] \in AnyEntry
    BY <2>8, FamilyEntry
  <2>11. masked \in [1 .. n -> AnyEntry]
    BY <2>9, <2>10, Zenon
  <2>12. masked \in Seq(AnyEntry) /\ Len(masked) = n /\ DOMAIN masked = 1 .. n
    BY <2>1, <2>11, SeqOfFunction
  <2>13. again = masked
    BY <2>8, <2>9, Zenon
  <2>. HIDE DEF n, entries
  <2>14. /\ g.choice = EntryList(masked) /\ g.choice.kind = "prefixes"
         /\ g.choice.entries = masked /\ g.afi = afi /\ g.safi = safi
    BY DEF EntryList
  <2>15. EntryList(masked) \in [kind : {"prefixes"}, entries : Seq(AnyEntry)]
    BY <2>12 DEF EntryList
  <2>16. g \in IpFamily
    BY <1>1, <2>15 DEF IpFamily
  <2>. HIDE DEF g
  <2>17. IsFit(g)
    BY <2>8, <2>12, <2>14 DEF IsFit
  <2>18. MaskedFamily(g) = [g EXCEPT !.choice.entries = [i \in DOMAIN @ |-> MaskedEntry(@[i])]]
    BY <2>14 DEF MaskedFamily
  <2>19. [g EXCEPT !.choice.entries = [i \in DOMAIN @ |-> MaskedEntry(@[i])]]
           = [g EXCEPT !.choice = [EntryList(masked) EXCEPT !.entries = again]]
    BY <2>12, <2>14
  <2>20. [EntryList(masked) EXCEPT !.entries = again] = EntryList(masked)
    <3>. HIDE DEF again
    <3>. QED
      BY <2>13 DEF EntryList
  <2>21. [g EXCEPT !.choice = EntryList(masked)] = g
    BY DEF g
  <2>22. MaskedFamily(g) = g
    BY <2>18, <2>19, <2>20, <2>21
  <2>23. c.kind # "inherit"
    BY <1>3
  <2>. QED
    BY <2>7, <2>16, <2>17, <2>22, <2>23 DEF g, masked, n, entries, c, afi, safi
<1>. QED
  BY <1>1, <1>2, <1>3

\* The first element of a list that is not empty: the probe reads it, and finds
\* a number exactly in the integer form.
LEMMA FirstOfList ==
  ASSUME NEW s \in Seq(AnyEntry), Len(s) > 0,
         NEW list, list.type = "array", list.len = Len(s), Len(list.items) = Len(s),
         list.items = [k \in 1 .. Len(s) |-> EncodedEntry(s, k)]
  PROVE  ProbeSucceeds(list) /\ (IsIntForm(list) <=> UsesIntForm(s))
<1>. DEFINE x == EncodedEntry(s, 1)
<1>1. 1 \in 1 .. Len(s) /\ s[1] \in AnyEntry
  OBVIOUS
<1>2. list.items[1] = x /\ HasElement(list, 1)
  BY <1>1 DEF HasElement
<1>3. s[1].kind \in {"prefix", "range"}
  BY <1>1, SignificantFacts
<1>4. CASE UsesIntForm(s)
  <2>1. x = IntEntry(s[1], Before(s, 1), 1 = 1)
    BY <1>4 DEF EncodedEntry
  <2>2. CASE s[1].kind = "prefix"
    <3>1. x.type = "int"
      BY <2>1, <2>2 DEF IntEntry, IntItem
    <3>. HIDE DEF x
    <3>. QED
      BY <1>2, <1>4, <3>1 DEF ProbeSucceeds, IsIntForm, IsAnyArray, IsInt
  <2>3. CASE s[1].kind = "range"
    <3>1. /\ x.type = "array" /\ x.len = 2 /\ Len(x.items) = 2
          /\ x.items[1].type = "int"
      BY <2>1, <2>3 DEF IntEntry, ArrayItem, IntItem
    <3>. HIDE DEF x
    <3>. QED
      BY <1>2, <1>4, <3>1 DEF ProbeSucceeds, IsIntForm, IsAnyArray, IsInt, IsList, HasElement
  <2>. QED
    BY <1>3, <2>2, <2>3
<1>5. CASE ~UsesIntForm(s)
  <2>1. x = RawEntry(s[1])
    BY <1>5 DEF EncodedEntry
  <2>2. CASE s[1].kind = "prefix"
    <3>1. x.type = "bytes"
      BY <2>1, <2>2 DEF RawEntry, BytesItem
    <3>. HIDE DEF x
    <3>. QED
      BY <1>2, <1>5, <3>1 DEF ProbeSucceeds, IsIntForm, IsAnyArray, IsInt
  <2>3. CASE s[1].kind = "range"
    <3>1. /\ x.type = "array" /\ x.len = 2 /\ Len(x.items) = 2
          /\ x.items[1].type = "bytes"
      BY <2>1, <2>3 DEF RawEntry, ArrayItem, BytesItem
    <3>. HIDE DEF x
    <3>. QED
      BY <1>2, <1>5, <3>1 DEF ProbeSucceeds, IsIntForm, IsAnyArray, IsInt, IsList, HasElement
  <2>. QED
    BY <1>3, <2>2, <2>3
<1>. QED
  BY <1>4, <1>5

\* In front of a family that fits, no step refuses it.
LEMMA FamilyNotRefused ==
  ASSUME IInv, Match, value # NoValue, AllFit(value)
  PROVE  ~RefuseFamily
<1>. SUFFICES ASSUME RefuseFamily PROVE FALSE
  OBVIOUS
<1>. DEFINE f == value.families[Len(out) + 1]
<1>1. pc = "decodingBlocks" /\ Len(out) < wire.len \div 3
  BY DEF RefuseFamily, DecodingBlocks
<1>2. /\ Len(out) + 1 \in 1 .. Len(value.families) /\ f \in IpFamily
      /\ ReadsHead /\ Part(3) = ChoiceItem(f)
  BY <1>1, AtPart
<1>3. IsFit(f)
  <2>1. value.families \in Seq(IpFamily)
    BY ValueShapes DEF IInv, TypeOK
  <2>. QED
    BY <1>2, <2>1 DEF AllFit
<1>4. ~IsNull(Part(3)) /\ (IsList(Part(3)) => Part(3).len > 0 /\ ~ProbeSucceeds(Part(3)))
  BY <1>2 DEF RefuseFamily
<1>. HIDE DEF f
<1>5. CASE f.choice.kind = "inherit"
  BY <1>2, <1>4, <1>5 DEF ChoiceItem, IsNull, NullItem
<1>6. CASE f.choice.kind = "prefixes"
  <2>. DEFINE entries == f.choice.entries
              list == ChoiceItem(f)
  <2>1. /\ entries \in Seq(AnyEntry) /\ list.type = "array" /\ list.len = Len(entries)
        /\ Len(list.items) = Len(entries)
        /\ list.items = [k \in 1 .. Len(entries) |-> EncodedEntry(entries, k)]
    BY <1>2, <1>3, <1>6, FitFamily
  <2>. HIDE DEF entries, list
  <2>2. list.len > 0 /\ ~ProbeSucceeds(list)
    BY <1>2, <1>4, <2>1 DEF IsList, list
  <2>. QED
    BY <2>1, <2>2, FirstOfList
<1>. QED
  BY <1>2, <1>5, <1>6, FamilyShapes

\* A family that is read goes behind those read before.
LEMMA PushMatches ==
  ASSUME IInv, IInv', Match, pc \in {"decodingBlocks", "decodingFamily"},
         Len(out) < wire.len \div 3, NEW choice, PushFamily(choice),
         value # NoValue /\ AllFit(value) =>
           FamilyOf(choice) = MaskedFamily(value.families[Len(out) + 1])
  PROVE  Match' /\ value' = value
<1>. DEFINE n == Len(out)
            item == FamilyOf(choice)
<1>1. pc' = "decodingBlocks" /\ out' = Append(out, item) /\ UNCHANGED <<value, wire>>
  BY DEF PushFamily, held
<1>2. WrittenInv'
  BY <1>1 DEF WrittenInv
<1>3. CASE value = NoValue \/ ~AllFit(value)
  BY <1>1, <1>2, <1>3 DEF Match, ReadInv
<1>4. CASE value # NoValue /\ AllFit(value)
  <2>1. out \in Seq(IpFamily) /\ out' \in Seq(IpFamily)
    <3>1. out' \in Seq(IpFamily)
      BY <1>1 DEF IInv, TypeOK
    <3>. QED
      BY <3>1, WireFacts
  <2>. HIDE DEF item
  <2>2. n \in Nat /\ Len(out') = n + 1 /\ out'[n + 1] = item
        /\ \A i \in 1 .. n : out'[i] = out[i]
    BY <1>1, <2>1
  <2>3. ASSUME NEW i \in 1 .. Len(out') PROVE out'[i] = MaskedFamily(value.families[i])
    <3>1. CASE i \in 1 .. n
      BY <1>4, <2>2, <3>1 DEF Match, ReadInv
    <3>2. CASE i = n + 1
      BY <1>4, <2>2, <3>2 DEF item
    <3>. QED
      BY <2>2, <3>1, <3>2
  <2>. QED
    BY <1>1, <1>2, <1>4, <2>3 DEF Match, ReadInv
<1>. QED
  BY <1>1, <1>3, <1>4

LEMMA DecodeMatchesFamily ==
  ASSUME IInv, IInv', Match, DecodeInheritFamily \/ DecodeEmptyFamily \/ DecodeFamilyEnd
  PROVE  Match' /\ value' = value
<1>. DEFINE f == value.families[Len(out) + 1]
            entries == f.choice.entries
<1>1. pc \in {"decodingBlocks", "decodingFamily"} /\ Len(out) < wire.len \div 3
  BY DEF DecodeInheritFamily, DecodeEmptyFamily, DecodeFamilyEnd, DecodingBlocks,
         IInv, DecoderInv
<1>2. ASSUME value # NoValue, AllFit(value)
      PROVE  /\ f \in IpFamily /\ IsFit(f) /\ Part(3) = ChoiceItem(f)
             /\ \A choice : FamilyOf(choice)
                              = [afi |-> f.afi, safi |-> f.safi, choice |-> choice]
             /\ f.choice.kind \in {"inherit", "prefixes"}
  <2>1. /\ Len(out) + 1 \in 1 .. Len(value.families) /\ f \in IpFamily
        /\ Part(3) = ChoiceItem(f)
        /\ \A choice : FamilyOf(choice) = [afi |-> f.afi, safi |-> f.safi, choice |-> choice]
    BY <1>1, <1>2, AtPart
  <2>2. value.families \in Seq(IpFamily)
    BY <1>2, ValueShapes DEF IInv, TypeOK
  <2>3. IsFit(f)
    BY <1>2, <2>1, <2>2 DEF AllFit
  <2>. QED
    BY <2>1, <2>3, FamilyShapes
<1>. HIDE DEF f
<1>3. CASE DecodeInheritFamily
  <2>1. IsNull(Part(3)) /\ PushFamily(Inherit)
    BY <1>3 DEF DecodeInheritFamily
  <2>2. ASSUME value # NoValue, AllFit(value)
        PROVE  FamilyOf(Inherit) = MaskedFamily(f)
    <3>1. f.choice.kind = "inherit"
      BY <1>2, <2>1, <2>2, FitFamily DEF IsNull
    <3>. QED
      BY <1>2, <2>2, <3>1, MaskedFamilyFacts
  <2>. QED
    BY <1>1, <2>1, <2>2, PushMatches DEF f
<1>4. ASSUME value # NoValue, AllFit(value), Part(3).type = "array"
      PROVE  /\ f.choice.kind = "prefixes" /\ entries \in Seq(AnyEntry)
             /\ Part(3).len = Len(entries)
             /\ FamilyOf(EntryList([i \in 1 .. Len(entries) |-> MaskedEntry(entries[i])]))
                  = MaskedFamily(f)
  <2>1. f.choice.kind = "prefixes"
    BY <1>2, <1>4 DEF ChoiceItem, NullItem
  <2>2. entries \in Seq(AnyEntry) /\ Part(3).len = Len(entries)
    BY <1>2, <1>4, <2>1, FitFamily
  <2>3. MaskedFamily(f) =
          [afi |-> f.afi, safi |-> f.safi,
           choice |-> EntryList([i \in 1 .. Len(entries) |-> MaskedEntry(entries[i])])]
    BY <1>2, <1>4, <2>1, MaskedFamilyFacts
  <2>. QED
    BY <1>2, <1>4, <2>1, <2>2, <2>3
<1>5. CASE DecodeEmptyFamily
  <2>1. Part(3).type = "array" /\ Part(3).len = 0 /\ PushFamily(EntryList(<<>>))
    BY <1>5 DEF DecodeEmptyFamily, IsList
  <2>2. ASSUME value # NoValue, AllFit(value)
        PROVE  FamilyOf(EntryList(<<>>)) = MaskedFamily(f)
    <3>. DEFINE masked == [i \in 1 .. Len(entries) |-> MaskedEntry(entries[i])]
    <3>1. Len(entries) = 0 /\ FamilyOf(EntryList(masked)) = MaskedFamily(f)
      BY <1>4, <2>1, <2>2
    <3>2. <<>> \in Seq(AnyEntry) /\ Len(<<>>) = 0
      OBVIOUS
    <3>3. masked = [i \in 1 .. Len(<<>>) |-> masked[i]]
      BY <3>1, <3>2
    <3>. HIDE DEF masked
    <3>4. \A i \in 1 .. Len(<<>>) : <<>>[i] = masked[i]
      BY <3>2
    <3>5. <<>> = masked
      BY <3>2, <3>3, <3>4, SameSeq
    <3>. QED
      BY <3>1, <3>5
  <2>. QED
    BY <1>1, <2>1, <2>2, PushMatches DEF f
<1>6. CASE DecodeFamilyEnd
  <2>1. /\ pc = "decodingFamily" /\ PushFamily(EntryList(inner))
        /\ Len(inner) = Part(3).len /\ Part(3).type = "array"
    BY <1>6 DEF DecodeFamilyEnd, IInv, DecoderInv, IsList
  <2>2. ASSUME value # NoValue, AllFit(value)
        PROVE  FamilyOf(EntryList(inner)) = MaskedFamily(f)
    <3>. DEFINE masked == [i \in 1 .. Len(entries) |-> MaskedEntry(entries[i])]
    <3>1. Len(entries) = Len(inner) /\ FamilyOf(EntryList(masked)) = MaskedFamily(f)
      BY <1>4, <2>1, <2>2
    <3>2. /\ \A i \in 1 .. Len(inner) : inner[i] = MaskedEntry(entries[i])
          /\ inner = <<>> \/ inner \in Seq(AddrEntry(Afi))
      BY <2>1, <2>2, AtEntry DEF f
    <3>3. <<>> \in Seq(AddrEntry(Afi))
      OBVIOUS
    <3>4. inner \in Seq(AddrEntry(Afi))
      BY <3>2, <3>3
    <3>5. masked = [i \in 1 .. Len(inner) |-> masked[i]]
          /\ \A i \in 1 .. Len(inner) : inner[i] = masked[i]
      BY <3>1, <3>2
    <3>. HIDE DEF masked
    <3>6. inner = masked
      BY <3>4, <3>5, SameSeq
    <3>. QED
      BY <3>1, <3>6
  <2>. QED
    BY <1>1, <2>1, <2>2, PushMatches DEF f
<1>. QED
  BY <1>3, <1>5, <1>6

LEMMA DecodeFamilyMatches ==
  ASSUME IInv, IInv', Match, DecodeFamily
  PROVE  Match' /\ value' = value
<1>. DEFINE f == value.families[Len(out) + 1]
            entries == f.choice.entries
<1>1. /\ pc = "decodingBlocks" /\ pc' = "decodingFamily" /\ inner' = <<>>
      /\ Len(out) < wire.len \div 3 /\ Part(3).type = "array" /\ Part(3).len > 0
      /\ intForm' = IsIntForm(Part(3)) /\ previous' = 0 /\ first' = TRUE
      /\ UNCHANGED <<value, wire, out>>
  BY DEF DecodeFamily, DecodingBlocks, IsList, StartChain, held
<1>2. WrittenInv'
  BY <1>1 DEF WrittenInv
<1>3. CASE value = NoValue \/ ~AllFit(value)
  BY <1>1, <1>2, <1>3 DEF Match, ReadInv
<1>4. CASE value # NoValue /\ AllFit(value)
  <2>1. /\ Len(out) + 1 \in 1 .. Len(value.families) /\ f \in IpFamily
        /\ Part(3) = ChoiceItem(f)
    BY <1>1, <1>4, AtPart
  <2>2. value.families \in Seq(IpFamily)
    BY <1>4, ValueShapes DEF IInv, TypeOK
  <2>3. IsFit(f)
    BY <1>4, <2>1, <2>2 DEF AllFit
  <2>. HIDE DEF f
  <2>4. f.choice.kind = "prefixes"
    BY <1>1, <2>1, FamilyShapes DEF ChoiceItem, NullItem
  <2>5. /\ entries \in Seq(AnyEntry) /\ Part(3).len = Len(entries)
        /\ Len(Part(3).items) = Len(entries)
        /\ Part(3).items = [k \in 1 .. Len(entries) |-> EncodedEntry(entries, k)]
    BY <2>1, <2>3, <2>4, FitFamily
  <2>. HIDE DEF entries
  <2>6. IsIntForm(Part(3)) <=> UsesIntForm(entries)
    BY <1>1, <2>5, FirstOfList
  <2>7. IsIntForm(Part(3)) \in BOOLEAN /\ UsesIntForm(entries) \in BOOLEAN
    BY DEF IsIntForm, IsInt, UsesIntForm
  <2>8. intForm' = UsesIntForm(entries)
    <3>1. \A a, b \in BOOLEAN : (a <=> b) => a = b
      OBVIOUS
    <3>2. IsIntForm(Part(3)) = UsesIntForm(entries)
      BY <2>6, <2>7, <3>1
    <3>. QED
      BY <1>1, <3>2
  <2>9. 1 .. Len(inner') = {} /\ Len(inner') = 0 /\ Len(inner') + 1 = 1
    BY <1>1
  <2>10. previous' = Before(entries, Len(inner') + 1)
    BY <1>1, <2>9 DEF Before
  <2>11. first' = (Len(inner') = 0)
    BY <1>1, <2>9, Zenon
  <2>12. Carries(wire, value) /\ \A i \in 1 .. Len(out) : out[i] = MaskedFamily(value.families[i])
    BY <1>1, <1>4 DEF Match, ReadInv
  <2>. QED
    BY <1>1, <1>2, <2>4, <2>8, <2>9, <2>10, <2>11, <2>12 DEF Match, ReadInv, f, entries
<1>. QED
  BY <1>1, <1>3, <1>4

\* Clearing the host bits of a value keeps it a value of the caller's type, and
\* there is nothing to clear in it any more.
LEMMA MaskedFacts ==
  ASSUME NEW v \in Value, AllFit(v)
  PROVE  /\ Masked(v) = Blocks([i \in 1 .. Len(v.families) |-> MaskedFamily(v.families[i])])
         /\ Masked(v) \in Value /\ AllFit(Masked(v)) /\ Masked(Masked(v)) = Masked(v)
<1>. DEFINE fs == v.families
            n == Len(fs)
            masked == [i \in 1 .. n |-> MaskedFamily(fs[i])]
            again == [i \in 1 .. n |-> MaskedFamily(masked[i])]
<1>1. v # NoValue /\ fs \in Seq(IpFamily) /\ DOMAIN fs = 1 .. n /\ n \in Nat
  BY ValueShapes
<1>2. Masked(v) = Blocks(masked)
  BY <1>1 DEF Masked
<1>3. \A i \in 1 .. n : fs[i] \in IpFamily /\ IsFit(fs[i])
  BY <1>1 DEF AllFit
<1>. HIDE DEF fs, n
<1>4. \A i \in 1 .. n : /\ masked[i] \in IpFamily /\ IsFit(masked[i])
                        /\ MaskedFamily(masked[i]) = masked[i]
  BY <1>3, MaskedFamilyFacts
<1>5. masked = [i \in 1 .. n |-> masked[i]]
  OBVIOUS
<1>. HIDE DEF masked
<1>6. masked \in [1 .. n -> IpFamily]
  BY <1>4, <1>5, Zenon
<1>7. masked \in Seq(IpFamily) /\ DOMAIN masked = 1 .. n
  BY <1>1, <1>6, SeqOfFunction
<1>8. again = masked
  BY <1>4, <1>5, Zenon
<1>9. Blocks(masked) \in Value /\ Blocks(masked).families = masked
  BY <1>7 DEF Value, Blocks
<1>10. Blocks(masked) # NoValue
  BY <1>9, ValueShapes
<1>11. AllFit(Blocks(masked))
  BY <1>4, <1>7, <1>9 DEF AllFit
<1>12. Masked(Blocks(masked)) = Blocks([i \in 1 .. n |-> MaskedFamily(masked[i])])
  BY <1>7, <1>9, <1>10 DEF Masked
<1>. HIDE DEF again
<1>13. Masked(Blocks(masked)) = Blocks(masked)
  BY <1>8, <1>12 DEF again
<1>. QED
  BY <1>2, <1>9, <1>11, <1>13 DEF masked, n, fs

\* What the decoder makes of the encoding of a value.
Returns == \/ value' = value
           \/ /\ pc' = "encode" /\ value' \in Value /\ AllFit(value')
              /\ value # NoValue /\ AllFit(value) => value' = Masked(value)

LEMMA DecodeEndMatches ==
  ASSUME IInv, Match, DecodeBlocksEnd
  PROVE  Match' /\ Returns
<1>1. /\ pc = "decodingBlocks" /\ Len(out) = wire.len \div 3 /\ value' = Blocks(out)
      /\ pc' = "encode"
  BY DEF DecodeBlocksEnd
<1>2. Match'
  BY <1>1 DEF Match, WrittenInv, ReadInv
<1>3. out \in Seq(IpFamily) /\ \A i \in DOMAIN out : IsFit(out[i])
  BY <1>1, WireFacts
<1>4. value' \in Value /\ AllFit(value')
  BY <1>1, <1>3 DEF Value, Blocks, AllFit
<1>5. ASSUME value # NoValue, AllFit(value)
      PROVE  value' = Masked(value)
  <2>. DEFINE masked == [i \in 1 .. Len(value.families) |-> MaskedFamily(value.families[i])]
  <2>1. value \in Value /\ value.families \in Seq(IpFamily) /\ Len(value.families) \in Nat
    BY <1>5, ValueShapes DEF IInv, TypeOK
  <2>2. /\ wire.len = 3 * Len(value.families)
        /\ \A i \in 1 .. Len(out) : out[i] = MaskedFamily(value.families[i])
    BY <1>1, <1>5 DEF Match, ReadInv, Carries
  <2>3. Len(out) = Len(value.families)
    <3>1. \A m \in Nat : (3 * m) \div 3 = m
      OBVIOUS
    <3>. QED
      BY <1>1, <2>1, <2>2, <3>1
  <2>4. masked = [i \in 1 .. Len(out) |-> masked[i]]
        /\ \A i \in 1 .. Len(out) : out[i] = masked[i]
    BY <2>2, <2>3
  <2>. HIDE DEF masked
  <2>5. out = masked
    BY <1>3, <2>4, SameSeq
  <2>. QED
    BY <1>1, <1>5, <2>1, <2>5, MaskedFacts DEF masked
<1>. QED
  BY <1>1, <1>2, <1>4, <1>5 DEF Returns

LEMMA DecodeMatches ==
  ASSUME IInv, IInv', Match, Decode
  PROVE  Match' /\ Returns
<1>1. CASE DecodeBlocks
  <2>1. /\ pc = "decode" /\ pc' = "decodingBlocks" /\ out' = <<>>
        /\ UNCHANGED <<value, wire>>
    BY <1>1 DEF DecodeBlocks, held
  <2>2. 1 .. Len(out') = {}
    BY <2>1
  <2>. QED
    BY <2>1, <2>2 DEF Match, WrittenInv, ReadInv, Returns
<1>2. CASE DecodeRefuse
  <2>1. /\ pc = "decode" /\ pc' = "refused" /\ UNCHANGED <<value, wire>>
        /\ wire.type = "array" => wire.len % 3 # 0
    BY <1>2 DEF DecodeRefuse, Refuse, held
  <2>2. value = NoValue
    <3>1. SUFFICES ASSUME value # NoValue PROVE FALSE
      OBVIOUS
    <3>. DEFINE n == Len(value.families)
    <3>2. wire.type = "array" /\ wire.len = 3 * n
      BY <2>1, <3>1 DEF Match, ReadInv, Carries
    <3>3. n \in Nat
      BY <3>1, ValueShapes DEF IInv, TypeOK
    <3>. HIDE DEF n
    <3>4. \A m \in Nat : (3 * m) % 3 = 0
      OBVIOUS
    <3>. QED
      BY <2>1, <3>2, <3>3, <3>4
  <2>. QED
    BY <2>1, <2>2 DEF Match, WrittenInv, ReadInv, Returns
<1>3. CASE DecodeInheritFamily \/ DecodeEmptyFamily \/ DecodeFamilyEnd
  BY <1>3, DecodeMatchesFamily DEF Returns
<1>4. CASE DecodeFamily
  BY <1>4, DecodeFamilyMatches DEF Returns
<1>5. CASE RefuseFamily \/ RefuseEntry
  <2>1. /\ pc \in {"decodingBlocks", "decodingFamily"} /\ pc' = "refused"
        /\ UNCHANGED <<value, wire>>
    BY <1>5 DEF RefuseFamily, RefuseEntry, DecodingBlocks, Refuse, held
  <2>2. value = NoValue \/ ~AllFit(value)
    BY <1>5, FamilyNotRefused, EntryNotRefused
  <2>. QED
    BY <2>1, <2>2 DEF Match, WrittenInv, ReadInv, Returns
<1>6. CASE DecodeIntPrefix \/ DecodeIntRange \/ DecodeRawPrefix \/ DecodeRawRange
  BY <1>6, DecodeMatchesEntry DEF Returns
<1>7. CASE DecodeBlocksEnd
  BY <1>7, DecodeEndMatches
<1>. QED
  BY <1>1, <1>2, <1>3, <1>4, <1>5, <1>6, <1>7 DEF Decode

LEMMA InitMatch == Init => Match
<1>. SUFFICES ASSUME Init PROVE Match
  OBVIOUS
<1>. QED
  BY DEF Init, Match, WrittenInv, ReadInv

LEMMA StepMatch == IInv /\ IInv' /\ Match /\ [Next]_vars => Match'
<1>. SUFFICES ASSUME IInv, IInv', Match, [Next]_vars PROVE Match'
  OBVIOUS
<1>1. CASE Next
  BY <1>1, EncodeMatches, DecodeMatches DEF Next
<1>2. CASE UNCHANGED vars
  <2>1. Family' = Family
    BY <1>2 DEF vars, Family
  <2>. QED
    BY <1>2, <2>1 DEF vars, Match, WrittenInv, ReadInv
<1>. QED
  BY <1>1, <1>2

\* In every state of a session, what is written so far is the encoding of the
\* value's beginning, and what is read back so far is that beginning without
\* host bits.
THEOREM Matching == Spec => []Match
BY InitMatch, StepMatch, Invariance, InitInv, StepInv, PTL DEF Spec

\* Any number of round trips return the value, with host bits cleared the first
\* time: neither prefixes nor ranges of either form are changed, and addresses
\* under another AFI than theirs are never taken for addresses of it.
THEOREM RoundTrips == Spec => LosslessUpToHostBits
<1>1. IInv /\ IInv' /\ Match /\ [Next]_vars =>
        [value # NoValue =>
           value' \in {value, Masked(value)} \/ (~AllFit(value) /\ AllFit(value'))]_vars
  <2>. SUFFICES ASSUME IInv, IInv', Match, Next, value # NoValue
                PROVE  value' \in {value, Masked(value)} \/ (~AllFit(value) /\ AllFit(value'))
    OBVIOUS
  <2>1. CASE Encode
    BY <2>1, EncodeMatches
  <2>2. CASE Decode
    <3>1. Returns
      BY <2>2, DecodeMatches
    <3>. QED
      BY <3>1 DEF Returns
  <2>. QED
    BY <2>1, <2>2 DEF Next
<1>. QED
  BY <1>1, Invariance, Matching, PTL DEF Spec, LosslessUpToHostBits

\* The two functions implement the abstract codec of RoundTrip: a value whose
\* addresses are of their families is held from then on, up to its host bits, is
\* never refused, and its encoding does not fail.
THEOREM Refinement == Spec => KeepsPromise
<1>. DEFINE kept == IF AllFit(value) THEN Masked(value) ELSE NoValue
            status == CASE pc = "panicked" -> "panicked"
                        [] pc = "refused"  -> "refused"
                        [] value = NoValue \/ ~AllFit(value) -> "reading"
                        [] OTHER           -> "held"
<1>0. AllFit(NoValue) /\ Masked(NoValue) = NoValue
  BY DEF AllFit, Masked
<1>1. Init => Promise!Init
  <2>. SUFFICES ASSUME Init PROVE Promise!Init
    OBVIOUS
  <2>1. CASE pc = "encode" /\ value \in Callers
    <3>1. value \in Value /\ value # NoValue
      BY <2>1, CallersAssumption, ValueShapes
    <3>2. CASE AllFit(value)
      <4>1. kept \in Value
        BY <3>1, <3>2, MaskedFacts
      <4>2. status = "held"
        BY <2>1, <3>1, <3>2
      <4>. QED
        BY <4>1, <4>2 DEF Promise!Init
    <3>3. CASE ~AllFit(value)
      BY <2>1, <3>3 DEF Promise!Init
    <3>. QED
      BY <3>2, <3>3
  <2>2. CASE pc = "decode" /\ value = NoValue
    BY <1>0, <2>2 DEF Promise!Init
  <2>. QED
    BY <2>1, <2>2 DEF Init
<1>2. IInv /\ IInv' /\ Match /\ Match' /\ [Next]_vars => [Promise!Next]_(Promise!vars)
  <2>. SUFFICES ASSUME IInv, IInv', Match, Match', [Next]_vars
                PROVE  Promise!Next \/ UNCHANGED <<kept, status>>
    BY DEF Promise!vars
  <2>1. CASE UNCHANGED vars
    BY <2>1 DEF vars
  <2>2. CASE Encode
    <3>1. value' = value
      BY <2>2, EncodeMatches
    <3>2. pc \notin {"panicked", "refused"} /\ pc' \notin {"panicked", "refused"}
      BY <2>2 DEF IInv, EncodeNeverFails, Encode, EncodeBlocks, EncodeInheritFamily,
         EncodeFamily, EncodeIntPrefix, EncodeIntRange, EncodeRawPrefix, EncodeRawRange,
         EncodeFamilyEnd, EncodeBlocksEnd, EncodingBlocks, EncodingEntry, WriteInts,
         WriteBytes, held
    <3>. QED
      BY <3>1, <3>2
  <2>3. CASE Decode
    <3>1. Returns
      BY <2>3, DecodeMatches
    <3>2. pc \notin {"panicked", "refused"} /\ pc' # "panicked"
      BY <2>3 DEF IInv, EncodeNeverFails, Decode, DecodeBlocks, DecodeRefuse,
         DecodeInheritFamily, DecodeEmptyFamily, DecodeFamily, RefuseFamily,
         DecodeIntPrefix, DecodeIntRange, DecodeRawPrefix, DecodeRawRange, RefuseEntry,
         DecodeFamilyEnd, DecodeBlocksEnd, DecodingBlocks, HasCurrent
    <3>3. pc' = "refused" => value' = NoValue \/ ~AllFit(value')
      BY DEF Match, ReadInv
    <3>4. value \in Value \cup {NoValue}
      BY DEF IInv, TypeOK
    <3>5. CASE value # NoValue /\ AllFit(value)
      <4>1. value \in Value
        BY <3>4, <3>5
      <4>2. value' # NoValue /\ AllFit(value') /\ kept' = kept
        BY <3>1, <3>5, <4>1, MaskedFacts, ValueShapes DEF Returns
      <4>. HIDE DEF kept
      <4>3. status = "held" /\ status' = "held"
        BY <3>2, <3>3, <3>5, <4>2
      <4>. QED
        BY <4>2, <4>3
    <3>6. CASE value = NoValue \/ ~AllFit(value)
      <4>1. status = "reading" /\ kept = NoValue
        BY <1>0, <3>2, <3>6
      <4>2. CASE value' = value
        <5>1. kept' = kept /\ status' \in {"reading", "refused"}
          BY <3>2, <3>6, <4>2
        <5>. QED
          BY <4>1, <5>1 DEF Promise!Next, Promise!Refuse
      <4>3. CASE value' # value
        <5>1. pc' = "encode" /\ value' \in Value /\ AllFit(value') /\ value' # NoValue
          BY <3>1, <4>3, ValueShapes DEF Returns
        <5>2. kept' \in Value
          BY <5>1, MaskedFacts
        <5>3. status' = "held"
          BY <5>1
        <5>. QED
          BY <4>1, <5>2, <5>3 DEF Promise!Next, Promise!Accept
      <4>. QED
        BY <4>2, <4>3
    <3>. QED
      BY <3>5, <3>6
  <2>. QED
    BY <2>1, <2>2, <2>3 DEF Next
<1>. QED
  BY <1>1, <1>2, Invariance, Matching, PTL DEF Spec, KeepsPromise, Promise!Spec
=============================================================================
