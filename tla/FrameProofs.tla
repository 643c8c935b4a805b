----------------------------- MODULE FrameProofs -----------------------------
(* The frame codec for every record and every place of the damage:           *)
(* decode_frame gives back what encode_frame was given, and the checksum     *)
(* finds every burst of up to 16 bits.  A burst leaves the CRC register      *)
(* different: the bits that a shift brings in from below tell which branch   *)
(* each shift took, so a register can be followed back as well as forth.     *)
EXTENDS Kernels, TLAPS, WellFoundedInduction

------------------------------------------------------------------------------
(* Arithmetic *)

\* The defining decomposition.
LEMMA DivMod ==
  ASSUME NEW n \in Nat, NEW c \in Nat, c > 0
  PROVE  /\ n = c * (n \div c) + (n % c)
         /\ n % c \in 0 .. c - 1
         /\ n \div c \in Nat
OBVIOUS

\* Products are monotonic in a factor.
LEMMA ProductMonotonic ==
  ASSUME NEW m \in Nat, NEW a \in Nat, NEW b \in Nat, a <= b
  PROVE  m * a \in Nat /\ m * a <= m * b
<1>1. PICK d \in Nat : b = a + d
  <2>1. b - a \in Nat /\ b = a + (b - a)
    OBVIOUS
  <2> QED BY <2>1, Zenon
<1>2. m * b = m * a + m * d /\ m * d \in Nat /\ m * a \in Nat
  BY <1>1
<1> QED BY <1>2

------------------------------------------------------------------------------
(* Induction *)

\* Every set of natural numbers has a least element.
LEMMA LeastElement ==
  ASSUME NEW T \in SUBSET Nat, T # {}
  PROVE  \E n \in T : \A m \in T : n <= m
<1> DEFINE R == OpToRel(<, Nat)
<1>1. IsWellFoundedOn(R, Nat)
  BY NatLessThanWellFounded, Zenon
<1>2. \A m, n \in Nat : m < n => <<m, n>> \in R
  BY Zenon DEF OpToRel
<1> HIDE DEF R
<1>3. PICK n \in T : \A m \in T : ~ (<<m, n>> \in R)
  BY <1>1, WFMin, Zenon
<1>4. ASSUME NEW m \in T
      PROVE  n <= m
  <2>1. m \in Nat /\ n \in Nat /\ ~ (m < n)
    BY <1>2, <1>3, Zenon
  <2> QED BY <2>1
<1> QED BY <1>4, Zenon

\* Induction up to N, for a property given as a set.
LEMMA Induction ==
  ASSUME NEW N \in Nat, NEW S, 0 \in S, \A n \in 1 .. N : n - 1 \in S => n \in S
  PROVE  \A n \in 0 .. N : n \in S
<1> DEFINE T == (0 .. N) \ S
<1>1. SUFFICES ASSUME T # {}
               PROVE  FALSE
  BY Zenon
<1>2. PICK n \in T : \A m \in T : n <= m
  <2>1. T \in SUBSET Nat
    OBVIOUS
  <2> HIDE DEF T
  <2> QED BY <1>1, <2>1, LeastElement, Zenon
<1>3. n \in 1 .. N /\ n - 1 \in 0 .. N /\ n - 1 \notin T
  BY <1>2
<1> QED BY <1>2, <1>3, Zenon

\* The runs of a loop of N rounds, as functions from the round to the value
\* after it.
Runs(N, S, start, round) ==
  {f \in [0 .. N -> S] : f[0] = start /\ \A n \in 1 .. N : f[n] = round[n][f[n - 1]]}

\* Every loop has a run.
LEMMA LoopRuns ==
  ASSUME NEW N \in Nat, NEW S, NEW start \in S, NEW round \in [1 .. N -> [S -> S]]
  PROVE  Runs(N, S, start, round) # {}
<1> DEFINE D == {k \in 0 .. N : Runs(k, S, start, round) # {}}
<1>1. 0 \in D
  <2>1. [n \in 0 .. 0 |-> start] \in Runs(0, S, start, round)
    BY DEF Runs
  <2> QED BY <2>1
<1>2. ASSUME NEW n \in 1 .. N, n - 1 \in D
      PROVE  n \in D
  <2>1. PICK f \in [0 .. n - 1 -> S] :
               f[0] = start /\ \A m \in 1 .. n - 1 : f[m] = round[m][f[m - 1]]
    BY <1>2, Zenon DEF Runs
  <2> DEFINE g == [m \in 0 .. n |-> IF m = n THEN round[n][f[n - 1]] ELSE f[m]]
  <2>2. g \in [0 .. n -> S]
    BY <2>1
  <2>3. g[0] = start
    BY <2>1
  <2>4. ASSUME NEW m \in 1 .. n
        PROVE  g[m] = round[m][g[m - 1]]
    BY <2>1
  <2>5. g \in Runs(n, S, start, round)
    BY <2>2, <2>3, <2>4, Zenon DEF Runs
  <2> QED BY <2>5
<1> HIDE DEF D
<1>3. \A n \in 0 .. N : n \in D
  BY <1>1, <1>2, Induction, Zenon
<1> QED BY <1>3 DEF D

------------------------------------------------------------------------------
(* Exclusive or *)

Words == {n \in Nat : n < 65536}

\* The weights are the powers of two.
LEMMA Weights ==
  /\ \A n \in 1 .. 16 : Weight[n] \in Nat /\ Weight[n] > 0
  /\ Weight[1] = 1 /\ Weight[16] = 32768
  /\ \A n \in 2 .. 16 : Weight[n] = 2 * Weight[n - 1]
BY DEF Weight

\* A bit is one of two values.
LEMMA BitType ==
  ASSUME NEW a \in Nat, NEW n \in 1 .. 16
  PROVE  Bit(a, n) \in 0 .. 1
<1>1. Weight[n] \in Nat /\ Weight[n] > 0
  BY Weights
<1>2. a \div Weight[n] \in Int
  BY <1>1
<1> QED BY <1>2 DEF Bit

\* The loop of Xor has the value that its definition says.
LEMMA XorLoop ==
  ASSUME NEW a \in Nat, NEW b \in Nat
  PROVE  \E low \in [0 .. 16 -> Nat] :
           /\ low[0] = 0
           /\ \A n \in 1 .. 16 : low[n] = low[n - 1] + Weight[n] * ((Bit(a, n) + Bit(b, n)) % 2)
           /\ Xor(a, b) = low[16]
<1> DEFINE add == [n \in 1 .. 16 |-> Weight[n] * ((Bit(a, n) + Bit(b, n)) % 2)]
           round == [n \in 1 .. 16 |-> [v \in Nat |-> v + add[n]]]
           Is(f) == f = [n \in 0 .. 16 |-> IF n = 0 THEN 0 ELSE f[n - 1] + Weight[n] * ((Bit(a, n) + Bit(b, n)) % 2)]
           low == CHOOSE f : Is(f)
<1>1. \A n \in 1 .. 16 : add[n] \in Nat
  <2> SUFFICES ASSUME NEW n \in 1 .. 16
               PROVE  add[n] \in Nat
    OBVIOUS
  <2>1. Weight[n] \in Nat /\ Bit(a, n) \in 0 .. 1 /\ Bit(b, n) \in 0 .. 1
    BY BitType, Weights
  <2>2. (Bit(a, n) + Bit(b, n)) % 2 \in 0 .. 1
    BY <2>1
  <2>3. Weight[n] * ((Bit(a, n) + Bit(b, n)) % 2) \in Nat
    BY <2>1, <2>2
  <2> QED BY <2>3, Zenon
<1>2. round \in [1 .. 16 -> [Nat -> Nat]]
  <2> HIDE DEF add
  <2> QED BY <1>1
<1>3. PICK f \in [0 .. 16 -> Nat] : f[0] = 0 /\ \A n \in 1 .. 16 : f[n] = round[n][f[n - 1]]
  <2> DEFINE N == 16
  <2>1. N \in Nat /\ 0 \in Nat /\ round \in [1 .. N -> [Nat -> Nat]]
    BY <1>2, Zenon
  <2> HIDE DEF round, N
  <2>2. Runs(N, Nat, 0, round) # {}
    BY <2>1, LoopRuns, Zenon
  <2> QED BY <2>2, Zenon DEF N, Runs
<1>4. Is(f)
  BY <1>3
<1>5. Is(low)
  <2> HIDE DEF Is
  <2> QED BY <1>4, Zenon
<1>6. Xor(a, b) = low[16]
  BY Zenon DEF Xor
<1>7. /\ low[0] = 0
      /\ \A n \in 1 .. 16 : low[n] = low[n - 1] + Weight[n] * ((Bit(a, n) + Bit(b, n)) % 2)
      /\ low = [n \in 0 .. 16 |-> low[n]]
  <2> HIDE DEF low
  <2> QED BY <1>5
<1>8. \A n \in 0 .. 16 : n \in {m \in 0 .. 16 : low[m] \in Nat}
  <2> DEFINE D == {m \in 0 .. 16 : low[m] \in Nat}
  <2> HIDE DEF low
  <2>1. 0 \in D /\ \A n \in 1 .. 16 : n - 1 \in D => n \in D
    BY <1>1, <1>7
  <2> HIDE DEF D
  <2>2. \A n \in 0 .. 16 : n \in D
    BY <2>1, Induction, Zenon
  <2> QED BY <2>2, Zenon DEF D
<1> HIDE DEF low
<1> QED BY <1>6, <1>7, <1>8, Zenon

\* A quotient is determined by the remainder's range.
LEMMA QuotientIs ==
  ASSUME NEW w \in Nat, NEW k \in Nat, NEW r \in Nat, r < w
  PROVE  (r + w * k) \div w = k
<1> DEFINE a == r + w * k
           q == a \div w
           s == a % w
<1>1. a \in Nat /\ w * k \in Nat
  OBVIOUS
<1>2. a = w * q + s /\ s \in 0 .. w - 1 /\ q \in Nat
  BY <1>1, DivMod
<1>3. a = r + w * k
  BY Zenon
<1> HIDE DEF a, q, s
<1>4. ASSUME q < k
      PROVE  FALSE
  <2>1. w * (q + 1) <= w * k /\ w * (q + 1) = w * q + w
    BY <1>2, <1>4, ProductMonotonic
  <2> QED BY <1>1, <1>2, <1>3, <2>1
<1>5. ASSUME k < q
      PROVE  FALSE
  <2>1. w * (k + 1) <= w * q /\ w * (k + 1) = w * k + w
    BY <1>2, <1>5, ProductMonotonic
  <2> QED BY <1>1, <1>2, <1>3, <2>1
<1>6. q = k
  BY <1>2, <1>4, <1>5
<1> QED BY <1>6, Zenon DEF q, a

\* Dividing twice is dividing by the product.
LEMMA DivDiv ==
  ASSUME NEW a \in Nat, NEW u \in Nat, u > 0, NEW w \in Nat, w > 0
  PROVE  (a \div u) \div w = a \div (u * w)
<1> DEFINE q == a \div u
           r == a % u
           p == q \div w
           s == q % w
           rest == r + u * s
<1>1. a = u * q + r /\ r \in 0 .. u - 1 /\ q \in Nat
  BY DivMod, Zenon
<1>2. q = w * p + s /\ s \in 0 .. w - 1 /\ p \in Nat
  BY <1>1, DivMod, Zenon
<1> HIDE DEF q, r, p, s
<1>3. rest \in Nat /\ rest < u * w /\ u * w \in Nat
  <2>1. u * s <= u * (w - 1) /\ u * s \in Nat
    BY <1>2, ProductMonotonic
  <2>2. u * (w - 1) = u * w - u /\ u * w \in Nat
    OBVIOUS
  <2> QED BY <1>1, <2>1, <2>2
<1>4. a = rest + (u * w) * p
  <2>1. u * q = (u * w) * p + u * s
    BY <1>2
  <2> DEFINE x == (u * w) * p
             y == u * s
             z == u * q
  <2>2. x \in Nat /\ y \in Nat /\ z = x + y /\ a = z + r /\ r \in Nat
    BY <1>1, <1>2, <2>1
  <2> HIDE DEF x, y, z
  <2>3. a = r + y + x
    BY <2>2
  <2> QED BY <2>3, Zenon DEF x, y
<1> HIDE DEF rest
<1>5. (rest + (u * w) * p) \div (u * w) = p
  BY <1>2, <1>3, QuotientIs, Zenon
<1> QED BY <1>4, <1>5, Zenon DEF p, q

\* Two words with the same bits are the same word.
LEMMA SameBits ==
  ASSUME NEW a \in Words, NEW b \in Words, \A n \in 1 .. 16 : Bit(a, n) = Bit(b, n)
  PROVE  a = b
<1> DEFINE D == {m \in 0 .. 15 : a \div Weight[16 - m] = b \div Weight[16 - m]}
<1>0. a \in Nat /\ b \in Nat
  BY DEF Words
<1>1. 0 \in D
  <2>1. Bit(a, 16) = a \div 32768 /\ Bit(b, 16) = b \div 32768
    BY DEF Words, Bit, Weight
  <2> QED BY <2>1, Weights
<1>2. ASSUME NEW m \in 1 .. 15, m - 1 \in D
      PROVE  m \in D
  <2> DEFINE n == 16 - m
             qa == a \div Weight[n]
             qb == b \div Weight[n]
  <2>1. n \in 1 .. 15 /\ n + 1 \in 2 .. 16 /\ 16 - (m - 1) = n + 1
    OBVIOUS
  <2>2. Weight[n] \in Nat /\ Weight[n] > 0 /\ Weight[n + 1] = 2 * Weight[n]
    BY <2>1, Weights
  <2>3. a \div Weight[n + 1] = qa \div 2 /\ b \div Weight[n + 1] = qb \div 2
    <3> DEFINE two == 2
    <3>1. two \in Nat /\ two > 0 /\ Weight[n + 1] = Weight[n] * two
      BY <2>2
    <3> HIDE DEF two, n
    <3>2. (a \div Weight[n]) \div two = a \div (Weight[n] * two)
      BY <1>0, <2>2, <3>1, DivDiv
    <3>3. (b \div Weight[n]) \div two = b \div (Weight[n] * two)
      BY <1>0, <2>2, <3>1, DivDiv
    <3> QED BY <3>1, <3>2, <3>3 DEF two
  <2>4. qa \div 2 = qb \div 2
    BY <1>2, <2>1, <2>3
  <2>5. qa % 2 = qb % 2
    BY <2>1 DEF Bit
  <2>6. qa \in Int /\ qb \in Int
    BY <1>0, <2>2
  <2>7. qa = qb
    <3> HIDE DEF qa, qb
    <3> QED BY <2>4, <2>5, <2>6
  <2> QED BY <2>7
<1>3. 15 \in D
  <2> DEFINE N == 15
  <2>1. N \in Nat /\ D \subseteq 0 .. N /\ \A m \in 1 .. N : m - 1 \in D => m \in D
    BY <1>2
  <2> HIDE DEF D, N
  <2>2. \A m \in 0 .. N : m \in D
    BY <1>1, <2>1, Induction
  <2> QED BY <2>1, <2>2 DEF N
<1>4. a \div 1 = b \div 1
  BY <1>3, Weights
<1> QED BY <1>0, <1>4

\* Exclusive or, bit by bit.
LEMMA XorBits ==
  ASSUME NEW a \in Nat, NEW b \in Nat
  PROVE  /\ Xor(a, b) \in Words
         /\ \A n \in 1 .. 16 : Bit(Xor(a, b), n) = (Bit(a, n) + Bit(b, n)) % 2
<1> DEFINE d == [n \in 1 .. 16 |-> (Bit(a, n) + Bit(b, n)) % 2]
<1>1. d \in [1 .. 16 -> 0 .. 1]
  <2> SUFFICES ASSUME NEW n \in 1 .. 16
               PROVE  (Bit(a, n) + Bit(b, n)) % 2 \in 0 .. 1
    BY Zenon
  <2>1. Bit(a, n) \in 0 .. 1 /\ Bit(b, n) \in 0 .. 1
    BY BitType, Zenon
  <2> QED BY <2>1
<1>2. PICK low \in [0 .. 16 -> Nat] :
             /\ low[0] = 0
             /\ \A n \in 1 .. 16 : low[n] = low[n - 1] + Weight[n] * d[n]
             /\ Xor(a, b) = low[16]
  BY XorLoop, Zenon
<1> HIDE DEF d
<1> DEFINE Under == {n \in 0 .. 15 : low[n] < Weight[n + 1]}
           Above == {m \in 0 .. 15 : \E k \in Nat :
                       /\ low[16] = low[15 - m] + Weight[16 - m] * k
                       /\ k % 2 = d[16 - m]}
<1>3. \A n \in 0 .. 15 : n \in Under
  <2> DEFINE N == 15
  <2>1. 0 \in Under
    BY <1>2, Weights
  <2>2. ASSUME NEW n \in 1 .. 15, n - 1 \in Under
        PROVE  n \in Under
    <3>1. /\ n \in 1 .. 16 /\ n + 1 \in 2 .. 16 /\ low[n - 1] \in Nat /\ low[n - 1] < Weight[n]
          /\ d[n] \in 0 .. 1
      BY <1>1, <1>2, <2>2
    <3>2. Weight[n] \in Nat /\ Weight[n + 1] = 2 * Weight[n] /\ low[n] = low[n - 1] + Weight[n] * d[n]
      BY <1>2, <3>1, Weights
    <3>3. CASE d[n] = 0
      BY <3>1, <3>2, <3>3
    <3>4. CASE d[n] = 1
      BY <3>1, <3>2, <3>4
    <3> QED BY <3>1, <3>3, <3>4
  <2>3. N \in Nat /\ \A n \in 1 .. N : n - 1 \in Under => n \in Under
    BY <2>2, Zenon
  <2> HIDE DEF Under, N
  <2>4. \A n \in 0 .. N : n \in Under
    BY <2>1, <2>3, Induction, Zenon
  <2> QED BY <2>4, Zenon DEF N
<1>4. \A m \in 0 .. 15 : m \in Above
  <2> DEFINE N == 15
  <2>1. 0 \in Above
    <3>1. low[16] = low[15] + Weight[16] * d[16] /\ d[16] \in 0 .. 1
      BY <1>1, <1>2
    <3>2. d[16] % 2 = d[16]
      BY <3>1
    <3> QED BY <3>1, <3>2
  <2>2. ASSUME NEW m \in 1 .. 15, m - 1 \in Above
        PROVE  m \in Above
    <3> DEFINE n == 16 - m
    <3>1. /\ n \in 1 .. 15 /\ n + 1 \in 2 .. 16 /\ 15 - m = n - 1
          /\ 15 - (m - 1) = n /\ 16 - (m - 1) = n + 1
      OBVIOUS
    <3>2. PICK k \in Nat : low[16] = low[n] + Weight[n + 1] * k
      BY <2>2, <3>1, Zenon
    <3>3. /\ Weight[n] \in Nat /\ Weight[n + 1] = 2 * Weight[n]
          /\ low[n] = low[n - 1] + Weight[n] * d[n] /\ d[n] \in 0 .. 1
          /\ low[n - 1] \in Nat
      BY <1>1, <1>2, <3>1, Weights
    <3> HIDE DEF n
    <3>4. low[16] = low[n - 1] + Weight[n] * (d[n] + 2 * k)
      BY <3>2, <3>3
    <3>5. d[n] + 2 * k \in Nat /\ (d[n] + 2 * k) % 2 = d[n]
      BY <3>3
    <3> QED BY <3>1, <3>4, <3>5 DEF n
  <2>3. N \in Nat /\ \A m \in 1 .. N : m - 1 \in Above => m \in Above
    BY <2>2, Zenon
  <2> HIDE DEF Above, N
  <2>4. \A n \in 0 .. N : n \in Above
    BY <2>1, <2>3, Induction, Zenon
  <2> QED BY <2>4, Zenon DEF N
<1>5. ASSUME NEW n \in 1 .. 16
      PROVE  Bit(Xor(a, b), n) = d[n]
  <2>1. n - 1 \in 0 .. 15 /\ 16 - n \in 0 .. 15 /\ 15 - (16 - n) = n - 1 /\ 16 - (16 - n) = n
    OBVIOUS
  <2>2. low[n - 1] \in Nat /\ low[n - 1] < Weight[n]
    BY <1>2, <1>3, <2>1
  <2>3. PICK k \in Nat : low[16] = low[n - 1] + Weight[n] * k /\ k % 2 = d[n]
    BY <1>4, <2>1
  <2>4. low[16] \div Weight[n] = k
    <3>1. Weight[n] \in Nat
      BY Weights
    <3>2. (low[n - 1] + Weight[n] * k) \div Weight[n] = k
      BY <2>2, <3>1, QuotientIs, Zenon
    <3> QED BY <2>3, <3>2, Zenon
  <2> QED BY <1>2, <2>3, <2>4, Zenon DEF Bit
<1>6. Xor(a, b) \in Words
  <2>1. low[15] < 32768 /\ low[15] \in Nat /\ low[16] = low[15] + 32768 * d[16] /\ d[16] \in 0 .. 1
    BY <1>1, <1>2, <1>3, Weights
  <2> QED BY <1>2, <2>1 DEF Words
<1> QED BY <1>5, <1>6, Zenon DEF d

\* A weight is an even multiple of every smaller one.
LEMMA WeightDivides ==
  ASSUME NEW n \in 1 .. 15, NEW m \in n + 1 .. 16
  PROVE  \E c \in Nat : Weight[m] = Weight[n] * (2 * c)
<1> DEFINE N == 15 - n
           D == {k \in 0 .. N : \E c \in Nat : Weight[n + 1 + k] = Weight[n] * (2 * c)}
<1>1. 0 \in D
  <2>1. Weight[n + 1] = Weight[n] * (2 * 1)
    BY Weights
  <2> QED BY <2>1
<1>2. ASSUME NEW k \in 1 .. N, k - 1 \in D
      PROVE  k \in D
  <2>1. PICK c \in Nat : Weight[n + k] = Weight[n] * (2 * c)
    BY <1>2
  <2>2. Weight[n + 1 + k] = 2 * Weight[n + k] /\ Weight[n] \in Nat
    <3>1. n + 1 + k \in 2 .. 16 /\ (n + 1 + k) - 1 = n + k
      OBVIOUS
    <3> QED BY <3>1, Weights
  <2>3. 2 * (Weight[n] * (2 * c)) = Weight[n] * (2 * (2 * c))
    BY <2>2
  <2> QED BY <2>1, <2>2, <2>3
<1>3. N \in Nat /\ m - (n + 1) \in 0 .. N /\ n + 1 + (m - (n + 1)) = m
  OBVIOUS
<1>4. D = {k \in 0 .. N : \E c \in Nat : Weight[n + 1 + k] = Weight[n] * (2 * c)}
  BY Zenon
<1> HIDE DEF D, N
<1>5. \A k \in 0 .. N : k \in D
  BY <1>1, <1>2, <1>3, Induction, Zenon
<1> QED BY <1>3, <1>4, <1>5, Zenon

\* The bits below a multiple of a weight.
LEMMA LowBits ==
  ASSUME NEW n \in 1 .. 15, NEW m \in n + 1 .. 16, NEW a \in Nat, NEW t \in Nat
  PROVE  Bit(a + Weight[m] * t, n) = Bit(a, n)
<1> DEFINE w == Weight[n]
           q == a \div w
           r == a % w
<1>1. w \in Nat /\ w > 0
  BY Weights
<1>2. PICK c \in Nat : Weight[m] = w * (2 * c)
  BY WeightDivides, Zenon
<1>3. a = w * q + r /\ r \in 0 .. w - 1 /\ q \in Nat
  BY <1>1, DivMod, Zenon
<1> DEFINE e == c * t
<1>4. e \in Nat
  OBVIOUS
<1>5. Bit(a, n) = q % 2
  BY Zenon DEF Bit
<1> HIDE DEF w, q, r
<1>6. a + Weight[m] * t = r + w * (q + 2 * e)
  BY <1>1, <1>2, <1>3
<1> HIDE DEF e
<1>7. q + 2 * e \in Nat
  BY <1>3, <1>4
<1>8. (r + w * (q + 2 * e)) \div w = q + 2 * e
  BY <1>1, <1>3, <1>7, QuotientIs
<1>9. (q + 2 * e) % 2 = q % 2
  BY <1>3, <1>4
<1> QED BY <1>5, <1>6, <1>8, <1>9 DEF Bit, w

\* A bit above the number is zero.
LEMMA BitsAbove ==
  ASSUME NEW n \in 1 .. 16, NEW a \in Nat, a < Weight[n]
  PROVE  Bit(a, n) = 0
<1> DEFINE none == 0
<1>1. Weight[n] \in Nat /\ none \in Nat
  BY Weights
<1>2. a + Weight[n] * none = a
  BY <1>1
<1> HIDE DEF none
<1>3. (a + Weight[n] * none) \div Weight[n] = none
  BY <1>1, QuotientIs, Zenon
<1> QED BY <1>2, <1>3 DEF Bit, none

\* Shifting a word left by one.
LEMMA ShiftBits ==
  ASSUME NEW v \in Words
  PROVE  /\ (2 * v) % 65536 \in Words
         /\ Bit((2 * v) % 65536, 1) = 0
         /\ \A n \in 2 .. 16 : Bit((2 * v) % 65536, n) = Bit(v, n - 1)
<1> DEFINE x == (2 * v) % 65536
<1>1. PICK t \in 0 .. 1, l \in Nat : l < 32768 /\ v = l + 32768 * t
  <2>1. v \in Nat /\ v < 65536
    BY DEF Words
  <2>2. CASE v < 32768
    BY <2>1, <2>2
  <2>3. CASE v >= 32768
    <3>1. v - 32768 \in Nat /\ v - 32768 < 32768 /\ v = (v - 32768) + 32768 * 1
      BY <2>1, <2>3
    <3> QED BY <3>1
  <2> QED BY <2>1, <2>2, <2>3
<1>2. x = 2 * l
  BY <1>1
<1> HIDE DEF x
<1>3. x \in Words
  BY <1>1, <1>2 DEF Words
<1>4. Bit(x, 1) = 0
  BY <1>1, <1>2 DEF Bit, Weight
<1>5. ASSUME NEW n \in 2 .. 16
      PROVE  Bit(x, n) = Bit(v, n - 1)
  <2> DEFINE m == n - 1
             two == 2
  <2>1. m \in 1 .. 15 /\ Weight[n] = two * Weight[m] /\ Weight[m] \in Nat /\ Weight[m] > 0
    BY Weights
  <2>2. x \in Nat /\ two \in Nat /\ two > 0 /\ x \div two = l
    BY <1>1, <1>2
  <2>3. Bit(l, m) = Bit(v, m)
    <3> DEFINE k == 16
    <3>1. k \in m + 1 .. 16 /\ v = l + Weight[k] * t /\ t \in Nat
      BY <1>1, <2>1, Weights
    <3>0. m \in 1 .. 15 /\ k \in m + 1 .. 16 /\ l \in Nat /\ t \in Nat
      BY <2>1, <3>1
    <3> HIDE DEF k, m
    <3>2. Bit(l + Weight[k] * t, m) = Bit(l, m)
      BY <3>0, LowBits, Zenon
    <3> QED BY <3>1, <3>2
  <2> HIDE DEF m, two
  <2>4. (x \div two) \div Weight[m] = x \div (two * Weight[m])
    BY <2>1, <2>2, DivDiv
  <2>5. Bit(x, n) = Bit(l, m)
    BY <2>1, <2>2, <2>4 DEF Bit
  <2> QED BY <2>3, <2>5 DEF m
<1> QED BY <1>3, <1>4, <1>5 DEF x

\* A byte in the high half of a word.
LEMMA HighByteBits ==
  ASSUME NEW x \in Bytes
  PROVE  /\ x * 256 \in Words
         /\ \A n \in 1 .. 8 : Bit(x * 256, n) = 0
         /\ \A n \in 9 .. 16 : Bit(x * 256, n) = Bit(x, n - 8)
<1>1. x \in Nat /\ x * 256 \in Nat /\ x * 256 \in Words
  BY DEF Bytes, Words
<1>2. ASSUME NEW n \in 1 .. 8
      PROVE  Bit(x * 256, n) = 0
  <2> DEFINE none == 0
             m == 9
  <2>1. n \in 1 .. 15 /\ m \in n + 1 .. 16 /\ none \in Nat /\ x \in Nat
    BY <1>1
  <2>2. none < Weight[n]
    BY Weights
  <2>3. x * 256 = none + Weight[m] * x
    BY <1>1 DEF Weight
  <2> HIDE DEF none, m
  <2>4. Bit(none + Weight[m] * x, n) = Bit(none, n)
    BY <2>1, LowBits, Zenon
  <2>5. Bit(none, n) = 0
    BY <2>1, <2>2, BitsAbove
  <2> QED BY <2>3, <2>4, <2>5
<1>3. ASSUME NEW n \in 9 .. 16
      PROVE  Bit(x * 256, n) = Bit(x, n - 8)
  <2> DEFINE m == n - 8
             u == 256
  <2>1. m \in 1 .. 8 /\ Weight[n] = u * Weight[m] /\ Weight[m] \in Nat /\ Weight[m] > 0
    BY DEF Weight
  <2>2. x * 256 \in Nat /\ u \in Nat /\ u > 0 /\ (x * 256) \div u = x
    BY <1>1
  <2> HIDE DEF m, u
  <2>3. ((x * 256) \div u) \div Weight[m] = (x * 256) \div (u * Weight[m])
    BY <2>1, <2>2, DivDiv
  <2>4. Bit(x * 256, n) = Bit(x, m)
    BY <2>1, <2>2, <2>3 DEF Bit
  <2> QED BY <2>4 DEF m
<1> QED BY <1>1, <1>2, <1>3

\* A byte has no bits above the eighth, and a word without them is a byte.
LEMMA ByteBits ==
  /\ \A x \in Bytes : x \in Words /\ \A n \in 9 .. 16 : Bit(x, n) = 0
  /\ \A a \in Words : (\A n \in 9 .. 16 : Bit(a, n) = 0) => a \in Bytes
<1>1. ASSUME NEW x \in Bytes
      PROVE  x \in Words /\ \A n \in 9 .. 16 : Bit(x, n) = 0
  <2>1. x \in Nat /\ x < 256 /\ x \in Words
    BY DEF Bytes, Words
  <2>2. ASSUME NEW n \in 9 .. 16
        PROVE  Bit(x, n) = 0
    <3>1. n \in 1 .. 16 /\ Weight[n] >= 256 /\ Weight[n] \in Nat
      BY DEF Weight
    <3>2. x < Weight[n]
      BY <2>1, <3>1
    <3> QED BY <2>1, <3>1, <3>2, BitsAbove
  <2> QED BY <2>1, <2>2
<1>2. ASSUME NEW a \in Words, \A n \in 9 .. 16 : Bit(a, n) = 0
      PROVE  a \in Bytes
  <2> DEFINE t == a \div 256
  <2>1. PICK l \in Bytes : a = l + 256 * t /\ t \in Nat
    BY DEF Words, Bytes
  <2> HIDE DEF t
  <2>2. l \in Words /\ \A n \in 9 .. 16 : Bit(l, n) = 0
    BY <1>1
  <2>3. ASSUME NEW n \in 1 .. 8
        PROVE  Bit(a, n) = Bit(l, n)
    <3> DEFINE m == 9
    <3>1. n \in 1 .. 15 /\ m \in n + 1 .. 16 /\ Weight[m] = 256 /\ l \in Nat
      BY <2>2 DEF Weight, Words
    <3>2. a = l + Weight[m] * t
      BY <2>1, <3>1
    <3> HIDE DEF m
    <3>3. Bit(l + Weight[m] * t, n) = Bit(l, n)
      BY <2>1, <3>1, LowBits, Zenon
    <3> QED BY <3>2, <3>3
  <2>4. \A n \in 1 .. 16 : Bit(a, n) = Bit(l, n)
    BY <1>2, <2>2, <2>3
  <2>5. a = l
    BY <2>2, <2>4, SameBits
  <2> QED BY <2>5, Zenon
<1> QED BY <1>1, <1>2, Zenon

------------------------------------------------------------------------------
(* The checksum *)

\* Adding the same bit to two different ones leaves them different.
LEMMA BitCancels ==
  ASSUME NEW x \in 0 .. 1, NEW y \in 0 .. 1, NEW z \in 0 .. 1
  PROVE  (x + z) % 2 \in 0 .. 1 /\ ((x + z) % 2 = (y + z) % 2 => x = y)
OBVIOUS

\* One shift of the register, bit by bit: the top bit leaves it, comes back as
\* the lowest bit and flips the others that the polynomial has.
LEMMA CrcBitBits ==
  ASSUME NEW v \in Words
  PROVE  /\ CrcBit[v] \in Words
         /\ Bit(CrcBit[v], 1) = Bit(v, 16)
         /\ \A n \in 2 .. 16 :
              Bit(CrcBit[v], n) = (Bit(v, n - 1) + (IF Bit(v, 16) = 1 THEN Bit(4129, n) ELSE 0)) % 2
<1> DEFINE x == (2 * v) % 65536
<1>1. v \in Nat /\ x \in Words /\ x \in Nat
  BY ShiftBits DEF Words
<1>2. Bit(x, 1) = 0 /\ \A n \in 2 .. 16 : Bit(x, n) = Bit(v, n - 1)
  BY ShiftBits
<1>3. CrcBit[v] = IF v >= 32768 THEN Xor(x, 4129) ELSE x
  BY <1>1 DEF CrcBit
<1> HIDE DEF x
<1>4. Bit(v, 16) = IF v >= 32768 THEN 1 ELSE 0
  BY DEF Words, Bit, Weight
<1>5. CASE v >= 32768
  <2>1. 4129 \in Nat /\ Bit(4129, 1) = 1
    BY DEF Bit, Weight
  <2>2. /\ CrcBit[v] \in Words
        /\ \A n \in 1 .. 16 : Bit(CrcBit[v], n) = (Bit(x, n) + Bit(4129, n)) % 2
    BY <1>1, <1>3, <1>5, <2>1, XorBits
  <2>3. Bit(CrcBit[v], 1) = 1
    BY <1>2, <2>1, <2>2
  <2>4. Bit(v, 16) = 1
    BY <1>4, <1>5
  <2>5. ASSUME NEW n \in 2 .. 16
        PROVE  Bit(CrcBit[v], n) = (Bit(v, n - 1) + Bit(4129, n)) % 2
    <3>1. Bit(CrcBit[v], n) = (Bit(x, n) + Bit(4129, n)) % 2
      BY <2>2
    <3>2. Bit(x, n) = Bit(v, n - 1)
      BY <1>2
    <3> QED BY <3>1, <3>2
  <2> QED BY <2>2, <2>3, <2>4, <2>5
<1>6. CASE ~ (v >= 32768)
  <2>1. CrcBit[v] = x /\ Bit(v, 16) = 0
    BY <1>3, <1>4, <1>6
  <2>2. ASSUME NEW n \in 2 .. 16
        PROVE  Bit(x, n) = (Bit(v, n - 1) + 0) % 2
    <3>1. Bit(x, n) = Bit(v, n - 1)
      BY <1>2
    <3>2. Bit(v, n - 1) \in 0 .. 1
      BY <1>1, BitType
    <3> QED BY <3>1, <3>2
  <2> QED BY <1>1, <1>2, <2>1, <2>2
<1> QED BY <1>5, <1>6

\* Two words that agree outside the bits lo .. hi.
Apart(v, w, lo, hi) == \A n \in 1 .. 16 : n \in lo .. hi \/ Bit(v, n) = Bit(w, n)

\* The lowest bits after a shift give away the top bit before it, and the
\* bits below the ones they give.
LEMMA CrcBitBack ==
  ASSUME NEW v \in Words, NEW w \in Words, NEW j \in 0 .. 15,
         Apart(CrcBit[v], CrcBit[w], j + 2, 16)
  PROVE  Bit(v, 16) = Bit(w, 16) /\ Apart(v, w, j + 1, 16)
<1>1. Bit(v, 16) = Bit(w, 16)
  <2>1. 1 \in 1 .. 16 /\ ~ (1 \in j + 2 .. 16)
    OBVIOUS
  <2> QED BY <2>1, CrcBitBits DEF Apart
<1>2. ASSUME NEW n \in 1 .. 16, ~ (n \in j + 1 .. 16)
      PROVE  Bit(v, n) = Bit(w, n)
  <2> DEFINE m == n + 1
             c == IF Bit(v, 16) = 1 THEN Bit(4129, m) ELSE 0
  <2>1. m \in 2 .. 16 /\ m \in 1 .. 16 /\ ~ (m \in j + 2 .. 16) /\ m - 1 = n
    BY <1>2
  <2>2. c \in 0 .. 1 /\ Bit(v, n) \in 0 .. 1 /\ Bit(w, n) \in 0 .. 1
    BY <2>1, BitType DEF Words
  <2>3. Bit(CrcBit[v], m) = Bit(CrcBit[w], m)
    BY <2>1 DEF Apart
  <2>4. Bit(CrcBit[v], m) = (Bit(v, n) + c) % 2 /\ Bit(CrcBit[w], m) = (Bit(w, n) + c) % 2
    BY <1>1, <2>1, CrcBitBits
  <2> HIDE DEF c
  <2> QED BY <2>2, <2>3, <2>4, BitCancels, Zenon
<1> QED BY <1>1, <1>2 DEF Apart

\* A shift moves the difference of two words with the same top bit up by one.
LEMMA CrcBitForth ==
  ASSUME NEW v \in Words, NEW w \in Words, NEW lo \in Nat, NEW hi \in Nat,
         Bit(v, 16) = Bit(w, 16), Apart(v, w, lo, hi)
  PROVE  Apart(CrcBit[v], CrcBit[w], lo + 1, hi + 1)
<1> SUFFICES ASSUME NEW n \in 1 .. 16, ~ (n \in lo + 1 .. hi + 1)
             PROVE  Bit(CrcBit[v], n) = Bit(CrcBit[w], n)
  BY DEF Apart
<1>1. CASE n = 1
  BY <1>1, CrcBitBits
<1>2. CASE n # 1
  <2>1. n \in 2 .. 16 /\ n - 1 \in 1 .. 16 /\ ~ (n - 1 \in lo .. hi)
    BY <1>2
  <2>2. Bit(v, n - 1) = Bit(w, n - 1)
    BY <2>1, Zenon DEF Apart
  <2> QED BY <2>1, <2>2, CrcBitBits
<1> QED BY <1>1, <1>2, Zenon

\* Different words shift to different words.
LEMMA CrcBitInjective ==
  ASSUME NEW v \in Words, NEW w \in Words, CrcBit[v] = CrcBit[w]
  PROVE  v = w
<1> DEFINE j == 15
<1>1. j \in 0 .. 15 /\ Apart(CrcBit[v], CrcBit[w], j + 2, 16)
  BY DEF Apart
<1> HIDE DEF j
<1>2. Bit(v, 16) = Bit(w, 16) /\ Apart(v, w, j + 1, 16)
  BY <1>1, CrcBitBack, Zenon
<1>3. \A n \in 1 .. 16 : Bit(v, n) = Bit(w, n)
  BY <1>2 DEF Apart, j
<1> QED BY <1>3, SameBits, Zenon

\* The register while one byte is shifted through it.
Shifts == {f \in [0 .. 8 -> Words] : \A n \in 1 .. 8 : f[n] = CrcBit[f[n - 1]]}

\* The loop over the bits of a byte.
LEMMA CrcByteRun ==
  ASSUME NEW crc \in Words, NEW byte \in Bytes
  PROVE  \E f \in Shifts : f[0] = Xor(crc, byte * 256) /\ CrcByte[crc][byte] = f[8]
<1> DEFINE round == [n \in 1 .. 8 |-> [v \in Words |-> CrcBit[v]]]
           start == Xor(crc, byte * 256)
           Is(f) == f = [n \in 0 .. 8 |-> IF n = 0 THEN Xor(crc, byte * 256) ELSE CrcBit[f[n - 1]]]
           bits == CHOOSE f : Is(f)
<1>0. crc \in Nat /\ byte * 256 \in Nat
  BY DEF Words, Bytes
<1>1. start \in Words
  BY <1>0, XorBits
<1>2. round \in [1 .. 8 -> [Words -> Words]]
  BY CrcBitBits
<1>3. PICK f \in [0 .. 8 -> Words] : f[0] = start /\ \A n \in 1 .. 8 : f[n] = round[n][f[n - 1]]
  <2> DEFINE N == 8
  <2>1. N \in Nat /\ start \in Words /\ round \in [1 .. N -> [Words -> Words]]
    BY <1>1, <1>2
  <2> HIDE DEF round, N, start
  <2>2. Runs(N, Words, start, round) # {}
    BY <2>1, LoopRuns, Zenon
  <2> QED BY <2>2 DEF N, Runs
<1>4. Is(f)
  BY <1>3
<1>5. Is(bits)
  <2> HIDE DEF Is
  <2> QED BY <1>4, Zenon
<1>6. CrcByte[crc][byte] = bits[8]
  <2> DEFINE Val(c, x) ==
               (CHOOSE g : g = [n \in 0 .. 8 |->
                  IF n = 0 THEN Xor(c, x * 256) ELSE CrcBit[g[n - 1]]])[8]
  <2>1. CrcByte = [c \in Nat |-> [x \in Bytes |-> Val(c, x)]]
    BY DEF CrcByte
  <2>2. Val(crc, byte) = bits[8]
    OBVIOUS
  <2> HIDE DEF Val, bits
  <2> QED BY <1>0, <2>1, <2>2
<1>7. /\ bits[0] = start
      /\ \A n \in 1 .. 8 : bits[n] = CrcBit[bits[n - 1]]
      /\ bits = [n \in 0 .. 8 |-> bits[n]]
  <2> HIDE DEF bits
  <2> QED BY <1>5
<1> HIDE DEF bits
<1>8. \A n \in 0 .. 8 : bits[n] \in Words
  <2> DEFINE N == 8
             D == {m \in 0 .. 8 : bits[m] \in Words}
  <2>1. N \in Nat /\ 0 \in D /\ \A n \in 1 .. N : n - 1 \in D => n \in D
    BY <1>1, <1>7, CrcBitBits
  <2> HIDE DEF D, N
  <2>2. \A n \in 0 .. N : n \in D
    BY <2>1, Induction, Zenon
  <2> QED BY <2>2 DEF D, N
<1>9. bits \in Shifts
  BY <1>7, <1>8 DEF Shifts
<1> QED BY <1>6, <1>7, <1>9

\* Two runs that end in the same word began in the same word.
LEMMA ShiftsInjective ==
  ASSUME NEW f \in Shifts, NEW g \in Shifts, f[8] = g[8]
  PROVE  f[0] = g[0]
<1> DEFINE N == 8
           D == {m \in 0 .. 8 : f[8 - m] = g[8 - m]}
<1>1. 0 \in D /\ N \in Nat
  OBVIOUS
<1>2. ASSUME NEW m \in 1 .. N, m - 1 \in D
      PROVE  m \in D
  <2> DEFINE n == 9 - m
  <2>1. n \in 1 .. 8 /\ n - 1 = 8 - m /\ 8 - (m - 1) = n /\ n - 1 \in 0 .. 8
    OBVIOUS
  <2>2. f[n] = CrcBit[f[n - 1]] /\ g[n] = CrcBit[g[n - 1]] /\ f[n - 1] \in Words /\ g[n - 1] \in Words
    BY <2>1, Zenon DEF Shifts
  <2>3. f[n] = g[n]
    BY <1>2, <2>1, Zenon
  <2>4. f[n - 1] = g[n - 1]
    BY <2>2, <2>3, CrcBitInjective, Zenon
  <2> QED BY <2>1, <2>4
<1> HIDE DEF D, N
<1>3. \A m \in 0 .. N : m \in D
  BY <1>1, <1>2, Induction, Zenon
<1> QED BY <1>3 DEF D, N

\* The low bits at the end of a run give the top bits of its last steps, and
\* the low bits at its beginning.
LEMMA ShiftsBack ==
  ASSUME NEW f \in Shifts, NEW g \in Shifts, NEW k \in 0 .. 8, NEW e \in k + 1 .. 17,
         Apart(f[8], g[8], e, 16)
  PROVE  /\ \A m \in 1 .. k : Bit(f[8 - m], 16) = Bit(g[8 - m], 16)
         /\ Apart(f[8 - k], g[8 - k], e - k, 16)
<1> DEFINE D == {m \in 0 .. k : Apart(f[8 - m], g[8 - m], e - m, 16)}
<1>1. 0 \in D
  OBVIOUS
<1>2. ASSUME NEW m \in 1 .. k, m - 1 \in D
      PROVE  m \in D /\ Bit(f[8 - m], 16) = Bit(g[8 - m], 16)
  <2> DEFINE n == 9 - m
             j == e - m - 1
  <2>1. /\ n \in 1 .. 8 /\ n - 1 = 8 - m /\ 8 - (m - 1) = n /\ n - 1 \in 0 .. 8
        /\ j \in 0 .. 15 /\ j + 2 = e - (m - 1) /\ j + 1 = e - m
    OBVIOUS
  <2>2. f[n] = CrcBit[f[n - 1]] /\ g[n] = CrcBit[g[n - 1]] /\ f[n - 1] \in Words /\ g[n - 1] \in Words
    BY <2>1, Zenon DEF Shifts
  <2>3. Apart(f[n], g[n], j + 2, 16)
    BY <1>2, <2>1, Zenon
  <2>4. Apart(CrcBit[f[n - 1]], CrcBit[g[n - 1]], j + 2, 16)
    BY <2>2, <2>3
  <2>5. Bit(f[n - 1], 16) = Bit(g[n - 1], 16) /\ Apart(f[n - 1], g[n - 1], j + 1, 16)
    <3> HIDE DEF n, j
    <3> QED BY <2>1, <2>2, <2>4, CrcBitBack, Zenon
  <2> QED BY <2>1, <2>5
<1>3. D \subseteq 0 .. k /\ k \in Nat
  OBVIOUS
<1>4. k \in D => Apart(f[8 - k], g[8 - k], e - k, 16)
  BY Zenon
<1> HIDE DEF D
<1>5. \A m \in 0 .. k : m \in D
  BY <1>1, <1>2, <1>3, Induction
<1>6. ASSUME NEW m \in 1 .. k
      PROVE  Bit(f[8 - m], 16) = Bit(g[8 - m], 16)
  <2>1. m - 1 \in D
    BY <1>5
  <2> QED BY <1>2, <2>1, Zenon
<1> QED BY <1>3, <1>4, <1>5, <1>6

\* Two runs whose beginnings differ at most in the i bits from the ninth on,
\* and whose ends agree in the i lowest bits, are the same run.
LEMMA ShiftsWindow ==
  ASSUME NEW f \in Shifts, NEW g \in Shifts, NEW i \in 0 .. 8,
         Apart(f[0], g[0], 9, 8 + i), Apart(f[8], g[8], i + 1, 16)
  PROVE  f[0] = g[0] /\ f[8] = g[8]
<1> DEFINE N == 8
           D == {n \in 0 .. 8 : Apart(f[n], g[n], 9 + n, 8 + i + n)}
<1>1. \A m \in 1 .. i : Bit(f[8 - m], 16) = Bit(g[8 - m], 16)
  <2> DEFINE e == i + 1
  <2>1. e \in i + 1 .. 17 /\ Apart(f[8], g[8], e, 16)
    OBVIOUS
  <2> HIDE DEF e
  <2> QED BY <2>1, ShiftsBack, Zenon
<1>2. 0 \in D /\ N \in Nat
  OBVIOUS
<1>3. ASSUME NEW n \in 1 .. N, n - 1 \in D
      PROVE  n \in D
  <2> DEFINE lo == 8 + n
             hi == 7 + i + n
  <2>1. n - 1 \in 0 .. 8 /\ lo \in Nat /\ hi \in Nat /\ Apart(f[n - 1], g[n - 1], lo, hi)
    <3>1. 9 + (n - 1) = lo /\ 8 + i + (n - 1) = hi
      OBVIOUS
    <3> QED BY <1>3, <3>1
  <2>2. f[n] = CrcBit[f[n - 1]] /\ g[n] = CrcBit[g[n - 1]] /\ f[n - 1] \in Words /\ g[n - 1] \in Words
    BY <2>1, Zenon DEF Shifts
  <2>3. Bit(f[n - 1], 16) = Bit(g[n - 1], 16)
    <3>1. CASE n - 1 >= 8 - i
      <4>1. 9 - n \in 1 .. i /\ 8 - (9 - n) = n - 1
        BY <3>1
      <4> QED BY <1>1, <4>1, Zenon
    <3>2. CASE n - 1 < 8 - i
      <4>1. 16 \in 1 .. 16 /\ ~ (16 \in lo .. hi)
        BY <3>2
      <4> QED BY <2>1, <4>1, Zenon DEF Apart
    <3> QED BY <3>1, <3>2
  <2>4. Apart(CrcBit[f[n - 1]], CrcBit[g[n - 1]], lo + 1, hi + 1)
    <3> HIDE DEF lo, hi
    <3> QED BY <2>1, <2>2, <2>3, CrcBitForth, Zenon
  <2>5. lo + 1 = 9 + n /\ hi + 1 = 8 + i + n
    OBVIOUS
  <2> QED BY <2>2, <2>4, <2>5
<1>4. 8 \in D => Apart(f[8], g[8], 17, 16 + i)
  BY DEF Apart
<1> HIDE DEF D
<1>5. \A n \in 0 .. N : n \in D
  <2> HIDE DEF N
  <2> QED BY <1>2, <1>3, Induction, Zenon
<1>6. Apart(f[8], g[8], 17, 16 + i)
  BY <1>4, <1>5
<1>7. f[8] \in Words /\ g[8] \in Words /\ \A n \in 1 .. 16 : Bit(f[8], n) = Bit(g[8], n)
  BY <1>6 DEF Apart, Shifts
<1>8. f[8] = g[8]
  BY <1>7, SameBits, Zenon
<1> QED BY <1>8, ShiftsInjective

\* Where two words meet two bytes at the top.
LEMMA XorTop ==
  ASSUME NEW s \in Words, NEW t \in Words, NEW x \in Bytes, NEW y \in Bytes, NEW i \in 0 .. 8
  PROVE  /\ Xor(s, x * 256) = Xor(s, y * 256) => x = y
         /\ (\A n \in i + 1 .. 8 : Bit(x, n) = Bit(y, n))
              => Apart(Xor(s, x * 256), Xor(s, y * 256), 9, 8 + i)
         /\ Apart(Xor(s, x * 256), Xor(t, y * 256), i + 1, 16) => Apart(s, t, i + 1, 16)
         /\ Xor(s, x * 256) = Xor(t, y * 256) /\ (\A n \in 1 .. i : Bit(x, n) = Bit(y, n))
              => Apart(s, t, 9 + i, 16)
<1> DEFINE u == x * 256
           v == y * 256
<1>1. /\ s \in Nat /\ t \in Nat /\ x \in Nat /\ y \in Nat /\ u \in Nat /\ v \in Nat
      /\ x \in Words /\ y \in Words
  BY DEF Words, Bytes
<1>2. /\ \A n \in 1 .. 8 : Bit(u, n) = 0 /\ Bit(v, n) = 0
      /\ \A n \in 9 .. 16 : Bit(u, n) = Bit(x, n - 8) /\ Bit(v, n) = Bit(y, n - 8)
  BY HighByteBits
<1> HIDE DEF u, v
<1>3. ASSUME NEW n \in 1 .. 16
      PROVE  /\ Bit(s, n) \in 0 .. 1 /\ Bit(t, n) \in 0 .. 1
             /\ Bit(u, n) \in 0 .. 1 /\ Bit(v, n) \in 0 .. 1
             /\ Bit(Xor(s, u), n) = (Bit(s, n) + Bit(u, n)) % 2
             /\ Bit(Xor(s, v), n) = (Bit(s, n) + Bit(v, n)) % 2
             /\ Bit(Xor(t, v), n) = (Bit(t, n) + Bit(v, n)) % 2
  BY <1>1, BitType, XorBits
<1>4. ASSUME Xor(s, u) = Xor(s, v)
      PROVE  x = y
  <2>1. ASSUME NEW n \in 1 .. 8
        PROVE  Bit(x, n) = Bit(y, n)
    <3> DEFINE m == n + 8
    <3>1. m \in 9 .. 16 /\ m \in 1 .. 16 /\ m - 8 = n
      OBVIOUS
    <3>2. (Bit(u, m) + Bit(s, m)) % 2 = (Bit(v, m) + Bit(s, m)) % 2
      BY <1>3, <1>4, <3>1
    <3>3. Bit(u, m) = Bit(v, m)
      BY <1>3, <3>1, <3>2, BitCancels
    <3> QED BY <1>2, <3>1, <3>3
  <2>2. \A n \in 1 .. 16 : Bit(x, n) = Bit(y, n)
    BY <2>1, ByteBits
  <2> QED BY <1>1, <2>2, SameBits
<1>5. ASSUME \A n \in i + 1 .. 8 : Bit(x, n) = Bit(y, n)
      PROVE  Apart(Xor(s, u), Xor(s, v), 9, 8 + i)
  <2> SUFFICES ASSUME NEW n \in 1 .. 16, ~ (n \in 9 .. 8 + i)
               PROVE  Bit(Xor(s, u), n) = Bit(Xor(s, v), n)
    BY DEF Apart
  <2>1. Bit(u, n) = Bit(v, n)
    <3>1. CASE n \in 1 .. 8
      BY <1>2, <3>1
    <3>2. CASE n \in 9 .. 16
      <4>1. n - 8 \in i + 1 .. 8
        BY <3>2
      <4> QED BY <1>2, <1>5, <3>2, <4>1
    <3> QED BY <3>1, <3>2
  <2> QED BY <1>3, <2>1
<1>6. ASSUME Apart(Xor(s, u), Xor(t, v), i + 1, 16)
      PROVE  Apart(s, t, i + 1, 16)
  <2> SUFFICES ASSUME NEW n \in 1 .. 16, ~ (n \in i + 1 .. 16)
               PROVE  Bit(s, n) = Bit(t, n)
    BY DEF Apart
  <2>1. n \in 1 .. 8 /\ Bit(Xor(s, u), n) = Bit(Xor(t, v), n)
    BY <1>6 DEF Apart
  <2>2. (Bit(s, n) + 0) % 2 = (Bit(t, n) + 0) % 2
    BY <1>2, <1>3, <2>1
  <2> QED BY <1>3, <2>2
<1>7. ASSUME Xor(s, u) = Xor(t, v), \A n \in 1 .. i : Bit(x, n) = Bit(y, n)
      PROVE  Apart(s, t, 9 + i, 16)
  <2> SUFFICES ASSUME NEW n \in 1 .. 16, ~ (n \in 9 + i .. 16)
               PROVE  Bit(s, n) = Bit(t, n)
    BY DEF Apart
  <2>1. Bit(u, n) = Bit(v, n)
    <3>1. CASE n \in 1 .. 8
      BY <1>2, <3>1
    <3>2. CASE n \in 9 .. 16
      <4>1. n - 8 \in 1 .. i
        BY <3>2
      <4> QED BY <1>2, <1>7, <3>2, <4>1
    <3> QED BY <3>1, <3>2
  <2>2. (Bit(s, n) + Bit(u, n)) % 2 = (Bit(t, n) + Bit(u, n)) % 2
    BY <1>3, <1>7, <2>1
  <2> QED BY <1>3, <2>2, BitCancels
<1> QED BY <1>4, <1>5, <1>6, <1>7 DEF u, v

\* A byte leaves a word in the register.
LEMMA CrcByteType ==
  ASSUME NEW crc \in Words, NEW byte \in Bytes
  PROVE  CrcByte[crc][byte] \in Words
<1>1. PICK f \in Shifts : CrcByte[crc][byte] = f[8]
  BY CrcByteRun
<1> QED BY <1>1 DEF Shifts

\* The register after every byte of b.
Registers(b, L) ==
  {f \in [0 .. L -> Words] : f[0] = 65535 /\ \A n \in 1 .. L : f[n] = CrcByte[f[n - 1]][b[n]]}

\* The loop over the bytes.
LEMMA FrameCrcRun ==
  ASSUME NEW L \in Nat, NEW b, \A n \in 1 .. L : b[n] \in Bytes
  PROVE  \E f \in Registers(b, L) : frame_crc(b, L) = f[L]
<1> DEFINE round == [n \in 1 .. L |-> [v \in Words |-> CrcByte[v][b[n]]]]
           start == 65535
           Is(f) == f = [n \in 0 .. L |-> IF n = 0 THEN 65535 ELSE CrcByte[f[n - 1]][b[n]]]
           crc == CHOOSE f : Is(f)
<1>1. start \in Words
  BY DEF Words
<1>2. round \in [1 .. L -> [Words -> Words]]
  BY CrcByteType
<1>3. PICK f \in [0 .. L -> Words] : f[0] = start /\ \A n \in 1 .. L : f[n] = round[n][f[n - 1]]
  <2> HIDE DEF round, start
  <2>1. Runs(L, Words, start, round) # {}
    BY <1>1, <1>2, LoopRuns, Zenon
  <2> QED BY <2>1 DEF Runs
<1>4. Is(f)
  <2>1. ASSUME NEW n \in 1 .. L
        PROVE  f[n] = CrcByte[f[n - 1]][b[n]]
    <3>1. n - 1 \in 0 .. L
      OBVIOUS
    <3>2. f[n - 1] \in Words
      BY <1>3, <3>1
    <3>3. round[n] = [v \in Words |-> CrcByte[v][b[n]]]
      OBVIOUS
    <3>4. round[n][f[n - 1]] = CrcByte[f[n - 1]][b[n]]
      BY <3>2, <3>3
    <3> QED BY <1>3, <3>4
  <2> HIDE DEF round
  <2> QED BY <1>3, <2>1
<1>5. Is(crc)
  <2> HIDE DEF Is
  <2> QED BY <1>4, Zenon
<1>6. frame_crc(b, L) = crc[L]
  BY DEF frame_crc
<1>7. crc[0] = 65535 /\ \A n \in 1 .. L : crc[n] = CrcByte[crc[n - 1]][b[n]]
  <2> HIDE DEF crc
  <2> QED BY <1>5
<1>10. crc = [n \in 0 .. L |-> crc[n]]
  <2> HIDE DEF crc
  <2> QED BY <1>5
<1> HIDE DEF crc
<1>8. \A n \in 0 .. L : crc[n] \in Words
  <2> DEFINE D == {m \in 0 .. L : crc[m] \in Words}
  <2>1. ASSUME NEW n \in 1 .. L, n - 1 \in D
        PROVE  n \in D
    <3>1. crc[n - 1] \in Words /\ b[n] \in Bytes /\ n \in 0 .. L
      BY <2>1
    <3>2. crc[n] = CrcByte[crc[n - 1]][b[n]]
      BY <1>7
    <3>3. CrcByte[crc[n - 1]][b[n]] \in Words
      BY <3>1, CrcByteType
    <3> QED BY <3>1, <3>2, <3>3
  <2>0. 0 \in D
    BY <1>1, <1>7
  <2> HIDE DEF D
  <2>2. \A n \in 0 .. L : n \in D
    BY <2>0, <2>1, Induction, Zenon
  <2> QED BY <2>2 DEF D
<1>9. crc \in Registers(b, L)
  <2>1. crc \in [0 .. L -> Words]
    BY <1>8, <1>10
  <2> QED BY <1>7, <2>1 DEF Registers
<1> QED BY <1>6, <1>9

\* What a run of the registers is.
LEMMA RegistersAre ==
  ASSUME NEW L \in Nat, NEW b, NEW f \in Registers(b, L)
  PROVE  /\ f[0] = 65535
         /\ \A m \in 0 .. L : f[m] \in Words
         /\ \A m \in 1 .. L : f[m] = CrcByte[f[m - 1]][b[m]]
<1>1. f \in [0 .. L -> Words]
  BY DEF Registers
<1> QED BY <1>1 DEF Registers

\* The checksum is a word, and a function of the bytes it covers.
LEMMA FrameCrcIs ==
  ASSUME NEW L \in Nat, NEW b, NEW c, \A n \in 1 .. L : b[n] \in Bytes /\ b[n] = c[n]
  PROVE  frame_crc(b, L) \in Words /\ frame_crc(b, L) = frame_crc(c, L)
<1>1. PICK f \in Registers(b, L) : frame_crc(b, L) = f[L]
  BY FrameCrcRun, Zenon
<1>2. PICK g \in Registers(c, L) : frame_crc(c, L) = g[L]
  BY FrameCrcRun
<1> DEFINE D == {n \in 0 .. L : f[n] = g[n]}
<1>0. 0 \in D
  BY DEF Registers
<1>3. ASSUME NEW n \in 1 .. L, n - 1 \in D
      PROVE  n \in D
  <2>1. f[n] = CrcByte[f[n - 1]][b[n]] /\ g[n] = CrcByte[g[n - 1]][c[n]]
    BY DEF Registers
  <2>2. f[n - 1] = g[n - 1] /\ b[n] = c[n]
    BY <1>3
  <2> QED BY <2>1, <2>2
<1> HIDE DEF D
<1>4. \A n \in 0 .. L : n \in D
  BY <1>0, <1>3, Induction
<1>5. f[L] = g[L] /\ f[L] \in Words
  BY <1>4 DEF D, Registers
<1> QED BY <1>1, <1>2, <1>5, Zenon

\* Two registers that go separate ways: what one byte can hide.
LEMMA ByteSteps ==
  ASSUME NEW s \in Words, NEW t \in Words, NEW x \in Bytes, NEW y \in Bytes, NEW i \in 0 .. 8
  PROVE  /\ CrcByte[s][x] = CrcByte[t][y] => Xor(s, x * 256) = Xor(t, y * 256)
         /\ Apart(CrcByte[s][x], CrcByte[t][y], 9 + i, 16) => Apart(s, t, i + 1, 16)
         /\ /\ \A n \in i + 1 .. 8 : Bit(x, n) = Bit(y, n)
            /\ Apart(CrcByte[s][x], CrcByte[s][y], i + 1, 16)
            => x = y
<1>1. PICK f \in Shifts : f[0] = Xor(s, x * 256) /\ CrcByte[s][x] = f[8]
  BY CrcByteRun
<1>2. PICK g \in Shifts : g[0] = Xor(t, y * 256) /\ CrcByte[t][y] = g[8]
  BY CrcByteRun
<1>3. PICK h \in Shifts : h[0] = Xor(s, y * 256) /\ CrcByte[s][y] = h[8]
  BY CrcByteRun
<1>4. CrcByte[s][x] = CrcByte[t][y] => Xor(s, x * 256) = Xor(t, y * 256)
  <2> SUFFICES ASSUME f[8] = g[8]
               PROVE  f[0] = g[0]
    BY <1>1, <1>2
  <2> QED BY ShiftsInjective, Zenon
<1>5. ASSUME Apart(CrcByte[s][x], CrcByte[t][y], 9 + i, 16)
      PROVE  Apart(s, t, i + 1, 16)
  <2> DEFINE k == 8
             e == 9 + i
  <2>1. k \in 0 .. 8 /\ e \in k + 1 .. 17 /\ Apart(f[8], g[8], e, 16)
    BY <1>1, <1>2, <1>5
  <2> HIDE DEF k, e
  <2>2. Apart(f[8 - k], g[8 - k], e - k, 16)
    BY <2>1, ShiftsBack, Zenon
  <2>3. 8 - k = 0 /\ e - k = i + 1
    BY DEF k, e
  <2>4. Apart(Xor(s, x * 256), Xor(t, y * 256), i + 1, 16)
    BY <1>1, <1>2, <2>2, <2>3
  <2> QED BY <2>4, XorTop
<1>6. ASSUME \A n \in i + 1 .. 8 : Bit(x, n) = Bit(y, n),
             Apart(CrcByte[s][x], CrcByte[s][y], i + 1, 16)
      PROVE  x = y
  <2>1. Apart(f[0], h[0], 9, 8 + i)
    BY <1>1, <1>3, <1>6, XorTop
  <2>2. Apart(f[8], h[8], i + 1, 16)
    BY <1>1, <1>3, <1>6
  <2>3. f[0] = h[0]
    BY <2>1, <2>2, ShiftsWindow, Zenon
  <2> QED BY <1>1, <1>3, <2>3, XorTop
<1> QED BY <1>4, <1>5, <1>6

\* Two words that agree in their k lowest bits.
Low(v, w, k) == Apart(v, w, k + 1, 16)

\* Two registers that meet again after bytes with the same i lowest bits
\* agreed in their 8 + i lowest bits.
LEMMA ByteMeets ==
  ASSUME NEW s \in Words, NEW t \in Words, NEW x \in Bytes, NEW y \in Bytes, NEW i \in 0 .. 8,
         CrcByte[s][x] = CrcByte[t][y], \A n \in 1 .. i : Bit(x, n) = Bit(y, n)
  PROVE  Low(s, t, 8 + i)
<1>1. Xor(s, x * 256) = Xor(t, y * 256)
  BY ByteSteps
<1>2. Apart(s, t, 9 + i, 16)
  BY <1>1, XorTop
<1>3. 9 + i = (8 + i) + 1
  OBVIOUS
<1> QED BY <1>2, <1>3, ZenonT(30) DEF Low

\* The 8 + i lowest bits after a byte give the i lowest ones before it.
LEMMA ByteBack ==
  ASSUME NEW s \in Words, NEW t \in Words, NEW x \in Bytes, NEW y \in Bytes, NEW i \in 0 .. 8,
         Low(CrcByte[s][x], CrcByte[t][y], 8 + i)
  PROVE  Low(s, t, i)
<1>1. 9 + i = (8 + i) + 1
  OBVIOUS
<1>2. Apart(CrcByte[s][x], CrcByte[t][y], 9 + i, 16)
  BY <1>1, ZenonT(30) DEF Low
<1> QED BY <1>2, ByteSteps DEF Low

\* From the same register, bytes that differ in their i lowest bits leave
\* words that differ in their i lowest bits.
LEMMA ByteWindow ==
  ASSUME NEW s \in Words, NEW x \in Bytes, NEW y \in Bytes, NEW i \in 0 .. 8,
         \A n \in i + 1 .. 8 : Bit(x, n) = Bit(y, n), Low(CrcByte[s][x], CrcByte[s][y], i)
  PROVE  x = y
BY ByteSteps DEF Low

\* From the same register, different bytes leave different words.
LEMMA ByteDiffers ==
  ASSUME NEW s \in Words, NEW x \in Bytes, NEW y \in Bytes, CrcByte[s][x] = CrcByte[s][y]
  PROVE  x = y
<1> DEFINE i == 8
<1>1. i \in 0 .. 8 /\ \A n \in i + 1 .. 8 : Bit(x, n) = Bit(y, n)
  OBVIOUS
<1>2. Low(CrcByte[s][x], CrcByte[s][y], i)
  BY Zenon DEF Low, Apart
<1> HIDE DEF i
<1> QED BY <1>1, <1>2, ByteWindow, Zenon

\* The same byte keeps different registers different.
LEMMA ByteInjective ==
  ASSUME NEW s \in Words, NEW t \in Words, NEW x \in Bytes, CrcByte[s][x] = CrcByte[t][x]
  PROVE  s = t
<1> DEFINE i == 8
<1>1. i \in 0 .. 8 /\ \A n \in 1 .. i : Bit(x, n) = Bit(x, n)
  OBVIOUS
<1> HIDE DEF i
<1>2. Low(s, t, 8 + i)
  BY <1>1, ByteMeets, Zenon
<1>3. \A n \in 1 .. 16 : Bit(s, n) = Bit(t, n)
  BY <1>2 DEF Low, Apart, i
<1> QED BY <1>3, SameBits, Zenon

\* The bits of a word stored in two bytes.
LEMMA LoadBits ==
  ASSUME NEW x \in Bytes, NEW y \in Bytes
  PROVE  /\ x * 256 + y \in Words
         /\ \A n \in 1 .. 8 : Bit(x * 256 + y, n) = Bit(y, n)
         /\ \A n \in 9 .. 16 : Bit(x * 256 + y, n) = Bit(x, n - 8)
<1>1. x \in Nat /\ y \in Nat /\ x * 256 + y \in Nat /\ x * 256 + y \in Words
  BY DEF Bytes, Words
<1>2. ASSUME NEW n \in 1 .. 8
      PROVE  Bit(x * 256 + y, n) = Bit(y, n)
  <2> DEFINE m == 9
  <2>1. n \in 1 .. 15 /\ m \in n + 1 .. 16 /\ x \in Nat /\ y \in Nat
    BY <1>1
  <2>2. x * 256 + y = y + Weight[m] * x
    BY <1>1 DEF Weight
  <2> HIDE DEF m
  <2>3. Bit(y + Weight[m] * x, n) = Bit(y, n)
    BY <2>1, LowBits, Zenon
  <2> QED BY <2>2, <2>3
<1>3. ASSUME NEW n \in 9 .. 16
      PROVE  Bit(x * 256 + y, n) = Bit(x, n - 8)
  <2> DEFINE m == n - 8
             u == 256
             a == x * 256 + y
  <2>1. m \in 1 .. 8 /\ Weight[n] = u * Weight[m] /\ Weight[m] \in Nat /\ Weight[m] > 0
    BY DEF Weight
  <2>2. a \in Nat /\ u \in Nat /\ u > 0 /\ a \div u = x
    BY <1>1 DEF Bytes
  <2> HIDE DEF m, u, a
  <2>3. (a \div u) \div Weight[m] = a \div (u * Weight[m])
    BY <2>1, <2>2, DivDiv
  <2>4. Bit(a, n) = Bit(x, m)
    BY <2>1, <2>2, <2>3 DEF Bit
  <2> QED BY <2>4 DEF m, a
<1> QED BY <1>1, <1>2, <1>3

\* The word of two bytes.
Loaded(x, y) == x * 256 + y

\* The frame's last word is its last two bytes.
LEMMA LoadedWord ==
  ASSUME NEW b
  PROVE  load_u16(b, 36) = Loaded(b[37], b[38])
BY DEF load_u16, Loaded

\* Two bytes are determined by their word.
LEMMA LoadInjective ==
  ASSUME NEW x \in Bytes, NEW y \in Bytes, NEW u \in Bytes, NEW v \in Bytes,
         Loaded(x, y) = Loaded(u, v)
  PROVE  x = u /\ y = v
BY DEF Bytes, Loaded

\* Two frames of 38 bytes that differ at most in the i lowest bits of byte n, in
\* byte n + 1 and in the 8 - i highest bits of byte n + 2: in 16 consecutive
\* bits, as they are sent.
Close(b, c, n, i) ==
  /\ \A m \in 1 .. 38 : m \in n .. n + 2 \/ b[m] = c[m]
  /\ \A k \in i + 1 .. 8 : Bit(b[n], k) = Bit(c[n], k)
  /\ \A k \in 1 .. i : Bit(b[n + 2], k) = Bit(c[n + 2], k)

\* They differ within 16 consecutive bits somewhere on the frame.
OneBurst(b, c) == \E n \in 1 .. 36, i \in 0 .. 8 : Close(b, c, n, i)

SameBytes(b, c) == \A m \in 1 .. 38 : b[m] = c[m]

\* The bytes of a frame, whatever surrounds them.
Octets(b) == \A m \in 1 .. 38 : b[m] \in Bytes

\* decode_frame's last check.
Checked(b) == load_u16(b, 36) = frame_crc(b, 36)

\* No two different frames with a right checksum are that close: the CRC of
\* frame_crc detects every burst of up to 16 bits, wherever it falls on the
\* frame, the checksum itself included.
THEOREM BurstDistance ==
  ASSUME NEW b, NEW c, Octets(b), Octets(c), OneBurst(b, c), Checked(b), Checked(c)
  PROVE  SameBytes(b, c)
<1> SUFFICES \A m \in 1 .. 38 : b[m] = c[m]
  BY Zenon DEF SameBytes
<1>0. PICK n \in 1 .. 36, i \in 0 .. 8 : Close(b, c, n, i)
  BY Zenon DEF OneBurst
<1> USE <1>0
<1> DEFINE L == 36
<1>1. L \in Nat /\ \A m \in 1 .. L : b[m] \in Bytes /\ c[m] \in Bytes
  BY DEF Octets
<1>2. PICK f \in Registers(b, L) : frame_crc(b, L) = f[L]
  <2> HIDE DEF L
  <2> QED BY <1>1, FrameCrcRun, Zenon
<1>3. PICK g \in Registers(c, L) : frame_crc(c, L) = g[L]
  <2> HIDE DEF L
  <2> QED BY <1>1, FrameCrcRun, ZenonT(30)
<1>4. /\ \A m \in 0 .. 36 : f[m] \in Words /\ g[m] \in Words
      /\ \A m \in 1 .. 36 : f[m] = CrcByte[f[m - 1]][b[m]] /\ g[m] = CrcByte[g[m - 1]][c[m]]
      /\ f[0] = g[0]
  <2> HIDE DEF L
  <2>1. /\ \A m \in 0 .. L : f[m] \in Words /\ g[m] \in Words
        /\ \A m \in 1 .. L : f[m] = CrcByte[f[m - 1]][b[m]] /\ g[m] = CrcByte[g[m - 1]][c[m]]
        /\ f[0] = g[0]
    <3>1. /\ \A m \in 0 .. L : f[m] \in Words
          /\ \A m \in 1 .. L : f[m] = CrcByte[f[m - 1]][b[m]]
          /\ f[0] = 65535
      BY <1>1, RegistersAre
    <3>2. /\ \A m \in 0 .. L : g[m] \in Words
          /\ \A m \in 1 .. L : g[m] = CrcByte[g[m - 1]][c[m]]
          /\ g[0] = 65535
      BY <1>1, RegistersAre
    <3> QED BY <3>1, <3>2
  <2> QED BY <2>1, ZenonT(30) DEF L
<1> DEFINE Places == 1 .. 36
           Round(k, m) == /\ f[m] = CrcByte[f[k]][b[m]] /\ g[m] = CrcByte[g[k]][c[m]]
                          /\ f[k] \in Words /\ g[k] \in Words
                          /\ b[m] \in Bytes /\ c[m] \in Bytes
<1>4a. ASSUME NEW m \in Places, NEW k, k = m - 1
       PROVE  Round(k, m)
  <2> DEFINE Before == 0 .. 36
  <2>1. k \in Before
    BY <1>4a, SMTT(30)
  <2>2. \A l \in Before : f[l] \in Words /\ g[l] \in Words
    BY <1>4, ZenonT(30)
  <2>3. \A l \in Places : f[l] = CrcByte[f[l - 1]][b[l]] /\ g[l] = CrcByte[g[l - 1]][c[l]]
    BY <1>4, Zenon
  <2>4. b[m] \in Bytes /\ c[m] \in Bytes
    BY DEF Octets
  <2> HIDE DEF Before, Places
  <2> QED BY <1>4a, <2>1, <2>2, <2>3, <2>4, Zenon
<1> HIDE DEF Places, Round
<1>5. f[36] = b[37] * 256 + b[38] /\ g[36] = c[37] * 256 + c[38]
  BY <1>2, <1>3 DEF Checked, load_u16
<1> HIDE DEF L
<1>6. /\ b[37] \in Bytes /\ b[38] \in Bytes /\ c[37] \in Bytes /\ c[38] \in Bytes
      /\ f[36] = g[36] => b[37] = c[37] /\ b[38] = c[38]
      /\ b[37] = c[37] /\ b[38] = c[38] => f[36] = g[36]
  <2>1. b[37] \in Bytes /\ b[38] \in Bytes /\ c[37] \in Bytes /\ c[38] \in Bytes
    BY DEF Octets
  <2>2. f[36] = Loaded(b[37], b[38]) /\ g[36] = Loaded(c[37], c[38])
    BY <1>2, <1>3, LoadedWord DEF Checked, L
  <2>3. f[36] = g[36] => b[37] = c[37] /\ b[38] = c[38]
    <3> DEFINE x == b[37]
               y == b[38]
               u == c[37]
               v == c[38]
    <3>1. x \in Bytes /\ y \in Bytes /\ u \in Bytes /\ v \in Bytes
      BY <2>1
    <3> HIDE DEF x, y, u, v
    <3>2. Loaded(x, y) = Loaded(u, v) => x = u /\ y = v
      BY <3>1, LoadInjective, ZenonT(30)
    <3> QED BY <2>2, <3>2 DEF x, y, u, v
  <2> QED BY <2>1, <2>2, <2>3
<1>7. f[n - 1] = g[n - 1]
  <2> DEFINE N == n - 1
             D == {m \in 0 .. N : f[m] = g[m]}
  <2>1. 0 \in D /\ N \in Nat
    <3>1. f[0] = g[0]
      BY <1>4, Zenon
    <3>2. N \in Nat
      OBVIOUS
    <3> QED BY <3>1, <3>2
  <2>2. ASSUME NEW m \in 1 .. N, m - 1 \in D
        PROVE  m \in D
    <3>1. b[m] = c[m]
      BY DEF Close
    <3>2. m \in Places /\ f[m - 1] = g[m - 1] /\ m \in 0 .. N
      BY <2>2 DEF Places
    <3>3. Round(m - 1, m)
      BY <1>4a, <3>2, Zenon
    <3> QED BY <3>1, <3>2, <3>3 DEF Round
  <2> HIDE DEF D, N
  <2>3. \A m \in 0 .. N : m \in D
    BY <2>1, <2>2, Induction, Zenon
  <2> QED BY <2>1, <2>3, SMTT(30) DEF D, N
<1>8. ASSUME n <= 34
      PROVE  f[n + 2] = g[n + 2]
  <2> DEFINE N == 34 - n
             D == {m \in 0 .. N : f[36 - m] = g[36 - m]}
  <2>1. 0 \in D /\ N \in Nat
    <3>1. b[37] = c[37] /\ b[38] = c[38]
      BY <1>8 DEF Close
    <3> QED BY <1>6, <1>8, <3>1
  <2>2. ASSUME NEW m \in 1 .. N, m - 1 \in D
        PROVE  m \in D
    <3> DEFINE k == 37 - m
    <3>1. k \in n + 3 .. 36 /\ k - 1 = 36 - m /\ 36 - (m - 1) = k /\ k \in Places
      BY <1>8 DEF Places
    <3>2. b[k] = c[k]
      BY <3>1 DEF Close, Places
    <3>3. f[k] = g[k]
      BY <2>2, <3>1
    <3>4. f[k - 1] = g[k - 1]
      <4> HIDE DEF k
      <4>1. Round(k - 1, k)
        BY <1>4a, <3>1, Zenon
      <4>2. CrcByte[f[k - 1]][b[k]] = CrcByte[g[k - 1]][b[k]]
        BY <3>2, <3>3, <4>1, Zenon DEF Round
      <4> QED BY <4>1, <4>2, ByteInjective, ZenonT(30) DEF Round
    <3> QED BY <3>1, <3>4
  <2> HIDE DEF D, N
  <2>3. \A m \in 0 .. N : m \in D
    BY <2>1, <2>2, Induction, Zenon
  <2> QED BY <1>8, <2>1, <2>3 DEF D, N
<1>9. ASSUME n <= 35
      PROVE  Low(f[n + 1], g[n + 1], 8 + i)
  <2>1. CASE n <= 34
    <3>1. Round(n + 1, n + 2)
      <4>1. n + 2 \in Places /\ n + 1 = (n + 2) - 1
        BY <2>1 DEF Places
      <4> QED BY <1>4a, <4>1, Zenon
    <3>2. f[n + 2] = g[n + 2]
      BY <1>8, <2>1
    <3>3. CrcByte[f[n + 1]][b[n + 2]] = CrcByte[g[n + 1]][c[n + 2]]
      BY <3>1, <3>2, Zenon DEF Round
    <3>4. \A k \in 1 .. i : Bit(b[n + 2], k) = Bit(c[n + 2], k)
      BY DEF Close
    <3> QED BY <3>1, <3>3, <3>4, ByteMeets, Zenon DEF Round
  <2>2. CASE n = 35
    <3> SUFFICES ASSUME NEW k \in 1 .. 16, ~ (k \in 9 + i .. 16)
                 PROVE  Bit(f[36], k) = Bit(g[36], k)
      BY <2>2 DEF Apart, Low
    <3>1. CASE k \in 1 .. 8
      <4>1. b[38] = c[38]
        BY <2>2 DEF Close
      <4> QED BY <1>5, <1>6, <3>1, <4>1, LoadBits
    <3>2. CASE k \in 9 .. 16
      <4>1. k - 8 \in 1 .. i
        BY <3>2
      <4>2. Bit(b[37], k - 8) = Bit(c[37], k - 8)
        BY <2>2, <4>1 DEF Close
      <4> QED BY <1>5, <1>6, <3>2, <4>2, LoadBits
    <3> QED BY <3>1, <3>2
  <2> QED BY <1>9, <2>1, <2>2
<1>10. Low(f[n], g[n], i)
  <2>1. CASE n <= 35
    <3>1. Round(n, n + 1)
      <4>1. n + 1 \in Places /\ n = (n + 1) - 1
        BY <2>1 DEF Places
      <4> QED BY <1>4a, <4>1, Zenon
    <3>2. Low(f[n + 1], g[n + 1], 8 + i)
      BY <1>9, <2>1
    <3>3. Low(CrcByte[f[n]][b[n + 1]], CrcByte[g[n]][c[n + 1]], 8 + i)
      BY <3>1, <3>2, ZenonT(30) DEF Round
    <3> QED BY <3>1, <3>3, ByteBack, Zenon DEF Round
  <2>2. CASE n = 36
    <3> SUFFICES ASSUME NEW k \in 1 .. 16, ~ (k \in i + 1 .. 16)
                 PROVE  Bit(f[36], k) = Bit(g[36], k)
      BY <2>2 DEF Apart, Low
    <3>1. k \in 1 .. 8 /\ k \in 1 .. i
      OBVIOUS
    <3>2. Bit(b[38], k) = Bit(c[38], k)
      BY <2>2, <3>1 DEF Close
    <3> QED BY <1>5, <1>6, <3>1, <3>2, LoadBits
  <2> QED BY <2>1, <2>2
<1>11. b[n] = c[n] /\ f[n] = g[n]
  <2>a. n \in Places
    BY DEF Places
  <2>b. Round(n - 1, n)
    BY <1>4a, <2>a, Zenon
  <2>1. /\ f[n] = CrcByte[f[n - 1]][b[n]] /\ g[n] = CrcByte[f[n - 1]][c[n]]
        /\ f[n - 1] \in Words /\ b[n] \in Bytes /\ c[n] \in Bytes
    BY <1>7, <2>b, Zenon DEF Round
  <2>2. \A k \in i + 1 .. 8 : Bit(b[n], k) = Bit(c[n], k)
    BY DEF Close
  <2>3. Low(CrcByte[f[n - 1]][b[n]], CrcByte[f[n - 1]][c[n]], i)
    BY <1>10, <2>1, Zenon
  <2>4. b[n] = c[n]
    BY <2>1, <2>2, <2>3, ByteWindow, Zenon
  <2> QED BY <2>1, <2>4, Zenon
<1>12. b[n + 1] = c[n + 1] /\ (n <= 35 => f[n + 1] = g[n + 1])
  <2>1. CASE n = 36
    BY <1>6, <1>11, <2>1
  <2>2. CASE n <= 35
    <3> DEFINE j == 8
    <3>1. /\ f[n + 1] = CrcByte[f[n]][b[n + 1]] /\ g[n + 1] = CrcByte[f[n]][c[n + 1]]
          /\ f[n] \in Words /\ b[n + 1] \in Bytes /\ c[n + 1] \in Bytes
      <4>1. n + 1 \in Places /\ n = (n + 1) - 1
        BY <2>2 DEF Places
      <4>2. Round(n, n + 1)
        BY <1>4a, <4>1, Zenon
      <4> QED BY <1>11, <4>2, ZenonT(30) DEF Round
    <3>2. j \in 0 .. 8 /\ \A k \in j + 1 .. 8 : Bit(b[n + 1], k) = Bit(c[n + 1], k)
      OBVIOUS
    <3>3. Low(CrcByte[f[n]][b[n + 1]], CrcByte[f[n]][c[n + 1]], j)
      <4>1. Low(f[n + 1], g[n + 1], 8 + i)
        BY <1>9, <2>2
      <4>2. Low(f[n + 1], g[n + 1], j)
        BY <4>1 DEF Apart, Low
      <4> HIDE DEF j
      <4> QED BY <3>1, <4>2, Zenon
    <3> HIDE DEF j
    <3>4. b[n + 1] = c[n + 1]
      BY <3>1, <3>2, <3>3, ByteWindow, Zenon
    <3> QED BY <3>1, <3>4, Zenon
  <2> QED BY <2>1, <2>2
<1>13. b[n + 2] = c[n + 2]
  <2>1. CASE n = 36
    BY <1>6, <1>11, <2>1
  <2>2. CASE n = 35
    BY <1>6, <1>12, <2>2
  <2>3. CASE n <= 34
    <3>1. /\ f[n + 2] = CrcByte[f[n + 1]][b[n + 2]] /\ g[n + 2] = CrcByte[f[n + 1]][c[n + 2]]
          /\ f[n + 1] \in Words /\ b[n + 2] \in Bytes /\ c[n + 2] \in Bytes
      <4>1. n + 2 \in Places /\ n + 1 = (n + 2) - 1
        BY <2>3 DEF Places
      <4>2. Round(n + 1, n + 2)
        BY <1>4a, <4>1, Zenon
      <4>3. f[n + 1] = g[n + 1]
        BY <1>12, <2>3
      <4> QED BY <4>2, <4>3, ZenonT(30) DEF Round
    <3>2. CrcByte[f[n + 1]][b[n + 2]] = CrcByte[f[n + 1]][c[n + 2]]
      BY <1>8, <2>3, <3>1
    <3> QED BY <3>1, <3>2, ByteDiffers, Zenon
  <2> QED BY <2>1, <2>2, <2>3
<1>14. ASSUME NEW m \in 1 .. 38
       PROVE  b[m] = c[m]
  <2>1. m \in n .. n + 2 \/ b[m] = c[m]
    BY DEF Close
  <2>2. m \in n .. n + 2 => m = n \/ m = n + 1 \/ m = n + 2
    OBVIOUS
  <2> QED BY <1>11, <1>12, <1>13, <2>1, <2>2
<1> QED BY <1>14, Zenon

------------------------------------------------------------------------------
(* The fields *)

\* The two or four bytes of v at an offset.
Holds16(b, at, v) == b[at + 1] = (v \div 256) % 256 /\ b[at + 2] = v % 256
Holds32(b, at, v) ==
  /\ b[at + 1] = (v \div 16777216) % 256 /\ b[at + 2] = (v \div 65536) % 256
  /\ b[at + 3] = (v \div 256) % 256 /\ b[at + 4] = v % 256

\* A remainder is a byte.
LEMMA RemainderByte ==
  ASSUME NEW v \in Int
  PROVE  v % 256 \in Bytes
BY DEF Bytes

\* What the stores write.
LEMMA StoredBytes ==
  ASSUME NEW v \in Int
  PROVE  /\ store_u16(v) \in Seq(Bytes) /\ Len(store_u16(v)) = 2 /\ Holds16(store_u16(v), 0, v)
         /\ store_u32(v) \in Seq(Bytes) /\ Len(store_u32(v)) = 4 /\ Holds32(store_u32(v), 0, v)
<1> DEFINE w == (v \div 16777216) % 256
           x == (v \div 65536) % 256
           y == (v \div 256) % 256
           z == v % 256
<1>1. w \in Bytes /\ x \in Bytes /\ y \in Bytes /\ z \in Bytes
  <2>1. v \div 16777216 \in Int /\ v \div 65536 \in Int /\ v \div 256 \in Int
    OBVIOUS
  <2> QED BY <2>1, RemainderByte
<1>2. store_u16(v) = <<y, z>> /\ store_u32(v) = <<w, x, y, z>>
  BY DEF store_u16, store_u32
<1>3. /\ Holds16(<<y, z>>, 0, v) <=> <<y, z>>[1] = y /\ <<y, z>>[2] = z
      /\ Holds32(<<w, x, y, z>>, 0, v) <=>
           /\ <<w, x, y, z>>[1] = w /\ <<w, x, y, z>>[2] = x
           /\ <<w, x, y, z>>[3] = y /\ <<w, x, y, z>>[4] = z
  BY DEF Holds16, Holds32
<1> HIDE DEF w, x, y, z
<1>4. /\ <<y, z>> \in Seq(Bytes) /\ Len(<<y, z>>) = 2
      /\ <<w, x, y, z>> \in Seq(Bytes) /\ Len(<<w, x, y, z>>) = 4
  BY <1>1
<1> QED BY <1>2, <1>3, <1>4

\* The elements of a sequence of bytes.
LEMMA Elements ==
  ASSUME NEW s \in Seq(Bytes), NEW n \in 1 .. Len(s)
  PROVE  s[n] \in Bytes
OBVIOUS

\* One part of the frame after another.
LEMMA BodyParts ==
  ASSUME NEW s \in Seq(Bytes), NEW t \in Seq(Bytes)
  PROVE  /\ s \o t \in Seq(Bytes) /\ Len(s \o t) = Len(s) + Len(t)
         /\ \A n \in 1 .. Len(s) : (s \o t)[n] = s[n]
         /\ \A n \in 1 .. Len(t) : (s \o t)[Len(s) + n] = t[n]
OBVIOUS

\* One sequence of bytes begins with another.
Prefix(s, t) ==
  /\ s \in Seq(Bytes) /\ t \in Seq(Bytes) /\ Len(s) <= Len(t)
  /\ \A n \in 1 .. Len(s) : t[n] = s[n]

\* t is s with a field behind it.
Writes16(s, t, v) == Prefix(s, t) /\ Len(t) = Len(s) + 2 /\ Holds16(t, Len(s), v)
Writes32(s, t, v) == Prefix(s, t) /\ Len(t) = Len(s) + 4 /\ Holds32(t, Len(s), v)

\* Storing two bytes behind the others.
LEMMA Put16 ==
  ASSUME NEW s \in Seq(Bytes), NEW v \in Int
  PROVE  Writes16(s, s \o store_u16(v), v)
<1> DEFINE p == store_u16(v)
           t == s \o p
<1>1. p \in Seq(Bytes) /\ Len(p) = 2 /\ Holds16(p, 0, v)
  BY StoredBytes, Zenon
<1> HIDE DEF p
<1>2. /\ t \in Seq(Bytes) /\ Len(t) = Len(s) + Len(p)
      /\ \A n \in 1 .. Len(s) : t[n] = s[n]
      /\ \A n \in 1 .. Len(p) : t[Len(s) + n] = p[n]
  BY <1>1, BodyParts, Zenon
<1>3. t[Len(s) + 1] = p[1] /\ t[Len(s) + 2] = p[2]
  BY <1>1, <1>2
<1> HIDE DEF t
<1>4. Holds16(t, Len(s), v)
  BY <1>1, <1>3 DEF Holds16
<1>5. Len(s) \in Nat /\ Len(t) = Len(s) + 2 /\ Len(s) <= Len(t)
  BY <1>1, <1>2
<1>6. Writes16(s, t, v)
  BY <1>2, <1>4, <1>5, Zenon DEF Writes16, Prefix
<1> QED BY <1>6, Zenon DEF t, p

\* Storing four bytes behind the others.
LEMMA Put32 ==
  ASSUME NEW s \in Seq(Bytes), NEW v \in Int
  PROVE  Writes32(s, s \o store_u32(v), v)
<1> DEFINE p == store_u32(v)
           t == s \o p
<1>1. p \in Seq(Bytes) /\ Len(p) = 4 /\ Holds32(p, 0, v)
  BY StoredBytes, Zenon
<1> HIDE DEF p
<1>2. /\ t \in Seq(Bytes) /\ Len(t) = Len(s) + Len(p)
      /\ \A n \in 1 .. Len(s) : t[n] = s[n]
      /\ \A n \in 1 .. Len(p) : t[Len(s) + n] = p[n]
  BY <1>1, BodyParts, Zenon
<1>3. t[Len(s) + 1] = p[1] /\ t[Len(s) + 2] = p[2] /\ t[Len(s) + 3] = p[3] /\ t[Len(s) + 4] = p[4]
  BY <1>1, <1>2
<1> HIDE DEF t
<1>4. Holds32(t, Len(s), v)
  BY <1>1, <1>3 DEF Holds32
<1>5. Len(s) \in Nat /\ Len(t) = Len(s) + 4 /\ Len(s) <= Len(t)
  BY <1>1, <1>2
<1>6. Writes32(s, t, v)
  BY <1>2, <1>4, <1>5 DEF Writes32, Prefix
<1> QED BY <1>6, Zenon DEF t, p

\* Both words of a 64-bit field.
HighWord(v) == (v \div 65536) \div 65536

\* store_be writes them high word first, and they are the value of the bytes.
LEMMA Put64 ==
  ASSUME NEW s \in Seq(Bytes), NEW v \in Int
  PROVE  s \o store_u64(v) = (s \o store_u32(HighWord(v))) \o store_u32(v)
<1> DEFINE p == store_u32((v \div 65536) \div 65536)
           q == store_u32(v)
<1>1. p \in Seq(Bytes) /\ q \in Seq(Bytes)
  <2>1. (v \div 65536) \div 65536 \in Int
    OBVIOUS
  <2> QED BY <2>1, StoredBytes
<1> HIDE DEF p, q
<1>2. s \o (p \o q) = (s \o p) \o q
  BY <1>1
<1> QED BY <1>2 DEF store_u64, p, q, HighWord

\* Prefixes of prefixes.
LEMMA PrefixTransitive ==
  ASSUME NEW s, NEW t, NEW u, Prefix(s, t), Prefix(t, u)
  PROVE  Prefix(s, u)
<1>1. s \in Seq(Bytes) /\ t \in Seq(Bytes) /\ u \in Seq(Bytes) /\ Len(s) <= Len(t) /\ Len(t) <= Len(u)
  BY Zenon DEF Prefix
<1>2. Len(s) \in Nat /\ Len(t) \in Nat /\ Len(u) \in Nat
  BY <1>1
<1>3. ASSUME NEW n \in 1 .. Len(s)
      PROVE  u[n] = s[n]
  <2>1. n \in 1 .. Len(t)
    BY <1>1, <1>2
  <2> QED BY <2>1, Zenon DEF Prefix
<1> QED BY <1>1, <1>2, <1>3 DEF Prefix

\* A field stays where it is when more is stored behind it.
LEMMA HoldsKept ==
  ASSUME NEW t, NEW u, NEW at \in Nat, NEW v, Prefix(t, u)
  PROVE  /\ at + 2 <= Len(t) /\ Holds16(t, at, v) => Holds16(u, at, v)
         /\ at + 4 <= Len(t) /\ Holds32(t, at, v) => Holds32(u, at, v)
<1>0. Len(t) \in Nat
  <2>1. t \in Seq(Bytes)
    BY Zenon DEF Prefix
  <2> QED BY <2>1
<1>1. ASSUME at + 2 <= Len(t), Holds16(t, at, v)
      PROVE  Holds16(u, at, v)
  <2>1. at + 1 \in 1 .. Len(t) /\ at + 2 \in 1 .. Len(t)
    BY <1>0, <1>1
  <2>2. u[at + 1] = t[at + 1] /\ u[at + 2] = t[at + 2]
    BY <2>1, Zenon DEF Prefix
  <2> QED BY <1>1, <2>2 DEF Holds16
<1>2. ASSUME at + 4 <= Len(t), Holds32(t, at, v)
      PROVE  Holds32(u, at, v)
  <2>1. /\ at + 1 \in 1 .. Len(t) /\ at + 2 \in 1 .. Len(t)
        /\ at + 3 \in 1 .. Len(t) /\ at + 4 \in 1 .. Len(t)
    BY <1>0, <1>2
  <2>2. /\ u[at + 1] = t[at + 1] /\ u[at + 2] = t[at + 2]
        /\ u[at + 3] = t[at + 3] /\ u[at + 4] = t[at + 4]
    BY <2>1, SMTT(30) DEF Prefix
  <2> QED BY <1>2, <2>2 DEF Holds32
<1> QED BY <1>1, <1>2

\* A field that was just stored stays where it is.
LEMMA Kept ==
  ASSUME NEW s, NEW t, NEW u, NEW v, Prefix(t, u)
  PROVE  /\ Writes16(s, t, v) => Holds16(u, Len(s), v)
         /\ Writes32(s, t, v) => Holds32(u, Len(s), v)
<1> DEFINE l == Len(s)
<1>1. ASSUME s \in Seq(Bytes)
      PROVE  l \in Nat
  BY <1>1
<1>2. /\ Writes16(s, t, v) => s \in Seq(Bytes) /\ Len(t) = l + 2 /\ Holds16(t, l, v)
      /\ Writes32(s, t, v) => s \in Seq(Bytes) /\ Len(t) = l + 4 /\ Holds32(t, l, v)
  BY Zenon DEF Writes16, Writes32, Prefix
<1> HIDE DEF l
<1>3. ASSUME Writes16(s, t, v)
      PROVE  Holds16(u, l, v)
  <2>1. l \in Nat /\ l + 2 <= Len(t) /\ Holds16(t, l, v)
    BY <1>1, <1>2, <1>3
  <2> QED BY <2>1, HoldsKept, Zenon
<1>4. ASSUME Writes32(s, t, v)
      PROVE  Holds32(u, l, v)
  <2>1. l \in Nat /\ l + 4 <= Len(t) /\ Holds32(t, l, v)
    BY <1>1, <1>2, <1>4
  <2> QED BY <2>1, HoldsKept, Zenon
<1> QED BY <1>3, <1>4, Zenon DEF l

\* The fields of an encoded frame, at the offsets that decode_frame reads.
Fields(b, r) ==
  /\ Holds16(b, 0, kFrameMagic) /\ Holds16(b, 2, kSchemaVersion) /\ Holds16(b, 4, r.source_id)
  /\ Holds32(b, 8, r.sequence)
  /\ Holds32(b, 12, HighWord(r.time_ns)) /\ Holds32(b, 16, r.time_ns)
  /\ Holds32(b, 20, r.pos_x) /\ Holds32(b, 24, r.pos_y)
  /\ Holds32(b, 28, r.vel_x) /\ Holds32(b, 32, r.vel_y)

\* The body of a frame, field by field.
LEMMA BodyIs ==
  ASSUME NEW r \in Record
  PROVE  Body(r) \in Seq(Bytes) /\ Len(Body(r)) = 36 /\ Fields(Body(r), r)
<1> DEFINE zero == 0
           high == HighWord(r.time_ns)
           p1 == store_u16(kFrameMagic)
           p2 == p1 \o store_u16(kSchemaVersion)
           p3 == p2 \o store_u16(r.source_id)
           p4 == p3 \o store_u16(zero)
           p5 == p4 \o store_u32(r.sequence)
           p6 == p5 \o store_u32(high)
           p7 == p6 \o store_u32(r.time_ns)
           p8 == p7 \o store_u32(r.pos_x)
           p9 == p8 \o store_u32(r.pos_y)
           p10 == p9 \o store_u32(r.vel_x)
           p11 == p10 \o store_u32(r.vel_y)
<1>1. /\ kFrameMagic \in Int /\ kSchemaVersion \in Int /\ r.source_id \in Int /\ zero \in Int
      /\ r.sequence \in Int /\ r.time_ns \in Int /\ high \in Int
      /\ r.pos_x \in Int /\ r.pos_y \in Int /\ r.vel_x \in Int /\ r.vel_y \in Int
  BY DEF Record, kFrameMagic, kSchemaVersion, HighWord
<1>2. Body(r) = ((((p5 \o store_u64(r.time_ns)) \o store_u32(r.pos_x)) \o store_u32(r.pos_y))
                   \o store_u32(r.vel_x)) \o store_u32(r.vel_y)
  BY Zenon DEF Body
<1> HIDE DEF zero, high
<1>3. p1 \in Seq(Bytes) /\ Len(p1) = 2 /\ Holds16(p1, 0, kFrameMagic)
  BY <1>1, StoredBytes
<1>4. Writes16(p1, p2, kSchemaVersion) /\ p2 \in Seq(Bytes)
  <2> HIDE DEF p1
  <2>1. Writes16(p1, p2, kSchemaVersion)
    BY <1>1, <1>3, Put16, Zenon
  <2> QED BY <2>1, Zenon DEF Writes16, Prefix
<1>5. Writes16(p2, p3, r.source_id) /\ p3 \in Seq(Bytes)
  <2> HIDE DEF p2
  <2>1. Writes16(p2, p3, r.source_id)
    BY <1>1, <1>4, Put16, Zenon
  <2> QED BY <2>1, Zenon DEF Writes16, Prefix
<1>6. Writes16(p3, p4, zero) /\ p4 \in Seq(Bytes)
  <2> HIDE DEF p3
  <2>1. Writes16(p3, p4, zero)
    BY <1>1, <1>5, Put16, Zenon
  <2> QED BY <2>1, Zenon DEF Writes16, Prefix
<1>7. Writes32(p4, p5, r.sequence) /\ p5 \in Seq(Bytes)
  <2> HIDE DEF p4
  <2>1. Writes32(p4, p5, r.sequence)
    BY <1>1, <1>6, Put32, Zenon
  <2> QED BY <2>1, Zenon DEF Writes32, Prefix
<1>8. Writes32(p5, p6, high) /\ p6 \in Seq(Bytes)
  <2> HIDE DEF p5
  <2>1. Writes32(p5, p6, high)
    BY <1>1, <1>7, Put32, Zenon
  <2> QED BY <2>1, Zenon DEF Writes32, Prefix
<1>9. Writes32(p6, p7, r.time_ns) /\ p7 \in Seq(Bytes)
  <2> HIDE DEF p6
  <2>1. Writes32(p6, p7, r.time_ns)
    BY <1>1, <1>8, Put32, Zenon
  <2> QED BY <2>1, Zenon DEF Writes32, Prefix
<1>10. Writes32(p7, p8, r.pos_x) /\ p8 \in Seq(Bytes)
  <2> HIDE DEF p7
  <2>1. Writes32(p7, p8, r.pos_x)
    BY <1>1, <1>9, Put32, Zenon
  <2> QED BY <2>1, Zenon DEF Writes32, Prefix
<1>11. Writes32(p8, p9, r.pos_y) /\ p9 \in Seq(Bytes)
  <2> HIDE DEF p8
  <2>1. Writes32(p8, p9, r.pos_y)
    BY <1>1, <1>10, Put32, ZenonT(30)
  <2> QED BY <2>1, Zenon DEF Writes32, Prefix
<1>12. Writes32(p9, p10, r.vel_x) /\ p10 \in Seq(Bytes)
  <2> HIDE DEF p9
  <2>1. Writes32(p9, p10, r.vel_x)
    BY <1>1, <1>11, Put32, Zenon
  <2> QED BY <2>1 DEF Writes32, Prefix
<1>13. Writes32(p10, p11, r.vel_y) /\ p11 \in Seq(Bytes)
  <2> HIDE DEF p10
  <2>1. Writes32(p10, p11, r.vel_y)
    BY <1>1, <1>12, Put32, Zenon
  <2> QED BY <2>1, Zenon DEF Writes32, Prefix
<1>30. Body(r) = p11
  <2>1. p5 \o store_u64(r.time_ns) = p7
    <3> HIDE DEF p5
    <3> QED BY <1>1, <1>7, Put64, Zenon DEF high
  <2> HIDE DEF p5, p7
  <2> QED BY <1>2, <2>1, Zenon
<1> HIDE DEF p1, p2, p3, p4, p5, p6, p7, p8, p9, p10, p11
<1>14. Len(p1) = 2 /\ Len(p2) = 4 /\ Len(p3) = 6 /\ Len(p4) = 8 /\ Len(p5) = 12 /\ Len(p6) = 16
  BY <1>3, <1>4, <1>5, <1>6, <1>7, <1>8 DEF Writes16, Writes32
<1>15. Len(p7) = 20 /\ Len(p8) = 24 /\ Len(p9) = 28 /\ Len(p10) = 32 /\ Len(p11) = 36
  BY <1>14, <1>9, <1>10, <1>11, <1>12, <1>13 DEF Writes32
<1>16. Prefix(p11, p11) /\ Prefix(p10, p11)
  BY <1>13, <1>15 DEF Writes32, Prefix
<1>17. Prefix(p9, p11)
  BY <1>12, <1>16, PrefixTransitive, Zenon DEF Writes32
<1>18. Prefix(p8, p11)
  BY <1>11, <1>17, PrefixTransitive, Zenon DEF Writes32
<1>19. Prefix(p7, p11)
  BY <1>10, <1>18, PrefixTransitive, Zenon DEF Writes32
<1>20. Prefix(p6, p11)
  BY <1>9, <1>19, PrefixTransitive, Zenon DEF Writes32
<1>21. Prefix(p5, p11)
  BY <1>8, <1>20, PrefixTransitive, Zenon DEF Writes32
<1>22. Prefix(p4, p11)
  BY <1>7, <1>21, PrefixTransitive, Zenon DEF Writes32
<1>23. Prefix(p3, p11)
  BY <1>6, <1>22, PrefixTransitive, Zenon DEF Writes16
<1>24. Prefix(p2, p11)
  BY <1>5, <1>23, PrefixTransitive, Zenon DEF Writes16
<1>25. Prefix(p1, p11)
  BY <1>4, <1>24, PrefixTransitive, ZenonT(30) DEF Writes16
<1>26. Fields(p11, r)
  <2>1. Holds16(p11, 0, kFrameMagic)
    <3>1. 1 \in 1 .. Len(p1) /\ 2 \in 1 .. Len(p1)
      BY <1>14
    <3>2. p11[1] = p1[1] /\ p11[2] = p1[2]
      BY <1>25, <3>1, Zenon DEF Prefix
    <3> QED BY <1>3, <3>2 DEF Holds16
  <2>2. Holds16(p11, 2, kSchemaVersion)
    <3>1. Holds16(p11, Len(p1), kSchemaVersion)
      BY <1>4, <1>24, Kept, Zenon
    <3> QED BY <1>14, <3>1, Zenon
  <2>3. Holds16(p11, 4, r.source_id)
    <3>1. Holds16(p11, Len(p2), r.source_id)
      BY <1>5, <1>23, Kept, Zenon
    <3> QED BY <1>14, <3>1, Zenon
  <2>4. Holds32(p11, 8, r.sequence)
    <3>1. Holds32(p11, Len(p4), r.sequence)
      BY <1>7, <1>21, Kept, Zenon
    <3> QED BY <1>14, <3>1, Zenon
  <2>5. Holds32(p11, 12, high)
    <3>1. Holds32(p11, Len(p5), high)
      BY <1>8, <1>20, Kept, Zenon
    <3> QED BY <1>14, <3>1, Zenon
  <2>6. Holds32(p11, 16, r.time_ns)
    <3>1. Holds32(p11, Len(p6), r.time_ns)
      BY <1>9, <1>19, Kept, Zenon
    <3> QED BY <1>14, <3>1, Zenon
  <2>7. Holds32(p11, 20, r.pos_x)
    <3>1. Holds32(p11, Len(p7), r.pos_x)
      BY <1>10, <1>18, Kept, Zenon
    <3> QED BY <1>15, <3>1, Zenon
  <2>8. Holds32(p11, 24, r.pos_y)
    <3>1. Holds32(p11, Len(p8), r.pos_y)
      BY <1>11, <1>17, Kept, Zenon
    <3> QED BY <1>15, <3>1, Zenon
  <2>9. Holds32(p11, 28, r.vel_x)
    <3>1. Holds32(p11, Len(p9), r.vel_x)
      BY <1>12, <1>16, Kept, Zenon
    <3> QED BY <1>15, <3>1, Zenon
  <2>10. Holds32(p11, 32, r.vel_y)
    <3>1. Holds32(p11, Len(p10), r.vel_y)
      BY <1>13, <1>16, Kept, Zenon
    <3> QED BY <1>15, <3>1, Zenon
  <2> QED BY <2>1, <2>2, <2>3, <2>4, <2>5, <2>6, <2>7, <2>8, <2>9, <2>10, ZenonT(30)
         DEF Fields, high
<1> QED BY <1>30, <1>13, <1>15, <1>26

\* A 16-bit load gives back what fits in 16 bits.
LEMMA Load16 ==
  ASSUME NEW b, NEW at \in Nat, NEW v \in Words, Holds16(b, at, v)
  PROVE  load_u16(b, at) = v
<1>1. v \in Nat /\ v < 65536
  BY DEF Words
<1>2. PICK r \in 0 .. 255 : v = 256 * (v \div 256) + r
  BY <1>1
<1> DEFINE q == v \div 256
<1>3. q \in 0 .. 255
  BY <1>1
<1>4. v % 256 = r
  BY <1>1, <1>2, <1>3
<1>5. q % 256 = q
  <2> HIDE DEF q
  <2> QED BY <1>3
<1>6. b[at + 1] = q /\ b[at + 2] = r
  BY <1>4, <1>5 DEF Holds16
<1>7. v = 256 * q + r
  BY <1>2
<1> HIDE DEF q
<1>8. q * 256 + r = v
  BY <1>2, <1>3, <1>7
<1> QED BY <1>6, <1>8 DEF load_u16

\* Division by 256, with its remainder.
LEMMA Div256 ==
  ASSUME NEW v \in Int
  PROVE  \E r \in Int : v % 256 = r /\ v = (v \div 256) * 256 + r
<1>1. PICK r \in 0 .. 255 : v = 256 * (v \div 256) + r
  OBVIOUS
<1> DEFINE q == v \div 256
<1>2. q \in Int /\ v = 256 * q + r
  BY <1>1
<1>3. v % 256 = r
  BY <1>1
<1>4. v = q * 256 + r
  <2> HIDE DEF q
  <2> QED BY <1>2
<1> HIDE DEF q
<1>5. r \in Int /\ v % 256 = r /\ v = q * 256 + r
  BY <1>3, <1>4
<1> QED BY <1>5 DEF q

\* Four bytes of v under what is above them are v.
LEMMA JoinIs ==
  ASSUME NEW b, NEW at \in Nat, NEW v \in Int, Holds32(b, at, v)
  PROVE  Join((v \div 16777216) \div 256, b, at) = v
<1> DEFINE q1 == v \div 256
           q2 == v \div 65536
           q3 == v \div 16777216
           q4 == q3 \div 256
<1>1. q2 = q1 \div 256 /\ q3 = q2 \div 256
  OBVIOUS
<1>2. q1 \in Int /\ q2 \in Int /\ q3 \in Int
  OBVIOUS
<1>3. /\ b[at + 4] = v % 256 /\ b[at + 3] = q1 % 256
      /\ b[at + 2] = q2 % 256 /\ b[at + 1] = q3 % 256
  BY DEF Holds32
<1>4. PICK r0 \in Int : v % 256 = r0 /\ v = q1 * 256 + r0
  BY Div256
<1> HIDE DEF q1, q2, q3
<1>5. PICK r1 \in Int : q1 % 256 = r1 /\ q1 = q2 * 256 + r1
  BY <1>1, <1>2, Div256
<1>6. PICK r2 \in Int : q2 % 256 = r2 /\ q2 = q3 * 256 + r2
  BY <1>1, <1>2, Div256
<1>7. PICK r3 \in Int : q3 % 256 = r3 /\ q3 = q4 * 256 + r3
  BY <1>2, Div256
<1> HIDE DEF q4
<1>8. (((q4 * 256 + r3) * 256 + r2) * 256 + r1) * 256 + r0 = v
  BY <1>4, <1>5, <1>6, <1>7
<1>10. b[at + 1] = r3 /\ b[at + 2] = r2 /\ b[at + 3] = r1 /\ b[at + 4] = r0
  BY <1>3, <1>4, <1>5, <1>6, <1>7
<1>9. Join(q4, b, at) = v
  BY <1>8, <1>10 DEF Join
<1> QED BY <1>9 DEF q3, q4

\* A 32-bit load gives back what fits in uint32_t.
LEMMA Load32 ==
  ASSUME NEW b, NEW at \in Nat, NEW v \in Int, Holds32(b, at, v), FitsUint32(v)
  PROVE  load_u32(b, at) = v
<1>1. (v \div 16777216) \div 256 = 0
  BY DEF FitsUint32
<1> QED BY <1>1, JoinIs DEF load_u32

\* The cast to int32_t gives back what fits in it.
LEMMA LoadInt32 ==
  ASSUME NEW b, NEW at \in Nat, NEW v \in Int, Holds32(b, at, v), FitsInt32(v)
  PROVE  AsInt32(b, at) = v
<1> DEFINE q == v \div 16777216
           top == IF b[at + 1] >= 128 THEN -1 ELSE 0
<1>1. q \in Int /\ -128 <= q /\ q <= 127
  BY DEF FitsInt32
<1>2. b[at + 1] = q % 256
  BY DEF Holds32
<1> HIDE DEF q
<1>3. top = q \div 256
  <2>1. CASE q >= 0
    <3>1. q % 256 = q /\ q \div 256 = 0
      BY <1>1, <2>1
    <3> QED BY <1>1, <1>2, <2>1, <3>1
  <2>2. CASE q < 0
    <3>1. q % 256 = q + 256 /\ q \div 256 = -1
      BY <1>1, <2>2
    <3> QED BY <1>1, <1>2, <2>2, <3>1
  <2> QED BY <1>1, <2>1, <2>2
<1>4. Join(q \div 256, b, at) = v
  BY JoinIs DEF q
<1> QED BY <1>3, <1>4 DEF AsInt32

\* The cast to int64_t gives back what fits in it.
LEMMA LoadInt64 ==
  ASSUME NEW b, NEW at \in Nat, NEW v \in Int,
         Holds32(b, at, HighWord(v)), Holds32(b, at + 4, v), FitsInt64(v)
  PROVE  AsInt64(b, at) = v
<1> DEFINE h == HighWord(v)
<1>1. h \in Int /\ FitsInt32(h) /\ at + 4 \in Nat
  BY DEF HighWord, FitsInt64
<1>2. h = (v \div 16777216) \div 256
  BY DEF HighWord
<1> HIDE DEF h
<1>3. AsInt32(b, at) = h
  BY <1>1, LoadInt32 DEF h
<1>4. Join((v \div 16777216) \div 256, b, at + 4) = v
  BY <1>1, JoinIs, SMTT(30)
<1> QED BY <1>2, <1>3, <1>4 DEF AsInt64

\* The fields stay where they are when the checksum is stored behind them.
LEMMA FieldsKept ==
  ASSUME NEW s, NEW b, NEW r, Prefix(s, b), Len(s) = 36, Fields(s, r)
  PROVE  Fields(b, r)
<1>1. ASSUME NEW at \in 0 .. 32, NEW v
      PROVE  /\ Holds16(s, at, v) => Holds16(b, at, v)
             /\ Holds32(s, at, v) => Holds32(b, at, v)
  <2>1. at \in Nat /\ at + 2 <= Len(s) /\ at + 4 <= Len(s)
    BY SMTT(30)
  <2> QED BY <2>1, HoldsKept, Zenon
<1>2. /\ 0 \in 0 .. 32 /\ 2 \in 0 .. 32 /\ 4 \in 0 .. 32 /\ 8 \in 0 .. 32 /\ 12 \in 0 .. 32
      /\ 16 \in 0 .. 32 /\ 20 \in 0 .. 32 /\ 24 \in 0 .. 32 /\ 28 \in 0 .. 32 /\ 32 \in 0 .. 32
  OBVIOUS
<1> QED BY <1>1, <1>2, ZenonT(30) DEF Fields

\* encode_frame writes 38 bytes, the fields and a checksum that is right.
LEMMA EncodeIs ==
  ASSUME NEW r \in Record
  PROVE  LET b == encode_frame(r)
         IN  b \in Seq(Bytes) /\ Len(b) = 38 /\ Fields(b, r) /\ Checked(b)
<1> DEFINE s == Body(r)
           crc == frame_crc(s, 36)
           b == s \o store_u16(crc)
<1>1. s \in Seq(Bytes) /\ Len(s) = 36 /\ Fields(s, r)
  BY BodyIs, Zenon
<1> HIDE DEF s
<1>2. \A n \in 1 .. 36 : s[n] \in Bytes
  <2>1. s \in Seq(Bytes) /\ Len(s) = 36
    BY <1>1, Zenon
  <2>2. ASSUME NEW n \in 1 .. Len(s)
        PROVE  s[n] \in Bytes
    BY <2>1, Elements, Zenon
  <2> QED BY <2>1, <2>2, Zenon
<1>3. crc \in Words
  <2> DEFINE L == 36
  <2>1. L \in Nat /\ \A n \in 1 .. L : s[n] \in Bytes /\ s[n] = s[n]
    BY <1>2, Zenon
  <2>2. crc = frame_crc(s, L)
    BY Zenon
  <2> HIDE DEF L, crc
  <2> QED BY <2>1, <2>2, FrameCrcIs, Zenon
<1> HIDE DEF crc
<1>4. Writes16(s, b, crc)
  <2>1. crc \in Int
    BY <1>3 DEF Words
  <2> QED BY <1>1, <2>1, Put16, Zenon
<1> HIDE DEF b
<1>5. b \in Seq(Bytes) /\ Len(b) = 38 /\ Holds16(b, 36, crc) /\ \A n \in 1 .. 36 : b[n] = s[n]
  <2>1. Prefix(s, b) /\ Len(b) = Len(s) + 2 /\ Holds16(b, Len(s), crc)
    BY <1>4, Zenon DEF Writes16
  <2>2. b \in Seq(Bytes) /\ \A n \in 1 .. Len(s) : b[n] = s[n]
    BY <2>1, Zenon DEF Prefix
  <2>3. Len(b) = 38
    <3>1. Len(b) = 36 + 2
      BY <1>1, <2>1, ZenonT(30)
    <3> QED BY <3>1
  <2> QED BY <1>1, <2>1, <2>2, <2>3, Zenon
<1>6. Fields(b, r)
  <2>1. Prefix(s, b)
    BY <1>4 DEF Writes16
  <2> QED BY <1>1, <2>1, FieldsKept, Zenon
<1>7. Checked(b)
  <2> DEFINE L == 36
  <2>1. L \in Nat /\ \A n \in 1 .. L : s[n] \in Bytes /\ s[n] = b[n]
    BY <1>2, <1>5, Zenon
  <2>2. crc = frame_crc(s, L)
    BY DEF crc
  <2>3. load_u16(b, L) = crc
    <3>1. Holds16(b, L, crc)
      BY <1>5
    <3> HIDE DEF L
    <3> QED BY <1>3, <2>1, <3>1, Load16
  <2>4. frame_crc(s, L) = frame_crc(b, L)
    <3> HIDE DEF L
    <3> QED BY <2>1, FrameCrcIs
  <2> QED BY <2>2, <2>3, <2>4 DEF Checked
<1>8. encode_frame(r) = b
  BY DEF encode_frame, b, crc, s
<1> QED BY <1>5, <1>6, <1>7, <1>8, ZenonT(30)

\* decode_frame accepts every frame that encode_frame writes, and gives back
\* the record that went in: for every value of every field.
THEOREM RoundTrip ==
  ASSUME NEW r \in Record, Fits(r), r.source_id < kMaxSources
  PROVE  Parse(encode_frame(r)) = "Ok" /\ Decoded(encode_frame(r)) = r
<1> DEFINE b == encode_frame(r)
<1>1. b \in Seq(Bytes) /\ Len(b) = 38 /\ Fields(b, r) /\ Checked(b)
  BY EncodeIs
<1> HIDE DEF b
<1>2. kFrameMagic \in Words /\ kSchemaVersion \in Words /\ r.source_id \in Words
  <2>1. r.source_id \in Nat /\ kMaxSources \in Nat /\ kMaxSources <= 65536
    BY TypesAssumption, FrameAssumption DEF Record
  <2>2. r.source_id < 65536
    BY <2>1
  <2> QED BY <2>1, <2>2 DEF Words, kFrameMagic, kSchemaVersion
<1>3. load_u16(b, 0) = kFrameMagic /\ load_u16(b, 2) = kSchemaVersion /\ load_u16(b, 4) = r.source_id
  <2>1. Holds16(b, 0, kFrameMagic) /\ Holds16(b, 2, kSchemaVersion) /\ Holds16(b, 4, r.source_id)
    BY <1>1, ZenonT(30) DEF Fields
  <2> QED BY <1>2, <2>1, Load16, SMTT(30)
<1>4. Parse(b) = "Ok"
  <2>1. ~ (Len(b) < kFrameBytes)
    BY <1>1 DEF kFrameBytes
  <2>2. ~ (load_u16(b, 4) >= kMaxSources)
    BY <1>3, TypesAssumption DEF Record
  <2>3. load_u16(b, 36) = frame_crc(b, 36)
    BY <1>1 DEF Checked
  <2> QED BY <1>3, <2>1, <2>2, <2>3 DEF Parse
<1>5. load_u32(b, 8) = r.sequence
  BY <1>1, Load32, SMTT(30) DEF Fields, Fits, Record
<1>6. AsInt64(b, 12) = r.time_ns
  <2>1. Holds32(b, 12, HighWord(r.time_ns)) /\ Holds32(b, 12 + 4, r.time_ns)
    <3>1. Holds32(b, 12, HighWord(r.time_ns)) /\ Holds32(b, 16, r.time_ns)
      BY <1>1, Zenon DEF Fields
    <3>2. 12 + 4 = 16
      OBVIOUS
    <3> QED BY <3>1, <3>2, Zenon
  <2>2. r.time_ns \in Int /\ FitsInt64(r.time_ns) /\ 12 \in Nat
    BY DEF Fits, Record
  <2> QED BY <2>1, <2>2, LoadInt64
<1>7. /\ AsInt32(b, 20) = r.pos_x /\ AsInt32(b, 24) = r.pos_y
      /\ AsInt32(b, 28) = r.vel_x /\ AsInt32(b, 32) = r.vel_y
  BY <1>1, LoadInt32, SMTT(30) DEF Fields, Fits, Record
<1>8. Decoded(b) = r
  BY <1>3, <1>5, <1>6, <1>7 DEF Decoded, Record
<1> QED BY <1>4, <1>8, Zenon DEF b

------------------------------------------------------------------------------
(* The frame on the wire *)

\* Exclusive or of two bytes.
LEMMA XorByte ==
  ASSUME NEW x \in Bytes, NEW y \in Bytes
  PROVE  Xor(x, y) \in Bytes
<1>1. x \in Nat /\ y \in Nat
  BY DEF Bytes
<1>2. Xor(x, y) \in Words /\ \A n \in 1 .. 16 : Bit(Xor(x, y), n) = (Bit(x, n) + Bit(y, n)) % 2
  BY <1>1, XorBits, Zenon
<1>3. \A n \in 9 .. 16 : Bit(x, n) = 0 /\ Bit(y, n) = 0
  BY ByteBits, Zenon
<1>4. ASSUME NEW n \in 9 .. 16
      PROVE  Bit(Xor(x, y), n) = 0
  <2>1. Bit(Xor(x, y), n) = (Bit(x, n) + Bit(y, n)) % 2
    BY <1>2
  <2>2. Bit(x, n) = 0 /\ Bit(y, n) = 0
    BY <1>3, Zenon
  <2> QED BY <2>1, <2>2
<1> QED BY <1>2, <1>4, ByteBits

\* Exclusive or with a mask changes the bits of the mask and no others.
LEMMA XorMask ==
  ASSUME NEW x \in Bytes, NEW y \in Bytes
  PROVE  /\ \A n \in 1 .. 8 : Bit(y, n) = 0 => Bit(Xor(x, y), n) = Bit(x, n)
         /\ Xor(x, y) = x => y = 0
<1>1. x \in Nat /\ y \in Nat
  BY DEF Bytes
<1>2. /\ \A n \in 1 .. 16 : Bit(x, n) \in 0 .. 1 /\ Bit(y, n) \in 0 .. 1
      /\ \A n \in 1 .. 16 : Bit(Xor(x, y), n) = (Bit(x, n) + Bit(y, n)) % 2
  BY <1>1, BitType, XorBits, Zenon
<1>3. ASSUME NEW n \in 1 .. 8, Bit(y, n) = 0
      PROVE  Bit(Xor(x, y), n) = Bit(x, n)
  <2>1. Bit(x, n) \in 0 .. 1 /\ Bit(Xor(x, y), n) = (Bit(x, n) + Bit(y, n)) % 2
    BY <1>2
  <2> QED BY <1>3, <2>1
<1>4. ASSUME Xor(x, y) = x
      PROVE  y = 0
  <2> DEFINE z == 0
  <2>1. z \in Words /\ y \in Words
    BY <1>1, ByteBits DEF Words
  <2>2. ASSUME NEW n \in 1 .. 16
        PROVE  Bit(y, n) = Bit(z, n)
    <3>1. /\ Bit(x, n) \in 0 .. 1 /\ Bit(y, n) \in 0 .. 1
          /\ Bit(x, n) = (Bit(x, n) + Bit(y, n)) % 2
      BY <1>2, <1>4, Zenon
    <3>2. Bit(y, n) = 0
      BY <3>1
    <3>3. z \in Nat /\ z < Weight[n]
      BY Weights
    <3>4. Bit(z, n) = 0
      <4> HIDE DEF z
      <4> QED BY <3>3, BitsAbove
    <3> QED BY <3>2, <3>4, Zenon
  <2> HIDE DEF z
  <2>3. y = z
    BY <2>1, <2>2, SameBits
  <2> QED BY <2>3 DEF z
<1> QED BY <1>3, <1>4

\* Damage within 16 consecutive bits of the frame: the i lowest bits of byte n,
\* byte n + 1 and the 8 - i highest bits of byte n + 2.
Burst(masks) ==
  /\ \E n \in 1 .. 36, i \in 0 .. 8 :
       /\ DOMAIN masks \subseteq n .. n + 2
       /\ n \in DOMAIN masks => \A k \in i + 1 .. 8 : Bit(masks[n], k) = 0
       /\ n + 2 \in DOMAIN masks => \A k \in 1 .. i : Bit(masks[n + 2], k) = 0
  /\ \E n \in DOMAIN masks : masks[n] # 0

\* The frame that the medium makes of one.
Damaged(b, masks) ==
  [n \in 1 .. Len(b) |-> IF n \in DOMAIN masks THEN Xor(b[n], masks[n]) ELSE b[n]]

\* Damage keeps the length and leaves bytes.
LEMMA DamagedType ==
  ASSUME NEW b \in Seq(Bytes), NEW masks \in Damages
  PROVE  Damaged(b, masks) \in Seq(Bytes) /\ Len(Damaged(b, masks)) = Len(b)
<1> DEFINE d(n) == IF n \in DOMAIN masks THEN Xor(b[n], masks[n]) ELSE b[n]
<1>1. ASSUME NEW n \in 1 .. Len(b)
      PROVE  d(n) \in Bytes
  <2>1. b[n] \in Bytes
    BY Elements
  <2>2. n \in DOMAIN masks => masks[n] \in Bytes
    BY FrameAssumption
  <2> QED BY <2>1, <2>2, XorByte, ZenonT(30)
<1>2. Len(b) \in Nat
  OBVIOUS
<1>3. Damaged(b, masks) = [n \in 1 .. Len(b) |-> d(n)]
  BY Zenon DEF Damaged
<1> HIDE DEF d
<1>4. [n \in 1 .. Len(b) |-> d(n)] \in Seq(Bytes) /\ Len([n \in 1 .. Len(b) |-> d(n)]) = Len(b)
  BY <1>1, <1>2
<1> QED BY <1>3, <1>4

\* A burst never leaves a frame with a right checksum.
LEMMA BurstCaught ==
  ASSUME NEW b \in Seq(Bytes), Len(b) = 38, Checked(b), NEW masks \in Damages, Burst(masks)
  PROVE  ~ Checked(Damaged(b, masks))
<1> DEFINE c == Damaged(b, masks)
<1> SUFFICES ASSUME Checked(c)
             PROVE  FALSE
  BY Zenon
<1>1. c \in Seq(Bytes) /\ Len(c) = 38
  BY DamagedType, Zenon
<1>2. /\ \A n \in 1 .. 38 : b[n] \in Bytes
      /\ \A n \in 1 .. 38 : c[n] = IF n \in DOMAIN masks THEN Xor(b[n], masks[n]) ELSE b[n]
  <2>1. ASSUME NEW n \in 1 .. Len(b)
        PROVE  b[n] \in Bytes /\ c[n] = IF n \in DOMAIN masks THEN Xor(b[n], masks[n]) ELSE b[n]
    BY Elements, Zenon DEF Damaged
  <2> QED BY <2>1, Zenon
<1>3. \A n \in DOMAIN masks : masks[n] \in Bytes
  BY FrameAssumption
<1>4. \A n \in 1 .. 38 : b[n] \in Bytes /\ c[n] \in Bytes
  <2>1. ASSUME NEW n \in 1 .. 38
        PROVE  c[n] \in Bytes
    <3>1. n \in 1 .. Len(c)
      BY <1>1, Zenon
    <3> HIDE DEF c
    <3> QED BY <1>1, <3>1, Elements, Zenon
  <2> QED BY <1>2, <2>1, Zenon
<1> HIDE DEF c
<1>5. PICK n \in 1 .. 36, i \in 0 .. 8 :
             /\ DOMAIN masks \subseteq n .. n + 2
             /\ n \in DOMAIN masks => \A k \in i + 1 .. 8 : Bit(masks[n], k) = 0
             /\ n + 2 \in DOMAIN masks => \A k \in 1 .. i : Bit(masks[n + 2], k) = 0
  BY Zenon DEF Burst
<1>6. Close(b, c, n, i)
  <2>1. \A m \in 1 .. 38 : m \in n .. n + 2 \/ b[m] = c[m]
    BY <1>2, <1>5, Zenon
  <2>2. ASSUME NEW k \in i + 1 .. 8
        PROVE  Bit(b[n], k) = Bit(c[n], k)
    <3>0. k \in 1 .. 8 /\ n \in 1 .. 38
      BY <1>5
    <3>1. k \in 1 .. 8 /\ n \in 1 .. 38 /\ b[n] \in Bytes
      BY <1>2, <3>0, ZenonT(30)
    <3>2. CASE n \in DOMAIN masks
      <4>1. c[n] = Xor(b[n], masks[n]) /\ masks[n] \in Bytes /\ Bit(masks[n], k) = 0
        BY <1>2, <1>3, <1>5, <3>1, <3>2, Zenon
      <4> QED BY <3>1, <4>1, XorMask
    <3>3. CASE n \notin DOMAIN masks
      BY <1>2, <3>1, <3>3, ZenonT(30)
    <3> QED BY <3>2, <3>3
  <2>3. ASSUME NEW k \in 1 .. i
        PROVE  Bit(b[n + 2], k) = Bit(c[n + 2], k)
    <3>0. k \in 1 .. 8 /\ n + 2 \in 1 .. 38
      BY <1>5
    <3>1. k \in 1 .. 8 /\ n + 2 \in 1 .. 38 /\ b[n + 2] \in Bytes
      BY <1>2, <3>0, ZenonT(30)
    <3>2. CASE n + 2 \in DOMAIN masks
      <4>1. c[n + 2] = Xor(b[n + 2], masks[n + 2]) /\ masks[n + 2] \in Bytes /\ Bit(masks[n + 2], k) = 0
        BY <1>2, <1>3, <1>5, <3>1, <3>2, Zenon
      <4> QED BY <3>1, <4>1, XorMask
    <3>3. CASE n + 2 \notin DOMAIN masks
      BY <1>2, <3>1, <3>3, Zenon
    <3> QED BY <3>2, <3>3
  <2> QED BY <2>1, <2>2, <2>3, Zenon DEF Close
<1>7. \A m \in 1 .. 38 : b[m] = c[m]
  <2>1. Octets(b) /\ Octets(c)
    BY <1>4 DEF Octets
  <2>2. OneBurst(b, c)
    BY <1>6, Zenon DEF OneBurst
  <2>3. SameBytes(b, c)
    BY <2>1, <2>2, BurstDistance, ZenonT(30)
  <2> QED BY <2>3, Zenon DEF SameBytes
<1>8. PICK m \in DOMAIN masks : masks[m] # 0
  BY DEF Burst
<1>9. m \in 1 .. 38
  <2>1. \A k \in n .. n + 2 : k \in 1 .. 38
    OBVIOUS
  <2>2. m \in n .. n + 2
    BY <1>5, <1>8
  <2> QED BY <2>1, <2>2, Zenon
<1>10. Xor(b[m], masks[m]) = b[m]
  BY <1>2, <1>7, <1>9, Zenon
<1> QED BY <1>2, <1>3, <1>8, <1>9, <1>10, XorMask, ZenonT(30)

\* What a frame on the wire is until something happens to it.
WireInv ==
  /\ sent \in Record /\ out \in Record /\ accepted \in Record
  /\ wire \in Seq(Bytes)
  /\ damaged \in BOOLEAN
  /\ parse \in ParseStatus \cup {"none"}
  /\ wire = <<>> => ~ damaged /\ parse = "none"
  /\ wire # <<>> /\ ~ damaged => /\ sent \in Senders /\ sent.source_id < kMaxSources
                                /\ wire = encode_frame(sent)

\* What a damaged frame is, and what decode_frame leaves in the caller's record.
WholeInv ==
  /\ damaged => Len(wire) < 38 \/ (Len(wire) = 38 /\ ~ Checked(wire))
  /\ parse # "none" => (parse = "Ok") = ~ damaged
  /\ out = accepted

\* What four bytes join to.
LEMMA JoinType ==
  ASSUME NEW top \in Int, NEW b, NEW at \in Nat,
         \A n \in at + 1 .. at + 4 : b[n] \in Nat
  PROVE  Join(top, b, at) \in Int /\ (top = 0 => Join(top, b, at) \in Nat)
<1>1. at + 1 \in at + 1 .. at + 4 /\ at + 2 \in at + 1 .. at + 4
      /\ at + 3 \in at + 1 .. at + 4 /\ at + 4 \in at + 1 .. at + 4
  OBVIOUS
<1>2. PICK w \in Nat, x \in Nat, y \in Nat, z \in Nat :
             w = b[at + 1] /\ x = b[at + 2] /\ y = b[at + 3] /\ z = b[at + 4]
  BY <1>1, Zenon
<1>3. Join(top, b, at) = (((top * 256 + w) * 256 + x) * 256 + y) * 256 + z
  BY <1>2 DEF Join
<1> QED BY <1>3

\* What decode_frame reads from 38 bytes is a record.
LEMMA DecodedType ==
  ASSUME NEW b \in Seq(Bytes), Len(b) >= 38
  PROVE  Decoded(b) \in Record
<1>1. \A n \in 1 .. 38 : b[n] \in Nat
  <2>1. \A x \in Bytes : x \in Nat
    BY DEF Bytes
  <2>2. ASSUME NEW n \in 1 .. 38
        PROVE  b[n] \in Bytes
    <3>1. n \in 1 .. Len(b)
      OBVIOUS
    <3> QED BY <3>1, Elements, Zenon
  <2> QED BY <2>1, <2>2, Zenon
<1>2. ASSUME NEW at \in 0 .. 34, NEW top \in Int
      PROVE  Join(top, b, at) \in Int /\ (top = 0 => Join(top, b, at) \in Nat)
  <2>1. at \in Nat /\ \A n \in at + 1 .. at + 4 : n \in 1 .. 38
    OBVIOUS
  <2>2. \A n \in at + 1 .. at + 4 : b[n] \in Nat
    BY <1>1, <2>1, Zenon
  <2> QED BY <2>1, <2>2, JoinType, Zenon
<1>3. ASSUME NEW at \in 0 .. 34
      PROVE  load_u32(b, at) \in Nat /\ AsInt32(b, at) \in Int
  <2> DEFINE top == IF b[at + 1] >= 128 THEN -1 ELSE 0
  <2>1. top \in Int /\ 0 \in Int
    OBVIOUS
  <2>2. AsInt32(b, at) = Join(top, b, at)
    BY Zenon DEF AsInt32
  <2> HIDE DEF top
  <2> QED BY <1>2, <2>1, <2>2, Zenon DEF load_u32
<1>4. AsInt64(b, 12) \in Int
  <2>1. AsInt32(b, 12) \in Int
    BY <1>3
  <2>2. AsInt64(b, 12) = Join(AsInt32(b, 12), b, 16)
    BY DEF AsInt64
  <2> QED BY <1>2, <2>1, <2>2
<1>5. load_u16(b, 4) \in Nat
  <2>1. b[5] \in Nat /\ b[6] \in Nat
    BY <1>1
  <2>2. PICK x \in Nat, y \in Nat : x = b[5] /\ y = b[6]
    BY <2>1, Zenon
  <2>3. load_u16(b, 4) = x * 256 + y
    BY <2>2 DEF load_u16
  <2> QED BY <2>3
<1>6. /\ load_u32(b, 8) \in Nat /\ AsInt32(b, 20) \in Int
      /\ AsInt32(b, 24) \in Int /\ AsInt32(b, 28) \in Int /\ AsInt32(b, 32) \in Int
  BY <1>3
<1> QED BY <1>4, <1>5, <1>6 DEF Decoded, Record

\* The first frame has not been written yet.
LEMMA WireInit ==
  FrameInit => WireInv /\ WholeInv
<1> SUFFICES ASSUME FrameInit
             PROVE  WireInv /\ WholeInv
  BY Zenon
<1>1. NoRecord \in Record
  BY DEF NoRecord, Record
<1>2. <<>> \in Seq(Bytes)
  OBVIOUS
<1>3. WireInv
  BY <1>1, <1>2, Zenon DEF FrameInit, WireInv
<1> QED BY <1>3, Zenon DEF FrameInit, WholeInv

\* What is left of a frame that loses its tail.
LEMMA TailLost ==
  ASSUME NEW S, NEW b \in Seq(S), NEW length \in 1 .. Len(b)
  PROVE  SubSeq(b, 1, length) \in Seq(S) /\ Len(SubSeq(b, 1, length)) = length
<1>1. SubSeq(b, 1, length) \in Seq(S)
  OBVIOUS
<1>2. Len(SubSeq(b, 1, length)) = length
  OBVIOUS
<1> QED BY <1>1, <1>2, Zenon

\* A frame with bytes in it is not the empty one.
LEMMA NotEmpty ==
  ASSUME NEW s, Len(s) # 0
  PROVE  s # <<>>
<1>1. Len(<<>>) = 0
  BY Zenon
<1> QED BY <1>1, Zenon

\* Encoding, damage, loss of the tail and decoding keep the types, and leave an
\* undamaged frame what encode_frame wrote.
LEMMA WireStep ==
  WireInv /\ [FrameNext]_frameVars => WireInv'
<1> SUFFICES ASSUME WireInv, [FrameNext]_frameVars
             PROVE  WireInv'
  BY Zenon
<1>1. ASSUME NEW r \in Senders, Encode(r)
      PROVE  WireInv'
  <2>1. r \in Record
    BY FrameAssumption
  <2>2. encode_frame(r) \in Seq(Bytes) /\ Len(encode_frame(r)) = 38
    BY <2>1, EncodeIs, Zenon
  <2>3. encode_frame(r) # <<>>
    <3>1. Len(encode_frame(r)) # 0
      BY <2>2
    <3> QED BY <3>1, NotEmpty, Zenon
  <2> QED BY <1>1, <2>1, <2>2, <2>3, Zenon DEF Encode, WireInv
<1>2. ASSUME NEW masks \in Damages, Damage(masks)
      PROVE  WireInv'
  <2>1. wire' = Damaged(wire, masks) /\ wire \in Seq(Bytes) /\ wire # <<>>
    BY <1>2, Zenon DEF Damage, Damaged, WireInv
  <2>2. wire' \in Seq(Bytes) /\ Len(wire') = Len(wire)
    BY <2>1, DamagedType, Zenon
  <2>3. wire' # <<>>
    BY <2>1, <2>2
  <2> QED BY <1>2, <2>2, <2>3, Zenon DEF Damage, WireInv
<1>3. ASSUME NEW length \in {1, kFrameBytes - 1}, Cut(length)
      PROVE  WireInv'
  <2>1. wire' = SubSeq(wire, 1, length) /\ wire \in Seq(Bytes) /\ Len(wire) = 38
    BY <1>3, FrameAssumption, EncodeIs DEF Cut, WireInv
  <2>2. length \in 1 .. 37 /\ length \in 1 .. Len(wire)
    BY <2>1 DEF kFrameBytes
  <2>3. SubSeq(wire, 1, length) \in Seq(Bytes) /\ Len(SubSeq(wire, 1, length)) = length
    BY <2>1, <2>2, TailLost, Zenon
  <2>4. wire' # <<>>
    <3>1. Len(wire') # 0
      BY <2>1, <2>2, <2>3
    <3> QED BY <3>1, NotEmpty, Zenon
  <2> QED BY <1>3, <2>1, <2>3, <2>4 DEF Cut, WireInv
<1>4. ASSUME Decode
      PROVE  WireInv'
  <2>1. Parse(wire) \in ParseStatus
    BY DEF Parse, ParseStatus
  <2>2. ASSUME Parse(wire) = "Ok"
        PROVE  Decoded(wire) \in Record
    <3>1. wire \in Seq(Bytes) /\ Len(wire) >= 38
      BY <2>2 DEF Parse, kFrameBytes, WireInv
    <3> QED BY <3>1, DecodedType
  <2> QED BY <1>4, <2>1, <2>2 DEF Decode, WireInv
<1>5. ASSUME UNCHANGED frameVars
      PROVE  WireInv'
  BY <1>5 DEF frameVars, WireInv
<1> QED BY <1>1, <1>2, <1>3, <1>4, <1>5 DEF FrameNext

\* With bursts for damage, no step lets a damaged frame pass.
LEMMA WholeStep ==
  ASSUME \A masks \in Damages : Burst(masks)
  PROVE  WireInv /\ WholeInv /\ [FrameNext]_frameVars => WholeInv'
<1> SUFFICES ASSUME WireInv, WholeInv, [FrameNext]_frameVars
             PROVE  WholeInv'
  BY Zenon
<1>1. ASSUME NEW r \in Senders, Encode(r)
      PROVE  WholeInv'
  BY <1>1, Zenon DEF Encode, WholeInv
<1>2. ASSUME NEW masks \in Damages, Damage(masks)
      PROVE  WholeInv'
  <2>1. /\ wire' = Damaged(wire, masks)
        /\ sent \in Senders /\ wire = encode_frame(sent)
    BY <1>2 DEF Damage, Damaged, WireInv
  <2>2. wire \in Seq(Bytes) /\ Len(wire) = 38 /\ Checked(wire)
    BY <2>1, FrameAssumption, EncodeIs
  <2>3. Len(wire') = 38 /\ ~ Checked(wire')
    BY <2>1, <2>2, DamagedType, BurstCaught
  <2> QED BY <1>2, <2>3, Zenon DEF Damage, WholeInv
<1>3. ASSUME NEW length \in {1, kFrameBytes - 1}, Cut(length)
      PROVE  WholeInv'
  <2>1. wire' = SubSeq(wire, 1, length) /\ wire \in Seq(Bytes) /\ Len(wire) = 38
    BY <1>3, FrameAssumption, EncodeIs DEF Cut, WireInv
  <2>2. length \in 1 .. 37 /\ length \in 1 .. Len(wire)
    BY <2>1 DEF kFrameBytes
  <2>3. Len(wire') < 38
    BY <2>1, <2>2, TailLost
  <2> QED BY <1>3, <2>3 DEF Cut, WholeInv
<1>4. ASSUME Decode
      PROVE  WholeInv'
  <2>1. CASE damaged
    <3>1. Parse(wire) # "Ok"
      BY <2>1 DEF WholeInv, Parse, Checked, kFrameBytes
    <3>2. (damaged => Len(wire) < 38 \/ (Len(wire) = 38 /\ ~ Checked(wire)))'
      BY <1>4 DEF Decode, WholeInv
    <3> QED BY <1>4, <2>1, <3>1, <3>2 DEF Decode, WholeInv
  <2>2. CASE ~ damaged
    <3>1. sent \in Senders /\ sent.source_id < kMaxSources /\ wire = encode_frame(sent)
      BY <1>4, <2>2 DEF Decode, WireInv
    <3>2. Parse(wire) = "Ok" /\ Decoded(wire) = sent
      BY <3>1, FrameAssumption, RoundTrip
    <3> QED BY <1>4, <2>2, <3>2 DEF Decode, WholeInv
  <2> QED BY <2>1, <2>2
<1>5. ASSUME UNCHANGED frameVars
      PROVE  WholeInv'
  BY <1>5 DEF frameVars, WholeInv
<1> QED BY <1>1, <1>2, <1>3, <1>4, <1>5 DEF FrameNext

\* A frame that the medium damages within 16 consecutive bits, or shortens, is
\* never accepted and never leaves a trace in the caller's record, and a frame
\* that arrives whole is accepted as the record that was sent.
THEOREM WholeFramesOnly ==
  ASSUME \A masks \in Damages : Burst(masks)
  PROVE  FrameSpec => []OnlyWholeFrames
<1>1. WireInv /\ WholeInv /\ [FrameNext]_frameVars => (WireInv /\ WholeInv)'
  BY WireStep, WholeStep, Zenon
<1>2. WireInv /\ WholeInv => OnlyWholeFrames
  BY ZenonT(30) DEF WholeInv, OnlyWholeFrames
<1> QED BY <1>1, <1>2, WireInit, PTL DEF FrameSpec

------------------------------------------------------------------------------
(* The kernels side by side *)

\* integrate stores a position only after step() has found it in int32_t.
LEMMA FleetTypesStep ==
  FleetTypeOK /\ DOMAIN fleet = Ids /\ [FleetNext]_fleetVars => (FleetTypeOK /\ DOMAIN fleet = Ids)'
<1> SUFFICES ASSUME FleetTypeOK, DOMAIN fleet = Ids, [FleetNext]_fleetVars
             PROVE  FleetTypeOK' /\ DOMAIN fleet' = Ids
  BY Zenon
<1>1. ASSUME NEW sample \in Samples, NEW dt \in Steps, Refuse(sample, dt)
      PROVE  FleetTypeOK' /\ DOMAIN fleet' = Ids
  BY <1>1, ZenonT(30) DEF Refuse, FleetTypeOK, IntegrateStatus
<1>2. ASSUME NEW sample \in Samples, NEW dt \in Steps, Move(sample, dt)
      PROVE  FleetTypeOK' /\ DOMAIN fleet' = Ids
  <2>1. result' \in IntegrateStatus
    BY <1>2, ZenonT(30) DEF Move, IntegrateStatus
  <2> DEFINE id == sample.source_id
             base_x == Base(id, fleet[id].pos_x, sample.pos_x)
             base_y == Base(id, fleet[id].pos_y, sample.pos_y)
             x == StepTo(base_x, sample.vel_x, dt)
             y == StepTo(base_y, sample.vel_y, dt)
             row == [valid |-> TRUE, pos_x |-> x, pos_y |-> y,
                     vel_x |-> sample.vel_x, vel_y |-> sample.vel_y,
                     sequence |-> sample.sequence, time_ns |-> sample.time_ns]
  <2>2. \/ fleet' = fleet
        \/ fleet' = [fleet EXCEPT ![id] = row] /\ x \in Int32 /\ y \in Int32
    BY <1>2, ZenonT(30) DEF Move, step
  <2>3. row.pos_x = x /\ row.pos_y = y
    BY ZenonT(30)
  <2> HIDE DEF id, x, y, row
  <2> QED BY <2>1, <2>2, <2>3, SMTT(30) DEF FleetTypeOK
<1>3. CASE UNCHANGED fleetVars
  BY <1>3, Zenon DEF fleetVars, FleetTypeOK
<1> QED BY <1>1, <1>2, <1>3 DEF FleetNext

\* The records, the bytes on the wire and the fleet keep their types, whatever
\* the damage.
THEOREM KernelsTypes == KernelsSpec => []KernelsTypeOK
<1>1. KernelsInit => FleetInit /\ FrameInit
  BY Zenon DEF KernelsInit
<1>2. [KernelsNext]_kernelVars => [FleetNext]_fleetVars /\ [FrameNext]_frameVars
  BY Zenon DEF KernelsNext, kernelVars, OnlyPace, fleetVars, frameVars
<1>3. FleetTypeOK /\ WireInv => KernelsTypeOK
  BY DEF WireInv, FrameTypeOK, KernelsTypeOK
<1>4. FleetInit => FleetTypeOK /\ DOMAIN fleet = Ids
  <2>1. 0 \in Int32
    BY FleetAssumption DEF Int32, INT32_MIN
  <2> QED BY <2>1 DEF FleetInit, FleetTypeOK, EmptyFleetRow, IntegrateStatus
<1> QED BY <1>1, <1>2, <1>3, <1>4, FleetTypesStep, WireInit, WireStep, PTL DEF KernelsSpec

\* OnlyWholeFrames where the kernels are checked together, for every set of
\* records and every set of bursts.
THEOREM KernelsFrames ==
  ASSUME \A masks \in Damages : Burst(masks)
  PROVE  KernelsSpec => []OnlyWholeFrames
<1>1. KernelsInit => FrameInit
  BY Zenon DEF KernelsInit
<1>2. [KernelsNext]_kernelVars => [FrameNext]_frameVars
  BY Zenon DEF KernelsNext, kernelVars, OnlyPace, frameVars
<1>3. WireInv /\ WholeInv /\ [FrameNext]_frameVars => (WireInv /\ WholeInv)'
  BY WireStep, WholeStep, Zenon
<1>4. WireInv /\ WholeInv => OnlyWholeFrames
  BY Zenon DEF WholeInv, OnlyWholeFrames
<1> QED BY <1>1, <1>2, <1>3, <1>4, WireInit, PTL DEF KernelsSpec
==============================================================================
