----------------------------- MODULE BootProofs -----------------------------
(***************************************************************************)
(* Proofs about Boot, Ramdisk and Descriptors.                             *)
(***************************************************************************)
EXTENDS Boot, FiniteSetTheorems, SequenceTheorems, WellFoundedInduction, TLAPS

-----------------------------------------------------------------------------
(* Induction, with a set in place of a predicate.                          *)

LEMMA Below == IsWellFoundedOn({p \in Nat \X Nat : p[1] < p[2]}, Nat)
  BY NatLessThanWellFounded DEF OpToRel

LEMMA Least ==
  ASSUME NEW S, S \subseteq Nat, S # {}
  PROVE  \E l \in S : \A m \in S : l <= m
  <1>1. PICK R : R = {p \in Nat \X Nat : p[1] < p[2]}
    OBVIOUS
  <1>2. IsWellFoundedOn(R, Nat)
    BY <1>1, Below
  <1>3. PICK m \in S : \A k \in S : ~ (<<k, m>> \in R)
    BY <1>2, WFMin
  <1>4. \A k \in S : ~ (k < m)
    BY <1>1, <1>3
  <1> QED BY <1>4

LEMMA Induction ==
  ASSUME NEW m \in Nat, NEW S, 0 \in S, \A j \in 0..(m - 1) : j \in S => j + 1 \in S
  PROVE  \A j \in 0..m : j \in S
  <1> DEFINE T == {j \in 0..m : j \notin S}
  <1>1. SUFFICES ASSUME T # {} PROVE FALSE
    OBVIOUS
  <1>2. PICK l \in T : \A k \in T : l <= k
    <2>1. T \subseteq Nat
      OBVIOUS
    <2> HIDE DEF T
    <2> QED BY <1>1, <2>1, Least
  <1>3. l - 1 \in 0..(m - 1) /\ l - 1 \notin T
    BY <1>2
  <1> QED BY <1>2, <1>3

\* A function on 0..k with a value more.
LEMMA OneMore ==
  ASSUME NEW k \in Nat, NEW f, NEW e, NEW g,
         g = [j \in 0..(k + 1) |-> IF j = k + 1 THEN e ELSE f[j]]
  PROVE  g[k + 1] = e /\ \A j \in 0..k : g[j] = f[j]
  <1>1. k + 1 \in 0..(k + 1) /\ \A j \in 0..k : j \in 0..(k + 1) /\ j # k + 1
    OBVIOUS
  <1> QED BY <1>1

\* A function is defined by its first value and a step.
Stays(F, m, V) == \A j \in 1..m, u \in V : F[j][u] \in V
Follows(f, F, m) == \A j \in 1..m : f[j] = F[j][f[j - 1]]

LEMMA Recursion ==
  ASSUME NEW m \in Nat, NEW V, NEW v \in V, NEW F, Stays(F, m, V)
  PROVE  \E f \in [0..m -> V] : f[0] = v /\ Follows(f, F, m)
  <1> USE DEF Stays, Follows
  <1> DEFINE Upto(k, f) == f[0] = v /\ \A j \in 1..k : f[j] = F[j][f[j - 1]]
             S == {k \in 0..m : \E f \in [0..k -> V] : Upto(k, f)}
  <1>1. 0 \in S
    <2>1. PICK f : f = [j \in 0..0 |-> v]
      OBVIOUS
    <2>2. f \in [0..0 -> V] /\ f[0] = v /\ 1..0 = {}
      BY <2>1
    <2> QED BY <2>2
  <1>2. ASSUME NEW k \in 0..(m - 1), k \in S
        PROVE  k + 1 \in S
    <2>1. PICK f \in [0..k -> V] : Upto(k, f)
      BY <1>2
    <2>2. PICK e \in V : e = F[k + 1][f[k]]
      <3>1. f[k] \in V /\ k + 1 \in 1..m
        BY <2>1
      <3> QED BY <3>1
    <2>3. PICK g : g = [j \in 0..(k + 1) |-> IF j = k + 1 THEN e ELSE f[j]]
      OBVIOUS
    <2>4. g[k + 1] = e /\ \A j \in 0..k : g[j] = f[j]
      BY <2>3, OneMore
    <2>5. g \in [0..(k + 1) -> V]
      BY <2>3
    <2>6. ASSUME NEW j \in 1..(k + 1)
          PROVE  g[j] = F[j][g[j - 1]]
      <3>1. CASE j = k + 1
        <4>1. j - 1 = k /\ k \in 0..k
          BY <3>1
        <4> QED BY <2>2, <2>4, <3>1, <4>1
      <3>2. CASE j # k + 1
        <4>1. j \in 1..k /\ j \in 0..k /\ j - 1 \in 0..k
          BY <3>2
        <4>2. f[j] = F[j][f[j - 1]]
          BY <2>1, <4>1
        <4>3. g[j] = f[j] /\ g[j - 1] = f[j - 1]
          BY <2>4, <4>1
        <4> QED BY <4>2, <4>3
      <3> QED BY <3>1, <3>2
    <2>7. g[0] = v
      BY <2>1, <2>4
    <2> QED BY <2>5, <2>6, <2>7
  <1>3. m \in S
    <2> HIDE DEF S
    <2> QED BY <1>1, <1>2, Induction
  <1> QED BY <1>3

-----------------------------------------------------------------------------
(* The archive: where its files lie, and what their sizes are read as.      *)

LEMMA Quotients ==
  ASSUME NEW m \in Nat \ {0}, NEW q \in Int, NEW r \in 0..(m - 1)
  PROVE  (q * m + r) % m = r /\ (q * m + r) \div m = q
  <1> DEFINE z == q * m + r
             e == z \div m
             s == z % m
  <1>1. q * m \in Int /\ z \in Int
    OBVIOUS
  <1>2. e \in Int /\ s \in 0..(m - 1) /\ z = m * e + s
    BY <1>1
  <1>3. m * e \in Int /\ m * (q - e) = q * m - m * e
    BY <1>2
  <1>4. m * (q - e) = s - r
    BY <1>1, <1>2, <1>3
  <1>5. ASSUME q - e >= 1 PROVE FALSE
    <2>1. m * (q - e) >= m
      BY <1>2, <1>5
    <2> QED BY <1>2, <1>4, <2>1
  <1>6. ASSUME q - e <= -1 PROVE FALSE
    <2>1. m * (q - e) <= -m
      BY <1>2, <1>6
    <2> QED BY <1>2, <1>4, <2>1
  <1>7. q = e /\ s = r
    BY <1>2, <1>4, <1>5, <1>6
  <1> QED BY <1>7

LEMMA Remainders ==
  ASSUME NEW m \in Nat \ {0}, NEW a \in Nat
  PROVE  \E q \in Nat, r \in 0..(m - 1) : q = a \div m /\ r = a % m /\ a = q * m + r
  <1>0. PICK q, r : q = a \div m /\ r = a % m
    OBVIOUS
  <1>1. a \in Int /\ m \in Int /\ m > 0
    OBVIOUS
  <1>2. q \in Int /\ r \in 0..(m - 1)
    BY <1>0
  <1>3. r = a - m * q
    BY <1>0, <1>1
  <1>4. q * m = m * q /\ q * m \in Int
    BY <1>1, <1>2
  <1>5. ASSUME q < 0 PROVE FALSE
    <2>1. m * q <= -m
      BY <1>1, <1>2, <1>5
    <2> QED BY <1>1, <1>2, <1>3, <2>1
  <1>6. q \in Nat /\ a = q * m + r
    BY <1>1, <1>2, <1>3, <1>4, <1>5
  <1> QED BY <1>0, <1>2, <1>6, Zenon

LEMMA Divided ==
  ASSUME NEW x \in Nat, NEW y \in Nat \ {0}
  PROVE  /\ x \div y \in Nat /\ x % y \in 0..(y - 1)
         /\ x = y * (x \div y) + (x % y)
  <1>1. PICK q \in Nat, r \in 0..(y - 1) : q = x \div y /\ r = x % y /\ x = q * y + r
    BY Remainders
  <1>2. x = y * q + r
    BY <1>1
  <1>3. x = y * (x \div y) + (x % y)
    BY <1>1, <1>2
  <1>4. x \div y \in Nat /\ x % y \in 0..(y - 1)
    BY <1>1
  <1> QED BY <1>3, <1>4

LEMMA FileOf ==
  ASSUME NEW a \in Archives, NEW k \in 1..Len(a)
  PROVE  /\ a[k].name \in Names /\ a[k].size \in Nat /\ a[k].kex \in BOOLEAN
         /\ a[k].bad \in Int /\ a[k].bad < a[k].size
         /\ Leading(a[k].size)[Digits] = 0 /\ a[k].size + Block <= Word
  <1>1. a \in Seq(Files)
    BY RamdiskAssumption
  <1>2. a[k] \in Files
    BY <1>1, ElementOfSeq
  <1> QED BY <1>2, RamdiskAssumption DEF Files

LEMMA LengthOf ==
  ASSUME NEW a \in Archives
  PROVE  Len(a) \in Nat
  <1>1. a \in Seq(Files)
    BY RamdiskAssumption
  <1> QED BY <1>1, LenProperties

LEMMA PaddedNat ==
  ASSUME NEW x \in Nat
  PROVE  Padded(x) \in Nat
  <1>1. x + Block - 1 \in Nat /\ Block \in Nat \ {0}
    BY RamdiskAssumption
  <1>2. (x + Block - 1) \div Block \in Nat
    BY <1>1, Divided
  <1> QED BY <1>1, <1>2 DEF Padded

\* The headers, one after the other.
LEMMA Placing ==
  ASSUME NEW a \in Archives
  PROVE  /\ \A k \in 1..(Len(a) + 1) : Positions(a)[k] \in Nat
         /\ Positions(a)[1] = 0
         /\ \A k \in 1..Len(a) :
              Positions(a)[k + 1] = Positions(a)[k] + Block + Padded(a[k].size)
  <1>1. PICK m \in Nat : m = Len(a)
    BY LengthOf
  <1>2. PICK p : p = [k \in 1..m |-> Block + Padded(a[k].size)]
    OBVIOUS
  <1>3. \A k \in 1..m : p[k] \in Nat /\ p[k] = Block + Padded(a[k].size)
    <2> TAKE k \in 1..m
    <2>1. a[k].size \in Nat /\ Block \in Nat
      BY <1>1, FileOf, RamdiskAssumption
    <2>2. Padded(a[k].size) \in Nat
      BY <2>1, PaddedNat
    <2> QED BY <1>2, <2>1, <2>2
  <1>4. PICK F : F = [k \in 1..m |-> [u \in Nat |-> u + p[k]]]
    OBVIOUS
  <1>5. \A k \in 1..m, u \in Nat : F[k][u] = u + p[k] /\ F[k][u] \in Nat
    <2> TAKE k \in 1..m, u \in Nat
    <2>1. F[k] = [w \in Nat |-> w + p[k]]
      BY <1>4
    <2> QED BY <1>3, <2>1
  <1>6. PICK f \in [0..m -> Nat] : f[0] = 0 /\ \A k \in 1..m : f[k] = F[k][f[k - 1]]
    <2>1. Stays(F, m, Nat)
      BY <1>5 DEF Stays
    <2>2. \E f \in [0..m -> Nat] : f[0] = 0 /\ Follows(f, F, m)
      BY <2>1, Recursion
    <2> QED BY <2>2 DEF Follows
  <1>7. \A k \in 1..m : f[k - 1] \in Nat /\ f[k] = f[k - 1] + p[k]
    <2> TAKE k \in 1..m
    <2>1. f[k - 1] \in Nat
      BY <1>6
    <2> QED BY <1>5, <1>6, <2>1
  <1> DEFINE IsPlacing(g) ==
               g = [k \in 1..(Len(a) + 1) |->
                      IF k = 1 THEN 0 ELSE g[k - 1] + Block + Padded(a[k - 1].size)]
             h == [k \in 1..(m + 1) |-> f[k - 1]]
  <1>8. IsPlacing(h)
    <2>1. ASSUME NEW k \in 1..(m + 1)
          PROVE  h[k] = IF k = 1 THEN 0 ELSE h[k - 1] + Block + Padded(a[k - 1].size)
      <3>1. CASE k = 1
        BY <1>6, <3>1
      <3>2. CASE k # 1
        <4>1. k - 1 \in 1..m /\ k \in 1..(m + 1) /\ k - 1 \in 1..(m + 1)
          BY <3>2
        <4>2. h[k] = f[k - 1] /\ h[k - 1] = f[k - 1 - 1]
          BY <4>1
        <4>3. f[k - 1] = f[k - 1 - 1] + p[k - 1] /\ f[k - 1 - 1] \in Nat
          BY <1>7, <4>1
        <4>4. p[k - 1] = Block + Padded(a[k - 1].size) /\ p[k - 1] \in Nat
          BY <1>3, <4>1
        <4>5. Padded(a[k - 1].size) \in Nat /\ Block \in Nat
          BY <1>1, <4>1, FileOf, PaddedNat, RamdiskAssumption
        <4> HIDE DEF h
        <4>6. PICK z \in Nat : z = Padded(a[k - 1].size)
          BY <4>5
        <4>7. PICK x \in Nat : x = h[k - 1]
          BY <4>2, <4>3
        <4>8. h[k] = x + (Block + z) /\ x + (Block + z) = x + Block + z
          BY <4>2, <4>3, <4>4, <4>5, <4>6, <4>7
        <4>9. h[k] = h[k - 1] + Block + Padded(a[k - 1].size)
          BY <4>6, <4>7, <4>8
        <4> QED BY <3>2, <4>9
      <3> QED BY <3>1, <3>2
    <2>2. h = [k \in 1..(m + 1) |-> h[k]]
      OBVIOUS
    <2> HIDE DEF h
    <2> QED BY <1>1, <2>1, <2>2
  <1>9. Positions(a) = CHOOSE g : IsPlacing(g)
    BY DEF Positions
  <1>10. IsPlacing(Positions(a))
    <2> HIDE DEF IsPlacing, h
    <2> QED BY <1>8, <1>9
  <1>11. PICK g : g = Positions(a)
    OBVIOUS
  <1>12. g = [k \in 1..(m + 1) |->
                IF k = 1 THEN 0 ELSE g[k - 1] + Block + Padded(a[k - 1].size)]
    BY <1>1, <1>10, <1>11
  <1>13. g[1] = 0
    BY <1>12
  <1>14. \A k \in 1..m : g[k + 1] = g[k] + Block + Padded(a[k].size)
    <2> TAKE k \in 1..m
    <2>1. k + 1 \in 1..(m + 1) /\ k + 1 # 1 /\ k + 1 - 1 = k
      OBVIOUS
    <2> QED BY <1>12, <2>1
  <1>15. \A k \in 1..(m + 1) : g[k] \in Nat
    <2> DEFINE S == {j \in 0..m : g[j + 1] \in Nat}
    <2>1. 0 \in S
      BY <1>13
    <2>2. ASSUME NEW j \in 0..(m - 1), j \in S PROVE j + 1 \in S
      <3>1. j + 1 \in 1..m /\ g[j + 1] \in Nat
        BY <2>2
      <3>2. g[j + 1 + 1] = g[j + 1] + Block + Padded(a[j + 1].size)
        BY <1>14, <3>1
      <3>3. Padded(a[j + 1].size) \in Nat /\ Block \in Nat
        BY <1>1, <3>1, FileOf, PaddedNat, RamdiskAssumption
      <3> QED BY <3>1, <3>2, <3>3
    <2>3. \A j \in 0..m : j \in S
      <3> HIDE DEF S
      <3> QED BY <2>1, <2>2, Induction
    <2> TAKE k \in 1..(m + 1)
    <2>4. k - 1 \in 0..m /\ k - 1 + 1 = k
      OBVIOUS
    <2> QED BY <2>3, <2>4
  <1> QED BY <1>1, <1>11, <1>13, <1>14, <1>15

\* The headers are at different places, in the order of the files.
LEMMA InOrder ==
  ASSUME NEW a \in Archives, NEW j \in 1..(Len(a) + 1), NEW k \in 1..(Len(a) + 1), j < k
  PROVE  Positions(a)[j] + Block + Padded(a[j].size) <= Positions(a)[k]
  <1>0. PICK p : p = Positions(a)
    OBVIOUS
  <1>1. PICK m \in Nat : m = Len(a) /\ p = Positions(a)
    BY <1>0, LengthOf
  <1>2. PICK w : w = [i \in 1..m |-> Block + Padded(a[i].size)]
    OBVIOUS
  <1>3. \A i \in 1..m : w[i] \in Nat /\ w[i] = Block + Padded(a[i].size)
    <2> TAKE i \in 1..m
    <2>1. a[i].size \in Nat /\ Block \in Nat
      BY <1>1, FileOf, RamdiskAssumption
    <2>2. Padded(a[i].size) \in Nat
      BY <2>1, PaddedNat
    <2> QED BY <1>2, <2>1, <2>2
  <1>4. \A i \in 1..(m + 1) : p[i] \in Nat
    BY <1>1, Placing
  <1>5. \A i \in 1..m : p[i + 1] = p[i] + w[i]
    <2> TAKE i \in 1..m
    <2>1. p[i + 1] = p[i] + Block + Padded(a[i].size)
      BY <1>1, Placing
    <2>2. p[i] \in Nat /\ Block \in Nat /\ a[i].size \in Nat
      BY <1>1, <1>4, FileOf, RamdiskAssumption
    <2>3. Padded(a[i].size) \in Nat
      BY <2>2, PaddedNat
    <2>4. PICK z \in Nat : z = Padded(a[i].size)
      BY <2>3
    <2>5. w[i] = Block + z
      BY <1>3, <2>4
    <2>6. PICK x \in Nat : x = p[i]
      BY <2>2
    <2>7. p[i + 1] = x + Block + z
      BY <2>1, <2>4, <2>6
    <2>8. x + Block + z = x + (Block + z)
      BY <2>2
    <2> QED BY <2>5, <2>6, <2>7, <2>8
  <1>6. j \in 1..m /\ k - j - 1 \in 0..(m - j)
    BY <1>1
  <1> DEFINE S == {d \in 0..(m - j) : p[j] + w[j] <= p[j + 1 + d]}
  <1>7. 0 \in S
    <2>1. p[j + 1] = p[j] + w[j] /\ p[j] \in Nat /\ w[j] \in Nat
      BY <1>1, <1>3, <1>4, <1>5, <1>6
    <2>2. j + 1 + 0 = j + 1 /\ 0 \in 0..(m - j)
      BY <1>6
    <2> QED BY <2>1, <2>2
  <1>8. ASSUME NEW d \in 0..(m - j - 1), d \in S
        PROVE  d + 1 \in S
    <2>1. /\ j + 1 + d \in 1..m /\ j + 1 + (d + 1) = (j + 1 + d) + 1 /\ d + 1 \in 0..(m - j)
          /\ j + 1 + d \in 1..(m + 1)
      BY <1>6
    <2>2. PICK i : i = j + 1 + d
      OBVIOUS
    <2>3. p[i + 1] = p[i] + w[i] /\ w[i] \in Nat /\ p[i] \in Nat
      BY <1>3, <1>4, <1>5, <2>1, <2>2
    <2>4. p[j] \in Nat /\ w[j] \in Nat /\ p[j] + w[j] <= p[i]
      BY <1>1, <1>3, <1>4, <1>6, <1>8, <2>2
    <2>5. p[j] + w[j] <= p[i + 1]
      BY <2>3, <2>4
    <2> QED BY <2>1, <2>2, <2>5
  <1>9. \A d \in 0..(m - j) : d \in S
    <2>1. m - j \in Nat /\ m - j - 1 = (m - j) - 1
      BY <1>1, <1>6
    <2> HIDE DEF S
    <2> QED BY <1>7, <1>8, <2>1, Induction
  <1>10. p[j] + w[j] <= p[k]
    <2>1. j + 1 + (k - j - 1) = k
      BY <1>6
    <2> QED BY <1>6, <1>9, <2>1
  <1>11. Block \in Nat /\ Padded(a[j].size) \in Nat /\ p[j] \in Nat /\ w[j] = Block + Padded(a[j].size)
    <2>1. a[j].size \in Nat
      BY <1>1, <1>6, FileOf
    <2> QED BY <1>1, <1>3, <1>4, <1>6, <2>1, PaddedNat, RamdiskAssumption
  <1> QED BY <1>1, <1>10, <1>11

LEMMA Ordered ==
  ASSUME NEW a \in Archives, NEW j \in 1..(Len(a) + 1), NEW k \in 1..(Len(a) + 1), j < k
  PROVE  Positions(a)[j] + Block + a[j].size <= Positions(a)[k]
  <1>1. Positions(a)[j] + Block + Padded(a[j].size) <= Positions(a)[k]
    BY InOrder
  <1>2. j \in 1..Len(a)
    BY LengthOf
  <1>3. PICK z \in Nat : z = a[j].size
    BY <1>2, FileOf
  <1>4. Positions(a)[j] \in Nat /\ Positions(a)[k] \in Nat /\ Block \in Nat \ {0}
    BY Placing, RamdiskAssumption
  <1>5. Padded(z) >= z /\ Padded(z) \in Nat
    <2>1. PICK q \in Nat, r \in 0..(Block - 1) :
            q = (z + Block - 1) \div Block /\ z + Block - 1 = q * Block + r
      <3>1. z + Block - 1 \in Nat
        BY <1>4
      <3> QED BY <1>4, <3>1, Remainders
    <2>2. Padded(z) = Block * q
      BY <2>1 DEF Padded
    <2>3. Block * q = q * Block /\ q * Block \in Nat
      BY <1>4
    <2>4. z <= q * Block
      BY <1>4, <2>1, <2>3
    <2> QED BY <2>2, <2>3, <2>4
  <1>6. PICK g \in Nat, h \in Nat : g = Positions(a)[j] /\ h = Positions(a)[k]
    BY <1>4
  <1>7. g + Block + Padded(z) <= h
    BY <1>1, <1>3, <1>6
  <1>8. g + Block + z <= h
    BY <1>4, <1>5, <1>7
  <1> QED BY <1>3, <1>6, <1>8

LEMMA Distinct ==
  ASSUME NEW a \in Archives, NEW j \in 1..(Len(a) + 1), NEW k \in 1..(Len(a) + 1),
         Positions(a)[j] = Positions(a)[k]
  PROVE  j = k
  <1>1. ASSUME NEW i \in 1..(Len(a) + 1), NEW l \in 1..(Len(a) + 1), i < l
        PROVE  Positions(a)[i] # Positions(a)[l]
    <2>1. Positions(a)[i] + Block + a[i].size <= Positions(a)[l]
      BY <1>1, Ordered
    <2>2. i \in 1..Len(a)
      BY <1>1, LengthOf
    <2>3. a[i].size \in Nat /\ Block \in Nat \ {0}
      BY <2>2, FileOf, RamdiskAssumption
    <2>4. Positions(a)[i] \in Nat /\ Positions(a)[l] \in Nat
      BY Placing
    <2> QED BY <2>1, <2>3, <2>4
  <1>2. Len(a) \in Nat
    BY LengthOf
  <1>3. ~ (j < k) /\ ~ (k < j)
    BY <1>1
  <1> QED BY <1>2, <1>3

\* The end of a file's data, rounded up, is the next header.
LEMMA NextHeader ==
  ASSUME NEW a \in Archives, NEW k \in 1..Len(a)
  PROVE  Positions(a)[k] + NextOffset(a[k].size) = Positions(a)[k + 1]
  <1>1. PICK z \in Nat : z = a[k].size
    BY FileOf
  <1>2. z + Block <= Word /\ Block \in Nat \ {0} /\ Word \in Nat
    BY <1>1, FileOf, RamdiskAssumption
  <1>3. PICK y \in Nat : y = z + Block - 1
    BY <1>2
  <1>4. y \in 0..(Word - 1) /\ Word \in Nat \ {0}
    BY <1>2, <1>3
  <1>5. y % Word = y
    <2>1. 0 \in Int /\ 0 * Word + y = y
      BY <1>4
    <2> QED BY <1>4, <2>1, Quotients
  <1>6. PICK q \in Nat : q = y \div Block
    BY <1>2, Divided
  <1>7. NextOffset(z) = Block + q * Block
    BY <1>3, <1>5, <1>6 DEF NextOffset
  <1>8. Padded(z) = Block * q
    BY <1>3, <1>6 DEF Padded
  <1>9. Block * q = q * Block /\ q * Block \in Nat
    BY <1>2
  <1>10. PICK p \in Nat : p = Positions(a)[k]
    <2>1. k \in 1..(Len(a) + 1)
      BY LengthOf
    <2> QED BY <2>1, Placing
  <1>11. Positions(a)[k + 1] = p + Block + Padded(z)
    BY <1>1, <1>10, Placing
  <1> QED BY <1>1, <1>2, <1>7, <1>8, <1>9, <1>10, <1>11

\* The digits that are left of a number.
LEMMA LeadingOf ==
  ASSUME NEW x \in Nat
  PROVE  /\ Leading(x)[0] = x
         /\ \A j \in 0..Digits : Leading(x)[j] \in Nat
         /\ \A j \in 1..Digits : Leading(x)[j] = Leading(x)[j - 1] \div Base
  <1>1. Digits \in Nat /\ Base \in Nat \ {0}
    BY RamdiskAssumption
  <1>2. PICK F : F = [j \in 1..Digits |-> [u \in Nat |-> u \div Base]]
    OBVIOUS
  <1>3. \A j \in 1..Digits, u \in Nat : F[j][u] = u \div Base /\ F[j][u] \in Nat
    <2> TAKE j \in 1..Digits, u \in Nat
    <2>1. F[j][u] = u \div Base
      BY <1>2
    <2> QED BY <1>1, <2>1, Divided
  <1>4. PICK f \in [0..Digits -> Nat] : f[0] = x /\ Follows(f, F, Digits)
    <2>1. Stays(F, Digits, Nat)
      BY <1>3 DEF Stays
    <2> QED BY <1>1, <2>1, Recursion
  <1>5. \A j \in 1..Digits : f[j] = f[j - 1] \div Base
    <2> TAKE j \in 1..Digits
    <2>1. f[j] = F[j][f[j - 1]]
      BY <1>4 DEF Follows
    <2>2. f[j - 1] \in Nat
      BY <1>1, <1>4
    <2> QED BY <1>3, <2>1, <2>2
  <1> DEFINE IsLeading(g) ==
               g = [j \in 0..Digits |-> IF j = 0 THEN x ELSE g[j - 1] \div Base]
  <1>6. IsLeading(f)
    BY <1>1, <1>4, <1>5
  <1>7. Leading(x) = CHOOSE g : IsLeading(g)
    BY DEF Leading
  <1>8. IsLeading(Leading(x))
    <2> HIDE DEF IsLeading
    <2> QED BY <1>6, <1>7
  <1>9. PICK g : g = Leading(x)
    OBVIOUS
  <1>10. g = [j \in 0..Digits |-> IF j = 0 THEN x ELSE g[j - 1] \div Base]
    BY <1>8, <1>9
  <1>11. g[0] = x /\ \A j \in 1..Digits : g[j] = g[j - 1] \div Base
    BY <1>1, <1>10
  <1>12. \A j \in 0..Digits : g[j] \in Nat
    <2> DEFINE S == {j \in 0..Digits : g[j] \in Nat}
    <2>1. 0 \in S
      BY <1>1, <1>11
    <2>2. ASSUME NEW j \in 0..(Digits - 1), j \in S PROVE j + 1 \in S
      <3>1. j + 1 \in 1..Digits /\ g[j] \in Nat /\ j + 1 - 1 = j
        BY <1>1, <2>2
      <3>2. PICK z \in Nat : z = g[j]
        BY <3>1
      <3>3. g[j + 1] = z \div Base
        BY <1>11, <3>1, <3>2
      <3>4. z \div Base \in Nat
        BY <1>1, Divided
      <3> QED BY <1>1, <3>1, <3>3, <3>4
    <2>3. \A j \in 0..Digits : j \in S
      <3> HIDE DEF S
      <3> QED BY <1>1, <2>1, <2>2, Induction
    <2> QED BY <2>3
  <1> QED BY <1>9, <1>11, <1>12

LEMMA Small ==
  ASSUME NEW y \in Nat, NEW w \in Nat, y < w
  PROVE  y % w = y
  <1>1. w \in Nat \ {0} /\ y \in 0..(w - 1) /\ 0 \in Int /\ 0 * w + y = y
    OBVIOUS
  <1> QED BY <1>1, Quotients

\* count and size of get_size, turn by turn.
LEMMA Turns ==
  ASSUME Word # 0, NEW in, \A j \in 1..Digits : in[j] \in Nat
  PROVE  \E c, s :
           /\ c[0] = 1 /\ s[0] = 0 /\ get_size(in) = s[Digits]
           /\ \A j \in 1..Digits :
                /\ c[j] = (c[j - 1] * Base) % Word
                /\ s[j] = (s[j - 1] + in[Digits + 1 - j] * c[j - 1]) % Word
  <1>1. Digits \in Nat /\ Base \in Nat \ {0} /\ Word \in Nat \ {0}
    BY RamdiskAssumption
  <1> DEFINE IsCount(g) ==
               g = [j \in 0..Digits |-> IF j = 0 THEN 1 ELSE (g[j - 1] * Base) % Word]
             IsSize(h, g) ==
               h = [j \in 0..Digits |->
                      IF j = 0 THEN 0
                      ELSE (h[j - 1] + in[Digits + 1 - j] * g[j - 1]) % Word]
  <1>2. \E g \in [0..Digits -> Nat] : IsCount(g)
    <2>1. PICK F : F = [j \in 1..Digits |-> [u \in Nat |-> (u * Base) % Word]]
      OBVIOUS
    <2>2. \A j \in 1..Digits, u \in Nat : F[j][u] = (u * Base) % Word /\ F[j][u] \in Nat
      <3> TAKE j \in 1..Digits, u \in Nat
      <3>1. F[j][u] = (u * Base) % Word
        BY <2>1
      <3>2. u * Base \in Nat
        BY <1>1
      <3>3. (u * Base) % Word \in 0..(Word - 1)
        BY <1>1, <3>2, Divided
      <3> QED BY <1>1, <3>1, <3>3
    <2>3. PICK f \in [0..Digits -> Nat] : f[0] = 1 /\ Follows(f, F, Digits)
      <3>1. Stays(F, Digits, Nat) /\ 1 \in Nat
        BY <2>2 DEF Stays
      <3> QED BY <1>1, <3>1, Recursion
    <2>4. \A j \in 1..Digits : f[j] = (f[j - 1] * Base) % Word
      <3> TAKE j \in 1..Digits
      <3>1. f[j] = F[j][f[j - 1]]
        BY <2>3 DEF Follows
      <3>2. f[j - 1] \in Nat
        BY <1>1, <2>3
      <3> QED BY <2>2, <3>1, <3>2
    <2>5. IsCount(f)
      BY <1>1, <2>3, <2>4
    <2> QED BY <2>5
  <1>3. Count = CHOOSE g : IsCount(g)
    BY DEF Count
  <1>4. IsCount(Count)
    <2> HIDE DEF IsCount
    <2> QED BY <1>2, <1>3
  <1>12. PICK c : c = Count
    OBVIOUS
  <1>5. c[0] = 1 /\ \A j \in 1..Digits : c[j] = (c[j - 1] * Base) % Word
    <2>1. IsCount(c)
      BY <1>4, <1>12
    <2> QED BY <1>1, <2>1
  <1>6. \A j \in 0..Digits : c[j] \in Nat
    <2> DEFINE S == {j \in 0..Digits : c[j] \in Nat}
    <2>1. 0 \in S
      BY <1>1, <1>5
    <2>2. ASSUME NEW j \in 0..(Digits - 1), j \in S PROVE j + 1 \in S
      <3>1. j + 1 \in 1..Digits /\ c[j] \in Nat /\ j + 1 - 1 = j
        BY <1>1, <2>2
      <3>2. c[j + 1] = (c[j] * Base) % Word /\ c[j] * Base \in Nat
        BY <1>1, <1>5, <3>1
      <3>3. c[j + 1] \in 0..(Word - 1)
        BY <1>1, <3>2, Divided
      <3> QED BY <1>1, <3>1, <3>3
    <2>3. \A j \in 0..Digits : j \in S
      <3> HIDE DEF S
      <3> QED BY <1>1, <2>1, <2>2, Induction
    <2> QED BY <2>3
  <1>7. \E h : IsSize(h, c)
    <2>1. PICK F : F = [j \in 1..Digits |->
                          [u \in Nat |-> (u + in[Digits + 1 - j] * c[j - 1]) % Word]]
      OBVIOUS
    <2>2. \A j \in 1..Digits, u \in Nat :
            /\ F[j][u] = (u + in[Digits + 1 - j] * c[j - 1]) % Word
            /\ F[j][u] \in Nat
      <3> TAKE j \in 1..Digits, u \in Nat
      <3>1. F[j][u] = (u + in[Digits + 1 - j] * c[j - 1]) % Word
        BY <2>1
      <3>2. Digits + 1 - j \in 1..Digits /\ j - 1 \in 0..Digits
        BY <1>1
      <3>3. PICK d \in Nat, e \in Nat : d = in[Digits + 1 - j] /\ e = c[j - 1]
        BY <1>6, <3>2
      <3>4. u + d * e \in Nat
        OBVIOUS
      <3>5. (u + d * e) % Word \in 0..(Word - 1)
        BY <1>1, <3>4, Divided
      <3> QED BY <1>1, <3>1, <3>3, <3>5
    <2>3. PICK f \in [0..Digits -> Nat] : f[0] = 0 /\ Follows(f, F, Digits)
      <3>1. Stays(F, Digits, Nat) /\ 0 \in Nat
        BY <2>2 DEF Stays
      <3> QED BY <1>1, <3>1, Recursion
    <2>4. \A j \in 1..Digits : f[j] = (f[j - 1] + in[Digits + 1 - j] * c[j - 1]) % Word
      <3> TAKE j \in 1..Digits
      <3>1. f[j] = F[j][f[j - 1]]
        BY <2>3 DEF Follows
      <3>2. f[j - 1] \in Nat
        BY <1>1, <2>3
      <3> QED BY <2>2, <3>1, <3>2
    <2>5. IsSize(f, c)
      BY <1>1, <2>3, <2>4
    <2> QED BY <2>5
  <1>8. PICK s : s = CHOOSE h : IsSize(h, Count)
    OBVIOUS
  <1>9. IsSize(s, c)
    <2> HIDE DEF IsSize
    <2> QED BY <1>7, <1>8, <1>12
  <1>10. get_size(in) = s[Digits]
    BY <1>8 DEF get_size
  <1>11. s[0] = 0 /\ \A j \in 1..Digits :
                       s[j] = (s[j - 1] + in[Digits + 1 - j] * c[j - 1]) % Word
    BY <1>1, <1>9
  <1> QED BY <1>5, <1>10, <1>11

\* A factor may be reduced first.
LEMMA Reduced ==
  ASSUME NEW w \in Nat \ {0}, NEW a \in Nat, NEW b \in Nat
  PROVE  ((a % w) * b) % w = (a * b) % w
  <1>1. PICK q \in Nat, r \in 0..(w - 1) : q = a \div w /\ r = a % w /\ a = q * w + r
    BY Remainders
  <1>2. PICK y \in Nat : y = r * b
    OBVIOUS
  <1>3. PICK p \in Nat, s \in 0..(w - 1) : p = y \div w /\ s = y % w /\ y = p * w + s
    BY Remainders
  <1>4. PICK u \in Nat : u = q * b + p
    OBVIOUS
  <1>5. a * b = u * w + s
    <2>1. a * b = (q * w) * b + r * b
      BY <1>1
    <2>2. (q * w) * b = (q * b) * w
      OBVIOUS
    <2>3. u * w = (q * b) * w + p * w
      BY <1>4
    <2>4. PICK e \in Nat, f \in Nat : e = (q * b) * w /\ f = p * w
      OBVIOUS
    <2>5. a * b = e + y /\ u * w = e + f /\ y = f + s
      BY <1>2, <1>3, <2>1, <2>2, <2>3, <2>4
    <2> QED BY <2>4, <2>5
  <1>6. (u * w + s) % w = s
    BY Quotients
  <1> QED BY <1>1, <1>2, <1>3, <1>5, <1>6

\* One turn of get_size: a value that fits the word is read without loss,
\* though count may wrap once the digits that are left are all zero.
LEMMA OneTurn ==
  ASSUME NEW w \in Nat \ {0}, NEW b \in Nat \ {0}, NEW x \in Nat, x < w,
         NEW p \in Nat \ {0}, NEW s \in Nat, NEW l \in Nat, s + l * p = x,
         NEW e \in Nat, NEW d \in Nat, l = b * e + d,
         NEW c \in Nat, c = p \/ c = p % w
  PROVE  (s + d * c) % w = s + d * p /\ s + d * p + e * (p * b) = x
  <1>1. PICK u \in Nat, v \in Nat : u = d * p /\ v = e * (p * b)
    OBVIOUS
  <1>2. l * p = v + u
    <2>1. l * p = (b * e) * p + d * p
      OBVIOUS
    <2>2. (b * e) * p = e * (p * b)
      OBVIOUS
    <2> QED BY <1>1, <2>1, <2>2
  <1>3. s + u + v = x
    BY <1>1, <1>2
  <1>4. (s + d * c) % w = s + u
    <2>1. CASE d = 0
      <3>1. d * c = 0 /\ u = 0 /\ s < w
        BY <1>1, <1>3, <2>1
      <3> QED BY <3>1, Small
    <2>2. CASE d # 0
      <3>1. p <= u
        <4>1. PICK f \in Nat : d = f + 1
          BY <2>2
        <4>2. u = f * p + p /\ f * p \in Nat
          BY <1>1, <4>1
        <4> QED BY <4>2
      <3>2. p < w /\ s + u < w
        BY <1>3, <3>1
      <3>3. c = p
        BY <3>2, Small
      <3>4. (s + u) % w = s + u
        BY <3>2, Small
      <3> QED BY <1>1, <3>3, <3>4
    <2> QED BY <2>1, <2>2
  <1> QED BY <1>1, <1>3, <1>4

\* A size is read back from its digits.
LEMMA SizeRead ==
  ASSUME NEW x \in Nat, Leading(x)[Digits] = 0, x < Word
  PROVE  get_size(Octal(x)) = x
  <1>1. Digits \in Nat /\ Base \in Nat \ {0} /\ Word \in Nat \ {0}
    BY RamdiskAssumption
  <1>2. PICK l : l = Leading(x)
    OBVIOUS
  <1>3. /\ l[0] = x /\ l[Digits] = 0
        /\ \A j \in 0..Digits : l[j] \in Nat
        /\ \A j \in 1..Digits : l[j] = l[j - 1] \div Base
    BY <1>2, LeadingOf
  <1>4. PICK in : in = Octal(x)
    OBVIOUS
  <1>5. \A j \in 1..Digits :
          /\ in[j] \in Nat
          /\ in[Digits + 1 - j] = l[j - 1] % Base
    <2>1. \A j \in 1..Digits : in[j] = l[Digits - j] % Base
      BY <1>2, <1>4 DEF Octal
    <2> TAKE j \in 1..Digits
    <2>2. Digits - j \in 0..Digits /\ Digits + 1 - j \in 1..Digits
          /\ Digits - (Digits + 1 - j) = j - 1
      BY <1>1
    <2>3. PICK y \in Nat : y = l[Digits - j]
      BY <1>3, <2>2
    <2>4. y % Base \in 0..(Base - 1)
      BY <1>1, Divided
    <2>5. in[j] \in Nat
      BY <1>1, <2>1, <2>3, <2>4
    <2> QED BY <2>1, <2>2, <2>5
  <1>6. PICK c, s :
          /\ c[0] = 1 /\ s[0] = 0 /\ get_size(in) = s[Digits]
          /\ \A j \in 1..Digits :
               /\ c[j] = (c[j - 1] * Base) % Word
               /\ s[j] = (s[j - 1] + in[Digits + 1 - j] * c[j - 1]) % Word
    BY <1>1, <1>5, Turns
  <1> DEFINE Read(j, p) == /\ s[j] \in Nat /\ s[j] + l[j] * p = x
                           /\ c[j] \in Nat /\ (c[j] = p \/ c[j] = p % Word)
             S == {j \in 0..Digits : \E p \in Nat \ {0} : Read(j, p)}
  <1>7. 0 \in S
    <2>1. x * 1 = x
      OBVIOUS
    <2> QED BY <1>1, <1>3, <1>6, <2>1
  <1>8. ASSUME NEW j \in 0..(Digits - 1), j \in S
        PROVE  j + 1 \in S
    <2>1. PICK p \in Nat \ {0} : Read(j, p)
      BY <1>8
    <2>2. PICK q \in Nat, t \in Nat : q = l[j] /\ t = s[j]
      BY <1>1, <1>3, <2>1
    <2>3. PICK h \in Nat : h = c[j]
      BY <2>1
    <2>4. PICK i \in 1..Digits : i = j + 1 /\ i - 1 = j /\ i \in 0..Digits
      BY <1>1
    <2>5. PICK e \in Nat, d \in Nat : e = q \div Base /\ d = q % Base /\ q = Base * e + d
      <3>1. PICK e, d : e = q \div Base /\ d = q % Base
        OBVIOUS
      <3>2. e \in Nat /\ d \in 0..(Base - 1) /\ q = Base * e + d
        BY <1>1, <3>1, Divided
      <3>3. d \in Nat
        BY <1>1, <3>2
      <3> QED BY <3>1, <3>2, <3>3, Zenon
    <2>6. l[i] = e
      <3>1. l[i] = l[i - 1] \div Base
        BY <1>3
      <3> QED BY <2>2, <2>4, <2>5, <3>1
    <2>7. t + q * p = x /\ (h = p \/ h = p % Word)
      BY <2>1, <2>2, <2>3
    <2>8. (t + d * h) % Word = t + d * p /\ t + d * p + e * (p * Base) = x
      <3> HIDE DEF S
      <3>1. Word \in Nat \ {0} /\ Base \in Nat \ {0} /\ x < Word
        BY <1>1
      <3> QED BY <2>5, <2>7, <3>1, OneTurn
    <2>9. s[i] = t + d * p
      <3>1. in[Digits + 1 - i] = l[i - 1] % Base
        BY <1>5
      <3>2. in[Digits + 1 - i] = d
        BY <2>2, <2>4, <2>5, <3>1
      <3>3. s[i] = (s[i - 1] + in[Digits + 1 - i] * c[i - 1]) % Word
        BY <1>6
      <3>4. s[i] = (t + d * h) % Word
        BY <2>2, <2>3, <2>4, <3>2, <3>3
      <3> QED BY <2>8, <3>4
    <2>10. c[i] = (p * Base) % Word
      <3>1. c[i] = (h * Base) % Word
        BY <1>6, <2>3, <2>4
      <3>2. (h * Base) % Word = (p * Base) % Word
        <4>1. ((p % Word) * Base) % Word = (p * Base) % Word
          BY <1>1, Reduced
        <4> QED BY <2>7, <4>1
      <3> QED BY <3>1, <3>2
    <2>11. PICK z \in Nat \ {0} : z = p * Base
      <3>1. PICK b \in Nat : Base = b + 1
        BY <1>1
      <3>2. p * Base = p * b + p /\ p * b \in Nat
        BY <3>1
      <3> QED BY <3>2
    <2>12. d * p \in Nat /\ z % Word \in 0..(Word - 1)
      BY <1>1, <2>11, Divided
    <2>13. Read(i, z)
      BY <1>1, <2>6, <2>8, <2>9, <2>10, <2>11, <2>12
    <2> QED BY <2>4, <2>11, <2>13
  <1>9. Digits \in S
    <2> HIDE DEF S
    <2> QED BY <1>1, <1>7, <1>8, Induction
  <1>10. s[Digits] = x
    <2>1. PICK p \in Nat \ {0} : Read(Digits, p)
      BY <1>9
    <2>2. 0 * p = 0
      OBVIOUS
    <2> QED BY <1>3, <2>1, <2>2
  <1> QED BY <1>4, <1>6, <1>10

-----------------------------------------------------------------------------
(* The inductive invariant.                                                *)

\* A walk has passed the files up to the header it is at, and none of them
\* was the one looked for.
Walking ==
  /\ archive \in Archives /\ pc \in {"off", "idle", "walk"}
  /\ \E m \in 0..Len(archive) :
       /\ header = Position(m + 1)
       /\ pc = "walk" =>
            /\ listed = [j \in 1..m |-> j] /\ found = NULL
            /\ op # "fs_init" => \A j \in 1..m : archive[j].name # target

\* What gdt_initialize and idt_initialize leave.
SegmentsSet ==
  /\ tss = [rsp0 |-> KernelRsp, iopb_offset |-> 104]
  /\ gdt[1].access = 154 /\ gdt[1].granularity = 175
  /\ gdt[2].access = 146 /\ gdt[2].granularity = 207
  /\ gdt[3].access = 250 /\ gdt[3].granularity = 175
  /\ gdt[4].access = 242 /\ gdt[4].granularity = 207
  /\ gdt[5].access = 137 /\ SegmentLimit(gdt[5]) = 104
  /\ SegmentBase(gdt[5]) \o gdt[6].limit_low \o gdt[6].base_low = TssEntry

GatesSet ==
  idt = [v \in Vectors |-> IF v \notin Handled THEN NoGate
                           ELSE Gate(Isr[v], IF v = 128 THEN 238 ELSE 142)]

Described ==
  /\ IF at = "gdt" THEN DescriptorsInit ELSE SegmentsSet
  /\ at \notin {"gdt", "idt"} => GatesSet

\* Where _start is, and what it knows there.
Before == {"gdt", "idt", "vmm"}
Last == Append(Program, StackPage)
Stages ==
  /\ at \in Before \cup {"heap", "modules"} => pc = "off"
  /\ at \in {"ramdisk", "listed", "video", "init.kex", "load", "program", "user"} =>
       pc # "off" /\ machine.modules = 1
  /\ at = "video" => op = "fs_get_file" /\ target = "video.bad"
  /\ at = "load" => op = "fs_get_file" /\ target = "init.kex"
  /\ at \in {"program", "user"} => Starts
  /\ at = "halted" => ~ Starts
  /\ at = "heap" => n <= Len(HeapPages)
  /\ at = "video" /\ n # 0 => pc = "idle" /\ found # NULL /\ n <= pages_needed
  /\ at = "program" => n <= Len(Last)
  /\ at \in {"heap", "video", "program", "starved"} \/ n = 0

\* The pages mapped so far, to frames of their own and to those of the video.
OwnDone ==
  IF at \in Before THEN {}
  ELSE IF at = "heap" THEN {HeapPages[j] : j \in 1..n}
  ELSE Range(HeapPages) \cup
         IF at = "program" THEN {Last[j] : j \in 1..n}
         ELSE IF at = "user" THEN Range(Program) \cup {StackPage} ELSE {}
VideoDone ==
  IF at \in Before \cup {"heap", "modules", "ramdisk", "listed"} THEN {}
  ELSE IF at = "video" THEN {VideoPage + m : m \in 0..(n - 1)}
  ELSE VideoPages

\* Every frame that is gone is in use: the root table, the pages with frames of
\* their own and the tables on the way to a page.
Accounts ==
  IF at = "starved" THEN machine.frames < Needed
  ELSE /\ DOMAIN mapped = OwnDone \cup VideoDone
       /\ tables = UNION {TablesOf(v) : v \in DOMAIN mapped}
       /\ machine.frames =
            IF at \in Before THEN frames
            ELSE frames + 1 + Cardinality(OwnDone) + Cardinality(tables)

\* The pages of the video, in the frames where it lies.
Placed ==
  at # "starved" =>
    \A k \in Firsts("video.bad"), v \in VideoDone :
      mapped[v] = Lies(k, 0)[1] + (v - VideoPage)

IInv ==
  /\ Walking /\ WalkFinds /\ Described
  /\ Stages /\ TypeOK /\ Accounts /\ Placed

-----------------------------------------------------------------------------
(* The walks.                                                              *)

LEMMA FileHere ==
  ASSUME archive \in Archives, NEW k \in 1..Len(archive), header = Position(k)
  PROVE  /\ ~ AtEnd /\ FileAt(header) = k /\ HereSize = archive[k].size
         /\ Here = archive[k]
         /\ header + NextOffset(HereSize) = Position(k + 1)
  <1>1. Len(archive) \in Nat /\ k \in 1..(Len(archive) + 1) /\ k # End
        /\ End \in 1..(Len(archive) + 1)
    BY LengthOf DEF End
  <1>2. ~ AtEnd
    BY <1>1, Distinct DEF AtEnd, Position
  <1>3. \A j \in 1..Len(archive) : Position(j) = header => j = k
    BY <1>1, Distinct DEF Position
  <1>4. FileAt(header) = k
    BY <1>3 DEF FileAt
  <1>5. Here = archive[k]
    BY <1>4 DEF Here
  <1>6. PICK x \in Nat : x = archive[k].size
    BY FileOf
  <1>7. Leading(x)[Digits] = 0 /\ x < Word
    <2>1. x + Block <= Word /\ Block \in Nat \ {0} /\ Word \in Nat
      BY <1>6, FileOf, RamdiskAssumption
    <2> QED BY <1>6, <2>1, FileOf
  <1>8. HereSize = x
    BY <1>5, <1>6, <1>7, SizeRead DEF HereSize
  <1>9. header + NextOffset(HereSize) = Position(k + 1)
    BY <1>6, <1>8, NextHeader DEF Position
  <1> QED BY <1>2, <1>4, <1>5, <1>6, <1>8, <1>9

LEMMA OneListed ==
  ASSUME NEW m \in Nat, NEW s, s = [j \in 1..m |-> j]
  PROVE  Append(s, m + 1) = [j \in 1..(m + 1) |-> j]
  <1>1. s \in Seq(Nat) /\ Len(s) = m
    OBVIOUS
  <1>2. PICK t : t = Append(s, m + 1)
    OBVIOUS
  <1>3. /\ t \in Seq(Nat) /\ Len(t) = m + 1 /\ t[m + 1] = m + 1
        /\ \A j \in 1..m : t[j] = s[j]
    BY <1>1, <1>2, AppendProperties
  <1>4. \A j \in 1..(m + 1) : t[j] = j
    <2> TAKE j \in 1..(m + 1)
    <2>1. CASE j = m + 1
      BY <1>3, <2>1
    <2>2. CASE j # m + 1
      BY <1>3, <2>2
    <2> QED BY <2>1, <2>2
  <1>5. PICK u : u = [j \in 1..(m + 1) |-> j]
    OBVIOUS
  <1>6. u \in Seq(Nat) /\ Len(u) = m + 1 /\ \A j \in 1..(m + 1) : u[j] = j
    BY <1>5
  <1>7. t = u
    BY <1>3, <1>4, <1>6, SeqEqual
  <1> QED BY <1>2, <1>5, <1>7

\* A walk begins at the first header.
LEMMA Starting ==
  ASSUME Walking, NEW o, NEW name, Start(o, name)
  PROVE  Walking' /\ WalkFinds'
  <1>1. /\ pc' = "walk" /\ header' = 0 /\ archive' = archive
        /\ listed' = <<>> /\ found' = NULL
    BY DEF Start
  <1>2. Len(archive) \in Nat /\ Position(1) = 0 /\ 1 \in 1..End /\ 0 \in 0..Len(archive)
    BY LengthOf, Placing DEF Walking, End, Position
  <1>3. (Position(0 + 1))' = 0 /\ (Position(1))' = 0 /\ End' = End
    BY <1>1, <1>2 DEF Position, End
  <1>4. <<>> = [j \in 1..0 |-> j]
    <2>1. [j \in 1..0 |-> j] \in Seq(Nat) /\ Len([j \in 1..0 |-> j]) = 0
      OBVIOUS
    <2> QED BY <2>1, EmptySeq
  <1>5. Walking'
    <2>1. archive' \in Archives /\ pc' \in {"off", "idle", "walk"}
      BY <1>1 DEF Walking
    <2>2. \A j \in 1..0 : archive'[j].name # target'
      OBVIOUS
    <2> QED BY <1>1, <1>2, <1>3, <1>4, <2>1, <2>2 DEF Walking
  <1>6. WalkFinds'
    BY <1>1, <1>2, <1>3 DEF WalkFinds
  <1> QED BY <1>5, <1>6

LEMMA Passing ==
  ASSUME Walking, PassFile
  PROVE  Walking' /\ WalkFinds'
  <1>1. archive \in Archives /\ Len(archive) \in Nat /\ pc = "walk" /\ ~ AtEnd
    BY LengthOf DEF Walking, PassFile
  <1>2. PICK m \in 0..Len(archive) :
          /\ header = Position(m + 1) /\ listed = [j \in 1..m |-> j] /\ found = NULL
          /\ op # "fs_init" => \A j \in 1..m : archive[j].name # target
    BY <1>1 DEF Walking
  <1>3. PICK k \in 1..Len(archive) : k = m + 1
    <2>1. m # Len(archive)
      BY <1>1, <1>2 DEF AtEnd, End
    <2> QED BY <1>1, <2>1
  <1>4. Here = archive[k] /\ FileAt(header) = k /\ header + NextOffset(HereSize) = Position(k + 1)
    BY <1>1, <1>2, <1>3, FileHere
  <1>5. /\ pc' = "walk" /\ archive' = archive /\ op' = op /\ target' = target /\ found' = NULL
        /\ header' = Position(k + 1) /\ listed' = Append(listed, m + 1)
    BY <1>1, <1>2, <1>3, <1>4 DEF PassFile
  <1>6. listed' = [j \in 1..k |-> j]
    <2>1. m \in Nat
      BY <1>1
    <2> QED BY <1>2, <1>3, <1>5, <2>1, OneListed
  <1>7. op # "fs_init" => \A j \in 1..k : archive[j].name # target
    <2>1. SUFFICES ASSUME op # "fs_init" PROVE \A j \in 1..k : archive[j].name # target
      OBVIOUS
    <2>2. archive[k].name # target
      BY <1>4, <2>1 DEF PassFile, Matches
    <2>3. \A j \in 1..k : j \in 1..m \/ j = k
      BY <1>3
    <2> QED BY <1>2, <2>1, <2>2, <2>3
  <1>8. Position(k + 1)' = Position(k + 1) /\ k \in 0..Len(archive) /\ k + 1 \in 1..End'
    BY <1>1, <1>5 DEF Position, End
  <1>9. Walking'
    <2>1. header' = Position(k + 1)' /\ k \in 0..Len(archive')
      BY <1>5, <1>8
    <2>2. archive' \in Archives /\ pc' \in {"off", "idle", "walk"}
      BY <1>1, <1>5
    <2>3. op' # "fs_init" => \A j \in 1..k : archive'[j].name # target'
      BY <1>5, <1>7
    <2> QED BY <1>5, <1>6, <2>1, <2>2, <2>3 DEF Walking
  <1>10. WalkFinds'
    BY <1>5, <1>8 DEF WalkFinds
  <1> QED BY <1>9, <1>10

LEMMA Finding ==
  ASSUME Walking, FindFile
  PROVE  Walking' /\ WalkFinds'
  <1>1. archive \in Archives /\ Len(archive) \in Nat /\ pc = "walk" /\ ~ AtEnd /\ Matches
    BY LengthOf DEF Walking, FindFile
  <1>2. op # "fs_init" /\ Here.name = target
    BY <1>1 DEF Matches
  <1>3. PICK m \in 0..Len(archive) :
          /\ header = Position(m + 1)
          /\ \A j \in 1..m : archive[j].name # target
    BY <1>1, <1>2 DEF Walking
  <1>4. PICK k \in 1..Len(archive) : k = m + 1
    <2>1. m # Len(archive)
      BY <1>1, <1>3 DEF AtEnd, End
    <2> QED BY <1>1, <2>1
  <1>5. Here = archive[k] /\ HereSize = archive[k].size
    BY <1>1, <1>3, <1>4, FileHere
  <1>6. /\ pc' = "idle" /\ archive' = archive /\ op' = op /\ target' = target
        /\ header' = header /\ found' = <<Position(k) + Block, archive[k].size>>
    BY <1>3, <1>4, <1>5 DEF FindFile
  <1>7. FirstMatch'
    <2>1. \A j \in 1..Len(archive) : archive[j].name = target => k <= j
      BY <1>1, <1>3, <1>4
    <2>2. archive[k].name = target
      BY <1>2, <1>5
    <2>3. PICK named : named = {j \in 1..Len(archive) : archive[j].name = target}
      OBVIOUS
    <2>4. k \in named /\ \A j \in named : k <= j
      BY <2>1, <2>2, <2>3
    <2>5. Position(k)' = Position(k)
      BY <1>6 DEF Position
    <2>6. \E l \in named : (\A j \in named : l <= j)
                           /\ found' = <<Position(l)' + Block, archive'[l].size>>
      BY <1>6, <2>4, <2>5
    <2>7. named = {j \in 1..Len(archive') : archive'[j].name = target'}
      BY <1>6, <2>3
    <2> QED BY <2>6, <2>7 DEF FirstMatch
  <1>8. Position(m + 1)' = Position(m + 1) /\ m + 1 \in 1..End'
    BY <1>1, <1>6 DEF Position, End
  <1>9. Walking'
    BY <1>1, <1>3, <1>6, <1>8 DEF Walking
  <1>10. WalkFinds'
    BY <1>2, <1>3, <1>6, <1>7, <1>8 DEF WalkFinds
  <1> QED BY <1>9, <1>10

LEMMA Ending ==
  ASSUME Walking, EndWalk
  PROVE  Walking' /\ WalkFinds'
  <1>1. archive \in Archives /\ Len(archive) \in Nat /\ pc = "walk" /\ AtEnd
    BY LengthOf DEF Walking, EndWalk
  <1>2. PICK m \in 0..Len(archive) :
          /\ header = Position(m + 1) /\ listed = [j \in 1..m |-> j] /\ found = NULL
          /\ op # "fs_init" => \A j \in 1..m : archive[j].name # target
    BY <1>1 DEF Walking
  <1>3. m = Len(archive)
    <2>1. m + 1 \in 1..(Len(archive) + 1) /\ End \in 1..(Len(archive) + 1)
      BY <1>1 DEF End
    <2>2. m + 1 = End
      BY <1>1, <1>2, <2>1, Distinct DEF AtEnd, Position
    <2> QED BY <1>1, <2>2 DEF End
  <1>4. /\ pc' = "idle" /\ archive' = archive /\ op' = op /\ target' = target
        /\ header' = header /\ found' = NULL /\ listed' = listed
    BY <1>2 DEF EndWalk
  <1>5. Position(m + 1)' = Position(m + 1) /\ m + 1 \in 1..End'
    BY <1>1, <1>4 DEF Position, End
  <1>6. Walking'
    BY <1>1, <1>2, <1>4, <1>5 DEF Walking
  <1>7. op' # "fs_init" => FirstMatch'
    <2> HAVE op' # "fs_init"
    <2>1. {j \in 1..Len(archive') : archive'[j].name = target'} = {}
      BY <1>2, <1>3, <1>4
    <2> QED BY <1>4, <2>1 DEF FirstMatch
  <1>8. WalkFinds'
    BY <1>2, <1>3, <1>4, <1>5, <1>7 DEF WalkFinds
  <1> QED BY <1>6, <1>8

\* Nothing changes the ramdisk while no walk is on.
LEMMA Still ==
  ASSUME Walking, WalkFinds, UNCHANGED ramdisk
  PROVE  Walking' /\ WalkFinds'
  <1>1. /\ archive' = archive /\ pc' = pc /\ op' = op /\ target' = target /\ header' = header
        /\ found' = found /\ listed' = listed
    BY DEF ramdisk
  <1>2. End' = End /\ \A k : Position(k)' = Position(k)
    BY <1>1 DEF End, Position
  <1>3. Walking'
    BY <1>1, <1>2 DEF Walking
  <1>4. FirstMatch => FirstMatch'
    BY <1>1, <1>2 DEF FirstMatch
  <1>5. WalkFinds'
    BY <1>1, <1>2, <1>4 DEF WalkFinds
  <1> QED BY <1>3, <1>5

-----------------------------------------------------------------------------
(* The tables of the processor.                                            *)

LEMMA GateSet ==
  ASSUME NEW g, DOMAIN g = 0..6, NEW num \in 0..6, NEW e, NEW h, h = [g EXCEPT ![num] = e]
  PROVE  DOMAIN h = 0..6 /\ h[num] = e /\ \A k \in 0..6 : k # num => h[k] = g[k]
  OBVIOUS

LEMMA FlatSet ==
  ASSUME NEW g, DOMAIN g = 0..6, NEW num \in 0..6, NEW access, NEW gran,
         NEW h, h = Flat(g, num, access, gran)
  PROVE  /\ DOMAIN h = 0..6 /\ \A k \in 0..6 : k # num => h[k] = g[k]
         /\ h[num].access = access /\ h[num].granularity = 15 + 16 * (gran \div 16)
  <1>1. PICK e : e = [base_low |-> Bytes(Zeros(8), 1, 2), base_middle |-> Zeros(8)[3],
                      base_high |-> Zeros(8)[4],
                      limit_low |-> Bytes([k \in 1..4 |-> 255], 1, 2),
                      granularity |-> ([k \in 1..4 |-> 255][3] % 16) + 16 * (gran \div 16),
                      access |-> access]
    OBVIOUS
  <1>2. h = [g EXCEPT ![num] = e]
    BY <1>1 DEF Flat, gdt_set_gate
  <1>3. [k \in 1..4 |-> 255][3] = 255 /\ 255 % 16 = 15
    OBVIOUS
  <1>4. e.access = access /\ e.granularity = 15 + 16 * (gran \div 16)
    BY <1>1, <1>3
  <1> QED BY <1>2, <1>4, GateSet

\* An address cut where the tables cut it, and put together again.
IsCut(x, a, b, s) == /\ s \in Seq(Byte) /\ Len(s) = b - a + 1
                     /\ \A k \in 1..(b - a + 1) : s[k] = x[a + k - 1]

LEMMA Cut ==
  ASSUME NEW x \in Number(8), NEW a \in 1..8, NEW b \in 1..8, a <= b
  PROVE  IsCut(x, a, b, Bytes(x, a, b))
  <1>1. \A k \in a..b : x[k] \in Byte
    <2> TAKE k \in a..b
    <2>1. k \in 1..8
      OBVIOUS
    <2> QED BY <2>1 DEF Number
  <1>2. a \in Int /\ b \in Int
    OBVIOUS
  <1>3. /\ SubSeq(x, a, b) \in Seq(Byte) /\ Len(SubSeq(x, a, b)) = IF a <= b THEN b - a + 1 ELSE 0
        /\ \A k \in 1..(b - a + 1) : SubSeq(x, a, b)[k] = x[a + k - 1]
    BY <1>1, <1>2, SubSeqProperties
  <1> QED BY <1>3 DEF IsCut, Bytes

LEMMA Joined ==
  ASSUME NEW s \in Seq(Byte), NEW t \in Seq(Byte), NEW u, u = s \o t
  PROVE  /\ u \in Seq(Byte) /\ Len(u) = Len(s) + Len(t)
         /\ \A k \in 1..Len(s) : u[k] = s[k]
         /\ \A k \in 1..Len(t) : u[Len(s) + k] = t[k]
  <1>1. Len(s) \in Nat /\ Len(t) \in Nat
    BY LenProperties
  <1>2. /\ u \in Seq(Byte) /\ Len(u) = Len(s) + Len(t)
        /\ \A k \in 1..(Len(s) + Len(t)) : u[k] = IF k <= Len(s) THEN s[k] ELSE t[k - Len(s)]
    BY ConcatProperties
  <1>3. \A k \in 1..Len(t) : Len(s) + k \in 1..(Len(s) + Len(t))
                              /\ ~ (Len(s) + k <= Len(s)) /\ Len(s) + k - Len(s) = k
    BY <1>1
  <1>4. \A k \in 1..Len(s) : k \in 1..(Len(s) + Len(t)) /\ k <= Len(s)
    BY <1>1
  <1> QED BY <1>2, <1>3, <1>4

\* Two cuts side by side.
LEMMA Beside ==
  ASSUME NEW x \in Number(8), NEW a \in 1..8, NEW b \in 1..8, NEW c \in 1..8, NEW d \in 1..8,
         a <= b, c = b + 1, c <= d,
         NEW s, IsCut(x, a, b, s), NEW t, IsCut(x, c, d, t), NEW u, IsCut(x, a, d, u)
  PROVE  s \o t = u
  <1>2. PICK m \in Nat, o \in Nat : m = b - a + 1 /\ o = d - c + 1
    OBVIOUS
  <1>3. s \in Seq(Byte) /\ Len(s) = m /\ \A k \in 1..m : s[k] = x[a + k - 1]
    <2>1. /\ s \in Seq(Byte) /\ Len(s) = b - a + 1
          /\ \A k \in 1..(b - a + 1) : s[k] = x[a + k - 1]
      BY DEF IsCut
    <2> QED BY <1>2, <2>1
  <1>4. t \in Seq(Byte) /\ Len(t) = o /\ \A k \in 1..o : t[k] = x[c + k - 1]
    <2>1. /\ t \in Seq(Byte) /\ Len(t) = d - c + 1
          /\ \A k \in 1..(d - c + 1) : t[k] = x[c + k - 1]
      BY DEF IsCut
    <2> QED BY <1>2, <2>1
  <1>5. u \in Seq(Byte) /\ Len(u) = m + o /\ \A k \in 1..(m + o) : u[k] = x[a + k - 1]
    <2>1. a <= d /\ d - a + 1 = m + o
      BY <1>2
    <2>2. /\ u \in Seq(Byte) /\ Len(u) = d - a + 1
          /\ \A k \in 1..(d - a + 1) : u[k] = x[a + k - 1]
      BY <2>1 DEF IsCut
    <2> QED BY <2>1, <2>2
  <1>6. PICK v : v = s \o t
    OBVIOUS
  <1>7. /\ v \in Seq(Byte) /\ Len(v) = m + o
        /\ \A k \in 1..m : v[k] = s[k]
        /\ \A k \in 1..o : v[m + k] = t[k]
    <2>1. /\ v \in Seq(Byte) /\ Len(v) = Len(s) + Len(t)
          /\ \A k \in 1..Len(s) : v[k] = s[k]
          /\ \A k \in 1..Len(t) : v[Len(s) + k] = t[k]
      <3>1. s \in Seq(Byte) /\ t \in Seq(Byte)
        BY <1>3, <1>4
      <3> QED BY <1>6, <3>1, Joined
    <2> QED BY <1>3, <1>4, <2>1
  <1>8. ASSUME NEW k \in 1..(m + o) PROVE v[k] = x[a + k - 1]
    <2>1. CASE k <= m
      <3>1. k \in 1..m
        BY <2>1
      <3> QED BY <1>3, <1>7, <3>1
    <2>2. CASE ~ (k <= m)
      <3>1. PICK j \in 1..o : k = m + j /\ c + j - 1 = a + k - 1
        <4>1. k - m \in 1..o /\ k = m + (k - m) /\ c + (k - m) - 1 = a + k - 1
          BY <1>2, <2>2
        <4> QED BY <4>1
      <3>2. v[k] = t[j] /\ t[j] = x[c + j - 1]
        BY <1>4, <1>7, <3>1
      <3> QED BY <3>1, <3>2
    <2> QED BY <2>1, <2>2
  <1>9. v = u
    BY <1>5, <1>7, <1>8, SeqEqual
  <1> QED BY <1>6, <1>9

LEMMA Whole ==
  ASSUME NEW x \in Number(8)
  PROVE  Bytes(x, 1, 8) = x
  <1>1. x = [k \in 1..8 |-> x[k]] /\ \A k \in 1..8 : x[k] \in Byte
    BY DEF Number
  <1>2. x \in Seq(Byte) /\ Len(x) = 8
    BY <1>1
  <1> QED BY <1>2, SubSeqFull DEF Bytes

LEMMA GateWhole ==
  ASSUME NEW x \in Number(8)
  PROVE  Bytes(x, 1, 2) \o Bytes(x, 3, 4) \o Bytes(x, 5, 8) = x
  <1>1. PICK s, t, u, v, w :
          /\ s = Bytes(x, 1, 2) /\ t = Bytes(x, 3, 4) /\ u = Bytes(x, 5, 8)
          /\ v = Bytes(x, 1, 4) /\ w = Bytes(x, 1, 8)
    OBVIOUS
  <1>2. \A a, b \in 1..8 : a <= b => IsCut(x, a, b, Bytes(x, a, b))
    BY Cut
  <1>3. /\ IsCut(x, 1, 2, s) /\ IsCut(x, 3, 4, t) /\ IsCut(x, 5, 8, u)
        /\ IsCut(x, 1, 4, v) /\ IsCut(x, 1, 8, w)
    BY <1>1, <1>2
  <1>4. s \o t = v
    BY <1>3, 3 = 2 + 1, Beside
  <1>5. v \o u = w
    BY <1>3, 5 = 4 + 1, Beside
  <1> QED BY <1>1, <1>4, <1>5, Whole

LEMMA TaskWhole ==
  ASSUME NEW x \in Number(8)
  PROVE  Bytes(x, 1, 2) \o <<x[3], x[4]>> \o Bytes(x, 5, 6) \o Bytes(x, 7, 8) = x
  <1>1. PICK s, t, u, v, y, z, w :
          /\ s = Bytes(x, 1, 2) /\ t = Bytes(x, 3, 4)
          /\ u = Bytes(x, 5, 6) /\ v = Bytes(x, 7, 8)
          /\ y = Bytes(x, 1, 4) /\ z = Bytes(x, 1, 6) /\ w = Bytes(x, 1, 8)
    OBVIOUS
  <1>2. \A a, b \in 1..8 : a <= b => IsCut(x, a, b, Bytes(x, a, b))
    BY Cut
  <1>3. /\ IsCut(x, 1, 2, s) /\ IsCut(x, 3, 4, t) /\ IsCut(x, 5, 6, u)
        /\ IsCut(x, 7, 8, v)
        /\ IsCut(x, 1, 4, y) /\ IsCut(x, 1, 6, z) /\ IsCut(x, 1, 8, w)
    BY <1>1, <1>2
  <1>4. s \o t = y
    BY <1>3, 3 = 2 + 1, Beside
  <1>5. y \o u = z
    BY <1>3, 5 = 4 + 1, Beside
  <1>6. z \o v = w
    BY <1>3, 7 = 6 + 1, Beside
  <1>7. t = <<x[3], x[4]>>
    <2>1. PICK e : e = <<x[3], x[4]>>
      OBVIOUS
    <2>2. t \in Seq(Byte) /\ Len(t) = 2 /\ t[1] = x[3] /\ t[2] = x[4]
      <3>1. /\ t \in Seq(Byte) /\ Len(t) = 4 - 3 + 1
            /\ \A k \in 1..(4 - 3 + 1) : t[k] = x[3 + k - 1]
        BY <1>3 DEF IsCut
      <3>2. t[1] = x[3 + 1 - 1] /\ t[2] = x[3 + 2 - 1]
        BY <3>1
      <3> QED BY <3>1, <3>2
    <2>3. e \in Seq(Byte) /\ Len(e) = 2 /\ e[1] = x[3] /\ e[2] = x[4]
      <3>1. x[3] \in Byte /\ x[4] \in Byte
        BY DEF Number
      <3> QED BY <2>1, <3>1
    <2>4. \A k \in 1..Len(t) : t[k] = e[k]
      <3>1. \A k \in 1..2 : k = 1 \/ k = 2
        OBVIOUS
      <3> QED BY <2>2, <2>3, <3>1
    <2>5. t = e
      BY <2>2, <2>3, <2>4, SeqEqual
    <2> QED BY <2>1, <2>5
  <1> QED BY <1>1, <1>4, <1>7, <1>5, <1>6, Whole

LEMMA SettingSegments ==
  ASSUME DescriptorsInit, gdt_initialize
  PROVE  SegmentsSet'
  <1> DEFINE null == gdt_set_gate(gdt, 0, Zeros(8), Zeros(4), 0, 0)
             code == Flat(null, 1, 154, 175)
             kernel == Flat(code, 2, 146, 207)
             ucode == Flat(kernel, 3, 250, 175)
             user == Flat(ucode, 4, 242, 207)
             task == gdt_set_gate(user, 5, TssEntry, <<104, 0, 0, 0>>, 137, 0)
             all == [task EXCEPT ![6] = [NoSegment EXCEPT !.limit_low = Bytes(TssEntry, 5, 6),
                                                          !.base_low = Bytes(TssEntry, 7, 8)]]
  <1>2. gdt' = all
    BY 5 + 1 = 6 DEF gdt_initialize, tss_install, SizeofTss
  <1>3. tss' = [rsp0 |-> KernelRsp, iopb_offset |-> 104]
    BY DEF gdt_initialize, SizeofTss
  <1>4. DOMAIN null = 0..6
    BY DEF DescriptorsInit, gdt_set_gate
  <1> HIDE DEF null
  <1>5. DOMAIN code = 0..6 /\ code[1].access = 154 /\ code[1].granularity = 15 + 16 * (175 \div 16)
    BY <1>4, FlatSet
  <1> HIDE DEF code
  <1>6. /\ DOMAIN kernel = 0..6 /\ \A k \in 0..6 : k # 2 => kernel[k] = code[k]
        /\ kernel[2].access = 146 /\ kernel[2].granularity = 15 + 16 * (207 \div 16)
    BY <1>5, FlatSet
  <1> HIDE DEF kernel
  <1>7. /\ DOMAIN ucode = 0..6 /\ \A k \in 0..6 : k # 3 => ucode[k] = kernel[k]
        /\ ucode[3].access = 250 /\ ucode[3].granularity = 15 + 16 * (175 \div 16)
    BY <1>6, FlatSet
  <1> HIDE DEF ucode
  <1>8. /\ DOMAIN user = 0..6 /\ \A k \in 0..6 : k # 4 => user[k] = ucode[k]
        /\ user[4].access = 242 /\ user[4].granularity = 15 + 16 * (207 \div 16)
    BY <1>7, FlatSet
  <1> HIDE DEF user
  <1>9. PICK e : e = [base_low |-> Bytes(TssEntry, 1, 2), base_middle |-> TssEntry[3],
                      base_high |-> TssEntry[4], limit_low |-> Bytes(<<104, 0, 0, 0>>, 1, 2),
                      granularity |-> (<<104, 0, 0, 0>>[3] % 16) + 16 * (0 \div 16),
                      access |-> 137]
    OBVIOUS
  <1>10. task = [user EXCEPT ![5] = e]
    BY <1>9 DEF gdt_set_gate
  <1> HIDE DEF task
  <1>11. DOMAIN task = 0..6 /\ task[5] = e /\ \A k \in 0..6 : k # 5 => task[k] = user[k]
    BY <1>8, <1>10, GateSet
  <1>12. PICK h : h = [NoSegment EXCEPT !.limit_low = Bytes(TssEntry, 5, 6),
                                        !.base_low = Bytes(TssEntry, 7, 8)]
    OBVIOUS
  <1>13. all[6] = h /\ \A k \in 0..6 : k # 6 => all[k] = task[k]
    <2>1. all = [task EXCEPT ![6] = h]
      BY <1>12
    <2> QED BY <1>11, <2>1, GateSet
  <1> HIDE DEF all
  <1>14. h.limit_low = Bytes(TssEntry, 5, 6) /\ h.base_low = Bytes(TssEntry, 7, 8)
    BY <1>12 DEF NoSegment
  <1>15. all[1] = code[1] /\ all[2] = kernel[2] /\ all[3] = ucode[3] /\ all[4] = user[4] /\ all[5] = e
    BY <1>6, <1>7, <1>8, <1>11, <1>13
  <1>16. 175 \div 16 = 10 /\ 207 \div 16 = 12
    OBVIOUS
  <1>17. SegmentLimit(e) = 104
    <2>1. PICK l : l = <<104, 0, 0, 0>>
      OBVIOUS
    <2>2. Bytes(l, 1, 2) = SubSeq(l, 1, 2) /\ l[3] = 0 /\ l[1] = 104 /\ l[2] = 0
      BY <2>1 DEF Bytes
    <2>3. SubSeq(l, 1, 2)[1] = 104 /\ SubSeq(l, 1, 2)[2] = 0
      <3>1. \A k \in 1..2 : l[k] \in Nat
        BY <2>2
      <3>2. \A k \in 1..(2 - 1 + 1) : SubSeq(l, 1, 2)[k] = l[1 + k - 1]
        BY <3>1, SubSeqProperties
      <3>3. SubSeq(l, 1, 2)[1] = l[1 + 1 - 1] /\ SubSeq(l, 1, 2)[2] = l[1 + 2 - 1]
        BY <3>2
      <3> QED BY <2>2, <3>3
    <2>4. e.limit_low = SubSeq(l, 1, 2) /\ e.granularity = (0 % 16) + 16 * (0 \div 16)
      BY <1>9, <2>1, <2>2
    <2> QED BY <2>3, <2>4 DEF SegmentLimit
  <1>18. SegmentBase(e) \o h.limit_low \o h.base_low = TssEntry
    <2>1. SegmentBase(e) = Bytes(TssEntry, 1, 2) \o <<TssEntry[3], TssEntry[4]>>
      BY <1>9 DEF SegmentBase
    <2>2. TssEntry \in Number(8)
      BY DescriptorsAssumption
    <2> QED BY <1>14, <2>1, <2>2, TaskWhole
  <1>19. e.access = 137
    BY <1>9
  <1> QED BY <1>2, <1>3, <1>5, <1>6, <1>7, <1>8, <1>13, <1>15, <1>16, <1>17, <1>18, <1>19
          DEF SegmentsSet

LEMMA Reading ==
  ASSUME SegmentsSet, GatesSet
  PROVE  TablesRead
  <1>1. \A v \in Vectors : idt[v] = IF v \notin Handled THEN NoGate
                                     ELSE Gate(Isr[v], IF v = 128 THEN 238 ELSE 142)
    BY DEF GatesSet
  <1>2. Selects(8, TRUE, 0)
    BY 8 \div 8 = 1, 175 \div 32 = 5, 154 \div 128 = 1, 154 \div 16 = 9, 154 \div 8 = 19,
       154 \div 32 = 4, 154 \div 2 = 77
       DEF Selects, SegmentsSet, Present, Dpl
  <1>3. Selects(16, FALSE, 0)
    BY DEF Selects, SegmentsSet, Present, Dpl
  <1>4. Selects(35, FALSE, 3)
    BY DEF Selects, SegmentsSet, Present, Dpl
  <1>5. Selects(27, TRUE, 3)
    BY 27 \div 8 = 3, 27 % 4 = 3, 175 \div 32 = 5, 250 \div 128 = 1, 250 \div 16 = 15,
       250 \div 8 = 31, 250 \div 32 = 7, 250 \div 2 = 125
       DEF Selects, SegmentsSet, Present, Dpl
  <1>6. ASSUME NEW v \in Vectors
        PROVE  Present(idt[v].flags) <=> v \in Handled
    <2>1. CASE v \notin Handled
      <3>1. idt[v].flags = 0
        BY <1>1, <2>1 DEF NoGate
      <3> QED BY <2>1, <3>1 DEF Present
    <2>2. CASE v \in Handled
      <3>1. PICK f : f = (IF v = 128 THEN 238 ELSE 142) /\ idt[v] = Gate(Isr[v], f)
        BY <1>1, <2>2
      <3>2. idt[v].flags = f
        BY <3>1 DEF Gate
      <3>3. f \in {238, 142}
        BY <3>1
      <3> QED BY <2>2, <3>2, <3>3 DEF Present
    <2> QED BY <2>1, <2>2
  <1>7. ASSUME NEW v \in Handled
        PROVE  /\ idt[v].base_low \o idt[v].base_mid \o idt[v].base_high = Isr[v]
               /\ idt[v].flags % 16 = 14
               /\ Dpl(idt[v].flags) = IF v = 128 THEN 3 ELSE 0
               /\ idt[v].sel = 8
    <2>1. v \in Vectors /\ Isr[v] \in Number(8)
      BY DescriptorsAssumption
    <2>2. PICK b : b = Isr[v]
      OBVIOUS
    <2>3. PICK g : g = Gate(b, IF v = 128 THEN 238 ELSE 142)
      OBVIOUS
    <2>4. idt[v] = g
      BY <1>1, <2>1, <2>2, <2>3
    <2>5. /\ g.base_low = Bytes(b, 1, 2) /\ g.base_mid = Bytes(b, 3, 4)
          /\ g.base_high = Bytes(b, 5, 8) /\ g.sel = 8
          /\ g.flags = IF v = 128 THEN 238 ELSE 142
      BY <2>3 DEF Gate
    <2>6. g.base_low \o g.base_mid \o g.base_high = b
      <3>1. Bytes(b, 1, 2) \o Bytes(b, 3, 4) \o Bytes(b, 5, 8) = b
        BY <2>1, <2>2, GateWhole
      <3>2. g.base_low = Bytes(b, 1, 2) /\ g.base_mid = Bytes(b, 3, 4) /\ g.base_high = Bytes(b, 5, 8)
        BY <2>5
      <3> QED BY <3>1, <3>2, Zenon
    <2>7. g.flags % 16 = 14
      BY <2>5
    <2>8. Dpl(g.flags) = IF v = 128 THEN 3 ELSE 0
      BY <2>5 DEF Dpl
    <2>9. g.sel = 8
      BY <2>5
    <2> QED BY <2>2, <2>4, <2>6, <2>7, <2>8, <2>9, Zenon
  <1>8. /\ gdt[5].access = 137
        /\ SegmentBase(gdt[5]) \o gdt[6].limit_low \o gdt[6].base_low = TssEntry
        /\ tss.rsp0 = KernelRsp
        /\ SegmentLimit(gdt[5]) <= tss.iopb_offset
    <2>1. gdt[5].access = 137 /\ tss.rsp0 = KernelRsp /\ tss.iopb_offset = 104
          /\ SegmentLimit(gdt[5]) = 104
      BY DEF SegmentsSet
    <2>2. SegmentBase(gdt[5]) \o gdt[6].limit_low \o gdt[6].base_low = TssEntry
      BY DEF SegmentsSet
    <2>3. SegmentLimit(gdt[5]) <= tss.iopb_offset
      BY <2>1
    <2> QED BY <2>1, <2>2, <2>3, Zenon
  <1>9. \A v \in Handled :
           LET g == idt[v] IN
           /\ g.base_low \o g.base_mid \o g.base_high = Isr[v]
           /\ g.flags % 16 = 14
           /\ Dpl(g.flags) = IF v = 128 THEN 3 ELSE 0
           /\ Selects(g.sel, TRUE, 0)
    BY <1>2, <1>7, Zenon
  <1>10. 40 \div 8 = 5
    OBVIOUS
  <1> QED BY <1>3, <1>4, <1>5, <1>6, <1>8, <1>9, <1>10, Zenon DEF TablesRead

-----------------------------------------------------------------------------
(* Pages, tables and frames.                                               *)

LEMMA Image ==
  ASSUME NEW S, IsFiniteSet(S), NEW f, NEW T, T = {f[x] : x \in S}
  PROVE  IsFiniteSet(T)
  <1>1. PICK g : g = [x \in S |-> f[x]]
    OBVIOUS
  <1>2. g \in Surjection(S, T)
    BY <1>1 DEF Surjection
  <1> QED BY <1>2, FS_Surjection

LEMMA TablesFinite ==
  ASSUME NEW V, IsFiniteSet(V), NEW T, T = UNION {TablesOf(v) : v \in V}
  PROVE  IsFiniteSet(T)
  <1>1. PICK f, g, h : /\ f = [v \in V |-> <<1, v \div Fan>>]
                       /\ g = [v \in V |-> <<2, v \div (Fan * Fan)>>]
                       /\ h = [v \in V |-> <<3, v \div (Fan * Fan * Fan)>>]
    OBVIOUS
  <1>2. PICK A, B, C : A = {f[v] : v \in V} /\ B = {g[v] : v \in V} /\ C = {h[v] : v \in V}
    OBVIOUS
  <1>3. IsFiniteSet(A) /\ IsFiniteSet(B) /\ IsFiniteSet(C)
    BY <1>2, Image
  <1>4. IsFiniteSet(A \cup B \cup C)
    BY <1>3, FS_Union
  <1>5. \A v \in V : TablesOf(v) = {f[v], g[v], h[v]}
    BY <1>1 DEF TablesOf
  <1>6. T = A \cup B \cup C
    BY <1>2, <1>5
  <1> QED BY <1>4, <1>6

LEMMA TableTyped ==
  ASSUME NEW v \in Nat, NEW t \in TablesOf(v)
  PROVE  t[1] \in 1..3 /\ t[2] \in Nat
  <1>1. PICK a \in Nat \ {0}, b \in Nat \ {0}, c \in Nat \ {0} :
          a = Fan /\ b = Fan * Fan /\ c = Fan * Fan * Fan
    <2>1. Fan \in Nat \ {0}
      BY BootAssumption
    <2>2. PICK b \in Nat \ {0} : b = Fan * Fan
      <3>1. PICK e \in Nat : Fan = e + 1
        BY <2>1
      <3>2. Fan * Fan = (e + 1) * (e + 1) /\ e * e \in Nat
        BY <3>1
      <3>3. (e + 1) * (e + 1) = e * e + 2 * e + 1
        OBVIOUS
      <3> QED BY <3>2, <3>3
    <2>3. b * Fan \in Nat \ {0}
      <3>1. PICK e \in Nat, i \in Nat : Fan = e + 1 /\ b = i + 1
        BY <2>1
      <3>2. (i + 1) * (e + 1) = i * e + i + e + 1 /\ i * e \in Nat
        OBVIOUS
      <3> QED BY <3>1, <3>2
    <2> QED BY <2>1, <2>2, <2>3
  <1>2. v \div a \in Nat /\ v \div b \in Nat /\ v \div c \in Nat
    BY Divided
  <1>3. t = <<1, v \div a>> \/ t = <<2, v \div b>> \/ t = <<3, v \div c>>
    BY <1>1 DEF TablesOf
  <1> QED BY <1>2, <1>3

\* A mapping takes the frames of the tables that are new, and one for the page
\* if it is to have its own.
LEMMA Counting ==
  ASSUME IsFiniteSet(tables), NEW v, NEW f
  PROVE  /\ IsFiniteSet(tables \cup TablesOf(v)) /\ Taken(v, f) \in Nat
         /\ Cardinality(tables) \in Nat
         /\ Cardinality(tables \cup TablesOf(v)) + (IF f = Own THEN 1 ELSE 0)
              = Cardinality(tables) + Taken(v, f)
  <1>1. PICK N : N = TablesOf(v) \ tables
    OBVIOUS
  <1>2. IsFiniteSet(N)
    <2>1. IsFiniteSet(TablesOf(v))
      <3>1. TablesOf(v) = UNION {TablesOf(w) : w \in {v}} /\ IsFiniteSet({v})
        BY FS_Singleton
      <3> QED BY <3>1, TablesFinite
    <2> QED BY <1>1, <2>1, FS_Subset
  <1>3. tables \cup TablesOf(v) = tables \cup N /\ tables \cap N = {}
    BY <1>1
  <1>4. IsFiniteSet(tables \cup N) /\ Cardinality(tables \cap N) = 0
        /\ Cardinality(tables \cup N) = Cardinality(tables) + Cardinality(N) - Cardinality(tables \cap N)
    BY <1>2, <1>3, FS_Union, FS_EmptySet
  <1>5. Cardinality(tables) \in Nat /\ Cardinality(N) \in Nat
    BY <1>2, FS_CardinalityType
  <1>6. Taken(v, f) = (IF f = Own THEN 1 ELSE 0) + Cardinality(N)
    BY <1>1 DEF Taken
  <1> QED BY <1>3, <1>4, <1>5, <1>6

\* The pages that get frames of their own.
LEMMA Lists ==
  /\ Len(HeapPages) \in Nat /\ Len(Last) \in Nat
  /\ Range(HeapPages) = {HeapPages[j] : j \in 1..Len(HeapPages)}
  /\ Range(Program) \cup {StackPage} = {Last[j] : j \in 1..Len(Last)}
  /\ \A j \in 1..Len(HeapPages) : HeapPages[j] \in Nat
  /\ \A j \in 1..Len(Last) : Last[j] \in Nat /\ Last[j] < VideoPage
  /\ \A j, k \in 1..Len(HeapPages) : HeapPages[j] = HeapPages[k] => j = k
  /\ \A j, k \in 1..Len(Last) : Last[j] = Last[k] => j = k
  /\ \A j \in 1..Len(HeapPages), k \in 1..Len(Last) : HeapPages[j] # Last[k]
  <1>1. HeapPages \in Seq(Nat) /\ Program \in Seq(Nat) /\ StackPage \in Nat /\ VideoPage \in Nat
    BY BootAssumption
  <1>2. PICK m \in Nat, p \in Nat : m = Len(HeapPages) /\ p = Len(Program)
    BY <1>1, LenProperties
  <1>3. DOMAIN HeapPages = 1..m /\ DOMAIN Program = 1..p
    BY <1>1, <1>2, LenProperties
  <1>4. /\ Last \in Seq(Nat) /\ Len(Last) = p + 1 /\ Last[p + 1] = StackPage
        /\ \A j \in 1..p : Last[j] = Program[j]
    BY <1>1, <1>2, AppendProperties DEF Last
  <1>5. \A j \in 1..m : HeapPages[j] \in Nat
    BY <1>1, <1>2, ElementOfSeq
  <1>6. \A j \in 1..(p + 1) : Last[j] \in Nat
    BY <1>4, ElementOfSeq
  <1>7. \A j \in 1..(p + 1) : Last[j] < VideoPage
    <2> TAKE j \in 1..(p + 1)
    <2>1. CASE j = p + 1
      BY <1>4, <2>1, BootAssumption
    <2>2. CASE j # p + 1
      <3>1. j \in 1..p
        BY <2>2
      <3>2. Program[j] < VideoPage
        BY <1>2, <3>1, BootAssumption
      <3> QED BY <1>4, <3>1, <3>2
    <2> QED BY <2>1, <2>2
  <1>8. PICK own : own = HeapPages \o Last
    OBVIOUS
  <1>9. /\ own \in Seq(Nat) /\ Len(own) = m + (p + 1)
        /\ \A k \in 1..(m + (p + 1)) : own[k] = IF k <= m THEN HeapPages[k] ELSE Last[k - m]
    <2>1. /\ own \in Seq(Nat) /\ Len(own) = Len(HeapPages) + Len(Last)
          /\ \A k \in 1..(Len(HeapPages) + Len(Last)) :
               own[k] = IF k <= Len(HeapPages) THEN HeapPages[k] ELSE Last[k - Len(HeapPages)]
      <3>1. HeapPages \in Seq(Nat) /\ Last \in Seq(Nat)
        BY <1>1, <1>4
      <3> QED BY <1>8, <3>1, ConcatProperties
    <2> QED BY <1>2, <1>4, <2>1
  <1>10. \A j, k \in 1..(m + (p + 1)) : own[j] = own[k] => j = k
    <2>1. \A j, k \in 1..Len(own) : own[j] = own[k] => j = k
      BY <1>8, BootAssumption DEF Last
    <2> QED BY <1>9, <2>1
  <1>11. \A j \in 1..m : j \in 1..(m + (p + 1)) /\ own[j] = HeapPages[j]
    BY <1>9
  <1>12. \A j \in 1..(p + 1) : m + j \in 1..(m + (p + 1)) /\ own[m + j] = Last[j]
    <2> TAKE j \in 1..(p + 1)
    <2>1. m + j \in 1..(m + (p + 1)) /\ ~ (m + j <= m) /\ m + j - m = j
      OBVIOUS
    <2> QED BY <1>9, <2>1
  <1>13. \A j, k \in 1..m : HeapPages[j] = HeapPages[k] => j = k
    BY <1>10, <1>11
  <1>14. \A j, k \in 1..(p + 1) : Last[j] = Last[k] => j = k
    <2> SUFFICES ASSUME NEW j \in 1..(p + 1), NEW k \in 1..(p + 1), Last[j] = Last[k]
                 PROVE  j = k
      OBVIOUS
    <2>1. m + j = m + k
      BY <1>10, <1>12
    <2> QED BY <2>1
  <1>15. \A j \in 1..m, k \in 1..(p + 1) : HeapPages[j] # Last[k]
    <2> SUFFICES ASSUME NEW j \in 1..m, NEW k \in 1..(p + 1), HeapPages[j] = Last[k]
                 PROVE  FALSE
      OBVIOUS
    <2>1. j = m + k
      BY <1>10, <1>11, <1>12
    <2> QED BY <2>1
  <1>16. Range(HeapPages) = {HeapPages[j] : j \in 1..m}
    BY <1>3 DEF Range
  <1>17. Range(Program) \cup {StackPage} = {Last[j] : j \in 1..(p + 1)}
    <2>1. Range(Program) = {Program[j] : j \in 1..p}
      BY <1>3 DEF Range
    <2>2. \A j \in 1..(p + 1) : j \in 1..p \/ j = p + 1
      OBVIOUS
    <2>3. p + 1 \in 1..(p + 1) /\ \A j \in 1..p : j \in 1..(p + 1)
      OBVIOUS
    <2> QED BY <1>4, <2>1, <2>2, <2>3
  <1> QED BY <1>2, <1>4, <1>5, <1>6, <1>7, <1>13, <1>14, <1>15, <1>16, <1>17

LEMMA OwnFinite ==
  /\ IsFiniteSet(Range(HeapPages)) /\ IsFiniteSet(Range(Program) \cup {StackPage})
  /\ Range(HeapPages) \subseteq Nat /\ Range(Program) \cup {StackPage} \subseteq Nat
  /\ IsFiniteSet(OwnPages) /\ OwnPages \subseteq Nat
  <1>1. IsFiniteSet(1..Len(HeapPages)) /\ IsFiniteSet(1..Len(Last))
    BY Lists, FS_Interval
  <1>2. IsFiniteSet(Range(HeapPages)) /\ IsFiniteSet(Range(Program) \cup {StackPage})
    BY <1>1, Lists, Image
  <1>3. Range(HeapPages) \subseteq Nat /\ Range(Program) \cup {StackPage} \subseteq Nat
    <2>1. /\ Range(HeapPages) = {HeapPages[j] : j \in 1..Len(HeapPages)}
          /\ Range(Program) \cup {StackPage} = {Last[j] : j \in 1..Len(Last)}
          /\ \A j \in 1..Len(HeapPages) : HeapPages[j] \in Nat
          /\ \A j \in 1..Len(Last) : Last[j] \in Nat
      BY Lists
    <2> QED BY <2>1, Zenon
  <1>4. IsFiniteSet(Range(HeapPages) \cup (Range(Program) \cup {StackPage}))
    BY <1>2, FS_Union
  <1>5. OwnPages \in SUBSET (Range(HeapPages) \cup (Range(Program) \cup {StackPage}))
    BY DEF OwnPages
  <1>6. IsFiniteSet(OwnPages)
    BY <1>4, <1>5, FS_Subset
  <1> QED BY <1>2, <1>3, <1>5, <1>6

\* The pages that so many bytes from the start of a page reach.
LEMMA Spanned ==
  ASSUME NEW p \in Nat \ {0}, NEW e \in Nat,
         NEW S, S = {a \div p : a \in 0..(e - 1)},
         NEW c, c = (e + p - 1) \div p
  PROVE  c \in Nat /\ S = 0..(c - 1)
  <1>1. PICK y \in Nat : y = e + p - 1
    OBVIOUS
  <1>2. PICK s \in 0..(p - 1) : c \in Nat /\ y = c * p + s
    <2>1. PICK q \in Nat, s \in 0..(p - 1) : q = y \div p /\ y = q * p + s
      BY Remainders
    <2>2. q = c
      BY <1>1, <2>1
    <2> QED BY <2>1, <2>2
  <1>3. PICK w \in Nat : w = c * p
    BY <1>2
  <1>4. ASSUME NEW a \in 0..(e - 1) PROVE a \div p \in 0..(c - 1)
    <2>1. PICK q \in Nat, r \in 0..(p - 1) : q = a \div p /\ a = q * p + r
      <3>1. a \in Nat
        OBVIOUS
      <3> QED BY <3>1, Remainders
    <2>2. ASSUME q >= c PROVE FALSE
      <3>1. PICK i \in Nat : q = c + i
        BY <1>2, <2>2
      <3>2. PICK v \in Nat : v = i * p
        OBVIOUS
      <3>3. q * p = w + v
        BY <1>2, <1>3, <3>1, <3>2
      <3>4. a = w + v + r /\ a <= e - 1 /\ e + p - 1 = w + s
        BY <1>1, <1>2, <1>3, <2>1, <3>3
      <3> QED BY <3>4
    <2> QED BY <1>2, <2>1, <2>2
  <1>5. ASSUME NEW q \in 0..(c - 1) PROVE \E a \in 0..(e - 1) : a \div p = q
    <2>1. PICK i \in Nat : c = q + i + 1
      <3>1. c - 1 - q \in Nat /\ c = q + (c - 1 - q) + 1
        BY <1>2
      <3> QED BY <3>1
    <2>2. PICK a \in Nat, v \in Nat : a = q * p /\ v = i * p
      OBVIOUS
    <2>3. w = a + v + p
      BY <1>2, <1>3, <2>1, <2>2
    <2>4. a <= e - 1
      BY <1>1, <1>2, <1>3, <2>3
    <2>5. (q * p + 0) \div p = q /\ q * p + 0 = a
      <3>1. q \in Int /\ 0 \in 0..(p - 1)
        OBVIOUS
      <3>2. (q * p + 0) \div p = q
        BY <3>1, Quotients
      <3> QED BY <2>2, <3>2
    <2>6. a \in 0..(e - 1) /\ a \div p = q
      BY <2>2, <2>4, <2>5
    <2> QED BY <2>6
  <1>6. S = 0..(c - 1)
    <2>1. \A q \in S : q \in 0..(c - 1)
      BY <1>4
    <2>2. \A q \in 0..(c - 1) : q \in S
      BY <1>5
    <2> QED BY <2>1, <2>2
  <1> QED BY <1>2, <1>6

LEMMA FirstOnly ==
  ASSUME archive \in Archives, NEW name, NEW j \in Firsts(name), NEW k \in Firsts(name)
  PROVE  j = k
  <1>1. /\ j \in 1..Len(archive) /\ archive[j].name = name
        /\ k \in 1..Len(archive) /\ archive[k].name = name
        /\ \A i \in 1..(j - 1) : archive[i].name # name
        /\ \A i \in 1..(k - 1) : archive[i].name # name
    BY DEF Firsts
  <1>2. Len(archive) \in Nat
    BY LengthOf
  <1>3. ~ (j < k)
    <2>1. j < k => j \in 1..(k - 1)
      BY <1>1, <1>2
    <2> QED BY <1>1, <2>1
  <1>4. ~ (k < j)
    <2>1. k < j => k \in 1..(j - 1)
      BY <1>1, <1>2
    <2> QED BY <1>1, <2>1
  <1> QED BY <1>1, <1>2, <1>3, <1>4

\* What fs_get_file has returned.
LEMMA Matched ==
  ASSUME archive \in Archives, FirstMatch
  PROVE  /\ found = NULL => Firsts(target) = {}
         /\ found # NULL => \E k \in Firsts(target) :
                              found = <<Position(k) + Block, archive[k].size>>
  <1>1. Len(archive) \in Nat
    BY LengthOf
  <1>2. PICK named : named = {k \in 1..Len(archive) : archive[k].name = target}
    OBVIOUS
  <1>3. \/ named = {} /\ found = NULL
        \/ \E k \in named : /\ \A j \in named : k <= j
                            /\ found = <<Position(k) + Block, archive[k].size>>
    BY <1>2 DEF FirstMatch
  <1>4. Firsts(target) \subseteq named
    BY <1>2 DEF Firsts
  <1>5. CASE named = {} /\ found = NULL
    BY <1>4, <1>5
  <1>6. CASE \E k \in named : /\ \A j \in named : k <= j
                              /\ found = <<Position(k) + Block, archive[k].size>>
    <2>1. PICK k \in named : /\ \A j \in named : k <= j
                             /\ found = <<Position(k) + Block, archive[k].size>>
      BY <1>6
    <2>2. ASSUME NEW j \in 1..(k - 1) PROVE archive[j].name # target
      <3>1. j \in 1..Len(archive) /\ ~ (k <= j)
        BY <1>1, <1>2
      <3> QED BY <1>2, <2>1, <3>1
    <2>3. k \in Firsts(target)
      BY <1>2, <2>2 DEF Firsts
    <2>4. found # NULL
      BY <2>1 DEF NULL
    <2> QED BY <2>1, <2>3, <2>4
  <1> QED BY <1>3, <1>5, <1>6

\* Where a byte of a file lies.
LEMMA LiesTyped ==
  ASSUME archive \in Archives, NEW k \in 1..Len(archive), NEW j \in Nat
  PROVE  \E a \in Nat : /\ a = RamdiskFrame * PageSize + (Position(k) + Block)
                        /\ Lies(k, j)[1] = (a + j) \div PageSize
                        /\ Lies(k, j)[2] = (a + j) % PageSize
                        /\ Lies(k, j)[1] \in Nat /\ Lies(k, j)[2] \in 0..(PageSize - 1)
  <1>1. PageSize \in Nat \ {0} /\ RamdiskFrame \in Nat /\ Block \in Nat
    BY BootAssumption, RamdiskAssumption
  <1>2. k \in 1..(Len(archive) + 1)
    BY LengthOf
  <1>3. PICK z \in Nat : z = Position(k)
    BY <1>2, Placing DEF Position
  <1>4. PICK x \in Nat : x = RamdiskFrame * PageSize
    BY <1>1
  <1>5. PICK a \in Nat : a = x + (z + Block)
    BY <1>1
  <1>6. x + z + Block + j = a + j /\ a + j \in Nat
    BY <1>1, <1>5
  <1>7. Lies(k, j) = <<(a + j) \div PageSize, (a + j) % PageSize>>
    BY <1>3, <1>4, <1>6 DEF Lies
  <1>8. (a + j) \div PageSize \in Nat /\ (a + j) % PageSize \in 0..(PageSize - 1)
    BY <1>1, <1>6, Divided
  <1> QED BY <1>3, <1>4, <1>5, <1>7, <1>8

\* The pages of a video that was found are those that the loop of _start maps.
LEMMA VideoSpan ==
  ASSUME archive \in Archives, machine.modules = 1, NEW k \in Firsts("video.bad"),
         found = <<Position(k) + Block, archive[k].size>>
  PROVE  /\ pages_needed \in Nat /\ VideoPages = {VideoPage + m : m \in 0..(pages_needed - 1)}
         /\ vid_phys \div PageSize = Lies(k, 0)[1]
  <1>1. k \in 1..Len(archive)
    BY DEF Firsts
  <1>2. PICK a \in Nat : /\ a = RamdiskFrame * PageSize + (Position(k) + Block)
                         /\ Lies(k, 0)[1] = (a + 0) \div PageSize
                         /\ Lies(k, 0)[2] = (a + 0) % PageSize
                         /\ Lies(k, 0)[2] \in 0..(PageSize - 1)
    BY <1>1, LiesTyped
  <1>3. PICK z \in Nat : z = archive[k].size
    BY <1>1, FileOf
  <1>4. PICK o \in Nat : o = Lies(k, 0)[2]
    BY <1>2, BootAssumption
  <1>5. a + 0 = a /\ vid_phys = a /\ found[2] = z
    BY <1>2, <1>3 DEF vid_phys
  <1>6. offset = o
    BY <1>2, <1>4, <1>5 DEF offset
  <1>7. pages_needed = (z + o + PageSize - 1) \div PageSize
    BY <1>5, <1>6 DEF pages_needed
  <1>8. PICK e \in Nat : e = o + z
    OBVIOUS
  <1>9. PICK S : S = {b \div PageSize : b \in 0..(e - 1)}
    OBVIOUS
  <1>10. PICK c : c = (e + PageSize - 1) \div PageSize
    OBVIOUS
  <1>11. c \in Nat /\ S = 0..(c - 1)
    BY <1>9, <1>10, BootAssumption, Spanned
  <1>12. pages_needed = c
    BY <1>7, <1>8, <1>10, BootAssumption
  <1>13. Firsts("video.bad") = {k}
    BY FirstOnly
  <1>14. VideoPages = {VideoPage + b \div PageSize : b \in 0..(e - 1)}
    <2>1. (IF machine.modules > 0 THEN Firsts("video.bad") ELSE {}) = {k}
      BY <1>13
    <2> QED BY <1>3, <1>4, <1>8, <2>1 DEF VideoPages
  <1>15. VideoPages = {VideoPage + m : m \in S}
    BY <1>9, <1>14
  <1> QED BY <1>2, <1>5, <1>11, <1>12, <1>15

LEMMA VideoFinite ==
  ASSUME archive \in Archives, machine \in Machines
  PROVE  IsFiniteSet(VideoPages) /\ VideoPages \subseteq Nat
  <1>1. PICK K : K = IF machine.modules > 0 THEN Firsts("video.bad") ELSE {}
    OBVIOUS
  <1>2. CASE K = {}
    <2>1. VideoPages = {}
      BY <1>1, <1>2 DEF VideoPages
    <2> QED BY <2>1, FS_EmptySet
  <1>3. CASE K # {}
    <2>1. PICK k \in Firsts("video.bad") : K = {k}
      BY <1>1, <1>3, FirstOnly
    <2>2. k \in 1..Len(archive)
      BY DEF Firsts
    <2>3. PICK o \in Nat : o = Lies(k, 0)[2]
      <3>1. Lies(k, 0)[2] \in 0..(PageSize - 1)
        BY <2>2, LiesTyped
      <3> QED BY <3>1, BootAssumption
    <2>4. PICK z \in Nat : z = archive[k].size
      BY <2>2, FileOf
    <2>5. PICK e \in Nat : e = o + z
      OBVIOUS
    <2>6. PICK f : f = [b \in 0..(e - 1) |-> VideoPage + b \div PageSize]
      OBVIOUS
    <2>7. VideoPages = {f[b] : b \in 0..(e - 1)}
      <3>1. VideoPages = {VideoPage + b \div PageSize : b \in 0..(e - 1)}
        <4>1. (IF machine.modules > 0 THEN Firsts("video.bad") ELSE {}) = {k}
          BY <1>1, <2>1
        <4> QED BY <2>3, <2>4, <2>5, <4>1 DEF VideoPages
      <3> QED BY <2>6, <3>1
    <2>8. \A b \in 0..(e - 1) : f[b] \in Nat
      <3> TAKE b \in 0..(e - 1)
      <3>1. b \in Nat /\ PageSize \in Nat \ {0} /\ VideoPage \in Nat
        BY BootAssumption
      <3>2. b \div PageSize \in Nat
        BY <3>1, Divided
      <3> QED BY <2>6, <3>1, <3>2
    <2>9. IsFiniteSet(0..(e - 1))
      BY FS_Interval
    <2>10. IsFiniteSet(VideoPages)
      BY <2>7, <2>9, Image
    <2> QED BY <2>7, <2>8, <2>10
  <1> QED BY <1>2, <1>3

\* The frames in use at any time are among those that are needed in the end.
LEMMA Enough ==
  ASSUME archive \in Archives, machine \in Machines,
         NEW O, O \subseteq OwnPages, NEW V, V \subseteq OwnPages \cup VideoPages,
         NEW T, T = UNION {TablesOf(v) : v \in V}
  PROVE  /\ IsFiniteSet(O) /\ IsFiniteSet(V) /\ IsFiniteSet(T)
         /\ Cardinality(O) \in Nat /\ Cardinality(T) \in Nat /\ Needed \in Nat
         /\ 1 + Cardinality(O) + Cardinality(T) <= Needed
  <1>1. IsFiniteSet(OwnPages) /\ IsFiniteSet(OwnPages \cup VideoPages)
    BY OwnFinite, VideoFinite, FS_Union
  <1>2. PICK U : U = UNION {TablesOf(v) : v \in OwnPages \cup VideoPages}
    OBVIOUS
  <1>3. IsFiniteSet(U)
    BY <1>1, <1>2, TablesFinite
  <1>4. T \subseteq U
    BY <1>2
  <1>5. IsFiniteSet(O) /\ Cardinality(O) <= Cardinality(OwnPages)
    BY <1>1, FS_Subset
  <1>6. IsFiniteSet(T) /\ Cardinality(T) <= Cardinality(U)
    BY <1>3, <1>4, FS_Subset
  <1>7. IsFiniteSet(V)
    BY <1>1, FS_Subset
  <1>8. /\ Cardinality(O) \in Nat /\ Cardinality(OwnPages) \in Nat
        /\ Cardinality(T) \in Nat /\ Cardinality(U) \in Nat
    BY <1>1, <1>3, <1>5, <1>6, FS_CardinalityType
  <1>9. Needed = 1 + Cardinality(OwnPages) + Cardinality(U)
    BY <1>2 DEF Needed
  <1> QED BY <1>5, <1>6, <1>7, <1>8, <1>9

-----------------------------------------------------------------------------
(* The steps of _start.                                                    *)

LEMMA Given ==
  ASSUME TypeOK, Walking
  PROVE  /\ archive \in Archives /\ machine \in Machines /\ machine.frames \in Nat
         /\ machine.modules \in {0, 1} /\ n \in Nat /\ frames \in Nat
  <1>1. machine \in Machines /\ archive \in Archives /\ n \in Nat /\ frames \in 0..machine.frames
    BY DEF TypeOK, Walking
  <1>2. machine \in [frames : Nat, modules : {0, 1}]
    BY <1>1, BootAssumption
  <1>3. machine.frames \in Nat /\ machine.modules \in {0, 1}
    BY <1>2
  <1> QED BY <1>1, <1>3

\* What the archive and the machine determine.
LEMMA Carried ==
  ASSUME UNCHANGED <<archive, machine>>
  PROVE  /\ Starts' = Starts /\ OwnPages' = OwnPages /\ VideoPages' = VideoPages
         /\ Needed' = Needed /\ Firsts("video.bad")' = Firsts("video.bad")
         /\ \A k : Lies(k, 0)' = Lies(k, 0)
  <1>1. Firsts("video.bad")' = Firsts("video.bad") /\ Firsts("init.kex")' = Firsts("init.kex")
    BY DEF Firsts
  <1>2. \A k : Lies(k, 0)' = Lies(k, 0)
    BY DEF Lies, Position
  <1>3. Starts' = Starts
    BY <1>1 DEF Starts
  <1>4. OwnPages' = OwnPages
    BY <1>3 DEF OwnPages
  <1>5. VideoPages' = VideoPages
    BY <1>1, <1>2 DEF VideoPages
  <1>6. Needed' = Needed
    BY <1>4, <1>5 DEF Needed
  <1> QED BY <1>1, <1>2, <1>3, <1>4, <1>5, <1>6

\* What fs_get_file returned for the video, and what it means for its pages.
LEMMA VideoHere ==
  ASSUME IInv, at = "video", pc = "idle"
  PROVE  /\ found = NULL => VideoPages = {} /\ Firsts("video.bad") = {}
         /\ found # NULL =>
              \E k \in Firsts("video.bad") :
                /\ Firsts("video.bad") = {k}
                /\ pages_needed \in Nat
                /\ VideoPages = {VideoPage + m : m \in 0..(pages_needed - 1)}
                /\ vid_phys \div PageSize = Lies(k, 0)[1] /\ Lies(k, 0)[1] \in Nat
  <1>1. archive \in Archives /\ machine.modules = 1
    BY DEF IInv, Walking, Stages
  <1>2. target = "video.bad" /\ FirstMatch
    BY DEF IInv, Stages, WalkFinds
  <1>3. CASE found = NULL
    <2>1. Firsts("video.bad") = {}
      BY <1>1, <1>2, <1>3, Matched
    <2> QED BY <1>3, <2>1 DEF VideoPages
  <1>4. CASE found # NULL
    <2>1. PICK k \in Firsts("video.bad") : found = <<Position(k) + Block, archive[k].size>>
      BY <1>1, <1>2, <1>4, Matched
    <2>2. /\ pages_needed \in Nat /\ VideoPages = {VideoPage + m : m \in 0..(pages_needed - 1)}
          /\ vid_phys \div PageSize = Lies(k, 0)[1]
      BY <1>1, <2>1, VideoSpan
    <2>3. Lies(k, 0)[1] \in Nat
      <3>1. k \in 1..Len(archive)
        BY DEF Firsts
      <3> QED BY <1>1, <3>1, LiesTyped
    <2>4. Firsts("video.bad") = {k}
      BY <1>1, <2>1, FirstOnly
    <2> QED BY <1>4, <2>2, <2>3, <2>4
  <1> QED BY <1>3, <1>4

\* Only pages that the boot will need are mapped.
LEMMA Within ==
  ASSUME IInv, at # "starved"
  PROVE  OwnDone \subseteq OwnPages /\ VideoDone \subseteq VideoPages
  <1>1. Range(HeapPages) \subseteq OwnPages
    BY DEF OwnPages
  <1>2. n \in Nat
    BY DEF IInv, TypeOK
  <1>3. OwnDone \subseteq OwnPages
    <2>1. CASE at \in Before
      BY <2>1 DEF OwnDone
    <2>2. CASE at = "heap"
      <3>1. n <= Len(HeapPages)
        BY <2>2 DEF IInv, Stages
      <3>2. {HeapPages[j] : j \in 1..n} \subseteq {HeapPages[j] : j \in 1..Len(HeapPages)}
        BY <1>2, <3>1, Lists
      <3>3. OwnDone = {HeapPages[j] : j \in 1..n}
        BY <2>2 DEF OwnDone, Before
      <3> QED BY <1>1, <3>2, <3>3, Lists
    <2>3. CASE at = "program"
      <3>1. n <= Len(Last) /\ Starts
        BY <2>3 DEF IInv, Stages
      <3>2. {Last[j] : j \in 1..n} \subseteq {Last[j] : j \in 1..Len(Last)}
        BY <1>2, <3>1, Lists
      <3>3. OwnDone = Range(HeapPages) \cup {Last[j] : j \in 1..n}
        BY <2>3 DEF OwnDone, Before
      <3>4. Range(Program) \cup {StackPage} \subseteq OwnPages
        BY <3>1 DEF OwnPages
      <3>5. Range(Program) \cup {StackPage} = {Last[j] : j \in 1..Len(Last)}
        BY Lists
      <3> QED BY <1>1, <3>2, <3>3, <3>4, <3>5
    <2>4. CASE at = "user"
      <3>1. Starts
        BY <2>4 DEF IInv, Stages
      <3> QED BY <2>4, <3>1 DEF OwnDone, OwnPages, Before
    <2>5. CASE at \notin Before \cup {"heap", "program", "user"}
      <3>1. OwnDone = Range(HeapPages)
        BY <2>5 DEF OwnDone
      <3> QED BY <1>1, <3>1
    <2> QED BY <2>1, <2>2, <2>3, <2>4, <2>5
  <1>4. VideoDone \subseteq VideoPages
    <2>1. CASE at = "video" /\ n # 0
      <3>1. pc = "idle" /\ found # NULL /\ n <= pages_needed
        BY <2>1 DEF IInv, Stages
      <3>2. pages_needed \in Nat /\ VideoPages = {VideoPage + m : m \in 0..(pages_needed - 1)}
        BY <2>1, <3>1, VideoHere
      <3>3. \A m \in 0..(n - 1) : m \in 0..(pages_needed - 1)
        BY <1>2, <3>1, <3>2
      <3>4. VideoDone = {VideoPage + m : m \in 0..(n - 1)}
        BY <2>1 DEF VideoDone, Before
      <3> QED BY <3>2, <3>3, <3>4
    <2>2. CASE at = "video" /\ n = 0
      <3>1. VideoDone = {VideoPage + m : m \in 0..(0 - 1)}
        BY <2>2 DEF VideoDone, Before
      <3> QED BY <3>1
    <2>3. CASE at # "video"
      BY <2>3 DEF VideoDone
    <2> QED BY <2>1, <2>2, <2>3
  <1> QED BY <1>3, <1>4

\* vmm_map_page finds the frames it needs, or the machine has too few.
LEMMA Mapping ==
  ASSUME IInv, at \notin Before \cup {"starved"}, UNCHANGED <<archive, machine>>,
         NEW v \in OwnPages \cup VideoPages, NEW f \in Nat \cup {Own},
         f = Own => v \in OwnPages /\ v \notin OwnDone,
         vmm_map_page(f, v)
  PROVE  /\ TypeOK'
         /\ \/ /\ at' = "starved" /\ n' = n
               /\ machine.frames < Needed
            \/ /\ at' = at /\ n' = n + 1
               /\ mapped' = [w \in DOMAIN mapped \cup {v} |-> IF w = v THEN f ELSE mapped[w]]
               /\ tables' = UNION {TablesOf(w) : w \in DOMAIN mapped'}
               /\ machine.frames =
                    frames' + 1 + Cardinality(IF f = Own THEN OwnDone \cup {v} ELSE OwnDone)
                      + Cardinality(tables')
  <1>1. /\ archive \in Archives /\ machine \in Machines /\ machine.frames \in Nat
        /\ n \in Nat /\ frames \in Nat
    BY Given DEF IInv
  <1>2. OwnDone \subseteq OwnPages /\ VideoDone \subseteq VideoPages
    BY Within
  <1>3. /\ DOMAIN mapped = OwnDone \cup VideoDone
        /\ tables = UNION {TablesOf(w) : w \in DOMAIN mapped}
        /\ machine.frames = frames + 1 + Cardinality(OwnDone) + Cardinality(tables)
    BY DEF IInv, Accounts
  <1>4. PICK V : V = DOMAIN mapped \cup {v}
    OBVIOUS
  <1>5. tables \cup TablesOf(v) = UNION {TablesOf(w) : w \in V}
    BY <1>3, <1>4
  <1>6. PICK O : O = IF f = Own THEN OwnDone \cup {v} ELSE OwnDone
    OBVIOUS
  <1>7. PICK one \in {0, 1} : one = IF f = Own THEN 1 ELSE 0
    OBVIOUS
  <1>8. IsFiniteSet(OwnDone) /\ IsFiniteSet(tables) /\ Cardinality(OwnDone) \in Nat
    <2>1. DOMAIN mapped \subseteq OwnPages \cup VideoPages
      BY <1>2, <1>3
    <2> QED BY <1>1, <1>2, <1>3, <2>1, Enough
  <1>9. Cardinality(O) = Cardinality(OwnDone) + one
    <2>1. CASE f = Own
      BY <1>6, <1>7, <1>8, <2>1, FS_AddElement
    <2>2. CASE f # Own
      BY <1>6, <1>7, <1>8, <2>2
    <2> QED BY <2>1, <2>2
  <1>10. PICK T : T = tables \cup TablesOf(v)
    OBVIOUS
  <1>11. /\ Taken(v, f) \in Nat /\ Cardinality(tables) \in Nat
         /\ Cardinality(T) + one = Cardinality(tables) + Taken(v, f)
    BY <1>7, <1>8, <1>10, Counting
  <1>12. /\ Cardinality(O) \in Nat /\ Cardinality(T) \in Nat /\ Needed \in Nat
         /\ 1 + Cardinality(O) + Cardinality(T) <= Needed
    <2>1. O \subseteq OwnPages
      BY <1>2, <1>6
    <2>2. V \subseteq OwnPages \cup VideoPages
      BY <1>2, <1>3, <1>4
    <2> QED BY <1>1, <1>5, <1>10, <2>1, <2>2, Enough
  <1>13. CASE Taken(v, f) > frames
    <2>1. at' = "starved" /\ UNCHANGED <<n, frames, tables, mapped>>
      BY <1>13 DEF vmm_map_page
    <2>2. machine.frames < Needed
      BY <1>1, <1>3, <1>8, <1>9, <1>11, <1>12, <1>13
    <2>3. TypeOK'
      BY <2>1 DEF IInv, TypeOK
    <2> QED BY <2>1, <2>2, <2>3
  <1>14. CASE ~ (Taken(v, f) > frames)
    <2>1. /\ frames' = frames - Taken(v, f) /\ tables' = T
          /\ mapped' = [w \in V |-> IF w = v THEN f ELSE mapped[w]]
          /\ n' = n + 1 /\ at' = at
      BY <1>4, <1>10, <1>14 DEF vmm_map_page
    <2>2. DOMAIN mapped' = V
      BY <2>1
    <2>3. machine.frames = frames' + 1 + Cardinality(O) + Cardinality(T)
      BY <1>1, <1>3, <1>8, <1>9, <1>11, <1>12, <2>1
    <2>4. v \in Nat
      BY <1>1, OwnFinite, VideoFinite
    <2>5. TypeOK'
      <3>1. frames' \in 0..machine.frames
        BY <1>1, <1>8, <1>11, <1>12, <1>14, <2>1, <2>3
      <3>2. \A t \in T : t[1] \in 1..3 /\ t[2] \in Nat
        BY <1>10, <2>4, TableTyped DEF IInv, TypeOK
      <3>3. \A w \in V : w \in Nat /\ mapped'[w] \in Nat \cup {Own}
        BY <1>4, <2>1, <2>4 DEF IInv, TypeOK
      <3>4. machine' \in Machines /\ n' \in Nat /\ at' = at
        BY <1>1, <2>1
      <3> QED BY <2>1, <2>2, <3>1, <3>2, <3>3, <3>4 DEF IInv, TypeOK
    <2> QED BY <1>4, <1>5, <1>6, <1>10, <2>1, <2>2, <2>3, <2>5
  <1> QED BY <1>13, <1>14

-----------------------------------------------------------------------------
(* The steps before and between the loops.                                 *)

Places == {"gdt", "idt", "vmm", "heap", "modules", "ramdisk", "listed", "video",
           "init.kex", "load", "program", "user", "halted", "starved"}

\* A step that maps nothing.
LEMMA Moving ==
  ASSUME IInv, UNCHANGED <<archive, machine, frames, tables, mapped>>, n' \in Nat,
         at # "starved", at' \in Places \ {"starved"}, at' \in Before <=> at \in Before,
         OwnDone' = OwnDone, VideoDone' = VideoDone
  PROVE  TypeOK' /\ Accounts' /\ Placed'
  <1>1. TypeOK'
    BY DEF IInv, TypeOK, Places
  <1>2. Accounts'
    BY DEF IInv, Accounts
  <1>3. Placed'
    <2>1. Firsts("video.bad")' = Firsts("video.bad") /\ \A k : Lies(k, 0)' = Lies(k, 0)
      BY Carried
    <2>2. \A k \in Firsts("video.bad"), v \in VideoDone :
            mapped[v] = Lies(k, 0)[1] + (v - VideoPage)
      BY DEF IInv, Placed
    <2> QED BY <2>1, <2>2 DEF Placed
  <1> QED BY <1>1, <1>2, <1>3

\* The tables of the processor are not touched once they are in use.
LEMMA StillDescribed ==
  ASSUME Described, UNCHANGED descriptors, at \notin {"gdt", "idt"}, at' \notin {"gdt", "idt"}
  PROVE  Described'
  <1>1. gdt' = gdt /\ idt' = idt /\ tss' = tss
    BY DEF descriptors
  <1>2. SegmentsSet /\ GatesSet
    BY DEF Described
  <1>3. SegmentsSet'
    BY <1>1, <1>2 DEF SegmentsSet
  <1>4. GatesSet'
    BY <1>1, <1>2 DEF GatesSet
  <1> QED BY <1>3, <1>4 DEF Described

LEMMA Initially == Init => IInv
  <1> SUFFICES ASSUME Init PROVE IInv
    OBVIOUS
  <1>1. /\ archive \in Archives /\ pc = "off" /\ header = 0 /\ DescriptorsInit
        /\ machine \in Machines /\ at = "gdt" /\ n = 0 /\ frames = machine.frames
        /\ tables = {} /\ mapped = [v \in {} |-> 0]
    BY DEF Init, RamdiskInit
  <1>2. Len(archive) \in Nat /\ Position(1) = 0
    BY <1>1, LengthOf, Placing DEF Position
  <1>3. Walking
    <2>1. 0 \in 0..Len(archive) /\ header = Position(0 + 1)
      BY <1>1, <1>2
    <2> QED BY <1>1, <2>1 DEF Walking
  <1>4. WalkFinds
    <2>1. 1 \in 1..End
      BY <1>2 DEF End
    <2> QED BY <1>1, <1>2, <2>1 DEF WalkFinds
  <1>5. Described
    BY <1>1 DEF Described
  <1>6. Stages
    BY <1>1 DEF Stages, Before
  <1>7. machine.frames \in Nat
    BY <1>1, BootAssumption
  <1>8. TypeOK
    BY <1>1, <1>7 DEF TypeOK
  <1>9. OwnDone = {} /\ VideoDone = {}
    BY <1>1 DEF OwnDone, VideoDone, Before
  <1>10. Accounts
    BY <1>1, <1>9 DEF Accounts, Before
  <1>11. Placed
    BY <1>9 DEF Placed
  <1> QED BY <1>3, <1>4, <1>5, <1>6, <1>8, <1>10, <1>11 DEF IInv

LEMMA SettingGdt ==
  ASSUME IInv, SetGdt
  PROVE  IInv'
  <1>1. /\ at = "gdt" /\ at' = "idt" /\ gdt_initialize /\ UNCHANGED ramdisk
        /\ UNCHANGED <<machine, n, frames, tables, mapped>>
    BY DEF SetGdt, Rest
  <1>2. archive' = archive /\ pc' = pc
    BY <1>1 DEF ramdisk
  <1>3. Walking' /\ WalkFinds'
    BY <1>1, Still DEF IInv
  <1>4. Described'
    <2>1. DescriptorsInit
      BY <1>1 DEF IInv, Described
    <2>2. SegmentsSet'
      BY <1>1, <2>1, SettingSegments
    <2> QED BY <1>1, <2>2 DEF Described
  <1>5. Stages'
    BY <1>1, <1>2 DEF IInv, Stages, Before
  <1>6. OwnDone' = OwnDone /\ VideoDone' = VideoDone
    BY <1>1 DEF OwnDone, VideoDone, Before
  <1>7. TypeOK' /\ Accounts' /\ Placed'
    <2>1. n' \in Nat
      BY <1>1 DEF IInv, TypeOK
    <2>2. at' \in Places \ {"starved"} /\ (at' \in Before <=> at \in Before)
      BY <1>1 DEF Places, Before
    <2> QED BY <1>1, <1>2, <1>6, <2>1, <2>2, Moving
  <1> QED BY <1>3, <1>4, <1>5, <1>7 DEF IInv

LEMMA SettingIdt ==
  ASSUME IInv, SetIdt
  PROVE  IInv'
  <1>1. /\ at = "idt" /\ at' = "vmm" /\ idt_initialize /\ UNCHANGED ramdisk
        /\ UNCHANGED <<machine, n, frames, tables, mapped>>
    BY DEF SetIdt, Rest
  <1>2. archive' = archive /\ pc' = pc
    BY <1>1 DEF ramdisk
  <1>3. Walking' /\ WalkFinds'
    BY <1>1, Still DEF IInv
  <1>4. Described'
    <2>1. SegmentsSet /\ gdt' = gdt /\ tss' = tss
      BY <1>1 DEF IInv, Described, idt_initialize
    <2>2. SegmentsSet'
      BY <2>1 DEF SegmentsSet
    <2>3. GatesSet'
      BY <1>1 DEF idt_initialize, GatesSet
    <2> QED BY <1>1, <2>2, <2>3 DEF Described
  <1>5. Stages'
    BY <1>1, <1>2 DEF IInv, Stages, Before
  <1>6. OwnDone' = OwnDone /\ VideoDone' = VideoDone
    BY <1>1 DEF OwnDone, VideoDone, Before
  <1>7. TypeOK' /\ Accounts' /\ Placed'
    <2>1. n' \in Nat
      BY <1>1 DEF IInv, TypeOK
    <2>2. at' \in Places \ {"starved"} /\ (at' \in Before <=> at \in Before)
      BY <1>1 DEF Places, Before
    <2> QED BY <1>1, <1>2, <1>6, <2>1, <2>2, Moving
  <1> QED BY <1>3, <1>4, <1>5, <1>7 DEF IInv

LEMMA Rooting ==
  ASSUME IInv, vmm_initialize
  PROVE  IInv'
  <1>1. /\ at = "vmm" /\ UNCHANGED ramdisk /\ UNCHANGED descriptors
        /\ UNCHANGED <<machine, n, tables, mapped>>
        /\ IF frames = 0 THEN at' = "starved" /\ frames' = frames
           ELSE at' = "heap" /\ frames' = frames - 1
    BY DEF vmm_initialize
  <1>2. archive' = archive /\ pc' = pc
    BY <1>1 DEF ramdisk
  <1>3. Walking' /\ WalkFinds'
    BY <1>1, Still DEF IInv
  <1>4. Described'
    BY <1>1, StillDescribed DEF IInv
  <1>5. /\ archive \in Archives /\ machine \in Machines /\ machine.frames \in Nat
        /\ n \in Nat /\ frames \in Nat
    BY Given DEF IInv
  <1>6. n = 0 /\ machine.frames = frames /\ DOMAIN mapped = {} /\ tables = {}
    <2>1. OwnDone = {} /\ VideoDone = {}
      BY <1>1 DEF OwnDone, VideoDone, Before
    <2> QED BY <1>1, <2>1 DEF IInv, Stages, Accounts, Before
  <1>7. Stages'
    <2>1. 0 <= Len(HeapPages)
      BY Lists
    <2> QED BY <1>1, <1>2, <1>6, <2>1 DEF IInv, Stages, Before
  <1>8. TypeOK'
    BY <1>1, <1>5, <1>6 DEF IInv, TypeOK
  <1>9. CASE frames = 0
    <2>1. 1 + Cardinality({}) + Cardinality({}) <= Needed /\ Needed \in Nat
      <3>1. /\ {} \subseteq OwnPages /\ {} \subseteq OwnPages \cup VideoPages
            /\ {} = UNION {TablesOf(v) : v \in {}}
        OBVIOUS
      <3> QED BY <1>5, <3>1, Enough
    <2>2. Cardinality({}) = 0
      BY FS_EmptySet
    <2>3. machine'.frames < Needed'
      <3>1. machine.frames < Needed
        BY <1>6, <1>9, <2>1, <2>2
      <3>2. Needed' = Needed
        BY <1>1, <1>2, Carried
      <3> QED BY <1>1, <3>1, <3>2
    <2>4. Accounts' /\ Placed'
      BY <1>1, <1>9, <2>3 DEF Accounts, Placed
    <2> QED BY <1>3, <1>4, <1>7, <1>8, <2>4 DEF IInv
  <1>10. CASE frames # 0
    <2>1. OwnDone' = {} /\ VideoDone' = {}
      <3>1. at' = "heap" /\ n' = 0
        BY <1>1, <1>6, <1>10
      <3>2. OwnDone' = {HeapPages[j] : j \in 1..0}
        BY <3>1 DEF OwnDone, Before
      <3> QED BY <3>1, <3>2 DEF VideoDone
    <2>2. Cardinality({}) = 0
      BY FS_EmptySet
    <2>3. Accounts'
      BY <1>1, <1>5, <1>6, <1>10, <2>1, <2>2 DEF Accounts, Before
    <2>4. Placed'
      BY <2>1 DEF Placed
    <2> QED BY <1>3, <1>4, <1>7, <1>8, <2>3, <2>4 DEF IInv
  <1> QED BY <1>9, <1>10

LEMMA WithoutModules ==
  ASSUME IInv, NoModules
  PROVE  IInv'
  <1>1. /\ at = "modules" /\ at' = "halted" /\ machine.modules = 0
        /\ UNCHANGED ramdisk /\ UNCHANGED descriptors
        /\ UNCHANGED <<machine, n, frames, tables, mapped>>
    BY DEF NoModules, Rest
  <1>2. archive' = archive /\ pc' = pc /\ n \in Nat
    BY <1>1 DEF ramdisk, IInv, TypeOK
  <1>3. Walking' /\ WalkFinds'
    BY <1>1, Still DEF IInv
  <1>4. Described'
    BY <1>1, StillDescribed DEF IInv
  <1>5. Stages'
    <2>1. ~ Starts' /\ n' = 0
      BY <1>1, <1>2 DEF Starts, IInv, Stages
    <2> QED BY <1>1, <1>2, <2>1 DEF Stages, Before
  <1>6. OwnDone' = OwnDone /\ VideoDone' = VideoDone
    <2>1. VideoPages' = {}
      BY <1>1, <1>2 DEF VideoPages
    <2> QED BY <1>1, <2>1 DEF OwnDone, VideoDone, Before
  <1>7. TypeOK' /\ Accounts' /\ Placed'
    <2>1. at' \in Places \ {"starved"} /\ (at' \in Before <=> at \in Before)
      BY <1>1 DEF Places, Before
    <2> QED BY <1>1, <1>2, <1>6, <2>1, Moving
  <1> QED BY <1>3, <1>4, <1>5, <1>7 DEF IInv

\* A walk is begun; what is mapped stays the same.
LEMMA WalkBegun ==
  ASSUME IInv, NEW o, NEW name, Start(o, name), UNCHANGED <<descriptors, Rest>>,
         at \in {"modules", "ramdisk", "listed", "init.kex"}, machine.modules = 1,
         \/ at = "modules" /\ at' = "ramdisk"
         \/ at = "ramdisk" /\ at' = "listed"
         \/ at \in {"ramdisk", "listed"} /\ at' = "video" /\ o = "fs_get_file" /\ name = "video.bad"
         \/ at = "init.kex" /\ at' = "load" /\ o = "fs_get_file" /\ name = "init.kex"
  PROVE  IInv'
  <1>1. /\ UNCHANGED <<machine, n, frames, tables, mapped>> /\ UNCHANGED descriptors
        /\ archive' = archive /\ pc' = "walk" /\ op' = o /\ target' = name
    BY DEF Rest, Start
  <1>2. n = 0 /\ n' = 0
    BY <1>1 DEF IInv, Stages
  <1>3. Walking' /\ WalkFinds'
    BY Starting DEF IInv
  <1>4. Described'
    BY <1>1, StillDescribed DEF IInv
  <1>5. Stages'
    BY <1>1, <1>2 DEF Stages, Before
  <1>6. OwnDone' = OwnDone /\ VideoDone' = VideoDone
    <2>1. OwnDone' = OwnDone
      BY DEF OwnDone, Before
    <2>2. VideoPages' = VideoPages
      BY <1>1, Carried
    <2>3. CASE at' = "video"
      <3>1. VideoDone' = {VideoPage + m : m \in 0..(0 - 1)} /\ VideoDone = {}
        BY <1>2, <2>3 DEF VideoDone, Before
      <3> QED BY <2>1, <3>1
    <2>4. CASE at' # "video"
      BY <2>1, <2>2, <2>4 DEF VideoDone, Before
    <2> QED BY <2>3, <2>4
  <1>7. TypeOK' /\ Accounts' /\ Placed'
    <2>1. at # "starved" /\ at' \in Places \ {"starved"} /\ (at' \in Before <=> at \in Before)
      BY DEF Places, Before
    <2> QED BY <1>1, <1>2, <1>6, <2>1, Moving
  <1> QED BY <1>3, <1>4, <1>5, <1>7 DEF IInv

LEMMA WalksBegun ==
  ASSUME IInv, FirstWalk \/ Cat \/ FindVideo \/ FindProgram
  PROVE  IInv'
  <1>1. CASE FirstWalk
    <2>1. /\ at = "modules" /\ at' = "ramdisk" /\ Start("fs_init", NoName)
          /\ UNCHANGED <<descriptors, Rest>>
      BY <1>1 DEF FirstWalk, WalkFor, fs_init
    <2>2. machine.modules = 1
      BY <1>1, Given DEF IInv, FirstWalk
    <2> QED BY <2>1, <2>2, WalkBegun
  <1>2. CASE Cat
    <2>1. /\ at = "ramdisk" /\ at' = "listed" /\ UNCHANGED <<descriptors, Rest>>
          /\ \E name \in Names : Start("fs_cat", name)
      BY <1>2 DEF Cat, WalkFor, fs_cat
    <2>2. machine.modules = 1
      BY <2>1 DEF IInv, Stages
    <2> QED BY <2>1, <2>2, WalkBegun
  <1>3. CASE FindVideo
    <2>1. /\ at \in {"ramdisk", "listed"} /\ at' = "video" /\ Start("fs_get_file", "video.bad")
          /\ UNCHANGED <<descriptors, Rest>>
      BY <1>3 DEF FindVideo, WalkFor
    <2>2. machine.modules = 1
      BY <2>1 DEF IInv, Stages
    <2> QED BY <2>1, <2>2, WalkBegun
  <1>4. CASE FindProgram
    <2>1. /\ at = "init.kex" /\ at' = "load" /\ Start("fs_get_file", "init.kex")
          /\ UNCHANGED <<descriptors, Rest>>
      BY <1>4 DEF FindProgram, WalkFor
    <2>2. machine.modules = 1
      BY <2>1 DEF IInv, Stages
    <2> QED BY <2>1, <2>2, WalkBegun
  <1> QED BY <1>1, <1>2, <1>3, <1>4

\* The file that fs_get_file returned decides whether ring 3 is entered.
LEMMA ProgramKnown ==
  ASSUME IInv, at = "load", pc = "idle"
  PROVE  Starts <=> found # NULL /\ ProgramFile.kex
  <1>1. archive \in Archives /\ machine.modules = 1 /\ target = "init.kex" /\ FirstMatch
    BY DEF IInv, Walking, Stages, WalkFinds
  <1>2. CASE found = NULL
    <2>1. Firsts("init.kex") = {}
      BY <1>1, <1>2, Matched
    <2> QED BY <1>2, <2>1 DEF Starts
  <1>3. CASE found # NULL
    <2>1. PICK k \in Firsts("init.kex") : found = <<Position(k) + Block, archive[k].size>>
      BY <1>1, <1>3, Matched
    <2>2. k \in 1..Len(archive) /\ found[1] = Position(k) + Block
      BY <2>1 DEF Firsts
    <2>3. ASSUME NEW j \in 1..Len(archive), Position(j) + Block = found[1]
          PROVE  j = k
      <3>1. j \in 1..(Len(archive) + 1) /\ k \in 1..(Len(archive) + 1)
        BY <1>1, <2>2, LengthOf
      <3>2. Positions(archive)[j] \in Nat /\ Positions(archive)[k] \in Nat /\ Block \in Nat
        BY <1>1, <3>1, Placing, RamdiskAssumption
      <3>3. Positions(archive)[j] = Positions(archive)[k]
        BY <2>2, <2>3, <3>2 DEF Position
      <3> QED BY <1>1, <3>1, <3>3, Distinct
    <2>4. ProgramFile = archive[k]
      BY <2>2, <2>3 DEF ProgramFile
    <2>5. Firsts("init.kex") = {k}
      BY <1>1, <2>1, FirstOnly
    <2>6. Starts <=> archive[k].kex
      BY <1>1, <2>5 DEF Starts
    <2> QED BY <1>3, <2>4, <2>6
  <1> QED BY <1>2, <1>3

LEMMA Loading ==
  ASSUME IInv, NoProgram \/ Load
  PROVE  IInv'
  <1>1. /\ at = "load" /\ pc = "idle" /\ UNCHANGED ramdisk /\ UNCHANGED descriptors
        /\ UNCHANGED <<machine, n, frames, tables, mapped>>
        /\ \/ at' = "halted" /\ ~ (found # NULL /\ ProgramFile.kex)
           \/ at' = "program" /\ found # NULL /\ ProgramFile.kex
    BY DEF NoProgram, Load, Rest
  <1>2. archive' = archive /\ pc' = pc
    BY <1>1 DEF ramdisk
  <1>3. n = 0 /\ n' = 0 /\ machine.modules = 1
    BY <1>1 DEF IInv, Stages
  <1>4. Starts' = Starts /\ VideoPages' = VideoPages
    BY <1>1, <1>2, Carried
  <1>5. IF Starts THEN at' = "program" ELSE at' = "halted"
    BY <1>1, ProgramKnown
  <1>6. Walking' /\ WalkFinds'
    BY <1>1, Still DEF IInv
  <1>7. Described'
    BY <1>1, StillDescribed DEF IInv
  <1>8. Stages'
    <2>1. 0 <= Len(Last)
      BY Lists
    <2> QED BY <1>1, <1>2, <1>3, <1>4, <1>5, <2>1 DEF Stages, Before
  <1>9. OwnDone' = OwnDone /\ VideoDone' = VideoDone
    <2>1. VideoDone' = VideoDone
      BY <1>1, <1>4 DEF VideoDone, Before
    <2>2. OwnDone = Range(HeapPages)
      BY <1>1 DEF OwnDone, Before
    <2>3. OwnDone' = Range(HeapPages)
      <3>1. at' = "program" => OwnDone' = Range(HeapPages) \cup {Last[j] : j \in 1..0}
        BY <1>3 DEF OwnDone, Before
      <3>2. at' = "halted" => OwnDone' = Range(HeapPages)
        BY DEF OwnDone, Before
      <3> QED BY <1>1, <3>1, <3>2
    <2> QED BY <2>1, <2>2, <2>3
  <1>10. TypeOK' /\ Accounts' /\ Placed'
    <2>1. at # "starved" /\ at' \in Places \ {"starved"} /\ (at' \in Before <=> at \in Before)
      BY <1>1 DEF Places, Before
    <2> QED BY <1>1, <1>2, <1>3, <1>9, <2>1, Moving
  <1> QED BY <1>6, <1>7, <1>8, <1>10 DEF IInv

-----------------------------------------------------------------------------
(* The loops.                                                              *)

\* The boot stops for lack of a frame.
LEMMA Starving ==
  ASSUME IInv, UNCHANGED <<ramdisk, descriptors, machine, n>>, at \notin Before \cup {"starved"},
         at' = "starved", machine.frames < Needed, TypeOK'
  PROVE  IInv'
  <1>1. UNCHANGED ramdisk /\ UNCHANGED descriptors /\ machine' = machine /\ n' = n
    OBVIOUS
  <1>2. archive' = archive /\ pc' = pc
    BY <1>1 DEF ramdisk
  <1>3. Walking' /\ WalkFinds'
    BY <1>1, Still DEF IInv
  <1>4. Described'
    BY <1>1, StillDescribed DEF IInv, Before
  <1>5. Stages'
    BY DEF Stages, Before
  <1>6. Accounts'
    <2>1. Needed' = Needed
      BY <1>1, <1>2, Carried
    <2> QED BY <1>1, <2>1 DEF Accounts
  <1>7. Placed'
    BY DEF Placed
  <1> QED BY <1>3, <1>4, <1>5, <1>6, <1>7 DEF IInv

LEMMA HeapMapped ==
  ASSUME IInv, MapHeap
  PROVE  IInv'
  <1>1. /\ at = "heap" /\ UNCHANGED ramdisk /\ UNCHANGED descriptors /\ machine' = machine
        /\ IF n < Len(HeapPages) THEN vmm_map_page(Own, HeapPages[n + 1]) ELSE GoOn("modules")
    BY DEF MapHeap, MapOwn
  <1>2. archive' = archive /\ pc' = pc /\ pc = "off"
    BY <1>1 DEF ramdisk, IInv, Stages
  <1>3. n \in Nat /\ n <= Len(HeapPages) /\ Len(HeapPages) \in Nat
    BY <1>1, Lists DEF IInv, TypeOK, Stages
  <1>4. Walking' /\ WalkFinds'
    BY <1>1, Still DEF IInv
  <1>5. OwnDone = {HeapPages[j] : j \in 1..n} /\ VideoDone = {}
    BY <1>1 DEF OwnDone, VideoDone, Before
  <1>6. CASE n < Len(HeapPages)
    <2>1. PICK k \in 1..Len(HeapPages) : k = n + 1
      BY <1>3, <1>6
    <2>2. PICK v : v = HeapPages[k]
      OBVIOUS
    <2>3. v \in OwnPages /\ v \notin OwnDone
      <3>1. v \in Range(HeapPages)
        BY <2>2, Lists
      <3>2. \A j \in 1..n : j \in 1..Len(HeapPages) /\ j # k
        BY <1>3, <2>1
      <3>3. \A j \in 1..n : HeapPages[j] # v
        BY <2>2, <3>2, Lists
      <3> QED BY <1>5, <3>1, <3>3 DEF OwnPages
    <2>4. vmm_map_page(Own, v)
      BY <1>1, <1>6, <2>1, <2>2
    <2>5. at \notin Before \cup {"starved"}
      BY <1>1 DEF Before
    <2>6. /\ TypeOK'
          /\ \/ /\ at' = "starved" /\ n' = n
                /\ machine.frames < Needed
             \/ /\ at' = at /\ n' = n + 1
                /\ mapped' = [w \in DOMAIN mapped \cup {v} |-> IF w = v THEN Own ELSE mapped[w]]
                /\ tables' = UNION {TablesOf(w) : w \in DOMAIN mapped'}
                /\ machine.frames =
                     frames' + 1 + Cardinality(OwnDone \cup {v}) + Cardinality(tables')
      BY <1>1, <1>2, <2>3, <2>4, <2>5, Mapping
    <2>7. CASE at' = "starved" /\ n' = n /\ machine.frames < Needed
      BY <1>1, <2>5, <2>6, <2>7, Starving
    <2>8. CASE /\ at' = at /\ n' = n + 1
               /\ mapped' = [w \in DOMAIN mapped \cup {v} |-> IF w = v THEN Own ELSE mapped[w]]
               /\ tables' = UNION {TablesOf(w) : w \in DOMAIN mapped'}
               /\ machine.frames =
                    frames' + 1 + Cardinality(OwnDone \cup {v}) + Cardinality(tables')
      <3>1. Described'
        BY <1>1, <2>8, StillDescribed DEF IInv
      <3>2. Stages'
        BY <1>1, <1>2, <1>3, <1>6, <2>8 DEF Stages, Before
      <3>3. OwnDone' = OwnDone \cup {v} /\ VideoDone' = {}
        <4>1. OwnDone' = {HeapPages[j] : j \in 1..(n + 1)} /\ VideoDone' = {}
          BY <1>1, <2>8 DEF OwnDone, VideoDone, Before
        <4>2. 1..(n + 1) = (1..n) \cup {k}
          BY <1>3, <2>1
        <4> QED BY <1>5, <2>2, <4>1, <4>2
      <3>4. DOMAIN mapped = OwnDone
        BY <1>1, <1>5 DEF IInv, Accounts
      <3>5. Accounts'
        BY <1>1, <2>8, <3>3, <3>4 DEF Accounts, Before
      <3>6. Placed'
        BY <3>3 DEF Placed
      <3> QED BY <1>4, <2>6, <3>1, <3>2, <3>5, <3>6 DEF IInv
    <2> QED BY <2>6, <2>7, <2>8
  <1>7. CASE ~ (n < Len(HeapPages))
    <2>1. /\ at' = "modules" /\ n' = 0 /\ n = Len(HeapPages)
          /\ UNCHANGED <<frames, tables, mapped>>
      BY <1>1, <1>3, <1>7 DEF GoOn
    <2>2. Described'
      BY <1>1, <2>1, StillDescribed DEF IInv
    <2>3. Stages'
      BY <1>2, <2>1 DEF Stages, Before
    <2>4. OwnDone' = OwnDone /\ VideoDone' = VideoDone
      <3>1. OwnDone' = Range(HeapPages) /\ VideoDone' = {}
        BY <2>1 DEF OwnDone, VideoDone, Before
      <3> QED BY <1>5, <2>1, <3>1, Lists
    <2>5. TypeOK' /\ Accounts' /\ Placed'
      <3>1. at # "starved" /\ at' \in Places \ {"starved"} /\ (at' \in Before <=> at \in Before)
        BY <1>1, <2>1 DEF Places, Before
      <3> QED BY <1>1, <1>2, <2>1, <2>4, <3>1, Moving
    <2> QED BY <1>4, <2>2, <2>3, <2>5 DEF IInv
  <1> QED BY <1>6, <1>7

\* The program is mapped below the video.
LEMMA VideoAbove ==
  ASSUME archive \in Archives
  PROVE  \A v \in VideoPages : v \in Nat /\ v >= VideoPage
  <1> SUFFICES ASSUME NEW v \in VideoPages PROVE v \in Nat /\ v >= VideoPage
    OBVIOUS
  <1>1. PICK k \in Firsts("video.bad") :
          \E a \in 0..(Lies(k, 0)[2] + archive[k].size - 1) : v = VideoPage + a \div PageSize
    BY DEF VideoPages
  <1>2. k \in 1..Len(archive)
    BY DEF Firsts
  <1>3. PICK e \in Int : e = Lies(k, 0)[2] + archive[k].size - 1
    <2>1. Lies(k, 0)[2] \in 0..(PageSize - 1) /\ PageSize \in Nat /\ archive[k].size \in Nat
      BY <1>2, LiesTyped, FileOf, BootAssumption
    <2> QED BY <2>1
  <1>4. PICK a \in 0..e : v = VideoPage + a \div PageSize
    BY <1>1, <1>3
  <1>5. a \in Nat /\ PageSize \in Nat \ {0} /\ VideoPage \in Nat
    BY <1>3, BootAssumption
  <1>6. a \div PageSize \in Nat
    BY <1>5, Divided
  <1> QED BY <1>4, <1>5, <1>6

LEMMA ProgramMapped ==
  ASSUME IInv, MapProgram
  PROVE  IInv'
  <1>1. /\ at = "program" /\ UNCHANGED ramdisk /\ UNCHANGED descriptors /\ machine' = machine
        /\ IF n < Len(Last) THEN vmm_map_page(Own, Last[n + 1]) ELSE GoOn("user")
    BY DEF MapProgram, MapOwn, Last
  <1>2. /\ archive' = archive /\ pc' = pc /\ pc # "off" /\ machine.modules = 1 /\ Starts
        /\ archive \in Archives
    BY <1>1 DEF ramdisk, IInv, Stages, Walking
  <1>3. n \in Nat /\ n <= Len(Last) /\ Len(Last) \in Nat
    BY <1>1, Lists DEF IInv, TypeOK, Stages
  <1>4. Walking' /\ WalkFinds'
    BY <1>1, Still DEF IInv
  <1>5. /\ OwnDone = Range(HeapPages) \cup {Last[j] : j \in 1..n}
        /\ VideoDone = VideoPages
    BY <1>1 DEF OwnDone, VideoDone, Before
  <1>6. /\ Starts' /\ VideoPages' = VideoPages /\ Firsts("video.bad")' = Firsts("video.bad")
        /\ \A k : Lies(k, 0)' = Lies(k, 0)
    BY <1>1, <1>2, Carried
  <1>7. CASE n < Len(Last)
    <2>1. PICK k \in 1..Len(Last) : k = n + 1
      BY <1>3, <1>7
    <2>2. PICK v : v = Last[k]
      OBVIOUS
    <2>3. v \in OwnPages /\ v \notin OwnDone
      <3>1. v \in Range(Program) \cup {StackPage}
        BY <2>2, Lists
      <3>2. \A j \in 1..n : j \in 1..Len(Last) /\ j # k
        BY <1>3, <2>1
      <3>3. \A j \in 1..n : Last[j] # v
        BY <2>2, <3>2, Lists
      <3>4. v \notin Range(HeapPages)
        BY <2>2, Lists
      <3>5. Range(Program) \cup {StackPage} \subseteq OwnPages
        BY <1>2 DEF OwnPages
      <3> QED BY <1>5, <3>1, <3>3, <3>4, <3>5
    <2>4. vmm_map_page(Own, v)
      BY <1>1, <1>7, <2>1, <2>2
    <2>5. at \notin Before \cup {"starved"}
      BY <1>1 DEF Before
    <2>6. /\ TypeOK'
          /\ \/ /\ at' = "starved" /\ n' = n
                /\ machine.frames < Needed
             \/ /\ at' = at /\ n' = n + 1
                /\ mapped' = [w \in DOMAIN mapped \cup {v} |-> IF w = v THEN Own ELSE mapped[w]]
                /\ tables' = UNION {TablesOf(w) : w \in DOMAIN mapped'}
                /\ machine.frames =
                     frames' + 1 + Cardinality(OwnDone \cup {v}) + Cardinality(tables')
      BY <1>1, <1>2, <2>3, <2>4, <2>5, Mapping
    <2>7. CASE at' = "starved" /\ n' = n /\ machine.frames < Needed
      BY <1>1, <2>5, <2>6, <2>7, Starving
    <2>8. CASE /\ at' = at /\ n' = n + 1
               /\ mapped' = [w \in DOMAIN mapped \cup {v} |-> IF w = v THEN Own ELSE mapped[w]]
               /\ tables' = UNION {TablesOf(w) : w \in DOMAIN mapped'}
               /\ machine.frames =
                    frames' + 1 + Cardinality(OwnDone \cup {v}) + Cardinality(tables')
      <3>1. Described'
        BY <1>1, <2>8, StillDescribed DEF IInv
      <3>2. Stages'
        BY <1>1, <1>2, <1>3, <1>6, <1>7, <2>8 DEF Stages, Before
      <3>3. OwnDone' = OwnDone \cup {v} /\ VideoDone' = VideoDone
        <4>1. /\ OwnDone' = Range(HeapPages) \cup {Last[j] : j \in 1..(n + 1)}
              /\ VideoDone' = VideoPages
          BY <1>1, <1>6, <2>8 DEF OwnDone, VideoDone, Before
        <4>2. 1..(n + 1) = (1..n) \cup {k}
          BY <1>3, <2>1
        <4> QED BY <1>5, <2>2, <4>1, <4>2
      <3>4. DOMAIN mapped = OwnDone \cup VideoDone
        BY <1>1 DEF IInv, Accounts
      <3>5. DOMAIN mapped' = OwnDone' \cup VideoDone'
        BY <2>8, <3>3, <3>4
      <3>6. Accounts'
        BY <1>1, <2>8, <3>3, <3>5 DEF Accounts, Before
      <3>7. Placed'
        <4>1. v \notin VideoDone
          <5>1. v \in Nat /\ v < VideoPage /\ VideoPage \in Nat
            BY <2>2, Lists, BootAssumption
          <5> QED BY <1>2, <1>5, <5>1, VideoAbove
        <4>2. \A w \in VideoDone : mapped'[w] = mapped[w]
          BY <2>8, <3>4, <4>1
        <4>3. \A j \in Firsts("video.bad"), w \in VideoDone :
                mapped[w] = Lies(j, 0)[1] + (w - VideoPage)
          BY <1>1 DEF IInv, Placed
        <4> QED BY <1>6, <3>3, <4>2, <4>3 DEF Placed
      <3> QED BY <1>4, <2>6, <3>1, <3>2, <3>6, <3>7 DEF IInv
    <2> QED BY <2>6, <2>7, <2>8
  <1>8. CASE ~ (n < Len(Last))
    <2>1. /\ at' = "user" /\ n' = 0 /\ n = Len(Last)
          /\ UNCHANGED <<frames, tables, mapped>>
      BY <1>1, <1>3, <1>8 DEF GoOn
    <2>2. Described'
      BY <1>1, <2>1, StillDescribed DEF IInv
    <2>3. Stages'
      BY <1>1, <1>2, <1>6, <2>1 DEF Stages, Before
    <2>4. OwnDone' = OwnDone /\ VideoDone' = VideoDone
      <3>1. /\ OwnDone' = Range(HeapPages) \cup (Range(Program) \cup {StackPage})
            /\ VideoDone' = VideoPages
        BY <1>6, <2>1 DEF OwnDone, VideoDone, Before
      <3> QED BY <1>5, <2>1, <3>1, Lists
    <2>5. TypeOK' /\ Accounts' /\ Placed'
      <3>1. at # "starved" /\ at' \in Places \ {"starved"} /\ (at' \in Before <=> at \in Before)
        BY <1>1, <2>1 DEF Places, Before
      <3> QED BY <1>1, <1>2, <2>1, <2>4, <3>1, Moving
    <2> QED BY <1>4, <2>2, <2>3, <2>5 DEF IInv
  <1> QED BY <1>7, <1>8

LEMMA VideoMapped ==
  ASSUME IInv, MapVideo
  PROVE  IInv'
  <1>1. /\ at = "video" /\ pc = "idle"
        /\ UNCHANGED ramdisk /\ UNCHANGED descriptors /\ machine' = machine
        /\ IF found # NULL /\ n < pages_needed
             THEN vmm_map_page(vid_phys \div PageSize + n, VideoPage + n)
             ELSE GoOn("init.kex")
    BY DEF MapVideo
  <1>2. /\ archive' = archive /\ pc' = pc /\ found' = found /\ op' = op /\ target' = target
        /\ machine.modules = 1
    BY <1>1 DEF ramdisk, IInv, Stages
  <1>3. n \in Nat /\ VideoPage \in Nat
    BY BootAssumption DEF IInv, TypeOK
  <1>4. Walking' /\ WalkFinds'
    BY <1>1, Still DEF IInv
  <1>5. /\ OwnDone = Range(HeapPages) /\ VideoDone = {VideoPage + m : m \in 0..(n - 1)}
    BY <1>1 DEF OwnDone, VideoDone, Before
  <1>6. CASE found # NULL /\ n < pages_needed
    <2>1. PICK k \in Firsts("video.bad") :
            /\ Firsts("video.bad") = {k}
            /\ pages_needed \in Nat
            /\ VideoPages = {VideoPage + m : m \in 0..(pages_needed - 1)}
            /\ vid_phys \div PageSize = Lies(k, 0)[1] /\ Lies(k, 0)[1] \in Nat
      BY <1>1, <1>6, VideoHere
    <2>2. PICK v \in Nat, f \in Nat : v = VideoPage + n /\ f = Lies(k, 0)[1] + n
      <3>1. PICK x \in Nat : x = Lies(k, 0)[1]
        BY <2>1
      <3>2. VideoPage + n \in Nat /\ x + n \in Nat
        BY <1>3
      <3> QED BY <3>1, <3>2
    <2>3. v \in VideoPages
      <3>1. n \in 0..(pages_needed - 1)
        BY <1>3, <1>6, <2>1
      <3> QED BY <2>1, <2>2, <3>1
    <2>4. vmm_map_page(f, v) /\ f # Own
      BY <1>1, <1>6, <2>1, <2>2 DEF Own
    <2>5. at \notin Before \cup {"starved"}
      BY <1>1 DEF Before
    <2>6. /\ TypeOK'
          /\ \/ /\ at' = "starved" /\ n' = n
                /\ machine.frames < Needed
             \/ /\ at' = at /\ n' = n + 1
                /\ mapped' = [w \in DOMAIN mapped \cup {v} |-> IF w = v THEN f ELSE mapped[w]]
                /\ tables' = UNION {TablesOf(w) : w \in DOMAIN mapped'}
                /\ machine.frames = frames' + 1 + Cardinality(OwnDone) + Cardinality(tables')
      <3>1. UNCHANGED <<archive, machine>> /\ v \in OwnPages \cup VideoPages /\ f \in Nat \cup {Own}
        BY <1>1, <1>2, <2>2, <2>3
      <3>2. PICK O : O = IF f = Own THEN OwnDone \cup {v} ELSE OwnDone
        OBVIOUS
      <3>3. O = OwnDone
        BY <2>4, <3>2
      <3>4. /\ TypeOK'
            /\ \/ /\ at' = "starved" /\ n' = n
                  /\ machine.frames < Needed
               \/ /\ at' = at /\ n' = n + 1
                  /\ mapped' = [w \in DOMAIN mapped \cup {v} |-> IF w = v THEN f ELSE mapped[w]]
                  /\ tables' = UNION {TablesOf(w) : w \in DOMAIN mapped'}
                  /\ machine.frames = frames' + 1 + Cardinality(O) + Cardinality(tables')
        BY <2>4, <2>5, <3>1, <3>2, Mapping
      <3> QED BY <3>3, <3>4
    <2>7. CASE at' = "starved" /\ n' = n /\ machine.frames < Needed
      BY <1>1, <2>5, <2>6, <2>7, Starving
    <2>8. CASE /\ at' = at /\ n' = n + 1
               /\ mapped' = [w \in DOMAIN mapped \cup {v} |-> IF w = v THEN f ELSE mapped[w]]
               /\ tables' = UNION {TablesOf(w) : w \in DOMAIN mapped'}
               /\ machine.frames = frames' + 1 + Cardinality(OwnDone) + Cardinality(tables')
      <3>1. Described'
        BY <1>1, <2>8, StillDescribed DEF IInv
      <3>2. pages_needed' = pages_needed
        BY <1>2 DEF pages_needed, offset, vid_phys
      <3>3. n + 1 <= pages_needed
        BY <1>3, <1>6, <2>1
      <3>4. Stages'
        BY <1>1, <1>2, <1>6, <2>8, <3>2, <3>3 DEF IInv, Stages, Before
      <3>5. OwnDone' = OwnDone /\ VideoDone' = VideoDone \cup {v}
        <4>1. OwnDone' = Range(HeapPages) /\ VideoDone' = {VideoPage + m : m \in 0..(n' - 1)}
          BY <1>1, <2>8 DEF OwnDone, VideoDone, Before
        <4>2. 0..(n' - 1) = (0..(n - 1)) \cup {n}
          BY <1>3, <2>8
        <4> QED BY <1>5, <2>2, <4>1, <4>2
      <3>6. DOMAIN mapped = OwnDone \cup VideoDone
        BY <1>1 DEF IInv, Accounts
      <3>7. DOMAIN mapped' = OwnDone' \cup VideoDone'
        BY <2>8, <3>5, <3>6
      <3>8. Accounts'
        BY <1>1, <2>8, <3>5, <3>7 DEF Accounts, Before
      <3>9. Placed'
        <4>1. Firsts("video.bad")' = {k} /\ Lies(k, 0)' = Lies(k, 0)
          BY <1>1, <1>2, <2>1, Carried
        <4>2. \A w \in VideoDone : mapped[w] = Lies(k, 0)[1] + (w - VideoPage)
          BY <1>1 DEF IInv, Placed
        <4>3. ASSUME NEW w \in VideoDone \cup {v}
              PROVE  mapped'[w] = Lies(k, 0)[1] + (w - VideoPage)
          <5>1. CASE w = v
            <6>1. w - VideoPage = n
              BY <1>3, <2>2, <5>1
            <6> QED BY <2>2, <2>8, <5>1, <6>1
          <5>2. CASE w # v
            BY <2>8, <3>6, <4>2, <4>3, <5>2
          <5> QED BY <5>1, <5>2
        <4> QED BY <3>5, <4>1, <4>3 DEF Placed
      <3> QED BY <1>4, <2>6, <3>1, <3>4, <3>8, <3>9 DEF IInv
    <2> QED BY <2>6, <2>7, <2>8
  <1>7. CASE ~ (found # NULL /\ n < pages_needed)
    <2>1. /\ at' = "init.kex" /\ n' = 0 /\ UNCHANGED <<frames, tables, mapped>>
      BY <1>1, <1>7 DEF GoOn
    <2>2. Described'
      BY <1>1, <2>1, StillDescribed DEF IInv
    <2>3. Stages'
      BY <1>1, <1>2, <2>1 DEF Stages, Before
    <2>4. VideoDone = VideoPages
      <3>1. CASE found = NULL
        <4>1. VideoPages = {} /\ n = 0
          BY <1>1, <3>1, VideoHere DEF IInv, Stages
        <4> QED BY <1>5, <4>1
      <3>2. CASE found # NULL
        <4>1. pages_needed \in Nat /\ VideoPages = {VideoPage + m : m \in 0..(pages_needed - 1)}
          BY <1>1, <3>2, VideoHere
        <4>2. n = 0 \/ n <= pages_needed
          BY <1>1 DEF IInv, Stages
        <4>3. n = pages_needed
          BY <1>3, <1>7, <3>2, <4>1, <4>2
        <4> QED BY <1>5, <4>1, <4>3
      <3> QED BY <3>1, <3>2
    <2>5. OwnDone' = OwnDone /\ VideoDone' = VideoDone
      <3>1. VideoPages' = VideoPages
        BY <1>1, <1>2, Carried
      <3>2. OwnDone' = Range(HeapPages) /\ VideoDone' = VideoPages'
        BY <2>1 DEF OwnDone, VideoDone, Before
      <3> QED BY <1>5, <2>4, <3>1, <3>2
    <2>6. TypeOK' /\ Accounts' /\ Placed'
      <3>1. at # "starved" /\ at' \in Places \ {"starved"} /\ (at' \in Before <=> at \in Before)
        BY <1>1, <2>1 DEF Places, Before
      <3> QED BY <1>1, <1>2, <2>1, <2>5, <3>1, Moving
    <2> QED BY <1>4, <2>2, <2>3, <2>6 DEF IInv
  <1> QED BY <1>6, <1>7

LEMMA WalkedOn ==
  ASSUME IInv, WalkOn
  PROVE  IInv'
  <1>1. /\ Walk /\ UNCHANGED descriptors /\ at' = at
        /\ UNCHANGED <<machine, n, frames, tables, mapped>>
    BY DEF WalkOn, Rest
  <1>2. /\ pc = "walk" /\ archive' = archive /\ op' = op /\ target' = target
        /\ pc' \in {"walk", "idle"}
    BY <1>1 DEF Walk, PassFile, FindFile, EndWalk
  <1>3. Walking' /\ WalkFinds'
    BY <1>1, Passing, Finding, Ending DEF IInv, Walk
  <1>4. at \notin Before
    BY <1>2 DEF IInv, Stages
  <1>5. Described'
    BY <1>1, <1>4, StillDescribed DEF IInv, Before
  <1>6. /\ Starts' = Starts /\ VideoPages' = VideoPages /\ Needed' = Needed
    BY <1>1, <1>2, Carried
  <1>7. at = "video" => n = 0
    BY <1>2 DEF IInv, Stages
  <1>8. Stages'
    BY <1>1, <1>2, <1>6, <1>7 DEF IInv, Stages
  <1>9. TypeOK' /\ Accounts' /\ Placed'
    <2>1. CASE at = "starved"
      <3>1. TypeOK'
        BY <1>1 DEF IInv, TypeOK
      <3>2. Accounts'
        BY <1>1, <1>6, <2>1 DEF IInv, Accounts
      <3>3. Placed'
        BY <1>1, <2>1 DEF Placed
      <3> QED BY <3>1, <3>2, <3>3
    <2>2. CASE at # "starved"
      <3>1. OwnDone' = OwnDone /\ VideoDone' = VideoDone
        BY <1>1, <1>6 DEF OwnDone, VideoDone
      <3>2. n' \in Nat /\ at' \in Places \ {"starved"} /\ (at' \in Before <=> at \in Before)
        BY <1>1, <2>2 DEF IInv, TypeOK, Places
      <3> QED BY <1>1, <1>2, <2>2, <3>1, <3>2, Moving
    <2> QED BY <2>1, <2>2
  <1> QED BY <1>3, <1>5, <1>8, <1>9 DEF IInv

LEMMA Resting ==
  ASSUME IInv, UNCHANGED vars
  PROVE  IInv'
  <1>1. /\ UNCHANGED ramdisk /\ UNCHANGED descriptors /\ at' = at
        /\ UNCHANGED <<machine, n, frames, tables, mapped>>
    BY DEF vars
  <1>2. archive' = archive /\ pc' = pc /\ op' = op /\ target' = target /\ found' = found
    BY <1>1 DEF ramdisk
  <1>3. Walking' /\ WalkFinds'
    BY <1>1, Still DEF IInv
  <1>4. Described'
    <2>1. gdt' = gdt /\ idt' = idt /\ tss' = tss
      BY <1>1 DEF descriptors
    <2>2. (DescriptorsInit => DescriptorsInit') /\ (SegmentsSet => SegmentsSet')
          /\ (GatesSet => GatesSet')
      BY <2>1 DEF DescriptorsInit, SegmentsSet, GatesSet
    <2> QED BY <1>1, <2>2 DEF IInv, Described
  <1>5. /\ Starts' = Starts /\ VideoPages' = VideoPages /\ Needed' = Needed
        /\ Firsts("video.bad")' = Firsts("video.bad") /\ \A k : Lies(k, 0)' = Lies(k, 0)
    BY <1>1, <1>2, Carried
  <1>6. pages_needed' = pages_needed
    BY <1>2 DEF pages_needed, offset, vid_phys
  <1>7. Stages'
    BY <1>1, <1>2, <1>5, <1>6 DEF IInv, Stages
  <1>8. OwnDone' = OwnDone /\ VideoDone' = VideoDone
    BY <1>1, <1>5 DEF OwnDone, VideoDone
  <1>9. TypeOK'
    BY <1>1 DEF IInv, TypeOK
  <1>10. Accounts'
    BY <1>1, <1>5, <1>8 DEF IInv, Accounts
  <1>11. Placed'
    BY <1>1, <1>5, <1>8 DEF IInv, Placed
  <1> QED BY <1>3, <1>4, <1>7, <1>9, <1>10, <1>11 DEF IInv

LEMMA Stepping == IInv /\ [Next]_vars => IInv'
  <1> SUFFICES ASSUME IInv, [Next]_vars PROVE IInv'
    OBVIOUS
  <1>1. CASE SetGdt
    BY <1>1, SettingGdt
  <1>2. CASE SetIdt
    BY <1>2, SettingIdt
  <1>3. CASE vmm_initialize
    BY <1>3, Rooting
  <1>4. CASE MapHeap
    BY <1>4, HeapMapped
  <1>5. CASE NoModules
    BY <1>5, WithoutModules
  <1>6. CASE FirstWalk \/ Cat \/ FindVideo \/ FindProgram
    BY <1>6, WalksBegun
  <1>7. CASE MapVideo
    BY <1>7, VideoMapped
  <1>8. CASE NoProgram \/ Load
    BY <1>8, Loading
  <1>9. CASE MapProgram
    BY <1>9, ProgramMapped
  <1>10. CASE WalkOn
    BY <1>10, WalkedOn
  <1>11. CASE UNCHANGED vars
    BY <1>11, Resting
  <1> QED BY <1>1, <1>2, <1>3, <1>4, <1>5, <1>6, <1>7, <1>8, <1>9, <1>10, <1>11
          DEF Next, Step, Stay

LEMMA Invariant == Spec => []IInv
  <1> QED BY Initially, Stepping, PTL DEF Spec

-----------------------------------------------------------------------------
(* The results.                                                            *)

\* No walk of fs.c loses its way: it is always at a header or at the end of the
\* archive, whatever the sizes of the files; fs_init passes every file once,
\* fs_get_file and fs_cat stop at the first of that name or at the end.
THEOREM WalksFind == Spec => []WalkFinds
  <1>1. IInv => WalkFinds
    BY DEF IInv
  <1> QED BY <1>1, Invariant, PTL

\* Wherever the linker put the handlers, tss_entry and the stack, what the
\* processor reads back from the fields that gdt.c, tss.c and idt.c fill in is
\* what the kernel meant.
THEOREM TablesStand == Spec => []TablesRight
  <1>1. IInv => TablesRight
    BY Reading DEF IInv, Described, TablesRight
  <1> QED BY <1>1, Invariant, PTL

\* The address of a file's data, and the frame and the place in it of each byte.
Address(k) == RamdiskFrame * PageSize + (Position(k) + Block)

LEMMA Addressed ==
  ASSUME archive \in Archives, NEW k \in 1..Len(archive), NEW j \in Nat
  PROVE  /\ Address(k) \in Nat
         /\ \E q \in Nat, r \in 0..(PageSize - 1) :
              Lies(k, j) = <<q, r>> /\ Address(k) + j = q * PageSize + r
  <1>1. PICK a \in Nat : /\ a = Address(k)
                         /\ Lies(k, j)[1] = (a + j) \div PageSize
                         /\ Lies(k, j)[2] = (a + j) % PageSize
    BY LiesTyped DEF Address
  <1>2. PageSize \in Nat \ {0} /\ a + j \in Nat
    BY BootAssumption
  <1>3. PICK q \in Nat, r \in 0..(PageSize - 1) :
          q = (a + j) \div PageSize /\ r = (a + j) % PageSize /\ a + j = q * PageSize + r
    BY <1>2, Remainders
  <1>4. Lies(k, j) = <<Lies(k, j)[1], Lies(k, j)[2]>>
    BY DEF Lies
  <1>5. Lies(k, j) = <<q, r>>
    BY <1>1, <1>3, <1>4
  <1> QED BY <1>1, <1>3, <1>5

LEMMA AddressesOrdered ==
  ASSUME archive \in Archives, NEW k \in 1..Len(archive), NEW i \in 1..Len(archive), k < i
  PROVE  Address(k) + archive[k].size <= Address(i)
  <1>1. Len(archive) \in Nat /\ k \in 1..(Len(archive) + 1) /\ i \in 1..(Len(archive) + 1)
    BY LengthOf
  <1>2. PICK g \in Nat, h \in Nat : g = Positions(archive)[k] /\ h = Positions(archive)[i]
    BY <1>1, Placing
  <1>3. PICK z \in Nat : z = archive[k].size
    BY FileOf
  <1>4. g + Block + z <= h
    BY <1>1, <1>2, <1>3, Ordered
  <1>5. Block \in Nat /\ PageSize \in Nat /\ RamdiskFrame \in Nat
    BY BootAssumption, RamdiskAssumption
  <1>6. PICK x \in Nat : x = RamdiskFrame * PageSize
    BY <1>5
  <1>7. PICK y \in Nat, v \in Nat : y = x + (g + Block) /\ v = x + (h + Block)
    BY <1>5
  <1>8. Address(k) = y /\ Address(i) = v
    BY <1>2, <1>6, <1>7 DEF Address, Position
  <1>9. y + z <= v
    BY <1>4, <1>5, <1>7
  <1> QED BY <1>3, <1>8, <1>9

\* In the frames of the video its bytes follow each other without a gap.
LEMMA InPlace ==
  ASSUME IInv, at = "user", NEW k \in Firsts("video.bad"), NEW j \in 0..(archive[k].size - 1)
  PROVE  LET a == Lies(k, 0)[2] + j
             page == VideoPage + a \div PageSize
         IN  page \in DOMAIN mapped /\ <<mapped[page], a % PageSize>> = Lies(k, j)
  <1>1. archive \in Archives /\ machine.modules = 1 /\ k \in 1..Len(archive)
    BY DEF IInv, Walking, Stages, Firsts
  <1>2. PICK z \in Nat : z = archive[k].size
    BY <1>1, FileOf
  <1>3. j \in Nat /\ j \in 0..(z - 1) /\ PageSize \in Nat \ {0} /\ VideoPage \in Nat
    BY <1>2, BootAssumption
  <1>4. PICK q \in Nat, r \in 0..(PageSize - 1) :
          Lies(k, 0) = <<q, r>> /\ Address(k) + 0 = q * PageSize + r
    <2>1. 0 \in Nat
      OBVIOUS
    <2> QED BY <1>1, <2>1, Addressed
  <1>5. PICK u \in Nat, t \in 0..(PageSize - 1) :
          Lies(k, j) = <<u, t>> /\ Address(k) + j = u * PageSize + t
    BY <1>1, <1>3, Addressed
  <1>6. PICK a \in Nat : a = r + j
    BY <1>3
  <1>7. PICK s \in Nat, o \in 0..(PageSize - 1) :
          s = a \div PageSize /\ o = a % PageSize /\ a = s * PageSize + o
    BY <1>3, Remainders
  <1>8. u = q + s /\ t = o
    <2>1. PICK b \in Nat : b = Address(k)
      BY <1>1, <1>3, Addressed
    <2>2. b = q * PageSize + r /\ b + j = u * PageSize + t
      BY <1>4, <1>5, <2>1
    <2>3. PICK x \in Nat, y \in Nat, w \in Nat :
            x = q * PageSize /\ y = s * PageSize /\ w = (q + s) * PageSize
      BY <1>3
    <2>4. w = x + y
      BY <1>3, <2>3
    <2>5. u * PageSize + t = (q + s) * PageSize + o
      BY <1>3, <1>6, <1>7, <2>1, <2>2, <2>3, <2>4
    <2>6. u \in Int /\ q + s \in Int
      OBVIOUS
    <2>7. (u * PageSize + t) \div PageSize = u /\ (u * PageSize + t) % PageSize = t
      BY <1>3, <2>6, Quotients
    <2>8. ((q + s) * PageSize + o) \div PageSize = q + s /\ ((q + s) * PageSize + o) % PageSize = o
      BY <1>3, <2>6, Quotients
    <2> QED BY <2>5, <2>7, <2>8
  <1>9. PICK page \in Nat : page = VideoPage + s
    BY <1>3
  <1>10. page \in VideoPages
    <2>1. Lies(k, 0)[2] = r
      BY <1>4
    <2>2. a \in 0..(Lies(k, 0)[2] + archive[k].size - 1)
      BY <1>2, <1>3, <1>6, <2>1
    <2>3. page \in {VideoPage + b \div PageSize : b \in 0..(Lies(k, 0)[2] + archive[k].size - 1)}
      BY <1>7, <1>9, <2>2
    <2>4. k \in IF machine.modules > 0 THEN Firsts("video.bad") ELSE {}
      BY <1>1
    <2> QED BY <2>3, <2>4 DEF VideoPages
  <1>11. VideoDone = VideoPages
    BY DEF VideoDone, Before
  <1>12. page \in DOMAIN mapped
    BY <1>10, <1>11 DEF IInv, Accounts
  <1>13. mapped[page] = u
    <2>1. mapped[page] = Lies(k, 0)[1] + (page - VideoPage)
      BY <1>10, <1>11 DEF IInv, Placed
    <2>2. page - VideoPage = s
      BY <1>3, <1>9
    <2> QED BY <1>4, <1>8, <2>1, <2>2
  <1>14. Lies(k, 0)[2] + j = a
    BY <1>4, <1>6
  <1> QED BY <1>5, <1>7, <1>8, <1>9, <1>12, <1>13, <1>14

\* The player, which looks through its first page, stops at the magic of the
\* first video.bad.
LEMMA MagicFirst ==
  ASSUME IInv, at = "user", NEW k \in Firsts("video.bad"),
         archive[k].bad = 0, \A j \in 1..(k - 1) : archive[j].bad < 0
  PROVE  /\ Lies(k, 0)[2] \in SeenMagics
         /\ \A p \in SeenMagics : Lies(k, 0)[2] <= p
  <1>1. archive \in Archives /\ k \in 1..Len(archive) /\ Len(archive) \in Nat
    BY LengthOf DEF IInv, Walking, Firsts
  <1>2. PICK q \in Nat, r \in 0..(PageSize - 1) :
          Lies(k, 0) = <<q, r>> /\ Address(k) + 0 = q * PageSize + r
    <2>1. 0 \in Nat
      OBVIOUS
    <2> QED BY <1>1, <2>1, Addressed
  <1>3. PageSize \in Nat \ {0} /\ VideoPage \in Nat /\ Block \in Nat \ {0}
    BY BootAssumption, RamdiskAssumption
  <1>4. mapped[VideoPage] = q
    <2>1. PICK z \in Nat : z = archive[k].size
      BY <1>1, FileOf
    <2>2. 0 \in 0..(archive[k].size - 1)
      <3>1. 0 < z
        BY <1>1, <2>1, FileOf
      <3> QED BY <2>1, <3>1
    <2>3. <<mapped[VideoPage + (Lies(k, 0)[2] + 0) \div PageSize], (Lies(k, 0)[2] + 0) % PageSize>>
            = Lies(k, 0)
      BY <2>2, InPlace
    <2>4. (r + 0) \div PageSize = 0
      <3>1. 0 * PageSize + r = r + 0 /\ 0 \in Int
        BY <1>3
      <3>2. (0 * PageSize + r) \div PageSize = 0
        BY <1>3, <3>1, Quotients
      <3> QED BY <3>1, <3>2
    <2>5. VideoPage + (Lies(k, 0)[2] + 0) \div PageSize = VideoPage
      BY <1>2, <1>3, <2>4
    <2> QED BY <1>2, <2>3, <2>5
  <1>5. r \in SeenMagics
    <2>1. archive[k].bad >= 0 /\ Lies(k, archive[k].bad) = <<mapped[VideoPage], r>>
      BY <1>2, <1>4
    <2> QED BY <1>1, <2>1 DEF SeenMagics
  <1>6. ASSUME NEW p \in SeenMagics
        PROVE  r <= p
    <2>1. p \in 0..(PageSize - 1)
      BY DEF SeenMagics
    <2>2. PICK i \in 1..Len(archive) :
            archive[i].bad >= 0 /\ Lies(i, archive[i].bad) = <<q, p>>
      BY <1>4 DEF SeenMagics
    <2>3. PICK m \in Nat : m = archive[i].bad
      <3>1. archive[i].bad \in Int
        BY <1>1, FileOf
      <3> QED BY <2>2, <3>1
    <2>4. ~ (i < k)
      <3>1. i < k => i \in 1..(k - 1)
        BY <1>1
      <3>2. ~ (archive[i].bad < 0)
        BY <2>3
      <3> QED BY <3>1, <3>2
    <2>5. CASE i = k
      <3>1. Lies(k, 0) = <<q, p>>
        BY <2>2, <2>5
      <3> QED BY <1>2, <1>3, <2>1, <3>1
    <2>6. CASE i # k
      <3>1. k < i
        BY <1>1, <2>4, <2>6
      <3>2. PICK z \in Nat : z = archive[k].size
        BY <1>1, FileOf
      <3>3. PICK g \in Nat, h \in Nat : g = Address(k) /\ h = Address(i)
        BY <1>1, <2>3, Addressed
      <3>4. g + z <= h
        BY <1>1, <3>1, <3>2, <3>3, AddressesOrdered
      <3>5. PICK s \in Nat, o \in 0..(PageSize - 1) :
              Lies(i, m) = <<s, o>> /\ Address(i) + m = s * PageSize + o
        <4>1. i \in 1..Len(archive) /\ m \in Nat
          OBVIOUS
        <4> QED BY <1>1, <4>1, Addressed, Zenon
      <3>6. s = q /\ o = p
        BY <2>2, <2>3, <3>5
      <3>7. PICK x \in Nat : x = q * PageSize
        BY <1>3
      <3>8. g + 0 = x + r /\ h + m = x + p
        BY <1>2, <3>3, <3>5, <3>6, <3>7
      <3> QED BY <1>3, <2>1, <3>4, <3>8
    <2> QED BY <2>5, <2>6
  <1> QED BY <1>2, <1>5, <1>6

\* Whatever the sizes and the order of the files in the archive, and wherever
\* the bootloader put it, the player finds the video at the address it was
\* built with, although _start maps whole pages and the file need not begin at
\* one.
THEOREM VideoThere == Spec => []VideoReadable
  <1>1. IInv => VideoReadable
    BY InPlace, MagicFirst DEF VideoReadable
  <1> QED BY <1>1, Invariant, PTL

\* Every call of pmm_alloc_block during the boot is one that Needed counts, and
\* no other: with fewer frames than that _start meets a 0, with as many it comes
\* to ring 3, or halts for lack of a program, with the rest of them free.
THEOREM BootAccounts == Spec => []BootOutcome
  <1>1. ASSUME IInv PROVE BootOutcome
    <2>1. TypeOK
      BY <1>1 DEF IInv
    <2>2. CASE at = "starved"
      BY <1>1, <2>1, <2>2 DEF IInv, Accounts, BootOutcome
    <2>3. CASE at \in {"user", "halted"}
      <3>1. IF Starts THEN at = "user" ELSE at = "halted"
        BY <1>1, <2>3 DEF IInv, Stages
      <3>2. OwnDone = OwnPages /\ VideoDone = VideoPages
        BY <2>3, <3>1 DEF OwnDone, OwnPages, VideoDone, Before
      <3>3. /\ tables = UNION {TablesOf(v) : v \in OwnPages \cup VideoPages}
            /\ machine.frames = frames + 1 + Cardinality(OwnPages) + Cardinality(tables)
        BY <1>1, <2>3, <3>2 DEF IInv, Accounts, Before
      <3>4. Needed = 1 + Cardinality(OwnPages) + Cardinality(tables)
        BY <3>3 DEF Needed
      <3>5. /\ frames \in Nat /\ machine.frames \in Nat
            /\ Cardinality(OwnPages) \in Nat /\ Cardinality(tables) \in Nat
        BY <1>1, <3>3, Given, Enough DEF IInv
      <3>6. ~ (machine.frames < Needed) /\ frames = machine.frames - Needed
        BY <3>3, <3>4, <3>5
      <3> QED BY <2>1, <3>1, <3>6 DEF BootOutcome
    <2>4. CASE ~ Ended
      BY <2>1, <2>4 DEF BootOutcome
    <2> QED BY <2>2, <2>3, <2>4 DEF Ended
  <1> QED BY <1>1, Invariant, PTL
=============================================================================
