------------------------------ MODULE PagingProof ------------------------------
(***************************************************************************)
(* Theorems about Paging: for tables of any fan-out, an arena of any size  *)
(* and any calls in any order; and about KernelTables: what the calls made *)
(* for a kernel of any segments add up to.                                 *)
(*                                                                         *)
(* All rests on one fact: two walks that meet in a table met in the one    *)
(* entry it hangs from, and so agree in every index above it (PathUnique). *)
(* Writing an entry therefore changes the walk of the addresses that share *)
(* all indices from that level up with the one it was written for, and no  *)
(* other; and these addresses are one aligned run (SameEntry).             *)
(*                                                                         *)
(* Of a kernel it is then said, of every point of the plan, that each call *)
(* made so far is mapped where it asked to be and that nothing else is     *)
(* (KernelInv); the rest is rounding, and which pages the direct map and   *)
(* the segments share.                                                     *)
(***************************************************************************)
EXTENDS KernelTables, WellFoundedInduction, TLAPS

Slot == 0 .. Fan - 1
Level == 1 .. 4

-----------------------------------------------------------------------------
(* Digits.                                                                 *)
LEMMA DivMod ==
  ASSUME NEW a \in Nat, NEW b \in Nat \ {0}
  PROVE  /\ a \div b \in Nat /\ a % b \in 0 .. b - 1
         /\ a = (a \div b) * b + (a % b)
  OBVIOUS

LEMMA ProductOrder ==
  ASSUME NEW a \in Nat, NEW b \in Nat, NEW c \in Nat, a <= b
  PROVE  a * c <= b * c
  OBVIOUS

LEMMA DivUnique ==
  ASSUME NEW q \in Nat, NEW d \in Nat \ {0}, NEW r \in 0 .. d - 1
  PROVE  (q * d + r) \div d = q /\ (q * d + r) % d = r
<1> DEFINE a == q * d + r
           p == a \div d
           s == a % d
<1>1. a \in Nat /\ p \in Nat /\ s \in 0 .. d - 1 /\ a = p * d + s
  <2>1. q * d \in Nat
    OBVIOUS
  <2>2. a \in Nat
    BY <2>1
  <2> HIDE DEF a
  <2> QED
    BY <2>2, DivMod
<1>2. p * d + s = q * d + r
  BY <1>1
<1> HIDE DEF p, s, a
<1>3. ~ p < q
  <2> SUFFICES ASSUME p + 1 <= q PROVE FALSE
    BY <1>1
  <2>1. (p + 1) * d <= q * d
    BY <1>1, ProductOrder
  <2>2. (p + 1) * d = p * d + d
    BY <1>1
  <2>3. p * d \in Nat /\ q * d \in Nat
    BY <1>1
  <2> QED
    BY <1>1, <1>2, <2>1, <2>2, <2>3
<1>4. ~ q < p
  <2> SUFFICES ASSUME q + 1 <= p PROVE FALSE
    BY <1>1
  <2>1. (q + 1) * d <= p * d
    BY <1>1, ProductOrder
  <2>2. (q + 1) * d = q * d + d
    BY <1>1
  <2>3. p * d \in Nat /\ q * d \in Nat
    BY <1>1
  <2> QED
    BY <1>1, <1>2, <2>1, <2>2, <2>3
<1>5. p = q
  BY <1>1, <1>3, <1>4
<1>6. s = r
  <2>1. p * d \in Nat
    BY <1>1
  <2> QED
    BY <1>1, <1>2, <1>5, <2>1
<1> QED
  BY <1>5, <1>6 DEF p, s, a

(* Dividing by a product is dividing twice.                                *)
LEMMA DivDiv ==
  ASSUME NEW x \in Nat, NEW a \in Nat \ {0}, NEW b \in Nat \ {0}
  PROVE  x \div (b * a) = (x \div a) \div b
<1> DEFINE q == x \div a
           r == x % a
           p == q \div b
           s == q % b
<1>1. q \in Nat /\ r \in 0 .. a - 1 /\ x = q * a + r
  BY DivMod
<1>2. p \in Nat /\ s \in 0 .. b - 1 /\ q = p * b + s
  <2> HIDE DEF q
  <2> QED
    BY <1>1, DivMod
<1> HIDE DEF q, r, p, s
<1>3. x = p * (b * a) + (s * a + r)
  <2>1. q * a = (p * b) * a + s * a
    BY <1>1, <1>2
  <2>2. (p * b) * a = p * (b * a)
    BY <1>2
  <2>3. s * a \in Nat /\ p * (b * a) \in Nat
    BY <1>2
  <2> QED
    BY <1>1, <2>1, <2>2, <2>3
<1>4. s * a + r \in 0 .. b * a - 1
  <2>1. s * a <= (b - 1) * a
    BY <1>2, ProductOrder
  <2>2. (b - 1) * a = b * a - a
    OBVIOUS
  <2>3. s * a \in Nat /\ b * a \in Nat
    BY <1>2
  <2> QED
    BY <1>1, <2>1, <2>2, <2>3
<1>5. b * a \in Nat \ {0}
  OBVIOUS
<1>6. x \div (b * a) = p
  BY <1>2, <1>3, <1>4, <1>5, DivUnique
<1> QED
  BY <1>6 DEF p, q

(* A multiple of the divisor passes through a division.                    *)
LEMMA DivShift ==
  ASSUME NEW d \in Nat \ {0}, NEW m \in Nat, NEW y \in Nat
  PROVE  (m * d + y) \div d = m + (y \div d) /\ (m * d + y) % d = y % d
<1> DEFINE q == y \div d
           r == y % d
<1>1. q \in Nat /\ r \in 0 .. d - 1 /\ y = q * d + r
  BY DivMod
<1> HIDE DEF q, r
<1>2. m * d + y = (m + q) * d + r
  <2>1. (m + q) * d = m * d + q * d
    BY <1>1
  <2>2. m * d \in Nat /\ q * d \in Nat
    BY <1>1
  <2> QED
    BY <1>1, <2>1, <2>2
<1>3. ((m + q) * d + r) \div d = m + q /\ ((m + q) * d + r) % d = r
  BY <1>1, DivUnique
<1> QED
  BY <1>2, <1>3 DEF q, r

(* A quotient of a number below a product is below the other factor.       *)
LEMMA DivBelow ==
  ASSUME NEW x \in Nat, NEW d \in Nat \ {0}, NEW n \in Nat, x < n * d
  PROVE  x \div d < n
<1> DEFINE q == x \div d
<1>1. q \in Nat /\ q * d <= x
  <2>1. x \div d \in Nat /\ x % d \in Nat /\ x = (x \div d) * d + (x % d)
    BY DivMod
  <2>2. (x \div d) * d \in Nat
    BY <2>1
  <2> QED
    BY <2>1, <2>2
<1> HIDE DEF q
<1> SUFFICES ASSUME q >= n PROVE FALSE
  BY <1>1 DEF q
<1>2. n * d <= q * d
  BY <1>1, ProductOrder
<1>3. n * d \in Nat /\ q * d \in Nat
  BY <1>1
<1> QED
  BY <1>1, <1>2, <1>3

LEMMA SpanFacts ==
  /\ Fan \in Nat /\ Fan >= 2 /\ PAGE_LEVEL_ROOT = 4
  /\ Span[1] = 1 /\ Span[2] = Fan /\ Span[3] = Fan * Fan /\ Span[4] = Fan * (Fan * Fan)
  /\ Translatable = Fan * (Fan * (Fan * Fan))
  /\ Translatable \in Nat \ {0}
  /\ \A l \in Level : Span[l] \in Nat \ {0}
<1>1. Fan \in Nat /\ Fan >= 2 /\ PAGE_LEVEL_ROOT = 4
  BY PagingAssumption DEF PAGE_LEVEL_ROOT
<1>2. Span[1] = 1 /\ Span[2] = Fan /\ Span[3] = Fan * Fan /\ Span[4] = Fan * Fan * Fan
  BY DEF Span
<1>3. Fan * Fan * Fan = Fan * (Fan * Fan) /\ Fan * Fan \in Nat \ {0}
  BY <1>1
<1>4. Fan * (Fan * Fan) \in Nat \ {0}
  <2> DEFINE g == Fan * Fan
  <2>1. g \in Nat \ {0}
    BY <1>3
  <2> HIDE DEF g
  <2>2. Fan * g \in Nat \ {0}
    BY <1>1, <2>1
  <2> QED
    BY <2>2 DEF g
<1>5. Fan * (Fan * (Fan * Fan)) \in Nat \ {0}
  <2> DEFINE g == Fan * (Fan * Fan)
  <2>1. g \in Nat \ {0}
    BY <1>4
  <2> HIDE DEF g
  <2>2. Fan * g \in Nat \ {0}
    BY <1>1, <2>1
  <2> QED
    BY <2>2 DEF g
<1>6. Translatable = Fan * (Fan * (Fan * Fan))
  BY <1>1, <1>2, <1>3 DEF Translatable
<1>7. \A l \in Level : l = 1 \/ l = 2 \/ l = 3 \/ l = 4
  BY DEF Level
<1> QED
  BY <1>1, <1>2, <1>3, <1>4, <1>5, <1>6, <1>7

-----------------------------------------------------------------------------
Q(v, l) == v \div Span[l]

LEMMA Quotients ==
  ASSUME NEW v \in Nat
  PROVE  /\ \A l \in Level : Q(v, l) \in Nat /\ Index(v, l) = Q(v, l) % Fan /\ Index(v, l) \in Slot
         /\ Q(v, 1) = v
         /\ \A l \in 1 .. 3 : /\ Q(v, l + 1) = Q(v, l) \div Fan
                             /\ Q(v, l) = Q(v, l + 1) * Fan + Index(v, l)
<1>1. \A l \in Level : Q(v, l) \in Nat
  BY SpanFacts, DivMod DEF Q
<1>2. \A l \in Level : Index(v, l) = Q(v, l) % Fan
  BY DEF Index, Q
<1>3. \A l \in Level : Index(v, l) \in Slot
  <2>1. Fan \in Nat \ {0}
    BY SpanFacts
  <2> QED
    BY <1>1, <1>2, <2>1, DivMod DEF Slot
<1>4. Q(v, 1) = v
  BY SpanFacts DEF Q
<1>5. Fan \in Nat \ {0} /\ Fan * Fan \in Nat \ {0}
  BY SpanFacts
<1>6. Q(v, 2) = Q(v, 1) \div Fan
  BY <1>4, SpanFacts DEF Q
<1>7. Q(v, 3) = Q(v, 2) \div Fan
  BY <1>5, SpanFacts, DivDiv DEF Q
<1>8. Q(v, 4) = Q(v, 3) \div Fan
  <2>1. Span[4] = Fan * (Fan * Fan) /\ Span[3] = Fan * Fan
    BY SpanFacts
  <2>2. v \div (Fan * (Fan * Fan)) = (v \div (Fan * Fan)) \div Fan
    BY <1>5, DivDiv
  <2> QED
    BY <2>1, <2>2 DEF Q
<1>9. \A l \in 1 .. 3 : Q(v, l + 1) = Q(v, l) \div Fan
  <2>1. \A l \in 1 .. 3 : l = 1 \/ l = 2 \/ l = 3
    OBVIOUS
  <2> QED
    BY <2>1, <1>6, <1>7, <1>8
<1>10. \A l \in 1 .. 3 : Q(v, l) = Q(v, l + 1) * Fan + Index(v, l)
  <2> TAKE l \in 1 .. 3
  <2>1. l \in Level
    BY DEF Level
  <2>2. Q(v, l) = (Q(v, l) \div Fan) * Fan + (Q(v, l) % Fan)
    BY <1>1, <1>5, <2>1, DivMod
  <2> QED
    BY <2>1, <2>2, <1>2, <1>9
<1> QED
  BY <1>1, <1>2, <1>3, <1>4, <1>9, <1>10

(* The bits above the ones translated choose no entry.                     *)
Low(v) == v % Translatable

LEMMA IndexWraps ==
  ASSUME NEW v \in Nat
  PROVE  /\ Low(v) \in Nat /\ Low(v) < Translatable
         /\ \A l \in Level : Index(v, l) = Index(Low(v), l)
         /\ \A l \in 1 .. 3 : v % Span[l] = Low(v) % Span[l]
<1> DEFINE c == v \div Translatable
           u == Low(v)
           f == Fan
<1>1. c \in Nat /\ u \in 0 .. Translatable - 1 /\ v = c * Translatable + u
  <2>1. Translatable \in Nat \ {0}
    BY SpanFacts
  <2> QED
    BY <2>1, DivMod DEF Low
<1> HIDE DEF c, u
<1>2. f \in Nat \ {0} /\ f * f \in Nat \ {0}
  BY SpanFacts
<1>3. u \in Nat
  BY <1>1, SpanFacts
<1> DEFINE c1 == c * f
           c2 == c1 * f
           c3 == c2 * f
           c4 == c3 * f
<1>4. c1 \in Nat /\ c2 \in Nat /\ c3 \in Nat /\ c4 \in Nat
  <2>1. c1 \in Nat
    BY <1>1, <1>2
  <2>2. c2 \in Nat
    <3> HIDE DEF c1
    <3> QED BY <2>1, <1>2
  <2>3. c3 \in Nat
    <3> HIDE DEF c2
    <3> QED BY <2>2, <1>2
  <2>4. c4 \in Nat
    <3> HIDE DEF c3
    <3> QED BY <2>3, <1>2
  <2> QED
    BY <2>1, <2>2, <2>3, <2>4
<1>5. v = c4 + u
  <2>1. c * (f * (f * (f * f))) = c1 * (f * (f * f))
    BY <1>1, <1>2, SpanFacts
  <2>2. c1 * (f * (f * f)) = c2 * (f * f)
    <3> HIDE DEF c1
    <3> QED BY <1>4, <1>2, SpanFacts
  <2>3. c2 * (f * f) = c3 * f
    <3> HIDE DEF c2
    <3> QED BY <1>4, <1>2, SpanFacts
  <2>4. Translatable = f * (f * (f * f))
    BY SpanFacts
  <2> QED
    BY <2>1, <2>2, <2>3, <2>4, <1>1
<1>6. v % f = u % f /\ Q(v, 2) = c3 + Q(u, 2)
  <2> HIDE DEF c3
  <2>1. (c3 * f + u) \div f = c3 + (u \div f) /\ (c3 * f + u) % f = u % f
    BY <1>2, <1>3, <1>4, DivShift
  <2> QED
    BY <2>1, <1>5, SpanFacts DEF Q
<1>7. Q(v, 2) % f = Q(u, 2) % f /\ Q(v, 3) = c2 + Q(u, 3)
  <2> HIDE DEF c2
  <2>1. Q(u, 2) \in Nat
    BY <1>3, Quotients DEF Level
  <2>2. (c2 * f + Q(u, 2)) \div f = c2 + (Q(u, 2) \div f) /\ (c2 * f + Q(u, 2)) % f = Q(u, 2) % f
    BY <1>2, <1>4, <2>1, DivShift
  <2>3. Q(v, 3) = Q(v, 2) \div f /\ Q(u, 3) = Q(u, 2) \div f
    BY <1>3, Quotients
  <2> QED
    BY <2>2, <2>3, <1>6
<1>8. Q(v, 3) % f = Q(u, 3) % f /\ Q(v, 4) = c1 + Q(u, 4)
  <2> HIDE DEF c1
  <2>1. Q(u, 3) \in Nat
    BY <1>3, Quotients DEF Level
  <2>2. (c1 * f + Q(u, 3)) \div f = c1 + (Q(u, 3) \div f) /\ (c1 * f + Q(u, 3)) % f = Q(u, 3) % f
    BY <1>2, <1>4, <2>1, DivShift
  <2>3. Q(v, 4) = Q(v, 3) \div f /\ Q(u, 4) = Q(u, 3) \div f
    BY <1>3, Quotients
  <2> QED
    BY <2>2, <2>3, <1>7
<1>9. Q(v, 4) % f = Q(u, 4) % f
  <2>1. Q(u, 4) \in Nat
    BY <1>3, Quotients DEF Level
  <2> QED
    BY <2>1, <1>1, <1>2, <1>8, DivShift
<1>10. \A l \in Level : Index(v, l) = Index(u, l)
  <2>1. Q(v, 1) = v /\ Q(u, 1) = u
    BY <1>3, Quotients
  <2>2. \A l \in Level : l = 1 \/ l = 2 \/ l = 3 \/ l = 4
    BY DEF Level
  <2> QED
    BY <1>6, <1>7, <1>8, <1>9, <2>1, <2>2 DEF Index, Q
<1>11. v % (f * f) = u % (f * f)
  <2>1. c4 = c2 * (f * f)
    <3> HIDE DEF c2
    <3> QED BY <1>4, <1>2
  <2> HIDE DEF c2, c4
  <2> QED
    BY <2>1, <1>2, <1>3, <1>4, <1>5, DivShift
<1>12. \A l \in 1 .. 3 : v % Span[l] = u % Span[l]
  <2>1. \A l \in 1 .. 3 : l = 1 \/ l = 2 \/ l = 3
    OBVIOUS
  <2>2. v % 1 = 0 /\ u % 1 = 0
    BY <1>3
  <2> QED
    BY <2>1, <2>2, <1>6, <1>11, SpanFacts
<1> QED
  BY <1>1, <1>3, <1>10, <1>12, SpanFacts DEF u

(* Addresses that agree in every index from a level up.                    *)
Agree(v, w, l) == \A k \in Level : k >= l => Index(v, k) = Index(w, k)

(* Among the addresses a walk can tell apart, the quotients agree then.    *)
LEMMA AgreeQuotients ==
  ASSUME NEW v \in Nat, NEW u \in Nat, v < Translatable, u < Translatable,
         NEW l \in 1 .. 3
  PROVE  Agree(v, u, l) <=> Q(v, l) = Q(u, l)
<1> DEFINE top(x) == Q(x, 4) = Index(x, 4)
<1>1. ASSUME NEW x \in Nat, x < Translatable PROVE top(x)
  <2>1. Q(x, 4) < Fan
    <3>1. Translatable = Fan * Span[4] /\ Span[4] \in Nat \ {0} /\ Fan \in Nat
      BY SpanFacts DEF Level
    <3> QED
      BY <1>1, <3>1, DivBelow DEF Q
  <2>2. Q(x, 4) \in Nat /\ Index(x, 4) = Q(x, 4) % Fan
    BY <1>1, Quotients DEF Level
  <2>4. Fan \in Nat \ {0}
    BY SpanFacts
  <2>3. Q(x, 4) = 0 * Fan + Q(x, 4) /\ Q(x, 4) \in 0 .. Fan - 1
    BY <2>1, <2>2, <2>4
  <2> QED
    BY <2>2, <2>3, <2>4, DivUnique
<1>2. top(v) /\ top(u)
  BY <1>1
<1>3. /\ Q(v, 3) = Q(v, 4) * Fan + Index(v, 3) /\ Q(u, 3) = Q(u, 4) * Fan + Index(u, 3)
      /\ Q(v, 2) = Q(v, 3) * Fan + Index(v, 2) /\ Q(u, 2) = Q(u, 3) * Fan + Index(u, 2)
      /\ Q(v, 1) = Q(v, 2) * Fan + Index(v, 1) /\ Q(u, 1) = Q(u, 2) * Fan + Index(u, 1)
      /\ Q(v, 4) = Q(v, 3) \div Fan /\ Q(u, 4) = Q(u, 3) \div Fan
      /\ Q(v, 3) = Q(v, 2) \div Fan /\ Q(u, 3) = Q(u, 2) \div Fan
      /\ Q(v, 2) = Q(v, 1) \div Fan /\ Q(u, 2) = Q(u, 1) \div Fan
  BY Quotients
<1>4. \A k \in Level : Index(v, k) = Q(v, k) % Fan /\ Index(u, k) = Q(u, k) % Fan
  BY Quotients
<1>5. \A k \in Level : k = 1 \/ k = 2 \/ k = 3 \/ k = 4
  BY DEF Level
<1>6. l = 1 \/ l = 2 \/ l = 3
  OBVIOUS
<1>7. ASSUME Agree(v, u, l) PROVE Q(v, l) = Q(u, l)
  <2>1. \A k \in Level : k >= l => Index(v, k) = Index(u, k)
    BY <1>7 DEF Agree
  <2>2. Q(v, 4) = Q(u, 4)
    BY <2>1, <1>2 DEF Level
  <2>3. Q(v, 3) = Q(u, 3)
    BY <2>1, <2>2, <1>3 DEF Level
  <2>4. l <= 2 => Q(v, 2) = Q(u, 2)
    BY <2>1, <2>3, <1>3 DEF Level
  <2>5. l = 1 => Q(v, 1) = Q(u, 1)
    BY <2>1, <2>4, <1>3 DEF Level
  <2> QED
    BY <2>3, <2>4, <2>5, <1>6
<1>8. ASSUME Q(v, l) = Q(u, l) PROVE Agree(v, u, l)
  <2>1. l <= 1 => Q(v, 2) = Q(u, 2)
    BY <1>3, <1>6, <1>8
  <2>2. l <= 2 => Q(v, 3) = Q(u, 3)
    BY <1>3, <1>6, <1>8, <2>1
  <2>3. Q(v, 4) = Q(u, 4)
    BY <1>3, <1>6, <1>8, <2>2
  <2> QED
    BY <1>4, <1>5, <1>6, <1>8, <2>1, <2>2, <2>3 DEF Agree
<1> QED
  BY <1>7, <1>8

(* The addresses that share the entry of an aligned address are one run.   *)
LEMMA SameEntry ==
  ASSUME NEW w \in Nat, NEW l \in 1 .. 3, w % Span[l] = 0
  PROVE  /\ Low(w) \in Nat /\ Low(w) + Span[l] <= Translatable
         /\ \A v \in Distinct : Agree(v, w, l) <=> v \in Low(w) .. Low(w) + Span[l] - 1
         /\ \A v \in Low(w) .. Low(w) + Span[l] - 1 : v % Span[l] = v - Low(w)
         /\ \A j \in 0 .. Span[l] - 1 : Low(w + j) = Low(w) + j
<1> DEFINE u == Low(w)
           s == Span[l]
           q == u \div s
<1>1. s \in Nat \ {0} /\ Translatable \in Nat \ {0}
  BY SpanFacts DEF Level
<1>2. u \in Nat /\ u < Translatable /\ u % s = 0
  BY IndexWraps
<1> HIDE DEF u, s
<1>3. q \in Nat /\ u = q * s
  <2>1. u \div s \in Nat /\ u % s \in 0 .. s - 1 /\ u = (u \div s) * s + (u % s)
    BY <1>1, <1>2, DivMod
  <2>2. (u \div s) * s \in Nat
    BY <2>1, <1>1
  <2> QED
    BY <2>1, <2>2, <1>2
<1>4. u + s <= Translatable
  <2>1. PICK n \in Nat : Translatable = n * s
    <3>1. l = 1 \/ l = 2 \/ l = 3
      OBVIOUS
    <3>2. CASE l = 1
      <4>1. s = 1
        BY <3>2, SpanFacts DEF s
      <4> QED
        BY <4>1, <1>1
    <3>3. CASE l = 2
      <4>1. s = Fan
        BY <3>3, SpanFacts DEF s
      <4> DEFINE g == Fan * (Fan * Fan)
      <4>2. g \in Nat /\ Translatable = Fan * g
        BY SpanFacts DEF Level
      <4> HIDE DEF g
      <4>3. Translatable = g * Fan
        BY <4>2, SpanFacts
      <4> QED
        BY <4>1, <4>2, <4>3
    <3>4. CASE l = 3
      <4>1. s = Fan * Fan
        BY <3>4, SpanFacts DEF s
      <4> DEFINE g == Fan * Fan
      <4>2. g \in Nat /\ Translatable = Fan * (Fan * g) /\ s = g
        BY <4>1, SpanFacts
      <4> HIDE DEF g
      <4>3. Fan * (Fan * g) = (Fan * Fan) * g /\ Fan * Fan \in Nat
        BY <4>2, SpanFacts
      <4> QED
        BY <4>2, <4>3
    <3> QED
      BY <3>1, <3>2, <3>3, <3>4
  <2>2. q < n
    BY <2>1, <1>1, <1>2, DivBelow
  <2> HIDE DEF q
  <2>3. (q + 1) * s <= n * s
    BY <2>2, <1>1, <1>3, ProductOrder
  <2>4. (q + 1) * s = q * s + s /\ q * s \in Nat
    BY <1>1, <1>3
  <2> QED
    BY <2>1, <2>3, <2>4, <1>1, <1>3
<1>5. ASSUME NEW j \in 0 .. s - 1 PROVE (u + j) \div s = q /\ (u + j) % s = j
  <2> HIDE DEF q
  <2> QED
    BY <1>1, <1>3, DivUnique
<1>6. ASSUME NEW v \in u .. u + s - 1 PROVE v \div s = q /\ v % s = v - u /\ v \in Distinct
  <2>1. v - u \in 0 .. s - 1 /\ u + (v - u) = v
    BY <1>1, <1>2
  <2> QED
    BY <2>1, <1>5, <1>4, <1>1, <1>2 DEF Distinct
<1>7. ASSUME NEW v \in Distinct, v \div s = q PROVE v \in u .. u + s - 1
  <2>1. v \in Nat
    BY DEF Distinct
  <2>2. v % s \in 0 .. s - 1 /\ v = (v \div s) * s + (v % s)
    BY <2>1, <1>1, DivMod
  <2> HIDE DEF q
  <2> QED
    BY <2>2, <1>1, <1>3, <1>7
<1>8. ASSUME NEW v \in Distinct PROVE Agree(v, w, l) <=> v \in u .. u + s - 1
  <2>1. v \in Nat /\ v < Translatable
    BY <1>1 DEF Distinct
  <2>2. Agree(v, u, l) <=> Q(v, l) = Q(u, l)
    BY <2>1, <1>2, AgreeQuotients
  <2>3. Agree(v, u, l) <=> Agree(v, w, l)
    BY IndexWraps DEF Agree, u
  <2>4. Q(v, l) = v \div s /\ Q(u, l) = q
    BY DEF Q, s
  <2> QED
    BY <2>2, <2>3, <2>4, <1>6, <1>7
<1>9. ASSUME NEW j \in 0 .. s - 1 PROVE Low(w + j) = u + j
  <2>1. w \div Translatable \in Nat /\ w = (w \div Translatable) * Translatable + u
    BY <1>1, DivMod DEF Low, u
  <2> DEFINE c == w \div Translatable
  <2>2. c * Translatable \in Nat
    BY <2>1, <1>1
  <2> HIDE DEF c
  <2>3. w + j = c * Translatable + (u + j)
    BY <2>1, <2>2, <1>2 DEF c
  <2>4. u + j \in 0 .. Translatable - 1
    BY <1>1, <1>2, <1>4
  <2>5. c \in Nat
    BY <2>1 DEF c
  <2>6. (c * Translatable + (u + j)) % Translatable = u + j
    <3> DEFINE r == u + j
               d == Translatable
    <3>1. r \in 0 .. d - 1 /\ d \in Nat \ {0}
      BY <2>4, <1>1
    <3> HIDE DEF r, d
    <3>2. (c * d + r) % d = r
      BY <3>1, <2>5, DivUnique
    <3> QED
      BY <3>2 DEF r, d
  <2> QED
    BY <2>3, <2>6 DEF Low
<1> QED
  BY <1>2, <1>4, <1>6, <1>8, <1>9 DEF u, s

-----------------------------------------------------------------------------
(* Walks.                                                                  *)
Rows(ts) == 1 .. Len(ts)
Points(entry) == entry.kind = "table"

Shape(ts) ==
  /\ ts \in Seq([Slot -> Entry]) /\ Len(ts) >= 1
  /\ \A t \in Rows(ts), i \in Slot :
       /\ Points(ts[t][i]) => ts[t][i].at \in t + 1 .. Len(ts)
       /\ ts[t][i].kind = "leaf" => ts[t][i].at \in 0 .. FramePages - 1

(* No two entries point to one table.                                      *)
HangOnce(ts) ==
  \A t \in Rows(ts), s \in Rows(ts), i \in Slot, j \in Slot :
    Points(ts[t][i]) /\ Points(ts[s][j]) /\ ts[t][i].at = ts[s][j].at => t = s /\ i = j

(* The table a walk comes to from a table, 0 where it ends.                *)
Below(ts, t, i) == IF t # 0 /\ Points(ts[t][i]) THEN ts[t][i].at ELSE 0

Third(ts, v)  == Below(ts, 1, Index(v, 4))
Second(ts, v) == Below(ts, Third(ts, v), Index(v, 3))
First(ts, v)  == Below(ts, Second(ts, v), Index(v, 2))

Path(ts, v, l) ==
  IF l = 4 THEN 1 ELSE IF l = 3 THEN Third(ts, v) ELSE IF l = 2 THEN Second(ts, v) ELSE First(ts, v)

LEMMA BelowTyped ==
  ASSUME NEW ts, Shape(ts), NEW t \in 0 .. Len(ts), NEW i \in Slot
  PROVE  /\ Below(ts, t, i) \in 0 .. Len(ts)
         /\ Below(ts, t, i) # 0 => t # 0 /\ Points(ts[t][i]) /\ Below(ts, t, i) = ts[t][i].at
         /\ Below(ts, t, i) # 0 => Below(ts, t, i) > 1
<1>1. Len(ts) \in Nat
  BY DEF Shape
<1>2. CASE t # 0 /\ Points(ts[t][i])
  <2>1. t \in Rows(ts)
    BY <1>1, <1>2 DEF Rows
  <2> QED
    BY <1>1, <1>2, <2>1 DEF Shape, Below
<1> QED
  BY <1>1, <1>2 DEF Below

LEMMA PathTyped ==
  ASSUME NEW ts, Shape(ts), NEW v \in Nat
  PROVE  /\ \A l \in Level : Path(ts, v, l) \in 0 .. Len(ts)
         /\ Path(ts, v, 4) = 1
         /\ \A l \in 1 .. 3 : /\ Path(ts, v, l) = Below(ts, Path(ts, v, l + 1), Index(v, l + 1))
                             /\ Path(ts, v, l) # 1
<1>1. Len(ts) \in Nat /\ 1 \in 0 .. Len(ts)
  BY DEF Shape
<1>2. Index(v, 4) \in Slot /\ Index(v, 3) \in Slot /\ Index(v, 2) \in Slot
  BY Quotients DEF Level
<1>3. Third(ts, v) \in 0 .. Len(ts) /\ Third(ts, v) # 1
  BY <1>1, <1>2, BelowTyped DEF Third
<1>4. Second(ts, v) \in 0 .. Len(ts) /\ Second(ts, v) # 1
  <2> DEFINE t == Third(ts, v)
             i == Index(v, 3)
  <2>1. Second(ts, v) = Below(ts, t, i) /\ t \in 0 .. Len(ts) /\ i \in Slot
    BY <1>2, <1>3 DEF Second
  <2> HIDE DEF t, i
  <2>2. Below(ts, t, i) \in 0 .. Len(ts) /\ (Below(ts, t, i) # 0 => Below(ts, t, i) > 1)
    BY <2>1, BelowTyped
  <2> QED
    BY <1>1, <2>1, <2>2
<1>5. First(ts, v) \in 0 .. Len(ts) /\ First(ts, v) # 1
  <2> DEFINE t == Second(ts, v)
             i == Index(v, 2)
  <2>1. First(ts, v) = Below(ts, t, i) /\ t \in 0 .. Len(ts) /\ i \in Slot
    BY <1>2, <1>4 DEF First
  <2> HIDE DEF t, i
  <2>2. Below(ts, t, i) \in 0 .. Len(ts) /\ (Below(ts, t, i) # 0 => Below(ts, t, i) > 1)
    BY <2>1, BelowTyped
  <2> QED
    BY <1>1, <2>1, <2>2
<1>6. /\ Path(ts, v, 4) = 1 /\ Path(ts, v, 3) = Third(ts, v)
      /\ Path(ts, v, 2) = Second(ts, v) /\ Path(ts, v, 1) = First(ts, v)
  BY DEF Path
<1>7. \A l \in Level : Path(ts, v, l) \in 0 .. Len(ts)
  BY <1>1, <1>3, <1>4, <1>5 DEF Level, Path
<1>8. \A l \in 1 .. 3 : l = 1 \/ l = 2 \/ l = 3
  OBVIOUS
<1>9. /\ Third(ts, v) = Below(ts, 1, Index(v, 4))
      /\ Second(ts, v) = Below(ts, Third(ts, v), Index(v, 3))
      /\ First(ts, v) = Below(ts, Second(ts, v), Index(v, 2))
  BY DEF Third, Second, First
<1>10. \A l \in 1 .. 3 : Path(ts, v, l) = Below(ts, Path(ts, v, l + 1), Index(v, l + 1))
  BY <1>6, <1>8, <1>9
<1>11. \A l \in 1 .. 3 : Path(ts, v, l) # 1
  BY <1>3, <1>4, <1>5, <1>6, <1>8
<1> QED
  BY <1>6, <1>7, <1>10, <1>11

(* Two walks that meet went the same way.                                  *)
LEMMA PathStep ==
  ASSUME NEW ts, Shape(ts), HangOnce(ts), NEW u \in Nat, NEW v \in Nat,
         NEW l \in 1 .. 3, NEW m \in 1 .. 3,
         Path(ts, u, l) = Path(ts, v, m), Path(ts, u, l) # 0
  PROVE  /\ Path(ts, u, l + 1) = Path(ts, v, m + 1) /\ Path(ts, u, l + 1) # 0
         /\ Index(u, l + 1) = Index(v, m + 1)
<1> DEFINE a == Path(ts, u, l + 1)
           b == Path(ts, v, m + 1)
           i == Index(u, l + 1)
           j == Index(v, m + 1)
<1>1. l + 1 \in Level /\ m + 1 \in Level
  BY DEF Level
<1>2. a \in 0 .. Len(ts) /\ b \in 0 .. Len(ts) /\ i \in Slot /\ j \in Slot
  BY <1>1, PathTyped, Quotients
<1>3. Path(ts, u, l) = Below(ts, a, i) /\ Path(ts, v, m) = Below(ts, b, j)
  BY PathTyped
<1> HIDE DEF a, b, i, j
<1>4. /\ a # 0 /\ Points(ts[a][i]) /\ Path(ts, u, l) = ts[a][i].at
      /\ b # 0 /\ Points(ts[b][j]) /\ Path(ts, v, m) = ts[b][j].at
  BY <1>2, <1>3, BelowTyped
<1>5. a \in Rows(ts) /\ b \in Rows(ts)
  BY <1>2, <1>4 DEF Rows, Shape
<1>6. a = b /\ i = j
  BY <1>2, <1>4, <1>5 DEF HangOnce
<1> QED
  BY <1>4, <1>6 DEF a, b, i, j

LEMMA PathUnique ==
  ASSUME NEW ts, Shape(ts), HangOnce(ts), NEW u \in Nat, NEW v \in Nat,
         NEW l \in Level, NEW m \in Level,
         Path(ts, u, l) = Path(ts, v, m), Path(ts, u, l) # 0
  PROVE  l = m /\ \A k \in Level : k > l => Index(u, k) = Index(v, k)
<1> DEFINE Same(a, b) == Path(ts, u, a) = Path(ts, v, b) /\ Path(ts, u, a) # 0
<1>1. ASSUME NEW a \in 1 .. 3, NEW b \in 1 .. 3, Same(a, b)
      PROVE  Same(a + 1, b + 1) /\ Index(u, a + 1) = Index(v, b + 1)
  BY <1>1, PathStep
<1>2. ASSUME NEW a \in Level, Same(a, 4) \/ Same(4, a) PROVE a = 4
  <2>1. a \in 1 .. 3 => Path(ts, u, a) # 1 /\ Path(ts, v, a) # 1
    BY PathTyped
  <2>2. Path(ts, u, 4) = 1 /\ Path(ts, v, 4) = 1
    BY PathTyped
  <2> QED
    BY <1>2, <2>1, <2>2 DEF Level
<1>3. Same(l, m)
  OBVIOUS
<1> HIDE DEF Same
<1>4. \A k \in Level : k = 1 \/ k = 2 \/ k = 3 \/ k = 4
  BY DEF Level
<1>5. CASE l = 4 \/ m = 4
  <2>1. l = 4 /\ m = 4
    BY <1>2, <1>3, <1>5
  <2> QED
    BY <2>1, <1>4
<1>6. CASE l = 3 /\ m # 4
  <2>1. Same(4, m + 1) /\ Index(u, 4) = Index(v, m + 1)
    BY <1>1, <1>3, <1>4, <1>6 DEF Level
  <2>2. m + 1 = 4
    BY <2>1, <1>2, <1>6 DEF Level
  <2> QED
    BY <2>1, <2>2, <1>4, <1>6 DEF Level
<1>7. CASE l = 2 /\ m # 4
  <2>1. Same(3, m + 1) /\ Index(u, 3) = Index(v, m + 1)
    BY <1>1, <1>3, <1>7 DEF Level
  <2>2. m + 1 # 4
    BY <2>1, <1>2 DEF Level
  <2>3. Same(4, m + 2) /\ Index(u, 4) = Index(v, m + 2)
    <3>1. m + 1 \in 1 .. 3 /\ (m + 1) + 1 = m + 2
      BY <2>2, <1>7 DEF Level
    <3> QED
      BY <1>1, <2>1, <3>1
  <2>4. m + 2 = 4
    BY <2>2, <2>3, <1>2, <1>7 DEF Level
  <2> QED
    BY <2>1, <2>3, <2>4, <1>4, <1>7 DEF Level
<1>8. CASE l = 1 /\ m # 4
  <2>1. Same(2, m + 1) /\ Index(u, 2) = Index(v, m + 1)
    BY <1>1, <1>3, <1>8 DEF Level
  <2>2. m + 1 # 4
    BY <2>1, <1>2 DEF Level
  <2>3. Same(3, m + 2) /\ Index(u, 3) = Index(v, m + 2)
    <3>1. m + 1 \in 1 .. 3 /\ (m + 1) + 1 = m + 2
      BY <2>2, <1>8 DEF Level
    <3> QED
      BY <1>1, <2>1, <3>1
  <2>4. m + 2 # 4
    BY <2>3, <1>2 DEF Level
  <2>5. Same(4, m + 3) /\ Index(u, 4) = Index(v, m + 3)
    <3>1. m + 2 \in 1 .. 3 /\ (m + 2) + 1 = m + 3
      BY <2>2, <2>4, <1>8 DEF Level
    <3> QED
      BY <1>1, <2>3, <3>1
  <2>6. m = 1
    BY <2>2, <2>4, <1>8, <1>4 DEF Level
  <2> QED
    BY <2>1, <2>3, <2>5, <2>6, <1>4, <1>8
<1> QED
  BY <1>4, <1>5, <1>6, <1>7, <1>8

(* What a walk finds is what the entry says at which it ends.              *)
LEMMA WalkEnds ==
  ASSUME NEW ts, Shape(ts), NEW v \in Nat, NEW l \in Level,
         Path(ts, v, l) # 0, l = 1 \/ ~ Points(ts[Path(ts, v, l)][Index(v, l)])
  PROVE  paging_translate(ts, v) =
           IF l = 4 THEN UNMAPPED ELSE Found(ts[Path(ts, v, l)][Index(v, l)], v, l)
<1>1. /\ Path(ts, v, 4) = 1
      /\ Path(ts, v, 3) = Below(ts, Path(ts, v, 4), Index(v, 4))
      /\ Path(ts, v, 2) = Below(ts, Path(ts, v, 3), Index(v, 3))
      /\ Path(ts, v, 1) = Below(ts, Path(ts, v, 2), Index(v, 2))
  BY PathTyped
<1>2. PAGE_LEVEL_ROOT = 4
  BY SpanFacts
<1>3. CASE l = 4
  BY <1>1, <1>2, <1>3 DEF paging_translate, Points
<1>4. CASE l = 3
  <2> DEFINE a == Path(ts, v, 3)
  <2>1. a = ts[1][Index(v, 4)].at /\ Points(ts[1][Index(v, 4)])
    BY <1>1, <1>4 DEF Below
  <2>2. paging_translate(ts, v) = TranslateFrom3(ts, a, v)
    BY <1>2, <2>1 DEF paging_translate, Points
  <2> QED
    BY <2>2, <1>4 DEF TranslateFrom3, Points
<1>5. CASE l = 2
  <2> DEFINE a == Path(ts, v, 3)
             b == Path(ts, v, 2)
  <2>1. /\ b = ts[a][Index(v, 3)].at /\ Points(ts[a][Index(v, 3)])
        /\ a = ts[1][Index(v, 4)].at /\ Points(ts[1][Index(v, 4)])
    BY <1>1, <1>5 DEF Below
  <2>2. paging_translate(ts, v) = TranslateFrom3(ts, a, v)
    BY <1>2, <2>1 DEF paging_translate, Points
  <2>3. TranslateFrom3(ts, a, v) = TranslateFrom2(ts, b, v)
    BY <2>1 DEF TranslateFrom3, Points
  <2> QED
    BY <2>2, <2>3, <1>5 DEF TranslateFrom2, Points
<1>6. CASE l = 1
  <2> DEFINE a == Path(ts, v, 3)
             b == Path(ts, v, 2)
             c == Path(ts, v, 1)
  <2>1. /\ c = ts[b][Index(v, 2)].at /\ Points(ts[b][Index(v, 2)])
        /\ b = ts[a][Index(v, 3)].at /\ Points(ts[a][Index(v, 3)])
        /\ a = ts[1][Index(v, 4)].at /\ Points(ts[1][Index(v, 4)])
    BY <1>1, <1>6 DEF Below
  <2>2. paging_translate(ts, v) = TranslateFrom3(ts, a, v)
    BY <1>2, <2>1 DEF paging_translate, Points
  <2>3. TranslateFrom3(ts, a, v) = TranslateFrom2(ts, b, v)
    BY <2>1 DEF TranslateFrom3, Points
  <2>4. TranslateFrom2(ts, b, v) = TranslateFrom1(ts, c, v)
    BY <2>1 DEF TranslateFrom2, Points
  <2> QED
    BY <2>2, <2>3, <2>4, <1>6 DEF TranslateFrom1
<1>7. l = 1 \/ l = 2 \/ l = 3 \/ l = 4
  BY DEF Level
<1> QED
  BY <1>3, <1>4, <1>5, <1>6, <1>7

EndsAt(ts, v, l) ==
  /\ Path(ts, v, l) # 0
  /\ l = 1 \/ ~ Points(ts[Path(ts, v, l)][Index(v, l)])

LEMMA WalkHasEnd ==
  ASSUME NEW ts, Shape(ts), NEW v \in Nat
  PROVE  \E l \in Level : EndsAt(ts, v, l)
<1>1. Path(ts, v, 4) = 1 /\ 1 # 0
  BY PathTyped
<1>2. ASSUME NEW l \in 1 .. 3, Path(ts, v, l) = 0, Path(ts, v, l + 1) # 0
      PROVE  ~ Points(ts[Path(ts, v, l + 1)][Index(v, l + 1)])
  <2> DEFINE t == Path(ts, v, l + 1)
             i == Index(v, l + 1)
  <2>1. Path(ts, v, l) = Below(ts, t, i)
    BY PathTyped
  <2>2. t \in 0 .. Len(ts) /\ i \in Slot
    BY PathTyped, Quotients DEF Level
  <2> HIDE DEF t, i
  <2>3. SUFFICES ASSUME Points(ts[t][i]), t # 0 PROVE FALSE
    BY <1>2 DEF t, i
  <2>4. t \in Rows(ts) /\ Len(ts) \in Nat
    BY <2>2, <2>3 DEF Rows, Shape
  <2>5. ts[t][i].at \in t + 1 .. Len(ts)
    BY <2>2, <2>3, <2>4 DEF Shape
  <2> QED
    BY <2>1, <2>2, <2>3, <2>4, <2>5, <1>2 DEF Below
<1>3. CASE Path(ts, v, 1) # 0
  BY <1>3 DEF Level, EndsAt
<1>4. CASE Path(ts, v, 1) = 0 /\ Path(ts, v, 2) # 0
  BY <1>2, <1>4 DEF Level, EndsAt
<1>5. CASE Path(ts, v, 2) = 0 /\ Path(ts, v, 3) # 0
  BY <1>2, <1>5 DEF Level, EndsAt
<1>6. CASE Path(ts, v, 3) = 0
  BY <1>1, <1>2, <1>6 DEF Level, EndsAt
<1> QED
  BY <1>3, <1>4, <1>5, <1>6

(* What reached a level went through all those above.                      *)
LEMMA PathAbove ==
  ASSUME NEW ts, Shape(ts), NEW w \in Nat, NEW l \in Level, Path(ts, w, l) # 0
  PROVE  \A k \in Level : k >= l => Path(ts, w, k) # 0
<1>1. \A k \in 1 .. 3 : Path(ts, w, k) # 0 => Path(ts, w, k + 1) # 0
  BY PathTyped DEF Below
<1>2. /\ Path(ts, w, 1) # 0 => Path(ts, w, 2) # 0
      /\ Path(ts, w, 2) # 0 => Path(ts, w, 3) # 0
      /\ Path(ts, w, 3) # 0 => Path(ts, w, 4) # 0
  BY <1>1
<1>3. \A k \in Level : k = 1 \/ k = 2 \/ k = 3 \/ k = 4
  BY DEF Level
<1> QED
  BY <1>2, <1>3

(* Going down by the same indices through the same entries leads to the    *)
(* same tables.                                                            *)
LEMMA PathFollows ==
  ASSUME NEW ts, NEW ts2, Shape(ts), Shape(ts2), NEW v \in Nat, NEW w \in Nat,
         NEW l \in Level, Agree(v, w, l),
         \A k \in Level : k > l /\ Path(ts, w, k) # 0 =>
           ts2[Path(ts, w, k)][Index(w, k)] = ts[Path(ts, w, k)][Index(w, k)]
  PROVE  \A k \in Level : k >= l => Path(ts2, v, k) = Path(ts, w, k)
<1> DEFINE Same(k) == Path(ts2, v, k) = Path(ts, w, k)
<1>1. Same(4)
  BY PathTyped
<1>2. ASSUME NEW k \in 1 .. 3, k >= l, Same(k + 1) PROVE Same(k)
  <2>1. k + 1 \in Level /\ k + 1 > l /\ k + 1 >= l
    BY <1>2 DEF Level
  <2>2. Index(v, k + 1) = Index(w, k + 1)
    BY <2>1 DEF Agree
  <2>3. /\ Path(ts2, v, k) = Below(ts2, Path(ts2, v, k + 1), Index(v, k + 1))
        /\ Path(ts, w, k) = Below(ts, Path(ts, w, k + 1), Index(w, k + 1))
    BY PathTyped
  <2>4. Path(ts, w, k + 1) # 0 =>
          ts2[Path(ts, w, k + 1)][Index(w, k + 1)] = ts[Path(ts, w, k + 1)][Index(w, k + 1)]
    BY <2>1
  <2> QED
    BY <1>2, <2>2, <2>3, <2>4 DEF Below
<1> HIDE DEF Same
<1>3. l <= 3 => Same(3)
  BY <1>1, <1>2 DEF Level
<1>4. l <= 2 => Same(2)
  BY <1>2, <1>3 DEF Level
<1>5. l <= 1 => Same(1)
  BY <1>2, <1>4 DEF Level
<1>6. \A k \in Level : k = 1 \/ k = 2 \/ k = 3 \/ k = 4
  BY DEF Level
<1>7. \A k \in Level : k >= l => Same(k)
  BY <1>1, <1>3, <1>4, <1>5, <1>6
<1> QED
  BY <1>7 DEF Same

-----------------------------------------------------------------------------
(* Writing an entry that was absent, where the walk of w stands.           *)
Written(ts, ts2, w, l, e) ==
  /\ Shape(ts) /\ Shape(ts2) /\ HangOnce(ts)
  /\ Path(ts, w, l) # 0
  /\ ts[Path(ts, w, l)][Index(w, l)] = ABSENT
  /\ \A t \in Rows(ts), i \in Slot :
       ts2[t][i] = IF t = Path(ts, w, l) /\ i = Index(w, l) THEN e ELSE ts[t][i]

LEMMA OthersKept ==
  ASSUME NEW ts, NEW ts2, NEW w \in Nat, NEW l \in Level, NEW e, Written(ts, ts2, w, l, e),
         NEW v \in Nat, ~ Agree(v, w, l)
  PROVE  /\ \A k \in Level : Path(ts2, v, k) = Path(ts, v, k)
         /\ paging_translate(ts2, v) = paging_translate(ts, v)
<1>1. Shape(ts) /\ Shape(ts2) /\ HangOnce(ts) /\ Path(ts, w, l) # 0
  BY DEF Written
<1>2. ASSUME NEW k \in Level, Path(ts, v, k) # 0
      PROVE  ts2[Path(ts, v, k)][Index(v, k)] = ts[Path(ts, v, k)][Index(v, k)]
  <2>1. Path(ts, v, k) \in Rows(ts) /\ Index(v, k) \in Slot
    <3>1. Path(ts, v, k) \in 0 .. Len(ts) /\ Index(v, k) \in Slot
      BY <1>1, PathTyped, Quotients
    <3>2. Len(ts) \in Nat
      BY <1>1 DEF Shape
    <3> QED
      BY <3>1, <3>2, <1>2 DEF Rows
  <2>2. ~ (Path(ts, v, k) = Path(ts, w, l) /\ Index(v, k) = Index(w, l))
    <3> SUFFICES ASSUME Path(ts, v, k) = Path(ts, w, l), Index(v, k) = Index(w, l) PROVE FALSE
      OBVIOUS
    <3>1. k = l /\ \A m \in Level : m > k => Index(v, m) = Index(w, m)
      BY <1>1, <1>2, PathUnique
    <3>2. Agree(v, w, l)
      BY <3>1 DEF Agree, Level
    <3> QED
      BY <3>2
  <2> QED
    BY <2>1, <2>2 DEF Written
<1>3. \A k \in Level : Path(ts2, v, k) = Path(ts, v, k)
  <2>1. Agree(v, v, 1)
    BY DEF Agree
  <2>2. \A k \in Level : k >= 1 => Path(ts2, v, k) = Path(ts, v, k)
    <3>1. 1 \in Level
      BY DEF Level
    <3> QED
      BY <1>1, <1>2, <2>1, <3>1, PathFollows
  <2> QED
    BY <2>2 DEF Level
<1>4. PICK k \in Level : EndsAt(ts, v, k)
  BY <1>1, WalkHasEnd
<1>5. paging_translate(ts, v) = IF k = 4 THEN UNMAPPED ELSE Found(ts[Path(ts, v, k)][Index(v, k)], v, k)
  BY <1>1, <1>4, WalkEnds DEF EndsAt
<1>6. ts2[Path(ts2, v, k)][Index(v, k)] = ts[Path(ts, v, k)][Index(v, k)]
  BY <1>2, <1>3, <1>4 DEF EndsAt
<1>7. paging_translate(ts2, v) = IF k = 4 THEN UNMAPPED ELSE Found(ts2[Path(ts2, v, k)][Index(v, k)], v, k)
  <2>1. Path(ts2, v, k) # 0 /\ (k = 1 \/ ~ Points(ts2[Path(ts2, v, k)][Index(v, k)]))
    BY <1>3, <1>4, <1>6 DEF EndsAt
  <2> QED
    BY <1>1, <2>1, WalkEnds
<1> QED
  BY <1>3, <1>5, <1>6, <1>7

(* The walks that come to the entry do so still, and found nothing before. *)
LEMMA SharersWalk ==
  ASSUME NEW ts, NEW ts2, NEW w \in Nat, NEW l \in Level, NEW e, Written(ts, ts2, w, l, e),
         NEW v \in Nat, Agree(v, w, l)
  PROVE  /\ \A k \in Level : k >= l => Path(ts2, v, k) = Path(ts, w, k)
         /\ ts2[Path(ts2, v, l)][Index(v, l)] = e
         /\ paging_translate(ts, v) = UNMAPPED
<1>1. Shape(ts) /\ Shape(ts2) /\ HangOnce(ts) /\ Path(ts, w, l) # 0
  BY DEF Written
<1>2. \A k \in Level : Path(ts, w, k) \in 0 .. Len(ts) /\ Index(w, k) \in Slot /\ Len(ts) \in Nat
  <2>1. Len(ts) \in Nat
    BY <1>1 DEF Shape
  <2> QED
    BY <1>1, <2>1, PathTyped, Quotients
<1>3. ASSUME NEW k \in Level, k > l, Path(ts, w, k) # 0
      PROVE  ts2[Path(ts, w, k)][Index(w, k)] = ts[Path(ts, w, k)][Index(w, k)]
  <2>1. Path(ts, w, k) # Path(ts, w, l)
    <3> SUFFICES ASSUME Path(ts, w, k) = Path(ts, w, l) PROVE FALSE
      OBVIOUS
    <3>1. k = l
      BY <1>1, <1>3, PathUnique
    <3> QED
      BY <1>3, <3>1 DEF Level
  <2>2. Path(ts, w, k) \in Rows(ts)
    BY <1>2, <1>3 DEF Rows
  <2> QED
    BY <1>2, <2>1, <2>2 DEF Written
<1>4. \A k \in Level : k >= l => Path(ts2, v, k) = Path(ts, w, k)
  BY <1>1, <1>3, PathFollows
<1>5. l >= l /\ Index(v, l) = Index(w, l)
  BY DEF Agree, Level
<1>6. ts2[Path(ts2, v, l)][Index(v, l)] = e
  <2>1. Path(ts, w, l) \in Rows(ts) /\ Index(w, l) \in Slot
    BY <1>1, <1>2 DEF Rows
  <2> QED
    BY <1>4, <1>5, <2>1 DEF Written
<1>7. paging_translate(ts, v) = UNMAPPED
  <2>1. \A k \in Level : k >= l => Path(ts, v, k) = Path(ts, w, k)
    BY <1>1, PathFollows
  <2>2. Path(ts, v, l) # 0 /\ ts[Path(ts, v, l)][Index(v, l)] = ABSENT
    BY <1>1, <1>5, <2>1 DEF Written
  <2>3. ~ Points(ABSENT) /\ Found(ABSENT, v, l) = UNMAPPED
    BY DEF Points, ABSENT, Found
  <2>4. paging_translate(ts, v) = IF l = 4 THEN UNMAPPED ELSE Found(ABSENT, v, l)
    BY <1>1, <2>2, <2>3, WalkEnds
  <2> QED
    BY <2>3, <2>4
<1> QED
  BY <1>4, <1>6, <1>7

(* A page of any size appears whole, where nothing was, and nothing else   *)
(* changes.                                                                *)
RunMapped(ts, ts2, w, l, f, flags) ==
  \A v \in Distinct :
    IF v \in Low(w) .. Low(w) + Span[l] - 1
    THEN /\ paging_translate(ts, v) = UNMAPPED
         /\ paging_translate(ts2, v) = [frame |-> f + (v - Low(w)), flags |-> flags]
    ELSE paging_translate(ts2, v) = paging_translate(ts, v)

LEMMA LeafWritten ==
  ASSUME NEW ts, NEW ts2, NEW w \in Nat, NEW l \in 1 .. 3, NEW f \in Nat, NEW flags,
         Written(ts, ts2, w, l, Leaf(f, flags)), w % Span[l] = 0
  PROVE  RunMapped(ts, ts2, w, l, f, flags)
<1> SUFFICES ASSUME NEW v \in Distinct
             PROVE  IF v \in Low(w) .. Low(w) + Span[l] - 1
                    THEN /\ paging_translate(ts, v) = UNMAPPED
                         /\ paging_translate(ts2, v) = [frame |-> f + (v - Low(w)), flags |-> flags]
                    ELSE paging_translate(ts2, v) = paging_translate(ts, v)
  BY DEF RunMapped
<1>1. v \in Nat /\ l \in Level
  BY DEF Distinct, Level
<1>2. Agree(v, w, l) <=> v \in Low(w) .. Low(w) + Span[l] - 1
  BY SameEntry
<1>3. CASE ~ Agree(v, w, l)
  <2>1. paging_translate(ts2, v) = paging_translate(ts, v)
    <3> DEFINE e == Leaf(f, flags)
    <3>1. Written(ts, ts2, w, l, e)
      OBVIOUS
    <3>2. v \in Nat
      BY <1>1
    <3>3. l \in Level
      BY <1>1
    <3> HIDE DEF e
    <3> QED
      BY ONLY <1>3, <3>1, <3>2, <3>3, OthersKept, w \in Nat
  <2> QED
    BY <1>2, <1>3, <2>1
<1>4. CASE Agree(v, w, l)
  <2>1. /\ Path(ts2, v, l) = Path(ts, w, l)
        /\ ts2[Path(ts2, v, l)][Index(v, l)] = Leaf(f, flags)
        /\ paging_translate(ts, v) = UNMAPPED
    <3>1. l >= l
      OBVIOUS
    <3> QED
      BY <1>1, <1>4, <3>1, SharersWalk
  <2>2. Shape(ts2) /\ Path(ts2, v, l) # 0
    BY <2>1 DEF Written
  <2>3. /\ ~ Points(Leaf(f, flags))
        /\ Found(Leaf(f, flags), v, l) = [frame |-> f + (v % Span[l]), flags |-> flags]
    BY DEF Points, Leaf, Found
  <2>4. paging_translate(ts2, v) = Found(Leaf(f, flags), v, l)
    <3>1. l # 4
      OBVIOUS
    <3> QED
      BY <1>1, <2>1, <2>2, <2>3, <3>1, WalkEnds
  <2>5. v % Span[l] = v - Low(w)
    BY <1>2, <1>4, SameEntry
  <2> QED
    BY <1>2, <1>4, <2>1, <2>3, <2>4, <2>5
<1> QED
  BY <1>3, <1>4

(* Linking an empty table changes what no walk finds.                      *)
LEMMA LinkWritten ==
  ASSUME NEW ts, NEW ts2, NEW w \in Nat, NEW l \in 2 .. 4, NEW n \in Nat \ {0},
         Written(ts, ts2, w, l, Pointer(n)), ts2[n] = EmptyTable
  PROVE  /\ Path(ts2, w, l - 1) = n
         /\ \A v \in Nat : paging_translate(ts2, v) = paging_translate(ts, v)
<1>1. l \in Level /\ l - 1 \in 1 .. 3 /\ l - 1 \in Level /\ (l - 1) + 1 = l /\ l >= l /\ l - 1 # 4
  BY DEF Level
<1>2. Shape(ts2) /\ Path(ts, w, l) # 0
  BY DEF Written
<1>3. Points(Pointer(n)) /\ Pointer(n).at = n
  BY DEF Points, Pointer
<1>4. ASSUME NEW v \in Nat, Agree(v, w, l)
      PROVE  /\ Path(ts2, v, l - 1) = n
             /\ paging_translate(ts2, v) = UNMAPPED /\ paging_translate(ts, v) = UNMAPPED
  <2>1. /\ Path(ts2, v, l) = Path(ts, w, l)
        /\ ts2[Path(ts2, v, l)][Index(v, l)] = Pointer(n)
        /\ paging_translate(ts, v) = UNMAPPED
    BY <1>1, <1>4, SharersWalk
  <2>2. Path(ts2, v, l - 1) = Below(ts2, Path(ts2, v, l), Index(v, l))
    <3> DEFINE k == l - 1
    <3>1. k \in 1 .. 3 /\ k + 1 = l
      BY <1>1
    <3> HIDE DEF k
    <3>2. Path(ts2, v, k) = Below(ts2, Path(ts2, v, k + 1), Index(v, k + 1))
      BY <1>2, <3>1, PathTyped
    <3> QED
      BY <3>1, <3>2 DEF k
  <2>3. Path(ts2, v, l - 1) = n
    BY <1>2, <1>3, <2>1, <2>2 DEF Below
  <2>4. ts2[Path(ts2, v, l - 1)][Index(v, l - 1)] = ABSENT
    BY <1>1, <2>3, Quotients DEF EmptyTable, Slot
  <2>5. ~ Points(ABSENT) /\ Found(ABSENT, v, l - 1) = UNMAPPED
    BY DEF Points, ABSENT, Found
  <2>6. paging_translate(ts2, v) = Found(ABSENT, v, l - 1)
    BY <1>1, <1>2, <2>3, <2>4, <2>5, WalkEnds
  <2> QED
    BY <2>1, <2>3, <2>5, <2>6
<1>5. Agree(w, w, l)
  BY DEF Agree
<1>6. ASSUME NEW v \in Nat, ~ Agree(v, w, l)
      PROVE  paging_translate(ts2, v) = paging_translate(ts, v)
  <2>1. l \in Level
    BY <1>1
  <2> DEFINE e == Pointer(n)
  <2>2. Written(ts, ts2, w, l, e)
    OBVIOUS
  <2> HIDE DEF e
  <2> QED
    BY <1>6, <2>1, <2>2, OthersKept
<1> QED
  BY <1>4, <1>5, <1>6

-----------------------------------------------------------------------------
(* The inductive invariant.                                                *)

HangAll(ts) ==
  \A n \in 2 .. Len(ts) : \E t \in Rows(ts), i \in Slot : Points(ts[t][i]) /\ ts[t][i].at = n

TreeInv == Shape(tables) /\ HangOnce(tables) /\ HangAll(tables) /\ Len(tables) <= MaxTables

Walks == [v : Nat, p : Nat, remaining : Nat, flags : PageFlags, level : Level, table : Nat]
Requests == [v : Nat, p : Nat, n : Nat, flags : PageFlags, calls : Nat]

(* The loop stands in the table its address leads to.                      *)
WalkInv ==
  /\ walk \in Walks /\ asked \in Requests
  /\ huge_pages \in BOOLEAN /\ outcome \in {"running", "mapped", "failed"}
  /\ asked.p + asked.n <= FramePages
  /\ walk.table = Path(tables, walk.v, walk.level) /\ walk.table # 0

Behind == asked.n - walk.remaining

ProgressInv == outcome = "running" =>
  /\ walk.remaining \in 1 .. asked.n
  /\ walk.v = asked.v + Behind /\ walk.p = asked.p + Behind /\ walk.flags = asked.flags

Wanted(i) == [frame |-> asked.p + i, flags |-> asked.flags]

(* All that the call is past is mapped.                                    *)
DoneInv ==
  /\ outcome = "running" =>
       \A i \in 0 .. Behind - 1 : paging_translate(tables, Low(asked.v + i)) = Wanted(i)
  /\ outcome = "mapped" =>
       \A i \in 0 .. asked.n - 1 : paging_translate(tables, Low(asked.v + i)) = Wanted(i)

IInv == TreeInv /\ WalkInv /\ ProgressInv /\ DoneInv

LEMMA EntriesTyped ==
  /\ ABSENT \in Entry /\ ~ Points(ABSENT) /\ ABSENT.kind = "absent"
  /\ \A f \in Nat, flags \in PageFlags :
       Leaf(f, flags) \in Entry /\ ~ Points(Leaf(f, flags))
       /\ Leaf(f, flags).kind = "leaf" /\ Leaf(f, flags).at = f
  /\ \A n \in Nat : /\ Pointer(n) \in Entry /\ Points(Pointer(n))
                    /\ Pointer(n).kind = "table" /\ Pointer(n).at = n
BY DEF ABSENT, Leaf, Pointer, Entry, PageFlags, Points

LEMMA EmptyTyped ==
  EmptyTable \in [Slot -> Entry] /\ \A i \in Slot : EmptyTable[i] = ABSENT
BY EntriesTyped DEF EmptyTable, Slot

LEMMA InitInv == Init => IInv
<1> SUFFICES ASSUME Init PROVE IInv
  OBVIOUS
<1> DEFINE empty == EmptyTable
<1>1. empty \in [Slot -> Entry] /\ (\A i \in Slot : empty[i] = ABSENT)
  BY EmptyTyped
<1>2. tables = << empty >>
  BY DEF Init
<1> HIDE DEF empty
<1>3. tables \in Seq([Slot -> Entry]) /\ Len(tables) = 1 /\ Rows(tables) = {1} /\ tables[1] = empty
  BY <1>1, <1>2 DEF Rows
<1>4. Shape(tables) /\ HangOnce(tables)
  BY <1>1, <1>3, EntriesTyped DEF Shape, HangOnce
<1>5. HangAll(tables) /\ Len(tables) <= MaxTables
  BY <1>3, PagingAssumption DEF HangAll
<1>6. WalkInv
  <2>1. walk = AtRoot(0, 0, 0, {}) /\ asked = [v |-> 0, p |-> 0, n |-> 0, flags |-> {}, calls |-> 0]
        /\ huge_pages \in BOOLEAN /\ outcome = "mapped"
    BY DEF Init
  <2>2. walk \in Walks /\ asked \in Requests /\ asked.p + asked.n <= FramePages
    BY <2>1, SpanFacts, PagingAssumption DEF AtRoot, Walks, Requests, PageFlags, Level
  <2>3. walk.table = 1 /\ walk.level = 4 /\ walk.v = 0
    BY <2>1, SpanFacts DEF AtRoot
  <2> QED
    BY <2>1, <2>2, <2>3 DEF WalkInv, Path
<1>7. ProgressInv /\ DoneInv
  BY DEF Init, ProgressInv, DoneInv
<1> QED
  BY <1>4, <1>5, <1>6, <1>7 DEF IInv, TreeInv

(* The page that goes in next fits what is left and where it goes.         *)
LEMMA LeafFacts ==
  ASSUME WalkInv, walk.remaining >= 1
  PROVE  /\ LeafNow \in 1 .. 3
         /\ walk.v % Span[LeafNow] = 0
         /\ Span[LeafNow] \in 1 .. walk.remaining
<1>1. walk.v \in Nat /\ walk.remaining \in Nat
  BY DEF WalkInv, Walks
<1>2. walk.v % 1 = 0
  BY <1>1
<1>3. Span[1] = 1 /\ Span[2] \in Nat \ {0} /\ Span[3] \in Nat \ {0}
  BY SpanFacts DEF Level
<1>4. \/ LeafNow = 3 /\ FitsAt(3, walk.v, walk.p, walk.remaining)
      \/ LeafNow = 2 /\ FitsAt(2, walk.v, walk.p, walk.remaining)
      \/ LeafNow = 1
  BY DEF LeafNow, LeafLevel
<1> QED
  BY <1>1, <1>2, <1>3, <1>4 DEF FitsAt

(* Writing an entry of one table.                                          *)
LEMMA EntryWritten ==
  ASSUME NEW ts \in Seq([Slot -> Entry]), NEW t \in Rows(ts), NEW i \in Slot, NEW e \in Entry
  PROVE  LET ts2 == [ts EXCEPT ![t][i] = e] IN
         /\ ts2 \in Seq([Slot -> Entry]) /\ Len(ts2) = Len(ts)
         /\ \A s \in Rows(ts), j \in Slot :
              ts2[s][j] = IF s = t /\ j = i THEN e ELSE ts[s][j]
<1> DEFINE row == [ts[t] EXCEPT ![i] = e]
           ts2 == [ts EXCEPT ![t][i] = e]
<1>1. ts[t] \in [Slot -> Entry]
  BY DEF Rows
<1>2. row \in [Slot -> Entry] /\ \A j \in Slot : row[j] = IF j = i THEN e ELSE ts[t][j]
  BY <1>1
<1>3. ts2 = [ts EXCEPT ![t] = row]
  OBVIOUS
<1> HIDE DEF row, ts2
<1>4. ts2 \in Seq([Slot -> Entry]) /\ Len(ts2) = Len(ts) /\ ts2[t] = row
      /\ \A s \in Rows(ts) : s # t => ts2[s] = ts[s]
  BY <1>2, <1>3 DEF Rows
<1> QED
  BY <1>2, <1>4 DEF ts2

LEMMA AtWalk ==
  ASSUME TreeInv, WalkInv
  PROVE  /\ walk.v \in Nat /\ walk.level \in Level
         /\ walk.table \in Rows(tables) /\ Index(walk.v, walk.level) \in Slot
         /\ tables \in Seq([Slot -> Entry]) /\ Len(tables) \in Nat
<1>1. walk.v \in Nat /\ walk.level \in Level /\ Shape(tables)
  BY DEF WalkInv, Walks, TreeInv
<1>2. walk.table \in 0 .. Len(tables) /\ walk.table # 0 /\ Index(walk.v, walk.level) \in Slot
  BY <1>1, PathTyped, Quotients DEF WalkInv
<1>3. tables \in Seq([Slot -> Entry]) /\ Len(tables) \in Nat
  BY <1>1 DEF Shape
<1> QED
  BY <1>1, <1>2, <1>3 DEF Rows

-----------------------------------------------------------------------------
(* A page of some size is written.                                         *)
LEMMA MapOneWrites ==
  ASSUME IInv, map_one
  PROVE  /\ LeafNow \in 1 .. 3 /\ walk.v % Span[LeafNow] = 0 /\ Span[LeafNow] \in 1 .. walk.remaining
         /\ walk.p \in 0 .. FramePages - 1 /\ walk.flags \in PageFlags /\ walk.remaining \in 1 .. asked.n
         /\ TreeInv'
         /\ Written(tables, tables', walk.v, LeafNow, Leaf(walk.p, walk.flags))
<1> DEFINE l == LeafNow
           t == walk.table
           i == Index(walk.v, walk.level)
           e == Leaf(walk.p, walk.flags)
<1>1. TreeInv /\ WalkInv /\ ProgressInv /\ outcome = "running"
  BY DEF IInv, map_one
<1>2. walk.remaining \in 1 .. asked.n /\ walk.p = asked.p + Behind
  BY <1>1 DEF ProgressInv
<1>3. walk.p \in Nat /\ walk.remaining \in Nat /\ asked.n \in Nat /\ asked.p \in Nat
      /\ walk.flags \in PageFlags /\ asked.p + asked.n <= FramePages
  BY <1>1 DEF WalkInv, Walks, Requests
<1>4. FramePages \in Nat \ {0}
  BY PagingAssumption
<1>5. walk.p \in 0 .. FramePages - 1
  BY <1>2, <1>3, <1>4 DEF Behind
<1>6. walk.p % FramePages = walk.p
  <2>1. walk.p = 0 * FramePages + walk.p
    BY <1>3, <1>4
  <2> QED
    BY <2>1, <1>4, <1>5, DivUnique
<1>7. l \in 1 .. 3 /\ walk.v % Span[l] = 0 /\ Span[l] \in 1 .. walk.remaining
  BY <1>1, <1>2, <1>3, LeafFacts
<1>8. walk.level = l /\ tables[t][i] = ABSENT /\ tables' = [tables EXCEPT ![t][i] = e]
  BY <1>6 DEF map_one, LeafFree, EntryNow, WithEntry
<1>9. e \in Entry /\ ~ Points(e) /\ e.kind = "leaf" /\ e.at = walk.p /\ ~ Points(ABSENT)
  BY <1>3, EntriesTyped
<1>10. t \in Rows(tables) /\ i \in Slot /\ tables \in Seq([Slot -> Entry]) /\ Len(tables) \in Nat
       /\ walk.v \in Nat /\ walk.level \in Level
  BY <1>1, AtWalk
<1>11. t = Path(tables, walk.v, walk.level) /\ t # 0
  BY <1>1 DEF WalkInv
<1> HIDE DEF e, i, t, l
<1>12. /\ tables' \in Seq([Slot -> Entry]) /\ Len(tables') = Len(tables)
       /\ \A s \in Rows(tables), j \in Slot :
            tables'[s][j] = IF s = t /\ j = i THEN e ELSE tables[s][j]
  BY <1>8, <1>9, <1>10, EntryWritten
<1>13. Rows(tables') = Rows(tables)
  BY <1>12 DEF Rows
<1>14. Shape(tables')
  BY <1>1, <1>5, <1>9, <1>12, <1>13 DEF TreeInv, Shape
<1>15. \A s \in Rows(tables), j \in Slot :
         /\ Points(tables'[s][j]) <=> Points(tables[s][j])
         /\ Points(tables[s][j]) => tables'[s][j] = tables[s][j]
  BY <1>8, <1>9, <1>12
<1>16. HangOnce(tables')
  BY <1>1, <1>13, <1>15 DEF TreeInv, HangOnce
<1>17. HangAll(tables')
  <2> SUFFICES ASSUME NEW n \in 2 .. Len(tables)
               PROVE  \E s \in Rows(tables), j \in Slot : Points(tables'[s][j]) /\ tables'[s][j].at = n
    BY <1>12, <1>13 DEF HangAll
  <2>1. PICK s \in Rows(tables), j \in Slot : Points(tables[s][j]) /\ tables[s][j].at = n
    BY <1>1 DEF TreeInv, HangAll
  <2> QED
    BY <2>1, <1>15
<1>18. TreeInv'
  BY <1>1, <1>12, <1>14, <1>16, <1>17 DEF TreeInv
<1>19. Written(tables, tables', walk.v, l, e)
  <2>1. Shape(tables) /\ HangOnce(tables)
    BY <1>1 DEF TreeInv
  <2>2. t = Path(tables, walk.v, l) /\ i = Index(walk.v, l)
    BY <1>8, <1>11 DEF i
  <2> QED
    BY <2>1, <2>2, <1>8, <1>11, <1>12, <1>14 DEF Written
<1> QED
  BY <1>2, <1>3, <1>5, <1>7, <1>18, <1>19 DEF l, e

(* What it changes: a run of pages of which none was mapped.               *)
LEMMA MapOneMaps ==
  ASSUME IInv, map_one
  PROVE  /\ Low(walk.v) \in Nat /\ Low(walk.v) + Span[LeafNow] <= Translatable
         /\ RunMapped(tables, tables', walk.v, LeafNow, walk.p, walk.flags)
         /\ \A j \in 0 .. Span[LeafNow] - 1 : Low(walk.v + j) = Low(walk.v) + j
<1>1. LeafNow \in 1 .. 3 /\ walk.v % Span[LeafNow] = 0
      /\ Written(tables, tables', walk.v, LeafNow, Leaf(walk.p, walk.flags))
  BY MapOneWrites
<1>2. walk.v \in Nat /\ walk.p \in Nat
  BY DEF IInv, WalkInv, Walks
<1> DEFINE w == walk.v
           l == LeafNow
           f == walk.p
           flags == walk.flags
           after == tables'
<1> HIDE DEF w, l, f, flags, after
<1>3. l \in 1 .. 3 /\ w % Span[l] = 0 /\ w \in Nat /\ f \in Nat
      /\ Written(tables, after, w, l, Leaf(f, flags))
  BY <1>1, <1>2 DEF w, l, f, flags, after
<1>4. RunMapped(tables, after, w, l, f, flags)
  BY <1>3, LeafWritten
<1>5. /\ Low(w) \in Nat /\ Low(w) + Span[l] <= Translatable
      /\ \A j \in 0 .. Span[l] - 1 : Low(w + j) = Low(w) + j
  BY <1>3, SameEntry
<1> QED
  BY <1>4, <1>5 DEF w, l, f, flags, after

(* An empty table is linked.                                               *)
LEMMA CreatingLinks ==
  ASSUME IInv, descend_creating
  PROVE  /\ TreeInv'
         /\ Path(tables', walk.v, walk.level - 1) = Len(tables) + 1
         /\ \A v \in Nat : paging_translate(tables', v) = paging_translate(tables, v)
<1> DEFINE l == walk.level
           t == walk.table
           i == Index(walk.v, walk.level)
           n == Len(tables) + 1
           e == Pointer(n)
           linked == [tables EXCEPT ![t][i] = e]
<1>1. TreeInv /\ WalkInv /\ ProgressInv /\ outcome = "running"
  BY DEF IInv, descend_creating
<1>2. t \in Rows(tables) /\ i \in Slot /\ tables \in Seq([Slot -> Entry]) /\ Len(tables) \in Nat
       /\ walk.v \in Nat /\ walk.level \in Level
  BY <1>1, AtWalk
<1>3. l \in 2 .. 4
  <2>1. LeafNow \in 1 .. 3
    BY <1>1, LeafFacts DEF ProgressInv, WalkInv, Requests
  <2>2. l > LeafNow
    BY DEF descend_creating
  <2> QED
    BY <2>1, <2>2, <1>2 DEF Level
<1>4. tables[t][i] = ABSENT /\ Len(tables) < MaxTables /\ tables' = Append(linked, EmptyTable)
  BY DEF descend_creating, EntryNow, WithEntry, Linked
<1>5. n \in Nat \ {0}
  BY <1>2
<1>6. e \in Entry /\ Points(e) /\ e.at = n /\ e.kind = "table" /\ ~ Points(ABSENT)
  BY <1>5, EntriesTyped
<1>7. t = Path(tables, walk.v, walk.level) /\ t # 0
  BY <1>1 DEF WalkInv
<1> HIDE DEF e, i, t
<1>8. /\ linked \in Seq([Slot -> Entry]) /\ Len(linked) = Len(tables)
      /\ \A s \in Rows(tables), j \in Slot :
           linked[s][j] = IF s = t /\ j = i THEN e ELSE tables[s][j]
  BY <1>2, <1>6, EntryWritten
<1> HIDE DEF linked
<1> DEFINE empty == EmptyTable
<1>9. empty \in [Slot -> Entry] /\ \A j \in Slot : empty[j] = ABSENT
  BY EmptyTyped
<1>10. tables' = Append(linked, empty)
  BY <1>4
<1> HIDE DEF empty
<1>11. /\ tables' \in Seq([Slot -> Entry]) /\ Len(tables') = n /\ tables'[n] = empty
       /\ \A s \in Rows(tables) : tables'[s] = linked[s]
  <2>1. tables' \in Seq([Slot -> Entry])
    BY <1>8, <1>9, <1>10
  <2>2. Len(tables') = Len(linked) + 1 /\ tables'[Len(linked) + 1] = empty
    BY <1>8, <1>9, <1>10
  <2>3. \A s \in 1 .. Len(linked) : tables'[s] = linked[s]
    BY <1>8, <1>9, <1>10
  <2> QED
    BY <2>1, <2>2, <2>3, <1>8 DEF Rows
<1>12. Rows(tables') = Rows(tables) \cup {n} /\ n \notin Rows(tables)
  BY <1>2, <1>11 DEF Rows
<1>13. \A s \in Rows(tables), j \in Slot :
         tables'[s][j] = IF s = t /\ j = i THEN e ELSE tables[s][j]
  BY <1>8, <1>11
<1>14. \A j \in Slot : tables'[n][j] = ABSENT
  BY <1>9, <1>11
<1>15. Shape(tables) /\ HangOnce(tables) /\ HangAll(tables)
  BY <1>1 DEF TreeInv
<1> HIDE DEF n
<1>16. \A s \in Rows(tables), j \in Slot : Points(tables[s][j]) => tables[s][j].at \in s + 1 .. n - 1
  BY <1>15, <1>2 DEF Shape, n
<1>17. t \in 1 .. n - 1
  BY <1>2 DEF Rows, n
<1>18. Shape(tables')
  <2>1. Len(tables') >= 1
    BY <1>5, <1>11
  <2>2. ASSUME NEW s \in Rows(tables'), NEW j \in Slot
        PROVE  /\ Points(tables'[s][j]) => tables'[s][j].at \in s + 1 .. Len(tables')
               /\ tables'[s][j].kind = "leaf" => tables'[s][j].at \in 0 .. FramePages - 1
    <3>1. CASE s = n
      BY <3>1, <1>14, EntriesTyped
    <3>2. CASE s = t /\ j = i
      BY <3>2, <1>2, <1>5, <1>6, <1>11, <1>13, <1>17
    <3>3. CASE s \in Rows(tables) /\ ~ (s = t /\ j = i)
      <4>1. tables'[s][j] = tables[s][j]
        BY <3>3, <1>13
      <4>2. tables[s][j].kind = "leaf" => tables[s][j].at \in 0 .. FramePages - 1
        BY <3>3, <1>15 DEF Shape
      <4>3. s \in Nat
        BY <3>3, <1>2 DEF Rows
      <4> QED
        BY <3>3, <4>1, <4>2, <4>3, <1>5, <1>11, <1>16
    <3> QED
      BY <3>1, <3>2, <3>3, <1>12
  <2> QED
    BY <2>1, <2>2, <1>11 DEF Shape
<1>19. HangOnce(tables')
  <2> SUFFICES ASSUME NEW s \in Rows(tables'), NEW r \in Rows(tables'), NEW j \in Slot, NEW k \in Slot,
                      Points(tables'[s][j]), Points(tables'[r][k]), tables'[s][j].at = tables'[r][k].at
               PROVE  s = r /\ j = k
    BY DEF HangOnce
  <2>1. s \in Rows(tables) /\ r \in Rows(tables)
    BY <1>6, <1>12, <1>14
  <2>2. ASSUME NEW a \in Rows(tables), NEW b \in Slot, Points(tables'[a][b])
        PROVE  IF a = t /\ b = i THEN tables'[a][b].at = n
               ELSE tables'[a][b] = tables[a][b] /\ tables[a][b].at # n
    BY <2>2, <1>5, <1>6, <1>13, <1>16
  <2> QED
    BY <2>1, <2>2, <1>15 DEF HangOnce
<1>20. HangAll(tables')
  <2> SUFFICES ASSUME NEW m \in 2 .. n
               PROVE  \E s \in Rows(tables'), j \in Slot : Points(tables'[s][j]) /\ tables'[s][j].at = m
    BY <1>11 DEF HangAll
  <2>1. CASE m = n
    BY <2>1, <1>2, <1>6, <1>12, <1>13
  <2>2. CASE m # n
    <3>1. m \in 2 .. Len(tables)
      BY <2>2, <1>2 DEF n
    <3>2. PICK s \in Rows(tables), j \in Slot : Points(tables[s][j]) /\ tables[s][j].at = m
      BY <3>1, <1>15 DEF HangAll
    <3>3. ~ (s = t /\ j = i)
      BY <3>2, <1>4, <1>6 DEF t, i
    <3> QED
      BY <3>2, <3>3, <1>12, <1>13
  <2> QED
    BY <2>1, <2>2
<1>21. TreeInv'
  <2>1. Len(tables') <= MaxTables
    BY <1>2, <1>4, <1>11, PagingAssumption DEF n
  <2> QED
    BY <2>1, <1>18, <1>19, <1>20 DEF TreeInv
<1>22. Written(tables, tables', walk.v, l, e)
  BY <1>4, <1>7, <1>13, <1>15, <1>18 DEF Written, i, t
<1>23. /\ Path(tables', walk.v, l - 1) = n
       /\ \A v \in Nat : paging_translate(tables', v) = paging_translate(tables, v)
  <2> DEFINE after == tables'
             w == walk.v
  <2>1. Written(tables, after, w, l, Pointer(n)) /\ after[n] = EmptyTable /\ w \in Nat
    BY <1>2, <1>11, <1>22 DEF e, empty
  <2> HIDE DEF after, w, l
  <2>2. /\ Path(after, w, l - 1) = n
        /\ \A v \in Nat : paging_translate(after, v) = paging_translate(tables, v)
    BY <2>1, <1>3, <1>5, LinkWritten
  <2> QED
    BY <2>2 DEF after, w, l
<1> QED
  BY <1>21, <1>23 DEF l, n

-----------------------------------------------------------------------------
(* Every action keeps the invariant.                                       *)
LEMMA DoneKept ==
  ASSUME DoneInv, outcome' = outcome \/ outcome' = "failed",
         asked' = asked, walk'.remaining = walk.remaining,
         WalkInv,
         \A v \in Nat : paging_translate(tables', v) = paging_translate(tables, v)
  PROVE  DoneInv'
<1>1. \A i \in Nat : Low(asked.v + i) \in Nat
  BY IndexWraps DEF WalkInv, Requests
<1>2. asked.n \in Nat /\ walk.remaining \in Nat
  BY DEF WalkInv, Walks, Requests
<1>3. \A i \in Nat : paging_translate(tables', Low(asked.v + i)) = paging_translate(tables, Low(asked.v + i))
  BY <1>1
<1>4. /\ \A i \in 0 .. asked.n - 1 : i \in Nat
      /\ \A i \in 0 .. Behind - 1 : i \in Nat
  BY <1>2 DEF Behind
<1>5. Behind' = Behind /\ \A i : Wanted(i)' = Wanted(i)
  BY DEF Behind, Wanted
<1> QED
  BY <1>3, <1>4, <1>5 DEF DoneInv

LEMMA MapInv ==
  ASSUME IInv, NEW v \in Nat, NEW p \in Nat, NEW n \in Nat, NEW flags \in PageFlags,
         p + n <= FramePages, paging_map(v, p, n, flags)
  PROVE  IInv'
<1>1. TreeInv /\ WalkInv
  BY DEF IInv
<1>2. /\ asked' = [v |-> v, p |-> p, n |-> n, flags |-> flags, calls |-> asked.calls + 1]
      /\ walk' = AtRoot(v, p, n, flags) /\ outcome' = "running"
      /\ tables' = tables /\ huge_pages' = huge_pages /\ n # 0
  BY DEF paging_map, Acceptable
<1>3. TreeInv'
  BY <1>1, <1>2 DEF TreeInv
<1>4. /\ walk'.v = v /\ walk'.p = p /\ walk'.remaining = n /\ walk'.flags = flags
      /\ walk'.level = 4 /\ walk'.table = 1
      /\ walk' \in Walks
  BY <1>2, SpanFacts DEF AtRoot, Walks, Level
<1>5. WalkInv'
  <2>1. asked' \in Requests
    BY <1>1, <1>2 DEF WalkInv, Requests
  <2> QED
    BY <2>1, <1>1, <1>2, <1>4 DEF WalkInv, Path
<1>6. Behind' = 0
  BY <1>2, <1>4 DEF Behind
<1>7. ProgressInv'
  BY <1>2, <1>4, <1>6 DEF ProgressInv
<1>8. DoneInv'
  BY <1>2, <1>6 DEF DoneInv
<1> QED
  BY <1>3, <1>5, <1>7, <1>8 DEF IInv

LEMMA DescendInv == IInv /\ descend => IInv'
<1> SUFFICES ASSUME IInv, descend PROVE IInv'
  OBVIOUS
<1>1. TreeInv /\ WalkInv /\ ProgressInv /\ DoneInv /\ outcome = "running" /\ Shape(tables)
  BY DEF IInv, descend, TreeInv
<1>2. /\ walk.level > LeafNow /\ EntryNow.kind = "table"
      /\ walk' = [walk EXCEPT !.table = EntryNow.at, !.level = walk.level - 1]
      /\ tables' = tables /\ huge_pages' = huge_pages /\ asked' = asked /\ outcome' = outcome
  BY DEF descend
<1>3. /\ walk.v \in Nat /\ walk.level \in Level
      /\ walk.table \in Rows(tables) /\ Index(walk.v, walk.level) \in Slot /\ Len(tables) \in Nat
  BY <1>1, AtWalk
<1>4. walk.level \in 2 .. 4
  <2>1. LeafNow \in 1 .. 3
    BY <1>1, LeafFacts DEF ProgressInv, WalkInv, Requests
  <2> QED
    BY <2>1, <1>2, <1>3 DEF Level
<1>5. EntryNow.at \in walk.table + 1 .. Len(tables) /\ walk.table \in Nat
  BY <1>1, <1>2, <1>3 DEF Shape, EntryNow, Points, Rows
<1>6. EntryNow.at \in Nat \ {0}
  BY <1>3, <1>5
<1>7. Path(tables, walk.v, walk.level - 1) = EntryNow.at
  <2> DEFINE k == walk.level - 1
  <2>1. k \in 1 .. 3 /\ k + 1 = walk.level
    BY <1>4
  <2> HIDE DEF k
  <2>2. Path(tables, walk.v, k) = Below(tables, Path(tables, walk.v, k + 1), Index(walk.v, k + 1))
    BY <1>1, <1>3, <2>1, PathTyped
  <2>3. Path(tables, walk.v, k + 1) = walk.table /\ walk.table # 0
    BY <1>1, <2>1 DEF WalkInv
  <2>4. Path(tables, walk.v, k) = EntryNow.at
    BY <1>2, <2>1, <2>2, <2>3 DEF Below, Points, EntryNow
  <2> QED
    BY <2>4 DEF k
<1>8. walk \in Walks
  BY <1>1 DEF WalkInv
<1> DEFINE at == EntryNow.at
<1> HIDE DEF at
<1>9. walk' = [walk EXCEPT !.table = at, !.level = walk.level - 1] /\ at \in Nat \ {0}
  BY <1>2, <1>6 DEF at
<1>10. /\ walk'.v = walk.v /\ walk'.p = walk.p /\ walk'.remaining = walk.remaining
       /\ walk'.flags = walk.flags /\ walk'.table = at /\ walk'.level = walk.level - 1
       /\ walk' \in Walks
  <2>1. walk.level - 1 \in Level
    BY <1>4 DEF Level
  <2> DEFINE k == walk.level - 1
  <2>2. walk' = [walk EXCEPT !.table = at, !.level = k] /\ k \in Level
    BY <2>1, <1>9
  <2> HIDE DEF k
  <2>3. /\ walk'.v = walk.v /\ walk'.p = walk.p /\ walk'.remaining = walk.remaining
        /\ walk'.flags = walk.flags /\ walk'.table = at /\ walk'.level = k
        /\ walk' \in Walks
    BY <2>2, <1>8, <1>9 DEF Walks
  <2> QED
    BY <2>3 DEF k
<1>11. WalkInv'
  BY <1>1, <1>2, <1>7, <1>9, <1>10 DEF WalkInv, at
<1>12. Behind' = Behind
  BY <1>2, <1>10 DEF Behind
<1>13. ProgressInv'
  BY <1>1, <1>2, <1>10, <1>12 DEF ProgressInv
<1>14. DoneInv'
  BY <1>1, <1>2, <1>10, DoneKept
<1>15. TreeInv'
  BY <1>1, <1>2 DEF TreeInv
<1> QED
  BY <1>11, <1>13, <1>14, <1>15 DEF IInv

LEMMA CreatingInv == IInv /\ descend_creating => IInv'
<1> SUFFICES ASSUME IInv, descend_creating PROVE IInv'
  OBVIOUS
<1>1. TreeInv /\ WalkInv /\ ProgressInv /\ DoneInv /\ outcome = "running"
  BY DEF IInv, descend_creating
<1>2. /\ walk.level > LeafNow
      /\ walk' = [walk EXCEPT !.table = Len(tables) + 1, !.level = walk.level - 1]
      /\ huge_pages' = huge_pages /\ asked' = asked /\ outcome' = outcome
  BY DEF descend_creating
<1>3. walk.v \in Nat /\ walk.level \in Level /\ Len(tables) \in Nat
  BY <1>1, AtWalk
<1>4. walk.level \in 2 .. 4
  <2>1. LeafNow \in 1 .. 3
    BY <1>1, LeafFacts DEF ProgressInv, WalkInv, Requests
  <2> QED
    BY <2>1, <1>2, <1>3 DEF Level
<1>5. /\ TreeInv'
      /\ Path(tables', walk.v, walk.level - 1) = Len(tables) + 1
      /\ \A v \in Nat : paging_translate(tables', v) = paging_translate(tables, v)
  BY CreatingLinks
<1>6. walk \in Walks
  BY <1>1 DEF WalkInv
<1>7. /\ walk'.v = walk.v /\ walk'.p = walk.p /\ walk'.remaining = walk.remaining
      /\ walk'.flags = walk.flags /\ walk'.table = Len(tables) + 1 /\ walk'.level = walk.level - 1
      /\ walk' \in Walks
  <2> DEFINE k == walk.level - 1
             n == Len(tables) + 1
  <2>1. walk' = [walk EXCEPT !.table = n, !.level = k] /\ k \in Level /\ n \in Nat
    BY <1>2, <1>3, <1>4 DEF Level
  <2> HIDE DEF k, n
  <2>2. /\ walk'.v = walk.v /\ walk'.p = walk.p /\ walk'.remaining = walk.remaining
        /\ walk'.flags = walk.flags /\ walk'.table = n /\ walk'.level = k
        /\ walk' \in Walks
    BY <2>1, <1>6 DEF Walks
  <2> QED
    BY <2>2 DEF k, n
<1>8. WalkInv'
  BY <1>1, <1>2, <1>3, <1>5, <1>7 DEF WalkInv
<1>9. Behind' = Behind
  BY <1>2, <1>7 DEF Behind
<1>10. ProgressInv'
  BY <1>1, <1>2, <1>7, <1>9 DEF ProgressInv
<1>11. DoneInv'
  BY <1>1, <1>2, <1>5, <1>7, DoneKept
<1> QED
  BY <1>5, <1>8, <1>10, <1>11 DEF IInv

LEMMA GivenUpInv == IInv /\ (descend_refused \/ map_one_refused) => IInv'
<1> SUFFICES ASSUME IInv, descend_refused \/ map_one_refused PROVE IInv'
  OBVIOUS
<1>1. /\ tables' = tables /\ huge_pages' = huge_pages /\ walk' = walk /\ asked' = asked
      /\ outcome' = "failed"
  BY DEF descend_refused, map_one_refused
<1> QED
  BY <1>1 DEF IInv, TreeInv, WalkInv, ProgressInv, DoneInv

LEMMA MapOneInv == IInv /\ map_one => IInv'
<1> SUFFICES ASSUME IInv, map_one PROVE IInv'
  OBVIOUS
<1> DEFINE s == Span[LeafNow]
           w == walk.v
<1>1. WalkInv /\ ProgressInv /\ DoneInv /\ outcome = "running"
  BY DEF IInv, map_one
<1>2. /\ s \in 1 .. walk.remaining /\ walk.flags \in PageFlags
      /\ walk.remaining \in 1 .. asked.n /\ TreeInv'
  BY MapOneWrites
<1>3. /\ walk' = AtRoot(walk.v + s, walk.p + s, walk.remaining - s, walk.flags)
      /\ outcome' = IF walk.remaining = s THEN "mapped" ELSE "running"
      /\ huge_pages' = huge_pages /\ asked' = asked
  BY DEF map_one, Advance, LastPiece
<1>4. /\ walk.v \in Nat /\ walk.p \in Nat /\ walk.remaining \in Nat
      /\ asked.v \in Nat /\ asked.p \in Nat /\ asked.n \in Nat
  BY <1>1 DEF WalkInv, Walks, Requests
<1>5. /\ Low(w) \in Nat /\ Low(w) + s <= Translatable
      /\ RunMapped(tables, tables', w, LeafNow, walk.p, walk.flags)
      /\ \A j \in 0 .. s - 1 : Low(w + j) = Low(w) + j
  BY MapOneMaps
<1>6. walk.v = asked.v + Behind /\ walk.p = asked.p + Behind /\ walk.flags = asked.flags
  BY <1>1 DEF ProgressInv
<1> HIDE DEF s
<1>7. s \in Nat \ {0}
  BY <1>2, <1>4
<1>8. /\ walk'.v = walk.v + s /\ walk'.p = walk.p + s /\ walk'.remaining = walk.remaining - s
      /\ walk'.flags = walk.flags /\ walk'.level = 4 /\ walk'.table = 1
      /\ walk' \in Walks
  BY <1>2, <1>3, <1>4, <1>7, SpanFacts DEF AtRoot, Walks, Level
<1>9. WalkInv'
  BY <1>1, <1>3, <1>8 DEF WalkInv, Path
<1>10. Behind' = Behind + s /\ Behind \in Nat
  BY <1>2, <1>3, <1>4, <1>7, <1>8 DEF Behind
<1>11. ProgressInv'
  <2> SUFFICES ASSUME outcome' = "running" PROVE ProgressInv'
    BY DEF ProgressInv
  <2>1. walk.remaining # s
    BY <1>3
  <2>2. walk'.remaining \in 1 .. asked.n
    BY <2>1, <1>2, <1>4, <1>7, <1>8
  <2>3. walk'.v = asked.v + (Behind + s) /\ walk'.p = asked.p + (Behind + s)
    BY <1>4, <1>6, <1>7, <1>8, <1>10
  <2> QED
    BY <2>2, <2>3, <1>3, <1>6, <1>8, <1>10 DEF ProgressInv
<1>12. ASSUME NEW i \in 0 .. (Behind + s) - 1
       PROVE  paging_translate(tables', Low(asked.v + i)) = Wanted(i)
  <2>1. i \in Nat
    BY <1>7, <1>10
  <2>2. Low(asked.v + i) \in Distinct
    <3>1. asked.v + i \in Nat /\ Translatable \in Nat
      BY <2>1, <1>4, SpanFacts
    <3>2. Low(asked.v + i) \in Nat /\ Low(asked.v + i) < Translatable
      BY <3>1, IndexWraps
    <3> QED
      BY <3>1, <3>2 DEF Distinct
  <2>3. CASE i < Behind
    <3>1. paging_translate(tables, Low(asked.v + i)) = Wanted(i)
      BY <2>1, <2>3, <1>1, <1>10 DEF DoneInv
    <3>2. Wanted(i) # UNMAPPED
      <4>1. Wanted(i).frame = asked.p + i /\ UNMAPPED.frame = -1
        BY DEF Wanted, UNMAPPED
      <4>2. asked.p + i \in Nat
        BY <2>1, <1>4
      <4>3. asked.p + i # -1
        BY <4>2
      <4> QED
        BY <4>1, <4>3
    <3> QED
      BY <2>2, <3>1, <3>2, <1>5 DEF RunMapped
  <2>4. CASE i >= Behind
    <3> DEFINE j == i - Behind
    <3>1. j \in 0 .. s - 1 /\ asked.v + i = w + j /\ asked.p + i = walk.p + j
      BY <2>1, <2>4, <1>4, <1>6, <1>7, <1>10
    <3>2. Low(asked.v + i) = Low(w) + j
      BY <3>1, <1>5
    <3> HIDE DEF j
    <3>3. Low(asked.v + i) \in Low(w) .. Low(w) + s - 1 /\ Low(asked.v + i) - Low(w) = j
      BY <3>1, <3>2, <1>5, <1>7
    <3>4. paging_translate(tables', Low(asked.v + i)) =
            [frame |-> walk.p + (Low(asked.v + i) - Low(w)), flags |-> walk.flags]
      BY <2>2, <3>3, <1>5 DEF RunMapped, s
    <3> QED
      BY <3>1, <3>3, <3>4, <1>6 DEF Wanted
  <2> QED
    BY <2>1, <2>3, <2>4, <1>10
<1>13. DoneInv'
  <2>1. \A i : Wanted(i)' = Wanted(i)
    BY <1>3 DEF Wanted
  <2>2. walk.remaining = s => asked.n = Behind + s
    BY <1>4 DEF Behind
  <2>3. outcome' = "running" =>
          \A i \in 0 .. Behind' - 1 : paging_translate(tables', Low(asked'.v + i)) = Wanted(i)'
    BY <2>1, <1>3, <1>10, <1>12
  <2>4. outcome' = "mapped" =>
          \A i \in 0 .. asked'.n - 1 : paging_translate(tables', Low(asked'.v + i)) = Wanted(i)'
    BY <2>1, <2>2, <1>3, <1>12
  <2> QED
    BY <2>3, <2>4 DEF DoneInv
<1> QED
  BY <1>2, <1>9, <1>11, <1>13 DEF IInv

LEMMA NextInv == IInv /\ [Next]_vars => IInv'
<1> SUFFICES ASSUME IInv, [Next]_vars PROVE IInv'
  OBVIOUS
<1>1. ASSUME NEW v \in Virtuals, NEW p \in Physicals, NEW n \in Lengths, NEW flags \in Flags,
             paging_map(v, p, n, flags)
      PROVE  IInv'
  <2>1. v \in Nat /\ p \in Nat /\ n \in Nat /\ flags \in PageFlags /\ p + n <= FramePages
    BY PagingAssumption
  <2> QED
    BY <1>1, <2>1, MapInv
<1>2. ASSUME vars' = vars PROVE IInv'
  BY <1>2 DEF vars, IInv, TreeInv, WalkInv, ProgressInv, DoneInv, Behind, Wanted
<1>3. ASSUME NEW v \in Virtuals, NEW p \in Physicals, NEW n \in Lengths, paging_map_refused(v, p, n)
      PROVE  IInv'
  BY <1>2, <1>3 DEF paging_map_refused, vars
<1>4. Step => IInv'
  BY DescendInv, CreatingInv, GivenUpInv, MapOneInv DEF Step
<1> QED
  BY <1>1, <1>2, <1>3, <1>4 DEF Next

LEMMA PagingInvariant == Spec => []IInv
<1>1. Init => IInv
  BY InitInv
<1>2. IInv /\ [Next]_vars => IInv'
  BY NextInv
<1> QED
  BY <1>1, <1>2, PTL DEF Spec

-----------------------------------------------------------------------------
LEMMA TreeIsTree == IInv => TablesAreTree
<1> SUFFICES ASSUME IInv PROVE TablesAreTree
  OBVIOUS
<1> DEFINE used == {place \in Places : place[1] <= Len(tables) /\ EntryAt(place).kind = "table"}
<1>1. Shape(tables) /\ HangOnce(tables) /\ HangAll(tables) /\ Len(tables) <= MaxTables /\ Len(tables) \in Nat
  BY DEF IInv, TreeInv, Shape
<1>2. MaxTables \in Nat
  BY PagingAssumption
<1>3. ASSUME NEW place \in used
      PROVE  /\ place[1] \in Rows(tables) /\ place[2] \in Slot /\ place = <<place[1], place[2]>>
             /\ Points(tables[place[1]][place[2]]) /\ EntryAt(place) = tables[place[1]][place[2]]
  BY <1>1, <1>2 DEF Places, EntryAt, Rows, Slot, Points
<1>4. ASSUME NEW t \in Rows(tables), NEW i \in Slot, Points(tables[t][i])
      PROVE  <<t, i>> \in used /\ EntryAt(<<t, i>>) = tables[t][i]
  BY <1>1, <1>2, <1>4 DEF Places, EntryAt, Rows, Slot, Points
<1> HIDE DEF used
<1>5. \A place \in used : EntryAt(place).at > place[1]
  <2> TAKE place \in used
  <2> DEFINE a == place[1]
             b == place[2]
  <2>1. a \in Rows(tables) /\ b \in Slot /\ Points(tables[a][b]) /\ EntryAt(place) = tables[a][b]
    BY <1>3
  <2> HIDE DEF a, b
  <2>2. tables[a][b].at \in a + 1 .. Len(tables) /\ a \in Nat
    BY <1>1, <2>1 DEF Shape, Rows
  <2> QED
    BY <2>1, <2>2, <1>1 DEF a
<1>6. ASSUME NEW t \in 2 .. Len(tables)
      PROVE  \E place \in used : /\ EntryAt(place).at = t
                                /\ \A other \in used : EntryAt(other).at = t => other = place
  <2>1. PICK s \in Rows(tables), i \in Slot : Points(tables[s][i]) /\ tables[s][i].at = t
    BY <1>1 DEF HangAll
  <2>2. <<s, i>> \in used /\ EntryAt(<<s, i>>).at = t
    BY <1>4, <2>1
  <2>3. ASSUME NEW other \in used, EntryAt(other).at = t PROVE other = <<s, i>>
    <3>1. other[1] = s /\ other[2] = i
      BY <1>1, <1>3, <2>1, <2>3 DEF HangOnce
    <3> QED
      BY <3>1, <1>3
  <2> QED
    BY <2>2, <2>3
<1> QED
  BY <1>5, <1>6 DEF TablesAreTree, used

(* The tables are a tree after any calls, those that gave up half way      *)
(* included (descend and allocate_table of paging.c).                      *)
THEOREM TablesAlwaysTree == Spec => []TablesAreTree
BY TreeIsTree, PagingInvariant, PTL

LEMMA CompleteIsComplete == IInv => SuccessIsComplete
BY DEF IInv, DoneInv, SuccessIsComplete, Wanted, Low

(* A call that reports success has mapped every page it was asked for, at  *)
(* its frame and with its flags, whatever sizes of page it was made of and *)
(* whatever earlier calls left behind (paging_map).                        *)
THEOREM SuccessIsAlwaysComplete == Spec => []SuccessIsComplete
BY CompleteIsComplete, PagingInvariant, PTL

(* What a step does to the address space: nothing, or one whole page.      *)
LEMMA StepMaps ==
  ASSUME IInv, [Next]_vars
  PROVE  \/ \A v \in Distinct : paging_translate(tables', v) = paging_translate(tables, v)
         \/ map_one
<1>1. CASE tables' = tables
  BY <1>1
<1>2. CASE descend_creating
  <2>1. \A v \in Distinct : v \in Nat
    BY DEF Distinct
  <2> QED
    BY <1>2, <2>1, CreatingLinks
<1> QED
  BY <1>1, <1>2 DEF Next, Step, vars, paging_map, paging_map_refused, descend, descend_refused,
     map_one_refused

(* An empty root maps nothing.                                             *)
LEMMA NothingAtFirst ==
  ASSUME Init, NEW v \in Distinct
  PROVE  paging_translate(tables, v) = UNMAPPED
<1>1. v \in Nat /\ 4 \in Level
  BY DEF Distinct, Level
<1>2. Shape(tables) /\ tables[1] = EmptyTable
  BY InitInv DEF IInv, TreeInv, Init
<1>3. Path(tables, v, 4) = 1 /\ tables[1][Index(v, 4)] = ABSENT
  BY <1>1, <1>2, Quotients, EmptyTyped DEF Path
<1>4. ~ Points(ABSENT) /\ 1 # 0
  BY EntriesTyped
<1> QED
  BY <1>1, <1>2, <1>3, <1>4, WalkEnds

(* A page that a step changes was unmapped, and is now the page of the     *)
(* range that was asked for.                                               *)
Grown(v) ==
  LET before == paging_translate(tables, v)
      after  == paging_translate(tables', v)
  IN  after # before =>
        /\ before = UNMAPPED
        /\ \E i \in 0 .. asked.n - 1 :
             /\ v = (asked.v + i) % Translatable
             /\ after = [frame |-> asked.p + i, flags |-> asked.flags]

LEMMA NextGrows == IInv /\ [Next]_vars => \A v \in Distinct : Grown(v)
<1> SUFFICES ASSUME IInv, map_one, NEW v \in Distinct PROVE Grown(v)
  BY StepMaps DEF Grown
<1> DEFINE s == Span[LeafNow]
           w == walk.v
<1>1. /\ s \in 1 .. walk.remaining /\ walk.remaining \in 1 .. asked.n
  BY MapOneWrites
<1>2. /\ walk.v \in Nat /\ walk.p \in Nat /\ walk.remaining \in Nat
      /\ asked.v \in Nat /\ asked.p \in Nat /\ asked.n \in Nat
  BY DEF IInv, WalkInv, Walks, Requests
<1>3. /\ Low(w) \in Nat
      /\ RunMapped(tables, tables', w, LeafNow, walk.p, walk.flags)
      /\ \A j \in 0 .. s - 1 : Low(w + j) = Low(w) + j
  BY MapOneMaps
<1>4. walk.v = asked.v + Behind /\ walk.p = asked.p + Behind /\ walk.flags = asked.flags
  BY DEF IInv, ProgressInv, map_one
<1> HIDE DEF s
<1>5. CASE v \notin Low(w) .. Low(w) + s - 1
  <2>1. paging_translate(tables', v) = paging_translate(tables, v)
    BY <1>3, <1>5 DEF RunMapped, s
  <2> QED
    BY <2>1 DEF Grown
<1>6. CASE v \in Low(w) .. Low(w) + s - 1
  <2> DEFINE j == v - Low(w)
             i == Behind + j
  <2>1. /\ paging_translate(tables, v) = UNMAPPED
        /\ paging_translate(tables', v) = [frame |-> walk.p + j, flags |-> walk.flags]
    BY <1>3, <1>6 DEF RunMapped, s
  <2>2. j \in 0 .. s - 1 /\ v = Low(w) + j
    BY <1>1, <1>2, <1>3, <1>6
  <2> HIDE DEF j
  <2>3. i \in 0 .. asked.n - 1 /\ walk.p + j = asked.p + i /\ w + j = asked.v + i
    BY <1>1, <1>2, <1>4, <2>2 DEF Behind
  <2>4. v = Low(asked.v + i)
    BY <1>3, <2>2, <2>3
  <2> HIDE DEF i
  <2> QED
    BY <2>1, <2>3, <2>4, <1>4 DEF Low, Grown
<1> QED
  BY <1>5, <1>6

(* No page ever changes its frame or flags, and what appears is what was   *)
(* asked for (map_one).                                                    *)
THEOREM OnlyWhatWasAskedIsMapped == Spec => MapsOnlyAsAsked
<1>1. IInv /\ [Next]_vars => [\A v \in Distinct : Grown(v)]_vars
  BY NextGrows
<1> QED
  BY <1>1, PagingInvariant, PTL DEF Spec, MapsOnlyAsAsked, Grown

(* The mapping that the tables stand for.                                  *)
Mapping == [v \in Distinct |-> paging_translate(tables, v)]

LEMMA InitMaps == Init => Space!SpaceInit
<1> SUFFICES ASSUME Init, NEW v \in Distinct
             PROVE  paging_translate(tables, v) = UNMAPPED
  BY DEF Space!SpaceInit, Space!UNMAPPED, UNMAPPED
<1> QED
  BY NothingAtFirst

LEMMA NextMaps == IInv /\ [Next]_vars => Space!SpaceNext \/ UNCHANGED Mapping
<1> SUFFICES ASSUME IInv, [Next]_vars PROVE Space!SpaceNext \/ UNCHANGED Mapping
  OBVIOUS
<1>1. CASE \A v \in Distinct : paging_translate(tables', v) = paging_translate(tables, v)
  <2>1. Mapping' = Mapping
    BY <1>1 DEF Mapping
  <2> QED
    BY <2>1
<1>2. CASE map_one
  <2> DEFINE n == Span[LeafNow]
             w == Low(walk.v)
             old == [v \in Distinct |-> paging_translate(tables, v)]
             new == [v \in Distinct |-> paging_translate(tables', v)]
  <2>1. /\ LeafNow \in 1 .. 3 /\ n \in 1 .. walk.remaining /\ walk.remaining \in Nat
        /\ walk.p \in 0 .. FramePages - 1 /\ walk.flags \in PageFlags
    BY <1>2, MapOneWrites DEF IInv, WalkInv, Walks
  <2>2. /\ w \in Nat /\ w + n <= Translatable
        /\ RunMapped(tables, tables', walk.v, LeafNow, walk.p, walk.flags)
    BY <1>2, MapOneMaps
  <2>3. n \in {Span[level] : level \in 1 .. 3}
    BY <2>1
  <2>4. n \in Nat \ {0} /\ Translatable \in Nat
    BY <2>1, SpanFacts
  <2>5. \A v \in Distinct :
          IF v \in w .. w + n - 1
          THEN /\ old[v] = UNMAPPED
               /\ new[v] = [frame |-> walk.p + (v - w), flags |-> walk.flags]
          ELSE new[v] = old[v]
    BY <2>2 DEF RunMapped
  <2> HIDE DEF n, w, old, new
  <2>6. w .. w + n - 1 \subseteq Distinct /\ w \in Distinct /\ w \in w .. w + n - 1
    BY <2>2, <2>4 DEF Distinct
  <2>7. new[w] = [frame |-> walk.p, flags |-> walk.flags]
    <3>1. walk.p + (w - w) = walk.p
      BY <2>1, <2>2
    <3> QED
      BY <2>5, <2>6, <3>1
  <2>8. new[w] \in [frame : 0 .. WordPages - 1, flags : PageFlags]
    <3>1. walk.p \in 0 .. WordPages - 1
      BY <2>1, PagingAssumption
    <3> QED
      BY <2>1, <2>7, <3>1
  <2>9. Space!Map(w, n, old, new)
    <3>1. ASSUME NEW v \in Distinct
          PROVE  IF v \in w .. w + n - 1
                 THEN /\ old[v] = Space!UNMAPPED
                      /\ new[v] = [frame |-> new[w].frame + (v - w), flags |-> new[w].flags]
                 ELSE new[v] = old[v]
      <4>1. Space!UNMAPPED = UNMAPPED
        BY DEF Space!UNMAPPED, UNMAPPED
      <4>2. new[w].frame = walk.p /\ new[w].flags = walk.flags
        BY <2>7
      <4> QED
        BY <2>5, <4>1, <4>2
    <3> QED
      BY <2>6, <2>8, <3>1 DEF Space!Map, Space!Mapping
  <2>10. Space!SpaceNext
    BY <2>3, <2>6, <2>9 DEF Space!SpaceNext, old, new
  <2> QED
    BY <2>10
<1> QED
  BY <1>1, <1>2, StepMaps

(* The tables implement an address space that only grows: every step of    *)
(* every call is a stutter of it or maps one whole run of unmapped pages   *)
(* (paging_map, descend, map_one).                                         *)
THEOREM TablesImplementAddressSpace == Spec => ImplementsAddressSpace
<1>1. IInv /\ [Next]_vars => [Space!SpaceNext]_Mapping
  BY NextMaps
<1> QED
  BY <1>1, InitMaps, PagingInvariant, PTL DEF Spec, ImplementsAddressSpace, Space!SpaceSpec, Mapping

-----------------------------------------------------------------------------
(* The calls made for a kernel (KernelTables).  Rounding first.            *)
LEMMA UnitFacts ==
  /\ PageUnits \in Nat \ {0} /\ WordPages \in Nat \ {0} /\ IdentityPages \in Nat \ {0}
  /\ FramePages \in Nat /\ IdentityPages < FramePages /\ FramePages <= WordPages
  /\ WordUnits = WordPages * PageUnits /\ WordUnits \in Nat \ {0}
<1>1. /\ PageUnits \in Nat \ {0} /\ WordPages \in Nat \ {0} /\ IdentityPages \in Nat \ {0}
      /\ FramePages \in Nat /\ IdentityPages < FramePages /\ FramePages <= WordPages
  BY PagingAssumption, KernelTablesAssumption
<1>2. WordPages * PageUnits \in Nat \ {0}
  BY <1>1
<1> QED
  BY <1>1, <1>2 DEF WordUnits

LEMMA Remainder ==
  ASSUME NEW x \in Int, NEW d \in Nat \ {0}
  PROVE  x % d \in Nat /\ x % d < d
OBVIOUS

LEMMA MultipleOfPage ==
  ASSUME NEW k \in Nat
  PROVE  k * PageUnits \in Nat /\ (k * PageUnits) % PageUnits = 0 /\ (k * PageUnits) \div PageUnits = k
<1>1. PageUnits \in Nat \ {0}
  BY UnitFacts
<1>2. k * PageUnits \in Nat /\ k * PageUnits + 0 = k * PageUnits
  BY <1>1
<1>3. 0 \in 0 .. PageUnits - 1
  BY <1>1
<1>4. (k * PageUnits + 0) \div PageUnits = k /\ (k * PageUnits + 0) % PageUnits = 0
  BY <1>1, <1>3, DivUnique
<1> QED
  BY <1>2, <1>4

LEMMA RoundDownIs ==
  ASSUME NEW a \in Nat
  PROVE  /\ a \div PageUnits \in Nat /\ a % PageUnits \in 0 .. PageUnits - 1
         /\ RoundDown(a) = (a \div PageUnits) * PageUnits /\ RoundDown(a) \in Nat
         /\ a = RoundDown(a) + (a % PageUnits)
<1>1. PageUnits \in Nat \ {0}
  BY UnitFacts
<1> DEFINE q == a \div PageUnits
           r == a % PageUnits
<1>2. q \in Nat /\ r \in 0 .. PageUnits - 1 /\ a = q * PageUnits + r
  BY <1>1, DivMod
<1>3. RoundDown(a) = a - r
  BY DEF RoundDown
<1> HIDE DEF q, r
<1>4. q * PageUnits \in Nat
  BY <1>1, <1>2
<1>5. a - r = q * PageUnits
  BY <1>1, <1>2, <1>4
<1> QED
  BY <1>2, <1>3, <1>4, <1>5 DEF q, r

(* The end of the address space is rounded to zero.                        *)
LEMMA RoundUpIs ==
  ASSUME NEW a \in Nat \ {0}, a < WordUnits
  PROVE  \E k \in 1 .. WordPages :
           /\ a <= k * PageUnits /\ k * PageUnits < a + PageUnits
           /\ RoundUp(a) = IF k = WordPages THEN 0 ELSE k * PageUnits
<1> DEFINE u == PageUnits
           b == a + u - 1
           k == b \div u
           r == b % u
<1>1. u \in Nat \ {0} /\ WordPages \in Nat \ {0} /\ WordUnits = WordPages * u /\ WordUnits \in Nat \ {0}
  BY UnitFacts
<1>2. b \in Nat
  BY <1>1
<1>3. k \in Nat /\ r \in 0 .. u - 1 /\ b = k * u + r /\ RoundDown(b) = k * u /\ k * u \in Nat
  <2> HIDE DEF b
  <2>1. k \in Nat /\ r \in 0 .. u - 1 /\ b = k * u + r
    BY <1>1, <1>2, DivMod
  <2> QED
    BY <1>2, <2>1, RoundDownIs
<1>4. RoundUp(a) = (k * u) % WordUnits
  BY <1>3 DEF RoundUp
<1>5. k < WordPages + 1
  <2>1. (WordPages + 1) * u = WordUnits + u
    BY <1>1
  <2>2. b < (WordPages + 1) * u
    BY <1>1, <2>1
  <2> HIDE DEF b
  <2>3. b \div u < WordPages + 1
    BY <1>1, <1>2, <2>2, DivBelow
  <2> QED
    BY <2>3
<1> HIDE DEF k, r
<1>6. a <= k * u /\ k * u < a + u
  BY <1>1, <1>3
<1>7. k # 0
  BY <1>1, <1>6
<1>8. CASE k = WordPages
  <2>1. (k * u) % WordUnits = 0
    <3> DEFINE W == WordUnits
    <3>1. k * u = W /\ W \in Nat \ {0}
      BY <1>1, <1>8
    <3> HIDE DEF W
    <3>2. W % W = 0
      BY <3>1
    <3> QED
      BY <3>1, <3>2 DEF W
  <2> QED
    BY <1>1, <1>3, <1>4, <1>6, <1>7, <1>8, <2>1
<1>9. CASE k # WordPages
  <2>1. k + 1 <= WordPages
    BY <1>1, <1>3, <1>5, <1>9
  <2>2. (k + 1) * u <= WordUnits
    <3>1. k + 1 \in Nat
      BY <1>3
    <3> QED
      BY <1>1, <2>1, <3>1, ProductOrder
  <2>3. (k + 1) * u = k * u + u
    BY <1>1, <1>3
  <2>4. k * u < WordUnits
    BY <1>1, <1>3, <2>2, <2>3
  <2>5. (k * u) % WordUnits = k * u
    <3> DEFINE x == k * u
               W == WordUnits
    <3>1. x \in Nat /\ W \in Nat \ {0} /\ x < W
      BY <1>1, <1>3, <2>4
    <3> HIDE DEF x, W
    <3>2. x % W = x
      BY <3>1
    <3> QED
      BY <3>2 DEF x, W
  <2> QED
    BY <1>1, <1>3, <1>4, <1>6, <1>7, <1>9, <2>1, <2>5
<1> QED
  BY <1>8, <1>9

-----------------------------------------------------------------------------
(* The calls themselves.                                                   *)
CallRecord == [v : Nat, p : Nat, units : Nat, flags : PageFlags]

LEMMA CallTyped ==
  ASSUME NEW v \in Int, NEW p \in Nat, NEW units \in Nat, NEW flags \in PageFlags
  PROVE  Call(v, p, units, flags) \in CallRecord
<1>1. v % WordUnits \in Nat
  BY UnitFacts, Remainder
<1> QED
  BY <1>1 DEF Call, CallRecord

SegmentFits(s) ==
  /\ s \in Segment
  /\ s.p + s.units <= IdentityPages * PageUnits
  /\ s.v + s.units < WordUnits

LEMMA KernelSegments ==
  ASSUME NEW image \in Kernels
  PROVE  /\ image \in Seq(Segment) /\ Len(image) \in Nat \ {0} /\ DOMAIN image = 1 .. Len(image)
         /\ \A i \in DOMAIN image : SegmentFits(image[i])
<1>1. image \in Seq(Segment) /\ image # <<>>
  BY KernelTablesAssumption
<1>2. Len(image) \in Nat \ {0} /\ DOMAIN image = 1 .. Len(image)
  BY <1>1
<1>3. \A i \in DOMAIN image : image[i] \in Segment
  BY <1>1, <1>2
<1> QED
  BY <1>1, <1>2, <1>3, KernelTablesAssumption DEF SegmentFits

LEMMA SegmentTyped ==
  ASSUME NEW s, SegmentFits(s)
  PROVE  /\ s.v \in Nat /\ s.v < WordUnits /\ s.p \in Nat /\ s.units \in Nat \ {0}
         /\ s.write \in BOOLEAN /\ s.execute \in BOOLEAN
<1>1. WordUnits \in Nat \ {0}
  BY UnitFacts
<1> QED
  BY <1>1 DEF SegmentFits, Segment

(* The pages of a call for a segment cover it, and end with its last byte  *)
(* if it stands at the same place of a page as where it is linked.         *)
Covers(s, call, k) ==
  /\ k \in 1 .. WordPages
  /\ call.v \div PageUnits = s.v \div PageUnits
  /\ call.p \div PageUnits = s.p \div PageUnits
  /\ call.units \div PageUnits = IF k = WordPages THEN 0 ELSE k
  /\ s.units + (s.v % PageUnits) <= k * PageUnits
  /\ k * PageUnits < s.units + (s.v % PageUnits) + PageUnits

LEMMA SegmentCall ==
  ASSUME NEW s, SegmentFits(s), NEW nx \in BOOLEAN
  PROVE  /\ map_segment(s, nx) \in CallRecord
         /\ map_segment(s, nx).flags = Asked(s, nx)
         /\ \E k \in 1 .. WordPages : Covers(s, map_segment(s, nx), k)
<1> DEFINE u == PageUnits
           leading == s.v % u
           a == s.units + leading
           call == map_segment(s, nx)
<1>1. /\ s.v \in Nat /\ s.v < WordUnits /\ s.p \in Nat /\ s.units \in Nat \ {0}
      /\ s.v + s.units < WordUnits
  BY SegmentTyped DEF SegmentFits
<1>2. /\ RoundDown(s.v) \in Nat /\ RoundDown(s.p) \in Nat /\ s.v = RoundDown(s.v) + leading
      /\ RoundDown(s.v) = (s.v \div u) * u /\ RoundDown(s.p) = (s.p \div u) * u
      /\ leading \in 0 .. u - 1 /\ s.v \div u \in Nat /\ s.p \div u \in Nat
  BY <1>1, RoundDownIs
<1>3. u \in Nat \ {0} /\ WordUnits \in Nat \ {0}
  BY UnitFacts
<1> HIDE DEF leading
<1>4. a \in Nat \ {0} /\ a < WordUnits
  BY <1>1, <1>2, <1>3
<1>5. PICK k \in 1 .. WordPages :
        /\ a <= k * u /\ k * u < a + u
        /\ RoundUp(a) = IF k = WordPages THEN 0 ELSE k * u
  BY <1>4, RoundUpIs
<1>6. /\ call = Call(RoundDown(s.v), RoundDown(s.p), RoundUp(a), Asked(s, nx))
  BY DEF map_segment, leading
<1>7. RoundDown(s.v) % WordUnits = RoundDown(s.v)
  <2> DEFINE x == RoundDown(s.v)
             W == WordUnits
  <2>1. x \in Nat /\ W \in Nat \ {0} /\ x < W
    BY <1>1, <1>2, <1>3
  <2> HIDE DEF x, W
  <2>2. x % W = x
    BY <2>1
  <2> QED
    BY <2>2 DEF x, W
<1>8. /\ call.v = (s.v \div u) * u /\ call.p = (s.p \div u) * u
      /\ call.units = IF k = WordPages THEN 0 ELSE k * u
      /\ call.flags = Asked(s, nx)
  BY <1>2, <1>5, <1>6, <1>7 DEF Call
<1> HIDE DEF call
<1>9. /\ call.v \div u = s.v \div u /\ call.p \div u = s.p \div u
  BY <1>2, <1>8, MultipleOfPage
<1>10. k \in Nat /\ 0 * u = 0
  BY <1>3
<1>11. call.units \div u = IF k = WordPages THEN 0 ELSE k
  <2>1. CASE k = WordPages
    BY <1>8, <1>10, <2>1, MultipleOfPage
  <2>2. CASE k # WordPages
    BY <1>8, <1>10, <2>2, MultipleOfPage
  <2> QED
    BY <2>1, <2>2
<1>12. Covers(s, call, k)
  BY <1>5, <1>9, <1>11 DEF Covers, leading
<1>13. call \in CallRecord
  <2>1. RoundUp(a) \in Nat
    BY <1>5, <1>10, MultipleOfPage
  <2>2. Asked(s, nx) \in PageFlags
    BY DEF Asked, PageFlags
  <2> QED
    BY <1>2, <1>6, <2>1, <2>2, CallTyped
<1> QED
  BY <1>8, <1>12, <1>13 DEF call

-----------------------------------------------------------------------------
(* The pages around the kernel.                                            *)
LEMMA MinIsMember ==
  ASSUME NEW S \in SUBSET Nat, S # {}
  PROVE  Min(S) \in S /\ \A y \in S : Min(S) <= y
<1>1. PICK x \in S : \A y \in S : ~ (<<y, x>> \in OpToRel(<, Nat))
  BY NatLessThanWellFounded, WFMin
<1>2. \A y \in S : ~ (y < x)
  BY <1>1 DEF OpToRel
<1>3. \A y \in S : x <= y
  BY <1>2
<1> QED
  BY <1>3 DEF Min

LEMMA MaxIsMember ==
  ASSUME NEW bound \in Nat, NEW S \in SUBSET (0 .. bound), S # {}
  PROVE  Max(S) \in S /\ \A y \in S : y <= Max(S)
<1> DEFINE T == {bound - y : y \in S}
<1>1. T \in SUBSET Nat
  OBVIOUS
<1>0. T # {}
  OBVIOUS
<1>2. Min(T) \in T /\ \A y \in T : Min(T) <= y
  BY <1>0, <1>1, MinIsMember
<1>3. PICK x \in S : Min(T) = bound - x
  BY <1>2
<1>4. \A y \in S : bound - x <= bound - y
  BY <1>2, <1>3
<1>5. \A y \in S : x >= y
  BY <1>4
<1> QED
  BY <1>5 DEF Max

LEMMA Extremes ==
  ASSUME NEW image \in Kernels
  PROVE  /\ Lowest(image) \in Nat /\ Highest(image) \in Nat \ {0}
         /\ Highest(image) <= IdentityPages * PageUnits
         /\ Lowest(image) <= IdentityPages * PageUnits
         /\ \A i \in DOMAIN image : /\ Lowest(image) <= image[i].p
                                   /\ image[i].p + image[i].units <= Highest(image)
<1> DEFINE b == IdentityPages * PageUnits
           S == {image[i].p : i \in DOMAIN image}
           E == {image[i].p + image[i].units : i \in DOMAIN image}
<1>1. b \in Nat /\ 1 \in DOMAIN image
  BY UnitFacts, KernelSegments
<1>2. \A i \in DOMAIN image : /\ image[i].p \in Nat /\ image[i].units \in Nat \ {0}
                             /\ image[i].p + image[i].units <= b
  BY KernelSegments, SegmentTyped DEF SegmentFits
<1> HIDE DEF b
<1>3. S \in SUBSET Nat /\ S # {} /\ E \in SUBSET (0 .. b) /\ E # {}
  BY <1>1, <1>2
<1>4. Min(S) \in S /\ \A y \in S : Min(S) <= y
  BY <1>3, MinIsMember
<1>5. Max(E) \in E /\ \A y \in E : y <= Max(E)
  BY <1>1, <1>3, MaxIsMember
<1>6. Lowest(image) = Min(S) /\ Highest(image) = Max(E)
  BY DEF Lowest, Highest
<1>7. \A i \in DOMAIN image : image[i].p \in S /\ image[i].p + image[i].units \in E
  OBVIOUS
<1>8. \A x \in S : x \in Nat /\ x <= b
  BY <1>1, <1>2
<1>9. \A x \in E : x \in Nat \ {0} /\ x <= b
  BY <1>1, <1>2
<1> HIDE DEF S, E
<1> QED
  BY <1>4, <1>5, <1>6, <1>7, <1>8, <1>9 DEF b

(* A page below the first of a segment, or past its last.                  *)
LEMMA OutsidePages ==
  ASSUME NEW s, SegmentFits(s), NEW f \in Nat,
         (f + 1) * PageUnits <= s.p \/ s.p + s.units <= f * PageUnits
  PROVE  f \notin PagesOf(s)
<1> DEFINE u == PageUnits
           first == s.p \div u
           end == s.p + s.units - 1
           last == end \div u
<1>1. s.p \in Nat /\ s.units \in Nat \ {0} /\ u \in Nat \ {0}
  BY SegmentTyped, UnitFacts
<1>2. first \in Nat /\ s.p % u \in 0 .. u - 1 /\ s.p = first * u + (s.p % u)
  BY <1>1, DivMod
<1>3. end \in Nat
  BY <1>1
<1>4. last \in Nat /\ end % u \in 0 .. u - 1 /\ end = last * u + (end % u)
  <2> HIDE DEF end
  <2> QED
    BY <1>1, <1>3, DivMod
<1>5. PagesOf(s) = first .. last
  BY DEF PagesOf
<1> HIDE DEF first, last
<1>6. SUFFICES ASSUME first <= f, f <= last PROVE FALSE
  BY <1>2, <1>4, <1>5
<1>7. CASE (f + 1) * u <= s.p
  <2>1. (f + 1) * u <= (s.p \div u) * u + (s.p % u)
    BY <1>2, <1>7 DEF first
  <2>2. first * u <= f * u
    BY <1>1, <1>2, <1>6, ProductOrder
  <2>3. (f + 1) * u = f * u + u /\ f * u \in Nat /\ first * u \in Nat
    BY <1>1, <1>2
  <2> QED
    BY <1>1, <1>2, <1>7, <2>2, <2>3
<1>8. CASE s.p + s.units <= f * u
  <2>1. f * u <= last * u
    BY <1>1, <1>4, <1>6, ProductOrder
  <2>2. f * u \in Nat /\ last * u \in Nat
    BY <1>1, <1>4
  <2>3. end < s.p + s.units
    BY <1>1
  <2>4. last * u <= end
    <3> HIDE DEF end
    <3> QED
      BY <1>3, <1>4, <2>2
  <2> QED
    BY <1>1, <1>3, <1>8, <2>1, <2>2, <2>3, <2>4
<1> QED
  BY <1>7, <1>8

(* A call of the direct map stays in the memory that is identity mapped    *)
(* and away from every segment.                                            *)
Beside(image, call) ==
  LET first == call.p \div PageUnits
      pages == call.units \div PageUnits
  IN  /\ first + pages <= IdentityPages
      /\ \A i \in 0 .. pages - 1, j \in DOMAIN image : first + i \notin PagesOf(image[j])

LowCall(image, nx) ==
  Call((image[1].v - image[1].p) % WordUnits, 0, RoundDown(Lowest(image)),
       {"writable"} \cup (IF nx THEN {"no_execute"} ELSE {}))

LEMMA BelowKernel ==
  ASSUME NEW image \in Kernels, NEW nx \in BOOLEAN
  PROVE  LowCall(image, nx) \in CallRecord /\ Beside(image, LowCall(image, nx))
<1> DEFINE u == PageUnits
           l == Lowest(image)
           k == l \div u
           call == LowCall(image, nx)
<1>1. l \in Nat /\ l <= IdentityPages * u /\ \A i \in DOMAIN image : l <= image[i].p
  BY Extremes
<1>2. u \in Nat \ {0} /\ WordUnits \in Nat \ {0} /\ IdentityPages \in Nat
  BY UnitFacts
<1> HIDE DEF l
<1>3. k \in Nat /\ RoundDown(l) = k * u /\ RoundDown(l) \in Nat /\ k * u <= l
  BY <1>1, <1>2, RoundDownIs
<1> HIDE DEF k
<1>4. image[1].v - image[1].p \in Int
  BY KernelSegments, SegmentTyped
<1>5. {"writable"} \cup (IF nx THEN {"no_execute"} ELSE {}) \in PageFlags
  BY DEF PageFlags
<1>6. (image[1].v - image[1].p) % WordUnits \in Nat
  BY <1>2, <1>4, Remainder
<1>7. call \in CallRecord
  BY <1>3, <1>5, <1>6, CallTyped DEF LowCall, l
<1>8. call.p = 0 /\ call.units = k * u
  BY <1>3 DEF LowCall, Call, l
<1> HIDE DEF call
<1>9. call.units \div u = k
  BY <1>3, <1>8, MultipleOfPage
<1>10. call.p \div u = 0
  <2>1. 0 * u = 0
    BY <1>2
  <2> QED
    BY <1>8, <2>1, MultipleOfPage
<1>11. k <= IdentityPages
  <2> SUFFICES ASSUME IdentityPages + 1 <= k PROVE FALSE
    BY <1>2, <1>3
  <2>1. (IdentityPages + 1) * u <= k * u
    BY <1>2, <1>3, ProductOrder
  <2>2. (IdentityPages + 1) * u = IdentityPages * u + u /\ IdentityPages * u \in Nat /\ k * u \in Nat
    BY <1>2, <1>3
  <2> QED
    BY <1>1, <1>2, <1>3, <2>1, <2>2
<1>12. ASSUME NEW i \in 0 .. k - 1, NEW j \in DOMAIN image PROVE i \notin PagesOf(image[j])
  <2>1. i \in Nat /\ i + 1 \in Nat /\ i + 1 <= k
    BY <1>3
  <2>2. (i + 1) * u <= k * u
    BY <1>2, <1>3, <2>1, ProductOrder
  <2>3. (i + 1) * u \in Nat /\ k * u \in Nat /\ image[j].p \in Nat
    BY <1>2, <1>3, <2>1, KernelSegments, SegmentTyped
  <2>4. (i + 1) * u <= image[j].p
    BY <1>1, <1>3, <2>2, <2>3
  <2> QED
    BY <2>1, <2>4, KernelSegments, OutsidePages
<1>13. \A i \in 0 .. k - 1 : 0 + i = i
  BY <1>3
<1> QED
  BY <1>7, <1>9, <1>10, <1>11, <1>12, <1>13, <1>3, <1>2 DEF Beside, call

HighCall(image, nx) ==
  LET base == (image[1].v - image[1].p) % WordUnits
      end  == Min({(WordUnits - base - PageUnits) % WordUnits, IdentityPages * PageUnits})
      high == RoundUp(Highest(image))
  IN  Call(base + high, high, end - high, {"writable"} \cup (IF nx THEN {"no_execute"} ELSE {}))

HighFits(image) ==
  LET base == (image[1].v - image[1].p) % WordUnits
  IN  RoundUp(Highest(image)) <
        Min({(WordUnits - base - PageUnits) % WordUnits, IdentityPages * PageUnits})

LEMMA AboveKernel ==
  ASSUME NEW image \in Kernels, NEW nx \in BOOLEAN, HighFits(image)
  PROVE  /\ HighCall(image, nx) \in CallRecord
         /\ Whole(HighCall(image, nx)) => Beside(image, HighCall(image, nx))
<1> DEFINE u == PageUnits
           W == WordUnits
           h == Highest(image)
           base == (image[1].v - image[1].p) % W
           room == (W - base - u) % W
           I == IdentityPages * u
           end == Min({room, I})
           high == RoundUp(h)
           call == HighCall(image, nx)
           flags == {"writable"} \cup (IF nx THEN {"no_execute"} ELSE {})
<1>1. h \in Nat \ {0} /\ h <= I /\ \A i \in DOMAIN image : image[i].p + image[i].units <= h
  BY Extremes
<1>2. /\ u \in Nat \ {0} /\ W \in Nat \ {0} /\ IdentityPages \in Nat /\ WordPages \in Nat
      /\ IdentityPages < WordPages /\ W = WordPages * u
  BY UnitFacts
<1>3. base \in Nat
  <2>1. image[1].v - image[1].p \in Int
    BY KernelSegments, SegmentTyped
  <2> QED
    BY <1>2, <2>1, Remainder
<1>4. room \in Nat
  <2>1. W - base - u \in Int
    BY <1>2, <1>3
  <2> HIDE DEF base
  <2> QED
    BY <1>2, <2>1, Remainder
<1>5. I \in Nat
  BY <1>2
<1>6. end \in Nat /\ end <= I
  <2> HIDE DEF room, I
  <2>1. {room, I} \in SUBSET Nat /\ {room, I} # {}
    BY <1>4, <1>5
  <2>2. end \in {room, I} /\ end <= I
    BY <2>1, MinIsMember
  <2> QED
    BY <2>1, <2>2
<1>7. I < W
  <2>1. (IdentityPages + 1) * u <= WordPages * u
    BY <1>2, ProductOrder
  <2>2. (IdentityPages + 1) * u = I + u
    BY <1>2
  <2> QED
    BY <1>2, <1>5, <2>1, <2>2
<1> HIDE DEF h
<1>8. PICK k \in 1 .. WordPages :
        /\ h <= k * u /\ k * u < h + u
        /\ high = IF k = WordPages THEN 0 ELSE k * u
  <2>1. h < WordUnits
    BY <1>1, <1>2, <1>5, <1>7
  <2> QED
    BY <1>1, <2>1, RoundUpIs
<1>9. k \in Nat /\ k * u \in Nat
  BY <1>2
<1>10. k <= IdentityPages
  <2> SUFFICES ASSUME IdentityPages + 1 <= k PROVE FALSE
    BY <1>2, <1>9
  <2>1. (IdentityPages + 1) * u <= k * u
    BY <1>2, <1>9, ProductOrder
  <2>2. (IdentityPages + 1) * u = I + u
    BY <1>2
  <2> QED
    BY <1>1, <1>2, <1>5, <1>8, <1>9, <2>1, <2>2
<1>11. high = k * u
  BY <1>2, <1>8, <1>9, <1>10
<1>12. high < end
  BY DEF HighFits, h
<1>13. call = Call(base + high, high, end - high, flags)
  BY DEF HighCall, h
<1> HIDE DEF high, end, base
<1>14. call \in CallRecord
  <2>1. flags \in PageFlags
    BY DEF PageFlags
  <2>2. base + high \in Int /\ high \in Nat /\ end - high \in Nat
    BY <1>3, <1>6, <1>9, <1>11, <1>12
  <2> HIDE DEF flags
  <2> QED
    BY <1>13, <2>1, <2>2, CallTyped
<1>15. call.p = high /\ call.units = end - high
  BY <1>13 DEF Call
<1> HIDE DEF call, flags, I
<1>16. ASSUME Whole(call) PROVE Beside(image, call)
  <2> DEFINE n == call.units \div u
  <2>1. call.units % u = 0
    BY <1>16 DEF Whole
  <2>2. call.units \in Nat
    BY <1>14 DEF CallRecord
  <2>3. n \in Nat /\ call.units = n * u
    <3> DEFINE a == call.units
    <3>1. a \in Nat /\ a % u = 0
      BY <2>1, <2>2
    <3> HIDE DEF a
    <3>2. a \div u \in Nat /\ a = (a \div u) * u + (a % u)
      BY <1>2, <3>1, DivMod
    <3>3. (a \div u) * u + 0 = (a \div u) * u
      BY <1>2, <3>2
    <3> QED
      BY <3>1, <3>2, <3>3 DEF a
  <2>4. call.p \div u = k
    BY <1>9, <1>11, <1>15, MultipleOfPage
  <2> HIDE DEF n
  <2>5. k * u + n * u = end
    BY <1>6, <1>9, <1>11, <1>15, <2>2, <2>3
  <2>6. k + n <= IdentityPages
    <3> SUFFICES ASSUME IdentityPages + 1 <= k + n PROVE FALSE
      BY <1>2, <1>9, <2>3
    <3>1. (IdentityPages + 1) * u <= (k + n) * u
      BY <1>2, <1>9, <2>3, ProductOrder
    <3>2. (IdentityPages + 1) * u = I + u
      BY <1>2 DEF I
    <3>3. (k + n) * u = k * u + n * u
      BY <1>2, <1>9, <2>3
    <3> QED
      BY <1>2, <1>5, <1>6, <2>5, <3>1, <3>2, <3>3
  <2>7. ASSUME NEW i \in 0 .. n - 1, NEW j \in DOMAIN image PROVE k + i \notin PagesOf(image[j])
    <3>1. i \in Nat /\ k + i \in Nat /\ k <= k + i
      BY <1>9, <2>3
    <3>2. k * u <= (k + i) * u
      BY <1>2, <1>9, <3>1, ProductOrder
    <3>3. /\ (k + i) * u \in Nat /\ image[j].p + image[j].units \in Nat
          /\ image[j].p + image[j].units <= h
      BY <1>1, <1>2, <3>1, KernelSegments, SegmentTyped
    <3>4. image[j].p + image[j].units <= (k + i) * u
      BY <1>1, <1>8, <1>9, <3>2, <3>3
    <3> QED
      BY <3>1, <3>4, KernelSegments, OutsidePages
  <2> QED
    BY <2>4, <2>6, <2>7 DEF Beside, n
<1> QED
  BY <1>14, <1>16 DEF call

LEMMA DirectCalls ==
  ASSUME NEW image \in Kernels, NEW nx \in BOOLEAN
  PROVE  /\ DirectMap(image, nx) \in Seq(CallRecord)
         /\ \A c \in 1 .. Len(DirectMap(image, nx)) :
              Whole(DirectMap(image, nx)[c]) => Beside(image, DirectMap(image, nx)[c])
<1> DEFINE low == IF RoundDown(Lowest(image)) > 0 THEN << LowCall(image, nx) >> ELSE <<>>
           high == IF HighFits(image) THEN << HighCall(image, nx) >> ELSE <<>>
           D == DirectMap(image, nx)
           G(call) == Whole(call) => Beside(image, call)
<1>1. D = IF (image[1].v - image[1].p) % WordUnits = 0 THEN <<>> ELSE low \o high
  BY DEF DirectMap, LowCall, HighCall, HighFits
<1>2. low \in Seq(CallRecord) /\ \A c \in 1 .. Len(low) : G(low[c])
  <2> DEFINE x == LowCall(image, nx)
  <2>1. x \in CallRecord /\ Beside(image, x)
    BY BelowKernel
  <2> HIDE DEF x
  <2>2. << x >> \in Seq(CallRecord) /\ Len(<< x >>) = 1 /\ << x >>[1] = x
    BY <2>1
  <2>3. \A c \in 1 .. 1 : c = 1
    OBVIOUS
  <2>4. <<>> \in Seq(CallRecord) /\ Len(<<>>) = 0
    OBVIOUS
  <2> QED
    BY <2>1, <2>2, <2>3, <2>4 DEF x
<1>3. high \in Seq(CallRecord) /\ \A c \in 1 .. Len(high) : G(high[c])
  <2> DEFINE x == HighCall(image, nx)
  <2>1. CASE HighFits(image)
    <3>1. x \in CallRecord /\ G(x)
      BY <2>1, AboveKernel
    <3> HIDE DEF x
    <3>2. << x >> \in Seq(CallRecord) /\ Len(<< x >>) = 1 /\ << x >>[1] = x
      BY <3>1
    <3>3. \A c \in 1 .. 1 : c = 1
      OBVIOUS
    <3> QED
      BY <2>1, <3>1, <3>2, <3>3 DEF x
  <2>2. CASE ~ HighFits(image)
    <3>1. <<>> \in Seq(CallRecord) /\ Len(<<>>) = 0
      OBVIOUS
    <3> QED
      BY <2>2, <3>1
  <2> QED
    BY <2>1, <2>2
<1> HIDE DEF low, high, G, D
<1>4. CASE (image[1].v - image[1].p) % WordUnits = 0
  <2>1. D = <<>> /\ Len(<<>>) = 0 /\ <<>> \in Seq(CallRecord)
    BY <1>1, <1>4
  <2> QED
    BY <2>1 DEF D
<1>5. CASE (image[1].v - image[1].p) % WordUnits # 0
  <2>1. D = low \o high
    BY <1>1, <1>5
  <2>2. D \in Seq(CallRecord) /\ Len(D) = Len(low) + Len(high) /\ Len(low) \in Nat /\ Len(high) \in Nat
    BY <1>2, <1>3, <2>1
  <2>3. ASSUME NEW c \in 1 .. Len(D) PROVE G(D[c])
    <3>1. CASE c <= Len(low)
      <4>1. c \in 1 .. Len(low) /\ D[c] = low[c]
        BY <1>2, <1>3, <2>1, <2>2, <3>1
      <4> QED
        BY <1>2, <4>1
    <3>2. CASE c > Len(low)
      <4>1. c - Len(low) \in 1 .. Len(high) /\ D[c] = high[c - Len(low)]
        BY <1>2, <1>3, <2>1, <2>2, <3>2
      <4> QED
        BY <1>3, <4>1
    <3> QED
      BY <2>2, <3>1, <3>2
  <2> QED
    BY <2>2, <2>3 DEF D, G
<1> QED
  BY <1>4, <1>5

-----------------------------------------------------------------------------
(* All the calls for a kernel: the identity map, the direct map, and one   *)
(* for each segment.                                                       *)
FirstCall == Call(0, 0, IdentityPages * PageUnits, {"writable"})

Before(image, nx) == 1 + Len(DirectMap(image, nx))

LEMMA Joined ==
  ASSUME NEW S, NEW a \in Seq(S), NEW b \in Seq(S)
  PROVE  /\ a \o b \in Seq(S) /\ Len(a) \in Nat /\ Len(b) \in Nat /\ Len(a \o b) = Len(a) + Len(b)
         /\ \A i \in 1 .. Len(a) : (a \o b)[i] = a[i]
         /\ \A i \in 1 .. Len(b) : (a \o b)[Len(a) + i] = b[i]
OBVIOUS

LEMMA AllCalls ==
  ASSUME NEW image \in Kernels, NEW nx \in BOOLEAN
  PROVE  LET all == build_kernel_tables(image, nx)
             b   == Before(image, nx)
         IN  /\ all \in Seq(CallRecord)
             /\ b \in Nat \ {0} /\ Len(all) = b + Len(image)
             /\ all[1] = FirstCall
             /\ \A c \in 2 .. b : Whole(all[c]) => Beside(image, all[c])
             /\ \A i \in DOMAIN image : all[b + i] = map_segment(image[i], nx)
<1> DEFINE first == << FirstCall >>
           D == DirectMap(image, nx)
           n == Len(image)
           last == [i \in DOMAIN image |-> map_segment(image[i], nx)]
           all == build_kernel_tables(image, nx)
           G(call) == Whole(call) => Beside(image, call)
<1>1. first \in Seq(CallRecord) /\ Len(first) = 1 /\ first[1] = FirstCall
  <2> DEFINE x == FirstCall
  <2>1. x \in CallRecord
    <3>1. {"writable"} \in PageFlags
      BY DEF PageFlags
    <3>2. IdentityPages * PageUnits \in Nat
      BY UnitFacts
    <3> QED
      BY <3>1, <3>2, CallTyped DEF FirstCall
  <2> HIDE DEF x
  <2> QED
    BY <2>1 DEF x
<1>2. D \in Seq(CallRecord) /\ \A c \in 1 .. Len(D) : G(D[c])
  BY DirectCalls
<1>3. last \in Seq(CallRecord) /\ Len(last) = n /\ \A i \in DOMAIN image : last[i] = map_segment(image[i], nx)
  <2>1. n \in Nat /\ DOMAIN image = 1 .. n
    BY KernelSegments
  <2>2. \A i \in 1 .. n : map_segment(image[i], nx) \in CallRecord
    BY <2>1, KernelSegments, SegmentCall
  <2>3. last \in [1 .. n -> CallRecord]
    BY <2>1, <2>2
  <2>4. \A i \in DOMAIN image : last[i] = map_segment(image[i], nx)
    OBVIOUS
  <2> HIDE DEF last, n
  <2> QED
    BY <2>1, <2>3, <2>4
<1>4. all = first \o D \o last
  BY DEF build_kernel_tables, FirstCall
<1>5. n \in Nat /\ DOMAIN image = 1 .. n
  BY KernelSegments
<1>6. Before(image, nx) = 1 + Len(D)
  BY DEF Before
<1> HIDE DEF first, D, n, last, all, G
<1>7. Len(D) \in Nat
  BY <1>2
<1>8. /\ first \o D \in Seq(CallRecord) /\ Len(first \o D) = 1 + Len(D)
      /\ (first \o D)[1] = FirstCall
      /\ \A i \in 1 .. Len(D) : (first \o D)[1 + i] = D[i]
  <2>1. first \in Seq(CallRecord) /\ D \in Seq(CallRecord)
    BY <1>1, <1>2
  <2>2. /\ first \o D \in Seq(CallRecord) /\ Len(first \o D) = Len(first) + Len(D)
        /\ \A i \in 1 .. Len(first) : (first \o D)[i] = first[i]
        /\ \A i \in 1 .. Len(D) : (first \o D)[Len(first) + i] = D[i]
    BY ONLY <2>1, Joined
  <2> QED
    BY <1>1, <2>2
<1> DEFINE E == first \o D
<1>9. /\ E \in Seq(CallRecord) /\ last \in Seq(CallRecord) /\ all = E \o last
      /\ Len(E) = 1 + Len(D) /\ Len(last) = n
  BY <1>3, <1>4, <1>8
<1> HIDE DEF E
<1>10. /\ all \in Seq(CallRecord) /\ Len(all) = 1 + Len(D) + n
       /\ \A i \in 1 .. 1 + Len(D) : all[i] = E[i]
       /\ \A i \in 1 .. n : all[1 + Len(D) + i] = last[i]
  <2>1. E \in Seq(CallRecord) /\ last \in Seq(CallRecord)
    BY <1>9
  <2>2. /\ E \o last \in Seq(CallRecord) /\ Len(E \o last) = Len(E) + Len(last)
        /\ \A i \in 1 .. Len(E) : (E \o last)[i] = E[i]
        /\ \A i \in 1 .. Len(last) : (E \o last)[Len(E) + i] = last[i]
    BY ONLY <2>1, Joined
  <2> QED
    BY ONLY <1>9, <2>2
<1>11. \A c \in 2 .. 1 + Len(D) : all[c] = D[c - 1] /\ c - 1 \in 1 .. Len(D)
  <2> TAKE c \in 2 .. 1 + Len(D)
  <2>1. c - 1 \in 1 .. Len(D) /\ 1 + (c - 1) = c /\ c \in 1 .. 1 + Len(D)
    BY <1>7
  <2> QED
    BY <1>8, <1>10, <2>1 DEF E
<1>12. all[1] = FirstCall
  <2>1. 1 \in 1 .. 1 + Len(D)
    BY <1>7
  <2> QED
    BY <1>8, <1>10, <2>1 DEF E
<1>13. \A i \in 1 .. n : all[1 + Len(D) + i] = last[i]
  BY <1>10
<1>14. \A c \in 2 .. 1 + Len(D) : G(all[c])
  BY <1>2, <1>11
<1> QED
  BY <1>3, <1>5, <1>6, <1>7, <1>10, <1>12, <1>13, <1>14 DEF all, G, n

(* No call reaches past the frames that an entry has bits for.             *)
LEMMA CallsFit ==
  ASSUME NEW image \in Kernels, NEW nx \in BOOLEAN,
         NEW c \in 1 .. Len(build_kernel_tables(image, nx)),
         Whole(build_kernel_tables(image, nx)[c])
  PROVE  LET call == build_kernel_tables(image, nx)[c] IN
         /\ call \in CallRecord
         /\ call.v \div PageUnits \in Nat /\ call.p \div PageUnits \in Nat
         /\ call.units \div PageUnits \in Nat
         /\ (call.p \div PageUnits) + (call.units \div PageUnits) <= FramePages
<1> DEFINE all == build_kernel_tables(image, nx)
           b == Before(image, nx)
           n == Len(image)
           call == all[c]
           u == PageUnits
           Fits(x) == (x.p \div PageUnits) + (x.units \div PageUnits) <= FramePages
<1>1. /\ all \in Seq(CallRecord) /\ b \in Nat \ {0} /\ Len(all) = b + n /\ n \in Nat
      /\ all[1] = FirstCall
      /\ \A d \in 2 .. b : Whole(all[d]) => Beside(image, all[d])
      /\ \A i \in 1 .. n : all[b + i] = map_segment(image[i], nx)
  BY AllCalls, KernelSegments
<1>2. c \in 1 .. Len(all) /\ Whole(call)
  OBVIOUS
<1>3. /\ u \in Nat \ {0} /\ IdentityPages \in Nat \ {0} /\ FramePages \in Nat
      /\ IdentityPages + 1 <= FramePages
  BY UnitFacts
<1> HIDE DEF all, b, n
<1>4. call \in CallRecord
  BY <1>1, <1>2
<1>5. call.v \in Nat /\ call.p \in Nat /\ call.units \in Nat
  BY <1>4 DEF CallRecord
<1>6. call.v \div u \in Nat /\ call.p \div u \in Nat /\ call.units \div u \in Nat
  <2> HIDE DEF call
  <2> QED
    BY <1>3, <1>5, DivMod
<1> SUFFICES Fits(call)
  BY <1>4, <1>6 DEF call, all
<1>7. CASE c = 1
  <2>1. call = FirstCall
    BY <1>1, <1>7
  <2>2. call.p = 0 /\ call.units = IdentityPages * u
    BY <2>1 DEF FirstCall, Call
  <2>3. call.units \div u = IdentityPages
    BY <1>3, <2>2, MultipleOfPage
  <2>4. 0 * u = 0 /\ 0 \in Nat
    BY <1>3
  <2>5. call.p \div u = 0
    BY <2>2, <2>4, MultipleOfPage
  <2> QED
    BY <1>3, <2>3, <2>5
<1>8. CASE c \in 2 .. b
  <2>1. Beside(image, call)
    BY <1>1, <1>2, <1>8
  <2> HIDE DEF call
  <2> QED
    BY <1>3, <1>6, <2>1 DEF Beside
<1>9. CASE c > b
  <2> DEFINE i == c - b
             s == image[i]
             q == s.p \div u
  <2>1. i \in 1 .. n /\ c = b + i
    BY <1>1, <1>2, <1>9
  <2>2. call = map_segment(s, nx) /\ SegmentFits(s)
    BY <1>1, <2>1, KernelSegments DEF n
  <2> HIDE DEF call, i
  <2>3. PICK k \in 1 .. WordPages : Covers(s, call, k)
    BY <2>2, SegmentCall
  <2>4. /\ call.p \div u = q /\ call.units \div u = IF k = WordPages THEN 0 ELSE k
        /\ k * u < s.units + (s.v % u) + u
    BY <2>3 DEF Covers
  <2>5. /\ s.v \in Nat /\ s.p \in Nat /\ s.units \in Nat \ {0}
        /\ s.p + s.units <= IdentityPages * u
    BY <2>2, SegmentTyped DEF SegmentFits
  <2> HIDE DEF s
  <2>6. s.v % u \in 0 .. u - 1
    BY <1>3, <2>5, DivMod
  <2>7. q \in Nat /\ q * u <= s.p /\ q * u \in Nat
    <3> DEFINE r == s.p % u
    <3>1. q \in Nat /\ r \in 0 .. u - 1 /\ s.p = q * u + r
      BY <1>3, <2>5, DivMod
    <3> HIDE DEF q, r
    <3>2. q * u \in Nat
      BY <1>3, <3>1
    <3> QED
      BY <2>5, <3>1, <3>2
  <2> HIDE DEF q
  <2>8. k \in Nat /\ k * u \in Nat /\ IdentityPages * u \in Nat
    BY <1>3, UnitFacts
  <2>9. (q + k) * u < (IdentityPages + 2) * u
    <3>1. (q + k) * u = q * u + k * u /\ (IdentityPages + 2) * u = IdentityPages * u + u + u
      BY <1>3, <2>7, <2>8
    <3> DEFINE w == s.v % u
               x == q * u
               y == k * u
               I == IdentityPages * u
    <3>2. w \in 0 .. u - 1 /\ x \in Nat /\ y \in Nat /\ I \in Nat /\ u \in Nat
      BY <1>3, <2>6, <2>7, <2>8
    <3>3. x <= s.p /\ y < s.units + w + u /\ s.p + s.units <= I /\ s.p \in Nat /\ s.units \in Nat
      BY <2>4, <2>5, <2>7
    <3>4. (q + k) * u = x + y /\ (IdentityPages + 2) * u = I + u + u
      BY <3>1
    <3> HIDE DEF w, x, y, I
    <3>5. x + y < I + u + u
      BY <3>2, <3>3
    <3> QED
      BY <3>4, <3>5
  <2>10. q + k <= IdentityPages + 1
    <3> SUFFICES ASSUME IdentityPages + 2 <= q + k PROVE FALSE
      BY <1>3, <2>7, <2>8
    <3>1. (IdentityPages + 2) * u <= (q + k) * u
      BY <1>3, <2>7, <2>8, ProductOrder
    <3>2. (IdentityPages + 2) * u \in Nat /\ (q + k) * u \in Nat
      BY <1>3, <2>7, <2>8
    <3> QED
      BY <2>9, <3>1, <3>2
  <2>11. q + (call.units \div u) <= IdentityPages + 1
    BY <1>3, <2>4, <2>7, <2>8, <2>10
  <2> QED
    BY <1>3, <1>6, <2>4, <2>7, <2>11
<1>10. c = 1 \/ c \in 2 .. b \/ c > b
  BY <1>1, <1>2
<1> QED
  BY <1>7, <1>8, <1>9, <1>10

-----------------------------------------------------------------------------
(* The invariant of build_kernel_tables: every call made so far was whole  *)
(* and acceptable and has mapped its range, but for one that is under way; *)
(* and nothing is mapped that no call asked for.                           *)
Plan == build_kernel_tables(kernel, kernel_no_execute)
Made == Len(Plan) - Len(calls)
Ahead == Before(kernel, kernel_no_execute)

VirtualOf(c) == Plan[c].v \div PageUnits
FrameOf(c)   == Plan[c].p \div PageUnits
PagesIn(c)   == Plan[c].units \div PageUnits

LeftAlone(c) == c > Ahead /\ kernel[c - Ahead].v = kernel[c - Ahead].p

Entered(c) == Whole(Plan[c]) /\ Acceptable(VirtualOf(c), FrameOf(c), PagesIn(c))

Given(c, i) == [frame |-> FrameOf(c) + i, flags |-> Plan[c].flags]

Landed(c) ==
  \A i \in 0 .. PagesIn(c) - 1 : paging_translate(tables, Low(VirtualOf(c) + i)) = Given(c, i)

AskedFor(v) ==
  \/ paging_translate(tables, v) = UNMAPPED
  \/ \E c \in 1 .. Made : /\ ~ LeftAlone(c)
                          /\ \E i \in 0 .. PagesIn(c) - 1 :
                               /\ v = Low(VirtualOf(c) + i)
                               /\ paging_translate(tables, v) = Given(c, i)

Now ==
  /\ Made \in 1 .. Len(Plan) /\ ~ LeftAlone(Made)
  /\ asked.v = VirtualOf(Made) /\ asked.p = FrameOf(Made)
  /\ asked.n = PagesIn(Made) /\ asked.flags = Plan[Made].flags

BuildInv ==
  /\ kernel \in Kernels /\ kernel_no_execute \in BOOLEAN
  /\ Made \in 0 .. Len(Plan) /\ calls \in Seq(CallRecord)
  /\ \A i \in 1 .. Len(calls) : calls[i] = Plan[Made + i]
  /\ \A c \in 1 .. Made : LeftAlone(c) \/ Entered(c)
  /\ \A c \in 1 .. Made : LeftAlone(c) \/ Landed(c) \/ (c = Made /\ outcome # "mapped")
  /\ \A v \in Distinct : AskedFor(v)
  /\ outcome = "running" => Now
  /\ built = "built" => calls = <<>> /\ outcome = "mapped"

KernelInv ==
  /\ IInv
  /\ built \in {"building", "built", "refused"}
  /\ kernel = <<>> => built = "building"
  /\ kernel # <<>> => BuildInv

LEMMA PlanFacts ==
  ASSUME kernel \in Kernels, kernel_no_execute \in BOOLEAN
  PROVE  /\ Plan \in Seq(CallRecord) /\ Len(Plan) \in Nat
         /\ Ahead \in Nat \ {0} /\ Len(kernel) \in Nat \ {0} /\ Len(Plan) = Ahead + Len(kernel)
         /\ \A c \in 1 .. Len(Plan) :
              /\ Plan[c] \in CallRecord
              /\ Whole(Plan[c]) => /\ VirtualOf(c) \in Nat /\ FrameOf(c) \in Nat /\ PagesIn(c) \in Nat
                                  /\ Plan[c].flags \in PageFlags
                                  /\ FrameOf(c) + PagesIn(c) <= FramePages
<1>1. /\ Plan \in Seq(CallRecord) /\ Ahead \in Nat \ {0} /\ Len(Plan) = Ahead + Len(kernel)
  BY AllCalls DEF Plan, Ahead
<1>2. Len(kernel) \in Nat \ {0}
  BY KernelSegments
<1>3. ASSUME NEW c \in 1 .. Len(Plan)
      PROVE  /\ Plan[c] \in CallRecord
             /\ Whole(Plan[c]) => /\ VirtualOf(c) \in Nat /\ FrameOf(c) \in Nat /\ PagesIn(c) \in Nat
                                  /\ Plan[c].flags \in PageFlags
                                  /\ FrameOf(c) + PagesIn(c) <= FramePages
  <2>1. Plan[c] \in CallRecord
    BY <1>1
  <2>2. Plan[c].flags \in PageFlags
    BY <2>1 DEF CallRecord
  <2> QED
    BY <2>1, <2>2, CallsFit DEF Plan, VirtualOf, FrameOf, PagesIn
<1> QED
  BY <1>1, <1>2, <1>3

LEMMA GivenIsMapped ==
  ASSUME KernelInv, kernel # <<>>, NEW c \in 1 .. Made, ~ LeftAlone(c), NEW i \in 0 .. PagesIn(c) - 1
  PROVE  Given(c, i) # UNMAPPED /\ Low(VirtualOf(c) + i) \in Distinct
<1>1. BuildInv
  BY DEF KernelInv
<1>2. c \in 1 .. Len(Plan) /\ Whole(Plan[c])
  <2>1. Len(Plan) \in Nat
    BY <1>1, PlanFacts DEF BuildInv
  <2> QED
    BY <1>1, <2>1 DEF BuildInv, Entered
<1>3. VirtualOf(c) \in Nat /\ FrameOf(c) \in Nat /\ PagesIn(c) \in Nat
  BY <1>1, <1>2, PlanFacts DEF BuildInv
<1>4. Given(c, i) # UNMAPPED
  <2>1. Given(c, i).frame = FrameOf(c) + i /\ UNMAPPED.frame = -1
    BY DEF Given, UNMAPPED
  <2>2. FrameOf(c) + i \in Nat
    BY <1>3
  <2>3. FrameOf(c) + i # -1
    BY <2>2
  <2> QED
    BY <2>1, <2>3
<1>5. VirtualOf(c) + i \in Nat /\ Translatable \in Nat
  BY <1>3, SpanFacts
<1>6. Low(VirtualOf(c) + i) \in Nat /\ Low(VirtualOf(c) + i) < Translatable
  BY <1>5, IndexWraps
<1> QED
  BY <1>4, <1>5, <1>6 DEF Distinct

(* What the plan is does not change while it is followed.                  *)
LEMMA PlanStays ==
  ASSUME UNCHANGED <<kernel, kernel_no_execute>>
  PROVE  /\ Plan' = Plan /\ Ahead' = Ahead
         /\ \A c : /\ LeftAlone(c)' = LeftAlone(c) /\ Entered(c)' = Entered(c)
                   /\ VirtualOf(c)' = VirtualOf(c) /\ FrameOf(c)' = FrameOf(c)
                   /\ PagesIn(c)' = PagesIn(c)
         /\ \A c, i : Given(c, i)' = Given(c, i)
<1>1. Plan' = Plan /\ Ahead' = Ahead
  BY DEF Plan, Ahead
<1> QED
  BY <1>1 DEF LeftAlone, Entered, VirtualOf, FrameOf, PagesIn, Given

(* Building a table or writing an entry.                                   *)
LEMMA StepBuilds ==
  ASSUME KernelInv, kernel # <<>>, Step, UNCHANGED kernel_vars
  PROVE  IInv' /\ BuildInv'
<1>1. IInv /\ BuildInv /\ outcome = "running" /\ Now
  BY DEF KernelInv, BuildInv, Step, descend, descend_creating, descend_refused, map_one, map_one_refused
<1>2. IInv'
  BY <1>1, DescendInv, CreatingInv, GivenUpInv, MapOneInv DEF Step
<1>3. \A v \in Distinct : Grown(v)
  BY <1>1, NextGrows DEF Next
<1>4. /\ kernel' = kernel /\ kernel_no_execute' = kernel_no_execute /\ calls' = calls /\ built' = built
      /\ asked' = asked
  BY DEF kernel_vars, Step, descend, descend_creating, descend_refused, map_one, map_one_refused
<1>5. /\ Plan' = Plan /\ Ahead' = Ahead
      /\ \A c : /\ LeftAlone(c)' = LeftAlone(c) /\ Entered(c)' = Entered(c)
                /\ VirtualOf(c)' = VirtualOf(c) /\ FrameOf(c)' = FrameOf(c)
                /\ PagesIn(c)' = PagesIn(c)
      /\ \A c, i : Given(c, i)' = Given(c, i)
  BY <1>4, PlanStays
<1>6. Made' = Made
  BY <1>4, <1>5 DEF Made
<1>7. Now'
  BY <1>1, <1>4, <1>5, <1>6 DEF Now
<1>8. built' # "built"
  BY <1>1, <1>4 DEF BuildInv
<1>9. ASSUME NEW c \in 1 .. Made, ~ LeftAlone(c), Landed(c)
      PROVE  Landed(c)'
  <2> SUFFICES ASSUME NEW i \in 0 .. PagesIn(c) - 1
               PROVE  paging_translate(tables', Low(VirtualOf(c) + i)) = Given(c, i)
    BY <1>5 DEF Landed
  <2> DEFINE v == Low(VirtualOf(c) + i)
  <2>1. v \in Distinct /\ Given(c, i) # UNMAPPED
    BY <1>9, GivenIsMapped
  <2>2. paging_translate(tables, v) = Given(c, i)
    BY <1>9 DEF Landed
  <2> HIDE DEF v
  <2>3. Grown(v)
    BY <1>3, <2>1
  <2>4. paging_translate(tables', v) = Given(c, i)
    BY <2>1, <2>2, <2>3 DEF Grown
  <2> QED
    BY <2>4 DEF v
<1>10. ASSUME NEW c \in 1 .. Made, c = Made, outcome' = "mapped" PROVE Landed(c)'
  <2>1. DoneInv'
    BY <1>2 DEF IInv
  <2>2. \A i \in 0 .. asked'.n - 1 : paging_translate(tables', Low(asked'.v + i)) = Wanted(i)'
    BY <1>10, <2>1 DEF DoneInv
  <2>3. \A i : Wanted(i)' = Given(c, i)
    BY <1>1, <1>4, <1>10 DEF Wanted, Now, Given
  <2>4. asked'.n = PagesIn(c) /\ asked'.v = VirtualOf(c)
    BY <1>1, <1>4, <1>10 DEF Now
  <2>5. \A i \in 0 .. PagesIn(c) - 1 :
          paging_translate(tables', Low(VirtualOf(c) + i)) = Given(c, i)
    BY <2>2, <2>3, <2>4
  <2> QED
    BY <1>5, <2>5 DEF Landed
<1>11. \A c \in 1 .. Made : LeftAlone(c)' \/ Landed(c)' \/ (c = Made /\ outcome' # "mapped")
  <2> TAKE c \in 1 .. Made
  <2>1. CASE LeftAlone(c)
    BY <1>5, <2>1
  <2>2. CASE ~ LeftAlone(c) /\ Landed(c)
    BY <1>9, <2>2
  <2>3. CASE c = Made
    BY <1>10, <2>3
  <2> QED
    BY <1>1, <2>1, <2>2, <2>3 DEF BuildInv
<1>12. ASSUME NEW v \in Distinct PROVE AskedFor(v)'
  <2>1. CASE paging_translate(tables', v) = paging_translate(tables, v)
    <3>1. AskedFor(v)
      BY <1>1 DEF BuildInv
    <3> QED
      BY <1>5, <1>6, <2>1, <3>1 DEF AskedFor
  <2>2. CASE paging_translate(tables', v) # paging_translate(tables, v)
    <3>1. PICK i \in 0 .. asked.n - 1 :
            /\ v = Low(asked.v + i)
            /\ paging_translate(tables', v) = [frame |-> asked.p + i, flags |-> asked.flags]
      BY <1>3, <2>2 DEF Grown, Low
    <3>2. /\ i \in 0 .. PagesIn(Made) - 1 /\ v = Low(VirtualOf(Made) + i)
          /\ paging_translate(tables', v) = Given(Made, i)
      BY <1>1, <3>1 DEF Now, Given
    <3>3. Made \in 1 .. Made /\ ~ LeftAlone(Made)
      BY <1>1 DEF Now
    <3> QED
      BY <1>5, <1>6, <3>2, <3>3 DEF AskedFor
  <2> QED
    BY <2>1, <2>2
<1>13. BuildInv'
  <2>1. /\ \A c \in 1 .. Made' : LeftAlone(c)' \/ Entered(c)'
    BY <1>1, <1>5, <1>6 DEF BuildInv
  <2>2. \A i \in 1 .. Len(calls') : calls'[i] = Plan'[Made' + i]
    BY <1>1, <1>4, <1>5, <1>6 DEF BuildInv
  <2>3. kernel' \in Kernels /\ kernel_no_execute' \in BOOLEAN /\ Made' \in 0 .. Len(Plan') /\ calls' \in Seq(CallRecord)
    BY <1>1, <1>4, <1>5, <1>6 DEF BuildInv
  <2> QED
    BY <1>6, <1>7, <1>8, <1>11, <1>12, <2>1, <2>2, <2>3 DEF BuildInv
<1> QED
  BY <1>2, <1>13

(* Taking the next call off the plan.                                      *)
LEMMA NextOfPlan ==
  ASSUME BuildInv, calls # <<>>, calls' = Tail(calls), UNCHANGED <<kernel, kernel_no_execute>>
  PROVE  /\ Made + 1 \in 1 .. Len(Plan) /\ Made' = Made + 1 /\ Made \in Nat
         /\ calls[1] = Plan[Made + 1] /\ calls' \in Seq(CallRecord)
         /\ \A i \in 1 .. Len(calls') : calls'[i] = Plan[Made' + i]
<1>1. /\ calls \in Seq(CallRecord) /\ Made \in 0 .. Len(Plan) /\ Len(Plan) \in Nat
      /\ \A i \in 1 .. Len(calls) : calls[i] = Plan[Made + i]
  BY PlanFacts DEF BuildInv
<1>2. Len(calls) \in Nat \ {0} /\ Len(calls') = Len(calls) - 1 /\ calls' \in Seq(CallRecord)
  BY <1>1
<1>3. \A i \in 1 .. Len(calls) - 1 : calls'[i] = calls[i + 1] /\ i + 1 \in 1 .. Len(calls)
  BY <1>1, <1>2
<1>4. Plan' = Plan
  BY PlanStays
<1>5. Made = Len(Plan) - Len(calls) /\ Made' = Len(Plan) - Len(calls')
  BY <1>4 DEF Made
<1>6. Made' = Made + 1 /\ Made + 1 \in 1 .. Len(Plan) /\ Made \in Nat
  BY <1>1, <1>2, <1>5
<1>7. calls[1] = Plan[Made + 1]
  BY <1>1, <1>2
<1>8. ASSUME NEW i \in 1 .. Len(calls) - 1 PROVE calls'[i] = Plan[(Made + 1) + i]
  <2>1. calls'[i] = Plan[Made + (i + 1)]
    BY <1>1, <1>3
  <2>2. Made + (i + 1) = (Made + 1) + i
    BY <1>6
  <2> QED
    BY <2>1, <2>2
<1> QED
  BY <1>2, <1>6, <1>7, <1>8

LEMMA StaysIs ==
  ASSUME BuildInv, calls # <<>>
  PROVE  StaysInPlace <=> LeftAlone(Made + 1)
<1>1. /\ Len(Plan) \in Nat /\ Len(Plan) = Ahead + Len(kernel) /\ Ahead \in Nat /\ Len(kernel) \in Nat
  BY PlanFacts DEF BuildInv
<1>2. Len(calls) \in Nat \ {0} /\ Made = Len(Plan) - Len(calls)
  BY DEF BuildInv, Made
<1> DEFINE c == Made + 1
           j == Len(kernel) - Len(calls) + 1
<1>3. c - Ahead = j
  BY <1>1, <1>2
<1>4. Len(calls) \in 1 .. Len(kernel) <=> c > Ahead
  BY <1>1, <1>2
<1>5. StaysInPlace <=> Len(calls) \in 1 .. Len(kernel) /\ kernel[j].v = kernel[j].p
  BY DEF StaysInPlace
<1> HIDE DEF c, j
<1>6. LeftAlone(c) <=> c > Ahead /\ kernel[j].v = kernel[j].p
  BY <1>3 DEF LeftAlone
<1> QED
  BY <1>4, <1>5, <1>6 DEF c

LEMMA CallBuilds ==
  ASSUME KernelInv, kernel # <<>>, next_call
  PROVE  IInv' /\ BuildInv'
<1>1. IInv /\ BuildInv
  BY DEF KernelInv
<1>2. /\ built = "building" /\ outcome = "mapped" /\ calls # <<>> /\ ~ StaysInPlace
      /\ Whole(calls[1]) /\ calls' = Tail(calls)
      /\ kernel' = kernel /\ kernel_no_execute' = kernel_no_execute /\ built' = built
      /\ paging_map(calls[1].v \div PageUnits, calls[1].p \div PageUnits,
                    calls[1].units \div PageUnits, calls[1].flags)
  BY DEF next_call, Ready
<1> DEFINE c == Made + 1
<1>3. /\ c \in 1 .. Len(Plan) /\ Made' = c /\ Made \in Nat
      /\ calls[1] = Plan[c] /\ calls' \in Seq(CallRecord)
      /\ \A i \in 1 .. Len(calls') : calls'[i] = Plan[Made' + i]
  BY <1>1, <1>2, NextOfPlan
<1>4. ~ LeftAlone(c)
  BY <1>1, <1>2, StaysIs
<1> HIDE DEF c
<1>5. paging_map(VirtualOf(c), FrameOf(c), PagesIn(c), Plan[c].flags) /\ Whole(Plan[c])
  BY <1>2, <1>3 DEF VirtualOf, FrameOf, PagesIn
<1>6. /\ VirtualOf(c) \in Nat /\ FrameOf(c) \in Nat /\ PagesIn(c) \in Nat
      /\ Plan[c].flags \in PageFlags /\ FrameOf(c) + PagesIn(c) <= FramePages
  BY <1>1, <1>3, <1>5, PlanFacts DEF BuildInv
<1>7. IInv'
  BY <1>1, <1>5, <1>6, MapInv
<1>8. /\ Entered(c) /\ outcome' = "running" /\ tables' = tables
      /\ asked'.v = VirtualOf(c) /\ asked'.p = FrameOf(c) /\ asked'.n = PagesIn(c)
      /\ asked'.flags = Plan[c].flags
  BY <1>5 DEF paging_map, Entered
<1>9. /\ Plan' = Plan /\ Ahead' = Ahead
      /\ \A d : /\ LeftAlone(d)' = LeftAlone(d) /\ Entered(d)' = Entered(d)
                /\ VirtualOf(d)' = VirtualOf(d) /\ FrameOf(d)' = FrameOf(d)
                /\ PagesIn(d)' = PagesIn(d)
      /\ \A d, i : Given(d, i)' = Given(d, i)
  BY <1>2, PlanStays
<1>10. \A d : Landed(d)' = Landed(d)
  BY <1>8, <1>9 DEF Landed
<1>11. \A d \in 1 .. c : d \in 1 .. Made \/ d = c
  BY <1>3 DEF c
<1>12. \A d \in 1 .. Made : d \in 1 .. c
  BY <1>3 DEF c
<1>13. \A d \in 1 .. c : LeftAlone(d) \/ Entered(d)
  BY <1>1, <1>8, <1>11 DEF BuildInv
<1>14. \A d \in 1 .. c : LeftAlone(d) \/ Landed(d) \/ (d = c /\ outcome' # "mapped")
  BY <1>1, <1>2, <1>8, <1>11 DEF BuildInv
<1>15. \A v \in Distinct : AskedFor(v)'
  BY <1>1, <1>3, <1>8, <1>9, <1>12 DEF BuildInv, AskedFor
<1>16. Now'
  <2>1. LeftAlone(Made)' = LeftAlone(c)
    BY <1>3, <1>9 DEF LeftAlone
  <2>2. VirtualOf(Made)' = VirtualOf(c) /\ FrameOf(Made)' = FrameOf(c) /\ PagesIn(Made)' = PagesIn(c)
    BY <1>3, <1>9 DEF VirtualOf, FrameOf, PagesIn
  <2> QED
    BY <1>3, <1>4, <1>8, <1>9, <2>1, <2>2 DEF Now
<1>17. Made' \in 0 .. Len(Plan')
  <2>1. Len(Plan) \in Nat
    BY <1>1, PlanFacts DEF BuildInv
  <2> QED
    BY <2>1, <1>3, <1>9
<1>18. BuildInv'
  <2>1. \A d \in 1 .. Made' : LeftAlone(d)' \/ Entered(d)'
    BY <1>3, <1>9, <1>13
  <2>2. \A d \in 1 .. Made' : LeftAlone(d)' \/ Landed(d)' \/ (d = Made' /\ outcome' # "mapped")
    BY <1>3, <1>9, <1>10, <1>14
  <2>3. \A i \in 1 .. Len(calls') : calls'[i] = Plan'[Made' + i]
    BY <1>3, <1>9
  <2>4. built' # "built" /\ kernel' \in Kernels /\ kernel_no_execute' \in BOOLEAN
    BY <1>1, <1>2 DEF BuildInv
  <2> QED
    BY <1>3, <1>15, <1>16, <1>17, <2>1, <2>2, <2>3, <2>4 DEF BuildInv
<1> QED
  BY <1>7, <1>18

LEMMA LeavingBuilds ==
  ASSUME KernelInv, kernel # <<>>, left_in_place
  PROVE  IInv' /\ BuildInv'
<1>1. IInv /\ BuildInv
  BY DEF KernelInv
<1>2. /\ built = "building" /\ outcome = "mapped" /\ StaysInPlace /\ calls' = Tail(calls)
      /\ kernel' = kernel /\ kernel_no_execute' = kernel_no_execute /\ built' = built
      /\ vars' = vars
  BY DEF left_in_place, Ready
<1>3. calls # <<>>
  BY <1>2 DEF StaysInPlace
<1> DEFINE c == Made + 1
<1>4. /\ c \in 1 .. Len(Plan) /\ Made' = c /\ Made \in Nat
      /\ calls' \in Seq(CallRecord)
      /\ \A i \in 1 .. Len(calls') : calls'[i] = Plan[Made' + i]
  BY <1>1, <1>2, <1>3, NextOfPlan
<1>5. LeftAlone(c)
  BY <1>1, <1>2, <1>3, StaysIs
<1>6. \A d \in 1 .. c : d \in 1 .. Made \/ d = c
  BY <1>4
<1>7. \A d \in 1 .. Made : d \in 1 .. c
  BY <1>4
<1> HIDE DEF c
<1>8. tables' = tables /\ outcome' = outcome /\ asked' = asked /\ walk' = walk /\ huge_pages' = huge_pages
  BY <1>2 DEF vars
<1>9. IInv'
  BY <1>1, <1>8 DEF IInv, TreeInv, WalkInv, ProgressInv, DoneInv, Behind, Wanted
<1>10. /\ Plan' = Plan /\ Ahead' = Ahead
       /\ \A d : /\ LeftAlone(d)' = LeftAlone(d) /\ Entered(d)' = Entered(d)
                 /\ VirtualOf(d)' = VirtualOf(d) /\ FrameOf(d)' = FrameOf(d)
                 /\ PagesIn(d)' = PagesIn(d)
       /\ \A d, i : Given(d, i)' = Given(d, i)
  BY <1>2, PlanStays
<1>11. \A d : Landed(d)' = Landed(d)
  BY <1>8, <1>10 DEF Landed
<1>12. \A d \in 1 .. c : LeftAlone(d) \/ Entered(d)
  BY <1>1, <1>5, <1>6 DEF BuildInv
<1>13. \A d \in 1 .. c : LeftAlone(d) \/ Landed(d)
  BY <1>1, <1>2, <1>5, <1>6 DEF BuildInv
<1>14. \A v \in Distinct : AskedFor(v)'
  BY <1>1, <1>4, <1>7, <1>8, <1>10 DEF BuildInv, AskedFor
<1>15. Made' \in 0 .. Len(Plan')
  <2>1. Len(Plan) \in Nat
    BY <1>1, PlanFacts DEF BuildInv
  <2> QED
    BY <2>1, <1>4, <1>10
<1>16. BuildInv'
  <2>1. \A d \in 1 .. Made' : LeftAlone(d)' \/ Entered(d)'
    BY <1>4, <1>10, <1>12
  <2>2. \A d \in 1 .. Made' : LeftAlone(d)' \/ Landed(d)'
    BY <1>4, <1>10, <1>11, <1>13
  <2>3. \A i \in 1 .. Len(calls') : calls'[i] = Plan'[Made' + i]
    BY <1>4, <1>10
  <2>4. built' # "built" /\ kernel' \in Kernels /\ kernel_no_execute' \in BOOLEAN /\ outcome' # "running"
    BY <1>1, <1>2, <1>8 DEF BuildInv
  <2> QED
    BY <1>4, <1>14, <1>15, <2>1, <2>2, <2>3, <2>4 DEF BuildInv
<1> QED
  BY <1>9, <1>16

LEMMA StoppingBuilds ==
  ASSUME KernelInv, kernel # <<>>, call_refused \/ all_mapped
  PROVE  IInv' /\ BuildInv'
<1>1. IInv /\ BuildInv
  BY DEF KernelInv
<1>2. /\ vars' = vars /\ kernel' = kernel /\ kernel_no_execute' = kernel_no_execute /\ calls' = calls
      /\ built' = "built" => calls = <<>> /\ outcome = "mapped"
  BY DEF call_refused, all_mapped, Ready
<1>3. tables' = tables /\ outcome' = outcome /\ asked' = asked /\ walk' = walk /\ huge_pages' = huge_pages
  BY <1>2 DEF vars
<1>4. IInv'
  BY <1>1, <1>3 DEF IInv, TreeInv, WalkInv, ProgressInv, DoneInv, Behind, Wanted
<1>5. Plan' = Plan /\ Ahead' = Ahead /\ Made' = Made
  BY <1>2 DEF Plan, Ahead, Made
<1>6. BuildInv'
  BY <1>1, <1>2, <1>3, <1>5 DEF BuildInv, LeftAlone, Entered, Landed, AskedFor, Now, Given,
     VirtualOf, FrameOf, PagesIn
<1> QED
  BY <1>4, <1>6

LEMMA KernelInvariant == KernelSpec => []KernelInv
<1>1. KernelInit => KernelInv
  <2> SUFFICES ASSUME KernelInit PROVE KernelInv
    OBVIOUS
  <2>1. IInv
    BY InitInv DEF KernelInit
  <2>2. /\ Init /\ kernel \in Kernels \cup {<<>>} /\ built = "building"
        /\ kernel_no_execute \in BOOLEAN
        /\ kernel # <<>> => calls = Plan
    BY DEF KernelInit, Plan
  <2>3. ASSUME kernel # <<>> PROVE BuildInv
    <3>1. kernel \in Kernels /\ calls = Plan
      BY <2>2, <2>3
    <3>2. Plan \in Seq(CallRecord) /\ Len(Plan) \in Nat
      BY <2>2, <3>1, PlanFacts
    <3>3. Made = 0 /\ \A i \in 1 .. Len(calls) : calls[i] = Plan[Made + i]
      BY <3>1, <3>2 DEF Made
    <3>4. ASSUME NEW v \in Distinct PROVE paging_translate(tables, v) = UNMAPPED
      BY <2>2, <3>4, NothingAtFirst
    <3>5. \A c \in 1 .. Made : FALSE
      BY <3>3
    <3>6. outcome = "mapped"
      BY <2>2 DEF Init
    <3> QED
      BY <2>2, <3>1, <3>2, <3>3, <3>4, <3>5, <3>6 DEF BuildInv, AskedFor
  <2> QED
    BY <2>1, <2>2, <2>3 DEF KernelInv
<1>2. KernelInv /\ [KernelNext]_all_vars => KernelInv'
  <2> SUFFICES ASSUME KernelInv, [KernelNext]_all_vars PROVE KernelInv'
    OBVIOUS
  <2>1. CASE kernel = <<>> /\ Next /\ UNCHANGED kernel_vars
    <3>1. IInv'
      BY <2>1, NextInv DEF KernelInv
    <3> QED
      BY <2>1, <3>1 DEF KernelInv, kernel_vars
  <2>2. CASE kernel # <<>> /\ Step /\ UNCHANGED kernel_vars
    <3>1. IInv' /\ BuildInv'
      BY <2>2, StepBuilds
    <3> QED
      BY <2>2, <3>1 DEF KernelInv, kernel_vars
  <2>3. CASE next_call
    <3>1. kernel # <<>> /\ kernel' = kernel /\ built' = built
      BY <2>3 DEF next_call, Ready
    <3>2. IInv' /\ BuildInv'
      BY <2>3, <3>1, CallBuilds
    <3> QED
      BY <3>1, <3>2 DEF KernelInv
  <2>4. CASE left_in_place
    <3>1. kernel # <<>> /\ kernel' = kernel /\ built' = built
      BY <2>4 DEF left_in_place, Ready
    <3>2. IInv' /\ BuildInv'
      BY <2>4, <3>1, LeavingBuilds
    <3> QED
      BY <3>1, <3>2 DEF KernelInv
  <2>5. CASE call_refused \/ all_mapped
    <3>1. kernel # <<>> /\ kernel' = kernel /\ built' \in {"built", "refused"}
      BY <2>5 DEF call_refused, all_mapped, Ready
    <3>2. IInv' /\ BuildInv'
      BY <2>5, <3>1, StoppingBuilds
    <3> QED
      BY <3>1, <3>2 DEF KernelInv
  <2>6. CASE UNCHANGED all_vars
    <3>1. /\ tables' = tables /\ outcome' = outcome /\ asked' = asked /\ walk' = walk
          /\ huge_pages' = huge_pages /\ kernel' = kernel /\ kernel_no_execute' = kernel_no_execute
          /\ calls' = calls /\ built' = built
      BY <2>6 DEF all_vars, vars, kernel_vars
    <3>2. IInv' = IInv
      BY <3>1 DEF IInv, TreeInv, WalkInv, ProgressInv, DoneInv, Behind, Wanted
    <3>3. Plan' = Plan /\ Ahead' = Ahead /\ Made' = Made
      BY <3>1 DEF Plan, Ahead, Made
    <3>4. BuildInv' = BuildInv
      BY <3>1, <3>3 DEF BuildInv, LeftAlone, Entered, Landed, AskedFor, Now, Given,
         VirtualOf, FrameOf, PagesIn
    <3> QED
      BY <3>1, <3>2, <3>4 DEF KernelInv
  <2> QED
    BY <2>1, <2>2, <2>3, <2>4, <2>5, <2>6 DEF KernelNext
<1> QED
  BY <1>1, <1>2, PTL DEF KernelSpec

-----------------------------------------------------------------------------
(* What the finished tables say.                                           *)
LEMMA BuiltFacts ==
  ASSUME KernelInv, built = "built"
  PROVE  /\ kernel \in Kernels /\ kernel_no_execute \in BOOLEAN /\ Made = Len(Plan)
         /\ \A c \in 1 .. Len(Plan) : LeftAlone(c) \/ (Entered(c) /\ Landed(c))
         /\ \A v \in Distinct : AskedFor(v)
<1>1. BuildInv /\ calls = <<>> /\ outcome = "mapped"
  BY DEF KernelInv, BuildInv
<1>2. Made = Len(Plan)
  <2>1. Len(Plan) \in Nat
    BY <1>1, PlanFacts DEF BuildInv
  <2> QED
    BY <1>1, <2>1 DEF Made
<1> QED
  BY <1>1, <1>2 DEF BuildInv

(* The identity map does not go round the address space: it would have met *)
(* itself.                                                                 *)
LEMMA IdentityFacts ==
  ASSUME KernelInv, built = "built"
  PROVE  /\ IdentityPages <= Translatable
         /\ ~ LeftAlone(1) /\ VirtualOf(1) = 0 /\ FrameOf(1) = 0 /\ PagesIn(1) = IdentityPages
         /\ Plan[1].flags = {"writable"} /\ 1 \in 1 .. Len(Plan)
         /\ \A i \in 0 .. IdentityPages - 1 :
              paging_translate(tables, Low(i)) = [frame |-> i, flags |-> {"writable"}]
<1>1. /\ kernel \in Kernels /\ kernel_no_execute \in BOOLEAN
      /\ \A c \in 1 .. Len(Plan) : LeftAlone(c) \/ (Entered(c) /\ Landed(c))
  BY BuiltFacts
<1>2. Plan[1] = FirstCall
  BY <1>1, AllCalls DEF Plan
<1>3. /\ Ahead \in Nat \ {0} /\ Len(Plan) \in Nat /\ Len(Plan) = Ahead + Len(kernel)
      /\ Len(kernel) \in Nat \ {0}
  BY <1>1, PlanFacts
<1>4. 1 \in 1 .. Len(Plan) /\ ~ LeftAlone(1)
  BY <1>3 DEF LeftAlone
<1>5. Landed(1)
  BY <1>1, <1>4
<1>6. /\ PageUnits \in Nat \ {0} /\ WordUnits \in Nat \ {0} /\ IdentityPages \in Nat \ {0}
  BY UnitFacts
<1>7. 0 % WordUnits = 0 /\ 0 * PageUnits = 0
  BY <1>6
<1>8. /\ Plan[1].v = 0 /\ Plan[1].p = 0 /\ Plan[1].units = IdentityPages * PageUnits
      /\ Plan[1].flags = {"writable"}
  BY <1>2, <1>7 DEF FirstCall, Call
<1>9. 0 \div PageUnits = 0
  BY <1>7, MultipleOfPage
<1>10. VirtualOf(1) = 0 /\ FrameOf(1) = 0 /\ PagesIn(1) = IdentityPages
  BY <1>6, <1>8, <1>9, MultipleOfPage DEF VirtualOf, FrameOf, PagesIn
<1>11. ASSUME NEW i \in 0 .. IdentityPages - 1
       PROVE  paging_translate(tables, Low(i)) = [frame |-> i, flags |-> {"writable"}]
  <2>1. paging_translate(tables, Low(0 + i)) = [frame |-> 0 + i, flags |-> {"writable"}]
    BY <1>5, <1>8, <1>10 DEF Landed, Given
  <2>2. 0 + i = i
    BY <1>6
  <2> QED
    BY <2>1, <2>2
<1>12. IdentityPages <= Translatable
  <2> SUFFICES ASSUME Translatable < IdentityPages PROVE FALSE
    BY <1>6, SpanFacts
  <2> DEFINE t == Translatable
  <2>1. t \in Nat \ {0}
    BY SpanFacts
  <2>2. 0 \in 0 .. IdentityPages - 1 /\ t \in 0 .. IdentityPages - 1
    BY <1>6, <2>1
  <2>3. Low(0) = Low(t)
    <3> HIDE DEF t
    <3>1. 0 % t = 0 /\ t % t = 0
      BY <2>1
    <3> QED
      BY <3>1 DEF Low, t
  <2> HIDE DEF t
  <2>4. [frame |-> 0, flags |-> {"writable"}] = [frame |-> t, flags |-> {"writable"}]
    BY <1>11, <2>2, <2>3
  <2>5. 0 = t
    BY <2>4
  <2> QED
    BY <2>1, <2>5
<1> QED
  BY <1>4, <1>8, <1>10, <1>11, <1>12

(* Where a byte of a segment is, in pages: the same number of pages and    *)
(* units further on both sides.                                            *)
LEMMA ByteOfSegment ==
  ASSUME NEW v \in Nat, NEW p \in Nat, NEW i \in Nat, v % PageUnits = p % PageUnits
  PROVE  LET m == ((v % PageUnits) + i) \div PageUnits IN
         /\ m \in Nat
         /\ (v + i) \div PageUnits = (v \div PageUnits) + m
         /\ ((p \div PageUnits) + m) * PageUnits + ((v + i) % PageUnits) = p + i
<1> DEFINE u == PageUnits
           r == v % u
           q == v \div u
           s == p \div u
           m == (r + i) \div u
           e == (r + i) % u
<1>1. u \in Nat \ {0}
  BY UnitFacts
<1>2. q \in Nat /\ r \in 0 .. u - 1 /\ v = q * u + r
  BY <1>1, DivMod
<1>3. s \in Nat /\ p = s * u + r
  BY <1>1, DivMod
<1> HIDE DEF q, s, r
<1>4. r + i \in Nat
  BY <1>1, <1>2
<1>5. m \in Nat /\ e \in 0 .. u - 1 /\ r + i = m * u + e
  BY <1>1, <1>4, DivMod
<1>6. q * u \in Nat /\ s * u \in Nat
  BY <1>1, <1>2, <1>3
<1>7. v + i = q * u + (r + i)
  BY <1>1, <1>2, <1>6
<1>8. (v + i) \div u = q + m /\ (v + i) % u = e
  <2> DEFINE y == r + i
  <2>1. y \in Nat
    BY <1>4
  <2> HIDE DEF y
  <2>2. (q * u + y) \div u = q + (y \div u) /\ (q * u + y) % u = y % u
    BY <1>1, <1>2, <2>1, DivShift
  <2> QED
    BY <1>7, <2>2 DEF y
<1> HIDE DEF m, e
<1>9. (s + m) * u + e = p + i
  <2>1. (s + m) * u = s * u + m * u /\ m * u \in Nat
    BY <1>1, <1>3, <1>5
  <2> QED
    BY <1>1, <1>2, <1>3, <1>5, <1>6, <2>1
<1> QED
  BY <1>5, <1>8, <1>9 DEF m, q, s, r

(* The call for a segment.                                                 *)
LEMMA CallOfSegment ==
  ASSUME KernelInv, built = "built", NEW j \in DOMAIN kernel, kernel[j].v # kernel[j].p
  PROVE  LET c == Ahead + j
             s == kernel[j]
         IN  /\ c \in 1 .. Len(Plan) /\ ~ LeftAlone(c) /\ Landed(c)
             /\ VirtualOf(c) = s.v \div PageUnits /\ FrameOf(c) = s.p \div PageUnits
             /\ Plan[c].flags = Asked(s, kernel_no_execute)
             /\ PagesIn(c) \in Nat
             /\ s.units + (s.v % PageUnits) <= PagesIn(c) * PageUnits
             /\ PagesIn(c) * PageUnits < s.units + (s.v % PageUnits) + PageUnits
<1> DEFINE c == Ahead + j
           s == kernel[j]
<1>1. /\ kernel \in Kernels /\ kernel_no_execute \in BOOLEAN
      /\ \A d \in 1 .. Len(Plan) : LeftAlone(d) \/ (Entered(d) /\ Landed(d))
  BY BuiltFacts
<1>2. /\ Ahead \in Nat \ {0} /\ Len(Plan) = Ahead + Len(kernel) /\ Len(kernel) \in Nat
      /\ j \in 1 .. Len(kernel)
  BY <1>1, PlanFacts, KernelSegments
<1>3. c \in 1 .. Len(Plan) /\ c > Ahead /\ c - Ahead = j
  BY <1>2
<1>4. ~ LeftAlone(c)
  BY <1>3 DEF LeftAlone
<1>5. Entered(c) /\ Landed(c)
  BY <1>1, <1>3, <1>4
<1>6. SegmentFits(s) /\ Plan[c] = map_segment(s, kernel_no_execute)
  BY <1>1, KernelSegments, AllCalls DEF Plan, Ahead
<1> HIDE DEF c, s
<1>7. Plan[c].flags = Asked(s, kernel_no_execute)
  BY <1>1, <1>6, SegmentCall
<1>8. PICK k \in 1 .. WordPages : Covers(s, Plan[c], k)
  BY <1>1, <1>6, SegmentCall
<1>9. PagesIn(c) = IF k = WordPages THEN 0 ELSE k
  BY <1>8 DEF Covers, PagesIn
<1>10. PagesIn(c) # 0
  BY <1>5 DEF Entered, Acceptable
<1>11. PagesIn(c) = k /\ k \in Nat
  BY <1>9, <1>10
<1> QED
  BY <1>3, <1>4, <1>5, <1>7, <1>8, <1>11 DEF Covers, VirtualOf, FrameOf, c, s

(* A segment linked elsewhere is at its bytes, with its own permissions.   *)
LEMMA SegmentIsMapped ==
  ASSUME KernelInv, built = "built", NEW j \in DOMAIN kernel,
         kernel[j].v # kernel[j].p, SameOffset(kernel[j])
  PROVE  Mapped(kernel[j])
<1> DEFINE s == kernel[j]
           u == PageUnits
           c == Ahead + j
           r == s.v % u
           n == PagesIn(c)
<1>1. /\ Landed(c) /\ VirtualOf(c) = s.v \div u /\ FrameOf(c) = s.p \div u
      /\ Plan[c].flags = Asked(s, kernel_no_execute) /\ n \in Nat
      /\ s.units + r <= n * u
  BY CallOfSegment
<1>2. s.v \in Nat /\ s.p \in Nat /\ s.units \in Nat \ {0} /\ s.v % u = s.p % u
  <2>1. SegmentFits(s)
    BY KernelSegments, BuiltFacts
  <2> QED
    BY <2>1, SegmentTyped DEF SameOffset
<1>3. u \in Nat \ {0}
  BY UnitFacts
<1> SUFFICES ASSUME NEW i \in 0 .. s.units - 1
             PROVE  Translated(s.v + i) = [at |-> s.p + i, flags |-> Asked(s, kernel_no_execute)]
  BY DEF Mapped
<1> DEFINE m == (r + i) \div u
<1> HIDE DEF s, c, n
<1>4. i \in Nat /\ i < s.units
  BY <1>2
<1>5. /\ m \in Nat /\ (s.v + i) \div u = VirtualOf(c) + m
      /\ (FrameOf(c) + m) * u + ((s.v + i) % u) = s.p + i
  BY <1>1, <1>2, <1>4, ByteOfSegment
<1>6. m \in 0 .. n - 1
  <2>1. r \in 0 .. u - 1
    BY <1>2, <1>3, DivMod
  <2> HIDE DEF r
  <2>2. r + i \in Nat /\ n * u \in Nat
    BY <1>1, <1>3, <1>4, <2>1
  <2>3. r + i < n * u
    BY <1>1, <1>2, <1>4, <2>1, <2>2
  <2>4. m < n
    BY <1>1, <1>3, <2>2, <2>3, DivBelow
  <2> HIDE DEF m
  <2> QED
    BY <1>1, <1>5, <2>4
<1> HIDE DEF m
<1>7. paging_translate(tables, Low(VirtualOf(c) + m)) =
        [frame |-> FrameOf(c) + m, flags |-> Asked(s, kernel_no_execute)]
  BY <1>1, <1>6 DEF Landed, Given, n
<1> DEFINE page == paging_translate(tables, Low(VirtualOf(c) + m))
<1>8. page.frame = FrameOf(c) + m /\ page.flags = Asked(s, kernel_no_execute)
  BY <1>7
<1>9. Translated(s.v + i) = [at |-> page.frame * u + ((s.v + i) % u), flags |-> page.flags]
  BY <1>5 DEF Translated, Low
<1> HIDE DEF page
<1> QED
  BY <1>5, <1>8, <1>9

(* The pages of its call are the pages of a segment.                       *)
LEMMA SegmentPages ==
  ASSUME KernelInv, built = "built", NEW j \in DOMAIN kernel,
         kernel[j].v # kernel[j].p, SameOffset(kernel[j]),
         NEW i \in 0 .. PagesIn(Ahead + j) - 1
  PROVE  FrameOf(Ahead + j) + i \in PagesOf(kernel[j])
<1> DEFINE s == kernel[j]
           u == PageUnits
           c == Ahead + j
           r == s.v % u
           n == PagesIn(c)
           q == s.p \div u
           end == s.p + s.units - 1
<1>1. /\ FrameOf(c) = q /\ n \in Nat /\ n * u < s.units + r + u
  BY CallOfSegment
<1>2. s.v \in Nat /\ s.p \in Nat /\ s.units \in Nat \ {0} /\ s.v % u = s.p % u
  <2>1. SegmentFits(s)
    BY KernelSegments, BuiltFacts
  <2> QED
    BY <2>1, SegmentTyped DEF SameOffset
<1>3. u \in Nat \ {0} /\ i \in Nat /\ i + 1 <= n
  BY <1>1, UnitFacts
<1>4. q \in Nat /\ r \in 0 .. u - 1 /\ s.p = q * u + r
  <2>1. s.p \div u \in Nat /\ s.p % u \in 0 .. u - 1 /\ s.p = (s.p \div u) * u + (s.p % u)
    BY <1>2, <1>3, DivMod
  <2> QED
    BY <1>2, <2>1
<1> HIDE DEF c, n, q, r
<1>5. (i + 1) * u <= n * u /\ (i + 1) * u = i * u + u /\ i * u \in Nat /\ n * u \in Nat
  BY <1>1, <1>3, ProductOrder
<1>6. i * u <= s.units + r - 1
  BY <1>1, <1>2, <1>3, <1>4, <1>5
<1>7. (q + i) * u = q * u + i * u /\ q * u \in Nat
  BY <1>3, <1>4
<1>8. (q + i) * u <= end /\ end \in Nat
  BY <1>2, <1>3, <1>4, <1>5, <1>6, <1>7
<1>9. q + i <= end \div u
  <2> SUFFICES ASSUME (end \div u) + 1 <= q + i PROVE FALSE
    <3>1. end \div u \in Nat
      BY <1>3, <1>8, DivMod
    <3> QED
      BY <1>3, <1>4, <3>1
  <2> DEFINE l == end \div u
             e == end % u
  <2>1. l \in Nat /\ e \in 0 .. u - 1 /\ end = l * u + e
    BY <1>3, <1>8, DivMod
  <2> HIDE DEF l, e, end
  <2>2. (l + 1) * u <= (q + i) * u
    <3>1. l + 1 <= q + i
      BY DEF l
    <3> QED
      BY <1>3, <1>4, <2>1, <3>1, ProductOrder
  <2>3. (l + 1) * u = l * u + u /\ l * u \in Nat /\ (q + i) * u \in Nat
    BY <1>3, <1>4, <2>1
  <2> QED
    BY <1>3, <1>8, <2>1, <2>2, <2>3
<1>10. PagesOf(s) = q .. (end \div u)
  BY DEF PagesOf, q
<1>11. end \div u \in Nat
  BY <1>3, <1>8, DivMod
<1> QED
  BY <1>1, <1>3, <1>4, <1>9, <1>10, <1>11 DEF c

(* In the part of the address space that is the kernel's own, what leads   *)
(* to a page of a segment is what was mapped for one.                      *)
LEMMA NoOtherWay ==
  ASSUME KernelInv, built = "built",
         \A i \in DOMAIN kernel : SameOffset(kernel[i]),
         NEW page \in IdentityPages .. Translatable - 1, NEW i \in DOMAIN kernel,
         paging_translate(tables, page).frame \in PagesOf(kernel[i])
  PROVE  \E j \in DOMAIN kernel :
           /\ paging_translate(tables, page).frame \in PagesOf(kernel[j])
           /\ paging_translate(tables, page).flags = Asked(kernel[j], kernel_no_execute)
<1> DEFINE there == paging_translate(tables, page)
<1>1. /\ kernel \in Kernels /\ kernel_no_execute \in BOOLEAN /\ Made = Len(Plan)
      /\ \A c \in 1 .. Len(Plan) : LeftAlone(c) \/ (Entered(c) /\ Landed(c))
  BY BuiltFacts
<1>2. /\ Ahead \in Nat \ {0} /\ Len(Plan) = Ahead + Len(kernel) /\ Len(kernel) \in Nat
      /\ DOMAIN kernel = 1 .. Len(kernel)
  BY <1>1, PlanFacts, KernelSegments
<1>3. page \in Distinct /\ page \in Nat /\ page >= IdentityPages /\ IdentityPages \in Nat
  BY UnitFacts, SpanFacts DEF Distinct
<1>4. there # UNMAPPED
  <2>1. SegmentFits(kernel[i])
    BY <1>1, KernelSegments
  <2>2. kernel[i].p \in Nat /\ PageUnits \in Nat \ {0}
    BY <2>1, SegmentTyped, UnitFacts
  <2>3. kernel[i].p \div PageUnits \in Nat
    BY <2>2, DivMod
  <2>4. -1 \notin PagesOf(kernel[i])
    BY <2>3 DEF PagesOf
  <2>5. UNMAPPED.frame = -1
    BY DEF UNMAPPED
  <2> QED
    BY <2>4, <2>5
<1>5. AskedFor(page)
  BY <1>3, BuiltFacts
<1>6. PICK c \in 1 .. Len(Plan) :
        /\ ~ LeftAlone(c)
        /\ \E k \in 0 .. PagesIn(c) - 1 : page = Low(VirtualOf(c) + k) /\ there = Given(c, k)
  BY <1>1, <1>4, <1>5 DEF AskedFor
<1>7. PICK k \in 0 .. PagesIn(c) - 1 :
        ~ LeftAlone(c) /\ page = Low(VirtualOf(c) + k) /\ there = Given(c, k)
  BY <1>6
<1> HIDE DEF there
<1>8. there.frame = FrameOf(c) + k /\ there.flags = Plan[c].flags
  BY <1>7 DEF Given
<1>9. c # 1
  <2> SUFFICES ASSUME c = 1 PROVE FALSE
    OBVIOUS
  <2>1. VirtualOf(1) = 0 /\ PagesIn(1) = IdentityPages /\ IdentityPages <= Translatable
    BY IdentityFacts
  <2>2. k \in 0 .. IdentityPages - 1 /\ page = Low(0 + k)
    BY <1>7, <2>1
  <2>3. 0 + k = k /\ k \in Nat /\ k < Translatable /\ Translatable \in Nat \ {0}
    BY <1>3, <2>1, <2>2, SpanFacts
  <2>4. Low(k) = k
    <3> DEFINE t == Translatable
    <3>1. t \in Nat \ {0} /\ k \in Nat /\ k < t
      BY <2>3
    <3> HIDE DEF t
    <3>2. k % t = k
      BY <3>1
    <3> QED
      BY <3>2 DEF Low, t
  <2> QED
    BY <1>3, <2>2, <2>3, <2>4
<1>10. ~ c \in 2 .. Ahead
  <2> SUFFICES ASSUME c \in 2 .. Ahead PROVE FALSE
    OBVIOUS
  <2>1. Whole(Plan[c])
    BY <1>1, <1>7 DEF Entered
  <2>2. Beside(kernel, Plan[c])
    BY <1>1, <2>1, AllCalls DEF Plan, Ahead
  <2>3. FrameOf(c) + k \notin PagesOf(kernel[i])
    BY <1>7, <2>2 DEF Beside, FrameOf, PagesIn
  <2> QED
    BY <1>8, <2>3 DEF there
<1> DEFINE j == c - Ahead
<1>11. j \in DOMAIN kernel /\ c = Ahead + j /\ c > Ahead
  BY <1>2, <1>7, <1>9, <1>10
<1>12. kernel[j].v # kernel[j].p
  BY <1>7, <1>11 DEF LeftAlone
<1> HIDE DEF j
<1>13. SameOffset(kernel[j])
  BY <1>11
<1>14. there.frame \in PagesOf(kernel[j])
  BY <1>7, <1>8, <1>11, <1>12, <1>13, SegmentPages
<1>15. there.flags = Asked(kernel[j], kernel_no_execute)
  BY <1>8, <1>11, <1>12, CallOfSegment
<1> QED
  BY <1>11, <1>14, <1>15 DEF there

(* What a kernel is entered with, of whatever segments: memory where the   *)
(* loader stands, every segment linked elsewhere at its bytes with its own *)
(* permissions, and no other way to write to it (build_kernel_tables).     *)
THEOREM SegmentsAreAsAsked == KernelSpec => []SegmentsAsAsked
<1>1. KernelInv => SegmentsAsAsked
  <2> SUFFICES ASSUME KernelInv, built = "built" PROVE SegmentsAsAsked
    BY DEF SegmentsAsAsked
  <2>1. ASSUME NEW page \in 0 .. IdentityPages - 1
        PROVE  paging_translate(tables, page) = [frame |-> page, flags |-> {"writable"}]
    <3> DEFINE t == Translatable
    <3>1. t \in Nat \ {0} /\ page \in Nat /\ page < t
      BY IdentityFacts, SpanFacts, UnitFacts
    <3>2. Low(page) = page
      <4> HIDE DEF t
      <4>1. page % t = page
        BY <3>1
      <4> QED
        BY <4>1 DEF Low, t
    <3>3. paging_translate(tables, Low(page)) = [frame |-> page, flags |-> {"writable"}]
      BY IdentityFacts
    <3> QED
      BY <3>2, <3>3
  <2>2. \A i \in DOMAIN kernel :
          kernel[i].v # kernel[i].p /\ SameOffset(kernel[i]) => Mapped(kernel[i])
    BY SegmentIsMapped
  <2>3. ASSUME \A i \in DOMAIN kernel : SameOffset(kernel[i]),
               NEW page \in IdentityPages .. Translatable - 1, NEW i \in DOMAIN kernel,
               paging_translate(tables, page).frame \in PagesOf(kernel[i])
        PROVE  \E j \in DOMAIN kernel :
                 /\ paging_translate(tables, page).frame \in PagesOf(kernel[j])
                 /\ paging_translate(tables, page).flags = Asked(kernel[j], kernel_no_execute)
    BY <2>3, NoOtherWay
  <2> QED
    BY <2>1, <2>2, <2>3 DEF SegmentsAsAsked
<1> QED
  BY <1>1, KernelInvariant, PTL

(* A step of KernelTables is a step of Paging or leaves the tables alone.  *)
LEMMA KernelSteps ==
  KernelInv /\ [KernelNext]_all_vars => (IInv /\ [Next]_vars) \/ (IInv /\ UNCHANGED tables)
<1> SUFFICES ASSUME KernelInv, [KernelNext]_all_vars PROVE [Next]_vars \/ UNCHANGED tables
  BY DEF KernelInv
<1>1. CASE next_call
  BY <1>1 DEF next_call, paging_map
<1>2. CASE left_in_place \/ call_refused \/ all_mapped \/ UNCHANGED all_vars
  BY <1>2 DEF left_in_place, call_refused, all_mapped, all_vars, vars
<1> QED
  BY <1>1, <1>2 DEF KernelNext, Next

(* What holds of any calls of paging_map holds of those build_kernel_tables *)
(* makes: the tables they leave are a tree, each that succeeds mapped all  *)
(* of its range, and no step changes a page or maps one that was not asked *)
(* for.                                                                    *)
THEOREM KernelTablesKeepPaging ==
  KernelSpec => /\ [](TablesAreTree /\ SuccessIsComplete)
                /\ MapsOnlyAsAsked /\ ImplementsAddressSpace
<1>1. KernelInv => TablesAreTree /\ SuccessIsComplete
  BY TreeIsTree, CompleteIsComplete DEF KernelInv
<1>2. KernelInv /\ [KernelNext]_all_vars => [\A v \in Distinct : Grown(v)]_vars
  <2> SUFFICES ASSUME KernelInv, [KernelNext]_all_vars PROVE \A v \in Distinct : Grown(v)
    OBVIOUS
  <2>1. CASE UNCHANGED tables
    BY <2>1 DEF Grown
  <2> QED
    BY <2>1, KernelSteps, NextGrows
<1>3. KernelInv /\ [KernelNext]_all_vars => [Space!SpaceNext]_Mapping
  <2> SUFFICES ASSUME KernelInv, [KernelNext]_all_vars PROVE Space!SpaceNext \/ UNCHANGED Mapping
    OBVIOUS
  <2>1. CASE UNCHANGED tables
    BY <2>1 DEF Mapping
  <2> QED
    BY <2>1, KernelSteps, NextMaps
<1>4. KernelInit => Space!SpaceInit
  BY InitMaps DEF KernelInit
<1> QED
  BY <1>1, <1>2, <1>3, <1>4, KernelInvariant, PTL
     DEF KernelSpec, MapsOnlyAsAsked, Grown, ImplementsAddressSpace, Space!SpaceSpec, Mapping
=============================================================================
