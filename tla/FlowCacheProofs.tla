-------------------------- MODULE FlowCacheProofs --------------------------
(***************************************************************************)
(* The flow cache, for every number of render threads, identities, payload *)
(* sizes and budgets: its types, its books and the freshness of what it    *)
(* serves.                                                                 *)
(*                                                                         *)
(* The first part is about the operators of LruStore alone: what the       *)
(* running total is, and that every operation takes a coherent store to a  *)
(* coherent store whose entries were already there or are the one just     *)
(* put.                                                                    *)
(***************************************************************************)
EXTENDS FlowCache, SequenceTheorems, WellFoundedInduction, TLAPS

-----------------------------------------------------------------------------
(* Induction over the naturals with a set in the place of a predicate. *)

(* Every non-empty set of naturals has a least element. *)
LEMMA LeastElement ==
  ASSUME NEW S \in SUBSET Nat, S # {}
  PROVE  \E n \in S : \A m \in S : n <= m
<1>1. IsWellFoundedOn(OpToRel(<, Nat), Nat)
  BY NatLessThanWellFounded
<1>2. PICK n \in S : \A y \in S : ~(<<y, n>> \in OpToRel(<, Nat))
  BY <1>1, WFMin
<1>3. \A m \in S : ~(m < n)
  BY <1>2 DEF OpToRel
<1> QED BY <1>3

(* A set of naturals that holds 0 and is closed under successor holds all. *)
LEMMA InductiveSet ==
  ASSUME NEW S \in SUBSET Nat, 0 \in S, \A n \in S : n + 1 \in S
  PROVE  \A n \in Nat : n \in S
<1> DEFINE T == Nat \ S
<1> SUFFICES ASSUME T # {} PROVE FALSE
  OBVIOUS
<1>1. PICK n \in T : \A m \in T : n <= m
  BY LeastElement
<1>2. n # 0 /\ n - 1 \in Nat /\ n - 1 \in S
  BY <1>1
<1> QED BY <1>1, <1>2

(* A non-empty set of numbers between 0 and N has a greatest element. *)
LEMMA GreatestElement ==
  ASSUME NEW N \in Nat, NEW S \in SUBSET (0..N), S # {}
  PROVE  \E n \in S : \A m \in S : m <= n
<1> DEFINE T == {k \in 0..N : N - k \in S}
<1>1. T # {} /\ T \in SUBSET Nat
  <2>1. PICK m \in S : TRUE
    OBVIOUS
  <2>2. m \in 0..N
    OBVIOUS
  <2>3. N - m \in 0..N /\ N - (N - m) = m
    BY <2>2
  <2>4. N - m \in T
    BY <2>3
  <2>5. T \in SUBSET Nat
    OBVIOUS
  <2> HIDE DEF T
  <2> QED BY <2>4, <2>5
<1>2. PICK k \in T : \A j \in T : k <= j
  BY <1>1, LeastElement
<1>3. ASSUME NEW m \in S PROVE m <= N - k
  <2>1. N - m \in T /\ m \in 0..N
    BY <1>3
  <2> QED BY <1>2, <2>1
<1> QED BY <1>2, <1>3

-----------------------------------------------------------------------------
(* The running total is a total function with the expected recurrence. *)
LEMMA RunningBytesDef ==
  ASSUME NEW E, NEW order \in Seq(E), \A e \in E : e.bytes \in Nat
  PROVE  /\ RunningBytes(order) \in [0..Len(order) -> Nat]
         /\ RunningBytes(order)[0] = 0
         /\ \A n \in 1..Len(order) :
              RunningBytes(order)[n] = RunningBytes(order)[n - 1] + order[n].bytes
<1> DEFINE L == Len(order)
           Step(g, n) == g[n] = IF n = 0 THEN 0 ELSE g[n - 1] + order[n].bytes
           Upto(m) == \E g \in [0..m -> Nat] : \A n \in 0..m : Step(g, n)
           S == {m \in Nat : m <= L => Upto(m)}
<1>0. L \in Nat /\ \A n \in 1..L : order[n].bytes \in Nat
  OBVIOUS
<1>1. 0 \in S
  <2> DEFINE g == [n \in 0..0 |-> 0]
  <2>1. g \in [0..0 -> Nat] /\ \A n \in 0..0 : Step(g, n)
    OBVIOUS
  <2> QED BY <2>1
<1>2. ASSUME NEW m \in S PROVE m + 1 \in S
  <2> HIDE DEF Upto
  <2> SUFFICES ASSUME m + 1 <= L PROVE  Upto(m + 1)
    OBVIOUS
  <2>0. m \in Nat /\ Upto(m)
    BY <1>0
  <2>1. PICK h \in [0..m -> Nat] : \A n \in 0..m : Step(h, n)
    BY <2>0 DEF Upto
  <2> DEFINE g == [n \in 0..(m + 1) |-> IF n = m + 1 THEN h[m] + order[m + 1].bytes ELSE h[n]]
  <2>2. g \in [0..(m + 1) -> Nat]
    BY <2>1, <1>0
  <2>3. ASSUME NEW n \in 0..(m + 1) PROVE Step(g, n)
    <3>1. CASE n = m + 1 BY <3>1, <1>0
    <3>2. CASE n \in 0..m /\ n # 0
      <4>1. n - 1 \in 0..m /\ n # m + 1 /\ n - 1 # m + 1 /\ n - 1 \in 0..(m + 1)
        BY <3>2
      <4>2. g[n] = h[n] /\ g[n - 1] = h[n - 1]
        BY <4>1, <2>3
      <4> QED BY <4>2, <2>1, <3>2
    <3>3. CASE n = 0
      BY <3>3, <2>1
    <3> QED BY <3>1, <3>2, <3>3
  <2> QED BY <2>2, <2>3 DEF Upto
<1> HIDE DEF S
<1>3. S \in SUBSET Nat BY DEF S
<1>4. L \in S BY <1>0, <1>1, <1>2, <1>3, InductiveSet
<1>5. PICK g \in [0..L -> Nat] : \A n \in 0..L : Step(g, n)
  BY <1>4, <1>0 DEF S
<1>6. g = [n \in 0..L |-> IF n = 0 THEN 0 ELSE g[n - 1] + order[n].bytes]
  BY <1>5
<1>7. RunningBytes(order) =
        [n \in 0..L |-> IF n = 0 THEN 0 ELSE RunningBytes(order)[n - 1] + order[n].bytes]
  BY <1>6, Zenon DEF RunningBytes
<1>8. ASSUME NEW f, f = [n \in 0..L |-> IF n = 0 THEN 0 ELSE f[n - 1] + order[n].bytes]
      PROVE  f = g
  <2> DEFINE U == {m \in Nat : m \in 0..L => f[m] = g[m]}
  <2>1. 0 \in U BY <1>5, <1>8, <1>0
  <2>2. ASSUME NEW m \in U PROVE m + 1 \in U
    BY <1>5, <1>8, <1>0
  <2> HIDE DEF U
  <2>3. \A m \in Nat : m \in U BY <2>1, <2>2, InductiveSet DEF U
  <2>4. \A m \in 0..L : f[m] = g[m] BY <2>3 DEF U
  <2> QED BY <2>4, <1>8, <1>5
<1>9. RunningBytes(order) = g
  BY <1>7, <1>8
<1> QED BY <1>9, <1>5, <1>0

SpanBytes(order, a, c) == RunningBytes(order)[c] - RunningBytes(order)[a]

SameSizes(p, a, q, b, k) == \A m \in 1..k : p[a + m].bytes = q[b + m].bytes

Aligned(E, p, a, c, q, b, d) ==
  /\ (\A e \in E : e.bytes \in Nat) /\ p \in Seq(E) /\ q \in Seq(E)
  /\ a \in 0..Len(p) /\ c \in 0..Len(p) /\ b \in 0..Len(q) /\ d \in 0..Len(q)
  /\ a <= c /\ c - a = d - b
  /\ SameSizes(p, a, q, b, c - a)

(* Two runs of entries of equal sizes add the same amount to their totals. *)
LEMMA RunningBytesBetween ==
  ASSUME NEW E, NEW p, NEW q, NEW a, NEW c, NEW b, NEW d,
         Aligned(E, p, a, c, q, b, d)
  PROVE  SpanBytes(p, a, c) = SpanBytes(q, b, d)
<1> USE DEF Aligned
<1> DEFINE k == c - a
<1>0. /\ k \in Nat /\ a + k = c /\ b + k = d /\ a \in Nat /\ b \in Nat
      /\ a + k <= Len(p) /\ b + k <= Len(q)
  OBVIOUS
<1>00. \A m \in 1..k : p[a + m].bytes = q[b + m].bytes
  BY DEF SameSizes
<1> HIDE DEF k
<1> DEFINE P == RunningBytes(p)
           Q == RunningBytes(q)
           Same(m) == P[a + m] - P[a] = Q[b + m] - Q[b]
           S == {m \in Nat : m <= k => Same(m)}
<1>1. /\ P \in [0..Len(p) -> Nat]
      /\ \A n \in 1..Len(p) : P[n] = P[n - 1] + p[n].bytes
  BY RunningBytesDef
<1>2. /\ Q \in [0..Len(q) -> Nat]
      /\ \A n \in 1..Len(q) : Q[n] = Q[n - 1] + q[n].bytes
  BY RunningBytesDef
<1> HIDE DEF P, Q
<1>3. 0 \in S
  <2>1. a + 0 = a /\ b + 0 = b
    OBVIOUS
  <2>2. P[a] \in Nat /\ Q[b] \in Nat
    BY <1>1, <1>2
  <2> QED BY <2>1, <2>2
<1>4. ASSUME NEW m \in S PROVE m + 1 \in S
  <2> HIDE DEF Same
  <2> SUFFICES ASSUME m + 1 <= k PROVE Same(m + 1)
    OBVIOUS
  <2>0. m \in Nat /\ m + 1 \in 1..k
    OBVIOUS
  <2>1. Same(m)
    BY <2>0, <1>0
  <2> HIDE DEF S
  <2> DEFINE i == a + (m + 1)
             j == b + (m + 1)
  <2>2. i \in 1..Len(p) /\ i - 1 = a + m /\ a \in 0..Len(p) /\ a + m \in 0..Len(p)
    BY <2>0, <1>0
  <2>3. j \in 1..Len(q) /\ j - 1 = b + m /\ b \in 0..Len(q) /\ b + m \in 0..Len(q)
    BY <2>0, <1>0
  <2>6. p[i].bytes = q[j].bytes
    BY <2>0, <1>00
  <2>8. p[i].bytes \in Nat
    BY <2>2
  <2> HIDE DEF i, j
  <2>4. P[i] = P[a + m] + p[i].bytes
    BY <1>1, <2>2
  <2>5. Q[j] = Q[b + m] + q[j].bytes
    BY <1>2, <2>3
  <2>7. P[a] \in Nat /\ P[a + m] \in Nat /\ Q[b] \in Nat /\ Q[b + m] \in Nat
    BY <1>1, <1>2, <2>2, <2>3
  <2>9. P[a + m] - P[a] = Q[b + m] - Q[b]
    BY <2>1 DEF Same
  <2> HIDE DEF Same
  <2>10. PICK z \in Nat : z = p[i].bytes /\ z = q[j].bytes
    BY <2>6, <2>8
  <2>11. PICK u \in Nat, v \in Nat, x \in Nat, y \in Nat :
           u = P[a + m] /\ v = P[a] /\ x = Q[b + m] /\ y = Q[b]
    BY <2>7
  <2>12. P[i] - P[a] = Q[j] - Q[b]
    <3>1. P[i] = u + z /\ Q[j] = x + z /\ u - v = x - y
      BY <2>4, <2>5, <2>9, <2>10, <2>11
    <3>2. (u + z) - v = (x + z) - y
      BY <3>1
    <3> QED BY <3>1, <3>2, <2>11
  <2> QED BY <2>12 DEF Same, i, j
<1>5. S \in SUBSET Nat
  OBVIOUS
<1> HIDE DEF S
<1>6. k \in S
  BY <1>0, <1>3, <1>4, <1>5, InductiveSet
<1>7. P[a + k] - P[a] = Q[b + k] - Q[b]
  BY <1>0, <1>6 DEF S
<1> QED BY <1>0, <1>7 DEF P, Q, SpanBytes

-----------------------------------------------------------------------------
(* What RemoveAt, a prefix and a push do to a sequence and to its total. *)
LEMMA RemoveAtElements ==
  ASSUME NEW E, NEW order \in Seq(E), NEW i \in 1..Len(order)
  PROVE  /\ RemoveAt(order, i) \in Seq(E)
         /\ Len(RemoveAt(order, i)) = Len(order) - 1
         /\ \A j \in 1..(Len(order) - 1) :
              RemoveAt(order, i)[j] = IF j < i THEN order[j] ELSE order[j + 1]
<1> DEFINE before == SubSeq(order, 1, i - 1)
           behind == SubSeq(order, i + 1, Len(order))
<1>1. before \in Seq(E) /\ Len(before) = i - 1 /\ \A j \in 1..(i - 1) : before[j] = order[j]
  OBVIOUS
<1>2. /\ behind \in Seq(E)
      /\ Len(behind) = Len(order) - i
      /\ \A j \in 1..(Len(order) - i) : behind[j] = order[i + j]
  OBVIOUS
<1>3. RemoveAt(order, i) = before \o behind
  BY DEF RemoveAt
<1> HIDE DEF before, behind
<1>4. Len(before \o behind) = Len(order) - 1 /\ before \o behind \in Seq(E)
  <2>1. Len(before \o behind) = Len(before) + Len(behind) /\ before \o behind \in Seq(E)
    BY <1>1, <1>2, ConcatProperties
  <2>2. (i - 1) + (Len(order) - i) = Len(order) - 1
    OBVIOUS
  <2> QED BY <2>1, <2>2, <1>1, <1>2
<1>5. ASSUME NEW j \in 1..(Len(order) - 1)
      PROVE  (before \o behind)[j] = IF j < i THEN order[j] ELSE order[j + 1]
  <2>1. CASE j < i
    BY <2>1, <1>1, <1>2
  <2>2. CASE ~(j < i)
    <3>1. (before \o behind)[j] = behind[j - (i - 1)]
      BY <2>2, <1>1, <1>2
    <3>2. j - (i - 1) \in 1..(Len(order) - i) /\ i + (j - (i - 1)) = j + 1
      BY <2>2
    <3> QED BY <3>1, <3>2, <1>2, <2>2
  <2> QED BY <2>1, <2>2
<1> QED BY <1>3, <1>4, <1>5

LEMMA RunningBytesRemove ==
  ASSUME NEW E, \A e \in E : e.bytes \in Nat, NEW order \in Seq(E), NEW i \in 1..Len(order)
  PROVE  RunningBytes(RemoveAt(order, i))[Len(order) - 1]
           = RunningBytes(order)[Len(order)] - order[i].bytes
<1> DEFINE L == Len(order)
           R == RemoveAt(order, i)
           T == RunningBytes(order)
           U == RunningBytes(R)
<1>1. /\ R \in Seq(E)
      /\ Len(R) = L - 1
      /\ \A j \in 1..(L - 1) : R[j] = IF j < i THEN order[j] ELSE order[j + 1]
  BY RemoveAtElements
<1>2. T \in [0..L -> Nat] /\ T[0] = 0 /\ T[i] = T[i - 1] + order[i].bytes
  BY RunningBytesDef
<1>3. U \in [0..(L - 1) -> Nat] /\ U[0] = 0
  BY RunningBytesDef, <1>1
<1> HIDE DEF R
<1>0. R \in Seq(E)
  BY <1>1
<1>4. SpanBytes(R, 0, i - 1) = SpanBytes(order, 0, i - 1)
  <2>1. PICK c \in Nat : c = i - 1
    OBVIOUS
  <2>2. c \in 0..Len(R) /\ c \in 0..Len(order) /\ 0 \in 0..Len(R) /\ 0 \in 0..Len(order)
        /\ 0 <= c
    BY <1>1, <2>1
  <2>3. SameSizes(R, 0, order, 0, c - 0)
    <3> SUFFICES \A m \in 1..(c - 0) : R[0 + m].bytes = order[0 + m].bytes
      BY DEF SameSizes
    <3> TAKE m \in 1..(c - 0)
    <3>1. m \in 1..(L - 1) /\ m < i /\ 0 + m = m
      BY <2>1
    <3> QED BY <3>1, <1>1
  <2> HIDE DEF L, T, U
  <2>4. SpanBytes(R, 0, c) = SpanBytes(order, 0, c)
    <3>1. Aligned(E, R, 0, c, order, 0, c)
      BY <2>2, <2>3, <1>0 DEF Aligned
    <3> QED BY <3>1, RunningBytesBetween
  <2> QED BY <2>1, <2>4
<1>5. SpanBytes(R, i - 1, L - 1) = SpanBytes(order, i, L)
  <2>1. PICK a \in Nat, b \in Nat, c \in Nat, d \in Nat :
          a = i - 1 /\ b = i /\ c = L - 1 /\ d = L
    <3>1. i - 1 \in Nat /\ L - 1 \in Nat /\ L \in Nat /\ i \in Nat
      OBVIOUS
    <3> QED BY <3>1
  <2>2. a \in 0..Len(R) /\ c \in 0..Len(R) /\ b \in 0..Len(order) /\ d \in 0..Len(order)
    BY <1>1, <2>1
  <2>3. a <= c /\ c - a = d - b
    BY <2>1
  <2>4. SameSizes(R, a, order, b, c - a)
    <3> SUFFICES \A m \in 1..(c - a) : R[a + m].bytes = order[b + m].bytes
      BY DEF SameSizes
    <3> TAKE m \in 1..(c - a)
    <3>1. a + m \in 1..(L - 1) /\ ~(a + m < i) /\ (a + m) + 1 = b + m
      BY <2>1
    <3> QED BY <3>1, <1>1
  <2> HIDE DEF L, T, U
  <2>5. SpanBytes(R, a, c) = SpanBytes(order, b, d)
    <3>1. Aligned(E, R, a, c, order, b, d)
      BY <2>2, <2>3, <2>4, <1>0 DEF Aligned
    <3> QED BY <3>1, RunningBytesBetween
  <2> QED BY <2>1, <2>5
<1>6. i - 1 \in 0..(L - 1) /\ L - 1 \in 0..(L - 1) /\ i \in 0..L /\ L \in 0..L
      /\ i - 1 \in 0..L /\ order[i].bytes \in Nat
  OBVIOUS
<1> HIDE DEF L
<1>7. U[i - 1] = T[i - 1] /\ U[L - 1] - U[i - 1] = T[L] - T[i]
  <2>1. U[i - 1] - U[0] = T[i - 1] - T[0] /\ U[L - 1] - U[i - 1] = T[L] - T[i]
    BY <1>4, <1>5, <1>6 DEF SpanBytes
  <2>2. U[i - 1] \in Nat /\ T[i - 1] \in Nat
    BY <1>2, <1>3, <1>6
  <2> HIDE DEF U, T
  <2> QED BY <2>1, <2>2, <1>2, <1>3
<1>8. U[L - 1] \in Nat /\ T[L] \in Nat /\ T[i] \in Nat /\ T[i - 1] \in Nat
  BY <1>2, <1>3, <1>6
<1>9. U[L - 1] = T[L] - order[i].bytes
  <2> HIDE DEF U, T
  <2>1. PICK u \in Nat, v \in Nat, x \in Nat, z \in Nat :
          u = U[L - 1] /\ v = T[i - 1] /\ x = T[L] /\ z = order[i].bytes
    BY <1>8, <1>6
  <2>2. u - v = x - (v + z)
    BY <2>1, <1>7, <1>2
  <2>3. u = x - z
    BY <2>2
  <2> QED BY <2>1, <2>3
<1> QED BY <1>9 DEF L, R

LEMMA RunningBytesPush ==
  ASSUME NEW E, \A e \in E : e.bytes \in Nat, NEW order \in Seq(E), NEW e \in E
  PROVE  /\ <<e>> \o order \in Seq(E)
         /\ Len(<<e>> \o order) = Len(order) + 1
         /\ (<<e>> \o order)[1] = e
         /\ \A j \in 1..Len(order) : (<<e>> \o order)[j + 1] = order[j]
         /\ RunningBytes(<<e>> \o order)[Len(order) + 1]
              = RunningBytes(order)[Len(order)] + e.bytes
<1> DEFINE L == Len(order)
           p == <<e>> \o order
           T == RunningBytes(order)
           U == RunningBytes(p)
<1>1. /\ p \in Seq(E) /\ Len(p) = L + 1 /\ p[1] = e
      /\ \A j \in 1..L : p[j + 1] = order[j]
  OBVIOUS
<1>2. T \in [0..L -> Nat] /\ T[0] = 0
  BY RunningBytesDef
<1> HIDE DEF p
<1>3. U \in [0..(L + 1) -> Nat] /\ U[0] = 0 /\ U[1] = U[0] + e.bytes
  <2>1. /\ U \in [0..Len(p) -> Nat] /\ U[0] = 0
        /\ \A n \in 1..Len(p) : U[n] = U[n - 1] + p[n].bytes
    BY RunningBytesDef, <1>1
  <2>2. 1 \in 1..Len(p) /\ 1 - 1 = 0
    BY <1>1
  <2>3. U[1] = U[0] + p[1].bytes
    BY <2>1, <2>2
  <2> QED BY <2>1, <2>3, <1>1
<1>4. SpanBytes(p, 1, L + 1) = SpanBytes(order, 0, L)
  <2>1. /\ 1 \in 0..Len(p) /\ L + 1 \in 0..Len(p) /\ 1 <= L + 1
        /\ 0 \in 0..Len(order) /\ L \in 0..Len(order) /\ (L + 1) - 1 = L - 0
    BY <1>1
  <2>2. SameSizes(p, 1, order, 0, (L + 1) - 1)
    <3> SUFFICES \A m \in 1..((L + 1) - 1) : p[1 + m].bytes = order[0 + m].bytes
      BY DEF SameSizes
    <3> TAKE m \in 1..((L + 1) - 1)
    <3>1. 1 + m = m + 1 /\ 0 + m = m
      OBVIOUS
    <3> QED BY <3>1, <1>1
  <2>3. Aligned(E, p, 1, L + 1, order, 0, L)
    BY <2>1, <2>2, <1>1 DEF Aligned
  <2> QED BY <2>3, RunningBytesBetween
<1>5. L + 1 \in 0..(L + 1) /\ L \in 0..L /\ e.bytes \in Nat
  OBVIOUS
<1> HIDE DEF L
<1>6. U[L + 1] - U[1] = T[L] - T[0]
  BY <1>4, <1>5 DEF SpanBytes
<1>7. U[L + 1] \in Nat /\ T[L] \in Nat
  BY <1>2, <1>3, <1>5
<1>8. U[L + 1] = T[L] + e.bytes
  <2> HIDE DEF U, T
  <2>1. PICK u \in Nat, x \in Nat, z \in Nat : u = U[L + 1] /\ x = T[L] /\ z = e.bytes
    BY <1>5, <1>7
  <2>2. u - z = x
    BY <2>1, <1>2, <1>3, <1>6
  <2> QED BY <2>1, <2>2
<1> QED BY <1>1, <1>8 DEF L, p

LEMMA RunningBytesPrefix ==
  ASSUME NEW E, \A e \in E : e.bytes \in Nat, NEW order \in Seq(E), NEW n \in 0..Len(order)
  PROVE  /\ SubSeq(order, 1, n) \in Seq(E)
         /\ Len(SubSeq(order, 1, n)) = n
         /\ \A j \in 1..n : SubSeq(order, 1, n)[j] = order[j]
         /\ RunningBytes(SubSeq(order, 1, n))[n] = RunningBytes(order)[n]
<1> DEFINE p == SubSeq(order, 1, n)
<1>1. p \in Seq(E) /\ Len(p) = n /\ \A j \in 1..n : p[j] = order[j]
  OBVIOUS
<1>2. RunningBytes(order) \in [0..Len(order) -> Nat] /\ RunningBytes(order)[0] = 0
  BY RunningBytesDef
<1>3. RunningBytes(p) \in [0..n -> Nat] /\ RunningBytes(p)[0] = 0
  BY RunningBytesDef, <1>1
<1> HIDE DEF p
<1>4. SpanBytes(p, 0, n) = SpanBytes(order, 0, n)
  <2>1. 0 \in 0..Len(p) /\ n \in 0..Len(p) /\ 0 \in 0..Len(order) /\ 0 <= n
    BY <1>1
  <2>2. SameSizes(p, 0, order, 0, n - 0)
    BY <1>1 DEF SameSizes
  <2>3. Aligned(E, p, 0, n, order, 0, n) 
    BY <2>1, <2>2, <1>1 DEF Aligned
  <2> QED BY <2>3, RunningBytesBetween
<1>5. n \in 0..n /\ n \in 0..Len(order)
  OBVIOUS
<1>6. RunningBytes(p)[n] \in Nat /\ RunningBytes(order)[n] \in Nat
  BY <1>2, <1>3, <1>5
<1>7. RunningBytes(p)[n] = RunningBytes(order)[n]
  BY <1>2, <1>3, <1>4, <1>5, <1>6 DEF SpanBytes
<1> QED BY <1>1, <1>7 DEF p

-----------------------------------------------------------------------------
(* A store is accounted for when its index, its recency list and its running *)
(* total describe the same entries; it is coherent when it also fits.        *)
KeysOf(s) == {s.order[i].key : i \in 1..Len(s.order)}

EntriesIn(s) == {s.order[i] : i \in 1..Len(s.order)}

Accounted(s, Keys, Values) ==
  /\ s \in Store(Keys, Values)
  /\ s.index = KeysOf(s)
  /\ \A i, j \in 1..Len(s.order) : s.order[i].key = s.order[j].key => i = j
  /\ s.bytes = RunningBytes(s.order)[Len(s.order)]

Coherent(s, Keys, Values) == Accounted(s, Keys, Values) /\ s.bytes <= s.budget

LEMMA EntrySizes ==
  ASSUME NEW Keys, NEW Values
  PROVE  \A e \in Entry(Keys, Values) : e.bytes \in Nat
BY MaxSizeAssumption DEF Entry

LEMMA StoreParts ==
  ASSUME NEW Keys, NEW Values, NEW s \in Store(Keys, Values)
  PROVE  /\ s = [order |-> s.order, index |-> s.index, bytes |-> s.bytes, budget |-> s.budget]
         /\ s.order \in Seq(Entry(Keys, Values)) /\ Len(s.order) \in Nat
         /\ DOMAIN s.order = 1..Len(s.order)
         /\ s.index \in SUBSET Keys
         /\ s.bytes \in Nat /\ s.bytes <= MaxSize
         /\ s.budget \in Nat /\ s.budget <= MaxSize
         /\ MaxSize \in Nat
BY MaxSizeAssumption DEF Store

LEMMA EmptyCoherent ==
  ASSUME NEW Keys, NEW Values, NEW b \in 0..MaxSize
  PROVE  Coherent(EmptyStore(b), Keys, Values) /\ EntriesIn(EmptyStore(b)) = {}
<1> DEFINE s == EmptyStore(b)
<1>1. s.order = << >> /\ Len(s.order) = 0 /\ s.index = {} /\ s.bytes = 0 /\ s.budget = b
  BY DEF EmptyStore
<1>2. s \in Store(Keys, Values)
  BY MaxSizeAssumption DEF EmptyStore, Store
<1> HIDE DEF s
<1>3. RunningBytes(s.order)[0] = 0
  <2>1. s.order \in Seq(Entry(Keys, Values))
    BY <1>1
  <2> QED BY <2>1, RunningBytesDef, EntrySizes
<1>4. KeysOf(s) = {} /\ EntriesIn(s) = {}
  BY <1>1 DEF KeysOf, EntriesIn
<1>5. \A i, j \in 1..Len(s.order) : s.order[i].key = s.order[j].key => i = j
  BY <1>1
<1> QED BY <1>1, <1>2, <1>3, <1>4, <1>5 DEF Coherent, Accounted, s

LEMMA FindPosition ==
  ASSUME NEW Keys, NEW Values, NEW s, Accounted(s, Keys, Values), NEW key \in s.index
  PROVE  Find(s, key) \in 1..Len(s.order) /\ s.order[Find(s, key)].key = key
<1>1. \E i \in DOMAIN s.order : s.order[i].key = key
  BY StoreParts DEF Accounted, KeysOf
<1>2. Find(s, key) \in DOMAIN s.order /\ s.order[Find(s, key)].key = key
  BY <1>1 DEF Find
<1> QED BY <1>2, StoreParts DEF Accounted

(* erase removes the node of its key, its share of the total, nothing else. *)
LEMMA EraseCoherent ==
  ASSUME NEW Keys, NEW Values, NEW s, Coherent(s, Keys, Values), NEW key
  PROVE  /\ Coherent(erase(s, key), Keys, Values)
         /\ EntriesIn(erase(s, key)) \subseteq EntriesIn(s)
         /\ erase(s, key).budget = s.budget
         /\ key \notin erase(s, key).index
<1>1. CASE ~contains(s, key)
  BY <1>1 DEF erase, contains
<1>2. CASE contains(s, key)
  <2> DEFINE E == Entry(Keys, Values)
             p == s.order
             L == Len(p)
             i == Find(s, key)
             R == RemoveAt(p, i)
             t == erase(s, key)
  <2>1. Accounted(s, Keys, Values) /\ key \in s.index
    BY <1>2 DEF Coherent, contains
  <2>2. i \in 1..L /\ p[i].key = key
    BY <2>1, FindPosition
  <2>3. /\ p \in Seq(E) /\ L \in Nat /\ s.bytes \in Nat /\ s.bytes <= s.budget
        /\ s.budget \in Nat /\ s.budget <= MaxSize /\ MaxSize \in Nat
        /\ s = [order |-> p, index |-> s.index, bytes |-> s.bytes, budget |-> s.budget]
    BY <2>1, StoreParts DEF Accounted, Coherent
  <2>4. t = [order |-> R, index |-> s.index \ {key}, bytes |-> s.bytes - p[i].bytes,
             budget |-> s.budget]
    BY <1>2, <2>3 DEF erase
  <2> HIDE DEF t, i
  <2>5. /\ R \in Seq(E) /\ Len(R) = L - 1
        /\ \A j \in 1..(L - 1) : R[j] = IF j < i THEN p[j] ELSE p[j + 1]
    BY <2>2, <2>3, RemoveAtElements
  <2>6. RunningBytes(R)[L - 1] = RunningBytes(p)[L] - p[i].bytes
    BY <2>2, <2>3, RunningBytesRemove, EntrySizes
  <2>7. RunningBytes(R)[L - 1] \in Nat
    <3>1. RunningBytes(R) \in [0..Len(R) -> Nat]
      BY <2>5, RunningBytesDef, EntrySizes
    <3>2. L - 1 \in 0..Len(R)
      BY <2>2, <2>3, <2>5
    <3> HIDE DEF R, L
    <3> QED BY <3>1, <3>2
  <2>8. p[i].bytes \in Nat
    BY <2>2, <2>3, EntrySizes
  <2> HIDE DEF R
  <2>9. t.bytes \in Nat /\ t.bytes <= s.bytes /\ t.bytes = RunningBytes(t.order)[Len(t.order)]
    <3>1. t.bytes = s.bytes - p[i].bytes /\ t.order = R
      BY <2>4
    <3>2. s.bytes = RunningBytes(p)[L]
      BY <2>1 DEF Accounted
    <3>3. Len(t.order) = L - 1
      BY <2>5, <3>1
    <3> HIDE DEF p, L
    <3>4. t.bytes = RunningBytes(R)[L - 1]
      BY <2>6, <3>1, <3>2
    <3>5. t.bytes \in Nat /\ t.bytes = RunningBytes(t.order)[Len(t.order)]
      BY <2>7, <3>1, <3>3, <3>4
    <3> QED BY <2>3, <2>8, <3>1, <3>5
  <2> DEFINE from(j) == IF j < i THEN j ELSE j + 1
  <2>11. \A j \in 1..Len(t.order) : /\ from(j) \in 1..L /\ from(j) # i
                                    /\ t.order[j] = p[from(j)]
    <3>1. t.order = R
      BY <2>4
    <3> HIDE DEF p
    <3>2. \A j \in 1..(L - 1) : from(j) \in 1..L /\ from(j) # i /\ R[j] = p[from(j)]
      BY <2>2, <2>3, <2>5
    <3> HIDE DEF from, L
    <3> QED BY <2>5, <3>1, <3>2
  <2>10. EntriesIn(t) \subseteq EntriesIn(s)
    <3> HIDE DEF from
    <3> QED BY <2>11 DEF EntriesIn
  <2>12. \A m \in 1..L : m # i => \E j \in 1..Len(t.order) : from(j) = m
    <3> SUFFICES ASSUME NEW m \in 1..L, m # i
                 PROVE  \E j \in 1..(L - 1) : from(j) = m
      BY <2>4, <2>5
    <3>1. CASE m < i
      BY <3>1, <2>2, <2>3
    <3>2. CASE m > i
      <4>1. m - 1 \in 1..(L - 1) /\ ~(m - 1 < i) /\ (m - 1) + 1 = m
        BY <3>2, <2>2, <2>3
      <4> QED BY <4>1
    <3> QED BY <3>1, <3>2, <2>2, <2>3
  <2>13. \A j, k \in 1..Len(t.order) : from(j) = from(k) => j = k
    BY <2>2, <2>3, <2>4, <2>5
  <2>14. \A j, k \in 1..L : p[j].key = p[k].key => j = k
    BY <2>1 DEF Accounted
  <2> HIDE DEF from
  <2>15. \A j, k \in 1..Len(t.order) : t.order[j].key = t.order[k].key => j = k
    <3> SUFFICES ASSUME NEW j \in 1..Len(t.order), NEW k \in 1..Len(t.order),
                        t.order[j].key = t.order[k].key
                 PROVE  from(j) = from(k)
      BY <2>13
    <3>1. p[from(j)].key = p[from(k)].key /\ from(j) \in 1..L /\ from(k) \in 1..L
      BY <2>11
    <3> HIDE DEF L
    <3> QED BY <3>1, <2>14
  <2>16. t.index = KeysOf(t)
    <3>1. s.index = {p[j].key : j \in 1..L} /\ t.index = s.index \ {key}
      BY <2>1, <2>4 DEF Accounted, KeysOf
    <3>2. \A j \in 1..L : p[j].key = key => j = i
      BY <2>14, <2>2
    <3>3. KeysOf(t) \subseteq t.index
      BY <3>1, <3>2, <2>11 DEF KeysOf
    <3>4. t.index \subseteq KeysOf(t)
      <4> SUFFICES ASSUME NEW m \in 1..L, p[m].key # key PROVE p[m].key \in KeysOf(t)
        BY <3>1
      <4>1. m # i
        BY <2>2
      <4>2. PICK j \in 1..Len(t.order) : from(j) = m
        BY <4>1, <2>12
      <4>3. t.order[j].key = p[m].key
        BY <4>2, <2>11
      <4> QED BY <4>3 DEF KeysOf
    <3> QED BY <3>3, <3>4
  <2>17. t \in Store(Keys, Values)
    <3>1. s.index \in SUBSET Keys
      BY <2>1, StoreParts DEF Accounted
    <3>2. t.bytes \in 0..MaxSize /\ t.budget \in 0..MaxSize
      BY <2>3, <2>4, <2>9
    <3>3. t.order \in Seq(E) /\ t.index \in SUBSET Keys
      BY <3>1, <2>4, <2>5
    <3> QED BY <3>2, <3>3, <2>4 DEF Store
  <2>18. t.budget = s.budget /\ t.bytes <= t.budget /\ key \notin t.index
    BY <2>3, <2>4, <2>9
  <2> QED BY <2>9, <2>10, <2>15, <2>16, <2>17, <2>18 DEF Coherent, Accounted, t
<1> QED BY <1>1, <1>2

(* A new front entry under a new key, counted in the total. *)
AddFront(s, e) ==
  [s EXCEPT !.order = <<e>> \o @, !.index = @ \cup {e.key}, !.bytes = @ + e.bytes]

LEMMA AddFrontAccounted ==
  ASSUME NEW Keys, NEW Values, NEW s, Accounted(s, Keys, Values),
         NEW e \in Entry(Keys, Values), e.key \notin s.index, s.bytes + e.bytes <= MaxSize
  PROVE  /\ Accounted(AddFront(s, e), Keys, Values)
         /\ EntriesIn(AddFront(s, e)) = EntriesIn(s) \cup {e}
         /\ AddFront(s, e).budget = s.budget
<1> DEFINE E == Entry(Keys, Values)
           p == s.order
           L == Len(p)
           q == <<e>> \o p
           t == AddFront(s, e)
<1>1. /\ p \in Seq(E) /\ L \in Nat /\ s.bytes \in Nat /\ MaxSize \in Nat
      /\ s.index \in SUBSET Keys /\ s.budget \in 0..MaxSize
      /\ s = [order |-> p, index |-> s.index, bytes |-> s.bytes, budget |-> s.budget]
  BY StoreParts DEF Accounted
<1>2. t = [order |-> q, index |-> s.index \cup {e.key}, bytes |-> s.bytes + e.bytes,
           budget |-> s.budget]
  <2>1. s = [order |-> p, index |-> s.index, bytes |-> s.bytes, budget |-> s.budget]
    BY <1>1
  <2>2. t = [s EXCEPT !.order = q, !.index = s.index \cup {e.key}, !.bytes = s.bytes + e.bytes]
    BY DEF AddFront
  <2> HIDE DEF L, E, t, q
  <2> QED BY <2>1, <2>2
<1>3. e.bytes \in Nat /\ e.key \in Keys
  BY EntrySizes DEF Entry
<1>4. /\ q \in Seq(E) /\ Len(q) = L + 1 /\ q[1] = e
      /\ \A j \in 1..L : q[j + 1] = p[j]
      /\ RunningBytes(q)[L + 1] = RunningBytes(p)[L] + e.bytes
  BY <1>1, EntrySizes, RunningBytesPush
<1> HIDE DEF t, q
<1>5. /\ \A j, k \in 1..L : p[j].key = p[k].key => j = k
      /\ s.index = KeysOf(s)
      /\ s.bytes = RunningBytes(p)[L]
  BY DEF Accounted
<1>6. \A j \in 1..(L + 1) : j = 1 \/ (j - 1 \in 1..L /\ q[j] = p[j - 1])
  <2> SUFFICES ASSUME NEW j \in 1..(L + 1), j # 1
               PROVE  j - 1 \in 1..L /\ q[j] = p[j - 1]
    OBVIOUS
  <2>1. j - 1 \in 1..L /\ (j - 1) + 1 = j
    BY <1>1
  <2> QED BY <2>1, <1>4
<1>7. \A j \in 1..L : j + 1 \in 1..(L + 1)
  BY <1>1
<1>8. 1 \in 1..(L + 1)
  BY <1>1
<1>9. t.order = q /\ Len(t.order) = L + 1
  BY <1>2, <1>4
<1>10. \A j, k \in 1..(L + 1) : q[j].key = q[k].key => j = k
  <2> SUFFICES ASSUME NEW j \in 1..(L + 1), NEW k \in 1..(L + 1), q[j].key = q[k].key
               PROVE  j = k
    OBVIOUS
  <2>1. \A m \in 1..L : p[m].key # e.key
    BY <1>5 DEF KeysOf
  <2>2. CASE j = 1 \/ k = 1
    <3> HIDE DEF L, p
    <3> QED BY <2>1, <2>2, <1>4, <1>6
  <2>3. CASE j # 1 /\ k # 1
    <3>1. j - 1 \in 1..L /\ k - 1 \in 1..L /\ p[j - 1].key = p[k - 1].key
      BY <2>3, <1>6
    <3>2. j - 1 = k - 1
      BY <3>1, <1>5
    <3> QED BY <3>2
  <2> QED BY <2>2, <2>3
<1>11. EntriesIn(t) = EntriesIn(s) \cup {e}
  <2> HIDE DEF L
  <2>1. EntriesIn(t) = {q[j] : j \in 1..(L + 1)} /\ EntriesIn(s) = {p[j] : j \in 1..L}
    BY <1>9 DEF EntriesIn, L
  <2> HIDE DEF p
  <2>2. \A j \in 1..L : p[j] \in {q[k] : k \in 1..(L + 1)}
    BY <1>4, <1>7
  <2>3. \A j \in 1..(L + 1) : q[j] \in {p[k] : k \in 1..L} \cup {e}
    BY <1>4, <1>6
  <2>4. e \in {q[k] : k \in 1..(L + 1)}
    BY <1>4, <1>8
  <2> QED BY <2>1, <2>2, <2>3, <2>4
<1>12. KeysOf(s) = {x.key : x \in EntriesIn(s)} /\ KeysOf(t) = {x.key : x \in EntriesIn(t)}
  BY DEF KeysOf, EntriesIn
<1>13. t.index = KeysOf(t)
  <2>1. t.index = {x.key : x \in EntriesIn(s)} \cup {e.key}
    BY <1>2, <1>5, <1>12
  <2>2. {x.key : x \in EntriesIn(s) \cup {e}} = {x.key : x \in EntriesIn(s)} \cup {e.key}
    OBVIOUS
  <2> QED BY <2>1, <2>2, <1>11, <1>12
<1>14. t \in Store(Keys, Values)
  <2>1. s.bytes + e.bytes \in 0..MaxSize
    BY <1>1, <1>3
  <2>2. s.index \cup {e.key} \in SUBSET Keys
    BY <1>1, <1>3
  <2> QED BY <2>1, <2>2, <1>1, <1>2, <1>4 DEF Store
<1>15. t.bytes = RunningBytes(t.order)[Len(t.order)]
  BY <1>2, <1>4, <1>5, <1>9
<1>16. \A j, k \in 1..Len(t.order) : t.order[j].key = t.order[k].key => j = k
  BY <1>9, <1>10
<1>17. Accounted(t, Keys, Values) /\ t.budget = s.budget
  BY <1>2, <1>13, <1>14, <1>15, <1>16 DEF Accounted
<1> QED BY <1>11, <1>17 DEF t

(* What eviction keeps: the longest front part within the budget. *)
LEMMA RetainedFront ==
  ASSUME NEW Keys, NEW Values, NEW s, Accounted(s, Keys, Values)
  PROVE  LET p == s.order
             L == Len(p)
             T == RunningBytes(p)
             n == Retained(s)
         IN  /\ n \in 0..L /\ T[n] <= s.budget
             /\ T \in [0..L -> Nat] /\ T[0] = 0
             /\ \A m \in 0..L : T[m] <= s.budget => m <= n
             /\ evictToFit(s) = [order |-> SubSeq(p, 1, n),
                                 index |-> s.index \ {p[j].key : j \in (n + 1)..L},
                                 bytes |-> T[n], budget |-> s.budget]
<1> DEFINE E == Entry(Keys, Values)
           p == s.order
           L == Len(p)
           T == RunningBytes(p)
           n == Retained(s)
           t == evictToFit(s)
           fits == {m \in 0..L : s.bytes - BytesBehind(p, m) <= s.budget}
<1>1. /\ p \in Seq(E) /\ L \in Nat /\ s.bytes \in Nat /\ MaxSize \in Nat
      /\ s.index \in SUBSET Keys /\ s.budget \in 0..MaxSize
      /\ s = [order |-> p, index |-> s.index, bytes |-> s.bytes, budget |-> s.budget]
  BY StoreParts DEF Accounted
<1>2. /\ \A j, k \in 1..L : p[j].key = p[k].key => j = k
      /\ s.index = {p[j].key : j \in 1..L}
      /\ s.bytes = T[L]
  BY DEF Accounted, KeysOf
<1>3. T \in [0..L -> Nat] /\ T[0] = 0
  BY <1>1, RunningBytesDef, EntrySizes
<1>4. \A m \in 0..L : T[m] \in Nat /\ s.bytes - BytesBehind(p, m) = T[m]
  <2> TAKE m \in 0..L
  <2>1. L \in 0..L
    BY <1>1
  <2>2. T[m] \in Nat /\ T[L] \in Nat
    BY <2>1, <1>3
  <2>3. s.bytes - BytesBehind(p, m) = T[L] - (T[L] - T[m])
    BY <1>2 DEF BytesBehind
  <2> HIDE DEF T, L, p
  <2>4. PICK x \in Nat, y \in Nat : x = T[L] /\ y = T[m]
    BY <2>2
  <2>5. x - (x - y) = y
    OBVIOUS
  <2> QED BY <2>2, <2>3, <2>4, <2>5
<1>5. n \in 0..L /\ T[n] <= s.budget /\ \A m \in 0..L : T[m] <= s.budget => m <= n
  <2>1. 0 \in fits
    <3>1. 0 \in 0..L /\ 0 <= s.budget
      BY <1>1
    <3>2. s.bytes - BytesBehind(p, 0) = 0
      BY <3>1, <1>3, <1>4
    <3> QED BY <3>1, <3>2
  <2>2. n = CHOOSE k \in fits \cup {0} : \A m \in fits : m <= k
    BY DEF Retained
  <2>3. fits \in SUBSET (0..L)
    OBVIOUS
  <2>4. \A m \in fits : m \in 0..L /\ T[m] <= s.budget
    BY <1>4
  <2> HIDE DEF fits, n
  <2>5. \E k \in fits : \A m \in fits : m <= k
    BY <2>1, <2>3, <1>1, GreatestElement
  <2>6. n \in fits \cup {0} /\ \A m \in fits : m <= n
    BY <2>2, <2>5
  <2>7. n \in fits
    BY <2>1, <2>6
  <2>8. \A m \in 0..L : T[m] <= s.budget => m \in fits
    BY <1>4 DEF fits
  <2> QED BY <2>4, <2>6, <2>7, <2>8
<1> HIDE DEF n
<1>6. t = [order |-> SubSeq(p, 1, n), index |-> s.index \ {p[j].key : j \in (n + 1)..L},
           bytes |-> T[n], budget |-> s.budget]
  <2>1. s.bytes - BytesBehind(p, n) = T[n]
    BY <1>4, <1>5
  <2>2. s = [order |-> p, index |-> s.index, bytes |-> s.bytes, budget |-> s.budget]
    BY <1>1
  <2>3. t = [s EXCEPT !.bytes = s.bytes - BytesBehind(p, n),
                      !.order = SubSeq(p, 1, n),
                      !.index = s.index \ {p[j].key : j \in (n + 1)..L}]
    BY DEF evictToFit, n
  <2> HIDE DEF T, L, E, t
  <2> QED BY <2>1, <2>2, <2>3
<1> QED BY <1>3, <1>5, <1>6 DEF n

(* Eviction keeps a front part of the list, and what it keeps fits. *)
LEMMA EvictCoherent ==
  ASSUME NEW Keys, NEW Values, NEW s, Accounted(s, Keys, Values)
  PROVE  /\ Coherent(evictToFit(s), Keys, Values)
         /\ EntriesIn(evictToFit(s)) \subseteq EntriesIn(s)
         /\ evictToFit(s).budget = s.budget
<1> DEFINE E == Entry(Keys, Values)
           p == s.order
           L == Len(p)
           T == RunningBytes(p)
           n == Retained(s)
           t == evictToFit(s)
<1>1. /\ p \in Seq(E) /\ L \in Nat /\ s.bytes \in Nat /\ MaxSize \in Nat
      /\ s.index \in SUBSET Keys /\ s.budget \in 0..MaxSize
      /\ s = [order |-> p, index |-> s.index, bytes |-> s.bytes, budget |-> s.budget]
  BY StoreParts DEF Accounted
<1>2. /\ \A j, k \in 1..L : p[j].key = p[k].key => j = k
      /\ s.index = {p[j].key : j \in 1..L}
      /\ s.bytes = T[L]
  BY DEF Accounted, KeysOf
<1>3. /\ n \in 0..L /\ T[n] <= s.budget /\ T \in [0..L -> Nat]
      /\ t = [order |-> SubSeq(p, 1, n), index |-> s.index \ {p[j].key : j \in (n + 1)..L},
              bytes |-> T[n], budget |-> s.budget]
  BY RetainedFront
<1>5. n \in 0..L /\ T[n] <= s.budget
  BY <1>3
<1> HIDE DEF n
<1> DEFINE q == SubSeq(p, 1, n)
<1>6. /\ q \in Seq(E) /\ Len(q) = n /\ \A j \in 1..n : q[j] = p[j]
      /\ RunningBytes(q)[n] = T[n]
  BY <1>1, <1>5, RunningBytesPrefix, EntrySizes
<1>7. t = [order |-> q, index |-> s.index \ {p[j].key : j \in (n + 1)..L},
           bytes |-> T[n], budget |-> s.budget]
  BY <1>3
<1> HIDE DEF t, q
<1>8. t.order = q /\ Len(t.order) = n /\ t.budget = s.budget /\ t.bytes = T[n]
  BY <1>6, <1>7
<1>9. \A j \in 1..n : j \in 1..L /\ j \notin (n + 1)..L /\ q[j] = p[j]
  BY <1>1, <1>5, <1>6
<1>10. \A j \in 1..L : j \notin (n + 1)..L => j \in 1..n
  BY <1>1, <1>5
<1>11. \A j \in (n + 1)..L : j \in 1..L
  BY <1>1, <1>5
<1>12. t.index = {q[j].key : j \in 1..n}
  <2> HIDE DEF L, p
  <2>1. t.index = {p[j].key : j \in 1..L} \ {p[j].key : j \in (n + 1)..L}
    BY <1>2, <1>7
  <2>2. ASSUME NEW j \in 1..n PROVE q[j].key \in t.index
    <3>1. p[j].key \in {p[k].key : k \in 1..L} /\ j \in 1..L /\ j \notin (n + 1)..L
      BY <1>9
    <3>2. ASSUME NEW k \in (n + 1)..L, p[k].key = p[j].key PROVE FALSE
      BY <3>1, <3>2, <1>2, <1>11
    <3> QED BY <3>1, <3>2, <2>1, <1>9
  <2>3. ASSUME NEW j \in 1..L, p[j].key \in t.index PROVE p[j].key \in {q[k].key : k \in 1..n}
    <3>1. j \notin (n + 1)..L
      BY <2>1, <2>3
    <3>2. j \in 1..n /\ q[j] = p[j]
      BY <3>1, <1>9, <1>10
    <3> QED BY <3>2
  <2> QED BY <2>1, <2>2, <2>3
<1>13. EntriesIn(t) \subseteq EntriesIn(s)
  BY <1>8, <1>9 DEF EntriesIn
<1>14. \A j, k \in 1..n : q[j].key = q[k].key => j = k
  BY <1>2, <1>9
<1>15. t \in Store(Keys, Values)
  <2>1. T[n] \in 0..MaxSize
    <3>1. T[n] \in Nat
      BY <1>3
    <3> HIDE DEF T
    <3> QED BY <3>1, <1>1, <1>5
  <2>2. s.index \ {p[j].key : j \in (n + 1)..L} \in SUBSET Keys
    BY <1>1
  <2> HIDE DEF T, L, p
  <2> QED BY <2>1, <2>2, <1>1, <1>6, <1>7 DEF Store
<1> QED BY <1>5, <1>6, <1>8, <1>12, <1>13, <1>14, <1>15 DEF Coherent, Accounted, KeysOf, t

(* What put pushes is counted: with at most half of the largest size in use  *)
(* the running total does not saturate.                                      *)
Fresh(key, value, bytes) == [key |-> key, value |-> value, bytes |-> bytes]

LEMMA PushedAccounted ==
  ASSUME NEW Keys, NEW Values, NEW c, Coherent(c, Keys, Values), 2 * c.budget <= MaxSize,
         NEW key \in Keys, NEW value \in Values, NEW bytes \in 0..MaxSize,
         key \notin c.index, ~Rejects(c, bytes)
  PROVE  LET u == Pushed(c, key, value, bytes)
             e == Fresh(key, value, bytes)
         IN  /\ Accounted(u, Keys, Values)
             /\ EntriesIn(u) = EntriesIn(c) \cup {e}
             /\ u.budget = c.budget /\ bytes # 0 /\ bytes <= u.budget
<1> DEFINE e == Fresh(key, value, bytes)
           u == Pushed(c, key, value, bytes)
<1>1. /\ c \in Store(Keys, Values) /\ Accounted(c, Keys, Values) /\ c.bytes <= c.budget
      /\ c = [order |-> c.order, index |-> c.index, bytes |-> c.bytes, budget |-> c.budget]
  BY StoreParts DEF Coherent, Accounted
<1>2. /\ c.bytes \in Nat /\ c.budget \in Nat /\ MaxSize \in Nat /\ bytes \in Nat
      /\ bytes <= c.budget /\ bytes # 0
  BY <1>1, StoreParts DEF Rejects
<1>3. c.bytes + bytes <= MaxSize
  <2>1. PICK x \in Nat, y \in Nat, m \in Nat : x = c.bytes /\ y = c.budget /\ m = MaxSize
    BY <1>2
  <2>2. x <= y /\ bytes <= y /\ 2 * y <= m
    BY <2>1, <1>1, <1>2
  <2>3. x + bytes <= m
    BY <2>2, <1>2
  <2> QED BY <2>1, <2>3
<1>4. saturatedAdd(c.bytes, bytes) = c.bytes + bytes
  BY <1>2, <1>3 DEF saturatedAdd
<1>5. e \in Entry(Keys, Values) /\ e.key = key /\ e.bytes = bytes
  BY DEF Entry, Fresh
<1>6. u = AddFront(c, e)
  BY <1>4 DEF Pushed, AddFront, Fresh
<1> HIDE DEF e, u
<1>7. /\ Accounted(u, Keys, Values) /\ EntriesIn(u) = EntriesIn(c) \cup {e}
      /\ u.budget = c.budget
  BY <1>1, <1>3, <1>5, <1>6, AddFrontAccounted
<1> QED BY <1>2, <1>7 DEF e, u

(* put leaves a coherent store, whatever the key, the value and the size. *)
LEMMA PutCoherent ==
  ASSUME NEW Keys, NEW Values, NEW s, Coherent(s, Keys, Values), 2 * s.budget <= MaxSize,
         NEW key \in Keys, NEW value \in Values, NEW bytes \in 0..MaxSize
  PROVE  LET t == put(s, key, value, bytes).store
             e == [key |-> key, value |-> value, bytes |-> bytes]
         IN  /\ Coherent(t, Keys, Values)
             /\ EntriesIn(t) \subseteq EntriesIn(s) \cup {e}
             /\ bytes = 0 => EntriesIn(t) \subseteq EntriesIn(s)
             /\ t.budget = s.budget
<1> DEFINE e == Fresh(key, value, bytes)
           c == erase(s, key)
           t == put(s, key, value, bytes).store
<1>0. EntriesIn(c) \subseteq EntriesIn(s)
  BY EraseCoherent
<1>1. Coherent(c, Keys, Values) /\ c.budget = s.budget /\ key \notin c.index
  BY EraseCoherent
<1>2. CASE Rejects(c, bytes)
  <2>1. t = c
    BY <1>2 DEF put
  <2> QED BY <1>0, <1>1, <1>2, <2>1
<1>3. CASE ~Rejects(c, bytes)
  <2>1. t = evictToFit(Pushed(c, key, value, bytes))
    BY <1>3 DEF put
  <2>2. /\ Coherent(c, Keys, Values) /\ key \notin c.index /\ ~Rejects(c, bytes)
        /\ 2 * c.budget <= MaxSize
    BY <1>1, <1>3
  <2> DEFINE u == Pushed(c, key, value, bytes)
  <2>3. Accounted(u, Keys, Values) /\ u.budget = c.budget /\ bytes # 0
    BY <2>2, PushedAccounted
  <2>4. EntriesIn(u) = EntriesIn(c) \cup {e}
    BY <2>2, PushedAccounted
  <2>5. t = evictToFit(u)
    BY <2>1
  <2> HIDE DEF c, e, t, u
  <2>6. /\ Coherent(t, Keys, Values)
        /\ EntriesIn(t) \subseteq EntriesIn(c) \cup {e}
        /\ t.budget = c.budget
    BY <2>3, <2>4, <2>5, EvictCoherent
  <2> QED BY <1>0, <1>1, <2>3, <2>6 DEF e, t, Fresh
<1> QED BY <1>2, <1>3

(* A hit moves its entry to the front and changes nothing else. *)
LEMMA TouchedCoherent ==
  ASSUME NEW Keys, NEW Values, NEW s, Coherent(s, Keys, Values), NEW key
  PROVE  /\ Coherent(Touched(s, key), Keys, Values)
         /\ EntriesIn(Touched(s, key)) \subseteq EntriesIn(s)
         /\ Touched(s, key).budget = s.budget
<1>1. CASE ~contains(s, key)
  BY <1>1 DEF Touched
<1>2. CASE contains(s, key)
  <2> DEFINE i == Find(s, key)
             e == s.order[i]
             c == erase(s, key)
             t == Touched(s, key)
  <2>1. Accounted(s, Keys, Values) /\ key \in s.index /\ s.bytes <= s.budget
    BY <1>2 DEF Coherent, contains
  <2>2. i \in 1..Len(s.order) /\ e.key = key
    BY <2>1, FindPosition
  <2>3. s.order \in Seq(Entry(Keys, Values)) /\ s.bytes \in Nat /\ MaxSize \in Nat
        /\ s.bytes <= MaxSize
        /\ s = [order |-> s.order, index |-> s.index, bytes |-> s.bytes, budget |-> s.budget]
    BY <2>1, StoreParts DEF Accounted
  <2>4. e \in Entry(Keys, Values) /\ e.bytes \in Nat /\ e \in EntriesIn(s)
    BY <2>2, <2>3, EntrySizes DEF EntriesIn
  <2>5. /\ Accounted(c, Keys, Values) /\ EntriesIn(c) \subseteq EntriesIn(s)
        /\ c.budget = s.budget /\ key \notin c.index
    BY EraseCoherent DEF Coherent
  <2>6. c = [order |-> RemoveAt(s.order, i), index |-> s.index \ {key},
             bytes |-> s.bytes - e.bytes, budget |-> s.budget]
    BY <1>2, <2>3 DEF erase
  <2>7. t = [s EXCEPT !.order = <<e>> \o RemoveAt(s.order, i)]
    BY <1>2 DEF Touched
  <2> HIDE DEF c, t, e, i
  <2>8. t = AddFront(c, e)
    <3>1. PICK x \in Nat, y \in Nat : x = s.bytes /\ y = e.bytes
      BY <2>3, <2>4
    <3>2. (s.bytes - e.bytes) + e.bytes = s.bytes
      <4>1. (x - y) + y = x
        OBVIOUS
      <4> QED BY <3>1, <4>1
    <3>3. (s.index \ {key}) \cup {e.key} = s.index
      BY <2>1, <2>2
    <3> DEFINE o == <<e>> \o RemoveAt(s.order, i)
    <3>4. t = [order |-> o, index |-> s.index, bytes |-> s.bytes, budget |-> s.budget]
      BY <2>3, <2>7
    <3>5. AddFront(c, e) = [c EXCEPT !.order = <<e>> \o c.order, !.index = c.index \cup {e.key},
                                     !.bytes = c.bytes + e.bytes]
      BY DEF AddFront
    <3>6. AddFront(c, e) = [order |-> o, index |-> (s.index \ {key}) \cup {e.key},
                            bytes |-> (s.bytes - e.bytes) + e.bytes, budget |-> s.budget]
      BY <2>6, <3>5
    <3> QED BY <3>2, <3>3, <3>4, <3>6
  <2>9. c.bytes + e.bytes = s.bytes
    <3>1. PICK x \in Nat, y \in Nat : x = s.bytes /\ y = e.bytes
      BY <2>3, <2>4
    <3>2. (x - y) + y = x
      OBVIOUS
    <3> QED BY <2>6, <3>1, <3>2
  <2>10. /\ Accounted(t, Keys, Values) /\ EntriesIn(t) = EntriesIn(c) \cup {e}
         /\ t.budget = s.budget
    BY <2>2, <2>3, <2>4, <2>5, <2>8, <2>9, AddFrontAccounted
  <2>11. t.bytes = s.bytes
    BY <2>3, <2>7
  <2> QED BY <2>1, <2>4, <2>5, <2>10, <2>11 DEF Coherent, t
<1> QED BY <1>1, <1>2

LEMMA ClearCoherent ==
  ASSUME NEW Keys, NEW Values, NEW s, Coherent(s, Keys, Values)
  PROVE  /\ Coherent(clear(s), Keys, Values)
         /\ EntriesIn(clear(s)) = {}
         /\ clear(s).budget = s.budget
<1>1. s.budget \in 0..MaxSize
  BY StoreParts DEF Coherent, Accounted
<1> QED BY <1>1, EmptyCoherent DEF clear, EmptyStore

LEMMA SetBudgetCoherent ==
  ASSUME NEW Keys, NEW Values, NEW s, Coherent(s, Keys, Values), NEW b \in 0..MaxSize
  PROVE  /\ Coherent(setBudget(s, b), Keys, Values)
         /\ EntriesIn(setBudget(s, b)) \subseteq EntriesIn(s)
         /\ setBudget(s, b).budget = b
<1> DEFINE r == [s EXCEPT !.budget = b]
<1>1. s = [order |-> s.order, index |-> s.index, bytes |-> s.bytes, budget |-> s.budget]
      /\ s \in Store(Keys, Values) /\ Accounted(s, Keys, Values)
  BY StoreParts DEF Coherent, Accounted
<1>2. r = [order |-> s.order, index |-> s.index, bytes |-> s.bytes, budget |-> b]
  BY <1>1
<1>3. r \in Store(Keys, Values)
  BY <1>1, <1>2 DEF Store
<1>4. r.budget = b /\ r.order = s.order /\ r.index = s.index /\ r.bytes = s.bytes
  BY <1>2
<1> HIDE DEF r
<1>5. Accounted(r, Keys, Values) /\ EntriesIn(r) = EntriesIn(s)
  BY <1>1, <1>3, <1>4 DEF Accounted, KeysOf, EntriesIn
<1>6. CASE b = 0
  <2>1. setBudget(s, b) = EmptyStore(b)
    BY <1>4, <1>6 DEF setBudget, clear, r
  <2> QED BY <2>1, EmptyCoherent DEF EmptyStore
<1>7. CASE b # 0
  <2>1. setBudget(s, b) = evictToFit(r)
    BY <1>7 DEF setBudget, r
  <2> QED BY <2>1, <1>4, <1>5, EvictCoherent
<1> QED BY <1>6, <1>7
-----------------------------------------------------------------------------
(* What eviction takes.  From s to t the entries that are lost, but for those*)
(* with a key of X, are the back of the list, and no more than the budget    *)
(* asks for.                                                                 *)
Lost(s, t, i) == s.order[i].key \notin t.index

Victims(s, t, X) == {i \in 1..Len(s.order) : Lost(s, t, i) /\ s.order[i].key \notin X}

Spares(s, t, X) ==
  /\ \A i \in Victims(s, t, X), j \in 1..Len(s.order) :
       i < j => Lost(s, t, j) \/ s.order[j].key \in X
  /\ \A i \in Victims(s, t, X) :
       (\A j \in Victims(s, t, X) : i <= j) => t.bytes + s.order[i].bytes > t.budget

LEMMA NoVictims ==
  ASSUME NEW Keys, NEW Values, NEW s, Accounted(s, Keys, Values), NEW t, NEW X,
         s.index \subseteq t.index \cup X
  PROVE  Spares(s, t, X)
<1>1. Victims(s, t, X) = {}
  BY DEF Victims, Lost, Accounted, KeysOf
<1> QED BY <1>1 DEF Spares

(* The entries up to the n-th stay; the next one would not fit. *)
KeepsFront(s, t, n) ==
  /\ n \in 0..Len(s.order)
  /\ \A j \in 1..Len(s.order) : Lost(s, t, j) <=> n < j
  /\ n < Len(s.order) => t.bytes + s.order[n + 1].bytes > t.budget

LEMMA EvictKeepsFront ==
  ASSUME NEW Keys, NEW Values, NEW s, Accounted(s, Keys, Values)
  PROVE  \E n : /\ KeepsFront(s, evictToFit(s), n)
                /\ (Len(s.order) > 0 /\ s.order[1].bytes <= s.budget) => n > 0
<1> DEFINE p == s.order
           L == Len(p)
           T == RunningBytes(p)
           n == Retained(s)
           t == evictToFit(s)
<1>1. /\ n \in 0..L /\ T[n] <= s.budget /\ T \in [0..L -> Nat] /\ T[0] = 0
      /\ \A m \in 0..L : T[m] <= s.budget => m <= n
      /\ t = [order |-> SubSeq(p, 1, n), index |-> s.index \ {p[j].key : j \in (n + 1)..L},
              bytes |-> T[n], budget |-> s.budget]
  BY RetainedFront
<1>2. /\ p \in Seq(Entry(Keys, Values)) /\ L \in Nat /\ s.budget \in Nat
      /\ \A j \in 1..L : p[j].bytes \in Nat
      /\ s.index = {p[j].key : j \in 1..L}
      /\ \A j, k \in 1..L : p[j].key = p[k].key => j = k
  BY StoreParts, EntrySizes DEF Accounted, KeysOf
<1>3. \A m \in 1..L : T[m] = T[m - 1] + p[m].bytes
  BY <1>2, RunningBytesDef, EntrySizes
<1>4. t.bytes = T[n] /\ t.budget = s.budget
      /\ t.index = s.index \ {p[j].key : j \in (n + 1)..L}
  BY <1>1
<1> HIDE DEF t, n, T, p, L
<1>5. \A j \in 1..L : p[j].key \notin t.index <=> n < j
  <2> TAKE j \in 1..L
  <2>1. CASE n < j
    <3>1. j \in (n + 1)..L
      BY <2>1, <1>1, <1>2
    <3> QED BY <2>1, <3>1, <1>4
  <2>2. CASE ~(n < j)
    <3>1. \A k \in (n + 1)..L : k \in 1..L /\ k # j
      BY <2>2, <1>1, <1>2
    <3>2. p[j].key \notin {p[k].key : k \in (n + 1)..L}
      BY <3>1, <1>2
    <3> QED BY <2>2, <3>2, <1>2, <1>4
  <2> QED BY <2>1, <2>2
<1>6. ASSUME n < L PROVE t.bytes + p[n + 1].bytes > t.budget
  <2>1. n + 1 \in 1..L /\ n + 1 \in 0..L /\ ~(n + 1 <= n) /\ (n + 1) - 1 = n
    BY <1>6, <1>1, <1>2
  <2>2. ~(T[n + 1] <= s.budget) /\ T[n + 1] = T[n] + p[n + 1].bytes
    BY <2>1, <1>1, <1>3
  <2>3. T[n] \in Nat /\ p[n + 1].bytes \in Nat
    BY <2>1, <1>1, <1>2
  <2> QED BY <2>2, <2>3, <1>2, <1>4
<1>7. ASSUME L > 0, p[1].bytes <= s.budget PROVE n > 0
  <2>1. 1 \in 1..L /\ 1 \in 0..L /\ 1 - 1 = 0
    BY <1>7, <1>2
  <2>2. T[1] = 0 + p[1].bytes /\ p[1].bytes \in Nat
    BY <2>1, <1>1, <1>2, <1>3
  <2>3. 1 <= n
    BY <2>1, <2>2, <1>1, <1>7
  <2> QED BY <2>3, <1>1
<1>8. KeepsFront(s, t, n)
  BY <1>1, <1>5, <1>6 DEF KeepsFront, Lost, p, L
<1> QED BY <1>7, <1>8 DEF p, L, t

LEMMA FrontSpares ==
  ASSUME NEW s, NEW t, Len(s.order) \in Nat, NEW n, KeepsFront(s, t, n)
  PROVE  Spares(s, t, {})
<1> DEFINE L == Len(s.order)
<1>1. n \in 0..L /\ L \in Nat /\ \A j \in 1..L : Lost(s, t, j) <=> n < j
  BY DEF KeepsFront
<1>2. Victims(s, t, {}) = {j \in 1..L : n < j}
  BY <1>1 DEF Victims
<1>3. ASSUME NEW i \in 1..L, n < i, \A j \in Victims(s, t, {}) : i <= j
      PROVE  i = n + 1 /\ n < L
  <2>1. n + 1 \in Victims(s, t, {})
    BY <1>1, <1>2, <1>3
  <2> QED BY <2>1, <1>1, <1>3
<1>4. \A i, j \in 1..L : n < i /\ i < j => n < j
  BY <1>1
<1> HIDE DEF L
<1> QED BY <1>1, <1>2, <1>3, <1>4 DEF Spares, KeepsFront, L

LEMMA SetBudgetSpares ==
  ASSUME NEW Keys, NEW Values, NEW s, Coherent(s, Keys, Values), NEW b \in 0..MaxSize,
         \A i \in 1..Len(s.order) : s.order[i].bytes > 0
  PROVE  Spares(s, setBudget(s, b), {})
<1> DEFINE r == [s EXCEPT !.budget = b]
           t == setBudget(s, b)
<1>1. s = [order |-> s.order, index |-> s.index, bytes |-> s.bytes, budget |-> s.budget]
      /\ s \in Store(Keys, Values) /\ Accounted(s, Keys, Values) /\ Len(s.order) \in Nat
  BY StoreParts DEF Coherent, Accounted
<1>2. r.order = s.order /\ r.index = s.index /\ r.bytes = s.bytes /\ r.budget = b
  BY <1>1
<1>3. Accounted(r, Keys, Values)
  <2>1. r \in Store(Keys, Values)
    BY <1>1, <1>2 DEF Store
  <2> HIDE DEF r
  <2> QED BY <1>1, <1>2, <2>1 DEF Accounted, KeysOf
<1>4. CASE b = 0
  <2>1. t.bytes = 0 /\ t.budget = 0 /\ t.index = {}
    BY <1>2, <1>4 DEF setBudget, clear, EmptyStore
  <2>2. \A i \in 1..Len(s.order) : s.order[i].bytes \in Nat
    BY <1>1, StoreParts, EntrySizes
  <2> HIDE DEF t
  <2>3. \A i \in 1..Len(s.order) : Lost(s, t, i) /\ t.bytes + s.order[i].bytes > t.budget
    BY <2>1, <2>2 DEF Lost
  <2> QED BY <2>3 DEF Spares, Victims, t
<1>5. CASE b # 0
  <2>1. t = evictToFit(r)
    BY <1>5 DEF setBudget
  <2> HIDE DEF t
  <2>2. PICK n : KeepsFront(r, t, n)
    BY <2>1, <1>3, EvictKeepsFront
  <2> HIDE DEF r
  <2>3. KeepsFront(s, t, n)
    BY <1>2, <2>2 DEF KeepsFront, Lost
  <2> QED BY <2>3, <1>1, FrontSpares DEF t
<1> QED BY <1>4, <1>5

LEMMA TouchedSpares ==
  ASSUME NEW Keys, NEW Values, NEW s, Coherent(s, Keys, Values), NEW key
  PROVE  Spares(s, Touched(s, key), {})
<1>1. s = [order |-> s.order, index |-> s.index, bytes |-> s.bytes, budget |-> s.budget]
  BY StoreParts DEF Coherent, Accounted
<1>2. Touched(s, key).index = s.index
  BY <1>1 DEF Touched
<1> HIDE DEF Touched
<1> QED BY <1>2, NoVictims DEF Coherent

(* The list of which a key's entry is taken out, if it has one. *)
LEMMA ErasePositions ==
  ASSUME NEW Keys, NEW Values, NEW s, Coherent(s, Keys, Values), NEW key
  PROVE  LET p == s.order
             L == Len(p)
             q == erase(s, key).order
             M == Len(q)
         IN  \E i \in 1..L + 1 :
               /\ M = IF i <= L THEN L - 1 ELSE L
               /\ \A k \in 1..L : p[k].key = key <=> k = i
               /\ \A j \in 1..M : q[j] = p[IF j < i THEN j ELSE j + 1]
<1> DEFINE p == s.order
           L == Len(p)
           q == erase(s, key).order
           M == Len(q)
<1>1. /\ Accounted(s, Keys, Values) /\ L \in Nat /\ p \in Seq(Entry(Keys, Values))
      /\ s = [order |-> p, index |-> s.index, bytes |-> s.bytes, budget |-> s.budget]
      /\ s.index = {p[j].key : j \in 1..L}
      /\ \A j, k \in 1..L : p[j].key = p[k].key => j = k
  BY StoreParts DEF Coherent, Accounted, KeysOf
<1>2. CASE key \notin s.index
  <2>1. q = p /\ \A k \in 1..L : p[k].key # key
    BY <1>1, <1>2 DEF erase, contains
  <2> HIDE DEF q, p
  <2>2. M = L /\ L + 1 \in 1..L + 1 /\ ~(L + 1 <= L) /\ \A k \in 1..L : k < L + 1 /\ k # L + 1
    BY <1>1, <2>1
  <2> HIDE DEF M, L
  <2>3. \A j \in 1..M : q[j] = p[IF j < L + 1 THEN j ELSE j + 1]
    BY <2>1, <2>2
  <2> QED BY <2>1, <2>2, <2>3 DEF M, L, q, p
<1>3. CASE key \in s.index
  <2> DEFINE i == Find(s, key)
  <2>1. i \in 1..L /\ p[i].key = key
    BY <1>1, <1>3, FindPosition
  <2>2. q = RemoveAt(p, i)
    BY <1>1, <1>3 DEF erase, contains
  <2> HIDE DEF i, q
  <2>3. /\ M = L - 1
        /\ \A j \in 1..(L - 1) : q[j] = IF j < i THEN p[j] ELSE p[j + 1]
    BY <1>1, <2>1, <2>2, RemoveAtElements
  <2>4. i \in 1..L + 1 /\ i <= L
    BY <1>1, <2>1
  <2>5. \A k \in 1..L : p[k].key = key <=> k = i
    BY <1>1, <2>1
  <2> HIDE DEF M, L, p
  <2> QED BY <2>3, <2>4, <2>5 DEF M, L, p, q
<1> QED BY <1>2, <1>3

(* put first takes out what its key had, and pushes; the entry it pushed is  *)
(* never a victim.                                                           *)
LEMMA PutSpares ==
  ASSUME NEW Keys, NEW Values, NEW s, Coherent(s, Keys, Values), 2 * s.budget <= MaxSize,
         NEW key \in Keys, NEW value \in Values, NEW bytes \in 0..MaxSize
  PROVE  Spares(s, put(s, key, value, bytes).store, {key})
<1> DEFINE e == Fresh(key, value, bytes)
           c == erase(s, key)
           u == Pushed(c, key, value, bytes)
           t == put(s, key, value, bytes).store
<1>0. Accounted(s, Keys, Values)
      /\ s = [order |-> s.order, index |-> s.index, bytes |-> s.bytes, budget |-> s.budget]
      /\ Len(s.order) \in Nat
  BY StoreParts DEF Coherent, Accounted
<1>1. /\ Coherent(c, Keys, Values) /\ c.budget = s.budget /\ key \notin c.index
      /\ c.index = s.index \ {key}
  <2>1. c.index = s.index \ {key}
    BY <1>0 DEF erase, contains
  <2> QED BY <2>1, EraseCoherent
<1>2. CASE Rejects(c, bytes)
  <2>1. t = c
    BY <1>2 DEF put
  <2> QED BY <1>0, <1>1, <2>1, NoVictims
<1>3. CASE ~Rejects(c, bytes)
  <2>1. t = evictToFit(u)
    BY <1>3 DEF put
  <2>2. /\ Accounted(u, Keys, Values) /\ u.budget = s.budget /\ bytes <= u.budget
        /\ u.order = <<e>> \o c.order
    <3>1. c = [order |-> c.order, index |-> c.index, bytes |-> c.bytes, budget |-> c.budget]
      BY <1>1, StoreParts DEF Coherent, Accounted
    <3>2. u.order = <<e>> \o c.order
      BY <3>1 DEF Pushed, Fresh
    <3> QED BY <1>1, <1>3, <3>2, PushedAccounted
  <2> DEFINE p == s.order
             L == Len(p)
             q == c.order
             M == Len(q)
  <2>3. /\ Len(u.order) = M + 1 /\ u.order[1] = e /\ M \in Nat
        /\ \A j \in 1..M : u.order[j + 1] = q[j]
    <3>1. q \in Seq(Entry(Keys, Values)) /\ e \in Entry(Keys, Values)
      BY <1>1, StoreParts DEF Coherent, Accounted, Entry, Fresh
    <3> QED BY <2>2, <3>1, RunningBytesPush, EntrySizes
  <2>4. e.key = key /\ e.bytes = bytes
    BY DEF Fresh
  <2> HIDE DEF e, c, u, t
  <2>5. PICK n : KeepsFront(u, t, n) /\ n > 0
    BY <2>1, <2>2, <2>3, <2>4, EvictKeepsFront
  <2>6. /\ n \in 1..M + 1 /\ key \in t.index
        /\ \A j \in 1..M : q[j].key \notin t.index <=> n <= j
        /\ n <= M => t.bytes + q[n].bytes > t.budget
    <3>1. n \in 0..(M + 1) /\ \A j \in 1..(M + 1) : Lost(u, t, j) <=> n < j
      BY <2>3, <2>5 DEF KeepsFront
    <3>2. n \in 1..M + 1 /\ 1 \in 1..(M + 1) /\ ~(n < 1)
      BY <2>3, <2>5, <3>1
    <3>3. key \in t.index
      BY <2>3, <2>4, <3>1, <3>2 DEF Lost
    <3>4. \A j \in 1..M : q[j].key \notin t.index <=> n <= j
      <4> TAKE j \in 1..M
      <4>1. j + 1 \in 1..(M + 1) /\ (n < j + 1 <=> n <= j)
        BY <2>3, <3>2
      <4> QED BY <4>1, <2>3, <3>1 DEF Lost
    <3>5. ASSUME n <= M PROVE t.bytes + q[n].bytes > t.budget
      <4>1. n \in 1..M /\ n < Len(u.order)
        BY <3>2, <3>5, <2>3
      <4> QED BY <4>1, <2>3, <2>5 DEF KeepsFront
    <3> QED BY <3>2, <3>3, <3>4, <3>5
  <2>7. PICK i \in 1..L + 1 :
          /\ M = IF i <= L THEN L - 1 ELSE L
          /\ \A k \in 1..L : p[k].key = key <=> k = i
          /\ \A j \in 1..M : q[j] = p[IF j < i THEN j ELSE j + 1]
    BY ErasePositions DEF c
  <2> DEFINE at(k) == IF k < i THEN k ELSE k - 1
  <2> HIDE DEF L, M, p, q
  <2>8. L \in Nat
    BY <1>0 DEF L, p
  <2>9. \A k \in 1..L : k # i => at(k) \in 1..M /\ p[k] = q[at(k)]
    <3> SUFFICES ASSUME NEW k \in 1..L, k # i PROVE at(k) \in 1..M /\ p[k] = q[at(k)]
      OBVIOUS
    <3>1. at(k) \in 1..M /\ k = IF at(k) < i THEN at(k) ELSE at(k) + 1
      BY <2>7, <2>8
    <3> HIDE DEF at
    <3> QED BY <2>7, <3>1
  <2>10. \A k \in 1..L : k \in Victims(s, t, {key}) <=> k # i /\ n <= at(k)
    <3> SUFFICES ASSUME NEW k \in 1..L
                 PROVE  k \in Victims(s, t, {key}) <=> k # i /\ n <= at(k)
      OBVIOUS
    <3>1. k \in Victims(s, t, {key}) <=> p[k].key \notin t.index /\ p[k].key # key
      BY DEF Victims, Lost, p, L
    <3> HIDE DEF at
    <3> QED BY <2>6, <2>7, <2>9, <3>1
  <2>11. ASSUME NEW k \in Victims(s, t, {key}), NEW j \in 1..L, k < j
         PROVE  Lost(s, t, j) \/ p[j].key = key
    <3>1. CASE j = i
      BY <2>7, <3>1
    <3>2. CASE j # i
      <4>1. k \in 1..L /\ k # i /\ n <= at(k)
        BY <2>10 DEF Victims, L, p
      <4>2. n <= at(j)
        BY <4>1, <2>11, <2>8, <2>7, <3>2, <2>6, <2>3
      <4> HIDE DEF at
      <4> QED BY <4>2, <2>10, <3>2 DEF Victims
    <3> QED BY <3>1, <3>2
  <2>12. ASSUME NEW k \in Victims(s, t, {key}), \A j \in Victims(s, t, {key}) : k <= j
         PROVE  t.bytes + p[k].bytes > t.budget
    <3> DEFINE m == IF n < i THEN n ELSE n + 1
    <3>1. k \in 1..L /\ k # i /\ n <= at(k) /\ at(k) \in 1..M /\ p[k] = q[at(k)]
      <4> HIDE DEF at
      <4>1. k \in 1..L
        BY DEF Victims, L, p
      <4> QED BY <4>1, <2>9, <2>10
    <3>2. n <= M /\ m \in 1..L /\ m # i /\ at(m) = n
      BY <3>1, <2>3, <2>6, <2>7, <2>8
    <3>3. k <= m
      <4> HIDE DEF at, m
      <4>1. n <= at(m)
        BY <3>2, <2>6, <2>3
      <4>2. m \in Victims(s, t, {key})
        BY <4>1, <3>2, <2>10
      <4> QED BY <4>2, <2>12
    <3>4. at(k) = n
      BY <3>1, <3>2, <3>3, <2>6, <2>7, <2>8
    <3> HIDE DEF at, m
    <3> QED BY <3>1, <3>2, <3>4, <2>6
  <2> QED BY <2>11, <2>12 DEF Spares, p, L, t
<1> QED BY <1>2, <1>3

-----------------------------------------------------------------------------
(* The cache and its threads. *)
Good(e) ==
  /\ e.key.generation = generation
  /\ ValueMatchesKey(e.key, e.value)
  /\ announced <= e.value.inputs /\ e.value.inputs <= inputs
  /\ e.bytes > 0

(* What a store holds. *)
StoreSound(s) ==
  /\ Coherent(s, Key, Value)
  /\ s.budget \in Budgets
  /\ \A e \in EntriesIn(s) : Good(e)

(* Neither a thread's token nor its value is of the future; what it computed *)
(* under the current generation is as new as the last announcement.          *)
Pending(r) ==
  r.pc # "idle" =>
    /\ r.token <= generation
    /\ r.pc = "computed" => r.value.inputs <= inputs
    /\ (r.pc = "computed" /\ r.token = generation) => announced <= r.value.inputs

IInv ==
  /\ TypeOK
  /\ announced <= inputs
  /\ \A st \in Stores : StoreSound(store[st])
  /\ \A w \in Workers : Pending(worker[w])

-----------------------------------------------------------------------------
LEMMA BudgetRange ==
  ASSUME NEW b \in Budgets
  PROVE  b \in 0..MaxSize /\ 2 * b <= MaxSize
BY BudgetAssumption

LEMMA EntriesAgree ==
  ASSUME TypeOK, NEW st \in Stores
  PROVE  EntriesOf(st) = EntriesIn(store[st])
<1>1. store[st] \in Store(Key, Value)
  BY DEF TypeOK
<1>2. DOMAIN store[st].order = 1..Len(store[st].order)
  BY <1>1, StoreParts
<1> QED BY <1>2 DEF EntriesOf, EntriesIn

(* The record sets of the program counters. *)
LEMMA HeldRecords ==
  ASSUME NEW r \in WorkerState
  PROVE  /\ r.pc \in {"captured", "missed"} =>
              /\ r.token \in Nat /\ r.at \in Stores /\ r.id \in Ids
              /\ r = [pc |-> r.pc, token |-> r.token, at |-> r.at, id |-> r.id]
         /\ r.pc = "computed" =>
              r.token \in Nat /\ r.at \in Stores /\ r.id \in Ids /\ r.value \in Value
BY DEF WorkerState, Idle

(* A store replaced by a sound one keeps every store sound. *)
LEMMA ReplaceStore ==
  ASSUME IInv, NEW st \in Stores, NEW t, StoreSound(t),
         store' = [store EXCEPT ![st] = t],
         UNCHANGED <<generation, inputs, announced>>
  PROVE  /\ store' \in [Stores -> Store(Key, Value)]
         /\ \A u \in Stores : StoreSound(store[u])'
<1>1. t \in Store(Key, Value)
  BY DEF StoreSound, Coherent, Accounted
<1>2. store \in [Stores -> Store(Key, Value)]
  BY DEF IInv, TypeOK
<1>3. \A u \in Stores : store'[u] = IF u = st THEN t ELSE store[u]
  BY <1>2
<1>4. \A u \in Stores : StoreSound(store[u])
  BY DEF IInv
<1>5. \A u \in Stores : StoreSound(store[u])'
  BY <1>3, <1>4 DEF StoreSound, Good, ValueMatchesKey
<1> QED BY <1>1, <1>2, <1>5

(* Nothing but the workers changed: the stores stay sound. *)
LEMMA SameStores ==
  ASSUME IInv, store' = store, UNCHANGED <<generation, inputs, announced>>
  PROVE  /\ store' \in [Stores -> Store(Key, Value)]
         /\ \A u \in Stores : StoreSound(store[u])'
BY DEF IInv, TypeOK, StoreSound, Good, ValueMatchesKey

(* One thread moved to a record that is typed and not stale. *)
LEMMA ReplaceWorker ==
  ASSUME IInv, NEW w \in Workers, NEW r \in WorkerState, Pending(r),
         worker' = [worker EXCEPT ![w] = r],
         UNCHANGED <<generation, inputs, announced>>
  PROVE  /\ worker' \in [Workers -> WorkerState]
         /\ \A v \in Workers : Pending(worker[v])'
<1>1. worker \in [Workers -> WorkerState]
  BY DEF IInv, TypeOK
<1>2. \A v \in Workers : worker'[v] = IF v = w THEN r ELSE worker[v]
  BY <1>1
<1>3. \A v \in Workers : Pending(worker[v])
  BY DEF IInv
<1>4. \A v \in Workers : Pending(worker[v])'
  BY <1>2, <1>3 DEF Pending
<1> QED BY <1>1, <1>4

LEMMA TouchedSound ==
  ASSUME NEW s, StoreSound(s), NEW key
  PROVE  StoreSound(Touched(s, key))
BY TouchedCoherent DEF StoreSound

LEMMA ValueBytes ==
  ASSUME NEW key, NEW value \in Value
  PROVE  (IF ValueMatchesKey(key, value) THEN byteSize(value) ELSE 0) \in 0..MaxSize
<1>1. byteSize(value) \in 0..MaxSize
  <2>1. value.size \in PayloadSizes
    BY DEF Value
  <2>2. value.size \in 1..MaxSize /\ MaxSize \in Nat
    BY <2>1, PayloadAssumption, MaxSizeAssumption
  <2>3. \A x \in 1..MaxSize : x \in 0..MaxSize
    OBVIOUS
  <2>4. 0 \in 0..MaxSize
    BY <2>2
  <2> QED BY <2>2, <2>3, <2>4 DEF byteSize
<1>2. 0 \in 0..MaxSize
  BY MaxSizeAssumption
<1> QED BY <1>1, <1>2

(* An insertion under the current generation of a value no older than the *)
(* last announcement.                                                     *)
LEMMA InsertSound ==
  ASSUME NEW s, StoreSound(s), NEW key \in Key, key.generation = generation,
         NEW value \in Value, announced <= value.inputs, value.inputs <= inputs
  PROVE  StoreSound(put(s, key, value,
                        IF ValueMatchesKey(key, value) THEN byteSize(value) ELSE 0).store)
<1> DEFINE bytes == IF ValueMatchesKey(key, value) THEN byteSize(value) ELSE 0
           t == put(s, key, value, bytes).store
           e == [key |-> key, value |-> value, bytes |-> bytes]
<1>1. bytes \in 0..MaxSize
  BY ValueBytes
<1>2. 2 * s.budget <= MaxSize /\ Coherent(s, Key, Value)
  BY BudgetRange DEF StoreSound
<1> HIDE DEF bytes
<1>3. /\ Coherent(t, Key, Value)
      /\ EntriesIn(t) \subseteq EntriesIn(s) \cup {e}
      /\ bytes = 0 => EntriesIn(t) \subseteq EntriesIn(s)
      /\ t.budget = s.budget
  BY <1>1, <1>2, PutCoherent
<1>4. CASE ValueMatchesKey(key, value)
  <2>1. bytes > 0
    <3>1. bytes = value.size /\ value.size \in 1..MaxSize
      BY <1>4, PayloadAssumption DEF bytes, ValueMatchesKey, byteSize, Value
    <3> QED BY <3>1, MaxSizeAssumption
  <2>2. Good(e)
    BY <1>4, <2>1 DEF Good
  <2> QED BY <1>3, <2>2 DEF StoreSound, bytes
<1>5. CASE ~ValueMatchesKey(key, value)
  <2>1. bytes = 0
    BY <1>5 DEF bytes
  <2> QED BY <1>3, <2>1 DEF StoreSound, bytes
<1> QED BY <1>4, <1>5
-----------------------------------------------------------------------------
(* The steps of one render thread.  Each lemma is one action.               *)
LEMMA CaptureKeeps ==
  ASSUME IInv, NEW w \in Workers, NEW st \in Stores, NEW id \in Ids, Capture(w, st, id)
  PROVE  IInv'
<1> DEFINE r == [pc |-> "captured", token |-> generation, at |-> st, id |-> id]
<1>1. r \in WorkerState /\ Pending(r)
  BY DEF IInv, TypeOK, WorkerState, Pending
<1>2. worker' = [worker EXCEPT ![w] = r]
  BY DEF Capture
<1>3. UNCHANGED <<generation, store, inputs, announced>>
  BY DEF Capture, hostVars
<1> HIDE DEF r
<1>4. worker' \in [Workers -> WorkerState] /\ \A v \in Workers : Pending(worker[v])'
  BY <1>1, <1>2, <1>3, ReplaceWorker
<1>5. store' \in [Stores -> Store(Key, Value)] /\ \A u \in Stores : StoreSound(store[u])'
  BY <1>3, SameStores
<1> QED BY <1>3, <1>4, <1>5 DEF IInv, TypeOK

LEMMA LookupKeeps ==
  ASSUME IInv, NEW w \in Workers, Lookup(w)
  PROVE  IInv'
<1> DEFINE st == worker[w].at
           key == KeyOf(w, worker[w].token)
           hit == key.generation = generation /\ contains(store[st], key)
           r == IF hit THEN Idle ELSE [worker[w] EXCEPT !.pc = "missed"]
           t == IF key.generation = generation THEN Touched(store[st], key) ELSE store[st]
<1>1. worker[w] \in WorkerState /\ worker[w].pc = "captured" /\ Pending(worker[w])
  BY DEF IInv, TypeOK, Lookup
<1>2. /\ worker[w].token \in Nat /\ st \in Stores /\ worker[w].id \in Ids
      /\ worker[w].token <= generation
      /\ worker[w] = [pc |-> "captured", token |-> worker[w].token, at |-> st,
                      id |-> worker[w].id]
  BY <1>1, HeldRecords DEF Pending
<1>3. UNCHANGED <<generation, inputs, announced>>
  BY DEF Lookup, hostVars
<1>4. worker \in [Workers -> WorkerState] /\ store \in [Stores -> Store(Key, Value)]
  BY DEF IInv, TypeOK
<1>5. worker' = [worker EXCEPT ![w] = r]
  BY <1>4 DEF Lookup
<1>6. r \in WorkerState /\ Pending(r)
  <2>1. CASE hit
    BY <2>1 DEF WorkerState, Idle, Pending
  <2>2. CASE ~hit
    <3>1. r = [pc |-> "missed", token |-> worker[w].token, at |-> st, id |-> worker[w].id]
      BY <1>2, <2>2
    <3> HIDE DEF r, st, key, hit
    <3> QED BY <3>1, <1>2 DEF WorkerState, Pending
  <2> HIDE DEF hit
  <2> QED BY <2>1, <2>2
<1>7. store' = [store EXCEPT ![st] = t]
  <2>1. CASE key.generation = generation
    BY <2>1 DEF Lookup
  <2>2. CASE key.generation # generation
    <3>1. store' = store
      BY <2>2 DEF Lookup
    <3> QED BY <3>1, <2>2, <1>4
  <2> HIDE DEF key
  <2> QED BY <2>1, <2>2
<1>8. StoreSound(store[st])
  BY <1>2 DEF IInv
<1>9. StoreSound(t)
  <2> HIDE DEF key, st
  <2> QED BY <1>8, TouchedSound
<1> HIDE DEF st, key, hit, r, t
<1>10. store' \in [Stores -> Store(Key, Value)] /\ \A u \in Stores : StoreSound(store[u])'
  BY <1>2, <1>3, <1>7, <1>9, ReplaceStore
<1>11. worker' \in [Workers -> WorkerState] /\ \A v \in Workers : Pending(worker[v])'
  BY <1>3, <1>5, <1>6, ReplaceWorker
<1> QED BY <1>3, <1>10, <1>11 DEF IInv, TypeOK

(* What Holding is, once its value is typed. *)
LEMMA HoldingTyped ==
  ASSUME IInv, NEW w \in Workers, worker[w].pc = "missed", NEW value \in Value,
         announced <= value.inputs, value.inputs <= inputs
  PROVE  Holding(w, value) \in WorkerState /\ Pending(Holding(w, value))
<1>1. worker[w] \in WorkerState /\ Pending(worker[w])
  BY DEF IInv, TypeOK
<1>2. /\ worker[w].token \in Nat /\ worker[w].at \in Stores /\ worker[w].id \in Ids
      /\ worker[w].token <= generation
  BY <1>1, HeldRecords DEF Pending
<1> QED BY <1>2 DEF Holding, WorkerState, Pending

LEMMA ComputeKeeps ==
  ASSUME IInv, NEW w \in Workers, Compute(w)
  PROVE  IInv'
<1>1. PICK of \in Ids, valid \in BOOLEAN, size \in PayloadSizes :
        worker' = [worker EXCEPT ![w] =
                     Holding(w, [of |-> of, valid |-> valid, size |-> size, inputs |-> inputs])]
  BY DEF Compute
<1> DEFINE value == [of |-> of, valid |-> valid, size |-> size, inputs |-> inputs]
<1>2. value \in Value /\ announced <= value.inputs /\ value.inputs <= inputs
  BY DEF Value, IInv, TypeOK
<1>3. worker[w].pc = "missed" /\ UNCHANGED <<generation, store, inputs, announced>>
  BY DEF Compute, hostVars
<1>4. worker' = [worker EXCEPT ![w] = Holding(w, value)]
  BY <1>1
<1> HIDE DEF value
<1>5. Holding(w, value) \in WorkerState /\ Pending(Holding(w, value))
  BY <1>2, <1>3, HoldingTyped
<1>6. worker' \in [Workers -> WorkerState] /\ \A v \in Workers : Pending(worker[v])'
  BY <1>3, <1>4, <1>5, ReplaceWorker
<1>7. store' \in [Stores -> Store(Key, Value)] /\ \A u \in Stores : StoreSound(store[u])'
  BY <1>3, SameStores
<1> QED BY <1>3, <1>6, <1>7 DEF IInv, TypeOK

LEMMA ComposeKeeps ==
  ASSUME IInv, NEW w \in Workers, NEW id \in Ids, Compose(w, id)
  PROVE  IInv'
<1> DEFINE link == [id |-> id, generation |-> worker[w].token]
           s == store["pairwise"]
           i == Find(s, link)
           made == s.order[i].value.inputs
<1>1. PICK size \in PayloadSizes :
        worker' = [worker EXCEPT ![w] =
          Holding(w, [of |-> worker[w].id, valid |-> TRUE, size |-> size, inputs |-> made])]
  BY DEF Compose
<1>2. /\ worker[w].pc = "missed" /\ link.generation = generation /\ contains(s, link)
      /\ store' = [store EXCEPT !["pairwise"] = Touched(s, link)]
      /\ UNCHANGED <<generation, inputs, announced>>
  BY DEF Compose, hostVars
<1>3. "pairwise" \in Stores /\ StoreSound(s)
  BY DEF IInv, Stores
<1> HIDE DEF link
<1>4. s.order[i] \in EntriesIn(s) /\ s.order[i] \in Entry(Key, Value)
  <2>1. Accounted(s, Key, Value) /\ link \in s.index
    BY <1>2, <1>3 DEF StoreSound, Coherent, contains
  <2>2. i \in 1..Len(s.order)
    BY <2>1, FindPosition
  <2>3. s.order \in Seq(Entry(Key, Value))
    BY <2>1, StoreParts DEF Accounted
  <2> HIDE DEF i, s
  <2> QED BY <2>2, <2>3 DEF EntriesIn
<1>5. announced <= made /\ made <= inputs /\ made \in Nat
  BY <1>3, <1>4 DEF StoreSound, Good, Entry, Value
<1> DEFINE value == [of |-> worker[w].id, valid |-> TRUE, size |-> size, inputs |-> made]
<1>6. worker[w] \in WorkerState
  BY DEF IInv, TypeOK
<1>7. worker[w].id \in Ids
  BY <1>2, <1>6, HeldRecords
<1>8. StoreSound(Touched(s, link))
  BY <1>3, TouchedSound
<1>9. store' \in [Stores -> Store(Key, Value)] /\ \A u \in Stores : StoreSound(store[u])'
  BY <1>2, <1>3, <1>8, ReplaceStore
<1> HIDE DEF made, s, i
<1>10. value \in Value /\ announced <= value.inputs /\ value.inputs <= inputs
  BY <1>5, <1>7 DEF Value
<1>11. worker' = [worker EXCEPT ![w] = Holding(w, value)]
  BY <1>1
<1> HIDE DEF value
<1>12. Holding(w, value) \in WorkerState /\ Pending(Holding(w, value))
  BY <1>2, <1>10, HoldingTyped
<1>13. worker' \in [Workers -> WorkerState] /\ \A v \in Workers : Pending(worker[v])'
  BY <1>2, <1>11, <1>12, ReplaceWorker
<1> QED BY <1>2, <1>9, <1>13 DEF IInv, TypeOK

(* A thread that is done: it may have inserted under its token, if the token *)
(* is still the generation.                                                  *)
LEMMA FinishKeeps ==
  ASSUME IInv, NEW w \in Workers, worker[w].pc = "computed",
         worker' = Finished(w), UNCHANGED <<generation, inputs, announced>>,
         \/ store' = store
         \/ /\ worker[w].token = generation
            /\ store' = [store EXCEPT ![worker[w].at] =
                  Insert(worker[w].at, KeyOf(w, worker[w].token), worker[w].value).store]
  PROVE  IInv'
<1> DEFINE st == worker[w].at
           key == KeyOf(w, worker[w].token)
           value == worker[w].value
           t == Insert(st, key, value).store
<1>1. Idle \in WorkerState /\ Pending(Idle)
  BY DEF Idle, WorkerState, Pending
<1>2. worker' \in [Workers -> WorkerState] /\ \A v \in Workers : Pending(worker[v])'
  BY <1>1, ReplaceWorker DEF Finished
<1>3. worker[w] \in WorkerState /\ Pending(worker[w])
  BY DEF IInv, TypeOK
<1>4. /\ worker[w].token \in Nat /\ st \in Stores /\ worker[w].id \in Ids /\ value \in Value
      /\ worker[w].token = generation => announced <= value.inputs
      /\ value.inputs <= inputs
  BY <1>3, HeldRecords DEF Pending
<1>5. key \in Key /\ key.generation = worker[w].token
  BY <1>4 DEF Key, KeyOf
<1>6. store' \in [Stores -> Store(Key, Value)] /\ \A u \in Stores : StoreSound(store[u])'
  <2>1. CASE store' = store
    BY <2>1, SameStores
  <2>2. CASE worker[w].token = generation /\ store' = [store EXCEPT ![st] = t]
    <3>1. StoreSound(store[st])
      BY <1>4 DEF IInv
    <3>2. StoreSound(t)
      <4> HIDE DEF key, value, st
      <4> QED BY <3>1, <2>2, <1>4, <1>5, InsertSound DEF Insert
    <3> HIDE DEF st, t
    <3> QED BY <2>2, <3>2, <1>4, ReplaceStore
  <2> QED BY <2>1, <2>2
<1> QED BY <1>2, <1>6 DEF IInv, TypeOK

LEMMA PublishKeeps ==
  ASSUME IInv, NEW w \in Workers, NEW g, Publish(w, g)
  PROVE  IInv'
<1>1. /\ worker[w].pc = "computed" /\ worker' = Finished(w)
      /\ UNCHANGED <<generation, inputs, announced>>
  BY DEF Publish, hostVars
<1>2. CASE ~Accepts(worker[w].token, KeyOf(w, g))
  <2>1. store' = store
    BY <1>2 DEF Publish
  <2> QED BY <1>1, <2>1, FinishKeeps
<1>3. CASE Accepts(worker[w].token, KeyOf(w, g))
  <2>1. worker[w].token = generation /\ g = worker[w].token
    BY <1>3 DEF Accepts, KeyOf
  <2>2. store' = [store EXCEPT ![worker[w].at] =
                    Insert(worker[w].at, KeyOf(w, g), worker[w].value).store]
    BY <1>3 DEF Publish
  <2>3. store' = [store EXCEPT ![worker[w].at] =
                    Insert(worker[w].at, KeyOf(w, worker[w].token), worker[w].value).store]
    BY <2>1, <2>2
  <2> QED BY <1>1, <2>1, <2>3, FinishKeeps
<1> QED BY <1>2, <1>3

LEMMA PutKeeps ==
  ASSUME IInv, NEW w \in Workers, Put(w)
  PROVE  IInv'
<1>1. /\ worker[w].pc = "computed" /\ worker' = Finished(w)
      /\ UNCHANGED <<generation, inputs, announced>>
  BY DEF Put, hostVars
<1>2. KeyOf(w, worker[w].token).generation = worker[w].token
  BY DEF KeyOf
<1>3. CASE worker[w].token # generation
  <2>1. store' = store
    BY <1>2, <1>3 DEF Put
  <2> QED BY <1>1, <2>1, FinishKeeps
<1>4. CASE worker[w].token = generation
  <2>1. store' = [store EXCEPT ![worker[w].at] =
                    Insert(worker[w].at, KeyOf(w, worker[w].token), worker[w].value).store]
    BY <1>2, <1>4 DEF Put
  <2> QED BY <1>1, <1>4, <2>1, FinishKeeps
<1> QED BY <1>3, <1>4

-----------------------------------------------------------------------------
(* The steps of the host. *)
LEMMA ChangeInputsKeeps ==
  ASSUME IInv, ChangeInputs
  PROVE  IInv'
<1>1. inputs' = inputs + 1 /\ UNCHANGED <<generation, store, announced, worker>>
  BY DEF ChangeInputs
<1>2. announced \in Nat /\ inputs \in Nat /\ announced <= inputs
  BY DEF IInv, TypeOK
<1>3. inputs' \in Nat /\ announced' <= inputs'
  BY <1>1, <1>2
<1>4. \A st \in Stores : StoreSound(store[st])'
  <2> SUFFICES ASSUME NEW st \in Stores PROVE StoreSound(store[st])'
    OBVIOUS
  <2>1. StoreSound(store[st])
    BY DEF IInv
  <2>2. ASSUME NEW e \in EntriesIn(store[st]) PROVE e.value.inputs \in Nat
    <3>1. store[st].order \in Seq(Entry(Key, Value))
      BY <2>1, StoreParts DEF StoreSound, Coherent, Accounted
    <3>2. e \in Entry(Key, Value)
      BY <3>1 DEF EntriesIn
    <3> QED BY <3>2 DEF Entry, Value
  <2>3. ASSUME NEW e \in EntriesIn(store[st]) PROVE Good(e)'
    <3>1. Good(e) /\ e.value.inputs \in Nat
      BY <2>1, <2>2 DEF StoreSound
    <3>2. e.value.inputs <= inputs + 1
      BY <3>1, <1>2 DEF Good
    <3> QED BY <3>1, <3>2, <1>1 DEF Good, ValueMatchesKey
  <2> QED BY <2>1, <2>3, <1>1 DEF StoreSound
<1>5. \A w \in Workers : Pending(worker[w])'
  <2> SUFFICES ASSUME NEW w \in Workers PROVE Pending(worker[w])'
    OBVIOUS
  <2>1. worker[w] \in WorkerState /\ Pending(worker[w])
    BY DEF IInv, TypeOK
  <2>2. worker[w].pc = "computed" => worker[w].value.inputs <= inputs + 1
    <3> SUFFICES ASSUME worker[w].pc = "computed" PROVE worker[w].value.inputs <= inputs + 1
      OBVIOUS
    <3>1. worker[w].value.inputs \in Nat /\ worker[w].value.inputs <= inputs
      BY <2>1, HeldRecords DEF Pending, Value
    <3> QED BY <3>1, <1>2
  <2> QED BY <2>1, <2>2, <1>1 DEF Pending
<1> QED BY <1>1, <1>3, <1>4, <1>5 DEF IInv, TypeOK

LEMMA BumpGenerationKeeps ==
  ASSUME IInv, BumpGeneration
  PROVE  IInv'
<1>1. /\ generation' = generation + 1 /\ announced' = inputs
      /\ store' = [st \in Stores |-> clear(store[st])]
      /\ UNCHANGED <<inputs, worker>>
  BY DEF BumpGeneration
<1>2. generation \in Nat /\ inputs \in Nat
  BY DEF IInv, TypeOK
<1>3. ASSUME NEW st \in Stores
      PROVE  clear(store[st]) \in Store(Key, Value) /\ StoreSound(store[st])'
  <2>1. Coherent(store[st], Key, Value) /\ store[st].budget \in Budgets
    BY DEF IInv, StoreSound
  <2>2. /\ Coherent(clear(store[st]), Key, Value) /\ EntriesIn(clear(store[st])) = {}
        /\ clear(store[st]).budget = store[st].budget
    BY <2>1, ClearCoherent
  <2>3. store'[st] = clear(store[st])
    BY <1>1
  <2>4. clear(store[st]) \in Store(Key, Value)
    BY <2>2 DEF Coherent, Accounted
  <2> QED BY <2>1, <2>2, <2>3, <2>4 DEF StoreSound
<1>4. store' \in [Stores -> Store(Key, Value)]
  BY <1>1, <1>3
<1>5. ASSUME NEW w \in Workers PROVE Pending(worker[w])'
  <2>1. worker[w] \in WorkerState /\ Pending(worker[w])
    BY DEF IInv, TypeOK
  <2>2. CASE worker[w].pc = "idle"
    BY <2>2, <1>1 DEF Pending
  <2>3. CASE worker[w].pc # "idle"
    <3>1. worker[w].pc \in {"captured", "missed", "computed"}
      BY <2>1, <2>3 DEF WorkerState, Idle
    <3>2. worker[w].token \in Nat /\ worker[w].token <= generation
      BY <2>1, <2>3, <3>1, HeldRecords DEF Pending
    <3>3. worker[w].token <= generation' /\ worker[w].token # generation'
      BY <1>1, <1>2, <3>2
    <3> QED BY <1>1, <2>1, <3>3 DEF Pending
  <2> QED BY <2>2, <2>3
<1>6. generation' \in Nat /\ announced' \in Nat /\ announced' <= inputs'
  BY <1>1, <1>2
<1> QED BY <1>1, <1>2, <1>3, <1>4, <1>5, <1>6 DEF IInv, TypeOK

LEMMA ResizeSound ==
  ASSUME NEW s, StoreSound(s), NEW b \in Budgets
  PROVE  StoreSound(setBudget(s, b))
<1>1. Coherent(s, Key, Value) /\ b \in 0..MaxSize
  BY BudgetRange DEF StoreSound
<1>2. /\ Coherent(setBudget(s, b), Key, Value)
      /\ EntriesIn(setBudget(s, b)) \subseteq EntriesIn(s)
      /\ setBudget(s, b).budget = b
  BY <1>1, SetBudgetCoherent
<1> QED BY <1>2 DEF StoreSound

LEMMA SetByteBudgetKeeps ==
  ASSUME IInv, NEW st \in Stores, NEW b \in Budgets, SetByteBudget(st, b)
  PROVE  IInv'
<1>1. /\ store' = [store EXCEPT ![st] = setBudget(store[st], b)]
      /\ UNCHANGED <<generation, inputs, announced, worker>>
  BY DEF SetByteBudget, hostVars
<1>2. StoreSound(setBudget(store[st], b))
  BY ResizeSound DEF IInv
<1>3. store' \in [Stores -> Store(Key, Value)] /\ \A u \in Stores : StoreSound(store[u])'
  BY <1>1, <1>2, ReplaceStore
<1>4. \A w \in Workers : Pending(worker[w])'
  BY <1>1 DEF IInv, Pending
<1> QED BY <1>1, <1>3, <1>4 DEF IInv, TypeOK

LEMMA SetBudgetsKeeps ==
  ASSUME IInv, NEW b \in [Stores -> Budgets], SetBudgets(b)
  PROVE  IInv'
<1>1. /\ store' = [st \in Stores |-> setBudget(store[st], b[st])]
      /\ UNCHANGED <<generation, inputs, announced, worker>>
  BY DEF SetBudgets, hostVars
<1>2. \A st \in Stores : StoreSound(setBudget(store[st], b[st]))
  BY ResizeSound DEF IInv
<1>3. \A st \in Stores : setBudget(store[st], b[st]) \in Store(Key, Value)
  BY <1>2 DEF StoreSound, Coherent, Accounted
<1>4. store' \in [Stores -> Store(Key, Value)]
  BY <1>1, <1>3
<1>5. \A st \in Stores : store'[st] = setBudget(store[st], b[st])
  BY <1>1
<1>6. \A st \in Stores : StoreSound(store[st])'
  BY <1>1, <1>2, <1>5 DEF StoreSound, Good, ValueMatchesKey
<1>7. \A w \in Workers : Pending(worker[w])'
  BY <1>1 DEF IInv, Pending
<1> QED BY <1>1, <1>4, <1>6, <1>7 DEF IInv, TypeOK

-----------------------------------------------------------------------------
LEMMA InitSound == Init => IInv
<1> SUFFICES ASSUME Init PROVE IInv
  OBVIOUS
<1>1. \A b \in Budgets : StoreSound(EmptyStore(b)) /\ EmptyStore(b) \in Store(Key, Value)
  <2> TAKE b \in Budgets
  <2>1. Coherent(EmptyStore(b), Key, Value) /\ EntriesIn(EmptyStore(b)) = {}
    BY BudgetRange, EmptyCoherent
  <2> QED BY <2>1 DEF StoreSound, Coherent, Accounted, EmptyStore
<1>2. \A st \in Stores : \E b \in Budgets : store[st] = EmptyStore(b)
  BY DEF Init
<1>3. \A st \in Stores : StoreSound(store[st]) /\ store[st] \in Store(Key, Value)
  BY <1>1, <1>2
<1>4. store \in [Stores -> Store(Key, Value)]
  BY <1>3 DEF Init
<1>5. \A w \in Workers : worker[w] = Idle
  BY DEF Init
<1>6. \A w \in Workers : Pending(worker[w]) /\ worker[w] \in WorkerState
  BY <1>5 DEF Pending, Idle, WorkerState
<1>7. worker \in [Workers -> WorkerState]
  BY <1>6 DEF Init
<1> QED BY <1>3, <1>4, <1>6, <1>7 DEF Init, IInv, TypeOK

LEMMA StepSound == IInv /\ [Next]_vars => IInv'
<1> SUFFICES ASSUME IInv, [Next]_vars PROVE IInv'
  OBVIOUS
<1>1. ASSUME NEW w \in Workers, WorkerStep(w) PROVE IInv'
  BY <1>1, CaptureKeeps, LookupKeeps, ComputeKeeps, ComposeKeeps, PublishKeeps, PutKeeps
     DEF WorkerStep
<1>2. ASSUME HostStep PROVE IInv'
  BY <1>2, ChangeInputsKeeps, BumpGenerationKeeps, SetByteBudgetKeeps, SetBudgetsKeeps
     DEF HostStep
<1>3. CASE UNCHANGED vars
  <2>1. UNCHANGED <<generation, store, inputs, announced, worker>>
    BY <1>3 DEF vars
  <2>2. \A st \in Stores : StoreSound(store[st])'
    BY <2>1, SameStores
  <2>3. \A w \in Workers : Pending(worker[w])'
    BY <2>1 DEF IInv, Pending
  <2> QED BY <2>1, <2>2, <2>3 DEF IInv, TypeOK
<1> QED BY <1>1, <1>2, <1>3 DEF Next

(* The inductive invariant. *)
THEOREM Soundness == Spec => []IInv
BY InitSound, StepSound, PTL DEF Spec

(* Every variable keeps its type: no running total passes size_t, no thread *)
(* holds a malformed token.                                                 *)
THEOREM Typed == Spec => []TypeOK
<1>1. IInv => TypeOK
  BY DEF IInv
<1> QED BY <1>1, Soundness, PTL

(* No value made before the last bump is resident, whatever the number of  *)
(* render threads and the moment each of them captured, computed, composed *)
(* and published.                                                          *)
THEOREM NeverStale == Spec => []NoStaleResident
<1>1. IInv => NoStaleResident
  <2> SUFFICES ASSUME IInv, NEW st \in Stores, NEW e \in EntriesOf(st)
               PROVE  e.value.inputs >= announced
    BY DEF NoStaleResident
  <2>1. EntriesOf(st) = EntriesIn(store[st]) /\ store[st] \in Store(Key, Value)
    BY EntriesAgree DEF IInv, TypeOK
  <2>2. announced <= e.value.inputs
    BY <2>1 DEF IInv, StoreSound, Good
  <2> QED BY <2>2
<1> QED BY <1>1, Soundness, PTL

(* The hash index and the recency list never disagree. *)
THEOREM AlwaysCoherent == Spec => []IndexCoherent
<1>1. IInv => IndexCoherent
  <2> SUFFICES ASSUME IInv, NEW st \in Stores
               PROVE  LET order == store[st].order
                      IN  /\ store[st].index = {order[i].key : i \in DOMAIN order}
                          /\ \A i, j \in DOMAIN order : order[i].key = order[j].key => i = j
    BY DEF IndexCoherent
  <2>1. Accounted(store[st], Key, Value)
    BY DEF IInv, StoreSound, Coherent
  <2>2. DOMAIN store[st].order = 1..Len(store[st].order)
    BY <2>1, StoreParts DEF Accounted
  <2> QED BY <2>1, <2>2 DEF Accounted, KeysOf
<1> QED BY <1>1, Soundness, PTL

(* The running total is exact and within the budget, whatever the sequence  *)
(* of insertions, replacements, evictions and resizes.                      *)
THEOREM AlwaysWithinBudget == Spec => []ExactBudget
<1>1. IInv => ExactBudget
  BY DEF IInv, StoreSound, Coherent, Accounted, ExactBudget
<1> QED BY <1>1, Soundness, PTL

-----------------------------------------------------------------------------
(* The cache implements the forgetful map.  Every step takes entries away    *)
(* from the stores or adds at most one; a bump takes them all.               *)
SlotOf(st, e) == [at |-> st, key |-> e.key, value |-> e.value]

LEMMA SlotsAre ==
  ASSUME TypeOK
  PROVE  \A r : r \in Slots <=> \E st \in Stores : \E e \in EntriesIn(store[st]) : r = SlotOf(st, e)
BY EntriesAgree DEF Slots, SlotOf

LEMMA SlotsNext ==
  ASSUME TypeOK'
  PROVE  \A r : r \in Slots' <=>
           \E st \in Stores : \E e \in EntriesIn(store'[st]) : r = SlotOf(st, e)
<1>1. (\A r : r \in Slots <=>
        \E st \in Stores : \E e \in EntriesIn(store[st]) : r = SlotOf(st, e))'
  BY SlotsAre, PTL
<1> QED BY <1>1 DEF EntriesIn, SlotOf

LEMMA ForgetStep ==
  ASSUME TypeOK, TypeOK', UNCHANGED <<generation, inputs, announced>>,
         \A st \in Stores : EntriesIn(store'[st]) \subseteq EntriesIn(store[st])
  PROVE  Promise!Forget
<1>1. \A r : r \in Slots' <=>
        \E st \in Stores : \E e \in EntriesIn(store'[st]) : r = SlotOf(st, e)
  BY SlotsNext
<1>2. Slots' \subseteq Slots
  BY <1>1, SlotsAre
<1> QED BY <1>2 DEF Promise!Forget
LEMMA KeepStep ==
  ASSUME IInv, IInv', UNCHANGED <<generation, inputs, announced>>,
         NEW st \in Stores, NEW e,
         EntriesIn(store'[st]) \subseteq EntriesIn(store[st]) \cup {e},
         \A u \in Stores : u # st => store'[u] = store[u]
  PROVE  Promise!Next
<1>1. TypeOK /\ TypeOK'
  BY DEF IInv
<1>2. CASE e \notin EntriesIn(store'[st])
  <2>1. \A u \in Stores : EntriesIn(store'[u]) \subseteq EntriesIn(store[u])
    BY <1>2
  <2> QED BY <1>1, <2>1, ForgetStep DEF Promise!Next
<1>3. CASE e \in EntriesIn(store'[st])
  <2> DEFINE slot == SlotOf(st, e)
  <2>1. \A r : r \in Slots' <=>
          \E u \in Stores : \E x \in EntriesIn(store'[u]) : r = SlotOf(u, x)
    BY <1>1, SlotsNext
  <2>2. slot \in Slots'
    BY <1>3, <2>1
  <2>3. Accounted(store'[st], Key, Value) /\ Good(e)'
    <3>1. StoreSound(store[st])'
      BY DEF IInv
    <3>2. \A x \in EntriesIn(store'[st]) : Good(x)'
      BY <3>1 DEF StoreSound, EntriesIn, Good, ValueMatchesKey
    <3> QED BY <1>3, <3>1, <3>2 DEF StoreSound, Coherent, Accounted, KeysOf
  <2>4. Promise!Fresh(slot)
    BY <2>3 DEF Good, ValueMatchesKey, SlotOf, Promise!Fresh
  <2>5. \A x \in EntriesIn(store'[st]) : x # e => x.key # e.key
    BY <1>3, <2>3 DEF Accounted, EntriesIn
  <2>6. ASSUME NEW r \in Slots', r # slot
        PROVE  r \in Slots /\ (r.at # slot.at \/ r.key # slot.key)
    <3>1. PICK u \in Stores : \E x \in EntriesIn(store'[u]) : r = SlotOf(u, x)
      BY <2>1
    <3>0. PICK x \in EntriesIn(store'[u]) : r = SlotOf(u, x)
      BY <3>1
    <3>2. CASE u # st
      <4>1. x \in EntriesIn(store[u])
        BY <3>2
      <4>2. r \in Slots
        BY <3>0, <4>1, <1>1, SlotsAre
      <4> QED BY <3>0, <3>2, <4>2 DEF SlotOf
    <3>3. CASE u = st
      <4>1. x # e
        BY <2>6, <3>0, <3>3
      <4>2. x \in EntriesIn(store[st]) /\ x.key # e.key
        BY <3>3, <4>1, <2>5
      <4>3. r \in Slots
        BY <3>0, <3>3, <4>2, <1>1, SlotsAre
      <4> QED BY <3>0, <4>2, <4>3 DEF SlotOf
    <3> QED BY <3>2, <3>3
  <2> HIDE DEF slot
  <2>7. Promise!Keep(slot)
    BY <2>4, <2>6 DEF Promise!Keep
  <2> QED BY <2>2, <2>7 DEF Promise!Next
<1> QED BY <1>2, <1>3

LEMMA InsertAdds ==
  ASSUME NEW s, StoreSound(s), NEW key \in Key, NEW value \in Value,
         NEW bytes \in 0..MaxSize
  PROVE  \E e : EntriesIn(put(s, key, value, bytes).store) \subseteq EntriesIn(s) \cup {e}
<1>1. 2 * s.budget <= MaxSize /\ Coherent(s, Key, Value)
  BY BudgetRange DEF StoreSound
<1> QED BY <1>1, PutCoherent

LEMMA FinishMaps ==
  ASSUME IInv, IInv', NEW w \in Workers, worker[w].pc = "computed",
         UNCHANGED <<generation, inputs, announced>>,
         \/ store' = store
         \/ /\ worker[w].token = generation
            /\ store' = [store EXCEPT ![worker[w].at] =
                  Insert(worker[w].at, KeyOf(w, worker[w].token), worker[w].value).store]
  PROVE  Promise!Next
<1> DEFINE st == worker[w].at
           key == KeyOf(w, worker[w].token)
           value == worker[w].value
           bytes == IF ValueMatchesKey(key, value) THEN byteSize(value) ELSE 0
           t == put(store[st], key, value, bytes).store
<1>0. TypeOK /\ TypeOK'
  BY DEF IInv
<1>1. CASE store' = store
  BY <1>0, <1>1, ForgetStep DEF Promise!Next
<1>2. CASE store' = [store EXCEPT ![worker[w].at] =
                  Insert(worker[w].at, KeyOf(w, worker[w].token), worker[w].value).store]
  <2>1. worker[w] \in WorkerState /\ store \in [Stores -> Store(Key, Value)]
    BY DEF IInv, TypeOK
  <2>2. worker[w].token \in Nat /\ st \in Stores /\ worker[w].id \in Ids /\ value \in Value
    BY <2>1, HeldRecords
  <2>3. key \in Key
    BY <2>2 DEF Key, KeyOf
  <2>4. bytes \in 0..MaxSize
    BY <2>2, ValueBytes
  <2>5. StoreSound(store[st])
    BY <2>2 DEF IInv
  <2>6. store' = [store EXCEPT ![st] = t]
    BY <1>2 DEF Insert
  <2> HIDE DEF key, value, st, bytes
  <2>7. PICK e : EntriesIn(t) \subseteq EntriesIn(store[st]) \cup {e}
    BY <2>2, <2>3, <2>4, <2>5, InsertAdds
  <2>8. store'[st] = t /\ \A u \in Stores : u # st => store'[u] = store[u]
    BY <2>1, <2>2, <2>6
  <2> HIDE DEF t
  <2> QED BY <2>2, <2>7, <2>8, KeepStep
<1> QED BY <1>1, <1>2

(* A store replaced by one that holds nothing new. *)
LEMMA ShrinkMaps ==
  ASSUME IInv, IInv', UNCHANGED <<generation, inputs, announced>>, NEW st \in Stores, NEW t,
         store' = [store EXCEPT ![st] = t], EntriesIn(t) \subseteq EntriesIn(store[st])
  PROVE  Promise!Next
<1>1. TypeOK /\ TypeOK' /\ store \in [Stores -> Store(Key, Value)]
  BY DEF IInv, TypeOK
<1>2. \A u \in Stores : EntriesIn(store'[u]) \subseteq EntriesIn(store[u])
  BY <1>1
<1> QED BY <1>1, <1>2, ForgetStep DEF Promise!Next

LEMMA WorkerMaps ==
  ASSUME IInv, IInv', NEW w \in Workers, WorkerStep(w)
  PROVE  Promise!Next
<1>0. TypeOK /\ TypeOK' /\ worker[w] \in WorkerState /\ store \in [Stores -> Store(Key, Value)]
  BY DEF IInv, TypeOK
<1>1. ASSUME store' = store, UNCHANGED <<generation, inputs, announced>> PROVE Promise!Next
  BY <1>0, <1>1, ForgetStep DEF Promise!Next
<1>2. CASE \E st \in Stores, id \in Ids : Capture(w, st, id)
  BY <1>1, <1>2 DEF Capture, hostVars
<1>3. CASE Compute(w)
  BY <1>1, <1>3 DEF Compute, hostVars
<1>4. CASE Lookup(w)
  <2> DEFINE st == worker[w].at
             key == KeyOf(w, worker[w].token)
  <2>1. worker[w].pc = "captured" /\ UNCHANGED <<generation, inputs, announced>>
    BY <1>4 DEF Lookup, hostVars
  <2>2. st \in Stores
    BY <1>0, <2>1, HeldRecords
  <2>3. CASE key.generation = generation
    <3>1. store' = [store EXCEPT ![st] = Touched(store[st], key)]
      BY <1>4, <2>3 DEF Lookup
    <3>2. Coherent(store[st], Key, Value)
      BY <2>2 DEF IInv, StoreSound
    <3> HIDE DEF st, key
    <3>3. EntriesIn(Touched(store[st], key)) \subseteq EntriesIn(store[st])
      BY <3>2, TouchedCoherent
    <3> QED BY <2>1, <2>2, <3>1, <3>3, ShrinkMaps
  <2>4. CASE key.generation # generation
    <3>1. store' = store
      BY <1>4, <2>4 DEF Lookup
    <3> QED BY <1>1, <2>1, <3>1
  <2> QED BY <2>3, <2>4
<1>5. ASSUME NEW id \in Ids, Compose(w, id) PROVE Promise!Next
  <2> DEFINE link == [id |-> id, generation |-> worker[w].token]
  <2>1. /\ store' = [store EXCEPT !["pairwise"] = Touched(store["pairwise"], link)]
        /\ UNCHANGED <<generation, inputs, announced>>
    BY <1>5 DEF Compose, hostVars
  <2>2. "pairwise" \in Stores
    BY DEF Stores
  <2>3. Coherent(store["pairwise"], Key, Value)
    BY <2>2 DEF IInv, StoreSound
  <2> HIDE DEF link
  <2>4. EntriesIn(Touched(store["pairwise"], link)) \subseteq EntriesIn(store["pairwise"])
    BY <2>3, TouchedCoherent
  <2> QED BY <2>1, <2>2, <2>4, ShrinkMaps
<1>6. ASSUME NEW g, Publish(w, g) PROVE Promise!Next
  <2>1. worker[w].pc = "computed" /\ UNCHANGED <<generation, inputs, announced>>
    BY <1>6 DEF Publish, hostVars
  <2>2. CASE ~Accepts(worker[w].token, KeyOf(w, g))
    BY <1>1, <1>6, <2>1, <2>2 DEF Publish
  <2>3. CASE Accepts(worker[w].token, KeyOf(w, g))
    <3>1. worker[w].token = generation /\ g = worker[w].token
      BY <2>3 DEF Accepts, KeyOf
    <3>2. store' = [store EXCEPT ![worker[w].at] =
                      Insert(worker[w].at, KeyOf(w, g), worker[w].value).store]
      BY <1>6, <2>3 DEF Publish
    <3>3. store' = [store EXCEPT ![worker[w].at] =
                      Insert(worker[w].at, KeyOf(w, worker[w].token), worker[w].value).store]
      BY <3>1, <3>2
    <3> QED BY <2>1, <3>1, <3>3, FinishMaps
  <2> QED BY <2>2, <2>3
<1>7. CASE Put(w)
  <2>1. /\ worker[w].pc = "computed" /\ UNCHANGED <<generation, inputs, announced>>
        /\ KeyOf(w, worker[w].token).generation = worker[w].token
    BY <1>7 DEF Put, hostVars, KeyOf
  <2>2. CASE worker[w].token # generation
    BY <1>1, <1>7, <2>1, <2>2 DEF Put
  <2>3. CASE worker[w].token = generation
    <3>1. store' = [store EXCEPT ![worker[w].at] =
                      Insert(worker[w].at, KeyOf(w, worker[w].token), worker[w].value).store]
      BY <1>7, <2>1, <2>3 DEF Put
    <3> QED BY <2>1, <2>3, <3>1, FinishMaps
  <2> QED BY <2>2, <2>3
<1> QED BY <1>2, <1>3, <1>4, <1>5, <1>6, <1>7 DEF WorkerStep

LEMMA HostMaps ==
  ASSUME IInv, IInv', HostStep
  PROVE  Promise!Next
<1>0. TypeOK /\ TypeOK' /\ store \in [Stores -> Store(Key, Value)]
  BY DEF IInv, TypeOK
<1>1. CASE ChangeInputs
  <2>1. inputs' = inputs + 1 /\ UNCHANGED <<generation, store, announced>>
    BY <1>1 DEF ChangeInputs
  <2>2. Slots' = Slots
    BY <2>1 DEF Slots, EntriesOf
  <2> QED BY <2>1, <2>2 DEF Promise!Next, Promise!Change
<1>2. CASE BumpGeneration
  <2>1. /\ generation' = generation + 1 /\ announced' = inputs /\ UNCHANGED inputs
        /\ store' = [st \in Stores |-> clear(store[st])]
    BY <1>2 DEF BumpGeneration
  <2>2. \A st \in Stores : EntriesIn(store'[st]) = {}
    <3> TAKE st \in Stores
    <3>1. Coherent(store[st], Key, Value)
      BY DEF IInv, StoreSound
    <3> QED BY <2>1, <3>1, ClearCoherent
  <2>3. Slots' = {}
    BY <1>0, <2>2, SlotsNext
  <2> QED BY <2>1, <2>3 DEF Promise!Next, Promise!Invalidate
<1>3. ASSUME NEW st \in Stores, NEW b \in Budgets, SetByteBudget(st, b) PROVE Promise!Next
  <2>1. /\ store' = [store EXCEPT ![st] = setBudget(store[st], b)]
        /\ UNCHANGED <<generation, inputs, announced>>
    BY <1>3 DEF SetByteBudget, hostVars
  <2>2. EntriesIn(setBudget(store[st], b)) \subseteq EntriesIn(store[st])
    BY SetBudgetCoherent, BudgetRange DEF IInv, StoreSound
  <2> QED BY <2>1, <2>2, ShrinkMaps
<1>4. ASSUME NEW b \in [Stores -> Budgets], SetBudgets(b) PROVE Promise!Next
  <2>1. /\ store' = [st \in Stores |-> setBudget(store[st], b[st])]
        /\ UNCHANGED <<generation, inputs, announced>>
    BY <1>4 DEF SetBudgets, hostVars
  <2>2. \A st \in Stores : EntriesIn(store'[st]) \subseteq EntriesIn(store[st])
    <3> TAKE st \in Stores
    <3>1. Coherent(store[st], Key, Value) /\ b[st] \in Budgets
      BY DEF IInv, StoreSound
    <3> HIDE DEF StoreSound
    <3>2. EntriesIn(setBudget(store[st], b[st])) \subseteq EntriesIn(store[st])
      BY <3>1, SetBudgetCoherent, BudgetRange
    <3> QED BY <2>1, <3>2
  <2> QED BY <1>0, <2>1, <2>2, ForgetStep DEF Promise!Next
<1> QED BY <1>1, <1>2, <1>3, <1>4 DEF HostStep

(* The detailed cache, with its keys, lists, budgets and publication guard,  *)
(* implements the forgetful map: what is kept is a fresh value of its key.   *)
THEOREM Implements == Spec => KeepsPromise
<1>1. Init => Promise!Init
  <2> SUFFICES ASSUME Init PROVE Promise!Init
    OBVIOUS
  <2>1. \A st \in Stores : EntriesOf(st) = {}
    BY DEF Init, EmptyStore, EntriesOf
  <2>2. Slots = {}
    BY <2>1 DEF Slots
  <2> QED BY <2>2 DEF Init, Promise!Init
<1>2. IInv /\ IInv' /\ [Next]_vars => [Promise!Next]_(Promise!promised)
  <2> SUFFICES ASSUME IInv, IInv', [Next]_vars PROVE [Promise!Next]_(Promise!promised)
    OBVIOUS
  <2>1. CASE UNCHANGED vars
    BY <2>1 DEF vars, Promise!promised, Slots, EntriesOf
  <2>2. CASE Next
    BY <2>2, WorkerMaps, HostMaps DEF Next
  <2> QED BY <2>1, <2>2
<1> QED BY <1>1, <1>2, Soundness, PTL DEF Spec, KeepsPromise, Promise!Spec

-----------------------------------------------------------------------------
(* Eviction.  Sparing says a store lost no more than it may; Took is that of *)
(* EvictsAsPromised for a store.                                             *)
Took(st) ==
  LET order   == store[st].order
      Left(i) == order[i].key \notin store'[st].index
      victims == {i \in DOMAIN order : Left(i) /\ ~Replaced(st, order[i].key)}
  IN  /\ \A i \in victims, j \in DOMAIN order :
           i < j => Left(j) \/ Replaced(st, order[j].key)
      /\ victims # {} =>
           store'[st].bytes + order[Min(victims)].bytes > store'[st].budget

Sparing(st) ==
  \E X : /\ Spares(store[st], store'[st], X)
         /\ \A k \in store[st].index : k \in X <=> Replaced(st, k)

LEMMA SparingTook ==
  ASSUME IInv, NEW st \in Stores, Sparing(st)
  PROVE  Took(st)
<1> DEFINE s == store[st]
           t == store'[st]
           order == s.order
           L == Len(order)
           gone == {i \in DOMAIN order : order[i].key \notin t.index /\ ~Replaced(st, order[i].key)}
<1>1. PICK X : Spares(s, t, X) /\ \A k \in s.index : k \in X <=> Replaced(st, k)
  BY DEF Sparing
<1>2. L \in Nat /\ DOMAIN order = 1..L /\ \A i \in 1..L : order[i].key \in s.index
  BY StoreParts DEF IInv, StoreSound, Coherent, Accounted, KeysOf
<1>3. gone = Victims(s, t, X)
  BY <1>1, <1>2 DEF Victims, Lost
<1>4. ASSUME NEW i \in gone, NEW j \in DOMAIN order, i < j
      PROVE  order[j].key \notin t.index \/ Replaced(st, order[j].key)
  <2>1. Lost(s, t, j) \/ order[j].key \in X
    BY <1>1, <1>2, <1>3, <1>4 DEF Spares
  <2> QED BY <2>1, <1>1, <1>2 DEF Lost
<1>5. ASSUME gone # {} PROVE t.bytes + order[Min(gone)].bytes > t.budget
  <2>1. gone \in SUBSET Nat
    BY <1>2
  <2> HIDE DEF gone
  <2>2. \E i \in gone : \A j \in gone : i <= j
    BY <1>5, <2>1, LeastElement
  <2>3. Min(gone) \in gone /\ \A j \in gone : Min(gone) <= j
    BY <2>2 DEF Min
  <2> QED BY <2>3, <1>1, <1>3 DEF Spares
<1> HIDE DEF gone
<1>6. /\ \A i \in gone, j \in DOMAIN order :
           i < j => order[j].key \notin t.index \/ Replaced(st, order[j].key)
      /\ gone # {} => t.bytes + order[Min(gone)].bytes > t.budget
  BY <1>4, <1>5
<1> QED BY <1>6 DEF Took, gone

LEMMA SameSpares ==
  ASSUME IInv, NEW st \in Stores, store'[st] = store[st]
  PROVE  Sparing(st)
<1> DEFINE X == {k \in store[st].index : Replaced(st, k)}
<1>1. Accounted(store[st], Key, Value)
  BY DEF IInv, StoreSound, Coherent
<1>2. Spares(store[st], store'[st], X)
  <2> HIDE DEF X
  <2> QED BY <1>1, NoVictims
<1> QED BY <1>2 DEF Sparing

(* A step that finishes no thread, and spares in the store it changes. *)
LEMMA OneSpares ==
  ASSUME IInv, NEW u \in Stores, NEW s, store' = [store EXCEPT ![u] = s],
         Spares(store[u], s, {}),
         \A w \in Workers : worker[w].pc = "computed" => worker'[w] = worker[w],
         NEW st \in Stores
  PROVE  Sparing(st)
<1>1. \A k : ~Replaced(st, k)
  BY DEF Replaced
<1>2. store'[st] = IF st = u THEN s ELSE store[st]
  BY DEF IInv, TypeOK
<1>3. CASE st = u
  <2>1. Spares(store[st], store'[st], {})
    BY <1>2, <1>3
  <2> QED BY <1>1, <2>1 DEF Sparing
<1>4. CASE st # u
  BY <1>2, <1>4, SameSpares
<1> QED BY <1>3, <1>4

(* A step of one thread leaves what the others hold. *)
LEMMA OthersHold ==
  ASSUME IInv, NEW w \in Workers, worker[w].pc # "computed",
         NEW r, worker' = [worker EXCEPT ![w] = r]
  PROVE  \A v \in Workers : worker[v].pc = "computed" => worker'[v] = worker[v]
BY DEF IInv, TypeOK

LEMMA ResizeSpares ==
  ASSUME IInv, NEW st \in Stores, NEW b \in Budgets
  PROVE  Spares(store[st], setBudget(store[st], b), {})
<1>1. Coherent(store[st], Key, Value) /\ b \in 0..MaxSize
  BY BudgetRange DEF IInv, StoreSound
<1>2. \A i \in 1..Len(store[st].order) : store[st].order[i].bytes > 0
  BY DEF IInv, StoreSound, Good, EntriesIn
<1> QED BY <1>1, <1>2, SetBudgetSpares

(* Of the keys that are resident the thread replaces the one it inserts. *)
LEMMA FinishSpares ==
  ASSUME IInv, NEW w \in Workers, worker[w].pc = "computed", worker' = Finished(w),
         \/ store' = store
         \/ /\ worker[w].token = generation
            /\ store' = [store EXCEPT ![worker[w].at] =
                  Insert(worker[w].at, KeyOf(w, worker[w].token), worker[w].value).store],
         NEW st \in Stores
  PROVE  Sparing(st)
<1> DEFINE u == worker[w].at
           key == KeyOf(w, worker[w].token)
           value == worker[w].value
           bytes == IF ValueMatchesKey(key, value) THEN byteSize(value) ELSE 0
<1>1. worker[w] \in WorkerState /\ store \in [Stores -> Store(Key, Value)]
      /\ worker \in [Workers -> WorkerState] /\ generation \in Nat
  BY DEF IInv, TypeOK
<1>2. u \in Stores /\ worker[w].id \in Ids /\ worker[w].token \in Nat /\ value \in Value
  BY <1>1, HeldRecords
<1>3. CASE store'[st] = store[st]
  BY <1>3, SameSpares
<1>4. CASE store'[st] # store[st]
  <2>1. /\ st = u /\ worker[w].token = generation
        /\ store'[st] = put(store[st], key, value, bytes).store
    BY <1>1, <1>2, <1>4 DEF Insert
  <2>2. key \in Key /\ bytes \in 0..MaxSize
    BY <1>2, ValueBytes DEF KeyOf, Key
  <2>3. Coherent(store[st], Key, Value) /\ 2 * store[st].budget <= MaxSize
    BY BudgetRange DEF IInv, StoreSound
  <2> HIDE DEF key, value, bytes
  <2>4. Spares(store[st], store'[st], {key})
    <3>1. Spares(store[st], put(store[st], key, value, bytes).store, {key})
      BY <1>2, <2>2, <2>3, PutSpares
    <3> QED BY <3>1, <2>1
  <2>5. ASSUME NEW k \in store[st].index PROVE k \in {key} <=> Replaced(st, k)
    <3>1. k \in Key /\ k.generation = generation
      <4>1. Accounted(store[st], Key, Value) /\ \A e \in EntriesIn(store[st]) : Good(e)
        BY DEF IInv, StoreSound, Coherent
      <4>2. PICK i \in 1..Len(store[st].order) : k = store[st].order[i].key
        BY <4>1 DEF Accounted, KeysOf
      <4>3. Good(store[st].order[i])
        BY <4>1, <4>2 DEF EntriesIn
      <4>4. k \in Key
        BY <4>1, StoreParts DEF Accounted
      <4> QED BY <4>2, <4>3, <4>4 DEF Good
    <3>2. key = [id |-> worker[w].id, generation |-> generation]
      BY <2>1 DEF key, KeyOf
    <3>3. k = key <=> k.id = worker[w].id
      BY <3>1, <3>2 DEF Key
    <3>4. Replaced(st, k) <=> worker[w].id = k.id
      <4>1. \A v \in Workers : v # w => worker'[v] = worker[v]
        BY <1>1 DEF Finished
      <4>2. worker'[w] = Idle /\ Idle.pc = "idle"
        BY <1>1 DEF Finished, Idle
      <4> QED BY <4>1, <4>2, <2>1 DEF Replaced
    <3> QED BY <3>3, <3>4
  <2> QED BY <2>4, <2>5 DEF Sparing
<1> QED BY <1>3, <1>4

LEMMA WorkerSpares ==
  ASSUME IInv, NEW w \in Workers, WorkerStep(w), NEW st \in Stores
  PROVE  Sparing(st)
<1>1. CASE \E at \in Stores, id \in Ids : Capture(w, at, id)
  BY <1>1, SameSpares DEF Capture
<1>2. CASE Lookup(w)
  <2> DEFINE u == worker[w].at
             key == KeyOf(w, worker[w].token)
  <2>1. worker[w].pc = "captured" /\ worker[w] \in WorkerState
    BY <1>2 DEF Lookup, IInv, TypeOK
  <2>2. u \in Stores
    BY <2>1, HeldRecords
  <2>3. PICK r : worker' = [worker EXCEPT ![w] = r]
    BY <1>2 DEF Lookup
  <2>4. CASE key.generation = generation
    <3>1. store' = [store EXCEPT ![u] = Touched(store[u], key)]
      BY <1>2, <2>4 DEF Lookup
    <3>2. Coherent(store[u], Key, Value)
      BY <2>2 DEF IInv, StoreSound
    <3> HIDE DEF u, key
    <3>3. Spares(store[u], Touched(store[u], key), {})
      BY <3>2, TouchedSpares
    <3>4. \A v \in Workers : worker[v].pc = "computed" => worker'[v] = worker[v]
      BY <2>1, <2>3, OthersHold
    <3> QED BY <2>2, <3>1, <3>3, <3>4, OneSpares
  <2>5. CASE key.generation # generation
    BY <1>2, <2>5, SameSpares DEF Lookup
  <2> QED BY <2>4, <2>5
<1>3. CASE Compute(w)
  BY <1>3, SameSpares DEF Compute
<1>4. ASSUME NEW id \in Ids, Compose(w, id) PROVE Sparing(st)
  <2> DEFINE link == [id |-> id, generation |-> worker[w].token]
             u == "pairwise"
  <2>1. /\ store' = [store EXCEPT ![u] = Touched(store[u], link)]
        /\ worker[w].pc = "missed"
        /\ \E r : worker' = [worker EXCEPT ![w] = r]
    BY <1>4 DEF Compose
  <2>2. u \in Stores
    BY DEF Stores
  <2>3. Coherent(store[u], Key, Value)
    BY <2>2 DEF IInv, StoreSound
  <2> HIDE DEF link, u
  <2>4. Spares(store[u], Touched(store[u], link), {})
    BY <2>3, TouchedSpares
  <2>5. \A v \in Workers : worker[v].pc = "computed" => worker'[v] = worker[v]
    BY <2>1, OthersHold
  <2> QED BY <2>1, <2>2, <2>4, <2>5, OneSpares
<1>5. ASSUME NEW g, Publish(w, g) PROVE Sparing(st)
  <2>1. worker[w].pc = "computed" /\ worker' = Finished(w)
    BY <1>5 DEF Publish
  <2>2. CASE ~Accepts(worker[w].token, KeyOf(w, g))
    BY <1>5, <2>2, SameSpares DEF Publish
  <2>3. CASE Accepts(worker[w].token, KeyOf(w, g))
    <3>1. worker[w].token = generation /\ g = worker[w].token
      BY <2>3 DEF Accepts, KeyOf
    <3>2. store' = [store EXCEPT ![worker[w].at] =
                      Insert(worker[w].at, KeyOf(w, g), worker[w].value).store]
      BY <1>5, <2>3 DEF Publish
    <3>3. store' = [store EXCEPT ![worker[w].at] =
                      Insert(worker[w].at, KeyOf(w, worker[w].token), worker[w].value).store]
      BY <3>1, <3>2
    <3> QED BY <2>1, <3>1, <3>3, FinishSpares
  <2> QED BY <2>2, <2>3
<1>6. CASE Put(w)
  <2>1. /\ worker[w].pc = "computed" /\ worker' = Finished(w)
        /\ KeyOf(w, worker[w].token).generation = worker[w].token
    BY <1>6 DEF Put, KeyOf
  <2>2. CASE worker[w].token # generation
    BY <1>6, <2>1, <2>2, SameSpares DEF Put
  <2>3. CASE worker[w].token = generation
    <3>1. store' = [store EXCEPT ![worker[w].at] =
                      Insert(worker[w].at, KeyOf(w, worker[w].token), worker[w].value).store]
      BY <1>6, <2>1, <2>3 DEF Put
    <3> QED BY <2>1, <2>3, <3>1, FinishSpares
  <2> QED BY <2>2, <2>3
<1> QED BY <1>1, <1>2, <1>3, <1>4, <1>5, <1>6 DEF WorkerStep

LEMMA HostSpares ==
  ASSUME IInv, HostStep, generation' = generation, NEW st \in Stores
  PROVE  Sparing(st)
<1>1. CASE ChangeInputs
  BY <1>1, SameSpares DEF ChangeInputs
<1>2. CASE BumpGeneration
  BY <1>2 DEF BumpGeneration, IInv, TypeOK
<1>3. ASSUME NEW u \in Stores, NEW b \in Budgets, SetByteBudget(u, b) PROVE Sparing(st)
  <2>1. store' = [store EXCEPT ![u] = setBudget(store[u], b)] /\ worker' = worker
    BY <1>3 DEF SetByteBudget
  <2>2. Spares(store[u], setBudget(store[u], b), {})
    BY ResizeSpares
  <2> QED BY <2>1, <2>2, OneSpares
<1>4. ASSUME NEW b \in [Stores -> Budgets], SetBudgets(b) PROVE Sparing(st)
  <2>1. store'[st] = setBudget(store[st], b[st]) /\ worker' = worker /\ b[st] \in Budgets
    BY <1>4 DEF SetBudgets
  <2>2. Spares(store[st], store'[st], {})
    BY <2>1, ResizeSpares
  <2>3. \A k : ~Replaced(st, k)
    BY <2>1 DEF Replaced
  <2> QED BY <2>2, <2>3 DEF Sparing
<1> QED BY <1>1, <1>2, <1>3, <1>4 DEF HostStep

(* Within a generation a store gives up an entry only to a thread that puts  *)
(* another under its key, or to the budget: then the least recently used go  *)
(* and no more of them than must (evictToFit, put, setByteBudget).           *)
THEOREM AlwaysEvictsAsPromised == Spec => EvictsAsPromised
<1> DEFINE Evicts == generation' = generation => \A st \in Stores : Took(st)
<1>1. IInv /\ [Next]_vars => [Evicts]_vars
  <2> SUFFICES ASSUME IInv, Next, generation' = generation, NEW st \in Stores PROVE Took(st)
    OBVIOUS
  <2>1. Sparing(st)
    BY WorkerSpares, HostSpares DEF Next
  <2> QED BY <2>1, SparingTook
<1> QED BY <1>1, Soundness, PTL DEF Spec, EvictsAsPromised, Took
=============================================================================
