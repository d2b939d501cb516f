-------------------------- MODULE AesdChar_proofs --------------------------
(***************************************************************************)
(* The ring, for every size, every set of pointers and every set of entry  *)
(* sizes: its offsets stay consistent, and it implements the bounded log.  *)
(*                                                                         *)
(* The driver, for any number of open files, blocks and slots, any data    *)
(* written and any sizes read, whatever allocation or copy fails: its      *)
(* variables keep their types, driver_lock lets one call in at a time,     *)
(* memory is owned and given back, the ring keeps its invariant and its    *)
(* log, and the device is the list of lines of LineDevice.                 *)
(***************************************************************************)
EXTENDS AesdChar, SequenceTheorems, WellFoundedInduction, TLAPS

-----------------------------------------------------------------------------
(***************************************************************************)
(* What a recursive function over 0 .. N computes: running totals and      *)
(* running concatenations.  The model uses such functions for the bytes  *)
(* before a slot or a line, and for the file a device stands for.          *)
(*                                                                         *)
(* Induction is by the least element of a set of naturals, which the       *)
(* library's theorems on well-founded relations give without a predicate   *)
(* as a parameter.                                                         *)
(***************************************************************************)
LEMMA Least ==
    ASSUME NEW T \in SUBSET Nat, T # {}
    PROVE  \E n \in T : \A m \in T : n <= m
<1> DEFINE R == OpToRel(<, Nat)
<1>1. IsWellFoundedOn(R, Nat)
  BY NatLessThanWellFounded, Zenon
<1>2. \A x, y \in Nat : y < x => <<y, x>> \in R
  BY Zenon DEF OpToRel
<1> HIDE DEF R
<1>3. PICK n \in T : \A m \in T : <<m, n>> \notin R
  BY <1>1, WFMin, Zenon
<1>4. \A m \in T : ~(m < n)
  BY <1>2, <1>3, Zenon
<1> QED  BY <1>4

(***************************************************************************)
(* T has 0, and with n < N also n + 1.                                     *)
(***************************************************************************)
Climbs(T, N) == 0 \in T /\ \A n \in 0 .. N : n < N /\ n \in T => n + 1 \in T

LEMMA Climb ==
    ASSUME NEW N \in Nat, NEW T, Climbs(T, N)
    PROVE  0 .. N \subseteq T
<1> DEFINE C == {n \in 0 .. N : n \notin T}
<1> SUFFICES ASSUME C # {} PROVE FALSE
  OBVIOUS
<1>1. PICK n \in C : \A m \in C : n <= m
  <2>1. C \in SUBSET Nat
    OBVIOUS
  <2> HIDE DEF C
  <2> QED  BY <2>1, Least
<1> QED  BY <1>1 DEF Climbs

(***************************************************************************)
(* f[k] is z after the first k of N steps; step k is the function g[k].    *)
(***************************************************************************)
IsFold(f, B, z, N, g) ==
    f \in [0 .. N -> B] /\ f[0] = z /\ \A k \in 1 .. N : f[k] = g[k][f[k - 1]]

LEMMA FoldExists ==
    ASSUME NEW B, NEW z \in B, NEW N \in Nat, NEW g \in [1 .. N -> [B -> B]]
    PROVE  \E f : IsFold(f, B, z, N, g)
<1> DEFINE Good(n) == \E f : IsFold(f, B, z, n, g)
           T == {n \in 0 .. N : Good(n)}
<1>1. 0 \in T
  <2> DEFINE f == [k \in 0 .. 0 |-> z]
  <2>1. f \in [0 .. 0 -> B] /\ f[0] = z /\ 1 .. 0 = {}
    OBVIOUS
  <2> HIDE DEF f
  <2>2. IsFold(f, B, z, 0, g)
    BY <2>1 DEF IsFold
  <2> QED  BY <2>2
<1>2. ASSUME NEW n \in 0 .. N, n < N, n \in T PROVE n + 1 \in T
  <2>1. PICK f : IsFold(f, B, z, n, g)
    BY <1>2
  <2> DEFINE h == [k \in 0 .. n + 1 |-> IF k = n + 1 THEN g[n + 1][f[n]] ELSE f[k]]
  <2>2. h \in [0 .. n + 1 -> B]
    BY <1>2, <2>1 DEF IsFold
  <2>3. h[0] = z /\ \A k \in 1 .. n + 1 : h[k] = g[k][h[k - 1]]
    BY <1>2, <2>1 DEF IsFold
  <2> HIDE DEF h
  <2>4. IsFold(h, B, z, n + 1, g)
    BY <2>2, <2>3 DEF IsFold
  <2> QED  BY <1>2, <2>4
<1>3. N \in T
  <2> HIDE DEF T
  <2>1. Climbs(T, N)
    BY <1>1, <1>2 DEF Climbs
  <2> QED  BY <2>1, Climb
<1> QED  BY <1>3

-----------------------------------------------------------------------------
(***************************************************************************)
(* Running totals of N numbers, and the equation that defines them.        *)
(***************************************************************************)
Sums(f, a, N) ==
    f \in [0 .. N -> Nat] /\ f[0] = 0 /\ \A k \in 1 .. N : f[k] = f[k - 1] + a[k]

SumEquation(f, a, N) == f = [j \in 0 .. N |-> IF j = 0 THEN 0 ELSE f[j - 1] + a[j]]

LEMMA SumsExist ==
    ASSUME NEW N \in Nat, NEW a \in [1 .. N -> Nat]
    PROVE  \E f : Sums(f, a, N) /\ SumEquation(f, a, N)
<1> DEFINE g == [k \in 1 .. N |-> [x \in Nat |-> x + a[k]]]
<1>1. g \in [1 .. N -> [Nat -> Nat]]
  OBVIOUS
<1>2. \A k \in 1 .. N : \A x \in Nat : g[k][x] = x + a[k]
  OBVIOUS
<1> HIDE DEF g
<1>3. PICK f : IsFold(f, Nat, 0, N, g)
  BY <1>1, FoldExists
<1>4. f \in [0 .. N -> Nat] /\ f[0] = 0 /\ \A k \in 1 .. N : f[k] = g[k][f[k - 1]]
  BY <1>3 DEF IsFold
<1>5. ASSUME NEW k \in 1 .. N PROVE f[k] = f[k - 1] + a[k]
  <2>1. f[k - 1] \in Nat /\ f[k] = g[k][f[k - 1]]
    BY <1>4
  <2> QED  BY <1>2, <2>1
<1>6. SumEquation(f, a, N)
  BY <1>4, <1>5 DEF SumEquation
<1> QED  BY <1>4, <1>5, <1>6 DEF Sums

LEMMA SumsSolve ==
    ASSUME NEW N \in Nat, NEW a \in [1 .. N -> Nat], NEW s, SumEquation(s, a, N)
    PROVE  Sums(s, a, N)
<1>0. PICK f : Sums(f, a, N)
  BY SumsExist
<1> DEFINE T == {j \in 0 .. N : s[j] = f[j]}
<1>1. DOMAIN s = 0 .. N /\ s[0] = 0 /\ \A j \in 1 .. N : s[j] = s[j - 1] + a[j]
  BY DEF SumEquation
<1>2. 0 \in T /\ \A j \in 0 .. N : j < N /\ j \in T => j + 1 \in T
  BY <1>0, <1>1 DEF Sums
<1>3. 0 .. N \subseteq T
  <2> HIDE DEF T
  <2> QED  BY <1>2, Climb DEF Climbs
<1>4. \A j \in 0 .. N : s[j] = f[j]
  BY <1>3
<1>5. s = [j \in 0 .. N |-> s[j]] /\ f = [j \in 0 .. N |-> f[j]]
  BY <1>0 DEF Sums, SumEquation
<1>6. s = f
  BY <1>4, <1>5
<1> QED  BY <1>0, <1>6

Agree(a, b, N) == \A k \in 1 .. N : a[k] = b[k]

LEMMA SumsAgree ==
    ASSUME NEW N \in Nat, NEW M \in Nat, N <= M,
           NEW a, NEW f, Sums(f, a, N), NEW b, NEW h, Sums(h, b, M),
           Agree(a, b, N),
           NEW n \in 0 .. N
    PROVE  f[n] = h[n]
<1> DEFINE T == {j \in 0 .. N : f[j] = h[j]}
<1>1. 0 \in T
  BY DEF Sums
<1>2. ASSUME NEW j \in 0 .. N, j < N, j \in T PROVE j + 1 \in T
  <2>1. j + 1 \in 1 .. N /\ j + 1 \in 1 .. M /\ (j + 1) - 1 = j /\ f[j] = h[j]
    BY <1>2
  <2>2. f[j + 1] = f[j] + a[j + 1] /\ h[j + 1] = h[j] + b[j + 1] /\ a[j + 1] = b[j + 1]
    BY <2>1 DEF Sums, Agree
  <2> QED  BY <2>1, <2>2
<1>3. 0 .. N \subseteq T
  <2> HIDE DEF T
  <2> QED  BY <1>1, <1>2, Climb DEF Climbs
<1> QED  BY <1>3

(***************************************************************************)
(* Totals grow, and a number below the last one falls into one step.       *)
(***************************************************************************)
LEMMA SumsGrow ==
    ASSUME NEW N \in Nat, NEW a \in [1 .. N -> Nat], NEW f, Sums(f, a, N),
           NEW i \in 0 .. N, NEW j \in i .. N
    PROVE  f[i] <= f[j]
<1> DEFINE T == {n \in 0 .. N : i <= n => f[i] <= f[n]}
<1>1. 0 \in T
  BY DEF Sums
<1>2. ASSUME NEW n \in 0 .. N, n < N, n \in T PROVE n + 1 \in T
  <2>1. f[n + 1] = f[n] + a[n + 1] /\ a[n + 1] \in Nat /\ f[n] \in Nat /\ f[i] \in Nat
    BY <1>2 DEF Sums
  <2> QED  BY <1>2, <2>1
<1>3. 0 .. N \subseteq T
  <2> HIDE DEF T
  <2> QED  BY <1>1, <1>2, Climb DEF Climbs
<1> QED  BY <1>3

LEMMA SumsLocate ==
    ASSUME NEW N \in Nat, NEW a \in [1 .. N -> Nat], NEW f, Sums(f, a, N),
           NEW p \in Nat, p < f[N]
    PROVE  \E k \in 1 .. N : f[k - 1] <= p /\ p < f[k]
<1> DEFINE T == {n \in 0 .. N : p < f[n]}
<1>1. PICK k \in T : \A m \in T : k <= m
  <2>1. T \in SUBSET Nat /\ N \in T
    OBVIOUS
  <2> HIDE DEF T
  <2> QED  BY <2>1, Least
<1>2. k # 0 /\ k \in 1 .. N
  BY <1>1 DEF Sums
<1>3. k - 1 \notin T /\ f[k - 1] \in Nat
  BY <1>1, <1>2 DEF Sums
<1> QED  BY <1>1, <1>2, <1>3

LEMMA SumsLocateOne ==
    ASSUME NEW N \in Nat, NEW a \in [1 .. N -> Nat], NEW f, Sums(f, a, N), NEW p \in Nat,
           NEW k \in 1 .. N, f[k - 1] <= p, p < f[k],
           NEW l \in 1 .. N, f[l - 1] <= p, p < f[l]
    PROVE  k = l
<1>1. k < l => f[k] <= f[l - 1]
  BY SumsGrow
<1>2. l < k => f[l] <= f[k - 1]
  BY SumsGrow, SMTT(30)
<1>3. f[k] \in Nat /\ f[l] \in Nat /\ f[k - 1] \in Nat /\ f[l - 1] \in Nat
  BY DEF Sums
<1>4. ~(k < l)
  BY <1>1, <1>3
<1>5. ~(l < k)
  BY <1>2, <1>3
<1> QED  BY <1>4, <1>5

-----------------------------------------------------------------------------
(***************************************************************************)
(* w is s followed by t.                                                   *)
(***************************************************************************)
Joins(w, s, t, S) ==
    /\ w \in Seq(S) /\ s \in Seq(S) /\ t \in Seq(S)
    /\ Len(w) = Len(s) + Len(t)
    /\ \A x \in 1 .. Len(s) : w[x] = s[x]
    /\ \A x \in 1 .. Len(t) : w[Len(s) + x] = t[x]

LEMMA JoinIs ==
    ASSUME NEW S, NEW s \in Seq(S), NEW t \in Seq(S)
    PROVE  Joins(s \o t, s, t, S)
  BY DEF Joins

LEMMA JoinUnique ==
    ASSUME NEW S, NEW w, NEW s, NEW t, Joins(w, s, t, S)
    PROVE  w = s \o t
<1>1. Joins(s \o t, s, t, S)
  BY JoinIs DEF Joins
<1>2. ASSUME NEW x \in 1 .. Len(w) PROVE w[x] = (s \o t)[x]
  <2>1. CASE x <= Len(s)
    BY <1>1, <2>1 DEF Joins
  <2>2. CASE x > Len(s)
    <3>1. x - Len(s) \in 1 .. Len(t) /\ x = Len(s) + (x - Len(s))
      BY <2>2 DEF Joins
    <3> QED  BY <1>1, <3>1 DEF Joins
  <2> QED  BY <2>1, <2>2 DEF Joins
<1>3. w \in Seq(S) /\ s \o t \in Seq(S) /\ Len(w) = Len(s \o t)
  BY <1>1 DEF Joins
<1> QED  BY <1>2, <1>3, SeqEqual

(***************************************************************************)
(* Running concatenations of N sequences over S, and their equation.       *)
(***************************************************************************)
Concats(f, a, N, S) ==
    /\ f \in [0 .. N -> Seq(S)] /\ f[0] = <<>>
    /\ \A k \in 1 .. N : Joins(f[k], f[k - 1], a[k], S)

ConcatEquation(f, a, N) ==
    f = [j \in 0 .. N |-> IF j = 0 THEN <<>> ELSE f[j - 1] \o a[j]]

LEMMA ConcatsStep ==
    ASSUME NEW S, NEW N, NEW a, NEW f, Concats(f, a, N, S), NEW k \in 1 .. N
    PROVE  Joins(f[k], f[k - 1], a[k], S)
  BY DEF Concats

LEMMA ConcatsExist ==
    ASSUME NEW S, NEW N \in Nat, NEW a \in [1 .. N -> Seq(S)]
    PROVE  \E f : Concats(f, a, N, S) /\ ConcatEquation(f, a, N)
<1> DEFINE g == [k \in 1 .. N |-> [x \in Seq(S) |-> x \o a[k]]]
<1>1. g \in [1 .. N -> [Seq(S) -> Seq(S)]]
  OBVIOUS
<1>2. \A k \in 1 .. N : \A x \in Seq(S) : g[k][x] = x \o a[k]
  OBVIOUS
<1>3. <<>> \in Seq(S)
  OBVIOUS
<1> HIDE DEF g
<1>4. PICK f : IsFold(f, Seq(S), <<>>, N, g)
  BY <1>1, <1>3, FoldExists
<1>5. f \in [0 .. N -> Seq(S)] /\ f[0] = <<>> /\ \A k \in 1 .. N : f[k] = g[k][f[k - 1]]
  BY <1>4 DEF IsFold
<1>6. ASSUME NEW k \in 1 .. N PROVE f[k] = f[k - 1] \o a[k] /\ Joins(f[k], f[k - 1], a[k], S)
  <2>1. f[k - 1] \in Seq(S) /\ a[k] \in Seq(S) /\ f[k] = g[k][f[k - 1]]
    BY <1>5, SMTT(30)
  <2>2. f[k] = f[k - 1] \o a[k]
    BY <1>2, <2>1
  <2> QED  BY <2>1, <2>2, JoinIs
<1>7. ASSUME NEW j \in 0 .. N PROVE f[j] = IF j = 0 THEN <<>> ELSE f[j - 1] \o a[j]
  <2>1. CASE j = 0
    BY <1>5, <2>1
  <2>2. CASE j # 0
    <3>1. j \in 1 .. N
      BY <2>2
    <3> QED  BY <1>6, <2>2, <3>1, Zenon
  <2> QED  BY <2>1, <2>2
<1>8. f = [j \in 0 .. N |-> IF j = 0 THEN <<>> ELSE f[j - 1] \o a[j]]
  BY <1>5, <1>7, Zenon
<1>9. ConcatEquation(f, a, N)
  BY <1>8 DEF ConcatEquation
<1> QED  BY <1>5, <1>6, <1>9 DEF Concats

LEMMA ConcatsSolve ==
    ASSUME NEW S, NEW N \in Nat, NEW a \in [1 .. N -> Seq(S)],
           NEW s, ConcatEquation(s, a, N)
    PROVE  Concats(s, a, N, S)
<1>1. PICK f : Concats(f, a, N, S)
  BY ConcatsExist
<1>2. DOMAIN s = 0 .. N /\ \A j \in 0 .. N : s[j] = IF j = 0 THEN <<>> ELSE s[j - 1] \o a[j]
  BY DEF ConcatEquation
<1> DEFINE T == {j \in 0 .. N : s[j] = f[j]}
<1>3. 0 \in T
  <2>1. 0 \in 0 .. N
    OBVIOUS
  <2>2. s[0] = <<>> /\ f[0] = <<>>
    BY <1>1, <1>2, <2>1, Zenon DEF Concats
  <2> QED  BY <2>1, <2>2
<1>4. ASSUME NEW j \in 0 .. N, j < N, j \in T PROVE j + 1 \in T
  <2>1. j + 1 \in 1 .. N /\ j + 1 \in 0 .. N /\ j + 1 # 0 /\ (j + 1) - 1 = j /\ s[j] = f[j]
    BY <1>4
  <2>2. Joins(f[j + 1], f[j], a[j + 1], S)
    BY <1>1, <2>1, ConcatsStep
  <2>3. f[j + 1] = f[j] \o a[j + 1]
    BY <2>2, JoinUnique
  <2>4. s[j + 1] = s[j] \o a[j + 1]
    BY <1>2, <2>1
  <2>5. f[j + 1] = s[j + 1]
    BY <2>1, <2>3, <2>4, Zenon
  <2> QED  BY <2>1, <2>5
<1>5. 0 .. N \subseteq T
  <2> HIDE DEF T
  <2> QED  BY <1>3, <1>4, Climb DEF Climbs
<1>6. \A j \in 0 .. N : s[j] = f[j]
  BY <1>5
<1>7. s = [j \in 0 .. N |-> s[j]] /\ f = [j \in 0 .. N |-> f[j]]
  BY <1>1 DEF Concats, ConcatEquation
<1>8. s = f
  BY <1>6, <1>7
<1> QED  BY <1>1, <1>8

(***************************************************************************)
(* Where the bytes of a concatenation are: byte b of member k comes after  *)
(* the members before it.                                                  *)
(***************************************************************************)
Lengths(a, N) == [k \in 1 .. N |-> Len(a[k])]

LEMMA ConcatsLength ==
    ASSUME NEW S, NEW N \in Nat, NEW a, NEW f, Concats(f, a, N, S),
           NEW l, Sums(l, Lengths(a, N), N), NEW n \in 0 .. N
    PROVE  Len(f[n]) = l[n]
<1> DEFINE T == {j \in 0 .. N : Len(f[j]) = l[j]}
<1>1. 0 \in T
  BY DEF Concats, Sums
<1>2. ASSUME NEW j \in 0 .. N, j < N, j \in T PROVE j + 1 \in T
  <2>1. j + 1 \in 1 .. N /\ (j + 1) - 1 = j /\ Len(f[j]) = l[j]
    BY <1>2
  <2>2. Joins(f[j + 1], f[j], a[j + 1], S)
    BY <2>1, ConcatsStep
  <2>3. l[j + 1] = l[j] + Len(a[j + 1])
    BY <2>1 DEF Sums, Lengths
  <2>4. Len(f[j + 1]) = Len(f[j]) + Len(a[j + 1])
    BY <2>2 DEF Joins
  <2> QED  BY <2>1, <2>3, <2>4
<1>3. 0 .. N \subseteq T
  <2> HIDE DEF T
  <2> QED  BY <1>1, <1>2, Climb DEF Climbs
<1> QED  BY <1>3

Starts(s, t) == Len(s) <= Len(t) /\ \A x \in 1 .. Len(s) : t[x] = s[x]

LEMMA JoinStarts ==
    ASSUME NEW S, NEW w, NEW s, NEW t, NEW r \in Seq(S), Starts(r, s), Joins(w, s, t, S)
    PROVE  Starts(r, w)
<1>1. Len(w) = Len(s) + Len(t) /\ Len(s) \in Nat /\ Len(t) \in Nat /\ Len(r) \in Nat
  BY DEF Joins
<1>2. ASSUME NEW x \in 1 .. Len(r) PROVE w[x] = r[x]
  <2>1. x \in 1 .. Len(s)
    BY <1>1 DEF Starts
  <2> QED  BY <2>1 DEF Joins, Starts
<1> QED  BY <1>1, <1>2 DEF Starts

LEMMA ConcatsPrefix ==
    ASSUME NEW S, NEW N \in Nat, NEW a, NEW f, Concats(f, a, N, S),
           NEW i \in 0 .. N, NEW j \in i .. N
    PROVE  Starts(f[i], f[j])
<1> DEFINE T == {n \in 0 .. N : i <= n => Starts(f[i], f[n])}
<1>1. f[i] \in Seq(S) /\ Starts(f[i], f[i])
  BY DEF Concats, Starts
<1>2. 0 \in T
  BY <1>1
<1>3. ASSUME NEW n \in 0 .. N, n < N, n \in T PROVE n + 1 \in T
  <2>1. CASE i <= n
    <3>1. n + 1 \in 1 .. N /\ (n + 1) - 1 = n /\ Starts(f[i], f[n])
      BY <1>3, <2>1
    <3>2. Joins(f[n + 1], f[n], a[n + 1], S)
      BY <3>1, ConcatsStep
    <3>3. Starts(f[i], f[n + 1])
      BY <1>1, <3>1, <3>2, JoinStarts
    <3> QED  BY <3>1, <3>3
  <2>2. CASE ~(i <= n)
    <3>1. i <= n + 1 => i = n + 1
      BY <2>2
    <3> QED  BY <1>1, <1>3, <3>1
  <2> QED  BY <2>1, <2>2
<1>4. 0 .. N \subseteq T
  <2> HIDE DEF T
  <2> QED  BY <1>2, <1>3, Climb DEF Climbs
<1> QED  BY <1>4

Places(s, l, a, N) == \A k \in 1 .. N : \A b \in 1 .. Len(a[k]) :
    l[k - 1] + b \in 1 .. Len(s) /\ s[l[k - 1] + b] = a[k][b]

LEMMA ConcatsPlace ==
    ASSUME NEW S, NEW N \in Nat, NEW a, NEW f, Concats(f, a, N, S),
           NEW l, Sums(l, Lengths(a, N), N)
    PROVE  Places(f[N], l, a, N)
<1> SUFFICES ASSUME NEW k \in 1 .. N, NEW b \in 1 .. Len(a[k])
             PROVE  l[k - 1] + b \in 1 .. Len(f[N]) /\ f[N][l[k - 1] + b] = a[k][b]
  BY DEF Places
<1>1. Joins(f[k], f[k - 1], a[k], S)
  BY ConcatsStep
<1>2. Len(f[k - 1]) = l[k - 1]
  BY ConcatsLength
<1>3. l[k - 1] + b \in 1 .. Len(f[k]) /\ f[k][l[k - 1] + b] = a[k][b]
  BY <1>1, <1>2 DEF Joins
<1>4. Starts(f[k], f[N])
  BY ConcatsPrefix
<1>5. Len(f[k]) \in Nat /\ Len(f[N]) \in Nat
  BY DEF Concats
<1> QED  BY <1>3, <1>4, <1>5 DEF Starts


-----------------------------------------------------------------------------
(* The ring. *)

(***************************************************************************)
(* The modulo in add_entry and in the read position, as a case split.      *)
(***************************************************************************)
LEMMA NextSlotCases ==
    ASSUME NEW i \in Slot
    PROVE  /\ NextSlot(i) \in Slot
           /\ NextSlot(i) = IF i = Max - 1 THEN 0 ELSE i + 1
<1>1. CASE i = Max - 1
  BY <1>1, MaxAssumption DEF Slot, NextSlot
<1>2. CASE i # Max - 1
  BY <1>2, MaxAssumption DEF Slot, NextSlot
<1> QED  BY <1>1, <1>2

LEMMA WrapCases ==
    ASSUME NEW x \in 0 .. 2 * Max - 1
    PROVE  x % Max = IF x < Max THEN x ELSE x - Max
<1>1. ASSUME NEW m \in Nat \ {0}, NEW y \in 0 .. m - 1 PROVE y % m = y
  OBVIOUS
<1>2. ASSUME NEW m \in Nat \ {0}, NEW y \in m .. 2 * m - 1 PROVE y % m = y - m
  OBVIOUS
<1>3. x < Max => x \in 0 .. Max - 1
  BY MaxAssumption
<1>4. ~(x < Max) => x \in Max .. 2 * Max - 1
  BY MaxAssumption
<1> QED  BY <1>1, <1>2, <1>3, <1>4, MaxAssumption

RingIInv == BufferTypeOK /\ RingInv

LEMMA BufferInitInv == BufferInit => RingIInv
<1> SUFFICES ASSUME BufferInit PROVE RingIInv
  OBVIOUS
<1>1. 0 \in Slot /\ Empty \in Entry
  BY MaxAssumption DEF Slot, Empty, Entry
<1>2. BufferTypeOK
  BY <1>1 DEF BufferInit, BufferTypeOK
<1>3. RingInv
  BY DEF BufferInit, RingInv
<1> QED  BY <1>2, <1>3 DEF RingIInv

(***************************************************************************)
(* Adding an entry preserves the ring invariant, whoever the caller is.    *)
(***************************************************************************)
LEMMA AddEntryInv ==
    ASSUME RingIInv, NEW e \in [buffptr : Ptr, size : Nat], AddEntry(e)
    PROVE  RingIInv'
<1> USE DEF RingIInv, RingInv, BufferTypeOK
<1>1. e \in Entry /\ entry' = [entry EXCEPT ![in_offs] = e]
  BY DEF AddEntry, Entry
<1>2. /\ in_offs' = IF in_offs = Max - 1 THEN 0 ELSE in_offs + 1
      /\ in_offs' \in Slot
  BY NextSlotCases DEF AddEntry
<1>3. /\ out_offs' = IF full THEN in_offs' ELSE 0
      /\ full' = (in_offs' = out_offs')
  BY DEF AddEntry, OutAfter, Meet
<1>4. BufferTypeOK'
  <2>1. entry' \in [Slot -> Entry]
    BY <1>1
  <2>2. out_offs' \in Slot /\ full' \in BOOLEAN
    BY <1>2, <1>3, MaxAssumption DEF Slot
  <2>3. ret' \in Ptr \cup {NULL}
    BY DEF AddEntry, Evicted, Entry
  <2> QED  BY <1>2, <2>1, <2>2, <2>3
<1>5. ASSUME ~full' PROVE out_offs' = 0 /\ \A i \in Slot : i >= in_offs' => entry'[i] = Empty
  <2>1. ~full /\ in_offs' = in_offs + 1
    BY <1>2, <1>3, <1>5, MaxAssumption DEF Slot
  <2> QED  BY <1>1, <1>3, <2>1, MaxAssumption DEF Slot
<1> QED  BY <1>3, <1>4, <1>5

(***************************************************************************)
(* BufferTypeOK and RingInv hold of the buffer used by any caller.         *)
(***************************************************************************)
THEOREM RingInvariant == BufferSpec => [](BufferTypeOK /\ RingInv)
<1>1. RingIInv /\ [BufferNext]_bufVars => RingIInv'
  <2> SUFFICES ASSUME RingIInv, [BufferNext]_bufVars PROVE RingIInv'
    OBVIOUS
  <2>1. CASE BufferNext
    <3>1. PICK e \in NewEntry : AddEntry(e)
      BY <2>1 DEF BufferNext
    <3> QED  BY <3>1, AddEntryInv, SizesAssumption DEF NewEntry
  <2>2. CASE UNCHANGED bufVars
    BY <2>2 DEF bufVars, RingIInv, RingInv, BufferTypeOK
  <2> QED  BY <2>1, <2>2
<1> QED  BY BufferInitInv, <1>1, PTL DEF BufferSpec, RingIInv

(***************************************************************************)
(* The slots of the log: how many there are and where each one is.         *)
(***************************************************************************)
LEMMA LiveCount == RingIInv => Live = IF full THEN Max ELSE in_offs
  BY MaxAssumption DEF RingIInv, RingInv, BufferTypeOK, Live, Slot

LEMMA PosCases ==
    ASSUME out_offs \in Slot, NEW j \in Slot
    PROVE  /\ Pos(j) \in Slot
           /\ Pos(j) = IF out_offs + j < Max THEN out_offs + j
                       ELSE out_offs + j - Max
<1>1. PICK x \in 0 .. 2 * Max - 1 : x = out_offs + j
  BY MaxAssumption DEF Slot
<1>2. Pos(j) = x % Max
  BY <1>1 DEF Pos
<1>3. x % Max = IF x < Max THEN x ELSE x - Max
  BY WrapCases
<1>4. x % Max \in Slot
  BY <1>3, MaxAssumption DEF Slot
<1> QED  BY <1>1, <1>2, <1>3, <1>4, MaxAssumption DEF Slot

LogFacts ==
    /\ Live \in 0 .. Max
    /\ Log = [k \in 1 .. Live |-> entry[Pos(k - 1)]]
    /\ Log \in Seq(Entry)
    /\ Len(Log) = Live
    /\ \A k \in 1 .. Live :
         /\ Pos(k - 1) \in Slot
         /\ Pos(k - 1) = IF out_offs + (k - 1) < Max THEN out_offs + (k - 1)
                         ELSE out_offs + (k - 1) - Max

LEMMA LogAt == RingIInv => LogFacts
<1> SUFFICES ASSUME RingIInv PROVE LogFacts
  OBVIOUS
<1> USE DEF RingIInv, RingInv, BufferTypeOK
<1>1. Live \in 0 .. Max
  BY LiveCount, MaxAssumption DEF Slot
<1>2. ASSUME NEW k \in 1 .. Live
      PROVE  /\ Pos(k - 1) \in Slot
             /\ Pos(k - 1) = IF out_offs + (k - 1) < Max THEN out_offs + (k - 1)
                             ELSE out_offs + (k - 1) - Max
  <2>1. k - 1 \in Slot
    BY <1>1, MaxAssumption DEF Slot
  <2> QED  BY <2>1, PosCases
<1>3. Log \in [1 .. Live -> Entry]
  BY <1>2 DEF Log
<1> QED  BY <1>1, <1>2, <1>3 DEF Log, LogFacts

LEMMA AddImplementsAdd ==
    ASSUME RingIInv, NEW e \in [buffptr : Ptr, size : Nat], AddEntry(e)
    PROVE  BoundedLog!Add(e)
<1> USE DEF RingIInv, RingInv, BufferTypeOK, LogFacts
<1>1. RingIInv'
  BY AddEntryInv
<1>2. /\ in_offs' = IF in_offs = Max - 1 THEN 0 ELSE in_offs + 1
      /\ out_offs' = IF full THEN in_offs' ELSE 0
      /\ full' <=> (in_offs' = out_offs')
      /\ entry' = [entry EXCEPT ![in_offs] = e]
      /\ in_offs \in Slot /\ out_offs \in Slot
  BY NextSlotCases DEF AddEntry, OutAfter, Meet
<1>3. Live = IF full THEN Max ELSE in_offs
  BY LiveCount
<1>4. (Live = IF full THEN Max ELSE in_offs)'
  BY LiveCount, <1>1, PTL
<1>5. LogFacts'
  BY LogAt, <1>1, PTL
<1>6. LogFacts
  BY LogAt
<1>7. e \in Entry
  BY DEF Entry
\* Until the ring is full the log grows at its end.
<1>8. CASE ~full
  <2>0. out_offs = 0 /\ out_offs' = 0 /\ Live = in_offs
    BY <1>2, <1>3, <1>8
  <2>1. out_offs = 0 /\ out_offs' = 0 /\ Live = in_offs /\ Live' = in_offs + 1
    <3>1. CASE in_offs = Max - 1
      BY <2>0, <3>1, <1>2, <1>4, MaxAssumption
    <3>2. CASE in_offs # Max - 1
      <4>1. in_offs' = in_offs + 1 /\ in_offs' # 0
        BY <1>2, <3>2, MaxAssumption DEF Slot
      <4> QED  BY <4>1, <2>0, <1>2, <1>4
    <3> QED  BY <3>1, <3>2
  <2>2. ASSUME NEW k \in 1 .. Live'
        PROVE  Log'[k] = Append(Log, e)[k]
    <3>1. Log'[k] = entry'[k - 1]
      BY <1>5, <2>1, <1>2, MaxAssumption DEF Slot
    <3>2. CASE k = Live'
      BY <1>2, <1>6, <1>7, <2>1, <3>1, <3>2
    <3>3. CASE k # Live'
      <4>1. k \in 1 .. Live /\ Log[k] = entry[k - 1]
        <5>1. k \in 1 .. Live
          BY <2>1, <3>3, <1>2, MaxAssumption DEF Slot
        <5>2. Pos(k - 1) = k - 1
          BY <5>1, <1>6, <2>1, <1>2, MaxAssumption DEF Slot
        <5> QED  BY <5>1, <5>2, <1>6
      <4> QED  BY <4>1, <1>2, <1>6, <1>7, <2>1, <3>1
    <3> QED  BY <3>2, <3>3
  <2>3. Log' = Append(Log, e)
    BY <1>5, <1>6, <1>7, <2>1, <2>2
  <2>4. ret' = NULL
    BY <1>8 DEF AddEntry, Evicted
  <2>5. Len(Log) < Max
    BY <1>6, <2>1, <1>2, MaxAssumption DEF Slot
  <2> QED  BY <2>3, <2>4, <2>5 DEF BoundedLog!Add
\* A full log loses its head.
<1>9. CASE full
  <2>1. Live = Max /\ Live' = Max /\ in_offs = out_offs /\ in_offs' = out_offs'
    BY <1>2, <1>3, <1>4, <1>9
  <2>2. Head(Log) = entry[in_offs] /\ Log # <<>>
    <3>1. 1 \in 1 .. Live /\ 1 - 1 = 0 /\ out_offs + 0 = out_offs
      BY <2>1, <1>2, MaxAssumption DEF Slot
    <3>2. Pos(1 - 1) = out_offs
      BY <3>1, <1>6, <1>2, MaxAssumption DEF Slot
    <3> QED  BY <3>1, <3>2, <1>6, <2>1
  <2>3. Tail(Log) \in Seq(Entry) /\ Len(Tail(Log)) = Max - 1
    <3>1. Log \in Seq(Entry) /\ Len(Log) = Max /\ Log # <<>>
      BY <1>6, <2>1, <2>2
    <3> HIDE DEF Log, RingIInv, RingInv, BufferTypeOK, LogFacts
    <3> QED  BY <3>1, MaxAssumption
  <2>4. ASSUME NEW k \in 1 .. Max
        PROVE  Log'[k] = Append(Tail(Log), e)[k]
    <3>1. CASE k = Max
      <4>1. Log'[k] = entry'[in_offs]
        BY <1>5, <2>1, <1>2, <3>1, MaxAssumption DEF Slot
      <4> QED  BY <4>1, <1>2, <1>7, <2>3, <3>1
    <3>2. CASE k # Max
      <4>1. k \in 1 .. Max - 1 /\ k + 1 \in 1 .. Max
        BY <3>2, MaxAssumption
      <4>2. Append(Tail(Log), e)[k] = Log[k + 1]
        <5>1. Log \in Seq(Entry) /\ Len(Log) = Max /\ Log # <<>>
          BY <1>6, <2>1, <2>2
        <5> HIDE DEF Log, RingIInv, RingInv, BufferTypeOK, LogFacts
        <5>2. Append(Tail(Log), e)[k] = Tail(Log)[k]
          BY <4>1, <1>7, <2>3
        <5>3. Tail(Log)[k] = Log[k + 1]
          BY <4>1, <5>1
        <5> QED  BY <5>2, <5>3
      <4>3. Log'[k] = entry'[Pos(k - 1)'] /\ Log[k + 1] = entry[Pos(k)]
        BY <4>1, <1>5, <1>6, <2>1, MaxAssumption
      <4>4. Pos(k) = Pos(k - 1)' /\ Pos(k) # in_offs /\ Pos(k) \in Slot
        <5>1. Pos(k) = IF out_offs + k < Max THEN out_offs + k ELSE out_offs + k - Max
          <6>1. k + 1 \in 1 .. Live /\ (k + 1) - 1 = k
            BY <4>1, <2>1
          <6> QED  BY <6>1, <1>6
        <5>2. Pos(k - 1)' = IF out_offs' + (k - 1) < Max THEN out_offs' + (k - 1)
                            ELSE out_offs' + (k - 1) - Max
          BY <4>1, <1>5, <2>1, MaxAssumption
        <5> QED  BY <5>1, <5>2, <4>1, <1>2, <2>1, MaxAssumption DEF Slot
      <4> QED  BY <4>2, <4>3, <4>4, <1>2
    <3> QED  BY <3>1, <3>2
  <2>5. Log' = Append(Tail(Log), e)
    <3>1. Append(Tail(Log), e) \in Seq(Entry) /\ Len(Append(Tail(Log), e)) = Max
      BY <1>7, <2>3, MaxAssumption
    <3>2. Log' \in Seq(Entry) /\ Len(Log') = Max
      BY <1>5, <2>1
    <3> QED  BY <3>1, <3>2, <2>4
  <2>6. ret' = Head(Log).buffptr
    BY <1>9, <2>2 DEF AddEntry, Evicted
  <2>7. ~(Len(Log) < Max)
    BY <1>6, <2>1, MaxAssumption
  <2> QED  BY <2>5, <2>6, <2>7 DEF BoundedLog!Add
<1> QED  BY <1>8, <1>9

(***************************************************************************)
(* ImplementsWriteLog: whatever is added, the ring is the bounded log of   *)
(* the newest Max entries and returns the pointer of the one dropped.      *)
(***************************************************************************)
THEOREM RingImplementsLog == BufferSpec => ImplementsWriteLog
<1>1. BufferInit => BoundedLog!Init
  <2> SUFFICES ASSUME BufferInit PROVE BoundedLog!Init
    OBVIOUS
  <2>1. Live = 0
    BY MaxAssumption DEF BufferInit, Live
  <2>2. Log = <<>>
    BY <2>1 DEF Log
  <2> QED  BY <2>2 DEF BufferInit, BoundedLog!Init
<1>2. RingIInv /\ [BufferNext]_bufVars => [BoundedLog!Next]_(BoundedLog!vars)
  <2> SUFFICES ASSUME RingIInv, [BufferNext]_bufVars
               PROVE  [BoundedLog!Next]_(BoundedLog!vars)
    OBVIOUS
  <2>1. CASE BufferNext
    <3>1. PICK e \in NewEntry : AddEntry(e)
      BY <2>1 DEF BufferNext
    <3>2. e \in [buffptr : Ptr, size : Nat]
      BY SizesAssumption DEF NewEntry
    <3> QED  BY <3>1, <3>2, AddImplementsAdd DEF BoundedLog!Next
  <2>2. CASE UNCHANGED bufVars
    BY <2>2 DEF bufVars, BoundedLog!vars, Log, Live, Pos
  <2> QED  BY <2>1, <2>2
<1> QED  BY <1>1, <1>2, RingInvariant, PTL
         DEF BufferSpec, ImplementsWriteLog, BoundedLog!Spec, RingIInv

-----------------------------------------------------------------------------
(***************************************************************************)
(* SizeOfFirst is a running total of the sizes in the order of the visit.  *)
(***************************************************************************)
Visited == [j \in 1 .. Max |-> entry[Pos(j - 1)].size]

Totals(z) == /\ Sums(z, Visited, Max)
             /\ \A k \in 0 .. Max : SizeOfFirst(k) = z[k]

LEMMA VisitedType ==
    ASSUME RingIInv
    PROVE  /\ Visited \in [1 .. Max -> Nat]
           /\ \A j \in 1 .. Max : Pos(j - 1) \in Slot /\ Visited[j] = entry[Pos(j - 1)].size
<1>1. ASSUME NEW j \in 1 .. Max PROVE Pos(j - 1) \in Slot /\ entry[Pos(j - 1)].size \in Nat
  <2>1. j - 1 \in Slot /\ out_offs \in Slot
    BY MaxAssumption DEF Slot, RingIInv, BufferTypeOK
  <2>2. Pos(j - 1) \in Slot
    BY <2>1, PosCases
  <2> QED  BY <2>2 DEF RingIInv, BufferTypeOK, Entry
<1> QED  BY <1>1 DEF Visited

LEMMA TotalsExist ==
    ASSUME RingIInv
    PROVE  \E z : Totals(z)
<1> DEFINE Eq(z) == z = [j \in 0 .. Max |->
                            IF j = 0 THEN 0 ELSE z[j - 1] + entry[Pos(j - 1)].size]
           total == CHOOSE z : Eq(z)
<1>1. Max \in Nat /\ Visited \in [1 .. Max -> Nat]
      /\ \A j \in 1 .. Max : Visited[j] = entry[Pos(j - 1)].size
  BY VisitedType, MaxAssumption
<1>2. PICK z : Sums(z, Visited, Max)
  BY <1>1, SumsExist
<1>3. Eq(z)
  BY <1>1, <1>2 DEF Sums
<1>4. Eq(total)
  <2> HIDE DEF Eq
  <2> QED  BY <1>3
<1>5. \A k : SizeOfFirst(k) = total[k]
  BY DEF SizeOfFirst
<1> HIDE DEF total
<1>6. SumEquation(total, Visited, Max)
  <2>1. total = [j \in 0 .. Max |->
                    IF j = 0 THEN 0 ELSE total[j - 1] + entry[Pos(j - 1)].size]
    BY <1>4
  <2>2. \A j \in 0 .. Max : j # 0 => Visited[j] = entry[Pos(j - 1)].size
    BY <1>1, SMTT(30)
  <2> HIDE DEF Eq
  <2> QED  BY <2>1, <2>2 DEF SumEquation
<1>7. Sums(total, Visited, Max)
  BY <1>1, <1>6, SumsSolve
<1> QED  BY <1>5, <1>7 DEF Totals

(***************************************************************************)
(* How far the do-while goes: over the live slots, or over all of a ring   *)
(* nothing was written to, whose sizes are 0.                              *)
(***************************************************************************)
LEMMA VisitsCases ==
    ASSUME RingIInv
    PROVE  /\ Visits \in 1 .. Max
           /\ Live \in 0 .. Max
           /\ Live # 0 => Visits = Live
           /\ Live = 0 => Visits = Max /\ \A i \in Slot : entry[i] = Empty
<1> USE DEF RingIInv, RingInv, BufferTypeOK
<1> DEFINE Stops(d) == Pos(d) = in_offs /\ \A j \in 1 .. d - 1 : Pos(j) # in_offs
           v == IF Live = 0 THEN Max ELSE Live
<1>1. Live = IF full THEN Max ELSE in_offs
  BY LiveCount
<1>2. v \in 1 .. Max /\ Live \in 0 .. Max /\ in_offs \in 0 .. Max - 1 /\ out_offs \in 0 .. Max - 1
  BY <1>1, MaxAssumption DEF Slot
<1>3. ASSUME NEW d \in 1 .. Max
      PROVE  Pos(d) = IF out_offs + d < Max THEN out_offs + d ELSE out_offs + d - Max
  <2>1. PICK x \in 0 .. 2 * Max - 1 : x = out_offs + d
    BY <1>2, MaxAssumption
  <2>2. x % Max = IF x < Max THEN x ELSE x - Max
    BY WrapCases
  <2>3. Pos(d) = x % Max
    BY <2>1 DEF Pos
  <2> QED  BY <1>2, <2>1, <2>2, <2>3, MaxAssumption
<1>4. Stops(v)
  <2>1. CASE full
    BY <1>1, <1>2, <1>3, <2>1, MaxAssumption
  <2>2. CASE ~full
    BY <1>1, <1>2, <1>3, <2>2, MaxAssumption
  <2> QED  BY <2>1, <2>2
<1>5. ASSUME NEW d \in 1 .. Max, Stops(d) PROVE d = v
  <2>1. d < v => d \in 1 .. v - 1
    BY <1>2, MaxAssumption
  <2>2. v < d => v \in 1 .. d - 1
    BY <1>2, MaxAssumption
  <2> QED  BY <1>2, <1>4, <1>5, <2>1, <2>2, MaxAssumption
<1>6. Visits = v
  <2> HIDE DEF Stops, v
  <2>1. Visits = CHOOSE d \in 1 .. Max : Stops(d)
    BY DEF Visits, Stops
  <2> QED  BY <1>2, <1>4, <1>5, <2>1
<1>7. Live = 0 => \A i \in Slot : entry[i] = Empty
  BY <1>1, <1>2, MaxAssumption DEF Slot
<1> QED  BY <1>2, <1>6, <1>7

(***************************************************************************)
(* The bytes of the log, one sequence for each entry.                      *)
(***************************************************************************)
EntryBytes(k) == [b \in 1 .. Log[k].size |-> [slot |-> Pos(k - 1), byte |-> b - 1]]

LogBytes == [k \in 1 .. Live |-> EntryBytes(k)]

ByteName == [slot : Slot, byte : Nat]

LEMMA NamedBytes ==
    ASSUME NEW n \in Nat, NEW p \in Slot, NEW s,
           s = [b \in 1 .. n |-> [slot |-> p, byte |-> b - 1]]
    PROVE  /\ s \in Seq(ByteName) /\ Len(s) = n
           /\ \A b \in 1 .. n : s[b] = [slot |-> p, byte |-> b - 1]
<1>1. \A b \in 1 .. n : b - 1 \in Nat
  OBVIOUS
<1>2. \A b \in 1 .. n : [slot |-> p, byte |-> b - 1] \in ByteName
  BY <1>1 DEF ByteName
<1>3. s \in [1 .. n -> ByteName]
  BY <1>2
<1> QED  BY <1>3

LEMMA LogBytesType ==
    ASSUME RingIInv
    PROVE  /\ Live \in Nat /\ Live <= Max
           /\ LogBytes \in [1 .. Live -> Seq(ByteName)]
           /\ \A k \in 1 .. Live :
                /\ Len(LogBytes[k]) = Visited[k]
                /\ \A b \in 1 .. Visited[k] :
                      LogBytes[k][b] = [slot |-> Pos(k - 1), byte |-> b - 1]
<1>1. LogFacts /\ Live \in 0 .. Max
  BY LogAt, VisitsCases
<1>2. Live \in Nat /\ Live <= Max
  BY <1>1, MaxAssumption
<1>3. ASSUME NEW k \in 1 .. Live
      PROVE  /\ LogBytes[k] = [b \in 1 .. Visited[k] |-> [slot |-> Pos(k - 1), byte |-> b - 1]]
             /\ Visited[k] \in Nat /\ Pos(k - 1) \in Slot
  <2>1. k \in 1 .. Max
    BY <1>2, MaxAssumption
  <2>2. Log[k].size = Visited[k] /\ Visited[k] \in Nat /\ Pos(k - 1) \in Slot
    BY <1>1, <2>1, VisitedType DEF LogFacts
  <2> QED  BY <2>2 DEF LogBytes, EntryBytes
<1>4. ASSUME NEW k \in 1 .. Live
      PROVE  /\ LogBytes[k] \in Seq(ByteName) /\ Len(LogBytes[k]) = Visited[k]
             /\ \A b \in 1 .. Visited[k] :
                   LogBytes[k][b] = [slot |-> Pos(k - 1), byte |-> b - 1]
  BY <1>3, NamedBytes, ZenonT(60)
<1>5. LogBytes = [k \in 1 .. Live |-> LogBytes[k]]
  BY DEF LogBytes
<1> QED  BY <1>2, <1>4, <1>5

LEMMA ConcatenatedIs ==
    ASSUME RingIInv
    PROVE  \E c : Concats(c, LogBytes, Live, ByteName) /\ Concatenated = c[Live]
<1> DEFINE Eq(c) == c = [k \in 0 .. Live |-> IF k = 0 THEN <<>>
                                             ELSE c[k - 1] \o EntryBytes(k)]
           upTo == CHOOSE c : Eq(c)
<1>1. Live \in Nat /\ LogBytes \in [1 .. Live -> Seq(ByteName)]
  BY LogBytesType
<1>2. \A k \in 0 .. Live : k # 0 => LogBytes[k] = EntryBytes(k)
  BY <1>1 DEF LogBytes
<1>3. PICK c : ConcatEquation(c, LogBytes, Live)
  BY <1>1, ConcatsExist
<1>4. Eq(c)
  BY <1>2, <1>3 DEF ConcatEquation
<1>5. Eq(upTo)
  <2> HIDE DEF Eq
  <2> QED  BY <1>4
<1>6. Concatenated = upTo[Live]
  BY DEF Concatenated, EntryBytes
<1> HIDE DEF upTo
<1>7. ConcatEquation(upTo, LogBytes, Live)
  BY <1>2, <1>5 DEF ConcatEquation
<1>8. Concats(upTo, LogBytes, Live, ByteName)
  BY <1>1, <1>7, ConcatsSolve
<1> QED  BY <1>6, <1>8

(***************************************************************************)
(* Where a lookup ends: in the live slot whose bytes span the offset, or   *)
(* nowhere, past the last byte.                                            *)
(***************************************************************************)
Spans(z, k, off) == z[k - 1] <= off /\ off < z[k]

FoundAt(z, k, off) == FindEntry(off) = [slot |-> Pos(k - 1), byte |-> off - z[k - 1]]

LEMMA FindHit ==
    ASSUME RingIInv, NEW off \in Nat, NEW z, Totals(z),
           NEW k \in 1 .. Live, Spans(z, k, off)
    PROVE  FoundAt(z, k, off)
<1> DEFINE hits == {j \in 0 .. Visits - 1 : off < SizeOfFirst(j + 1)}
<1>1. /\ Max \in Nat /\ Visited \in [1 .. Max -> Nat] /\ Sums(z, Visited, Max)
      /\ \A j \in 0 .. Max : SizeOfFirst(j) = z[j]
  BY VisitedType, MaxAssumption DEF Totals
<1>2. Visits = Live /\ Live \in 1 .. Max
  BY VisitsCases, MaxAssumption
<1>3. \A j \in 0 .. Visits - 1 : SizeOfFirst(j + 1) = z[j + 1] /\ j + 1 \in 0 .. Max
  BY <1>1, <1>2
<1>4. k \in 1 .. Max /\ z[k - 1] <= off /\ off < z[k]
  BY <1>1, <1>2 DEF Spans
<1>5. k - 1 \in hits
  <2>1. k - 1 \in 0 .. Visits - 1 /\ (k - 1) + 1 = k
    BY <1>2
  <2>2. SizeOfFirst((k - 1) + 1) = z[(k - 1) + 1]
    BY <1>3, <2>1
  <2>3. off < SizeOfFirst((k - 1) + 1)
    BY <1>4, <2>1, <2>2
  <2> QED  BY <2>1, <2>3
<1>6. ASSUME NEW j \in hits PROVE k - 1 <= j
  <2>1. j + 1 \in 0 .. Max /\ off < z[j + 1] /\ j \in Nat
    BY <1>2, <1>3
  <2>2. ASSUME j + 1 <= k - 1 PROVE z[j + 1] <= z[k - 1]
    <3>1. k - 1 \in j + 1 .. Max
      BY <1>1, <1>4, <2>1, <2>2
    <3> QED  BY <1>1, <2>1, <3>1, SumsGrow
  <2>3. z[j + 1] \in Nat /\ z[k - 1] \in Nat
    BY <1>1, <1>4, <2>1 DEF Sums
  <2> QED  BY <1>4, <2>1, <2>2, <2>3
<1>7. (CHOOSE i \in hits : \A j \in hits : i <= j) = k - 1
  <2>1. ASSUME NEW i \in hits, \A j \in hits : i <= j PROVE i = k - 1
    <3>1. i \in Nat /\ i <= k - 1 /\ k - 1 <= i
      BY <1>2, <1>5, <1>6, <2>1
    <3> QED  BY <1>4, <3>1
  <2> HIDE DEF hits
  <2> QED  BY <1>5, <1>6, <2>1
<1>8. SizeOfFirst(k - 1) = z[k - 1]
  BY <1>1, <1>4
<1>9. hits # {}
  BY <1>5
<1> QED  BY <1>7, <1>8, <1>9 DEF FindEntry, FoundAt

LEMMA FindMiss ==
    ASSUME RingIInv, NEW off \in Nat, NEW z, Totals(z), ~(off < z[Live])
    PROVE  FindEntry(off) = NotFound
<1> DEFINE hits == {j \in 0 .. Visits - 1 : off < SizeOfFirst(j + 1)}
<1>1. /\ Max \in Nat /\ Visited \in [1 .. Max -> Nat] /\ Sums(z, Visited, Max)
      /\ \A j \in 0 .. Max : SizeOfFirst(j) = z[j]
  BY VisitedType, MaxAssumption DEF Totals
<1>2. /\ Visits \in 1 .. Max /\ Live \in 0 .. Max /\ (Live # 0 => Visits = Live)
      /\ Live = 0 => \A i \in Slot : entry[i] = Empty
  BY VisitsCases
<1>3. \A j \in 0 .. Visits - 1 : SizeOfFirst(j + 1) = z[j + 1] /\ j + 1 \in 0 .. Max
  BY <1>1, <1>2
<1>4. z[Visits] = z[Live]
  <2>1. CASE Live # 0
    BY <1>2, <2>1
  <2>2. CASE Live = 0
    <3>1. \A j \in 1 .. Max : Visited[j] = 0
      BY <1>2, <2>2, VisitedType DEF Empty
    <3> DEFINE T == {j \in 0 .. Max : z[j] = 0}
    <3>2. 0 \in T /\ \A j \in 0 .. Max : j < Max /\ j \in T => j + 1 \in T
      BY <1>1, <3>1 DEF Sums
    <3>3. 0 .. Max \subseteq T
      <4> HIDE DEF T
      <4> QED  BY <1>1, <3>2, Climb DEF Climbs
    <3> QED  BY <1>1, <1>2, <2>2, <3>3
  <2> QED  BY <2>1, <2>2
<1>5. ASSUME NEW k \in hits PROVE FALSE
  <2>1. k + 1 \in 0 .. Max /\ k + 1 <= Visits /\ off < z[k + 1] /\ Visits \in 0 .. Max
    BY <1>1, <1>2, <1>3
  <2>2. z[k + 1] <= z[Visits]
    BY <1>1, <2>1, SumsGrow
  <2>3. z[k + 1] \in Nat /\ z[Visits] \in Nat
    BY <1>1, <2>1 DEF Sums
  <2> QED  BY <1>4, <2>1, <2>2, <2>3
<1>6. hits = {}
  BY <1>5
<1> QED  BY <1>6 DEF FindEntry

LEMMA SpanExists ==
    ASSUME RingIInv, NEW off \in Nat, NEW z, Totals(z), off < z[Live]
    PROVE  \E k \in 1 .. Live : Spans(z, k, off)
<1>1. Visited \in [1 .. Max -> Nat] /\ Sums(z, Visited, Max) /\ Live \in Nat /\ Live <= Max
  BY VisitedType, LogBytesType DEF Totals
<1> DEFINE v == [j \in 1 .. Live |-> Visited[j]]
<1>2. v \in [1 .. Live -> Nat] /\ Agree(v, Visited, Live)
  BY <1>1, MaxAssumption DEF Agree
<1> HIDE DEF v
<1>3. PICK l : Sums(l, v, Live)
  BY <1>1, <1>2, SumsExist
<1>4. \A j \in 0 .. Live : l[j] = z[j]
  BY <1>1, <1>2, <1>3, SumsAgree, MaxAssumption
<1>5. off < l[Live]
  BY <1>1, <1>4
<1>6. PICK k \in 1 .. Live : l[k - 1] <= off /\ off < l[k]
  BY <1>1, <1>2, <1>3, <1>5, SumsLocate
<1>7. k \in 0 .. Live /\ k - 1 \in 0 .. Live
  BY <1>1
<1>8. l[k - 1] = z[k - 1] /\ l[k] = z[k]
  BY <1>4, <1>7
<1> QED  BY <1>6, <1>8 DEF Spans

(***************************************************************************)
(* A lookup answers with the byte of the concatenation, or NULL past it.   *)
(***************************************************************************)
LEMMA FindOne ==
    ASSUME RingIInv, NEW off \in Nat
    PROVE  FindEntry(off) = IF off < Len(Concatenated) THEN Concatenated[off + 1]
                            ELSE NotFound
<1> USE MaxAssumption
<1>1. PICK z : Totals(z)
  BY TotalsExist
<1>2. PICK c : Concats(c, LogBytes, Live, ByteName) /\ Concatenated = c[Live]
  BY ConcatenatedIs
<1>3. /\ Live \in Nat /\ Live <= Max /\ Max \in Nat
      /\ LogBytes \in [1 .. Live -> Seq(ByteName)]
      /\ \A k \in 1 .. Live : /\ Len(LogBytes[k]) = Visited[k]
                              /\ \A b \in 1 .. Visited[k] :
                                   LogBytes[k][b] = [slot |-> Pos(k - 1), byte |-> b - 1]
  BY LogBytesType, MaxAssumption
<1>4. Visited \in [1 .. Max -> Nat] /\ Sums(z, Visited, Max)
  BY <1>1, VisitedType DEF Totals
<1>5. Lengths(LogBytes, Live) \in [1 .. Live -> Nat]
      /\ Agree(Lengths(LogBytes, Live), Visited, Live)
  <2>1. \A k \in 1 .. Live : Visited[k] \in Nat
    BY <1>3, <1>4
  <2> QED  BY <1>3, <2>1 DEF Lengths, Agree
<1>6. PICK l : Sums(l, Lengths(LogBytes, Live), Live)
  <2>1. Live \in Nat /\ Lengths(LogBytes, Live) \in [1 .. Live -> Nat]
    BY <1>3, <1>5
  <2> QED  BY <2>1, SumsExist
<1>7. \A k \in 0 .. Live : l[k] = z[k]
  <2>1. Live \in Nat /\ Max \in Nat /\ Live <= Max
    BY <1>3
  <2>2. Sums(z, Visited, Max)
    BY <1>4
  <2>3. Agree(Lengths(LogBytes, Live), Visited, Live)
    BY <1>5
  <2> QED  BY <1>6, <2>1, <2>2, <2>3, SumsAgree
<1>8. Len(Concatenated) = z[Live]
  <2>1. Live \in Nat /\ Live \in 0 .. Live
    BY <1>3
  <2>2. Concats(c, LogBytes, Live, ByteName)
    BY <1>2
  <2>3. Len(c[Live]) = l[Live]
    BY <1>6, <2>1, <2>2, ConcatsLength
  <2>4. Concatenated = c[Live]
    BY <1>2
  <2>5. l[Live] = z[Live]
    BY <1>7, <2>1
  <2> QED  BY <2>3, <2>4, <2>5
<1>9. CASE off < Len(Concatenated)
  <2>1. PICK k \in 1 .. Live : Spans(z, k, off)
    BY <1>1, <1>8, <1>9, SpanExists
  <2>2. FindEntry(off) = [slot |-> Pos(k - 1), byte |-> off - z[k - 1]]
    BY <1>1, <2>1, FindHit DEF FoundAt
  <2>3. z[k - 1] <= off /\ off < z[k] /\ z[k - 1] \in Nat /\ Visited[k] \in Nat
    <3>1. k \in 1 .. Max /\ k - 1 \in 0 .. Max
      BY <1>3
    <3>2. z[k - 1] \in Nat /\ Visited[k] \in Nat
      BY <1>4, <3>1 DEF Sums
    <3> QED  BY <2>1, <3>2 DEF Spans
  <2>4. z[k] = z[k - 1] + Visited[k]
    BY <1>3, <1>4 DEF Sums
  <2> DEFINE b == (off - z[k - 1]) + 1
  <2>5. b \in 1 .. Visited[k] /\ b - 1 = off - z[k - 1] /\ z[k - 1] + b = off + 1
    BY <2>3, <2>4
  <2> HIDE DEF b
  <2>6. b \in 1 .. Len(LogBytes[k]) /\ l[k - 1] = z[k - 1]
    BY <1>3, <1>7, <2>5
  <2>7. c[Live][l[k - 1] + b] = LogBytes[k][b]
    <3>1. Concats(c, LogBytes, Live, ByteName) /\ Live \in Nat
      BY <1>2, <1>3
    <3>2. Places(c[Live], l, LogBytes, Live)
      BY <1>6, <3>1, ConcatsPlace
    <3> QED  BY <2>6, <3>2 DEF Places
  <2>8. Concatenated[off + 1] = [slot |-> Pos(k - 1), byte |-> off - z[k - 1]]
    BY <1>2, <1>3, <2>5, <2>6, <2>7
  <2> QED  BY <1>9, <2>2, <2>8
<1>10. CASE ~(off < Len(Concatenated))
  BY <1>1, <1>8, <1>10, FindMiss
<1> QED  BY <1>9, <1>10

LEMMA FindFromInv == RingIInv => FindIsExact
<1> SUFFICES ASSUME RingIInv PROVE FindIsExact
  OBVIOUS
<1>1. Len(Concatenated) \in Nat
  <2>1. PICK c : Concats(c, LogBytes, Live, ByteName) /\ Concatenated = c[Live]
    BY ConcatenatedIs
  <2>2. Live \in 0 .. Live
    BY LogBytesType
  <2>3. Concatenated \in Seq(ByteName)
    BY <2>1, <2>2 DEF Concats
  <2> QED  BY <2>3
<1>2. \A off \in 0 .. Len(Concatenated) + 1 : off \in Nat
  BY <1>1
<1> QED  BY <1>2, FindOne DEF FindIsExact

(***************************************************************************)
(* aesd_circular_buffer_find_entry_offset_for_fpos answers every offset    *)
(* with the byte that is there when all strings are put end to end, and    *)
(* says NULL exactly past the last one, whatever was added and overwritten.*)
(***************************************************************************)
THEOREM LookupIsExact == BufferSpec => []FindIsExact
  BY FindFromInv, RingInvariant, PTL DEF RingIInv

-----------------------------------------------------------------------------
(* The driver. *)

(***************************************************************************)
(* The holder of the lock and the program counters agree; and a call is    *)
(* recorded for as long as it is inside.                                   *)
(***************************************************************************)
CallMatches == \A h \in Handle :
    /\ pc[h] = "read" => call[h] \in [op : {"read"}, count : Count]
    /\ pc[h] \in {"write", "copy"} => call[h] \in [op : {"write"}, data : Data]

LockInv == \A h \in Handle : pc[h] \in {"read", "write", "copy"} <=> owner = h

(***************************************************************************)
(* Memory.  The slots that hold a line have a block each, that nobody else *)
(* has; the line under construction has its own, large enough, once there  *)
(* is room for the bytes of the call.                                      *)
(***************************************************************************)
Used == {i \in Slot : full \/ i < in_offs}

EntriesInv == loaded =>
    /\ \A i \in Used : /\ entry[i].buffptr \in heap \ {temp.buffptr}
                       /\ entry[i].size \in 1 .. Len(mem[entry[i].buffptr])
    /\ \A i, j \in Used : entry[i].buffptr = entry[j].buffptr => i = j

TempInv ==
    /\ temp.buffptr \in Ptr => /\ temp.buffptr \in heap
                               /\ temp.size <= Len(mem[temp.buffptr])
    /\ temp.buffptr = ZeroPtr => temp.size = 0

RoomInv == \A h \in Handle : pc[h] = "copy" =>
    \/ temp.buffptr = ZeroPtr /\ call[h].data = <<>>
    \/ /\ temp.buffptr \in Ptr
       /\ temp.size + Len(call[h].data) <= Len(mem[temp.buffptr])

LoadInv == ~loaded => \A h \in Handle : pc[h] = "closed"

MemInv == EntriesInv /\ TempInv /\ RoomInv /\ LoadInv

IInv == DeviceTypeOK /\ RingInv /\ LockInv /\ CallMatches /\ MemInv

LEMMA OneInsideFromLockInv == DeviceTypeOK /\ LockInv => OneInside
  BY HandleAssumption DEF DeviceTypeOK, LockInv, OneInside, Inside

(***************************************************************************)
(* Blocks of memory keep being sequences of bytes.                         *)
(***************************************************************************)
LEMMA GarbageIsByte == Garbage \in Byte
  BY Zenon DEF Byte

LEMMA BlankType == ASSUME NEW n \in Nat
                  PROVE  Blank(n) \in Seq(Byte) /\ Len(Blank(n)) = n
<1>1. Blank(n) \in Seq(Byte)
  BY GarbageIsByte DEF Blank
<1>2. Len(Blank(n)) = n
  BY DEF Blank
<1> QED  BY <1>1, <1>2

LEMMA GrownType ==
    ASSUME NEW s \in Seq(Byte), NEW n \in Nat
    PROVE  Grown(s, n) \in Seq(Byte) /\ Len(Grown(s, n)) = n
<1>1. \A i \in 1 .. n : (IF i <= Len(s) THEN s[i] ELSE Garbage) \in Byte
  BY GarbageIsByte
<1>2. Grown(s, n) \in Seq(Byte)
  BY <1>1 DEF Grown
<1>3. Len(Grown(s, n)) = n
  BY DEF Grown
<1> QED  BY <1>2, <1>3

LEMMA OverwriteType ==
    ASSUME NEW s \in Seq(Byte), NEW at \in Nat, NEW d \in Seq(Byte)
    PROVE  Overwrite(s, at, d) \in Seq(Byte) /\ Len(Overwrite(s, at, d)) = Len(s)
<1>1. \A i \in 1 .. Len(s) :
        (IF i > at /\ i <= at + Len(d) THEN d[i - at] ELSE s[i]) \in Byte
  OBVIOUS
<1>2. Overwrite(s, at, d) \in Seq(Byte)
  BY <1>1 DEF Overwrite
<1>3. Len(Overwrite(s, at, d)) = Len(s)
  BY DEF Overwrite
<1> QED  BY <1>2, <1>3

LEMMA PrefixType ==
    ASSUME NEW s \in Seq(Byte), NEW k \in 0 .. Len(s)
    PROVE  SubSeq(s, 1, k) \in Seq(Byte)
  OBVIOUS

(***************************************************************************)
(* Initially, and after the module is inserted, the device is empty.       *)
(***************************************************************************)
LEMMA InitInv == Init => IInv
<1> SUFFICES ASSUME Init PROVE IInv
  OBVIOUS
<1>1. BufferTypeOK /\ RingInv
  BY BufferInitInv DEF Init, RingIInv
<1>2. DeviceTypeOK
  <2>1. temp \in [buffptr : Ptr \cup {NULL, ZeroPtr}, size : Nat]
    BY DEF Init, Clean
  <2>2. mem \in [Ptr -> Seq(Byte)]
    BY DEF Init
  <2>3. pc \in [Handle -> {"closed", "open", "lock", "read", "write", "copy"}]
    BY DEF Init
  <2>4. call \in [Handle -> Calls \cup {NoCall}]
    BY DEF Init
  <2>5. loaded \in BOOLEAN /\ owner \in Handle \cup {Nobody} /\ heap \subseteq Ptr
        /\ faulted \in BOOLEAN
    BY DEF Init
  <2> QED  BY <1>1, <2>1, <2>2, <2>3, <2>4, <2>5, Zenon DEF DeviceTypeOK
<1>3. LockInv /\ CallMatches
  BY HandleAssumption DEF Init, LockInv, CallMatches
<1>4. Used = {} /\ temp.buffptr \notin Ptr \cup {ZeroPtr}
  BY PtrAssumption, ZeroPtrAssumption, MaxAssumption DEF Init, Clean, BufferInit, Used, Slot
<1>5. MemInv
  BY <1>4 DEF Init, MemInv, EntriesInv, TempInv, RoomInv, LoadInv
<1> QED  BY <1>1, <1>2, <1>3, <1>5 DEF IInv

(***************************************************************************)
(* A step that leaves the ring, the memory and the calls inside alone, or  *)
(* ends one, disturbs nothing of MemInv.                                   *)
(***************************************************************************)
LEMMA MemUnchanged ==
    ASSUME MemInv, UNCHANGED <<bufVars, loaded, devVars>>,
           \A h \in Handle : pc'[h] = "copy" => pc[h] = "copy" /\ call'[h] = call[h],
           loaded \/ pc' = pc
    PROVE  MemInv'
  BY DEF MemInv, EntriesInv, TempInv, RoomInv, LoadInv, Used, bufVars, devVars

(***************************************************************************)
(* NoDanglingEntry is what MemInv says of the slots of the log.            *)
(***************************************************************************)
LEMMA NoDanglingFromInv == IInv => NoDanglingEntry
<1> SUFFICES ASSUME IInv, loaded PROVE NoDanglingEntry
  BY DEF NoDanglingEntry
<1> USE DEF IInv, DeviceTypeOK
<1>1. LiveSlots \subseteq Used
  <2> SUFFICES ASSUME NEW k \in 0 .. Live - 1 PROVE Pos(k) \in Used
    BY DEF LiveSlots
  <2>1. Live = IF full THEN Max ELSE in_offs
    BY LiveCount DEF RingIInv
  <2>2. k \in Slot /\ out_offs \in Slot /\ in_offs \in Slot
    BY <2>1, MaxAssumption DEF BufferTypeOK, Slot
  <2>3. /\ Pos(k) \in Slot
        /\ Pos(k) = IF out_offs + k < Max THEN out_offs + k ELSE out_offs + k - Max
    BY <2>2, PosCases
  <2>4. CASE full
    BY <2>3, <2>4 DEF Used
  <2>5. CASE ~full
    <3>1. out_offs = 0 /\ k < in_offs
      BY <2>1, <2>2, <2>5, MaxAssumption DEF RingInv, Slot
    <3>2. Pos(k) = k
      BY <2>2, <2>3, <3>1, MaxAssumption DEF Slot
    <3> QED  BY <2>3, <3>1, <3>2 DEF Used
  <2> QED  BY <2>4, <2>5
<1> QED  BY <1>1 DEF MemInv, EntriesInv, TempInv, NoDanglingEntry

(***************************************************************************)
(* The steps that leave the device alone.                                  *)
(***************************************************************************)
LEMMA OuterSteps ==
    ASSUME IInv, NEW h \in Handle,
           Open(h) \/ Release(h) \/ Enter(h) \/ Interrupted(h)
    PROVE  IInv'
<1> USE DEF IInv
<1>1. BufferTypeOK' /\ RingInv'
  BY DEF Open, Release, Enter, Interrupted, bufVars, DeviceTypeOK, BufferTypeOK, RingInv
<1>2. DeviceTypeOK'
  <2>1. CASE Open(h)
    BY <1>1, <2>1 DEF Open, DeviceTypeOK, devVars
  <2>2. CASE Release(h)
    BY <1>1, <2>2 DEF Release, DeviceTypeOK, devVars
  <2>3. CASE Enter(h)
    BY <1>1, <2>3 DEF Enter, DeviceTypeOK, devVars
  <2>4. CASE Interrupted(h)
    BY <1>1, <2>4 DEF Interrupted, DeviceTypeOK, devVars
  <2> QED  BY <2>1, <2>2, <2>3, <2>4
<1>3. LockInv' /\ CallMatches'
  BY DEF Open, Release, Enter, Interrupted, DeviceTypeOK, LockInv, CallMatches
<1>4. LoadInv' /\ EntriesInv' /\ TempInv' /\ RoomInv'
  BY DEF Open, Release, Enter, Interrupted, DeviceTypeOK, MemInv, LoadInv, EntriesInv,
         TempInv, RoomInv, Used, bufVars, devVars
<1> QED  BY <1>1, <1>2, <1>3, <1>4 DEF MemInv

LEMMA LockStep ==
    ASSUME IInv, NEW h \in Handle, NEW c \in Calls, Lock(h, c)
    PROVE  IInv'
<1> USE DEF IInv
<1>0. c.op \in {"read", "write"} /\ (c.op = "read" => c \in [op : {"read"}, count : Count])
      /\ (c.op = "write" => c \in [op : {"write"}, data : Data])
  BY DEF Calls
<1>1. BufferTypeOK' /\ RingInv'
  BY DEF Lock, bufVars, DeviceTypeOK, BufferTypeOK, RingInv
<1>2. DeviceTypeOK'
  BY <1>0, <1>1 DEF Lock, DeviceTypeOK, devVars
<1>3. LockInv'
  BY <1>0, HandleAssumption DEF Lock, LockFree, LockInv, DeviceTypeOK
<1>4. CallMatches'
  BY <1>0 DEF Lock, CallMatches, DeviceTypeOK
<1>5. loaded
  BY DEF MemInv, LoadInv, Lock
<1>6. MemInv'
  BY <1>0, <1>5, MemUnchanged DEF Lock, DeviceTypeOK
<1> QED  BY <1>1, <1>2, <1>3, <1>4, <1>6

(***************************************************************************)
(* aesd_read changes neither the ring nor its memory.                      *)
(***************************************************************************)
LEMMA ReadStep ==
    ASSUME IInv, NEW h \in Handle, Read(h)
    PROVE  IInv'
<1> USE DEF IInv
<1>0. /\ pc[h] = "read" /\ Return(h)
      /\ UNCHANGED <<bufVars, loaded, devVars, faulted>>
  BY DEF Read
<1>1. BufferTypeOK' /\ RingInv'
  BY <1>0 DEF bufVars, DeviceTypeOK, BufferTypeOK, RingInv
<1>2. DeviceTypeOK'
  BY <1>0, <1>1 DEF DeviceTypeOK, devVars, Return, Unlock
<1>3. LockInv' /\ CallMatches'
  BY <1>0, HandleAssumption DEF LockInv, CallMatches, DeviceTypeOK, Return, Unlock
<1>4. loaded
  BY <1>0 DEF MemInv, LoadInv
<1>5. MemInv'
  BY <1>0, <1>4, MemUnchanged DEF Return, DeviceTypeOK
<1> QED  BY <1>1, <1>2, <1>3, <1>5


(***************************************************************************)
(* The first half of aesd_write: the line under construction gets a block  *)
(* with room for n bytes, or none (n = 0); the ring's blocks stay.         *)
(***************************************************************************)
Roomy(n) == /\ temp' \in [buffptr : Ptr \cup {NULL, ZeroPtr}, size : Nat]
            /\ temp'.size = temp.size
            /\ heap' \subseteq Ptr
            /\ mem' \in [Ptr -> Seq(Byte)]
            /\ \/ temp'.buffptr = ZeroPtr /\ n = 0
               \/ /\ temp'.buffptr \in heap'
                  /\ Len(mem'[temp'.buffptr]) = n
            /\ loaded => \A i \in Used :
                  /\ entry[i].buffptr \in heap' \ {temp'.buffptr}
                  /\ mem'[entry[i].buffptr] = mem[entry[i].buffptr]

LEMMA KmallocRoom ==
    ASSUME DeviceTypeOK, EntriesInv, NEW n \in Nat, Kmalloc(n)
    PROVE  Roomy(n)
<1> USE DEF DeviceTypeOK
<1>1. \A i \in Used : loaded => entry[i].buffptr \in heap
  BY DEF EntriesInv
<1>2. CASE n = 0
  BY <1>1, <1>2, ZeroPtrAssumption DEF Kmalloc, Roomy
<1>3. CASE n > 0
  <2>1. PICK p \in Free : /\ temp' = [temp EXCEPT !.buffptr = p]
                          /\ heap' = heap \cup {p}
                          /\ mem' = [mem EXCEPT ![p] = Blank(n)]
    BY <1>3 DEF Kmalloc
  <2>2. p \in Ptr /\ p \notin heap
    BY <2>1 DEF Free
  <2>3. Blank(n) \in Seq(Byte) /\ Len(Blank(n)) = n
    BY BlankType
  <2> QED  BY <1>1, <2>1, <2>2, <2>3 DEF Roomy
<1> QED  BY <1>2, <1>3

LEMMA KreallocRoom ==
    ASSUME DeviceTypeOK, EntriesInv, TempInv, NEW n \in Nat, temp.size > 0, Krealloc(n), n > 0
    PROVE  Roomy(n)
<1> USE DEF DeviceTypeOK
<1>1. CASE temp.buffptr = NULL
  BY <1>1, KmallocRoom DEF Krealloc
<1>2. CASE temp.buffptr # NULL
  <2>1. PICK p \in Free \cup {temp.buffptr} :
            /\ temp' = [temp EXCEPT !.buffptr = p]
            /\ heap' = (heap \ {temp.buffptr}) \cup {p}
            /\ mem' = [mem EXCEPT ![temp.buffptr] = <<>>,
                                  ![p] = Grown(mem[temp.buffptr], n)]
    BY <1>2 DEF Krealloc
  <2>2. temp.buffptr \in Ptr /\ p \in Ptr
    BY <1>2, <2>1 DEF Free, TempInv
  <2>3. Grown(mem[temp.buffptr], n) \in Seq(Byte) /\ Len(Grown(mem[temp.buffptr], n)) = n
    BY <2>2, GrownType
  <2>4. mem' \in [Ptr -> Seq(Byte)] /\ mem'[p] = Grown(mem[temp.buffptr], n)
    <3> HIDE DEF Grown
    <3>1. <<>> \in Seq(Byte)
      OBVIOUS
    <3>2. mem' \in [Ptr -> Seq(Byte)]
      BY <2>1, <2>2, <2>3, <3>1
    <3>3. mem'[p] = Grown(mem[temp.buffptr], n)
      BY <2>1, <2>2
    <3> QED  BY <3>2, <3>3
  <2>5. ASSUME loaded, NEW i \in Used
        PROVE  /\ entry[i].buffptr \in heap' \ {temp'.buffptr}
               /\ mem'[entry[i].buffptr] = mem[entry[i].buffptr]
    <3>1. entry[i].buffptr \in heap \ {temp.buffptr}
      BY <2>5 DEF EntriesInv
    <3> QED  BY <2>1, <2>2, <3>1 DEF Free
  <2> QED  BY <2>1, <2>2, <2>3, <2>4, <2>5 DEF Roomy
<1> QED  BY <1>1, <1>2

LEMMA WriteRoom ==
    ASSUME IInv, NEW h \in Handle, WriteAlloc(h)
    PROVE  /\ call[h].data \in Seq(Byte) /\ Len(call[h].data) \in Nat
           /\ Roomy(temp.size + Len(call[h].data))
<1> USE DEF IInv
<1>1. call[h].data \in Seq(Byte) /\ Len(call[h].data) \in Nat
  BY DataAssumption DEF WriteAlloc, CallMatches
<1>2. CASE NewLine
  <2>1. temp.size + Len(call[h].data) = Len(call[h].data)
    BY <1>1, <1>2 DEF NewLine
  <2> QED  BY <1>1, <1>2, <2>1, KmallocRoom DEF WriteAlloc, MemInv, DeviceTypeOK
<1>3. CASE ~NewLine
  BY <1>1, <1>3, KreallocRoom DEF WriteAlloc, NewLine, MemInv, DeviceTypeOK
<1> QED  BY <1>1, <1>2, <1>3

LEMMA WriteAllocStep ==
    ASSUME IInv, NEW h \in Handle, WriteAlloc(h)
    PROVE  IInv'
<1> USE DEF IInv
<1> DEFINE n == temp.size + Len(call[h].data)
<1>0. /\ pc[h] = "write" /\ pc' = [pc EXCEPT ![h] = "copy"]
      /\ UNCHANGED <<bufVars, loaded, owner, call, f_pos, answer, faulted>>
  BY DEF WriteAlloc
<1>1. call[h].data \in Seq(Byte) /\ Len(call[h].data) \in Nat
  BY WriteRoom
<1>2. Roomy(n)
  BY WriteRoom
<1>3. BufferTypeOK' /\ RingInv'
  BY <1>0 DEF bufVars, DeviceTypeOK, BufferTypeOK, RingInv
<1>4. DeviceTypeOK'
  BY <1>0, <1>2, <1>3 DEF DeviceTypeOK, Roomy
<1>5. LockInv' /\ CallMatches'
  BY <1>0 DEF LockInv, CallMatches, DeviceTypeOK
<1>6. loaded
  BY <1>0 DEF MemInv, LoadInv
<1>7. EntriesInv'
  BY <1>0, <1>2, <1>6 DEF EntriesInv, Used, bufVars, Roomy, MemInv
<1>8. TempInv'
  BY <1>1, <1>2, ZeroPtrAssumption DEF TempInv, Roomy, DeviceTypeOK
<1>9. RoomInv'
  <2> SUFFICES ASSUME NEW g \in Handle, pc'[g] = "copy"
               PROVE  \/ temp'.buffptr = ZeroPtr /\ call'[g].data = <<>>
                      \/ /\ temp'.buffptr \in Ptr
                         /\ temp'.size + Len(call'[g].data) <= Len(mem'[temp'.buffptr])
    BY DEF RoomInv
  <2>1. g = h /\ call' = call
    BY <1>0, HandleAssumption DEF LockInv, DeviceTypeOK
  <2>2. CASE temp'.buffptr = ZeroPtr /\ n = 0
    BY <1>1, <1>2, <2>1, <2>2 DEF DeviceTypeOK
  <2>3. CASE temp'.buffptr \in heap' /\ Len(mem'[temp'.buffptr]) = n
    BY <1>1, <1>2, <2>1, <2>3 DEF Roomy, DeviceTypeOK
  <2> QED  BY <1>2, <2>2, <2>3 DEF Roomy
<1> QED  BY <1>0, <1>3, <1>4, <1>5, <1>6, <1>7, <1>8, <1>9 DEF MemInv, LoadInv

(***************************************************************************)
(* A failed allocation only forgets a pointer.                             *)
(***************************************************************************)
LEMMA WriteNoMemStep ==
    ASSUME IInv, NEW h \in Handle, WriteNoMem(h)
    PROVE  IInv'
<1> USE DEF IInv
<1>0. /\ pc[h] = "write" /\ Return(h) /\ temp' = [temp EXCEPT !.buffptr = NULL]
      /\ faulted' = TRUE /\ UNCHANGED <<bufVars, loaded, heap, mem, f_pos, answer>>
  BY DEF WriteNoMem
<1>1. BufferTypeOK' /\ RingInv'
  BY <1>0 DEF bufVars, DeviceTypeOK, BufferTypeOK, RingInv
<1>2. DeviceTypeOK'
  BY <1>0, <1>1 DEF DeviceTypeOK, Return, Unlock
<1>3. LockInv' /\ CallMatches'
  BY <1>0, HandleAssumption DEF LockInv, CallMatches, DeviceTypeOK, Return, Unlock
<1>4. \A g \in Handle : pc'[g] # "copy"
  BY <1>0, HandleAssumption DEF LockInv, DeviceTypeOK, Return
<1>5. NULL \notin heap /\ temp'.buffptr = NULL
  BY <1>0, PtrAssumption DEF DeviceTypeOK
<1>6. EntriesInv' /\ TempInv' /\ RoomInv'
  BY <1>0, <1>4, <1>5, PtrAssumption, ZeroPtrAssumption
     DEF MemInv, EntriesInv, TempInv, RoomInv, Used, bufVars
<1>7. LoadInv'
  BY <1>0 DEF MemInv, LoadInv
<1> QED  BY <1>1, <1>2, <1>3, <1>6, <1>7 DEF MemInv

(***************************************************************************)
(* The second half of aesd_write.  First the bytes copied: the line with   *)
(* its k new bytes still fits its block.                                   *)
(***************************************************************************)
Longer(k) == [temp EXCEPT !.size = @ + k]

Filled(h, k) == IF temp.buffptr = ZeroPtr THEN mem
                ELSE [mem EXCEPT ![temp.buffptr] =
                        Overwrite(@, temp.size, SubSeq(call[h].data, 1, k))]

LineAfter(h, k) == IF Longer(k).size = 0 THEN <<>>
                   ELSE SubSeq(Filled(h, k)[temp.buffptr], 1, Longer(k).size)

LEMMA CopyFits ==
    ASSUME IInv, NEW h \in Handle, pc[h] = "copy", NEW k \in 0 .. Len(call[h].data)
    PROVE  /\ Longer(k) \in [buffptr : Ptr \cup {NULL, ZeroPtr}, size : Nat]
           /\ Longer(k).buffptr = temp.buffptr
           /\ Filled(h, k) \in [Ptr -> Seq(Byte)]
           /\ \A p \in Ptr : Len(Filled(h, k)[p]) = Len(mem[p])
           /\ \/ temp.buffptr = ZeroPtr /\ Longer(k).size = 0
              \/ /\ temp.buffptr \in Ptr /\ temp.buffptr \in heap
                 /\ Longer(k).size <= Len(mem[temp.buffptr])
<1> USE DEF IInv, MemInv, DeviceTypeOK
<1> DEFINE d == call[h].data
           s == SubSeq(d, 1, k)
           o == Overwrite(mem[temp.buffptr], temp.size, s)
<1>1. d \in Seq(Byte) /\ k \in Nat /\ k <= Len(d) /\ Len(d) \in Nat
  BY DataAssumption DEF CallMatches
<1>2. s \in Seq(Byte)
  BY <1>1, PrefixType
<1>3. Longer(k) = [buffptr |-> temp.buffptr, size |-> temp.size + k]
  BY DEF Longer
<1>4. CASE temp.buffptr = ZeroPtr /\ d = <<>>
  <2>1. k = 0 /\ temp.size = 0
    BY <1>1, <1>4 DEF TempInv
  <2> QED  BY <1>3, <1>4, <2>1 DEF Filled
<1>5. CASE temp.buffptr \in Ptr /\ temp.size + Len(d) <= Len(mem[temp.buffptr])
  <2>1. temp.buffptr # ZeroPtr /\ temp.buffptr \in heap
    BY <1>5, ZeroPtrAssumption DEF TempInv
  <2>2. mem[temp.buffptr] \in Seq(Byte) /\ temp.size \in Nat
    BY <1>5
  <2>3. o \in Seq(Byte) /\ Len(o) = Len(mem[temp.buffptr])
    BY <1>2, <2>2, OverwriteType
  <2>4. Filled(h, k) = [mem EXCEPT ![temp.buffptr] = o]
    BY <2>1 DEF Filled
  <2>5. /\ Filled(h, k) \in [Ptr -> Seq(Byte)]
        /\ \A p \in Ptr : Len(Filled(h, k)[p]) = Len(mem[p])
    <3> HIDE DEF o
    <3> QED  BY <2>3, <2>4
  <2>6. temp.size + k <= Len(mem[temp.buffptr])
    BY <1>1, <1>5, <2>2
  <2> QED  BY <1>1, <1>3, <1>5, <2>1, <2>2, <2>5, <2>6
<1> QED  BY <1>4, <1>5 DEF RoomInv

(***************************************************************************)
(* Committing a line: its block goes to slot in_offs, and the block freed  *)
(* is the one that slot had when the ring was full.                        *)
(***************************************************************************)
LEMMA CommitStep ==
    ASSUME IInv, NEW h \in Handle, pc[h] = "copy", NEW k \in 0 .. Len(call[h].data),
           loaded' = loaded, Longer(k).size > 0, Commit(Longer(k), Filled(h, k))
    PROVE  /\ BufferTypeOK' /\ RingInv' /\ EntriesInv' /\ TempInv'
           /\ temp' = Clean /\ heap' \subseteq Ptr /\ mem' \in [Ptr -> Seq(Byte)]
<1> USE DEF IInv, MemInv
<1> DEFINE t == Longer(k)
           m == Filled(h, k)
           b == temp.buffptr
<1>1. /\ t \in [buffptr : Ptr, size : Nat] /\ t.buffptr = b /\ b \in Ptr /\ b \in heap
      /\ m \in [Ptr -> Seq(Byte)] /\ \A p \in Ptr : Len(m[p]) = Len(mem[p])
      /\ t.size \in 1 .. Len(mem[b])
  BY CopyFits DEF DeviceTypeOK
<1>2. /\ AddEntry(t) /\ temp' = Clean /\ heap' = heap \ {ret'}
      /\ mem' = IF ret' = NULL THEN m ELSE [m EXCEPT ![ret'] = <<>>]
  BY DEF Commit, AfterCommit
<1>3. RingIInv /\ RingIInv'
  BY <1>1, <1>2, AddEntryInv DEF RingIInv, DeviceTypeOK
<1>4. NULL \notin Ptr /\ temp'.buffptr = NULL /\ heap \subseteq Ptr
  BY <1>2, PtrAssumption DEF Clean, DeviceTypeOK
<1>5. entry' = [entry EXCEPT ![in_offs] = t] /\ in_offs \in Slot /\ entry \in [Slot -> Entry]
  BY <1>2, <1>3 DEF AddEntry, RingIInv, BufferTypeOK
<1>6. ret' = IF full THEN entry[in_offs].buffptr ELSE NULL
  BY <1>2 DEF AddEntry, Evicted
<1>7. ASSUME NEW i \in Used', i # in_offs PROVE i \in Used
  <2>1. CASE full
    BY <1>7, <2>1 DEF Used
  <2>2. CASE ~full
    <3>1. out_offs' = 0 /\ (full' <=> in_offs' = 0)
          /\ in_offs' = IF in_offs = Max - 1 THEN 0 ELSE in_offs + 1
      BY <1>2, <1>3, <1>5, <2>2, NextSlotCases
         DEF AddEntry, OutAfter, Meet, RingIInv, RingInv
    <3>2. i \in Slot /\ (full' \/ i < in_offs')
      BY DEF Used
    <3> QED  BY <1>5, <1>7, <3>1, <3>2, MaxAssumption DEF Used, Slot
  <2> QED  BY <2>1, <2>2
<1>8. mem' \in [Ptr -> Seq(Byte)]
  <2>1. <<>> \in Seq(Byte)
    OBVIOUS
  <2> HIDE DEF m
  <2> QED  BY <1>1, <1>2, <2>1
<1>9. \A p \in Ptr : p # ret' => Len(mem'[p]) = Len(mem[p])
  <2> HIDE DEF m
  <2> QED  BY <1>1, <1>2
<1>10. ASSUME loaded PROVE full => in_offs \in Used /\ ret' \in heap \ {b}
  BY <1>5, <1>6, <1>10 DEF Used, EntriesInv
<1>11. ASSUME loaded, NEW i \in Used, i # in_offs
       PROVE  /\ entry[i].buffptr \in heap' \ {b}
              /\ entry[i].size \in 1 .. Len(mem'[entry[i].buffptr])
  <2>1. entry[i].buffptr \in heap \ {b} /\ entry[i].size \in 1 .. Len(mem[entry[i].buffptr])
    BY <1>11 DEF EntriesInv
  <2>2. entry[i].buffptr # ret'
    BY <1>4, <1>5, <1>6, <1>10, <1>11, <2>1 DEF EntriesInv
  <2> QED  BY <1>2, <1>4, <1>9, <2>1, <2>2
<1>12. ASSUME loaded PROVE b \in heap' /\ t.size \in 1 .. Len(mem'[b])
  <2>1. b # ret'
    BY <1>1, <1>4, <1>6, <1>10, <1>12
  <2> QED  BY <1>1, <1>2, <1>9, <2>1
<1>13. EntriesInv'
  <2> SUFFICES ASSUME loaded
               PROVE  /\ \A i \in Used' : /\ entry'[i].buffptr \in heap' \ {temp'.buffptr}
                                          /\ entry'[i].size \in 1 .. Len(mem'[entry'[i].buffptr])
                      /\ \A i, j \in Used' : entry'[i].buffptr = entry'[j].buffptr => i = j
    BY DEF EntriesInv
  <2>1. \A i \in Used' : i \in Slot
    BY DEF Used
  <2>2. NULL \notin heap'
    BY <1>2, <1>4
  <2>3. ASSUME NEW i \in Used'
        PROVE  /\ entry'[i].buffptr \in heap' \ {temp'.buffptr}
               /\ entry'[i].size \in 1 .. Len(mem'[entry'[i].buffptr])
    <3>1. CASE i = in_offs
      BY <1>1, <1>4, <1>5, <1>12, <2>2, <3>1
    <3>2. CASE i # in_offs
      BY <1>4, <1>5, <1>7, <1>11, <2>1, <2>2, <3>2
    <3> QED  BY <3>1, <3>2
  <2>4. ASSUME NEW i \in Used', NEW j \in Used', entry'[i].buffptr = entry'[j].buffptr
        PROVE  i = j
    <3>1. CASE i = in_offs /\ j # in_offs
      BY <1>1, <1>5, <1>7, <1>11, <2>1, <2>4, <3>1
    <3>2. CASE j = in_offs /\ i # in_offs
      BY <1>1, <1>5, <1>7, <1>11, <2>1, <2>4, <3>2
    <3>3. CASE i # in_offs /\ j # in_offs
      BY <1>5, <1>7, <2>1, <2>4, <3>3 DEF EntriesInv
    <3> QED  BY <3>1, <3>2, <3>3
  <2> QED  BY <2>3, <2>4
<1>14. TempInv'
  BY <1>2, <1>4, ZeroPtrAssumption DEF TempInv, Clean
<1> QED  BY <1>2, <1>3, <1>4, <1>8, <1>13, <1>14 DEF RingIInv

LEMMA WriteCopyStep ==
    ASSUME IInv, NEW h \in Handle, WriteCopy(h)
    PROVE  IInv'
<1> USE DEF IInv
<1>0. pc[h] = "copy"
  BY DEF WriteCopy
<1>1. PICK k \in 0 .. Len(call[h].data) :
        /\ \/ /\ Occurs(NL, LineAfter(h, k)) \/ Occurs(Garbage, LineAfter(h, k))
              /\ Commit(Longer(k), Filled(h, k))
           \/ /\ temp' = Longer(k) /\ mem' = Filled(h, k)
              /\ UNCHANGED <<bufVars, heap>>
        /\ Return(h)
        /\ faulted' = (faulted \/ k < Len(call[h].data))
        /\ UNCHANGED <<loaded, answer>>
  BY DEF WriteCopy, Longer, Filled, LineAfter
<1>2. k \in 0 .. Len(call[h].data) /\ loaded' = loaded
  BY <1>1
<1>3. /\ Longer(k) \in [buffptr : Ptr \cup {NULL, ZeroPtr}, size : Nat]
      /\ Longer(k).buffptr = temp.buffptr
      /\ Filled(h, k) \in [Ptr -> Seq(Byte)]
      /\ \A p \in Ptr : Len(Filled(h, k)[p]) = Len(mem[p])
      /\ \/ temp.buffptr = ZeroPtr /\ Longer(k).size = 0
         \/ /\ temp.buffptr \in Ptr /\ temp.buffptr \in heap
            /\ Longer(k).size <= Len(mem[temp.buffptr])
  BY <1>0, <1>2, CopyFits
<1>4. /\ BufferTypeOK' /\ RingInv' /\ EntriesInv' /\ TempInv'
      /\ temp' \in [buffptr : Ptr \cup {NULL, ZeroPtr}, size : Nat]
      /\ heap' \subseteq Ptr /\ mem' \in [Ptr -> Seq(Byte)]
  <2>1. CASE Commit(Longer(k), Filled(h, k))
             /\ (Occurs(NL, LineAfter(h, k)) \/ Occurs(Garbage, LineAfter(h, k)))
    <3>1. LineAfter(h, k) # <<>>
      BY <2>1 DEF Occurs
    <3>2. Longer(k).size > 0
      BY <1>3, <3>1 DEF LineAfter
    <3>3. Clean \in [buffptr : Ptr \cup {NULL, ZeroPtr}, size : Nat]
      BY DEF Clean
    <3> QED  BY <1>0, <1>2, <2>1, <3>2, <3>3, CommitStep
  <2>2. CASE temp' = Longer(k) /\ mem' = Filled(h, k) /\ UNCHANGED <<bufVars, heap>>
    <3>1. BufferTypeOK' /\ RingInv'
      BY <2>2 DEF bufVars, DeviceTypeOK, BufferTypeOK, RingInv
    <3>2. EntriesInv'
      BY <1>2, <1>3, <2>2 DEF MemInv, EntriesInv, Used, bufVars, DeviceTypeOK
    <3>3. TempInv'
      BY <1>3, <2>2, ZeroPtrAssumption DEF TempInv
    <3> QED  BY <1>3, <2>2, <3>1, <3>2, <3>3 DEF DeviceTypeOK
  <2> QED  BY <1>1, <2>1, <2>2
<1>5. DeviceTypeOK'
  BY <1>1, <1>4 DEF DeviceTypeOK, Return, Unlock
<1>6. LockInv' /\ CallMatches'
  BY <1>0, <1>1, HandleAssumption DEF LockInv, CallMatches, DeviceTypeOK, Return, Unlock
<1>7. RoomInv'
  BY <1>0, <1>1, HandleAssumption DEF RoomInv, LockInv, DeviceTypeOK, Return
<1>8. LoadInv'
  BY <1>0, <1>2 DEF MemInv, LoadInv
<1> QED  BY <1>4, <1>5, <1>6, <1>7, <1>8 DEF MemInv

(***************************************************************************)
(* Removing the module frees the entries' blocks, and only those; inserting*)
(* it again starts from a zeroed device.                                   *)
(***************************************************************************)
LEMMA UnloadStep == IInv /\ Unload => IInv'
<1> SUFFICES ASSUME IInv, Unload PROVE IInv'
  OBVIOUS
<1> USE DEF IInv
<1>0. /\ loaded /\ loaded' = FALSE /\ \A h \in Handle : pc[h] = "closed"
      /\ heap' = heap \ RingPtrs
      /\ mem' = [p \in Ptr |-> IF p \in RingPtrs THEN <<>> ELSE mem[p]]
      /\ UNCHANGED <<bufVars, owner, temp, pc, call>> /\ faulted' \in BOOLEAN
  BY DEF Unload, ioVars, DeviceTypeOK
<1>1. BufferTypeOK' /\ RingInv'
  BY <1>0 DEF bufVars, DeviceTypeOK, BufferTypeOK, RingInv
<1>2. mem' \in [Ptr -> Seq(Byte)]
  BY <1>0 DEF DeviceTypeOK
<1>3. DeviceTypeOK'
  BY <1>0, <1>1, <1>2 DEF DeviceTypeOK
<1>4. temp.buffptr \in Ptr => temp.buffptr \notin RingPtrs
  <2> SUFFICES ASSUME temp.buffptr \in Ptr,
                      NEW i \in Slot, entry[i].buffptr = temp.buffptr
               PROVE  FALSE
    BY DEF RingPtrs
  <2>1. i \notin Used
    BY <1>0 DEF MemInv, EntriesInv
  <2>2. i >= in_offs /\ ~full
    BY <2>1, MaxAssumption DEF Used, Slot, DeviceTypeOK, BufferTypeOK
  <2>3. entry[i] = Empty
    BY <2>2 DEF RingInv
  <2> QED  BY <2>3, PtrAssumption DEF Empty
<1>5. TempInv'
  BY <1>0, <1>4, ZeroPtrAssumption DEF MemInv, TempInv, DeviceTypeOK
<1> QED  BY <1>0, <1>1, <1>3, <1>5 DEF LockInv, CallMatches, MemInv, EntriesInv, RoomInv,
                                       LoadInv

LEMMA LoadStep == IInv /\ Load => IInv'
<1> SUFFICES ASSUME IInv, Load PROVE IInv'
  OBVIOUS
<1> USE DEF IInv
<1>0. /\ ~loaded /\ loaded' = TRUE /\ temp' = Clean /\ BufferInit'
      /\ UNCHANGED <<owner, heap, mem, pc, call, faulted>>
  BY DEF Load, BufferInit, ioVars
<1>1. BufferTypeOK' /\ RingInv'
  <2>1. (BufferInit => RingIInv)'
    BY BufferInitInv, PTL
  <2> QED  BY <1>0, <2>1 DEF RingIInv
<1>2. DeviceTypeOK'
  <2>1. Clean \in [buffptr : Ptr \cup {NULL, ZeroPtr}, size : Nat]
    BY DEF Clean
  <2> QED  BY <1>0, <1>1, <2>1 DEF DeviceTypeOK
<1>3. Used' = {} /\ temp'.buffptr \notin Ptr \cup {ZeroPtr}
  BY <1>0, PtrAssumption, ZeroPtrAssumption, MaxAssumption DEF Clean, BufferInit, Used, Slot
<1>4. EntriesInv' /\ TempInv'
  BY <1>3 DEF EntriesInv, TempInv
<1>5. RoomInv' /\ LoadInv'
  BY <1>0 DEF MemInv, RoomInv, LoadInv
<1> QED  BY <1>0, <1>1, <1>2, <1>4, <1>5 DEF LockInv, CallMatches, MemInv

LEMMA NextInv == IInv /\ [Next]_vars => IInv'
<1> SUFFICES ASSUME IInv, [Next]_vars PROVE IInv'
  OBVIOUS
<1>1. CASE Unload
  BY <1>1, UnloadStep
<1>2. CASE Load
  BY <1>2, LoadStep
<1>3. ASSUME NEW h \in Handle, Open(h) \/ Release(h) \/ Enter(h) \/ Interrupted(h)
      PROVE  IInv'
  BY <1>3, OuterSteps
<1>4. ASSUME NEW h \in Handle, LockRead(h) \/ LockWrite(h) PROVE IInv'
  <2>1. PICK c \in Calls : Lock(h, c)
    BY <1>4 DEF LockRead, LockWrite, Calls
  <2> QED  BY <2>1, LockStep
<1>5. ASSUME NEW h \in Handle, Read(h) PROVE IInv'
  BY <1>5, ReadStep
<1>6. ASSUME NEW h \in Handle, WriteAlloc(h) PROVE IInv'
  BY <1>6, WriteAllocStep
<1>7. ASSUME NEW h \in Handle, WriteNoMem(h) PROVE IInv'
  BY <1>7, WriteNoMemStep
<1>8. ASSUME NEW h \in Handle, WriteCopy(h) PROVE IInv'
  BY <1>8, WriteCopyStep
<1>9. CASE UNCHANGED vars
  BY <1>9 DEF vars, bufVars, devVars, ioVars, IInv, DeviceTypeOK, BufferTypeOK, RingInv, LockInv,
              CallMatches, MemInv, EntriesInv, TempInv, RoomInv, LoadInv, Used
<1> QED  BY <1>1, <1>2, <1>3, <1>4, <1>5, <1>6, <1>7, <1>8, <1>9 DEF Next

(***************************************************************************)
(* aesd_read and aesd_write, on any number of open files, are inside one   *)
(* at a time, and the lock is free exactly when nobody is.                 *)
(***************************************************************************)
THEOREM DriverOneInside == Spec => [](DeviceTypeOK /\ OneInside)
<1>1. IInv => DeviceTypeOK /\ OneInside
  BY OneInsideFromLockInv DEF IInv
<1> QED  BY <1>1, InitInv, NextInv, PTL DEF Spec

(***************************************************************************)
(* The ring and the line under construction only ever point at memory that *)
(* is allocated, large enough and their own, through failed allocations,   *)
(* evictions, short copies and removals of the module.                     *)
(***************************************************************************)
THEOREM DriverNoDangling == Spec => []NoDanglingEntry
  BY InitInv, NextInv, NoDanglingFromInv, PTL DEF Spec

(***************************************************************************)
(* The ring's own invariant holds of the ring inside the driver, and so a  *)
(* lookup of aesd_read finds the byte that stands at the file position.    *)
(***************************************************************************)
THEOREM DriverKeepsRing == Spec => []RingInv
  BY InitInv, NextInv, PTL DEF Spec, IInv

LEMMA RingFromInv == IInv => RingIInv
  BY DEF IInv, DeviceTypeOK, RingIInv

(***************************************************************************)
(* aesd_read's lookup answers every offset with the byte that is there when*)
(* all lines of the ring are put end to end, and NULL exactly past the end.*)
(***************************************************************************)
THEOREM DriverFindsExactly == Spec => []FindIsExact
  BY InitInv, NextInv, RingFromInv, FindFromInv, PTL DEF Spec

-----------------------------------------------------------------------------
(***************************************************************************)
(* The slots of the log are the slots that hold a line.                    *)
(***************************************************************************)
LEMMA LiveIsUsed ==
    ASSUME RingIInv, NEW k \in 1 .. Live
    PROVE  Pos(k - 1) \in Used /\ Pos(k - 1) \in Slot
<1>1. Live = IF full THEN Max ELSE in_offs
  BY LiveCount
<1>2. LogFacts
  BY LogAt
<1>3. /\ Pos(k - 1) \in Slot
      /\ Pos(k - 1) = IF out_offs + (k - 1) < Max THEN out_offs + (k - 1)
                      ELSE out_offs + (k - 1) - Max
  BY <1>2 DEF LogFacts
<1>4. CASE full
  BY <1>3, <1>4 DEF Used
<1>5. CASE ~full
  <2>1. out_offs = 0 /\ in_offs \in 0 .. Max - 1 /\ k \in 1 .. in_offs
    BY <1>1, <1>5 DEF RingIInv, RingInv, BufferTypeOK, Slot
  <2>2. Pos(k - 1) = k - 1
    BY <1>3, <2>1, MaxAssumption
  <2> QED  BY <1>3, <2>1, <2>2, MaxAssumption DEF Used
<1> QED  BY <1>4, <1>5

(***************************************************************************)
(* A lookup that found something found a byte of a line.                   *)
(***************************************************************************)
LEMMA FoundInUse ==
    ASSUME RingIInv, NEW off \in Nat, FindEntry(off) # NotFound
    PROVE  \E z : \E k \in 1 .. Live :
             /\ Totals(z) /\ Spans(z, k, off) /\ FoundAt(z, k, off)
             /\ Pos(k - 1) \in Used /\ Pos(k - 1) \in Slot
             /\ off - z[k - 1] \in Nat
             /\ off - z[k - 1] < entry[Pos(k - 1)].size
<1>1. PICK z : Totals(z)
  BY TotalsExist
<1>2. off < z[Live]
  BY <1>1, FindMiss
<1>3. PICK k \in 1 .. Live : Spans(z, k, off)
  BY <1>1, <1>2, SpanExists
<1>4. FoundAt(z, k, off)
  BY <1>1, <1>3, FindHit
<1>5. Pos(k - 1) \in Used /\ Pos(k - 1) \in Slot
  BY LiveIsUsed
<1>6. k \in 1 .. Max /\ k - 1 \in 0 .. Max
  BY LogBytesType, MaxAssumption
<1>7. z[k - 1] \in Nat /\ Visited[k] \in Nat /\ Visited[k] = entry[Pos(k - 1)].size
  BY <1>1, <1>6, VisitedType DEF Totals, Sums
<1>8. z[k] = z[k - 1] + Visited[k]
  BY <1>1, <1>6 DEF Totals, Sums
<1>9. z[k - 1] <= off /\ off < z[k]
  BY <1>3 DEF Spans
<1>10. off - z[k - 1] \in Nat /\ off - z[k - 1] < entry[Pos(k - 1)].size
  BY <1>7, <1>8, <1>9
<1> QED  BY <1>1, <1>3, <1>4, <1>5, <1>10

(***************************************************************************)
(* What a read that found a byte hands out: len bytes, not more than asked *)
(* for and not past the end of the line.                                   *)
(***************************************************************************)
LEMMA FoundBytes ==
    ASSUME IInv, NEW h \in Handle, pc[h] = "read", f_pos[h] \in Nat,
           NEW at, at = FindEntry(f_pos[h]), at # NotFound,
           NEW len, len = ReadLen(at.slot, at.byte, call[h].count)
    PROVE  /\ len \in Nat /\ at.byte \in Nat
           /\ entry[at.slot].buffptr \in Ptr
           /\ at.byte + len <= Len(mem[entry[at.slot].buffptr])
<1>1. RingIInv
  BY RingFromInv
<1>2. PICK z : \E k \in 1 .. Live :
        /\ FoundAt(z, k, f_pos[h])
        /\ Pos(k - 1) \in Used
        /\ f_pos[h] - z[k - 1] \in Nat
        /\ f_pos[h] - z[k - 1] < entry[Pos(k - 1)].size
  BY <1>1, FoundInUse
<1>3. at.slot \in Used /\ at.byte \in Nat /\ at.byte < entry[at.slot].size
  BY <1>2 DEF FoundAt
<1>4. loaded
  BY DEF IInv, MemInv, LoadInv
<1>5. /\ entry[at.slot].buffptr \in Ptr
      /\ entry[at.slot].size \in 1 .. Len(mem[entry[at.slot].buffptr])
  BY <1>3, <1>4 DEF IInv, MemInv, EntriesInv, DeviceTypeOK
<1>6. call[h].count \in Nat
  BY CountAssumption DEF IInv, CallMatches
<1>7. Len(mem[entry[at.slot].buffptr]) \in Nat
  BY <1>5 DEF IInv, DeviceTypeOK
<1>8. len \in Nat /\ at.byte + len <= entry[at.slot].size
  BY <1>3, <1>5, <1>6, <1>7 DEF ReadLen
<1> QED  BY <1>3, <1>5, <1>7, <1>8

(***************************************************************************)
(* File positions and answers keep their types.                            *)
(***************************************************************************)
PosInv == f_pos \in [Handle -> Nat] /\ answer \in Seq(Byte)

LEMMA SliceType ==
    ASSUME NEW s \in Seq(Byte), NEW a \in Nat, NEW b \in Nat, b <= Len(s)
    PROVE  SubSeq(s, a + 1, b) \in Seq(Byte)
<1>1. Len(s) \in Nat /\ a + 1 \in Nat /\ a + 1 >= 1
  OBVIOUS
<1>2. \A i \in a + 1 .. b : s[i] \in Byte
  BY <1>1
<1> QED  BY <1>1, <1>2

LEMMA PosStep == IInv /\ PosInv /\ [Next]_vars => PosInv'
<1> SUFFICES ASSUME IInv, PosInv, [Next]_vars PROVE PosInv'
  OBVIOUS
<1> USE DEF PosInv
<1>1. ASSUME UNCHANGED <<f_pos, answer>> PROVE PosInv'
  BY <1>1
<1>2. CASE Unload \/ Load \/ UNCHANGED vars
  BY <1>1, <1>2 DEF Unload, Load, ioVars, vars
<1>3. ASSUME NEW h \in Handle,
             Open(h) \/ Enter(h) \/ Interrupted(h) \/ WriteAlloc(h) \/ WriteNoMem(h)
      PROVE  PosInv'
  BY <1>1, <1>3 DEF Open, Enter, Interrupted, WriteAlloc, WriteNoMem
<1>4. ASSUME NEW h \in Handle, Release(h) PROVE PosInv'
  BY <1>4 DEF Release
<1>5. ASSUME NEW h \in Handle, LockRead(h) \/ LockWrite(h) PROVE PosInv'
  <2>1. <<>> \in Seq(Byte)
    OBVIOUS
  <2> QED  BY <1>5, <2>1 DEF LockRead, LockWrite, Lock
<1>6. ASSUME NEW h \in Handle, WriteCopy(h) PROVE PosInv'
  <2>1. f_pos' = [f_pos EXCEPT ![h] = 0] /\ answer' = answer
    BY <1>6 DEF WriteCopy
  <2> QED  BY <2>1
<1>7. ASSUME NEW h \in Handle, Read(h) PROVE PosInv'
  <2> DEFINE at  == FindEntry(f_pos[h])
             len == ReadLen(at.slot, at.byte, call[h].count)
             out == SubSeq(mem[entry[at.slot].buffptr], at.byte + 1, at.byte + len)
  <2>1. pc[h] = "read"
    BY <1>7 DEF Read
  <2>2. \/ /\ at = NotFound /\ answer' = <<>>
           /\ f_pos' = [f_pos EXCEPT ![h] = 0]
        \/ /\ at # NotFound /\ answer' = out
           /\ f_pos' = [f_pos EXCEPT ![h] = @ + len]
        \/ UNCHANGED <<answer, f_pos>>
    BY <1>7 DEF Read, Advance
  <2> HIDE DEF at, len
  <2>3. CASE at = NotFound /\ answer' = <<>> /\ f_pos' = [f_pos EXCEPT ![h] = 0]
    <3>1. <<>> \in Seq(Byte)
      OBVIOUS
    <3> QED  BY <2>3, <3>1
  <2>4. CASE at # NotFound /\ answer' = out /\ f_pos' = [f_pos EXCEPT ![h] = @ + len]
    <3>1. /\ len \in Nat /\ at.byte \in Nat
          /\ entry[at.slot].buffptr \in Ptr
          /\ at.byte + len <= Len(mem[entry[at.slot].buffptr])
      BY <2>1, <2>4, FoundBytes DEF at, len
    <3>2. mem[entry[at.slot].buffptr] \in Seq(Byte) /\ at.byte + len \in Nat
      BY <3>1 DEF IInv, DeviceTypeOK
    <3>3. out \in Seq(Byte)
      BY <3>1, <3>2, SliceType
    <3> HIDE DEF out
    <3> QED  BY <2>4, <3>1, <3>3
  <2> QED  BY <1>1, <2>2, <2>3, <2>4
<1> QED  BY <1>2, <1>3, <1>4, <1>5, <1>6, <1>7 DEF Next

LEMMA PosInit == Init => PosInv
<1> SUFFICES ASSUME Init PROVE PosInv
  OBVIOUS
<1>1. <<>> \in Seq(Byte)
  OBVIOUS
<1> QED  BY <1>1 DEF Init, PosInv

(***************************************************************************)
(* Every variable of the driver keeps its type: f_pos stays a position and *)
(* what aesd_read copies out is bytes of its block, never past the end.    *)
(***************************************************************************)
THEOREM DriverTypes == Spec => []TypeOK
<1>1. Spec => [](IInv /\ PosInv)
  BY InitInv, NextInv, PosInit, PosStep, PTL DEF Spec
<1>2. IInv /\ PosInv => TypeOK
  BY DEF IInv, PosInv, TypeOK
<1> QED  BY <1>1, <1>2, PTL

-----------------------------------------------------------------------------
(***************************************************************************)
(* Until something fails, the device can reach every block; and the line   *)
(* under construction has a block with no bytes only between the two halves*)
(* of a write that brings some, so its pointer is not lost when the next   *)
(* write, seeing size 0, allocates again.                                  *)
(***************************************************************************)
BlockAwaitsBytes == temp.size = 0 /\ temp.buffptr \in Ptr =>
    \E h \in Handle : pc[h] = "copy" /\ call[h].data # <<>>

Kept == /\ heap \subseteq Owned
        /\ BlockAwaitsBytes
        /\ ~loaded => temp.size = 0

LeakInv == faulted \/ Kept

LEMMA LeakInit == Init => LeakInv
<1> SUFFICES ASSUME Init PROVE LeakInv
  OBVIOUS
<1>1. temp.buffptr \notin Ptr /\ temp.size = 0 /\ heap = {}
  BY PtrAssumption DEF Init, Clean
<1> QED  BY <1>1 DEF LeakInv, Kept, BlockAwaitsBytes

(***************************************************************************)
(* A step that leaves the device alone, and no write between its halves.   *)
(***************************************************************************)
LEMMA LeakUnchanged ==
    ASSUME LeakInv, UNCHANGED <<bufVars, loaded, devVars, faulted>>,
           \A h \in Handle : pc[h] = "copy" => pc'[h] = "copy" /\ call'[h] = call[h]
    PROVE  LeakInv'
<1>1. RingPtrs' = RingPtrs
  BY DEF RingPtrs, bufVars
<1> QED  BY <1>1 DEF LeakInv, Kept, BlockAwaitsBytes, Owned, devVars

LEMMA NobodyCopies ==
    ASSUME IInv, NEW h \in Handle, pc[h] \in {"read", "write"}
    PROVE  \A g \in Handle : pc[g] # "copy"
  BY HandleAssumption DEF IInv, LockInv

LEMMA WriteAllocLeak ==
    ASSUME IInv, Kept, ~faulted, NEW h \in Handle, WriteAlloc(h)
    PROVE  Kept'
<1> USE DEF IInv, DeviceTypeOK
<1>0. /\ pc[h] = "write" /\ pc' = [pc EXCEPT ![h] = "copy"]
      /\ IF NewLine THEN Kmalloc(Len(call[h].data))
                    ELSE Krealloc(temp.size + Len(call[h].data))
      /\ UNCHANGED <<bufVars, loaded, call>>
  BY DEF WriteAlloc
<1>1. call[h].data \in Seq(Byte) /\ Len(call[h].data) \in Nat /\ pc'[h] = "copy"
  BY <1>0, DataAssumption DEF CallMatches
<1>2. loaded
  BY <1>0 DEF MemInv, LoadInv
<1>3. RingPtrs' = RingPtrs
  BY <1>0 DEF RingPtrs, bufVars
<1>4. \A g \in Handle : pc[g] # "copy"
  BY <1>0, NobodyCopies
<1>5. heap \subseteq {temp.buffptr} \cup RingPtrs
  BY <1>2 DEF Kept, Owned
<1>6. CASE temp.size = 0
  <2>1. temp.buffptr \notin Ptr
    BY <1>4, <1>6 DEF Kept, BlockAwaitsBytes
  <2>2. heap \subseteq RingPtrs
    BY <1>5, <2>1
  <2>3. Kmalloc(Len(call[h].data))
    BY <1>0, <1>6 DEF NewLine
  <2>4. CASE Len(call[h].data) = 0
    BY <1>0, <1>2, <1>3, <2>2, <2>3, <2>4, ZeroPtrAssumption
       DEF Kmalloc, Kept, Owned, BlockAwaitsBytes
  <2>5. CASE Len(call[h].data) > 0
    <3>1. PICK p \in Free : temp' = [temp EXCEPT !.buffptr = p] /\ heap' = heap \cup {p}
      BY <2>3, <2>5 DEF Kmalloc
    <3>2. call[h].data # <<>>
      BY <1>1, <2>5
    <3> QED  BY <1>0, <1>1, <1>2, <1>3, <2>2, <3>1, <3>2 DEF Kept, Owned, BlockAwaitsBytes
  <2> QED  BY <1>1, <2>4, <2>5
<1>7. CASE temp.size # 0
  <2> DEFINE n == temp.size + Len(call[h].data)
  <2>1. Krealloc(n) /\ n > 0
    BY <1>0, <1>1, <1>7 DEF NewLine
  <2>2. temp'.size = temp.size /\ temp'.size # 0
    BY <1>7, <2>1 DEF Krealloc, Kmalloc
  <2>3. heap' \subseteq {temp'.buffptr} \cup RingPtrs
    <3>1. CASE temp.buffptr = NULL
      <4>1. PICK p \in Free : temp' = [temp EXCEPT !.buffptr = p] /\ heap' = heap \cup {p}
        BY <2>1, <3>1 DEF Krealloc, Kmalloc
      <4> QED  BY <1>5, <3>1, <4>1, PtrAssumption
    <3>2. CASE temp.buffptr # NULL
      <4>1. PICK p \in Free \cup {temp.buffptr} :
                /\ temp' = [temp EXCEPT !.buffptr = p]
                /\ heap' = (heap \ {temp.buffptr}) \cup {p}
        BY <2>1, <3>2 DEF Krealloc
      <4> QED  BY <1>5, <4>1
    <3> QED  BY <3>1, <3>2
  <2> QED  BY <1>0, <1>2, <1>3, <2>2, <2>3 DEF Kept, Owned, BlockAwaitsBytes
<1> QED  BY <1>6, <1>7

(***************************************************************************)
(* A committed line's block is the ring's, and what falls out is freed.    *)
(***************************************************************************)
LEMMA CommitLeak ==
    ASSUME RingIInv, heap \subseteq {temp.buffptr} \cup RingPtrs, loaded,
           NEW t, t.buffptr = temp.buffptr, NEW m, Commit(t, m), loaded' = loaded
    PROVE  Kept'
<1>1. /\ ret' = (IF full THEN entry[in_offs].buffptr ELSE NULL)
      /\ entry' = [entry EXCEPT ![in_offs] = t]
      /\ temp' = Clean /\ heap' = heap \ {ret'}
  BY DEF Commit, AddEntry, Evicted, AfterCommit
<1>2. in_offs \in Slot /\ entry \in [Slot -> Entry]
  BY DEF RingIInv, BufferTypeOK
<1>3. temp'.buffptr = NULL /\ temp'.size = 0 /\ NULL \notin Ptr
  BY <1>1, PtrAssumption DEF Clean
<1>4. ~full => entry[in_offs].buffptr = NULL
  BY <1>2, MaxAssumption DEF RingIInv, RingInv, BufferTypeOK, Slot, Empty
<1>5. ASSUME NEW p \in heap' PROVE p \in RingPtrs' \/ p = NULL
  <2>1. p \in heap /\ p # ret'
    BY <1>1
  <2>2. CASE p = temp.buffptr
    <3>1. entry'[in_offs].buffptr = p
      BY <1>1, <1>2, <2>2
    <3> QED  BY <1>2, <3>1 DEF RingPtrs
  <2>3. CASE p \in RingPtrs
    <3>1. PICK i \in Slot : p = entry[i].buffptr /\ p # NULL
      BY <2>3 DEF RingPtrs
    <3>2. i # in_offs
      BY <1>1, <1>4, <2>1, <3>1
    <3>3. entry'[i].buffptr = p
      BY <1>1, <1>2, <3>1, <3>2
    <3> QED  BY <3>1, <3>3 DEF RingPtrs
  <2> QED  BY <2>1, <2>2, <2>3
<1> QED  BY <1>3, <1>5 DEF Kept, Owned, BlockAwaitsBytes

LEMMA WriteCopyLeak ==
    ASSUME IInv, Kept, NEW h \in Handle, WriteCopy(h), ~faulted'
    PROVE  Kept'
<1> USE DEF IInv, DeviceTypeOK
<1>0. pc[h] = "copy"
  BY DEF WriteCopy
<1>1. PICK k \in 0 .. Len(call[h].data) :
        /\ \/ Commit(Longer(k), Filled(h, k))
           \/ temp' = Longer(k) /\ UNCHANGED <<bufVars, heap>>
        /\ faulted' = (faulted \/ k < Len(call[h].data))
        /\ UNCHANGED loaded
  BY DEF WriteCopy, Longer, Filled
<1>2. loaded
  BY <1>0 DEF MemInv, LoadInv
<1>3. heap \subseteq {temp.buffptr} \cup RingPtrs
  BY <1>2 DEF Kept, Owned
<1>4. Longer(k).buffptr = temp.buffptr /\ Longer(k).size = temp.size + k
  BY DEF Longer
<1>5. CASE Commit(Longer(k), Filled(h, k))
  BY <1>1, <1>2, <1>3, <1>4, <1>5, CommitLeak DEF RingIInv
<1>6. CASE temp' = Longer(k) /\ UNCHANGED <<bufVars, heap>>
  <2>1. RingPtrs' = RingPtrs
    BY <1>6 DEF RingPtrs, bufVars
  <2>2. call[h].data \in Seq(Byte)
    BY <1>0, DataAssumption DEF CallMatches
  <2>3. k = Len(call[h].data) /\ k \in Nat
    <3>1. ~(k < Len(call[h].data))
      BY <1>1, Zenon
    <3>2. Len(call[h].data) \in Nat /\ k \in 0 .. Len(call[h].data)
      BY <1>1, <2>2
    <3> QED  BY <3>1, <3>2
  <2>4. \A g \in Handle : pc[g] = "copy" => g = h
    BY <1>0, HandleAssumption DEF LockInv
  <2>5. temp.size + k = 0 => k = 0 /\ temp.size = 0
    BY <2>3
  <2>6. temp'.size = 0 /\ temp'.buffptr \in Ptr => FALSE
    <3> SUFFICES ASSUME temp'.size = 0, temp'.buffptr \in Ptr PROVE FALSE
      OBVIOUS
    <3>1. k = 0 /\ temp.size = 0 /\ temp.buffptr \in Ptr
      BY <1>4, <1>6, <2>5
    <3>2. call[h].data # <<>>
      BY <2>4, <3>1 DEF Kept, BlockAwaitsBytes
    <3>3. Len(call[h].data) = 0
      BY <2>3, <3>1
    <3> HIDE DEF IInv, DeviceTypeOK
    <3> QED  BY <2>2, <3>2, <3>3
  <2> QED  BY <1>1, <1>2, <1>3, <1>4, <1>6, <2>1, <2>6 DEF Kept, Owned, BlockAwaitsBytes
<1> QED  BY <1>1, <1>5, <1>6

LEMMA LeakStep == IInv /\ LeakInv /\ [Next]_vars => LeakInv'
<1> SUFFICES ASSUME IInv, LeakInv, [Next]_vars PROVE LeakInv'
  OBVIOUS
<1>1. CASE Unload
  <2>1. /\ loaded /\ ~loaded' /\ heap' = heap \ RingPtrs /\ temp' = temp
        /\ UNCHANGED <<pc, call>> /\ faulted' = (faulted \/ temp.size > 0)
    BY <1>1 DEF Unload, ioVars
  <2>2. CASE faulted'
    BY <2>2 DEF LeakInv
  <2>3. CASE ~faulted'
    <3>1. Kept /\ temp.size = 0
      <4>1. ~faulted /\ ~(temp.size > 0)
        BY <2>1, <2>3, Zenon
      <4>2. temp.size \in Nat
        BY DEF IInv, DeviceTypeOK
      <4>3. temp.size = 0
        BY <4>1, <4>2
      <4> QED  BY <4>1, <4>3, Zenon DEF LeakInv
    <3>2. heap \subseteq {temp.buffptr} \cup RingPtrs
      BY <2>1, <3>1 DEF Kept, Owned
    <3> QED  BY <2>1, <3>1, <3>2 DEF LeakInv, Kept, Owned, BlockAwaitsBytes
  <2> QED  BY <2>2, <2>3
<1>2. CASE Load
  <2>1. ~loaded /\ loaded' /\ temp' = Clean /\ heap' = heap /\ faulted' = faulted
    BY <1>2 DEF Load
  <2>2. temp'.buffptr = NULL /\ temp'.size = 0 /\ NULL \notin Ptr
    BY <2>1, PtrAssumption DEF Clean
  <2>3. CASE faulted
    BY <2>1, <2>3 DEF LeakInv
  <2>4. CASE Kept
    <3>1. heap \subseteq {temp.buffptr} /\ temp.size = 0
      BY <2>1, <2>4 DEF Kept, Owned
    <3>2. \A h \in Handle : pc[h] # "copy"
      BY <2>1 DEF IInv, MemInv, LoadInv
    <3>3. temp.buffptr \notin Ptr
      BY <2>4, <3>1, <3>2 DEF Kept, BlockAwaitsBytes
    <3>4. heap = {}
      BY <3>1, <3>3 DEF IInv, DeviceTypeOK
    <3> QED  BY <2>1, <2>2, <3>4 DEF LeakInv, Kept, Owned, BlockAwaitsBytes
  <2> QED  BY <2>3, <2>4 DEF LeakInv
<1>3. ASSUME NEW h \in Handle, Open(h) \/ Release(h) \/ Enter(h) \/ Interrupted(h)
      PROVE  LeakInv'
  <2>1. UNCHANGED <<bufVars, loaded, devVars, faulted>> /\ call' = call
    BY <1>3 DEF Open, Release, Enter, Interrupted
  <2>2. pc[h] # "copy" /\ \A g \in Handle : g # h => pc'[g] = pc[g]
    BY <1>3 DEF Open, Release, Enter, Interrupted, IInv, DeviceTypeOK
  <2> QED  BY <2>1, <2>2, LeakUnchanged
<1>4. ASSUME NEW h \in Handle, LockRead(h) \/ LockWrite(h) PROVE LeakInv'
  <2>1. PICK c : Lock(h, c)
    BY <1>4 DEF LockRead, LockWrite
  <2>2. UNCHANGED <<bufVars, loaded, devVars, faulted>>
    BY <2>1 DEF Lock
  <2>3. pc[h] # "copy" /\ \A g \in Handle : g # h => pc'[g] = pc[g] /\ call'[g] = call[g]
    BY <2>1 DEF Lock, IInv, DeviceTypeOK
  <2> QED  BY <2>2, <2>3, LeakUnchanged
<1>5. ASSUME NEW h \in Handle, Read(h) PROVE LeakInv'
  <2>1. pc[h] = "read" /\ UNCHANGED <<bufVars, loaded, devVars, faulted>>
    BY <1>5 DEF Read
  <2> QED  BY <2>1, NobodyCopies, LeakUnchanged
<1>6. ASSUME NEW h \in Handle, WriteAlloc(h) PROVE LeakInv'
  <2>1. faulted' = faulted
    BY <1>6 DEF WriteAlloc
  <2> QED  BY <1>6, <2>1, WriteAllocLeak DEF LeakInv
<1>7. ASSUME NEW h \in Handle, WriteNoMem(h) PROVE LeakInv'
  BY <1>7 DEF WriteNoMem, LeakInv
<1>8. ASSUME NEW h \in Handle, WriteCopy(h) PROVE LeakInv'
  <2>1. faulted => faulted'
    BY <1>8 DEF WriteCopy
  <2> QED  BY <1>8, <2>1, WriteCopyLeak DEF LeakInv
<1>9. CASE UNCHANGED vars
  BY <1>9, LeakUnchanged DEF vars, ioVars
<1> QED  BY <1>1, <1>2, <1>3, <1>4, <1>5, <1>6, <1>7, <1>8, <1>9 DEF Next

(***************************************************************************)
(* As long as no allocation fails, no copy is cut short and the module is  *)
(* not removed in the middle of a line, every block kmalloc handed out is  *)
(* still the line's under construction or an entry's of the ring.          *)
(***************************************************************************)
THEOREM DriverLeaksNothing == Spec => []LeaksOnlyAfterFault
<1>1. Spec => [](IInv /\ LeakInv)
  BY InitInv, NextInv, LeakInit, LeakStep, PTL DEF Spec
<1>2. LeakInv => LeaksOnlyAfterFault
  BY DEF LeakInv, Kept, LeaksOnlyAfterFault
<1> QED  BY <1>1, <1>2, PTL

-----------------------------------------------------------------------------
(***************************************************************************)
(* The entries of the log: each holds a line in a block of its own.        *)
(***************************************************************************)
LEMMA LogEntry ==
    ASSUME IInv, loaded, NEW k \in 1 .. Live
    PROVE  /\ Log[k] = entry[Pos(k - 1)]
           /\ Log[k].buffptr \in heap /\ Log[k].buffptr # temp.buffptr
           /\ Log[k].buffptr \in Ptr
           /\ Log[k].size \in 1 .. Len(mem[Log[k].buffptr])
<1>1. Log[k] = entry[Pos(k - 1)] /\ Pos(k - 1) \in Used
  BY RingFromInv, LiveIsUsed, LogAt DEF LogFacts
<1>2. /\ entry[Pos(k - 1)].buffptr \in heap \ {temp.buffptr}
      /\ entry[Pos(k - 1)].size \in 1 .. Len(mem[entry[Pos(k - 1)].buffptr])
  BY <1>1 DEF IInv, MemInv, EntriesInv
<1> QED  BY <1>1, <1>2 DEF IInv, DeviceTypeOK

LEMMA LogDistinct ==
    ASSUME IInv, loaded, NEW i \in 1 .. Live, NEW j \in 1 .. Live,
           Log[i].buffptr = Log[j].buffptr
    PROVE  i = j
<1>1. Pos(i - 1) \in Used /\ Pos(j - 1) \in Used
  BY RingFromInv, LiveIsUsed
<1>2. Pos(i - 1) = Pos(j - 1)
  BY <1>1, LogEntry DEF IInv, MemInv, EntriesInv
<1>3. LogFacts /\ out_offs \in Slot
  BY RingFromInv, LogAt DEF RingIInv, BufferTypeOK
<1>4. Pos(i - 1) = IF out_offs + (i - 1) < Max THEN out_offs + (i - 1)
                   ELSE out_offs + (i - 1) - Max
  BY <1>3 DEF LogFacts
<1>5. Pos(j - 1) = IF out_offs + (j - 1) < Max THEN out_offs + (j - 1)
                   ELSE out_offs + (j - 1) - Max
  BY <1>3 DEF LogFacts
<1>6. Live \in 0 .. Max /\ out_offs \in 0 .. Max - 1
  BY <1>3 DEF LogFacts, Slot
<1> QED  BY <1>2, <1>4, <1>5, <1>6, MaxAssumption

(***************************************************************************)
(* The bytes an entry e stands for in a memory m.                          *)
(***************************************************************************)
Held(m, e) == SubSeq(m[e.buffptr], 1, e.size)

LEMMA HeldType ==
    ASSUME NEW m \in [Ptr -> Seq(Byte)], NEW e, e.buffptr \in Ptr,
           e.size \in 0 .. Len(m[e.buffptr])
    PROVE  /\ Held(m, e) \in Seq(Byte) /\ Len(Held(m, e)) = e.size
           /\ \A i \in 1 .. e.size : Held(m, e)[i] = m[e.buffptr][i]
<1>1. m[e.buffptr] \in Seq(Byte) /\ e.size \in Nat /\ e.size <= Len(m[e.buffptr])
  OBVIOUS
<1>2. SubSeq(m[e.buffptr], 1, e.size) \in Seq(Byte)
  BY <1>1, PrefixType
<1>3. /\ Len(SubSeq(m[e.buffptr], 1, e.size)) = e.size
      /\ \A i \in 1 .. e.size : SubSeq(m[e.buffptr], 1, e.size)[i] = m[e.buffptr][i]
  BY <1>1
<1> QED  BY <1>2, <1>3 DEF Held

(***************************************************************************)
(* Lines, as one function of the log and the memory.                       *)
(***************************************************************************)
LinesFacts ==
    /\ Live \in 0 .. Max
    /\ Lines = [k \in 1 .. Live |-> Held(mem, Log[k])]
    /\ Lines \in Seq(Seq(Byte)) /\ Len(Lines) = Live
    /\ \A k \in 1 .. Live : Lines[k] = Held(mem, Log[k])
    /\ \A k \in 1 .. Live : Len(Lines[k]) = Visited[k]

LEMMA LinesAre == IInv /\ loaded => LinesFacts
<1> SUFFICES ASSUME IInv, loaded PROVE LinesFacts
  OBVIOUS
<1>1. Lines = [k \in 1 .. Live |-> Held(mem, Log[k])]
  BY DEF Lines, Held
<1>2. Live \in 0 .. Max /\ Live \in Nat
  BY RingFromInv, LogAt, MaxAssumption DEF LogFacts
<1>3. ASSUME NEW k \in 1 .. Live
      PROVE  Held(mem, Log[k]) \in Seq(Byte) /\ Len(Held(mem, Log[k])) = Visited[k]
  <2>1. Log[k].buffptr \in Ptr /\ Log[k].size \in 1 .. Len(mem[Log[k].buffptr])
        /\ Log[k] = entry[Pos(k - 1)]
    BY LogEntry
  <2>2. mem \in [Ptr -> Seq(Byte)]
    BY DEF IInv, DeviceTypeOK
  <2>3. Log[k].size \in 0 .. Len(mem[Log[k].buffptr])
    BY <2>1
  <2>4. k \in 1 .. Max
    BY <1>2, MaxAssumption
  <2>5. Visited[k] = Log[k].size
    BY <2>1, <2>4, RingFromInv, VisitedType
  <2> QED  BY <2>1, <2>2, <2>3, <2>5, HeldType
<1>4. Lines \in [1 .. Live -> Seq(Byte)]
  BY <1>1, <1>3
<1>5. Lines \in Seq(Seq(Byte)) /\ Len(Lines) = Live
  BY <1>2, <1>4
<1>6. \A k \in 1 .. Live : Lines[k] = Held(mem, Log[k])
  BY <1>1
<1>7. \A k \in 1 .. Live : Len(Lines[k]) = Visited[k]
  BY <1>3, <1>6
<1> QED  BY <1>1, <1>2, <1>5, <1>6, <1>7 DEF LinesFacts

(***************************************************************************)
(* While the ring stays, and its blocks keep their bytes, so do the lines. *)
(***************************************************************************)
LEMMA LinesKept ==
    ASSUME IInv, loaded, loaded', UNCHANGED bufVars,
           \A i \in Used : mem'[entry[i].buffptr] = mem[entry[i].buffptr]
    PROVE  Lines' = Lines
<1>1. Log' = Log /\ Live' = Live
  BY DEF Log, Live, Pos, bufVars
<1>2. Lines' = [k \in 1 .. Live |-> Held(mem', Log[k])]
  BY <1>1 DEF Lines, Held
<1>3. ASSUME NEW k \in 1 .. Live PROVE Held(mem', Log[k]) = Held(mem, Log[k])
  <2>1. Log[k] = entry[Pos(k - 1)] /\ Pos(k - 1) \in Used
    BY LogEntry, LiveIsUsed, RingFromInv
  <2>2. mem'[Log[k].buffptr] = mem[Log[k].buffptr]
    BY <2>1
  <2> QED  BY <2>2 DEF Held
<1> QED  BY <1>2, <1>3, LinesAre DEF LinesFacts

LEMMA ViewKept ==
    ASSUME UNCHANGED <<bufVars, loaded, devVars>>
    PROVE  Lines' = Lines /\ Partial' = Partial
  BY DEF bufVars, devVars, Lines, Partial, Log, Live, Pos

(***************************************************************************)
(* The unfinished line.                                                    *)
(***************************************************************************)
LEMMA PartialIs ==
    ASSUME IInv, loaded
    PROVE  Partial \in Seq(Byte) /\ Len(Partial) = temp.size
<1>0. temp.size \in Nat /\ temp.buffptr \in Ptr \cup {NULL, ZeroPtr}
      /\ mem \in [Ptr -> Seq(Byte)]
  BY DEF IInv, DeviceTypeOK
<1>1. CASE temp.size = 0
  <2>1. <<>> \in Seq(Byte) /\ Len(<<>>) = 0
    OBVIOUS
  <2> QED  BY <1>1, <2>1 DEF Partial
<1>2. CASE temp.size # 0 /\ temp.buffptr = NULL
  BY <1>0, <1>2, BlankType DEF Partial
<1>3. CASE temp.size # 0 /\ temp.buffptr # NULL
  <2>1. temp.buffptr \in Ptr /\ temp.size <= Len(mem[temp.buffptr])
    BY <1>0, <1>3 DEF IInv, MemInv, TempInv
  <2>2. temp.size \in 0 .. Len(mem[temp.buffptr])
    BY <1>0, <2>1
  <2>3. Partial = Held(mem, temp)
    BY <1>3 DEF Partial, Held
  <2> QED  BY <1>0, <2>1, <2>2, <2>3, HeldType
<1> QED  BY <1>1, <1>2, <1>3

(***************************************************************************)
(* The bytes copied go right behind the ones that were there.              *)
(***************************************************************************)
LEMMA OverwriteAt ==
    ASSUME NEW s \in Seq(Byte), NEW at \in Nat, NEW d \in Seq(Byte), at + Len(d) <= Len(s)
    PROVE  /\ \A x \in 1 .. at : Overwrite(s, at, d)[x] = s[x]
           /\ \A x \in 1 .. Len(d) : Overwrite(s, at, d)[at + x] = d[x]
<1>0. Len(s) \in Nat /\ Len(d) \in Nat
  OBVIOUS
<1>1. ASSUME NEW x \in 1 .. Len(s)
      PROVE  Overwrite(s, at, d)[x]
                = IF x > at /\ x <= at + Len(d) THEN d[x - at] ELSE s[x]
  BY DEF Overwrite
<1>2. ASSUME NEW x \in 1 .. at PROVE Overwrite(s, at, d)[x] = s[x]
  <2>1. x \in 1 .. Len(s) /\ ~(x > at)
    BY <1>0
  <2> QED  BY <1>1, <2>1
<1>3. ASSUME NEW x \in 1 .. Len(d) PROVE Overwrite(s, at, d)[at + x] = d[x]
  <2>1. at + x \in 1 .. Len(s) /\ at + x > at /\ at + x <= at + Len(d) /\ (at + x) - at = x
    BY <1>0
  <2> QED  BY <1>1, <2>1
<1> QED  BY <1>2, <1>3

LEMMA LineGrows ==
    ASSUME IInv, loaded, NEW h \in Handle, pc[h] = "copy", NEW k \in 0 .. Len(call[h].data)
    PROVE  LineAfter(h, k) = Partial \o SubSeq(call[h].data, 1, k)
<1> DEFINE d == call[h].data
           s == SubSeq(d, 1, k)
           b == temp.buffptr
           w == Overwrite(mem[b], temp.size, s)
<1>1. d \in Seq(Byte) /\ k \in Nat /\ k <= Len(d) /\ Len(d) \in Nat
  BY DataAssumption DEF IInv, CallMatches
<1>2. s \in Seq(Byte)
  BY <1>1, PrefixType
<1>3. Len(s) = k
  BY <1>1
<1>4. Partial \in Seq(Byte) /\ Len(Partial) = temp.size /\ temp.size \in Nat
  BY PartialIs DEF IInv, DeviceTypeOK
<1>5. Longer(k).size = temp.size + k
  BY DEF Longer
<1>6. CASE temp.size + k = 0
  <2>1. temp.size = 0 /\ k = 0
    BY <1>1, <1>4, <1>6
  <2>2. Partial = <<>> /\ s = <<>> /\ LineAfter(h, k) = <<>>
    BY <1>1, <1>2, <1>3, <1>4, <1>5, <2>1 DEF LineAfter
  <2> QED  BY <2>2
<1>7. CASE temp.size + k # 0
  <2>1. b \in Ptr /\ b # ZeroPtr /\ temp.size + Len(d) <= Len(mem[b]) /\ mem[b] \in Seq(Byte)
    <3>1. ~(b = ZeroPtr /\ d = <<>>)
      <4> SUFFICES ASSUME b = ZeroPtr, d = <<>> PROVE FALSE
        OBVIOUS
      <4>1. temp.size = 0 /\ k = 0
        BY <1>1 DEF IInv, MemInv, TempInv
      <4> QED  BY <1>7, <4>1
    <3>2. b \in Ptr /\ temp.size + Len(d) <= Len(mem[b])
      BY <3>1 DEF IInv, MemInv, RoomInv
    <3> QED  BY <3>2, ZeroPtrAssumption DEF IInv, DeviceTypeOK
  <2>2. temp.size + Len(s) <= Len(mem[b]) /\ Len(mem[b]) \in Nat
    BY <1>1, <1>3, <1>4, <2>1, SMTT(30)
  <2>3. w \in Seq(Byte) /\ Len(w) = Len(mem[b])
    BY <1>2, <1>4, <2>1, OverwriteType
  <2>4. /\ \A x \in 1 .. temp.size : w[x] = mem[b][x]
        /\ \A x \in 1 .. Len(s) : w[temp.size + x] = s[x]
    BY <1>2, <1>4, <2>1, <2>2, OverwriteAt
  <2>5. Filled(h, k)[b] = w
    <3>1. mem \in [Ptr -> Seq(Byte)]
      BY DEF IInv, DeviceTypeOK
    <3> QED  BY <2>1, <3>1 DEF Filled
  <2> DEFINE l == SubSeq(w, 1, temp.size + k)
  <2>6. LineAfter(h, k) = l
    BY <1>5, <1>7, <2>5 DEF LineAfter
  <2>7. temp.size + k \in 0 .. Len(w)
    BY <1>1, <1>3, <1>4, <2>2, <2>3
  <2>8. ASSUME NEW x \in 1 .. temp.size PROVE Partial[x] = mem[b][x]
    <3>1. Partial = Held(mem, temp)
      BY <2>1, <2>8, <1>4, PtrAssumption DEF Partial, Held
    <3>2. mem \in [Ptr -> Seq(Byte)] /\ temp.size \in 0 .. Len(mem[b])
      BY <1>3, <1>4, <1>1, <2>2 DEF IInv, DeviceTypeOK
    <3> QED  BY <2>1, <3>1, <3>2, HeldType
  <2> HIDE DEF w, s
  <2>9. l \in Seq(Byte) /\ Len(l) = temp.size + k
        /\ \A x \in 1 .. temp.size + k : l[x] = w[x]
    <3>1. l \in Seq(Byte)
      BY <2>3, <2>7, PrefixType
    <3>2. w \in Seq(Byte) /\ temp.size + k \in Nat /\ temp.size + k <= Len(w)
      BY <2>3, <2>7, <1>1, <1>4
    <3>3. Len(l) = temp.size + k
      BY <3>2
    <3>4. \A x \in 1 .. temp.size + k : l[x] = w[x]
      BY <3>2
    <3> QED  BY <3>1, <3>3, <3>4
  <2> HIDE DEF l
  <2>10. ASSUME NEW x \in 1 .. temp.size PROVE l[x] = Partial[x]
    <3>1. x \in 1 .. temp.size + k
      BY <1>1, <1>4
    <3> QED  BY <2>4, <2>8, <2>9, <3>1
  <2>11. ASSUME NEW x \in 1 .. Len(s) PROVE l[temp.size + x] = s[x]
    <3>1. temp.size + x \in 1 .. temp.size + k
      BY <1>1, <1>3, <1>4
    <3> QED  BY <2>4, <2>9, <3>1
  <2>12. Joins(l, Partial, s, Byte)
    BY <1>2, <1>3, <1>4, <2>9, <2>10, <2>11 DEF Joins
  <2>13. l = Partial \o s
    BY <2>12, JoinUnique
  <2> QED  BY <2>6, <2>13 DEF s
<1> QED  BY <1>6, <1>7

(***************************************************************************)
(* A commit appends that line to the lines, and the oldest one goes when   *)
(* there is no room for it.                                                *)
(***************************************************************************)
Newest(s, l) == IF Len(s) < Max THEN Append(s, l) ELSE Append(Tail(s), l)

IsNewest(w, s, e, n, S) ==
    /\ w \in Seq(S) /\ Len(w) = n /\ w[n] = e
    /\ \A k \in 1 .. n - 1 : w[k] = IF Len(s) < Max THEN s[k] ELSE s[k + 1]

LEMMA NewestOf ==
    ASSUME NEW S, NEW s \in Seq(S), Len(s) <= Max, NEW e \in S,
           NEW n, n = IF Len(s) < Max THEN Len(s) + 1 ELSE Max
    PROVE  IsNewest(Newest(s, e), s, e, n, S)
<1>0. Len(s) \in Nat /\ Max \in Nat /\ Max > 0
  BY MaxAssumption
<1>1. CASE Len(s) < Max
  <2>1. Newest(s, e) = Append(s, e)
    BY <1>1 DEF Newest
  <2>2. Append(s, e) \in Seq(S) /\ Len(Append(s, e)) = Len(s) + 1
    OBVIOUS
  <2>3. Append(s, e)[Len(s) + 1] = e /\ \A k \in 1 .. Len(s) : Append(s, e)[k] = s[k]
    OBVIOUS
  <2>4. n = Len(s) + 1 /\ n - 1 = Len(s)
    BY <1>0, <1>1
  <2> QED  BY <1>1, <2>1, <2>2, <2>3, <2>4 DEF IsNewest
<1>2. CASE ~(Len(s) < Max)
  <2>1. Newest(s, e) = Append(Tail(s), e)
    BY <1>2 DEF Newest
  <2>2. Len(s) = Max /\ s # <<>>
    BY <1>0, <1>2
  <2>3. Tail(s) \in Seq(S) /\ Len(Tail(s)) = Max - 1
    BY <1>0, <2>2
  <2>4. \A k \in 1 .. Max - 1 : Tail(s)[k] = s[k + 1]
    BY <1>0, <2>2
  <2>5. Append(Tail(s), e) \in Seq(S) /\ Len(Append(Tail(s), e)) = (Max - 1) + 1
    BY <2>3
  <2>6. /\ Append(Tail(s), e)[(Max - 1) + 1] = e
        /\ \A k \in 1 .. Max - 1 : Append(Tail(s), e)[k] = Tail(s)[k]
    BY <2>3
  <2>7. (Max - 1) + 1 = Max /\ n = Max
    BY <1>0, <1>2
  <2> QED  BY <1>2, <2>1, <2>4, <2>5, <2>6, <2>7 DEF IsNewest
<1> QED  BY <1>1, <1>2

LEMMA CommitView ==
    ASSUME IInv, IInv', loaded, loaded', NEW h \in Handle, pc[h] = "copy",
           NEW k \in 0 .. Len(call[h].data), Longer(k).size > 0,
           Commit(Longer(k), Filled(h, k))
    PROVE  Partial' = <<>> /\ Lines' = Newest(Lines, LineAfter(h, k))
<1> DEFINE t == Longer(k)
           m == Filled(h, k)
           b == temp.buffptr
           l == LineAfter(h, k)
<1>1. /\ t \in [buffptr : Ptr, size : Nat] /\ t.buffptr = b /\ b \in Ptr
      /\ m \in [Ptr -> Seq(Byte)]
  BY CopyFits, ZeroPtrAssumption DEF IInv, DeviceTypeOK
<1>2. /\ AddEntry(t) /\ temp' = Clean
      /\ mem' = IF ret' = NULL THEN m ELSE [m EXCEPT ![ret'] = <<>>]
  BY DEF Commit, AfterCommit
<1>3. Partial' = <<>>
  BY <1>2 DEF Partial, Clean
<1>4. LogFacts /\ Live \in Nat /\ Live <= Max
  BY RingFromInv, LogAt, MaxAssumption DEF LogFacts
<1>5. Log \in Seq(Entry) /\ Len(Log) = Live
  BY <1>4 DEF LogFacts
<1>6. /\ Log' = Newest(Log, t)
      /\ ret' = IF Live < Max THEN NULL ELSE Head(Log).buffptr
  <2>1. BoundedLog!Add(t)
    BY <1>1, <1>2, RingFromInv, AddImplementsAdd
  <2> HIDE DEF t
  <2> QED  BY <1>5, <2>1 DEF BoundedLog!Add, Newest
<1>7. t \in Entry
  BY <1>1 DEF Entry
<1> DEFINE n == IF Live < Max THEN Live + 1 ELSE Max
<1> HIDE DEF t, m, l
<1>8. /\ Log' \in Seq(Entry) /\ Len(Log') = n /\ Log'[n] = t
      /\ \A j \in 1 .. n - 1 : Log'[j] = IF Live < Max THEN Log[j] ELSE Log[j + 1]
  <2>1. IsNewest(Newest(Log, t), Log, t, n, Entry)
    BY <1>4, <1>5, <1>7, NewestOf
  <2> HIDE DEF n
  <2> QED  BY <1>5, <1>6, <2>1 DEF IsNewest
<1>9. n \in 1 .. Max /\ n \in Nat
  BY <1>4, MaxAssumption
<1>10. /\ Lines \in Seq(Seq(Byte)) /\ Len(Lines) = Live
       /\ \A j \in 1 .. Live : Lines[j] = Held(mem, Log[j])
  BY LinesAre DEF LinesFacts
<1>11. (IInv /\ loaded => LinesFacts)'
  BY LinesAre, PTL
<1>12. (IInv => LogFacts)'
  BY RingFromInv, LogAt, PTL
<1>13. Live' = n
  BY <1>8, <1>12 DEF LogFacts
<1>14. /\ Lines' \in Seq(Seq(Byte)) /\ Len(Lines') = n
       /\ \A j \in 1 .. n : Lines'[j] = Held(mem', Log'[j])
  BY <1>11, <1>13 DEF LinesFacts
<1>15. ASSUME NEW j \in 1 .. Live
       PROVE  /\ Log[j].buffptr \in Ptr /\ Log[j].buffptr # b
              /\ m[Log[j].buffptr] = mem[Log[j].buffptr]
  <2>1. Log[j].buffptr \in Ptr /\ Log[j].buffptr # b
    BY LogEntry
  <2>2. mem \in [Ptr -> Seq(Byte)]
    BY DEF IInv, DeviceTypeOK
  <2> QED  BY <2>1, <2>2 DEF m, Filled
<1>16. b # ret'
  <2>1. CASE Live < Max
    BY <1>1, <1>6, <2>1, PtrAssumption
  <2>2. CASE ~(Live < Max)
    <3>1. 1 \in 1 .. Live /\ Log # <<>>
      BY <1>4, <1>5, <2>2, MaxAssumption
    <3>2. ret' = Log[1].buffptr
      BY <1>5, <1>6, <2>2, <3>1
    <3> QED  BY <1>15, <3>1, <3>2
  <2> QED  BY <2>1, <2>2
<1>17. mem'[b] = m[b]
  <2> HIDE DEF b
  <2> QED  BY <1>1, <1>2, <1>16
<1>18. Held(mem', t) = l
  <2>1. Held(mem', t) = SubSeq(m[b], 1, t.size)
    BY <1>1, <1>17 DEF Held
  <2>2. t.size # 0
    BY <1>1 DEF t
  <2> QED  BY <2>1, <2>2 DEF l, LineAfter, t, m
<1>19. ASSUME NEW j \in 1 .. Live, Log[j].buffptr # ret'
       PROVE  Held(mem', Log[j]) = Lines[j]
  <2>1. mem'[Log[j].buffptr] = m[Log[j].buffptr]
    BY <1>1, <1>2, <1>15, <1>19
  <2>2. mem'[Log[j].buffptr] = mem[Log[j].buffptr]
    BY <1>15, <2>1
  <2>3. Held(mem', Log[j]) = Held(mem, Log[j])
    BY <2>2 DEF Held
  <2> QED  BY <1>10, <2>3
<1>20. l \in Seq(Byte)
  <2>1. call[h].data \in Seq(Byte)
    BY DataAssumption DEF IInv, CallMatches
  <2>2. SubSeq(call[h].data, 1, k) \in Seq(Byte)
    BY <2>1, PrefixType
  <2>3. Partial \in Seq(Byte)
    BY PartialIs
  <2>4. l = Partial \o SubSeq(call[h].data, 1, k)
    BY LineGrows DEF l
  <2> QED  BY <2>2, <2>3, <2>4
<1>21. /\ Newest(Lines, l) \in Seq(Seq(Byte)) /\ Len(Newest(Lines, l)) = n
       /\ Newest(Lines, l)[n] = l
       /\ \A j \in 1 .. n - 1 :
             Newest(Lines, l)[j] = IF Live < Max THEN Lines[j] ELSE Lines[j + 1]
  <2>1. IsNewest(Newest(Lines, l), Lines, l, n, Seq(Byte))
    BY <1>4, <1>10, <1>20, NewestOf
  <2> HIDE DEF n
  <2> QED  BY <1>10, <2>1 DEF IsNewest
<1>22. ASSUME NEW j \in 1 .. n PROVE Lines'[j] = Newest(Lines, l)[j]
  <2>1. CASE j = n
    BY <1>8, <1>14, <1>18, <1>21, <2>1
  <2>2. CASE j # n /\ Live < Max
    <3>1. j \in 1 .. n - 1 /\ j \in 1 .. Live
      BY <1>4, <2>2
    <3>2. Log'[j] = Log[j] /\ Newest(Lines, l)[j] = Lines[j]
      BY <1>8, <1>21, <2>2, <3>1
    <3>3. Log[j].buffptr # ret'
      BY <1>6, <1>15, <2>2, <3>1, PtrAssumption
    <3> QED  BY <1>14, <1>19, <3>1, <3>2, <3>3
  <2>3. CASE j # n /\ ~(Live < Max)
    <3>1. j \in 1 .. n - 1 /\ j + 1 \in 1 .. Live /\ 1 \in 1 .. Live /\ j + 1 # 1
      BY <1>4, <1>9, <2>3
    <3>2. Log'[j] = Log[j + 1] /\ Newest(Lines, l)[j] = Lines[j + 1]
      BY <1>8, <1>21, <2>3, <3>1
    <3>3. Log[j + 1].buffptr # ret'
      <4>1. Log # <<>>
        BY <1>5, <3>1
      <4>2. ret' = Log[1].buffptr
        BY <1>5, <1>6, <2>3, <4>1
      <4> QED  BY <3>1, <4>2, LogDistinct
    <3> QED  BY <1>14, <1>19, <3>1, <3>2, <3>3
  <2> QED  BY <2>1, <2>2, <2>3
<1>23. Lines' = Newest(Lines, l)
  <2> HIDE DEF n
  <2> QED  BY <1>14, <1>21, <1>22
<1> QED  BY <1>3, <1>23 DEF l

(***************************************************************************)
(* The positions at which the lines start are the running totals aesd_read *)
(* counts in its ring.                                                     *)
(***************************************************************************)
LEMMA LenOfFirstIs ==
    ASSUME IInv, loaded, NEW z, Totals(z), NEW k \in 0 .. Live
    PROVE  Device!LenOfFirst(Lines, k) = z[k]
<1> DEFINE Eq(s) == s = [j \in 0 .. Len(Lines) |->
                            IF j = 0 THEN 0 ELSE s[j - 1] + Len(Lines[j])]
           total == CHOOSE s : Eq(s)
           a == [j \in 1 .. Live |-> Len(Lines[j])]
<1>1. /\ Live \in Nat /\ Live <= Max /\ Max \in Nat /\ Len(Lines) = Live
      /\ \A j \in 1 .. Live : Len(Lines[j]) = Visited[j]
  BY LinesAre, MaxAssumption DEF LinesFacts
<1>2. Visited \in [1 .. Max -> Nat] /\ Sums(z, Visited, Max)
  BY RingFromInv, VisitedType DEF Totals
<1>3. a \in [1 .. Live -> Nat] /\ Agree(a, Visited, Live)
  <2>1. \A j \in 1 .. Live : Visited[j] \in Nat
    BY <1>1, <1>2
  <2> QED  BY <1>1, <2>1 DEF Agree
<1>4. \A j \in 1 .. Live : a[j] = Len(Lines[j])
  OBVIOUS
<1> HIDE DEF a
<1>5. PICK s : SumEquation(s, a, Live)
  BY <1>1, <1>3, SumsExist
<1>6. Eq(s)
  BY <1>1, <1>4, <1>5 DEF SumEquation
<1>7. Eq(total)
  <2> HIDE DEF Eq
  <2> QED  BY <1>6
<1>8. Device!LenOfFirst(Lines, k) = total[k]
  BY DEF Device!LenOfFirst
<1> HIDE DEF total
<1>9. SumEquation(total, a, Live)
  BY <1>1, <1>4, <1>7 DEF SumEquation
<1>10. Sums(total, a, Live)
  BY <1>1, <1>3, <1>9, SumsSolve
<1>11. total[k] = z[k]
  BY <1>1, <1>2, <1>3, <1>10, SumsAgree
<1> QED  BY <1>8, <1>11

(***************************************************************************)
(* aesd_read, past the end and before it.                                  *)
(***************************************************************************)
LEMMA AnswerPastEnd ==
    ASSUME IInv, loaded, NEW p \in Nat, FindEntry(p) = NotFound, NEW n
    PROVE  /\ p >= Device!LenOfFirst(Lines, Len(Lines))
           /\ Device!Answer(p, n) = <<>>
<1>1. PICK z : Totals(z)
  BY RingFromInv, TotalsExist
<1>2. Live \in Nat /\ Live <= Max /\ Len(Lines) = Live
  BY LinesAre, MaxAssumption DEF LinesFacts
<1>3. Device!LenOfFirst(Lines, Len(Lines)) = z[Live] /\ z[Live] \in Nat
  <2>1. z[Live] \in Nat
    BY <1>1, <1>2, MaxAssumption DEF Totals, Sums
  <2>2. Live \in 0 .. Live
    BY <1>2
  <2> QED  BY <1>1, <1>2, <2>1, <2>2, LenOfFirstIs
<1>4. ~(p < z[Live])
  <2> SUFFICES ASSUME p < z[Live] PROVE FALSE
    OBVIOUS
  <2>1. PICK k \in 1 .. Live : Spans(z, k, p)
    BY <1>1, RingFromInv, SpanExists
  <2>2. FindEntry(p).slot = Pos(k - 1) /\ Pos(k - 1) \in Slot
    BY <1>1, <2>1, RingFromInv, FindHit, LiveIsUsed DEF FoundAt
  <2> QED  BY <2>2, MaxAssumption DEF NotFound, Slot
<1>5. p >= Device!LenOfFirst(Lines, Len(Lines))
  BY <1>3, <1>4
<1> QED  BY <1>5 DEF Device!Answer

(* A slice of a prefix is a slice of the whole. *)
LEMMA SliceOfPrefix ==
    ASSUME NEW s \in Seq(Byte), NEW n \in 0 .. Len(s), NEW a \in Nat, NEW b \in a .. n
    PROVE  /\ SubSeq(SubSeq(s, 1, n), a + 1, b) = SubSeq(s, a + 1, b)
           /\ Len(SubSeq(s, a + 1, b)) = b - a
<1>1. n \in Nat /\ n <= Len(s) /\ Len(s) \in Nat /\ b \in Nat /\ a <= b /\ b <= n
  OBVIOUS
<1> DEFINE p == SubSeq(s, 1, n)
<1>2. p \in Seq(Byte)
  BY PrefixType
<1>3. Len(p) = n /\ \A i \in 1 .. n : p[i] = s[i]
  BY <1>1
<1> HIDE DEF p
<1>4. SubSeq(p, a + 1, b) \in Seq(Byte) /\ SubSeq(s, a + 1, b) \in Seq(Byte)
  BY <1>1, <1>2, <1>3, SliceType
<1>5. Len(SubSeq(p, a + 1, b)) = b - a /\ \A i \in 1 .. b - a : SubSeq(p, a + 1, b)[i] = p[a + i]
  BY <1>1, <1>2, <1>3
<1>6. Len(SubSeq(s, a + 1, b)) = b - a /\ \A i \in 1 .. b - a : SubSeq(s, a + 1, b)[i] = s[a + i]
  BY <1>1
<1>7. \A i \in 1 .. b - a : a + i \in 1 .. n
  BY <1>1
<1>8. \A i \in 1 .. b - a : SubSeq(p, a + 1, b)[i] = SubSeq(s, a + 1, b)[i]
  BY <1>3, <1>5, <1>6, <1>7
<1>9. SubSeq(p, a + 1, b) = SubSeq(s, a + 1, b)
  <2> DEFINE x == SubSeq(p, a + 1, b)
             y == SubSeq(s, a + 1, b)
  <2> HIDE DEF x, y
  <2>1. x \in Seq(Byte) /\ y \in Seq(Byte) /\ Len(x) = Len(y)
        /\ \A i \in 1 .. Len(x) : x[i] = y[i]
    BY <1>4, <1>5, <1>6, <1>8 DEF x, y
  <2>2. x = y
    BY <2>1
  <2> QED  BY <2>2 DEF x, y
<1> QED  BY <1>6, <1>9 DEF p

LEMMA AnswerFound ==
    ASSUME IInv, loaded, NEW p \in Nat, NEW n \in Nat, NEW at, at = FindEntry(p), at # NotFound,
           NEW len, len = ReadLen(at.slot, at.byte, n)
    PROVE  /\ ~(p >= Device!LenOfFirst(Lines, Len(Lines)))
           /\ Device!Answer(p, n)
                = SubSeq(mem[entry[at.slot].buffptr], at.byte + 1, at.byte + len)
           /\ Len(Device!Answer(p, n)) = len
<1>1. PICK z : \E k \in 1 .. Live :
        /\ Totals(z) /\ Spans(z, k, p) /\ FoundAt(z, k, p)
        /\ p - z[k - 1] \in Nat /\ p - z[k - 1] < entry[Pos(k - 1)].size
  BY RingFromInv, FoundInUse
<1>2. PICK k \in 1 .. Live :
        /\ Totals(z) /\ Spans(z, k, p) /\ FoundAt(z, k, p)
        /\ p - z[k - 1] \in Nat /\ p - z[k - 1] < entry[Pos(k - 1)].size
  BY <1>1
<1>3. /\ Live \in Nat /\ Live <= Max /\ Max \in Nat /\ Len(Lines) = Live
      /\ Lines[k] = Held(mem, Log[k])
  BY LinesAre, MaxAssumption DEF LinesFacts
<1>4. Visited \in [1 .. Max -> Nat] /\ Sums(z, Visited, Max)
  BY <1>2, RingFromInv, VisitedType DEF Totals
<1>5. \A j \in 0 .. Live : Device!LenOfFirst(Lines, j) = z[j]
  BY <1>2, LenOfFirstIs
<1>6. z[k - 1] <= p /\ p < z[k] /\ z[k - 1] \in Nat /\ z[k] \in Nat /\ z[Live] \in Nat
  <2>1. k - 1 \in 0 .. Max /\ k \in 0 .. Max /\ Live \in 0 .. Max
    BY <1>3
  <2>2. z[k - 1] \in Nat /\ z[k] \in Nat /\ z[Live] \in Nat
    BY <1>4, <2>1 DEF Sums
  <2> QED  BY <1>2, <2>2 DEF Spans
<1>7. ~(p >= Device!LenOfFirst(Lines, Len(Lines)))
  <2>1. z[k] <= z[Live]
    <3>1. k \in 0 .. Max /\ Live \in k .. Max
      BY <1>3
    <3> QED  BY <1>3, <1>4, <3>1, SumsGrow
  <2>2. Live \in 0 .. Live
    BY <1>3
  <2>3. Device!LenOfFirst(Lines, Len(Lines)) = z[Live]
    BY <1>3, <1>5, <2>2
  <2> QED  BY <1>6, <2>1, <2>3
<1> DEFINE line == CHOOSE j \in 1 .. Len(Lines) :
          Device!LenOfFirst(Lines, j - 1) <= p /\ p < Device!LenOfFirst(Lines, j)
<1>8. line = k
  <2> DEFINE In(j) == Device!LenOfFirst(Lines, j - 1) <= p /\ p < Device!LenOfFirst(Lines, j)
  <2>1. \A j \in 1 .. Live : j - 1 \in 0 .. Live /\ j \in 0 .. Live /\ j \in 1 .. Max
    BY <1>3
  <2>2. \A j \in 1 .. Live : In(j) <=> z[j - 1] <= p /\ p < z[j]
    BY <1>5, <2>1
  <2>3. ASSUME NEW j \in 1 .. Live, In(j) PROVE j = k
    <3>1. z[j - 1] <= p /\ p < z[j]
      BY <2>2, <2>3
    <3>2. j \in 1 .. Max /\ k \in 1 .. Max
      BY <2>1
    <3> HIDE DEF In
    <3> QED  BY <1>3, <1>4, <1>6, <3>1, <3>2, SumsLocateOne
  <2>4. In(k)
    BY <1>6, <2>2
  <2> HIDE DEF In
  <2>5. (CHOOSE j \in 1 .. Len(Lines) : In(j)) = k
    BY <1>3, <2>3, <2>4
  <2> QED  BY <2>5 DEF In
<1> DEFINE off == p - z[k - 1]
           w   == mem[Log[k].buffptr]
           sz  == Log[k].size
<1>9. at.slot = Pos(k - 1) /\ at.byte = off /\ entry[at.slot] = Log[k]
  BY <1>2, LogEntry DEF FoundAt
<1>10. w \in Seq(Byte) /\ sz \in 1 .. Len(w)
  BY LogEntry DEF IInv, DeviceTypeOK
<1>11. off \in Nat /\ off < sz
  BY <1>2, <1>9
<1>12. Lines[k] = SubSeq(w, 1, sz) /\ Len(Lines[k]) = sz
  <2>1. Log[k].buffptr \in Ptr /\ mem \in [Ptr -> Seq(Byte)] /\ sz \in 0 .. Len(w)
    BY <1>10, LogEntry DEF IInv, DeviceTypeOK
  <2>2. Len(Held(mem, Log[k])) = sz
    BY <2>1, HeldType
  <2> QED  BY <1>3, <2>2 DEF Held
<1>13. Device!LenOfFirst(Lines, k - 1) = z[k - 1]
  <2>1. k - 1 \in 0 .. Live
    BY <1>3
  <2> QED  BY <1>5, <2>1
<1>14. Device!Answer(p, n)
          = SubSeq(Lines[k], off + 1, IF off + n < sz THEN off + n ELSE sz)
  <2> DEFINE o == p - Device!LenOfFirst(Lines, line - 1)
  <2>1. Device!Answer(p, n)
          = SubSeq(Lines[line], o + 1,
                   IF o + n < Len(Lines[line]) THEN o + n ELSE Len(Lines[line]))
    BY <1>7 DEF Device!Answer
  <2> HIDE DEF line
  <2> QED  BY <2>1, <1>8, <1>12, <1>13
<1>15. len = (IF n < sz - off THEN n ELSE sz - off)
  BY <1>9 DEF ReadLen
<1> HIDE DEF off, w, sz
<1>16. sz \in Nat /\ Len(w) \in Nat
  BY <1>10
<1>17. len \in Nat /\ off + len \in off .. sz
       /\ (IF off + n < sz THEN off + n ELSE sz) = off + len
  BY <1>11, <1>15, <1>16
<1>18. sz \in 0 .. Len(w)
  BY <1>10
<1>19. /\ SubSeq(SubSeq(w, 1, sz), off + 1, off + len) = SubSeq(w, off + 1, off + len)
       /\ Len(SubSeq(w, off + 1, off + len)) = (off + len) - off
  BY <1>10, <1>11, <1>17, <1>18, SliceOfPrefix
<1>20. (off + len) - off = len
  BY <1>11, <1>17
<1>21. Device!Answer(p, n) = SubSeq(w, off + 1, off + len)
  BY <1>12, <1>14, <1>17, <1>19
<1>22. entry[at.slot].buffptr = Log[k].buffptr /\ at.byte = off
  BY <1>9
<1> QED  BY <1>7, <1>19, <1>20, <1>21, <1>22 DEF w

(***************************************************************************)
(* Making room for a write is not seen from outside.                       *)
(***************************************************************************)
LEMMA GrownPrefix ==
    ASSUME NEW s \in Seq(Byte), NEW m \in 0 .. Len(s), NEW n \in Nat, m <= n
    PROVE  SubSeq(Grown(s, n), 1, m) = SubSeq(s, 1, m)
<1>1. Grown(s, n) \in Seq(Byte) /\ Len(Grown(s, n)) = n
  BY GrownType
<1>2. Len(s) \in Nat /\ m \in Nat /\ m <= Len(s)
  OBVIOUS
<1>3. \A i \in 1 .. m : Grown(s, n)[i] = s[i]
  BY <1>2 DEF Grown
<1> DEFINE g == Grown(s, n)
           x == SubSeq(g, 1, m)
           y == SubSeq(s, 1, m)
<1> HIDE DEF g
<1>4. g \in Seq(Byte) /\ Len(g) = n /\ \A i \in 1 .. m : g[i] = s[i]
  BY <1>1, <1>3 DEF g
<1>5. x \in Seq(Byte) /\ Len(x) = m /\ \A i \in 1 .. m : x[i] = g[i]
  BY <1>2, <1>4
<1>6. y \in Seq(Byte) /\ Len(y) = m /\ \A i \in 1 .. m : y[i] = s[i]
  BY <1>2
<1> HIDE DEF x, y
<1>7. Len(x) = Len(y) /\ \A i \in 1 .. Len(x) : x[i] = y[i]
  BY <1>4, <1>5, <1>6
<1>8. x = y
  BY <1>5, <1>6, <1>7, SeqEqual
<1> QED  BY <1>8 DEF x, y, g

LEMMA BlankPrefix ==
    ASSUME NEW m \in Nat, NEW n \in Nat, m <= n
    PROVE  SubSeq(Blank(n), 1, m) = Blank(m)
<1> DEFINE x == SubSeq(Blank(n), 1, m)
           y == Blank(m)
<1>1. Blank(n) \in Seq(Byte) /\ Len(Blank(n)) = n /\ \A i \in 1 .. n : Blank(n)[i] = Garbage
  BY BlankType DEF Blank
<1>2. y \in Seq(Byte) /\ Len(y) = m /\ \A i \in 1 .. m : y[i] = Garbage
  BY BlankType DEF Blank
<1>3. x \in Seq(Byte) /\ Len(x) = m /\ \A i \in 1 .. m : x[i] = Garbage
  <2> DEFINE g == Blank(n)
  <2> HIDE DEF g
  <2>1. g \in Seq(Byte) /\ Len(g) = n /\ \A i \in 1 .. n : g[i] = Garbage
    BY <1>1 DEF g
  <2>2. SubSeq(g, 1, m) \in Seq(Byte) /\ Len(SubSeq(g, 1, m)) = m
        /\ \A i \in 1 .. m : SubSeq(g, 1, m)[i] = Garbage
    BY <2>1
  <2> QED  BY <2>2 DEF g
<1> HIDE DEF x, y
<1>4. x = y
  BY <1>2, <1>3
<1> QED  BY <1>4 DEF x, y

LEMMA RoomView ==
    ASSUME IInv, NEW h \in Handle, WriteAlloc(h)
    PROVE  Lines' = Lines /\ Partial' = Partial
<1> DEFINE n == temp.size + Len(call[h].data)
           b == temp.buffptr
<1>0. /\ pc[h] = "write" /\ UNCHANGED <<bufVars, loaded>>
      /\ IF NewLine THEN Kmalloc(Len(call[h].data)) ELSE Krealloc(n)
  BY DEF WriteAlloc
<1>1. loaded /\ loaded'
  BY <1>0 DEF IInv, MemInv, LoadInv
<1>2. call[h].data \in Seq(Byte) /\ Len(call[h].data) \in Nat /\ Roomy(n)
  BY WriteRoom
<1>3. Lines' = Lines
  BY <1>0, <1>1, <1>2, LinesKept DEF Roomy
<1>4. temp.size \in Nat /\ temp'.size = temp.size /\ b \in Ptr \cup {NULL, ZeroPtr}
      /\ mem \in [Ptr -> Seq(Byte)]
  BY <1>2 DEF Roomy, IInv, DeviceTypeOK
<1>5. CASE temp.size = 0
  BY <1>3, <1>4, <1>5 DEF Partial
<1>6. CASE temp.size # 0
  <2>1. Krealloc(n) /\ n \in Nat /\ temp.size <= n /\ n > 0
    BY <1>0, <1>2, <1>4, <1>6 DEF NewLine
  <2>2. CASE b = NULL
    <3>1. PICK p \in Free : temp' = [temp EXCEPT !.buffptr = p]
                            /\ mem' = [mem EXCEPT ![p] = Blank(n)]
      BY <2>1, <2>2 DEF Krealloc, Kmalloc
    <3>2. p \in Ptr /\ temp'.buffptr = p /\ p # NULL
      BY <1>4, <3>1, PtrAssumption DEF Free, IInv, DeviceTypeOK
    <3>3. mem'[p] = Blank(n)
      BY <1>4, <3>1, <3>2
    <3>4. Partial' = SubSeq(Blank(n), 1, temp.size)
      BY <1>1, <1>4, <1>6, <3>2, <3>3 DEF Partial
    <3>5. Partial = Blank(temp.size)
      BY <1>1, <1>6, <2>2 DEF Partial
    <3> QED  BY <1>3, <1>4, <2>1, <3>4, <3>5, BlankPrefix
  <2>3. CASE b # NULL
    <3>1. b \in Ptr /\ temp.size <= Len(mem[b])
      BY <1>4, <1>6, <2>3 DEF IInv, MemInv, TempInv
    <3>2. PICK p \in Free \cup {b} :
            /\ temp' = [temp EXCEPT !.buffptr = p]
            /\ mem' = [mem EXCEPT ![b] = <<>>, ![p] = Grown(mem[b], n)]
      BY <2>1, <2>3 DEF Krealloc
    <3>3. p \in Ptr /\ p # NULL /\ temp'.buffptr = p
      BY <1>4, <3>1, <3>2, PtrAssumption DEF Free, IInv, DeviceTypeOK
    <3>4. mem'[p] = Grown(mem[b], n)
      <4> HIDE DEF Grown
      <4> QED  BY <1>4, <3>1, <3>2, <3>3
    <3>5. Partial' = SubSeq(Grown(mem[b], n), 1, temp.size)
      BY <1>1, <1>4, <1>6, <3>3, <3>4 DEF Partial
    <3>6. Partial = SubSeq(mem[b], 1, temp.size)
      BY <1>1, <1>6, <2>3 DEF Partial
    <3>7. mem[b] \in Seq(Byte) /\ temp.size \in 0 .. Len(mem[b])
      BY <1>4, <3>1
    <3> QED  BY <1>3, <2>1, <3>5, <3>6, <3>7, GrownPrefix
  <2> QED  BY <2>2, <2>3
<1> QED  BY <1>3, <1>4, <1>5, <1>6

(***************************************************************************)
(* Each step of the driver is a step of the device programs see, or none.  *)
(***************************************************************************)
Seen == <<Lines, Partial, f_pos, answer>>

LEMMA NoMemView ==
    ASSUME IInv, NEW h \in Handle, WriteNoMem(h)
    PROVE  Device!FailedWrite
<1>0. /\ pc[h] = "write" /\ temp' = [temp EXCEPT !.buffptr = NULL]
      /\ UNCHANGED <<bufVars, loaded, mem, f_pos, answer>>
  BY DEF WriteNoMem
<1>1. loaded /\ loaded' /\ temp \in [buffptr : Ptr \cup {NULL, ZeroPtr}, size : Nat]
  BY <1>0 DEF IInv, MemInv, LoadInv, DeviceTypeOK
<1>2. temp'.size = temp.size /\ temp'.buffptr = NULL /\ temp.size \in Nat
  BY <1>0, <1>1
<1>3. Lines' = Lines
  BY <1>0, <1>1, LinesKept
<1>4. Len(Partial) = temp.size
  BY <1>1, PartialIs
<1>5. Partial' = [i \in 1 .. Len(Partial) |-> Garbage]
  <2>1. CASE temp.size = 0
    BY <1>2, <1>4, <2>1 DEF Partial
  <2>2. CASE temp.size # 0
    BY <1>1, <1>2, <1>4, <2>2 DEF Partial, Blank
  <2> QED  BY <2>1, <2>2
<1> QED  BY <1>0, <1>3, <1>5 DEF Device!FailedWrite

LEMMA CopyView ==
    ASSUME IInv, IInv', NEW h \in Handle, WriteCopy(h)
    PROVE  \E d \in Data : \E k \in 0 .. Len(d) : Device!Write(h, d, k)
<1>0. pc[h] = "copy"
  BY DEF WriteCopy
<1>1. PICK k \in 0 .. Len(call[h].data) :
        /\ \/ /\ Occurs(NL, LineAfter(h, k)) \/ Occurs(Garbage, LineAfter(h, k))
              /\ Commit(Longer(k), Filled(h, k))
           \/ /\ ~Occurs(NL, LineAfter(h, k))
              /\ temp' = Longer(k) /\ mem' = Filled(h, k)
              /\ UNCHANGED <<bufVars, heap>>
        /\ f_pos' = [f_pos EXCEPT ![h] = 0]
        /\ UNCHANGED <<loaded, answer>>
  BY DEF WriteCopy, Longer, Filled, LineAfter
<1> DEFINE d == call[h].data
           p == LineAfter(h, k)
<1>2. d \in Data
  BY <1>0 DEF IInv, CallMatches
<1>3. loaded /\ loaded'
  BY <1>0, <1>1 DEF IInv, MemInv, LoadInv
<1>4. p = Partial \o SubSeq(d, 1, k)
  BY <1>0, <1>3, LineGrows
<1>5. /\ Longer(k) \in [buffptr : Ptr \cup {NULL, ZeroPtr}, size : Nat]
      /\ temp.buffptr = ZeroPtr => Longer(k).size = 0
  BY <1>0, CopyFits, ZeroPtrAssumption
<1>6. CASE (Occurs(NL, p) \/ Occurs(Garbage, p)) /\ Commit(Longer(k), Filled(h, k))
  <2>1. Longer(k).size > 0
    <3>1. p # <<>>
      BY <1>6 DEF Occurs
    <3> QED  BY <1>5, <3>1 DEF LineAfter
  <2>2. Partial' = <<>> /\ Lines' = Newest(Lines, p)
    BY <1>0, <1>3, <1>6, <2>1, CommitView
  <2> HIDE DEF p
  <2>3. Device!Write(h, d, k)
    BY <1>1, <1>4, <1>6, <2>2 DEF Device!Write, Device!Occurs, Occurs, Newest
  <2> QED  BY <1>2, <2>3
<1>7. CASE /\ ~Occurs(NL, p) /\ temp' = Longer(k) /\ mem' = Filled(h, k)
           /\ UNCHANGED <<bufVars, heap>>
  <2>1. mem \in [Ptr -> Seq(Byte)]
    BY DEF IInv, DeviceTypeOK
  <2>2. ASSUME NEW i \in Used PROVE mem'[entry[i].buffptr] = mem[entry[i].buffptr]
    <3>1. entry[i].buffptr \in Ptr /\ entry[i].buffptr # temp.buffptr
      BY <1>3 DEF IInv, MemInv, EntriesInv, DeviceTypeOK
    <3> QED  BY <1>7, <2>1, <3>1 DEF Filled
  <2>3. Lines' = Lines
    BY <1>3, <1>7, <2>2, LinesKept
  <2>4. Partial' = p
    <3>1. Longer(k).buffptr = temp.buffptr /\ Longer(k).size = temp.size + k
      BY DEF Longer
    <3>2. CASE Longer(k).size = 0
      BY <1>7, <3>2 DEF Partial, LineAfter
    <3>3. CASE Longer(k).size # 0
      <4>1. temp.buffptr # NULL
        BY <1>0, <1>5, <3>3, PtrAssumption DEF IInv, MemInv, RoomInv
      <4> QED  BY <1>3, <1>7, <3>1, <3>3, <4>1 DEF Partial, LineAfter
    <3> QED  BY <3>2, <3>3
  <2> HIDE DEF p
  <2>5. Device!Write(h, d, k)
    BY <1>1, <1>4, <1>7, <2>3, <2>4 DEF Device!Write, Device!Occurs, Occurs
  <2> QED  BY <1>2, <2>5
<1> QED  BY <1>1, <1>6, <1>7

LEMMA ReadView ==
    ASSUME IInv, PosInv, NEW h \in Handle, Read(h)
    PROVE  (\E n \in Count : Device!Read(h, n)) \/ UNCHANGED Seen
<1> DEFINE at  == FindEntry(f_pos[h])
           len == ReadLen(at.slot, at.byte, call[h].count)
           out == SubSeq(mem[entry[at.slot].buffptr], at.byte + 1, at.byte + len)
           n   == call[h].count
<1>1. pc[h] = "read" /\ UNCHANGED <<bufVars, loaded, devVars>>
  BY DEF Read
<1>2. \/ /\ at = NotFound /\ answer' = <<>>
         /\ f_pos' = [f_pos EXCEPT ![h] = 0]
      \/ /\ at # NotFound /\ answer' = out
         /\ f_pos' = [f_pos EXCEPT ![h] = @ + len]
      \/ UNCHANGED <<answer, f_pos>>
  BY DEF Read, Advance
<1>3. Lines' = Lines /\ Partial' = Partial
  BY <1>1, ViewKept
<1>4. n \in Count /\ n \in Nat /\ loaded /\ f_pos[h] \in Nat
  BY <1>1, CountAssumption DEF IInv, CallMatches, MemInv, LoadInv, PosInv
<1>5. CASE at = NotFound /\ answer' = <<>> /\ f_pos' = [f_pos EXCEPT ![h] = 0]
  <2>1. /\ f_pos[h] >= Device!LenOfFirst(Lines, Len(Lines))
        /\ Device!Answer(f_pos[h], n) = <<>>
    BY <1>4, <1>5, AnswerPastEnd
  <2> HIDE DEF n
  <2>2. Device!Read(h, n)
    BY <1>3, <1>5, <2>1 DEF Device!Read
  <2> QED  BY <1>4, <2>2
<1>6. CASE at # NotFound /\ answer' = out /\ f_pos' = [f_pos EXCEPT ![h] = @ + len]
  <2>1. /\ ~(f_pos[h] >= Device!LenOfFirst(Lines, Len(Lines)))
        /\ Device!Answer(f_pos[h], n) = out /\ Len(Device!Answer(f_pos[h], n)) = len
    BY <1>4, <1>6, AnswerFound
  <2> HIDE DEF n, at, len, out
  <2>2. Device!Read(h, n)
    BY <1>3, <1>6, <2>1 DEF Device!Read
  <2> QED  BY <1>4, <2>2
<1> QED  BY <1>2, <1>3, <1>5, <1>6 DEF Seen

LEMMA DeviceStep ==
    ASSUME IInv, IInv', PosInv, [Next]_vars
    PROVE  [Device!Next]_(Device!vars)
<1>0. UNCHANGED Seen => UNCHANGED Device!vars
  BY DEF Seen, Device!vars
<1>1. CASE Unload
  <2>1. Lines' = <<>> /\ Partial' = <<>> /\ UNCHANGED <<f_pos, answer>>
    BY <1>1 DEF Unload, Lines, Partial, ioVars
  <2> QED  BY <2>1 DEF Device!Next, Device!Reload
<1>2. CASE Load
  <2>1. ~loaded /\ temp' = Clean /\ full' = FALSE /\ in_offs' = 0 /\ out_offs' = 0
        /\ UNCHANGED <<f_pos, answer>>
    BY <1>2 DEF Load, ioVars
  <2>2. Live' = 0
    BY <2>1 DEF Live
  <2>3. Lines = <<>> /\ Lines' = <<>> /\ Partial = <<>> /\ Partial' = <<>>
    BY <2>1, <2>2 DEF Lines, Partial, Clean
  <2> QED  BY <1>0, <2>1, <2>3 DEF Seen
<1>3. ASSUME NEW h \in Handle, Open(h) \/ Enter(h) \/ Interrupted(h) PROVE UNCHANGED Seen
  <2>1. UNCHANGED <<bufVars, loaded, devVars, f_pos, answer>>
    BY <1>3 DEF Open, Enter, Interrupted
  <2> QED  BY <2>1, ViewKept DEF Seen
<1>4. ASSUME NEW h \in Handle, Release(h) PROVE Device!Close(h)
  <2>1. UNCHANGED <<bufVars, loaded, devVars, answer>> /\ f_pos' = [f_pos EXCEPT ![h] = 0]
    BY <1>4 DEF Release
  <2> QED  BY <2>1, ViewKept DEF Device!Close
<1>5. ASSUME NEW h \in Handle, LockRead(h) \/ LockWrite(h) PROVE Device!Consume
  <2>1. UNCHANGED <<bufVars, loaded, devVars, f_pos>> /\ answer' = <<>>
    BY <1>5 DEF LockRead, LockWrite, Lock
  <2> QED  BY <2>1, ViewKept DEF Device!Consume
<1>6. ASSUME NEW h \in Handle, WriteAlloc(h) PROVE UNCHANGED Seen
  <2>1. UNCHANGED <<f_pos, answer>>
    BY <1>6 DEF WriteAlloc
  <2> QED  BY <1>6, <2>1, RoomView DEF Seen
<1>7. CASE UNCHANGED vars
  <2>1. UNCHANGED <<bufVars, loaded, devVars, f_pos, answer>>
    BY <1>7 DEF vars, ioVars
  <2> QED  BY <1>0, <2>1, ViewKept DEF Seen
<1> QED  BY <1>0, <1>1, <1>2, <1>3, <1>4, <1>5, <1>6, <1>7, NoMemView, CopyView, ReadView
         DEF Next, Device!Next

(***************************************************************************)
(* Every open of /dev/aesdchar sees a device whose calls take effect one at*)
(* a time: writes build lines, the newest Max lines are kept, a read gives *)
(* the bytes at its position; for any number of slots, files and blocks,   *)
(* and through every failure the driver can meet.                          *)
(***************************************************************************)
THEOREM DriverImplementsLineDevice == Spec => ImplementsLineDevice
<1>1. Init => Device!Init
  <2> SUFFICES ASSUME Init PROVE Device!Init
    OBVIOUS
  <2>1. Live = 0 /\ temp.size = 0 /\ loaded
    BY MaxAssumption DEF Init, BufferInit, Live, Clean
  <2>2. Lines = <<>> /\ Partial = <<>>
    BY <2>1 DEF Lines, Partial
  <2> QED  BY <2>2 DEF Init, Device!Init
<1>2. IInv /\ IInv' /\ PosInv /\ [Next]_vars => [Device!Next]_(Device!vars)
  BY DeviceStep
<1>3. Spec => [](IInv /\ PosInv)
  BY InitInv, NextInv, PosInit, PosStep, PTL DEF Spec
<1> QED  BY <1>1, <1>2, <1>3, PTL DEF Spec, ImplementsLineDevice, Device!Spec

-----------------------------------------------------------------------------
(***************************************************************************)
(* A write is only made while its line stays within MaxLine bytes.         *)
(***************************************************************************)
SizeInv == \A h \in Handle : pc[h] \in {"write", "copy"} =>
    temp.size + Len(call[h].data) <= MaxLine

LEMMA SizeStep == IInv /\ SizeInv /\ [Next]_vars => SizeInv'
<1> SUFFICES ASSUME IInv, SizeInv, [Next]_vars PROVE SizeInv'
  OBVIOUS
<1> USE DEF IInv, DeviceTypeOK
<1>1. CASE Unload \/ Load
  <2>1. \A h \in Handle : pc[h] = "closed" /\ pc' = pc
    BY <1>1 DEF Unload, Load, MemInv, LoadInv, ioVars
  <2> QED  BY <2>1 DEF SizeInv
<1>2. ASSUME NEW h \in Handle, Open(h) \/ Release(h) \/ Enter(h) \/ Interrupted(h)
      PROVE  SizeInv'
  <2>1. UNCHANGED <<temp, call>> /\ \A g \in Handle : pc'[g] \in {"write", "copy"} => pc[g] = pc'[g]
    BY <1>2 DEF Open, Release, Enter, Interrupted, devVars
  <2> QED  BY <2>1 DEF SizeInv
<1>3. ASSUME NEW h \in Handle, NEW n \in Count, Lock(h, [op |-> "read", count |-> n])
      PROVE  SizeInv'
  <2>1. temp' = temp /\ \A g \in Handle : pc'[g] \in {"write", "copy"} =>
            pc[g] = pc'[g] /\ call'[g] = call[g]
    BY <1>3 DEF Lock, devVars
  <2> QED  BY <2>1 DEF SizeInv
<1>4. ASSUME NEW h \in Handle, LockWrite(h) PROVE SizeInv'
  <2>1. PICK d \in Data : temp.size + Len(d) <= MaxLine
                          /\ Lock(h, [op |-> "write", data |-> d])
    BY <1>4 DEF LockWrite
  <2>2. temp' = temp /\ \A g \in Handle : g # h => pc'[g] = pc[g] /\ call'[g] = call[g]
    BY <2>1 DEF Lock, devVars
  <2>3. call'[h].data = d
    BY <2>1 DEF Lock
  <2> QED  BY <2>1, <2>2, <2>3 DEF SizeInv
<1>5. ASSUME NEW h \in Handle, Read(h) \/ WriteNoMem(h) \/ WriteCopy(h) PROVE SizeInv'
  <2>1. pc[h] \in {"read", "write", "copy"} /\ pc' = [pc EXCEPT ![h] = "open"]
    BY <1>5 DEF Read, WriteNoMem, WriteCopy, Return
  <2>2. \A g \in Handle : pc'[g] \notin {"write", "copy"}
    BY <2>1, HandleAssumption DEF LockInv
  <2> QED  BY <2>2 DEF SizeInv
<1>6. ASSUME NEW h \in Handle, WriteAlloc(h) PROVE SizeInv'
  <2>1. pc[h] = "write" /\ pc' = [pc EXCEPT ![h] = "copy"] /\ call' = call
    BY <1>6 DEF WriteAlloc
  <2>2. temp'.size = temp.size
    BY <1>6, WriteRoom DEF Roomy
  <2> QED  BY <2>1, <2>2 DEF SizeInv
<1>7. CASE UNCHANGED vars
  BY <1>7 DEF vars, devVars, ioVars, SizeInv
<1> QED  BY <1>1, <1>2, <1>3, <1>4, <1>5, <1>6, <1>7 DEF Next, LockRead

(***************************************************************************)
(* While the module stays inserted the ring changes only by one committed  *)
(* line joining the log of the newest Max, and add_entry returns, for      *)
(* kfree, the block of the line that falls out.  The log's items must have *)
(* room for the lines that can be written.                                 *)
(***************************************************************************)
THEOREM DriverKeepsLog ==
    ASSUME MaxLine \in Nat, 1 .. MaxLine \subseteq Sizes
    PROVE  Spec => RingKeepsLog
<1>1. Init => SizeInv
  BY DEF Init, SizeInv
<1>2. IInv /\ SizeInv /\ [Next]_vars => [loaded' = loaded => BoundedLog!Next]_bufVars
  <2> SUFFICES ASSUME IInv, SizeInv, [Next]_vars, ~(UNCHANGED bufVars), loaded' = loaded
               PROVE  BoundedLog!Next
    OBVIOUS
  <2>1. PICK h \in Handle : WriteCopy(h)
    <3>1. ~Unload /\ ~Load
      BY DEF Unload, Load, IInv, DeviceTypeOK
    <3>2. \A g \in Handle : ~Open(g) /\ ~Release(g) /\ ~Enter(g) /\ ~Interrupted(g)
                            /\ ~LockRead(g) /\ ~LockWrite(g) /\ ~Read(g)
                            /\ ~WriteAlloc(g) /\ ~WriteNoMem(g)
      BY DEF Open, Release, Enter, Interrupted, LockRead, LockWrite, Lock, Read, WriteAlloc,
             WriteNoMem
    <3>3. ~(UNCHANGED vars)
      BY DEF vars
    <3> QED  BY <3>1, <3>2, <3>3 DEF Next
  <2>2. pc[h] = "copy"
    BY <2>1 DEF WriteCopy
  <2>3. PICK k \in 0 .. Len(call[h].data) :
          /\ Occurs(NL, LineAfter(h, k)) \/ Occurs(Garbage, LineAfter(h, k))
          /\ Commit(Longer(k), Filled(h, k))
    BY <2>1 DEF WriteCopy, Longer, Filled, LineAfter
  <2>4. /\ Longer(k) \in [buffptr : Ptr \cup {NULL, ZeroPtr}, size : Nat]
        /\ Longer(k).buffptr = temp.buffptr
        /\ \/ temp.buffptr = ZeroPtr /\ Longer(k).size = 0
           \/ temp.buffptr \in Ptr
    BY <2>2, CopyFits
  <2>5. Longer(k).size # 0
    <3>1. LineAfter(h, k) # <<>>
      BY <2>3 DEF Occurs
    <3> QED  BY <3>1 DEF LineAfter
  <2>6. Longer(k).size <= MaxLine
    <3>1. Longer(k).size = temp.size + k
      BY DEF Longer
    <3>2. temp.size + Len(call[h].data) <= MaxLine
      BY <2>2 DEF SizeInv
    <3>3. call[h].data \in Seq(Byte) /\ temp.size \in Nat
      BY <2>2, DataAssumption DEF IInv, CallMatches, DeviceTypeOK
    <3>4. Len(call[h].data) \in Nat /\ k \in Nat /\ k <= Len(call[h].data)
      BY <3>3
    <3> QED  BY <3>1, <3>2, <3>3, <3>4
  <2>7. Longer(k).size \in Sizes /\ Longer(k).buffptr \in Ptr
    BY <2>4, <2>5, <2>6
  <2>8. Longer(k) \in NewEntry /\ Longer(k) \in [buffptr : Ptr, size : Nat]
    BY <2>4, <2>7 DEF NewEntry
  <2>9. BoundedLog!Add(Longer(k))
    BY <2>3, <2>8, RingFromInv, AddImplementsAdd DEF Commit
  <2> QED  BY <2>8, <2>9 DEF BoundedLog!Next
<1> QED  BY <1>1, <1>2, InitInv, NextInv, SizeStep, PTL DEF Spec, RingKeepsLog
=============================================================================
