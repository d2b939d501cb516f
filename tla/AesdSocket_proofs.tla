------------------------- MODULE AesdSocket_proofs -------------------------
(***************************************************************************)
(* The server, for any number of connections and any packets: data_mutex,  *)
(* the threads that are left at the exit, end_pos and the types under any  *)
(* faults, and without faults what every client is sent.                   *)
(***************************************************************************)
EXTENDS AesdSocket, SequenceTheorems, WellFoundedInduction, TLAPS

-----------------------------------------------------------------------------
(***************************************************************************)
(* What a recursive function over 0 .. N computes: running totals and      *)
(* running concatenations.  The model uses such functions for the bytes  *)
(* of the lines that a client is sent.                                     *)
(*                                                                         *)
(* Induction is by the least element of a set of naturals, which the       *)
(* library's theorems on well-founded relations give without a predicate   *)
(* as a parameter.                                                         *)
(***************************************************************************)
LEMMA Least ==
    ASSUME NEW T \in SUBSET Nat, T # {}
    PROVE  \E n \in T : \A m \in T : n <= m
<1> DEFINE R == OpToRel(<, Nat)
<1>1. IsWellFoundedOn(R, Nat)
  BY NatLessThanWellFounded, Zenon
<1>2. \A x, y \in Nat : y < x => <<y, x>> \in R
  BY Zenon DEF OpToRel
<1> HIDE DEF R
<1>3. PICK n \in T : \A m \in T : <<m, n>> \notin R
  BY <1>1, WFMin, Zenon
<1>4. \A m \in T : ~(m < n)
  BY <1>2, <1>3, Zenon
<1> QED  BY <1>4

(***************************************************************************)
(* T has 0, and with n < N also n + 1.                                     *)
(***************************************************************************)
Climbs(T, N) == 0 \in T /\ \A n \in 0 .. N : n < N /\ n \in T => n + 1 \in T

LEMMA Climb ==
    ASSUME NEW N \in Nat, NEW T, Climbs(T, N)
    PROVE  0 .. N \subseteq T
<1> DEFINE C == {n \in 0 .. N : n \notin T}
<1> SUFFICES ASSUME C # {} PROVE FALSE
  OBVIOUS
<1>1. PICK n \in C : \A m \in C : n <= m
  <2>1. C \in SUBSET Nat
    OBVIOUS
  <2> HIDE DEF C
  <2> QED  BY <2>1, Least
<1> QED  BY <1>1 DEF Climbs

(***************************************************************************)
(* f[k] is z after the first k of N steps; step k is the function g[k].    *)
(***************************************************************************)
IsFold(f, B, z, N, g) ==
    f \in [0 .. N -> B] /\ f[0] = z /\ \A k \in 1 .. N : f[k] = g[k][f[k - 1]]

LEMMA FoldExists ==
    ASSUME NEW B, NEW z \in B, NEW N \in Nat, NEW g \in [1 .. N -> [B -> B]]
    PROVE  \E f : IsFold(f, B, z, N, g)
<1> DEFINE Good(n) == \E f : IsFold(f, B, z, n, g)
           T == {n \in 0 .. N : Good(n)}
<1>1. 0 \in T
  <2> DEFINE f == [k \in 0 .. 0 |-> z]
  <2>1. f \in [0 .. 0 -> B] /\ f[0] = z /\ 1 .. 0 = {}
    OBVIOUS
  <2> HIDE DEF f
  <2>2. IsFold(f, B, z, 0, g)
    BY <2>1 DEF IsFold
  <2> QED  BY <2>2
<1>2. ASSUME NEW n \in 0 .. N, n < N, n \in T PROVE n + 1 \in T
  <2>1. PICK f : IsFold(f, B, z, n, g)
    BY <1>2
  <2> DEFINE h == [k \in 0 .. n + 1 |-> IF k = n + 1 THEN g[n + 1][f[n]] ELSE f[k]]
  <2>2. h \in [0 .. n + 1 -> B]
    BY <1>2, <2>1 DEF IsFold
  <2>3. h[0] = z /\ \A k \in 1 .. n + 1 : h[k] = g[k][h[k - 1]]
    BY <1>2, <2>1 DEF IsFold
  <2> HIDE DEF h
  <2>4. IsFold(h, B, z, n + 1, g)
    BY <2>2, <2>3 DEF IsFold
  <2> QED  BY <1>2, <2>4
<1>3. N \in T
  <2> HIDE DEF T
  <2>1. Climbs(T, N)
    BY <1>1, <1>2 DEF Climbs
  <2> QED  BY <2>1, Climb
<1> QED  BY <1>3

-----------------------------------------------------------------------------
(***************************************************************************)
(* Running totals of N numbers, and the equation that defines them.        *)
(***************************************************************************)
Sums(f, a, N) ==
    f \in [0 .. N -> Nat] /\ f[0] = 0 /\ \A k \in 1 .. N : f[k] = f[k - 1] + a[k]

SumEquation(f, a, N) == f = [j \in 0 .. N |-> IF j = 0 THEN 0 ELSE f[j - 1] + a[j]]

LEMMA SumsExist ==
    ASSUME NEW N \in Nat, NEW a \in [1 .. N -> Nat]
    PROVE  \E f : Sums(f, a, N) /\ SumEquation(f, a, N)
<1> DEFINE g == [k \in 1 .. N |-> [x \in Nat |-> x + a[k]]]
<1>1. g \in [1 .. N -> [Nat -> Nat]]
  OBVIOUS
<1>2. \A k \in 1 .. N : \A x \in Nat : g[k][x] = x + a[k]
  OBVIOUS
<1> HIDE DEF g
<1>3. PICK f : IsFold(f, Nat, 0, N, g)
  BY <1>1, FoldExists
<1>4. f \in [0 .. N -> Nat] /\ f[0] = 0 /\ \A k \in 1 .. N : f[k] = g[k][f[k - 1]]
  BY <1>3 DEF IsFold
<1>5. ASSUME NEW k \in 1 .. N PROVE f[k] = f[k - 1] + a[k]
  <2>1. f[k - 1] \in Nat /\ f[k] = g[k][f[k - 1]]
    BY <1>4
  <2> QED  BY <1>2, <2>1
<1>6. SumEquation(f, a, N)
  BY <1>4, <1>5 DEF SumEquation
<1> QED  BY <1>4, <1>5, <1>6 DEF Sums

LEMMA SumsSolve ==
    ASSUME NEW N \in Nat, NEW a \in [1 .. N -> Nat], NEW s, SumEquation(s, a, N)
    PROVE  Sums(s, a, N)
<1>0. PICK f : Sums(f, a, N)
  BY SumsExist
<1> DEFINE T == {j \in 0 .. N : s[j] = f[j]}
<1>1. DOMAIN s = 0 .. N /\ s[0] = 0 /\ \A j \in 1 .. N : s[j] = s[j - 1] + a[j]
  BY DEF SumEquation
<1>2. 0 \in T /\ \A j \in 0 .. N : j < N /\ j \in T => j + 1 \in T
  BY <1>0, <1>1 DEF Sums
<1>3. 0 .. N \subseteq T
  <2> HIDE DEF T
  <2> QED  BY <1>2, Climb DEF Climbs
<1>4. \A j \in 0 .. N : s[j] = f[j]
  BY <1>3
<1>5. s = [j \in 0 .. N |-> s[j]] /\ f = [j \in 0 .. N |-> f[j]]
  BY <1>0 DEF Sums, SumEquation
<1>6. s = f
  BY <1>4, <1>5
<1> QED  BY <1>0, <1>6

Agree(a, b, N) == \A k \in 1 .. N : a[k] = b[k]

LEMMA SumsLocate ==
    ASSUME NEW N \in Nat, NEW a \in [1 .. N -> Nat], NEW f, Sums(f, a, N),
           NEW p \in Nat, p < f[N]
    PROVE  \E k \in 1 .. N : f[k - 1] <= p /\ p < f[k]
<1> DEFINE T == {n \in 0 .. N : p < f[n]}
<1>1. PICK k \in T : \A m \in T : k <= m
  <2>1. T \in SUBSET Nat /\ N \in T
    OBVIOUS
  <2> HIDE DEF T
  <2> QED  BY <2>1, Least
<1>2. k # 0 /\ k \in 1 .. N
  BY <1>1 DEF Sums
<1>3. k - 1 \notin T /\ f[k - 1] \in Nat
  BY <1>1, <1>2 DEF Sums
<1> QED  BY <1>1, <1>2, <1>3

-----------------------------------------------------------------------------
(***************************************************************************)
(* w is s followed by t.                                                   *)
(***************************************************************************)
Joins(w, s, t, S) ==
    /\ w \in Seq(S) /\ s \in Seq(S) /\ t \in Seq(S)
    /\ Len(w) = Len(s) + Len(t)
    /\ \A x \in 1 .. Len(s) : w[x] = s[x]
    /\ \A x \in 1 .. Len(t) : w[Len(s) + x] = t[x]

LEMMA JoinIs ==
    ASSUME NEW S, NEW s \in Seq(S), NEW t \in Seq(S)
    PROVE  Joins(s \o t, s, t, S)
  BY DEF Joins

LEMMA JoinUnique ==
    ASSUME NEW S, NEW w, NEW s, NEW t, Joins(w, s, t, S)
    PROVE  w = s \o t
<1>1. Joins(s \o t, s, t, S)
  BY JoinIs DEF Joins
<1>2. ASSUME NEW x \in 1 .. Len(w) PROVE w[x] = (s \o t)[x]
  <2>1. CASE x <= Len(s)
    BY <1>1, <2>1 DEF Joins
  <2>2. CASE x > Len(s)
    <3>1. x - Len(s) \in 1 .. Len(t) /\ x = Len(s) + (x - Len(s))
      BY <2>2 DEF Joins
    <3> QED  BY <1>1, <3>1 DEF Joins
  <2> QED  BY <2>1, <2>2 DEF Joins
<1>3. w \in Seq(S) /\ s \o t \in Seq(S) /\ Len(w) = Len(s \o t)
  BY <1>1 DEF Joins
<1> QED  BY <1>2, <1>3, SeqEqual

(***************************************************************************)
(* Running concatenations of N sequences over S, and their equation.       *)
(***************************************************************************)
Concats(f, a, N, S) ==
    /\ f \in [0 .. N -> Seq(S)] /\ f[0] = <<>>
    /\ \A k \in 1 .. N : Joins(f[k], f[k - 1], a[k], S)

ConcatEquation(f, a, N) ==
    f = [j \in 0 .. N |-> IF j = 0 THEN <<>> ELSE f[j - 1] \o a[j]]

LEMMA ConcatsStep ==
    ASSUME NEW S, NEW N, NEW a, NEW f, Concats(f, a, N, S), NEW k \in 1 .. N
    PROVE  Joins(f[k], f[k - 1], a[k], S)
  BY DEF Concats

LEMMA ConcatsExist ==
    ASSUME NEW S, NEW N \in Nat, NEW a \in [1 .. N -> Seq(S)]
    PROVE  \E f : Concats(f, a, N, S) /\ ConcatEquation(f, a, N)
<1> DEFINE g == [k \in 1 .. N |-> [x \in Seq(S) |-> x \o a[k]]]
<1>1. g \in [1 .. N -> [Seq(S) -> Seq(S)]]
  OBVIOUS
<1>2. \A k \in 1 .. N : \A x \in Seq(S) : g[k][x] = x \o a[k]
  OBVIOUS
<1>3. <<>> \in Seq(S)
  OBVIOUS
<1> HIDE DEF g
<1>4. PICK f : IsFold(f, Seq(S), <<>>, N, g)
  BY <1>1, <1>3, FoldExists
<1>5. f \in [0 .. N -> Seq(S)] /\ f[0] = <<>> /\ \A k \in 1 .. N : f[k] = g[k][f[k - 1]]
  BY <1>4 DEF IsFold
<1>6. ASSUME NEW k \in 1 .. N PROVE f[k] = f[k - 1] \o a[k] /\ Joins(f[k], f[k - 1], a[k], S)
  <2>1. f[k - 1] \in Seq(S) /\ a[k] \in Seq(S) /\ f[k] = g[k][f[k - 1]]
    BY <1>5, SMTT(30)
  <2>2. f[k] = f[k - 1] \o a[k]
    BY <1>2, <2>1
  <2> QED  BY <2>1, <2>2, JoinIs
<1>7. ASSUME NEW j \in 0 .. N PROVE f[j] = IF j = 0 THEN <<>> ELSE f[j - 1] \o a[j]
  <2>1. CASE j = 0
    BY <1>5, <2>1
  <2>2. CASE j # 0
    <3>1. j \in 1 .. N
      BY <2>2
    <3> QED  BY <1>6, <2>2, <3>1, Zenon
  <2> QED  BY <2>1, <2>2
<1>8. f = [j \in 0 .. N |-> IF j = 0 THEN <<>> ELSE f[j - 1] \o a[j]]
  BY <1>5, <1>7, Zenon
<1>9. ConcatEquation(f, a, N)
  BY <1>8 DEF ConcatEquation
<1> QED  BY <1>5, <1>6, <1>9 DEF Concats

LEMMA ConcatsSolve ==
    ASSUME NEW S, NEW N \in Nat, NEW a \in [1 .. N -> Seq(S)],
           NEW s, ConcatEquation(s, a, N)
    PROVE  Concats(s, a, N, S)
<1>1. PICK f : Concats(f, a, N, S)
  BY ConcatsExist
<1>2. DOMAIN s = 0 .. N /\ \A j \in 0 .. N : s[j] = IF j = 0 THEN <<>> ELSE s[j - 1] \o a[j]
  BY DEF ConcatEquation
<1> DEFINE T == {j \in 0 .. N : s[j] = f[j]}
<1>3. 0 \in T
  <2>1. 0 \in 0 .. N
    OBVIOUS
  <2>2. s[0] = <<>> /\ f[0] = <<>>
    BY <1>1, <1>2, <2>1, Zenon DEF Concats
  <2> QED  BY <2>1, <2>2
<1>4. ASSUME NEW j \in 0 .. N, j < N, j \in T PROVE j + 1 \in T
  <2>1. j + 1 \in 1 .. N /\ j + 1 \in 0 .. N /\ j + 1 # 0 /\ (j + 1) - 1 = j /\ s[j] = f[j]
    BY <1>4
  <2>2. Joins(f[j + 1], f[j], a[j + 1], S)
    BY <1>1, <2>1, ConcatsStep
  <2>3. f[j + 1] = f[j] \o a[j + 1]
    BY <2>2, JoinUnique
  <2>4. s[j + 1] = s[j] \o a[j + 1]
    BY <1>2, <2>1
  <2>5. f[j + 1] = s[j + 1]
    BY <2>1, <2>3, <2>4, Zenon
  <2> QED  BY <2>1, <2>5
<1>5. 0 .. N \subseteq T
  <2> HIDE DEF T
  <2> QED  BY <1>3, <1>4, Climb DEF Climbs
<1>6. \A j \in 0 .. N : s[j] = f[j]
  BY <1>5
<1>7. s = [j \in 0 .. N |-> s[j]] /\ f = [j \in 0 .. N |-> f[j]]
  BY <1>1 DEF Concats, ConcatEquation
<1>8. s = f
  BY <1>6, <1>7
<1> QED  BY <1>1, <1>8

(***************************************************************************)
(* Two families that agree on their first N members have the same first N  *)
(* concatenations.                                                         *)
(***************************************************************************)
LEMMA ConcatsAgree ==
    ASSUME NEW S, NEW N \in Nat, NEW M \in Nat, N <= M,
           NEW a, NEW f, Concats(f, a, N, S),
           NEW b, NEW h, Concats(h, b, M, S),
           Agree(a, b, N),
           NEW n \in 0 .. N
    PROVE  f[n] = h[n]
<1> DEFINE T == {j \in 0 .. N : f[j] = h[j]}
<1>1. 0 \in T
  BY DEF Concats
<1>2. ASSUME NEW j \in 0 .. N, j < N, j \in T PROVE j + 1 \in T
  <2>1. j + 1 \in 1 .. N /\ j + 1 \in 1 .. M /\ (j + 1) - 1 = j /\ f[j] = h[j]
    BY <1>2
  <2>2. Joins(f[j + 1], f[j], a[j + 1], S)
    BY <2>1, ConcatsStep
  <2>3. Joins(h[j + 1], h[j], b[j + 1], S)
    BY <2>1, ConcatsStep
  <2>4. f[j + 1] = f[j] \o a[j + 1]
    BY <2>2, JoinUnique
  <2>5. h[j + 1] = h[j] \o b[j + 1]
    BY <2>3, JoinUnique
  <2>6. a[j + 1] = b[j + 1] /\ f[j] = h[j]
    BY <2>1 DEF Agree
  <2>7. f[j + 1] = h[j + 1]
    BY <2>4, <2>5, <2>6, Zenon
  <2> QED  BY <2>1, <2>7
<1>3. 0 .. N \subseteq T
  <2> HIDE DEF T
  <2> QED  BY <1>1, <1>2, Climb DEF Climbs
<1> QED  BY <1>3

(***************************************************************************)
(* Where the bytes of a concatenation are: byte b of member k comes after  *)
(* the members before it.                                                  *)
(***************************************************************************)
Lengths(a, N) == [k \in 1 .. N |-> Len(a[k])]

LEMMA ConcatsLength ==
    ASSUME NEW S, NEW N \in Nat, NEW a, NEW f, Concats(f, a, N, S),
           NEW l, Sums(l, Lengths(a, N), N), NEW n \in 0 .. N
    PROVE  Len(f[n]) = l[n]
<1> DEFINE T == {j \in 0 .. N : Len(f[j]) = l[j]}
<1>1. 0 \in T
  BY DEF Concats, Sums
<1>2. ASSUME NEW j \in 0 .. N, j < N, j \in T PROVE j + 1 \in T
  <2>1. j + 1 \in 1 .. N /\ (j + 1) - 1 = j /\ Len(f[j]) = l[j]
    BY <1>2
  <2>2. Joins(f[j + 1], f[j], a[j + 1], S)
    BY <2>1, ConcatsStep
  <2>3. l[j + 1] = l[j] + Len(a[j + 1])
    BY <2>1 DEF Sums, Lengths
  <2>4. Len(f[j + 1]) = Len(f[j]) + Len(a[j + 1])
    BY <2>2 DEF Joins
  <2> QED  BY <2>1, <2>3, <2>4
<1>3. 0 .. N \subseteq T
  <2> HIDE DEF T
  <2> QED  BY <1>1, <1>2, Climb DEF Climbs
<1> QED  BY <1>3

Starts(s, t) == Len(s) <= Len(t) /\ \A x \in 1 .. Len(s) : t[x] = s[x]

LEMMA JoinStarts ==
    ASSUME NEW S, NEW w, NEW s, NEW t, NEW r \in Seq(S), Starts(r, s), Joins(w, s, t, S)
    PROVE  Starts(r, w)
<1>1. Len(w) = Len(s) + Len(t) /\ Len(s) \in Nat /\ Len(t) \in Nat /\ Len(r) \in Nat
  BY DEF Joins
<1>2. ASSUME NEW x \in 1 .. Len(r) PROVE w[x] = r[x]
  <2>1. x \in 1 .. Len(s)
    BY <1>1 DEF Starts
  <2> QED  BY <2>1 DEF Joins, Starts
<1> QED  BY <1>1, <1>2 DEF Starts

LEMMA ConcatsPrefix ==
    ASSUME NEW S, NEW N \in Nat, NEW a, NEW f, Concats(f, a, N, S),
           NEW i \in 0 .. N, NEW j \in i .. N
    PROVE  Starts(f[i], f[j])
<1> DEFINE T == {n \in 0 .. N : i <= n => Starts(f[i], f[n])}
<1>1. f[i] \in Seq(S) /\ Starts(f[i], f[i])
  BY DEF Concats, Starts
<1>2. 0 \in T
  BY <1>1
<1>3. ASSUME NEW n \in 0 .. N, n < N, n \in T PROVE n + 1 \in T
  <2>1. CASE i <= n
    <3>1. n + 1 \in 1 .. N /\ (n + 1) - 1 = n /\ Starts(f[i], f[n])
      BY <1>3, <2>1
    <3>2. Joins(f[n + 1], f[n], a[n + 1], S)
      BY <3>1, ConcatsStep
    <3>3. Starts(f[i], f[n + 1])
      BY <1>1, <3>1, <3>2, JoinStarts
    <3> QED  BY <3>1, <3>3
  <2>2. CASE ~(i <= n)
    <3>1. i <= n + 1 => i = n + 1
      BY <2>2
    <3> QED  BY <1>1, <1>3, <3>1
  <2> QED  BY <2>1, <2>2
<1>4. 0 .. N \subseteq T
  <2> HIDE DEF T
  <2> QED  BY <1>2, <1>3, Climb DEF Climbs
<1> QED  BY <1>4

Places(s, l, a, N) == \A k \in 1 .. N : \A b \in 1 .. Len(a[k]) :
    l[k - 1] + b \in 1 .. Len(s) /\ s[l[k - 1] + b] = a[k][b]

LEMMA ConcatsPlace ==
    ASSUME NEW S, NEW N \in Nat, NEW a, NEW f, Concats(f, a, N, S),
           NEW l, Sums(l, Lengths(a, N), N)
    PROVE  Places(f[N], l, a, N)
<1> SUFFICES ASSUME NEW k \in 1 .. N, NEW b \in 1 .. Len(a[k])
             PROVE  l[k - 1] + b \in 1 .. Len(f[N]) /\ f[N][l[k - 1] + b] = a[k][b]
  BY DEF Places
<1>1. Joins(f[k], f[k - 1], a[k], S)
  BY ConcatsStep
<1>2. Len(f[k - 1]) = l[k - 1]
  BY ConcatsLength
<1>3. l[k - 1] + b \in 1 .. Len(f[k]) /\ f[k][l[k - 1] + b] = a[k][b]
  BY <1>1, <1>2 DEF Joins
<1>4. Starts(f[k], f[N])
  BY ConcatsPrefix
<1>5. Len(f[k]) \in Nat /\ Len(f[N]) \in Nat
  BY SMTT(30) DEF Concats
<1> QED  BY <1>3, <1>4, <1>5 DEF Starts


LockInv ==
    /\ DOMAIN pc = Conn /\ pc = [c \in Conn |-> pc[c]]
    /\ MutualExclusion

(***************************************************************************)
(* The steps of a thread that neither enter nor leave the critical section.*)
(***************************************************************************)
LEMMA OutsideStep ==
    ASSUME LockInv, UNCHANGED owner, NEW c \in Conn, NEW to,
           pc' = [pc EXCEPT ![c] = to],
           to \in {"write", "publish", "read"} => pc[c] \in {"write", "publish", "read"}
    PROVE  LockInv'
  BY DEF LockInv, MutualExclusion, InMutex

LEMMA EnterStep ==
    ASSUME LockInv, NEW c \in Conn, NEW to, MutexFree, owner' = c, pc' = [pc EXCEPT ![c] = to]
    PROVE  LockInv'
  BY NobodyAssumption DEF LockInv, MutualExclusion, InMutex, MutexFree

LEMMA LeaveStep ==
    ASSUME LockInv, NEW c \in Conn, NEW to, c \in InMutex, pc' = [pc EXCEPT ![c] = to],
           to \notin {"write", "publish", "read"}
    PROVE  LockInv'
  BY NobodyAssumption DEF LockInv, MutualExclusion, InMutex

LEMMA StillStep == ASSUME LockInv, UNCHANGED <<pc, owner>> PROVE LockInv'
  BY DEF LockInv, MutualExclusion, InMutex

LEMMA ThreadStep == ASSUME LockInv, NEW c \in Conn, Thread(c) PROVE LockInv'
<1> USE DEF Go
<1>1. CASE OpenDevice(c)
  BY <1>1, OutsideStep DEF OpenDevice
<1>2. CASE Recv(c)
  BY <1>2, OutsideStep DEF Recv
<1>3. CASE RecvClosed(c)
  BY <1>3, OutsideStep DEF RecvClosed
<1>4. CASE Crash(c)
  BY <1>4, StillStep DEF Crash
<1>5. CASE LockWrite(c)
  BY <1>5, EnterStep DEF LockWrite
<1>6. CASE Write(c)
  BY <1>6, OutsideStep DEF Write, AfterShortWrite
<1>7. CASE Publish(c)
  BY <1>7, LeaveStep DEF Publish, InMutex
<1>8. CASE More(c)
  BY <1>8, OutsideStep DEF More
<1>9. CASE LockRead(c)
  BY <1>9, EnterStep DEF LockRead
<1>10. CASE ReadByte(c)
  <2>1. /\ pc[c] = "read"
        /\ pc' = [pc EXCEPT ![c] = "send"] \/ UNCHANGED <<pc, owner>>
    BY <1>10 DEF ReadByte
  <2> QED  BY <2>1, LeaveStep, StillStep DEF InMutex
<1>11. CASE Send(c)
  BY <1>11, OutsideStep DEF Send
<1>12. CASE Finish(c)
  BY <1>12, OutsideStep DEF Finish
<1> QED  BY <1>1, <1>2, <1>3, <1>4, <1>5, <1>6, <1>7, <1>8, <1>9, <1>10, <1>11, <1>12
         DEF Thread

LEMMA SetUpStep == ASSUME LockInv, SetUp \/ ParentSignal \/ ParentExit PROVE LockInv'
  BY StillStep DEF SetUp, InstallHandlers, InitMutex, Socket, SetSockOpt, Bind, Listen, Call,
                   Daemonise, Session, ParentSignal, ParentExit, Threads

LEMMA MainStep == ASSUME LockInv, Main \/ Signal \/ AcceptNoMem PROVE LockInv'
  BY StillStep, SetUpStep DEF Main, While, AcceptFails, Scan, ScanDone, Cleanup, Exit,
                   Signal, AcceptNoMem, Threads

LEMMA AcceptStep == ASSUME LockInv, NEW c \in Conn, Accept(c) PROVE LockInv'
  BY StillStep, OutsideStep DEF Accept

LEMMA LockStep == ASSUME LockInv, [Next]_vars PROVE LockInv'
<1>1. CASE UNCHANGED vars
  BY <1>1, StillStep DEF vars
<1> QED  BY <1>1, ThreadStep, MainStep, SetUpStep, AcceptStep DEF Next

LEMMA InitLock == Init => LockInv
  BY DEF Init, LockInv, MutualExclusion, InMutex

(***************************************************************************)
(* A thread of the server between pthread_mutex_lock and unlock holds      *)
(* data_mutex and is alone there: also when writes, sends or allocations   *)
(* fail, and a thread has left without unlocking.                          *)
(***************************************************************************)
THEOREM ServerMutualExclusion == Spec => []MutualExclusion
<1>1. LockInv => MutualExclusion
  BY DEF LockInv
<1> QED  BY <1>1, InitLock, LockStep, PTL DEF Spec

-----------------------------------------------------------------------------
(***************************************************************************)
(* The types of what controls the server.                                  *)
(***************************************************************************)
SetUpPlaces == {"signal", "mutex", "socket", "setsockopt", "bind", "daemon", "session", "listen"}
MainPlaces == SetUpPlaces \cup {"while", "accept", "scan", "cleanup", "exited", "crashed",
                                "killed", "returned"}
ThreadPlaces == {"none", "open", "recv", "lockwrite", "write", "publish", "more", "lockread", "read",
            "send", "finish", "exited"}

MainTypes ==
    /\ mpc \in MainPlaces
    /\ sock \in {"stdin", "none", "open", "listening", "shut", "closed"}
    /\ parent \in BOOLEAN /\ signal_exit_code \in BOOLEAN
    /\ iter \in Seq(Conn) /\ list \in Seq(Conn)
    /\ tid \in [Conn -> Tid \cup {Junk}]
    /\ holder \in [Tid -> Conn \cup {Nobody}]
    /\ pc \in [Conn -> ThreadPlaces]

(***************************************************************************)
(* Where main is says which threads there can be; a thread that runs is in *)
(* the list, holds an id of its own, and is still to be joined at the end. *)
(***************************************************************************)
Alive == {c \in Conn : pc[c] \notin {"none", "exited"}}
Members(s) == {s[k] : k \in 1 .. Len(s)}

ExitInv ==
    /\ \A c \in Alive : tid[c] # Junk /\ holder[tid[c]] = c
    /\ mpc \in SetUpPlaces => Alive = {} /\ iter = <<>> /\ list = <<>>
    /\ mpc \in {"while", "accept", "scan"} => Alive \subseteq Members(list)
    /\ mpc = "cleanup" => Alive \subseteq Members(iter)
    /\ mpc = "exited" => Alive = {}

ServerInv == MainTypes /\ ExitInv

LEMMA HeadTail ==
    ASSUME NEW s \in Seq(Conn), s # <<>>
    PROVE  /\ Head(s) \in Conn /\ Tail(s) \in Seq(Conn)
           /\ Members(s) = {Head(s)} \cup Members(Tail(s))
<1>1. Head(s) = s[1] /\ Len(s) \in Nat \ {0} /\ Tail(s) \in Seq(Conn)
      /\ Len(Tail(s)) = Len(s) - 1 /\ \A k \in 1 .. Len(s) - 1 : Tail(s)[k] = s[k + 1]
  OBVIOUS
<1>2. ASSUME NEW k \in 1 .. Len(s) PROVE s[k] \in {Head(s)} \cup Members(Tail(s))
  <2>1. CASE k = 1
    BY <1>1, <2>1
  <2>2. CASE k # 1
    <3>1. k - 1 \in 1 .. Len(Tail(s)) /\ s[k] = Tail(s)[k - 1]
      BY <1>1, <2>2
    <3> QED  BY <3>1 DEF Members
  <2> QED  BY <2>1, <2>2
<1>3. ASSUME NEW k \in 1 .. Len(Tail(s)) PROVE Tail(s)[k] \in Members(s)
  BY <1>1 DEF Members
<1>4. Head(s) \in Members(s) /\ Head(s) \in Conn
  BY <1>1 DEF Members
<1> QED  BY <1>1, <1>2, <1>3, <1>4 DEF Members

LEMMA Prepended ==
    ASSUME NEW s \in Seq(Conn), NEW c \in Conn
    PROVE  /\ <<c>> \o s \in Seq(Conn)
           /\ Members(<<c>> \o s) = {c} \cup Members(s)
<1>1. <<c>> \o s \in Seq(Conn) /\ <<c>> \o s # <<>>
      /\ Head(<<c>> \o s) = c /\ Tail(<<c>> \o s) = s
  OBVIOUS
<1> QED  BY <1>1, HeadTail

(***************************************************************************)
(* Steps that leave the list, the ids and the threads as they are.         *)
(***************************************************************************)
LEMMA MainMoves ==
    ASSUME ServerInv, UNCHANGED <<iter, list, tid, holder, pc>>,
           mpc' \in MainPlaces, signal_exit_code' \in BOOLEAN, parent' \in BOOLEAN,
           sock' \in {"stdin", "none", "open", "listening", "shut", "closed"},
           \/ mpc' = mpc
           \/ mpc \in SetUpPlaces
           \/ mpc' \in {"crashed", "killed", "returned"}
           \/ mpc \in {"accept", "scan", "while"} /\ mpc' \in {"accept", "scan", "while"}
    PROVE  ServerInv'
<1>1. MainTypes'
  BY DEF ServerInv, MainTypes
<1>2. ExitInv'
  BY DEF ServerInv, MainTypes, ExitInv, SetUpPlaces, MainPlaces, Alive, Members
<1> QED  BY <1>1, <1>2 DEF ServerInv

LEMMA SetUpExit == ASSUME ServerInv, SetUp \/ ParentSignal \/ ParentExit PROVE ServerInv'
<1> USE DEF SetUpPlaces, MainPlaces, Threads
<1>0. /\ mpc \in MainPlaces /\ parent \in BOOLEAN /\ signal_exit_code \in BOOLEAN
      /\ sock \in {"stdin", "none", "open", "listening", "shut", "closed"}
  BY DEF ServerInv, MainTypes
<1>1. CASE InstallHandlers \/ InitMutex \/ SetSockOpt \/ Bind \/ Listen
  BY <1>0, <1>1, MainMoves DEF InstallHandlers, InitMutex, SetSockOpt, Bind, Listen, Call
<1>2. CASE Socket
  BY <1>0, <1>2, MainMoves DEF Socket
<1>3. CASE Daemonise
  <2>1. parent' \in BOOLEAN
    <3>1. parent' = parent \/ parent' = ("parent" \in Faults)
      BY <1>3 DEF Daemonise
    <3>2. ("parent" \in Faults) \in BOOLEAN
      OBVIOUS
    <3> QED  BY <1>0, <3>1, <3>2
  <2>2. mpc = "daemon" /\ mpc' \in {"listen", "session", "returned"}
        /\ UNCHANGED <<sock, signal_exit_code, iter, list, tid, holder, pc>>
    BY <1>3 DEF Daemonise
  <2> QED  BY <1>0, <2>1, <2>2, MainMoves
<1>4. CASE Session
  BY <1>0, <1>4, MainMoves DEF Session, setUp
<1>5. CASE ParentSignal
  <2>1. sock' \in {"stdin", "none", "open", "listening", "shut", "closed"}
    BY <1>0, <1>5 DEF ParentSignal, ShutDown
  <2> QED  BY <1>0, <1>5, <2>1, MainMoves DEF ParentSignal
<1>6. CASE ParentExit
  BY <1>0, <1>6, MainMoves DEF ParentExit
<1> QED  BY <1>1, <1>2, <1>3, <1>4, <1>5, <1>6 DEF SetUp

(***************************************************************************)
(* Main, once it serves.                                                   *)
(***************************************************************************)
LEMMA JoinOfDead ==
    ASSUME ServerInv, NEW c \in Conn, Join(c)
    PROVE  /\ c \notin Alive
           /\ mpc' \in {mpc, "crashed"}
           /\ holder' \in [Tid -> Conn \cup {Nobody}]
           /\ \A d \in Alive : holder'[tid[d]] = holder[tid[d]]
<1>0. /\ tid \in [Conn -> Tid \cup {Junk}] /\ holder \in [Tid -> Conn \cup {Nobody}]
      /\ \A d \in Alive : d \in Conn /\ tid[d] # Junk /\ tid[d] \in Tid /\ holder[tid[d]] = d
                          /\ pc[d] # "exited"
  BY DEF ServerInv, MainTypes, ExitInv, Alive
<1>1. CASE tid[c] = Junk
  BY <1>0, <1>1 DEF Join
<1>2. CASE tid[c] # Junk /\ holder[tid[c]] = Nobody
  BY <1>0, <1>2, NobodyAssumption DEF Join
<1>3. CASE tid[c] # Junk /\ holder[tid[c]] # Nobody
  <2>1. /\ pc[holder[tid[c]]] = "exited" /\ mpc' = mpc
        /\ holder' = [holder EXCEPT ![tid[c]] = Nobody]
    BY <1>3 DEF Join
  <2>2. tid[c] \in Tid
    BY <1>0, <1>3
  <2>3. ASSUME NEW d \in Alive PROVE tid[d] # tid[c]
    BY <1>0, <2>1, <2>3
  <2>4. c \notin Alive
    BY <2>3
  <2> QED  BY <1>0, <2>1, <2>2, <2>3, <2>4
<1> QED  BY <1>1, <1>2, <1>3

LEMMA MainExit == ASSUME ServerInv, Main \/ Signal \/ AcceptNoMem PROVE ServerInv'
<1> USE DEF SetUpPlaces, MainPlaces, Threads
<1>0. /\ mpc \in MainPlaces /\ parent \in BOOLEAN /\ signal_exit_code \in BOOLEAN
      /\ sock \in {"stdin", "none", "open", "listening", "shut", "closed"}
      /\ iter \in Seq(Conn) /\ list \in Seq(Conn)
  BY DEF ServerInv, MainTypes
<1>1. CASE SetUp
  BY <1>1, SetUpExit
<1>2. CASE While
  <2>1. CASE signal_exit_code
    BY <1>0, <1>2, <2>1 DEF While, setUp, ServerInv, MainTypes, ExitInv, Alive, Members
  <2>2. CASE ~signal_exit_code
    BY <1>0, <1>2, <2>2, MainMoves DEF While, setUp
  <2> QED  BY <2>1, <2>2
<1>3. CASE AcceptFails
  BY <1>0, <1>3 DEF AcceptFails, setUp, ServerInv, MainTypes, ExitInv, Alive, Members
<1>4. CASE Scan
  <2> DEFINE c == Head(iter)
  <2>1. /\ mpc = "scan" /\ iter # <<>> /\ iter' = Tail(iter)
        /\ UNCHANGED <<sock, parent, list, signal_exit_code, tid, pc>>
        /\ Join(c) \/ UNCHANGED <<mpc, holder>>
    BY <1>4 DEF Scan, setUp
  <2>2. c \in Conn /\ Tail(iter) \in Seq(Conn)
    BY <1>0, <2>1, HeadTail
  <2> HIDE DEF c
  <2>3. /\ mpc' \in {mpc, "crashed"} /\ holder' \in [Tid -> Conn \cup {Nobody}]
        /\ \A d \in Alive : holder'[tid[d]] = holder[tid[d]]
    BY <2>1, <2>2, JoinOfDead DEF ServerInv, MainTypes
  <2>4. MainTypes'
    BY <2>1, <2>2, <2>3 DEF ServerInv, MainTypes
  <2>5. ExitInv'
    BY <2>1, <2>3 DEF ServerInv, ExitInv, Alive, Members
  <2> QED  BY <2>4, <2>5 DEF ServerInv
<1>5. CASE ScanDone
  BY <1>0, <1>5, MainMoves DEF ScanDone, setUp
<1>6. CASE Cleanup
  <2> DEFINE c == Head(iter)
  <2>1. /\ mpc = "cleanup" /\ iter # <<>> /\ iter' = Tail(iter) /\ Join(c)
        /\ UNCHANGED <<sock, parent, list, signal_exit_code, tid, pc>>
    BY <1>6 DEF Cleanup, JoinAtExit, setUp
  <2>2. c \in Conn /\ Tail(iter) \in Seq(Conn) /\ Members(iter) = {c} \cup Members(Tail(iter))
    BY <1>0, <2>1, HeadTail
  <2> HIDE DEF c
  <2>3. /\ mpc' \in {mpc, "crashed"} /\ holder' \in [Tid -> Conn \cup {Nobody}]
        /\ \A d \in Alive : holder'[tid[d]] = holder[tid[d]]
        /\ c \notin Alive
    BY <2>1, <2>2, JoinOfDead
  <2>4. MainTypes'
    BY <2>1, <2>2, <2>3 DEF ServerInv, MainTypes
  <2>5. Alive' = Alive /\ Members(iter)' = Members(Tail(iter))
    BY <2>1 DEF Alive, Members
  <2>6. ExitInv'
    BY <2>1, <2>2, <2>3, <2>5 DEF ServerInv, ExitInv
  <2> QED  BY <2>4, <2>6 DEF ServerInv
<1>7. CASE Exit
  <2>1. Alive = {}
    BY <1>7 DEF Exit, ServerInv, ExitInv, Members
  <2>2. MainTypes'
    BY <1>7 DEF Exit, CloseAll, ServerInv, MainTypes
  <2>3. Alive' = {} /\ mpc' = "exited"
    BY <1>7, <2>1 DEF Exit, Alive
  <2> QED  BY <2>2, <2>3 DEF ServerInv, ExitInv
<1>8. CASE Signal
  <2>1. sock' \in {"stdin", "none", "open", "listening", "shut", "closed"}
    BY <1>0, <1>8 DEF Signal, ShutDown
  <2> QED  BY <1>0, <1>8, <2>1, MainMoves DEF Signal
<1>9. CASE AcceptNoMem
  BY <1>0, <1>9, MainMoves DEF AcceptNoMem, setUp
<1> QED  BY <1>1, <1>2, <1>3, <1>4, <1>5, <1>6, <1>7, <1>8, <1>9 DEF Main

LEMMA AcceptExit == ASSUME ServerInv, NEW c \in Conn, Accept(c) PROVE ServerInv'
<1> USE DEF SetUpPlaces, MainPlaces
<1>0. /\ mpc = "accept" /\ list' = <<c>> \o list /\ iter' = list' /\ pc[c] = "none"
      /\ UNCHANGED <<sock, parent, signal_exit_code>> /\ list \in Seq(Conn)
  BY DEF Accept, setUp, ServerInv, MainTypes
<1>1. list' \in Seq(Conn) /\ Members(list)' = {c} \cup Members(list)
  BY <1>0, Prepended DEF Members
<1>2. Members(iter)' = Members(list)' /\ Alive \subseteq Members(list)
  BY <1>0 DEF Members, ServerInv, ExitInv
<1>3. CASE \E i \in {j \in Tid : holder[j] = Nobody} :
              /\ tid' = [tid EXCEPT ![c] = i] /\ holder' = [holder EXCEPT ![i] = c]
              /\ pc' = [pc EXCEPT ![c] = "open"] /\ mpc' = "scan"
  <2>1. PICK i \in Tid :
              /\ holder[i] = Nobody
              /\ tid' = [tid EXCEPT ![c] = i] /\ holder' = [holder EXCEPT ![i] = c]
              /\ pc' = [pc EXCEPT ![c] = "open"] /\ mpc' = "scan"
    BY <1>3
  <2>2. MainTypes'
    BY <1>0, <1>1, <2>1 DEF ServerInv, MainTypes, ThreadPlaces
  <2>3. Alive' = {c} \cup Alive
    BY <1>0, <2>1 DEF Alive, ServerInv, MainTypes
  <2>4. \A d \in Alive' : tid'[d] # Junk /\ holder'[tid'[d]] = d
    <3>1. tid'[c] = i /\ holder'[i] = c /\ i # Junk
      BY <2>1, TidAssumption DEF ServerInv, MainTypes
    <3>2. ASSUME NEW d \in Alive PROVE tid'[d] # Junk /\ holder'[tid'[d]] = d
      <4>1. d # c /\ tid[d] # Junk /\ holder[tid[d]] = d /\ d # Nobody /\ d \in Conn
        BY <1>0, NobodyAssumption DEF Alive, ServerInv, ExitInv
      <4>2. tid[d] \in Tid /\ tid[d] # i
        BY <2>1, <4>1 DEF ServerInv, MainTypes
      <4> QED  BY <2>1, <4>1, <4>2 DEF ServerInv, MainTypes
    <3> QED  BY <2>3, <3>1, <3>2
  <2>5. ExitInv'
    BY <1>1, <1>2, <2>1, <2>3, <2>4 DEF ExitInv
  <2> QED  BY <2>2, <2>5 DEF ServerInv
<1>4. CASE mpc' = "cleanup" /\ UNCHANGED <<tid, holder, pc>>
  <2>1. MainTypes'
    BY <1>0, <1>1, <1>4 DEF ServerInv, MainTypes
  <2>2. Alive' = Alive
    BY <1>4 DEF Alive
  <2>3. ExitInv'
    BY <1>1, <1>2, <1>4, <2>2 DEF ServerInv, ExitInv
  <2> QED  BY <2>1, <2>3 DEF ServerInv
<1> QED  BY <1>3, <1>4 DEF Accept

(***************************************************************************)
(* A thread that moves was there before and was not joined.                *)
(***************************************************************************)
LEMMA ThreadMoves ==
    ASSUME ServerInv, NEW c \in Conn, Running, pc[c] \notin {"none", "exited"},
           NEW to \in ThreadPlaces, pc' \in {pc, [pc EXCEPT ![c] = to]}, to # "none",
           UNCHANGED mainVars
    PROVE  ServerInv'
<1>1. UNCHANGED <<mpc, sock, parent, iter, list, signal_exit_code, tid, holder>>
  BY DEF mainVars, setUp
<1>2. MainTypes'
  BY <1>1 DEF ServerInv, MainTypes
<1>3. Alive' \subseteq Alive
  BY DEF ServerInv, MainTypes, Alive
<1>4. ExitInv'
  BY <1>1, <1>3 DEF ServerInv, ExitInv, Members
<1> QED  BY <1>2, <1>4 DEF ServerInv

LEMMA ThreadExit == ASSUME ServerInv, NEW c \in Conn, Thread(c) PROVE ServerInv'
<1> USE DEF Go, ThreadPlaces
<1>0. Running
  BY DEF Thread
<1>1. CASE Crash(c)
  BY <1>1, MainMoves DEF Crash, setUp, ServerInv, MainTypes, MainPlaces, SetUpPlaces
<1>2. CASE OpenDevice(c) \/ Recv(c) \/ RecvClosed(c)
  BY <1>0, <1>2, ThreadMoves DEF OpenDevice, Recv, RecvClosed
<1>3. CASE LockWrite(c) \/ Write(c) \/ Publish(c)
  BY <1>0, <1>3, ThreadMoves DEF LockWrite, Write, Publish, AfterShortWrite
<1>4. CASE More(c) \/ LockRead(c) \/ Send(c) \/ Finish(c)
  BY <1>0, <1>4, ThreadMoves DEF More, LockRead, Send, Finish
<1>5. CASE ReadByte(c)
  BY <1>0, <1>5, ThreadMoves DEF ReadByte
<1> QED  BY <1>1, <1>2, <1>3, <1>4, <1>5 DEF Thread

LEMMA InitServer == Init => ServerInv
<1> SUFFICES ASSUME Init PROVE ServerInv
  OBVIOUS
<1>1. mpc = "signal" /\ sock = "stdin" /\ parent = FALSE /\ signal_exit_code = FALSE
      /\ iter = <<>> /\ list = <<>>
  BY DEF Init
<1>2. mpc \in MainPlaces /\ <<>> \in Seq(Conn) /\ FALSE \in BOOLEAN
  BY <1>1 DEF MainPlaces, SetUpPlaces
<1>3. tid \in [Conn -> Tid \cup {Junk}]
  BY DEF Init
<1>4. holder \in [Tid -> Conn \cup {Nobody}]
  BY DEF Init
<1>5. pc \in [Conn -> ThreadPlaces]
  BY DEF Init, ThreadPlaces
<1>6. MainTypes
  BY <1>1, <1>2, <1>3, <1>4, <1>5 DEF MainTypes
<1>7. ExitInv
  BY DEF Init, ExitInv, Alive, Members, SetUpPlaces
<1> QED  BY <1>6, <1>7 DEF ServerInv

LEMMA ServerStep == ASSUME ServerInv, [Next]_vars PROVE ServerInv'
<1>1. CASE UNCHANGED vars
  BY <1>1 DEF vars, mainVars, setUp, ServerInv, MainTypes, ExitInv, Alive, Members
<1> QED  BY <1>1, ThreadExit, MainExit, SetUpExit, AcceptExit DEF Next

LEMMA ServerInvariant == Spec => []ServerInv
  BY InitServer, ServerStep, PTL DEF Spec

(***************************************************************************)
(* When main has freed the list and destroyed the mutex (the end of        *)
(* cleanup), every thread it ever started has left: whatever failed, even  *)
(* though ids are used again and a thread may leave without its flag.      *)
(***************************************************************************)
THEOREM NothingRuns == Spec => []NothingRunsAtExit
<1>1. ServerInv => NothingRunsAtExit
  BY DEF ServerInv, ExitInv, Alive, NothingRunsAtExit
<1> QED  BY <1>1, ServerInvariant, PTL

-----------------------------------------------------------------------------
(***************************************************************************)
(* The device: a read of one byte returns the byte of the file that is     *)
(* next, or nothing at its end, and a completed line is added to the file. *)
(***************************************************************************)
Symbol == Conn \cup {NL, Nobody}

IsDevice(ls) == ls \in Seq(Seq(Symbol))

LEMMA FileIs ==
    ASSUME NEW ls, IsDevice(ls)
    PROVE  \E f : Concats(f, ls, Len(ls), Symbol) /\ Joined(ls) = f[Len(ls)]
<1> DEFINE Eq(f) == f = [k \in 0 .. Len(ls) |->
                            IF k = 0 THEN <<>> ELSE f[k - 1] \o ls[k]]
           upTo == CHOOSE f : Eq(f)
<1>1. Len(ls) \in Nat /\ ls \in [1 .. Len(ls) -> Seq(Symbol)]
  BY DEF IsDevice
<1>2. PICK f : ConcatEquation(f, ls, Len(ls))
  BY <1>1, ConcatsExist
<1>3. Eq(f)
  BY <1>2 DEF ConcatEquation
<1>4. Eq(upTo)
  <2> HIDE DEF Eq
  <2> QED  BY <1>3
<1>5. ConcatEquation(upTo, ls, Len(ls))
  BY <1>4 DEF ConcatEquation
<1>6. Joined(ls) = upTo[Len(ls)]
  BY DEF Joined
<1> HIDE DEF upTo
<1>7. Concats(upTo, ls, Len(ls), Symbol)
  BY <1>1, <1>5, ConcatsSolve
<1> QED  BY <1>6, <1>7

LEMMA JoinedType ==
    ASSUME NEW ls, IsDevice(ls)
    PROVE  Joined(ls) \in Seq(Symbol)
<1>1. PICK f : Concats(f, ls, Len(ls), Symbol) /\ Joined(ls) = f[Len(ls)]
  BY FileIs
<1>2. Len(ls) \in 0 .. Len(ls)
  BY DEF IsDevice
<1> QED  BY <1>1, <1>2 DEF Concats

LEMMA JoinedAppend ==
    ASSUME NEW ls, IsDevice(ls), NEW s \in Seq(Symbol)
    PROVE  /\ IsDevice(Append(ls, s))
           /\ Joins(Joined(Append(ls, s)), Joined(ls), s, Symbol)
<1> DEFINE n == Len(ls)
           m == Append(ls, s)
<1>1. /\ n \in Nat /\ IsDevice(m) /\ Len(m) = n + 1 /\ m[n + 1] = s
      /\ Agree(ls, m, n)
  BY DEF IsDevice, Agree
<1> HIDE DEF m
<1>2. PICK f : Concats(f, ls, n, Symbol) /\ Joined(ls) = f[n]
  BY <1>1, FileIs
<1>3. PICK h : Concats(h, m, n + 1, Symbol) /\ Joined(m) = h[n + 1]
  BY <1>1, FileIs
<1> HIDE DEF n
<1>4. n + 1 \in Nat /\ n <= n + 1 /\ n \in 0 .. n /\ n + 1 \in 1 .. n + 1 /\ (n + 1) - 1 = n
  BY <1>1
<1>5. f[n] = h[n]
  BY <1>1, <1>2, <1>3, <1>4, ConcatsAgree
<1>6. Joins(h[n + 1], h[n], m[n + 1], Symbol)
  BY <1>3, <1>4, ConcatsStep
<1> QED  BY <1>1, <1>2, <1>3, <1>5, <1>6 DEF m

LineTotals(z) ==
    /\ Sums(z, Lengths(lines, Len(lines)), Len(lines))
    /\ \A k \in 0 .. Len(lines) : Device!LenOfFirst(lines, k) = z[k]

LEMMA LengthsType ==
    ASSUME IsDevice(lines)
    PROVE  /\ Len(lines) \in Nat
           /\ Lengths(lines, Len(lines)) \in [1 .. Len(lines) -> Nat]
           /\ \A k \in 1 .. Len(lines) : Lengths(lines, Len(lines))[k] = Len(lines[k])
                                        /\ lines[k] \in Seq(Symbol) /\ Len(lines[k]) \in Nat
<1>1. \A k \in 1 .. Len(lines) : lines[k] \in Seq(Symbol) /\ Len(lines[k]) \in Nat
  BY DEF IsDevice
<1>2. Len(lines) \in Nat
  BY DEF IsDevice
<1> QED  BY <1>1, <1>2 DEF Lengths

LEMMA LineTotalsExist ==
    ASSUME IsDevice(lines)
    PROVE  \E z : LineTotals(z)
<1> DEFINE Eq(z) == z = [j \in 0 .. Len(lines) |->
                            IF j = 0 THEN 0 ELSE z[j - 1] + Len(lines[j])]
           sum == CHOOSE z : Eq(z)
           lens == Lengths(lines, Len(lines))
<1>1. Len(lines) \in Nat /\ lens \in [1 .. Len(lines) -> Nat]
      /\ \A k \in 1 .. Len(lines) : lens[k] = Len(lines[k])
  BY LengthsType
<1> HIDE DEF lens
<1>2. PICK z : Sums(z, lens, Len(lines))
  BY <1>1, SumsExist
<1>3. Eq(z)
  BY <1>1, <1>2 DEF Sums
<1>4. Eq(sum)
  <2> HIDE DEF Eq
  <2> QED  BY <1>3
<1>5. SumEquation(sum, lens, Len(lines))
  <2> HIDE DEF sum
  <2> QED  BY <1>1, <1>4 DEF SumEquation
<1>6. \A k : Device!LenOfFirst(lines, k) = sum[k]
  BY DEF Device!LenOfFirst
<1> HIDE DEF sum
<1>7. Sums(sum, lens, Len(lines))
  BY <1>1, <1>5, SumsSolve
<1> QED  BY <1>6, <1>7 DEF LineTotals, lens

LEMMA OneByte ==
    ASSUME NEW s \in Seq(Symbol), NEW k \in 1 .. Len(s), NEW j, j = k
    PROVE  SubSeq(s, k, j) = <<s[k]>>
<1> DEFINE u == SubSeq(s, k, j)
<1>1. u \in Seq(Symbol) /\ Len(u) = 1 /\ u[1] = s[k]
  OBVIOUS
<1>2. s[k] \in Symbol
  OBVIOUS
<1> HIDE DEF u
<1>3. u = <<s[k]>>
  BY <1>1, <1>2
<1> QED  BY <1>3 DEF u

LEMMA ReadsFile ==
    ASSUME IsDevice(lines), NEW p \in Nat
    PROVE  /\ Device!LenOfFirst(lines, Len(lines)) = Len(File)
           /\ p >= Len(File) => Device!Answer(p, 1) = <<>>
           /\ p < Len(File) => Device!Answer(p, 1) = <<File[p + 1]>>
<1> DEFINE n == Len(lines)
           lens == Lengths(lines, n)
<1>1. PICK z : LineTotals(z)
  BY LineTotalsExist
<1>2. PICK f : Concats(f, lines, n, Symbol) /\ File = f[n]
  BY FileIs DEF File
<1>3. n \in Nat /\ n \in 0 .. n /\ lens \in [1 .. n -> Nat]
      /\ \A k \in 1 .. n : lens[k] = Len(lines[k]) /\ lines[k] \in Seq(Symbol)
                         /\ Len(lines[k]) \in Nat
  BY LengthsType
<1>4. Sums(z, lens, n) /\ \A k \in 0 .. n : Device!LenOfFirst(lines, k) = z[k]
  BY <1>1 DEF LineTotals
<1> HIDE DEF lens
<1>5. Len(File) = z[n]
  BY <1>2, <1>3, <1>4, ConcatsLength DEF lens
<1>6. Device!LenOfFirst(lines, n) = Len(File)
  BY <1>3, <1>4, <1>5
<1>7. Len(File) \in Nat
  BY <1>2, <1>3 DEF Concats
<1>8. CASE p >= Len(File)
  <2>1. Device!Answer(p, 1) = <<>>
    BY <1>6, <1>8 DEF Device!Answer
  <2> QED  BY <1>6, <1>7, <1>8, <2>1
<1>9. CASE p < Len(File)
  <2> DEFINE In(k) == Device!LenOfFirst(lines, k - 1) <= p /\ p < Device!LenOfFirst(lines, k)
             l == CHOOSE k \in 1 .. n : In(k)
             off == p - Device!LenOfFirst(lines, l - 1)
             end == IF off + 1 < Len(lines[l]) THEN off + 1 ELSE Len(lines[l])
  <2>1. Device!Answer(p, 1) = SubSeq(lines[l], off + 1, end)
    <3>1. ~(p >= Device!LenOfFirst(lines, Len(lines)))
      BY <1>6, <1>7, <1>9
    <3> QED  BY <3>1 DEF Device!Answer
  <2>2. \E k \in 1 .. n : z[k - 1] <= p /\ p < z[k]
    BY <1>3, <1>4, <1>5, <1>9, SumsLocate
  <2>3. \E k \in 1 .. n : In(k)
    BY <1>3, <1>4, <2>2, SMTT(30)
  <2>4. l \in 1 .. n /\ In(l)
    <3> HIDE DEF In
    <3> QED  BY <2>3
  <2> HIDE DEF l
  <2>5. l \in 0 .. n /\ l - 1 \in 0 .. n
    BY <1>3, <2>4
  <2>6. z[l - 1] <= p /\ p < z[l] /\ off = p - z[l - 1]
    BY <1>4, <2>4, <2>5
  <2>7. z[l] = z[l - 1] + Len(lines[l]) /\ z[l - 1] \in Nat /\ z[l] \in Nat
    BY <1>3, <1>4, <2>4, <2>5 DEF Sums
  <2>8. off \in Nat /\ off + 1 \in 1 .. Len(lines[l]) /\ end = off + 1 /\ z[l - 1] + (off + 1) = p + 1
    BY <1>3, <2>4, <2>6, <2>7, SMTT(30)
  <2>9. Places(f[n], z, lines, n)
    BY <1>2, <1>3, <1>4, ConcatsPlace DEF lens
  <2>10. File[p + 1] = lines[l][off + 1]
    BY <1>2, <2>4, <2>8, <2>9 DEF Places
  <2>11. lines[l] \in Seq(Symbol)
    BY <1>3, <2>4
  <2> HIDE DEF off, end
  <2>12. SubSeq(lines[l], off + 1, end) = <<lines[l][off + 1]>>
    BY <2>8, <2>11, OneByte
  <2>13. Device!Answer(p, 1) = <<File[p + 1]>>
    BY <2>1, <2>10, <2>12
  <2> QED  BY <1>6, <1>7, <1>9, <2>13
<1> QED  BY <1>7, <1>8, <1>9

-----------------------------------------------------------------------------
(***************************************************************************)
(* The types of what the threads carry, and of the device.                 *)
(***************************************************************************)
DataTypes ==
    /\ thread_complete \in [Conn -> BOOLEAN] /\ new_line \in [Conn -> BOOLEAN]
    /\ owner \in Conn \cup {Nobody} /\ end_pos \in Nat
    /\ rd \in [Conn -> Seq(Symbol)]
    /\ wr \in [Conn -> Seq(Symbol)]
    /\ sent \in [Conn -> Seq(Symbol)]
    /\ IsDevice(lines) /\ partial \in Seq(Symbol)
    /\ pos \in [Conn -> Nat] /\ answer \in Seq(Symbol)

LEMMA FileType == ASSUME DataTypes PROVE File \in Seq(Symbol) /\ Len(File) \in Nat
  BY JoinedType DEF DataTypes, File

LEMMA ReadDevice ==
    ASSUME DataTypes, NEW c \in Conn, Device!Read(c, 1)
    PROVE  /\ UNCHANGED <<lines, partial>>
           /\ answer' \in Seq(Symbol) /\ pos' \in [Conn -> Nat]
           /\ pos[c] < Len(File) => /\ answer' = <<File[pos[c] + 1]>>
                                    /\ pos' = [pos EXCEPT ![c] = pos[c] + 1]
<1>1. pos[c] \in Nat /\ IsDevice(lines) /\ Len(File) \in Nat /\ File \in Seq(Symbol)
  BY FileType DEF DataTypes
<1>2. /\ Device!LenOfFirst(lines, Len(lines)) = Len(File)
      /\ pos[c] >= Len(File) => Device!Answer(pos[c], 1) = <<>>
      /\ pos[c] < Len(File) => Device!Answer(pos[c], 1) = <<File[pos[c] + 1]>>
  BY <1>1, ReadsFile
<1>3. /\ answer' = Device!Answer(pos[c], 1)
      /\ pos' = [pos EXCEPT ![c] = IF pos[c] >= Len(File) THEN 0 ELSE pos[c] + Len(answer')]
      /\ UNCHANGED <<lines, partial>>
  BY <1>2 DEF Device!Read
<1>4. CASE pos[c] < Len(File)
  <2>1. File[pos[c] + 1] \in Symbol
    BY <1>1, <1>4
  <2>2. answer' = <<File[pos[c] + 1]>>
    BY <1>2, <1>3, <1>4
  <2>3. answer' \in Seq(Symbol) /\ Len(answer') = 1
    BY <2>1, <2>2
  <2>4. (IF pos[c] >= Len(File) THEN 0 ELSE pos[c] + Len(answer')) = pos[c] + 1
    BY <1>1, <1>4, <2>3
  <2>5. pos' = [pos EXCEPT ![c] = pos[c] + 1]
    BY <1>3, <2>4
  <2>6. pos' \in [Conn -> Nat]
    BY <1>1, <2>5 DEF DataTypes
  <2> QED  BY <1>3, <2>2, <2>3, <2>5, <2>6
<1>5. CASE pos[c] >= Len(File)
  <2>0. answer' = <<>>
    BY <1>2, <1>3, <1>5
  <2>1. answer' \in Seq(Symbol)
    BY <2>0
  <2>2. pos' = [pos EXCEPT ![c] = 0] /\ pos' \in [Conn -> Nat]
    BY <1>3, <1>5 DEF DataTypes
  <2> QED  BY <1>1, <1>3, <1>5, <2>1, <2>2
<1> QED  BY <1>1, <1>4, <1>5

(***************************************************************************)
(* The three things a write can come to: bytes wait for their newline, a   *)
(* line is added, a line is added and the oldest one evicted.              *)
(***************************************************************************)
Wrote(p) ==
    \/ lines' = lines /\ partial' = p
    \/ Len(lines) < Lines /\ lines' = Append(lines, p) /\ partial' = <<>>
    \/ Len(lines) >= Lines /\ lines' = Append(Tail(lines), p) /\ partial' = <<>>

LEMMA WriteDevice ==
    ASSUME DataTypes, NEW c \in Conn, NEW k \in 0 .. Len(rd[c]), Device!Write(c, rd[c], k)
    PROVE  /\ Wrote(partial \o SubSeq(rd[c], 1, k))
           /\ UNCHANGED answer /\ pos' = [pos EXCEPT ![c] = 0] /\ pos' \in [Conn -> Nat]
           /\ IsDevice(lines)' /\ partial' \in Seq(Symbol)
           /\ Len(lines') < Lines =>
                /\ Len(lines) < Lines
                /\ Len(File') + Len(partial') = Len(File) + Len(partial) + k
<1> DEFINE d == SubSeq(rd[c], 1, k)
           p == partial \o d
<1>1. rd[c] \in Seq(Symbol) /\ partial \in Seq(Symbol) /\ IsDevice(lines) /\ lines \in Seq(Seq(Symbol))
      /\ pos \in [Conn -> Nat]
  BY DEF DataTypes, IsDevice
<1>2. d \in Seq(Symbol) /\ Len(d) = k
  BY <1>1
<1>3. Wrote(p) /\ UNCHANGED answer /\ pos' = [pos EXCEPT ![c] = 0]
  <2>1. Lines \in Nat /\ Len(lines) \in Nat
    BY <1>1, LinesAssumption
  <2> QED  BY <2>1 DEF Device!Write, Wrote
<1> HIDE DEF d
<1>4. p \in Seq(Symbol) /\ Len(p) = Len(partial) + k /\ Len(partial) \in Nat /\ k \in Nat
  <2>1. Len(partial) \in Nat /\ k \in Nat
    BY <1>1
  <2>2. Joins(p, partial, d, Symbol)
    BY <1>1, <1>2, JoinIs
  <2> QED  BY <1>2, <2>1, <2>2 DEF Joins
<1> HIDE DEF p
<1>5. Len(File) \in Nat /\ Lines \in Nat \ {0} /\ Len(lines) \in Nat
  BY <1>1, FileType, LinesAssumption
<1>6. CASE lines' = lines /\ partial' = p
  <2>1. IsDevice(lines)' /\ Len(lines') = Len(lines) /\ File' = File
    BY <1>1, <1>6 DEF IsDevice, File
  <2>2. partial' \in Seq(Symbol) /\ Len(partial') = Len(partial) + k
    BY <1>4, <1>6
  <2> QED  BY <1>1, <1>3, <1>5, <1>4, <2>1, <2>2 DEF p, d
<1>7. CASE Len(lines) < Lines /\ lines' = Append(lines, p) /\ partial' = <<>>
  <2>1. IsDevice(Append(lines, p)) /\ Joins(Joined(Append(lines, p)), Joined(lines), p, Symbol)
    BY <1>1, <1>4, JoinedAppend
  <2>2. Len(File') = Len(File) + Len(p)
    BY <1>7, <2>1 DEF Joins, File
  <2>3. partial' \in Seq(Symbol) /\ Len(partial') = 0 /\ IsDevice(lines)'
    BY <1>7, <2>1
  <2>4. Len(File') + Len(partial') = Len(File) + Len(partial) + k
    BY <1>4, <1>5, <2>2, <2>3
  <2> QED  BY <1>1, <1>3, <1>7, <2>3, <2>4 DEF p, d
<1>8. CASE Len(lines) >= Lines /\ lines' = Append(Tail(lines), p) /\ partial' = <<>>
  <2>1. lines # <<>> /\ Tail(lines) \in Seq(Seq(Symbol)) /\ Len(Tail(lines)) = Len(lines) - 1
    BY <1>1, <1>5, <1>8
  <2>2. lines' \in Seq(Seq(Symbol)) /\ Len(lines') = Len(lines) /\ partial' \in Seq(Symbol)
    BY <1>4, <1>8, <1>5, <2>1
  <2>3. ~(Len(lines') < Lines)
    BY <1>5, <1>8, <2>2
  <2> QED  BY <1>1, <1>3, <2>2, <2>3 DEF p, d, IsDevice
<1> QED  BY <1>3, <1>6, <1>7, <1>8 DEF Wrote

-----------------------------------------------------------------------------
(***************************************************************************)
(* What end_pos promises: the bytes a thread has written and not published *)
(* are in the device too, and data_mutex lets one thread do both.          *)
(***************************************************************************)
EndPosInv ==
    Len(lines) < Lines =>
        /\ end_pos <= Len(File) + Len(partial)
        /\ \A c \in Conn : pc[c] = "publish" => end_pos + Len(rd[c]) <= Len(File) + Len(partial)

DataInv == DataTypes /\ EndPosInv

LEMMA DataStill ==
    ASSUME DataInv, DataTypes', pc \in [Conn -> ThreadPlaces], NEW c \in Conn, NEW to,
           UNCHANGED <<lines, partial, end_pos>>,
           pc' \in {pc, [pc EXCEPT ![c] = to]}, to # "publish",
           \A d \in Conn : rd'[d] # rd[d] => d = c /\ pc[c] = "recv"
    PROVE  DataInv'
<1>1. File' = File /\ Len(partial') = Len(partial) /\ Len(lines') = Len(lines)
  BY DEF File
<1>2. \A d \in Conn : pc'[d] = "publish" => pc[d] = "publish" /\ rd'[d] = rd[d]
  OBVIOUS
<1> QED  BY <1>1, <1>2 DEF DataInv, EndPosInv

LEMMA DataKeeps ==
    ASSUME DataInv, pc \in [Conn -> ThreadPlaces], NEW c \in Conn, NEW to,
           UNCHANGED <<end_pos, bufs, dev>>, owner' \in Conn \cup {Nobody},
           thread_complete' \in [Conn -> BOOLEAN],
           pc' \in {pc, [pc EXCEPT ![c] = to]}, to # "publish"
    PROVE  DataInv'
<1>1. DataTypes'
  BY DEF DataInv, DataTypes, bufs, dev, IsDevice
<1> QED  BY <1>1, DataStill DEF bufs, dev

LEMMA BytesType == \A c \in Conn : \A chunk \in Chunks : Bytes(c, chunk) \in Seq(Symbol)
<1> SUFFICES ASSUME NEW c \in Conn, NEW chunk \in Chunks PROVE Bytes(c, chunk) \in Seq(Symbol)
  OBVIOUS
<1>1. c \in Symbol /\ NL \in Symbol
  BY DEF Symbol
<1>2. CASE chunk = "line"
  BY <1>1, <1>2 DEF Bytes
<1>3. CASE chunk = "part"
  BY <1>1, <1>3 DEF Bytes
<1>4. CASE chunk = "empty"
  BY <1>1, <1>4 DEF Bytes
<1> QED  BY <1>2, <1>3, <1>4, ChunksAssumption

LEMMA RecvData ==
    ASSUME DataInv, pc \in [Conn -> ThreadPlaces], NEW c \in Conn, Recv(c)
    PROVE  DataInv'
<1>1. PICK chunk \in Chunks :
        /\ rd' = [rd EXCEPT ![c] = rd[c] \o Bytes(c, chunk)]
        /\ pc[c] = "recv"
        /\ pc' = [pc EXCEPT ![c] = "lockwrite"] \/ pc' = [pc EXCEPT ![c] = "recv"]
  BY DEF Recv, Go
<1>2. rd' \in [Conn -> Seq(Symbol)]
  <2>1. Bytes(c, chunk) \in Seq(Symbol) /\ rd[c] \in Seq(Symbol)
    BY BytesType DEF DataInv, DataTypes
  <2>2. rd[c] \o Bytes(c, chunk) \in Seq(Symbol)
    BY <2>1
  <2> QED  BY <1>1, <2>2 DEF DataInv, DataTypes
<1>3. UNCHANGED <<thread_complete, owner, end_pos, new_line, wr, sent, lines, partial, pos, answer>>
  BY DEF Recv, dev
<1>4. DataTypes'
  BY <1>2, <1>3 DEF DataInv, DataTypes, IsDevice
<1> QED  BY <1>1, <1>3, <1>4, DataStill DEF DataInv, DataTypes

LEMMA ReadData ==
    ASSUME DataInv, pc \in [Conn -> ThreadPlaces], NEW c \in Conn, ReadByte(c)
    PROVE  /\ DataInv'
           /\ new_line' \in [Conn -> BOOLEAN]
<1>1. /\ answer' \in Seq(Symbol) /\ pos' \in [Conn -> Nat] /\ UNCHANGED <<lines, partial>>
  BY ReadDevice DEF ReadByte, DataInv
<1>2. wr' = [wr EXCEPT ![c] = wr[c] \o answer']
  BY DEF ReadByte
<1>3. wr' \in [Conn -> Seq(Symbol)]
  <2>1. wr[c] \o answer' \in Seq(Symbol)
    BY <1>1 DEF DataInv, DataTypes
  <2> QED  BY <1>2, <2>1 DEF DataInv, DataTypes
<1>4. PICK seen \in BOOLEAN :
        /\ new_line' = [new_line EXCEPT ![c] = seen]
        /\ pc' \in {pc, [pc EXCEPT ![c] = "send"]}
        /\ owner' \in {owner, Nobody}
  <2> DEFINE found == Device!Occurs(NL, wr'[c])
             seens == IF Len(wr'[c]) > 1 THEN {found, found \/ "garbage" \in Faults}
                                         ELSE {new_line[c]}
  <2>1. PICK seen \in seens :
        /\ new_line' = [new_line EXCEPT ![c] = seen]
        /\ IF seen THEN Go(c, "read", "send") /\ Unlock ELSE UNCHANGED <<pc, owner>>
    BY DEF ReadByte
  <2>2. seen \in BOOLEAN
    <3>1. found \in BOOLEAN
      BY DEF Device!Occurs
    <3>2. (found \/ "garbage" \in Faults) \in BOOLEAN
      OBVIOUS
    <3>3. new_line[c] \in BOOLEAN
      BY DEF DataInv, DataTypes
    <3> HIDE DEF found
    <3> QED  BY <2>1, <3>1, <3>2, <3>3
  <2>3. pc' \in {pc, [pc EXCEPT ![c] = "send"]} /\ owner' \in {owner, Nobody}
    BY <2>1 DEF Go, Unlock
  <2> QED  BY <2>1, <2>2, <2>3
<1>5. new_line' \in [Conn -> BOOLEAN]
  BY <1>4 DEF DataInv, DataTypes
<1>6. UNCHANGED <<thread_complete, end_pos, rd, sent>>
  BY DEF ReadByte
<1>7. DataTypes'
  BY <1>1, <1>3, <1>4, <1>5, <1>6 DEF DataInv, DataTypes, IsDevice
<1> QED  BY <1>1, <1>4, <1>5, <1>6, <1>7, DataStill

LEMMA WriteData ==
    ASSUME DataInv, LockInv, pc \in [Conn -> ThreadPlaces], NEW c \in Conn, Write(c)
    PROVE  DataInv'
<1>1. UNCHANGED <<thread_complete, owner, end_pos, rd, new_line, wr, sent>> /\ pc[c] = "write"
  BY DEF Write, bufs, Go
<1>2. \A d \in Conn : pc[d] # "publish"
  BY <1>1, NobodyAssumption DEF LockInv, MutualExclusion, InMutex
<1>3. Len(File) \in Nat /\ Len(partial) \in Nat /\ end_pos \in Nat /\ \A d \in Conn : Len(rd[d]) \in Nat
  BY FileType DEF DataInv, DataTypes
<1>4. ASSUME NEW k \in 0 .. Len(rd[c]), Device!Write(c, rd[c], k),
             \/ pc' = [pc EXCEPT ![c] = "publish"] /\ k = Len(rd[c])
             \/ pc' = [pc EXCEPT ![c] = "exited"]
      PROVE  DataInv'
  <2>1. /\ UNCHANGED answer /\ pos' \in [Conn -> Nat]
        /\ IsDevice(lines)' /\ partial' \in Seq(Symbol)
        /\ Len(lines') < Lines =>
              /\ Len(lines) < Lines
              /\ Len(File') + Len(partial') = Len(File) + Len(partial) + k
    BY <1>4, WriteDevice DEF DataInv
  <2>2. DataTypes'
    BY <1>1, <2>1 DEF DataInv, DataTypes
  <2>3. EndPosInv'
    <3> SUFFICES ASSUME Len(lines') < Lines PROVE
              /\ end_pos' <= Len(File') + Len(partial')
              /\ \A d \in Conn : pc'[d] = "publish" =>
                    end_pos' + Len(rd'[d]) <= Len(File') + Len(partial')
      BY DEF EndPosInv
    <3>1. end_pos <= Len(File) + Len(partial)
      BY <2>1 DEF DataInv, EndPosInv
    <3>2. \A d \in Conn : pc'[d] = "publish" => d = c /\ k = Len(rd[c])
      BY <1>2, <1>4
    <3> QED  BY <1>1, <1>3, <2>1, <3>1, <3>2, SMTT(30)
  <2> QED  BY <2>2, <2>3 DEF DataInv
<1>5. CASE pc' = [pc EXCEPT ![c] = "publish"] /\ Device!Write(c, rd[c], Len(rd[c]))
  BY <1>3, <1>4, <1>5
<1>6. CASE pc' = [pc EXCEPT ![c] = "exited"] /\ \E k \in 0 .. Len(rd[c]) - 1 : Device!Write(c, rd[c], k)
  BY <1>3, <1>4, <1>6
<1>7. CASE pc' = [pc EXCEPT ![c] = "exited"] /\ UNCHANGED dev
  BY <1>1, <1>7, DataKeeps DEF DataInv, DataTypes, bufs
<1>8. CASE pc' = [pc EXCEPT ![c] = "exited"] /\ Device!FailedWrite
  <2>1. partial' = [i \in 1 .. Len(partial) |-> Nobody] /\ UNCHANGED <<lines, pos, answer>>
    BY <1>8 DEF Device!FailedWrite
  <2>2. Nobody \in Symbol
    BY DEF Symbol
  <2>3. partial' \in Seq(Symbol) /\ Len(partial') = Len(partial)
    BY <1>3, <2>1, <2>2
  <2>4. DataTypes'
    BY <1>1, <2>1, <2>3 DEF DataInv, DataTypes, IsDevice
  <2>5. File' = File /\ Len(lines') = Len(lines)
    BY <2>1 DEF File
  <2>6. EndPosInv'
    BY <1>1, <1>2, <1>8, <2>3, <2>5 DEF DataInv, EndPosInv
  <2> QED  BY <2>4, <2>6 DEF DataInv
<1> QED  BY <1>5, <1>6, <1>7, <1>8 DEF Write, Go, AfterShortWrite

LEMMA PublishData ==
    ASSUME DataInv, LockInv, pc \in [Conn -> ThreadPlaces], NEW c \in Conn, Publish(c)
    PROVE  DataInv'
<1>1. /\ UNCHANGED <<thread_complete, rd, new_line, wr, sent, lines, partial, pos, answer>>
      /\ pc[c] = "publish" /\ pc' = [pc EXCEPT ![c] = "more"]
      /\ end_pos' = end_pos + Len(rd[c]) /\ owner' = Nobody
  BY DEF Publish, bufs, dev, Go, Unlock
<1>2. \A d \in Conn : pc'[d] # "publish"
  BY <1>1, NobodyAssumption DEF LockInv, MutualExclusion, InMutex
<1>3. Len(rd[c]) \in Nat /\ end_pos \in Nat
  BY DEF DataInv, DataTypes
<1>4. DataTypes'
  BY <1>1, <1>3 DEF DataInv, DataTypes, IsDevice
<1>5. File' = File /\ Len(lines') = Len(lines) /\ Len(partial') = Len(partial)
  BY <1>1 DEF File
<1>6. EndPosInv'
  BY <1>1, <1>2, <1>5 DEF DataInv, EndPosInv
<1> QED  BY <1>4, <1>6 DEF DataInv

LEMMA ThreadData ==
    ASSUME DataInv, LockInv, pc \in [Conn -> ThreadPlaces], NEW c \in Conn, Thread(c)
    PROVE  DataInv'
<1>0. owner \in Conn \cup {Nobody} /\ thread_complete \in [Conn -> BOOLEAN]
  BY DEF DataInv, DataTypes
<1>1. CASE OpenDevice(c) \/ RecvClosed(c) \/ Crash(c) \/ LockWrite(c) \/ LockRead(c)
  BY <1>0, <1>1, DataKeeps DEF OpenDevice, RecvClosed, Crash, LockWrite, LockRead, Go
<1>2. CASE Recv(c)
  BY <1>2, RecvData
<1>3. CASE Write(c)
  BY <1>3, WriteData
<1>4. CASE Publish(c)
  BY <1>4, PublishData
<1>5. CASE More(c)
  <2>1. /\ wr' = [wr EXCEPT ![c] = <<>>]
        /\ UNCHANGED <<thread_complete, owner, end_pos, rd, new_line, sent, lines, partial, pos, answer>>
        /\ \E to \in {"lockread", "exited", "finish"} : pc' = [pc EXCEPT ![c] = to]
    BY <1>5 DEF More, Go, dev
  <2>2. wr' \in [Conn -> Seq(Symbol)]
    <3>1. <<>> \in Seq(Symbol)
      OBVIOUS
    <3> QED  BY <2>1, <3>1 DEF DataInv, DataTypes
  <2>3. DataTypes'
    BY <2>1, <2>2 DEF DataInv, DataTypes, IsDevice
  <2> QED  BY <2>1, <2>3, DataStill
<1>6. CASE ReadByte(c)
  BY <1>6, ReadData
<1>7. CASE Send(c)
  <2>1. /\ sent' \in {sent, [sent EXCEPT ![c] = sent[c] \o wr[c]]}
        /\ UNCHANGED <<thread_complete, owner, end_pos, rd, new_line, wr, lines, partial, pos, answer>>
        /\ \E to \in {"more", "exited"} : pc' = [pc EXCEPT ![c] = to]
    BY <1>7 DEF Send, Go, dev
  <2>2. sent' \in [Conn -> Seq(Symbol)]
    <3>1. sent[c] \o wr[c] \in Seq(Symbol)
      BY DEF DataInv, DataTypes
    <3> QED  BY <2>1, <3>1 DEF DataInv, DataTypes
  <2>3. DataTypes'
    BY <2>1, <2>2 DEF DataInv, DataTypes, IsDevice
  <2> QED  BY <2>1, <2>3, DataStill
<1>8. CASE Finish(c)
  <2>1. thread_complete' \in [Conn -> BOOLEAN]
    BY <1>0, <1>8 DEF Finish
  <2> QED  BY <1>0, <1>8, <2>1, DataKeeps DEF Finish, Go
<1> QED  BY <1>1, <1>2, <1>3, <1>4, <1>5, <1>6, <1>7, <1>8 DEF Thread

LEMMA MainData ==
    ASSUME DataInv, pc \in [Conn -> ThreadPlaces],
           \/ Main \/ Signal \/ ParentSignal \/ ParentExit \/ AcceptNoMem \/ UNCHANGED vars
           \/ \E c \in Conn : Accept(c)
    PROVE  DataInv'
<1>1. UNCHANGED <<thread_complete, owner, end_pos, rd, new_line, wr, sent, lines, partial, pos, answer>>
  BY DEF Main, SetUp, InstallHandlers, InitMutex, Socket, SetSockOpt, Bind, Listen, Call,
         Daemonise, Session, ParentSignal, ParentExit, Threads, While, AcceptFails, Scan, ScanDone,
         Cleanup, Exit, Signal, AcceptNoMem, Accept, bufs, dev, vars
<1>2. pc' = pc \/ \E c \in Conn : pc' = [pc EXCEPT ![c] = "open"]
  BY DEF Main, SetUp, InstallHandlers, InitMutex, Socket, SetSockOpt, Bind, Listen, Call,
         Daemonise, Session, ParentSignal, ParentExit, Threads, While, AcceptFails, Scan, ScanDone,
         Cleanup, Exit, Signal, AcceptNoMem, Accept, bufs, dev, vars
<1>3. \A c \in Conn : pc'[c] = "publish" => pc[c] = "publish"
  BY <1>2
<1>4. DataTypes'
  BY <1>1 DEF DataInv, DataTypes, IsDevice
<1>5. File' = File /\ Len(lines') = Len(lines) /\ Len(partial') = Len(partial)
  BY <1>1 DEF File
<1>6. EndPosInv'
  BY <1>1, <1>3, <1>5 DEF DataInv, EndPosInv
<1> QED  BY <1>4, <1>6 DEF DataInv

LEMMA InitData == Init => DataInv
<1> SUFFICES ASSUME Init PROVE DataInv
  OBVIOUS
<1>1. lines = <<>> /\ partial = <<>> /\ answer = <<>> /\ pos = [c \in Conn |-> 0] /\ end_pos = 0
      /\ owner = Nobody
  BY DEF Init, Device!Init
<1>2. <<>> \in Seq(Symbol) /\ <<>> \in Seq(Seq(Symbol))
  OBVIOUS
<1>3. /\ thread_complete \in [Conn -> BOOLEAN] /\ new_line \in [Conn -> BOOLEAN]
      /\ pos \in [Conn -> Nat]
  BY <1>1 DEF Init
<1>4. rd = [c \in Conn |-> <<>>] /\ wr = [c \in Conn |-> <<>>] /\ sent = [c \in Conn |-> <<>>]
  BY DEF Init
<1>5. /\ rd \in [Conn -> Seq(Symbol)] /\ wr \in [Conn -> Seq(Symbol)]
      /\ sent \in [Conn -> Seq(Symbol)]
  BY <1>2, <1>4
<1>6. DataTypes
  BY <1>1, <1>2, <1>3, <1>5 DEF DataTypes, IsDevice
<1>7. Len(File) \in Nat /\ Len(partial) = 0
  BY <1>1, <1>6, FileType
<1>8. \A c \in Conn : pc[c] # "publish"
  BY DEF Init
<1>9. EndPosInv
  BY <1>1, <1>7, <1>8 DEF EndPosInv
<1> QED  BY <1>6, <1>9 DEF DataInv

AllInv == ServerInv /\ LockInv /\ DataInv

LEMMA AllInvariant == Spec => []AllInv
<1>1. Init => AllInv
  BY InitLock, InitServer, InitData DEF AllInv
<1>2. AllInv /\ [Next]_vars => AllInv'
  <2> SUFFICES ASSUME AllInv, [Next]_vars PROVE AllInv'
    OBVIOUS
  <2>1. ServerInv' /\ LockInv' /\ pc \in [Conn -> ThreadPlaces]
    BY ServerStep, LockStep DEF AllInv, ServerInv, MainTypes
  <2>2. DataInv'
    BY <2>1, ThreadData, MainData DEF Next, AllInv
  <2> QED  BY <2>1, <2>2 DEF AllInv
<1> QED  BY <1>1, <1>2, PTL DEF Spec

(***************************************************************************)
(* The count of bytes that tells the reading loops how far to go is never  *)
(* ahead of what the device accepted: whichever write fails, and whoever   *)
(* is between its write and its addition (311, 329).                       *)
(***************************************************************************)
THEOREM EndPosNeverAhead == Spec => []EndPosBehindDevice
<1>1. AllInv => EndPosBehindDevice
  BY DEF AllInv, DataInv, EndPosInv, EndPosBehindDevice
<1> QED  BY <1>1, AllInvariant, PTL

-----------------------------------------------------------------------------
(***************************************************************************)
(* Where no call fails, the socket listens for as long as main serves and  *)
(* nobody asked it to stop, and nothing else takes main to cleanup.        *)
(***************************************************************************)
StopInv ==
    Faults = {} =>
        /\ parent = FALSE
        /\ mpc \in {"while", "accept", "scan"} => sock = "listening" \/ signal_exit_code = TRUE
        /\ mpc \in {"cleanup", "exited"} => signal_exit_code = TRUE

LEMMA StopStep ==
    ASSUME StopInv, signal_exit_code \in BOOLEAN, [Next]_vars
    PROVE  StopInv'
<1> SUFFICES ASSUME Faults = {} PROVE StopInv'
  BY DEF StopInv
<1>0. /\ parent = FALSE
      /\ mpc \in {"while", "accept", "scan"} => sock = "listening" \/ signal_exit_code = TRUE
      /\ mpc \in {"cleanup", "exited"} => signal_exit_code = TRUE
      /\ \A f : f \notin Faults
  BY DEF StopInv
<1> USE DEF StopInv
<1>1. CASE InstallHandlers \/ InitMutex \/ SetSockOpt \/ Bind \/ Listen
  BY <1>0, <1>1 DEF InstallHandlers, InitMutex, SetSockOpt, Bind, Listen, Call
<1>2. CASE Socket \/ Session
  BY <1>0, <1>2 DEF Socket, Session, setUp
<1>3. CASE Daemonise
  <2>1. parent' = parent \/ parent' = ("parent" \in Faults)
    BY <1>3 DEF Daemonise
  <2>2. parent' = FALSE
    <3>1. ("parent" \in Faults) = FALSE
      BY <1>0
    <3> QED  BY <1>0, <2>1, <3>1
  <2>3. mpc' \notin {"while", "accept", "scan", "cleanup", "exited"}
    BY <1>3 DEF Daemonise
  <2> QED  BY <2>2, <2>3
<1>4. CASE ParentSignal \/ ParentExit
  BY <1>0, <1>4 DEF ParentSignal, ParentExit
<1>5. CASE While
  BY <1>0, <1>5 DEF While, setUp
<1>6. CASE AcceptFails \/ AcceptNoMem
  BY <1>0, <1>6 DEF AcceptFails, AcceptNoMem, setUp
<1>7. CASE Scan \/ ScanDone
  BY <1>0, <1>7 DEF Scan, ScanDone, Join, setUp
<1>8. CASE Cleanup
  BY <1>0, <1>8 DEF Cleanup, JoinAtExit, Join, setUp
<1>9. CASE Exit
  BY <1>0, <1>9 DEF Exit
<1>10. CASE Signal
  BY <1>0, <1>10 DEF Signal
<1>11. CASE \E c \in Conn : Accept(c)
  BY <1>0, <1>11 DEF Accept, setUp
<1>12. CASE \E c \in Conn : Thread(c)
  <2> PICK c \in Conn : Thread(c)
    BY <1>12
  <2>1. CASE Crash(c)
    BY <1>0, <2>1 DEF Crash, setUp
  <2>2. CASE ~Crash(c)
    <3>1. UNCHANGED mainVars
      BY <2>2 DEF Thread, OpenDevice, Recv, RecvClosed, LockWrite, Write, Publish, More, LockRead,
                  ReadByte, Send, Finish
    <3> QED  BY <1>0, <3>1 DEF mainVars, setUp
  <2> QED  BY <2>1, <2>2
<1>13. CASE UNCHANGED vars
  BY <1>0, <1>13 DEF vars, mainVars, setUp
<1> QED  BY <1>1, <1>2, <1>3, <1>4, <1>5, <1>6, <1>7, <1>8, <1>9, <1>10, <1>11, <1>12, <1>13
         DEF Next, Main, SetUp

(***************************************************************************)
(* Types; main stops serving only for a signal when no call fails, however *)
(* early the signal comes (569-609); and the scan after an accept joins    *)
(* entries that say they are complete (627).                               *)
(***************************************************************************)
THEOREM MainKeepsServing == Spec => []MainInv
<1>1. Init => StopInv
  BY DEF Init, StopInv
<1>2. StopInv /\ AllInv /\ [Next]_vars => StopInv'
  BY StopStep DEF AllInv, ServerInv, MainTypes
<1>3. StopInv /\ AllInv => MainInv
  <2> SUFFICES ASSUME StopInv, AllInv PROVE MainInv
    OBVIOUS
  <2>1. TypeOK
    <3>1. MainTypes /\ DataTypes
      BY DEF AllInv, ServerInv, DataInv
    <3>2. \A c \in Conn : {rd[c], wr[c], sent[c]} \subseteq Seq(Conn \cup {NL, Nobody})
      BY <3>1 DEF DataTypes, Symbol
    <3>3. mpc \in {"signal", "mutex", "socket", "setsockopt", "bind", "daemon", "session", "listen",
                   "while", "accept", "scan", "cleanup", "exited", "crashed", "killed", "returned"}
      BY <3>1 DEF MainTypes, MainPlaces, SetUpPlaces
    <3>4. pc \in [Conn -> {"none", "open", "recv", "lockwrite", "write", "publish",
                           "more", "lockread", "read", "send", "finish", "exited"}]
      BY <3>1, Zenon DEF MainTypes, ThreadPlaces
    <3> QED  BY <3>1, <3>2, <3>3, <3>4, Zenon DEF MainTypes, DataTypes, TypeOK
  <2>2. StopsWhenAsked
    BY DEF StopInv, StopsWhenAsked
  <2>3. JoinsCompleted
    BY DEF JoinsCompleted, Joinable
  <2> QED  BY <2>1, <2>2, <2>3 DEF MainInv
<1> QED  BY <1>1, <1>2, <1>3, AllInvariant, PTL DEF Spec

-----------------------------------------------------------------------------
(***************************************************************************)
(* Replies, where no call fails and no packet is an empty line.  A packet  *)
(* is bytes of its connection and one newline, which comes last; so the    *)
(* device always holds whole lines.                                        *)
(***************************************************************************)
Quiet == Faults = {} /\ Chunks \subseteq {"line", "part"}

Packet(s, c) ==
    Len(s) >= 2 /\ s[Len(s)] = NL /\ \A x \in 1 .. Len(s) - 1 : s[x] = c

Sending   == {"more", "lockread", "read", "send"}
Served    == {"finish", "exited"}
Receiving == {"none", "open", "recv"}
Writing   == {"lockwrite", "write", "publish"}

PacketOf(c) ==
    /\ pc[c] \in Receiving => \A x \in 1 .. Len(rd[c]) : rd[c][x] = c
    /\ pc[c] \in Writing => Packet(rd[c], c)
    /\ pc[c] \in Receiving \cup Writing => sent[c] = <<>>
    /\ pc[c] = "publish" => pos[c] = 0
    /\ thread_complete[c] => pc[c] = "exited"

PacketInv == partial = <<>> /\ \A c \in Conn : PacketOf(c)

(***************************************************************************)
(* While nothing was evicted, end_pos is the size of the file, but for the *)
(* packet a thread has written and not counted yet.                        *)
(***************************************************************************)
FileHas(c, n) == \E k \in 1 .. n : File[k] = c

FileInv ==
    /\ Len(File) # 0 => Len(File) >= 2 /\ File[Len(File)] = NL
    /\ end_pos <= Len(File)
    /\ (\A c \in Conn : pc[c] # "publish") => end_pos = Len(File)
    /\ \A c \in Conn : pc[c] = "publish" => /\ end_pos + Len(rd[c]) = Len(File)
                                           /\ FileHas(c, Len(File))

(***************************************************************************)
(* What a thread sent, and what waits in its buffer, is the file from its  *)
(* start; it never meets the end of the file, because it reads only bytes  *)
(* that end_pos counts, or up to a newline that it has not met yet.        *)
(***************************************************************************)
ReplyOf(c) ==
    /\ Len(sent[c]) <= Len(File) /\ \A x \in 1 .. Len(sent[c]) : sent[c][x] = File[x]
    /\ pc[c] \in Sending => FileHas(c, end_pos)
    /\ pc[c] = "more" => pos[c] = Len(sent[c])
    /\ pc[c] \in {"lockread", "read", "send"} =>
          /\ pos[c] = Len(sent[c]) + Len(wr[c]) /\ pos[c] <= Len(File)
          /\ \A x \in 1 .. Len(wr[c]) : wr[c][x] = File[Len(sent[c]) + x]
    /\ pc[c] \in {"lockread", "read"} => pos[c] < Len(File)
    /\ pc[c] = "lockread" => wr[c] = <<>>
    /\ pc[c] = "read" /\ new_line[c] => wr[c] = <<>>
    /\ ~new_line[c] => sent[c] = <<>> /\ pc[c] # "send"
    /\ pc[c] \in Served => \E k \in 1 .. Len(sent[c]) : sent[c][k] = c

ReplyInv == PacketInv /\ (Len(lines) < Lines => FileInv /\ \A c \in Conn : ReplyOf(c))

LEMMA PacketSame ==
    ASSUME NEW d \in Conn, PacketOf(d), pc'[d] = pc[d], rd'[d] = rd[d], sent'[d] = sent[d],
           pos'[d] = pos[d], thread_complete'[d] = thread_complete[d]
    PROVE  PacketOf(d)'
  BY DEF PacketOf

LEMMA ReplyEarly ==
    ASSUME DataTypes', NEW c \in Conn, sent'[c] = <<>>, pc'[c] \in Receiving \cup Writing
    PROVE  ReplyOf(c)'
<1>1. Len(File') \in Nat
  <2>1. DataTypes' => Len(File') \in Nat
    BY JoinedType DEF DataTypes, File
  <2> QED  BY <2>1
<1>2. pc'[c] \notin Sending /\ pc'[c] \notin Served
      /\ pc'[c] \notin {"more", "lockread", "read", "send"}
  BY DEF Receiving, Writing, Sending, Served
<1>3. Len(sent'[c]) = 0
  OBVIOUS
<1> QED  BY <1>1, <1>2, <1>3 DEF ReplyOf

LEMMA Within ==
    ASSUME NEW a \in Nat, NEW b \in Nat, NEW n \in Nat, NEW p, p = a + b, p <= n, NEW x \in 1 .. b
    PROVE  a + x \in 1 .. n
  OBVIOUS

LEMMA Beyond ==
    ASSUME NEW a \in Nat, NEW b \in Nat, NEW n, n = a + b, NEW x \in 1 .. n, x > a
    PROVE  x - a \in 1 .. b /\ x = a + (x - a)
  OBVIOUS

LEMMA ReplySame ==
    ASSUME DataTypes, NEW d \in Conn, ReplyOf(d), end_pos <= Len(File),
           Starts(File, File'), Len(File') \in Nat, end_pos' \in Nat, end_pos <= end_pos',
           pc'[d] = pc[d], sent'[d] = sent[d], wr'[d] = wr[d], new_line'[d] = new_line[d],
           pos'[d] = pos[d]
    PROVE  ReplyOf(d)'
<1>1. /\ Len(File) \in Nat /\ end_pos \in Nat /\ pos[d] \in Nat
      /\ Len(sent[d]) \in Nat /\ Len(wr[d]) \in Nat
  BY FileType, SMTT(30) DEF DataTypes
<1>2. Len(File) <= Len(File') /\ \A x \in 1 .. Len(File) : File'[x] = File[x]
  BY DEF Starts
<1>3. /\ Len(sent'[d]) <= Len(File')
      /\ \A x \in 1 .. Len(sent'[d]) : sent'[d][x] = File'[x]
  <2>1. Len(sent[d]) <= Len(File) /\ \A x \in 1 .. Len(sent[d]) : sent[d][x] = File[x]
    BY DEF ReplyOf
  <2>2. Len(File) <= Len(File')
    BY <1>2
  <2>3. Len(sent[d]) <= Len(File')
    BY <1>1, <2>1, <2>2
  <2>4. ASSUME NEW x \in 1 .. Len(sent[d]) PROVE sent[d][x] = File'[x]
    <3>1. x \in 1 .. Len(File)
      BY <1>1, <2>1
    <3> QED  BY <1>2, <2>1, <3>1
  <2> QED  BY <2>3, <2>4
<1>4. pc'[d] \in Sending => FileHas(d, end_pos)'
  <2> SUFFICES ASSUME pc[d] \in Sending
               PROVE  \E k \in 1 .. end_pos' : File'[k] = d
    BY DEF FileHas
  <2>1. PICK k \in 1 .. end_pos : File[k] = d
    BY DEF ReplyOf, FileHas
  <2>2. k \in 1 .. Len(File) /\ k \in 1 .. end_pos'
    BY <1>1
  <2> QED  BY <1>2, <2>1, <2>2
<1>5. pc'[d] \in {"lockread", "read", "send"} =>
          /\ pos'[d] = Len(sent'[d]) + Len(wr'[d]) /\ pos'[d] <= Len(File')
          /\ \A x \in 1 .. Len(wr'[d]) : wr'[d][x] = File'[Len(sent'[d]) + x]
  <2> SUFFICES ASSUME pc[d] \in {"lockread", "read", "send"}
               PROVE  /\ pos[d] = Len(sent[d]) + Len(wr[d]) /\ pos[d] <= Len(File')
                      /\ \A x \in 1 .. Len(wr[d]) : wr[d][x] = File'[Len(sent[d]) + x]
    OBVIOUS
  <2>0. pos[d] <= Len(File)
    BY DEF ReplyOf
  <2>1. pos[d] = Len(sent[d]) + Len(wr[d])
    BY DEF ReplyOf
  <2>2. \A x \in 1 .. Len(wr[d]) : wr[d][x] = File[Len(sent[d]) + x]
    BY DEF ReplyOf
  <2>3. Len(File) <= Len(File')
    BY <1>2
  <2>4. ASSUME NEW x \in 1 .. Len(wr[d]) PROVE wr[d][x] = File'[Len(sent[d]) + x]
    <3>1. Len(sent[d]) + x \in 1 .. Len(File)
      BY <1>1, <2>0, <2>1, Within
    <3> QED  BY <1>2, <2>2, <3>1
  <2>5. pos[d] <= Len(File')
    BY <1>1, <2>0, <2>3
  <2> QED  BY <2>1, <2>4, <2>5
<1>6. pc'[d] \in {"lockread", "read"} => pos'[d] < Len(File')
  <2>1. pc[d] \in {"lockread", "read"} => pos[d] < Len(File)
    BY DEF ReplyOf
  <2>2. Len(File) <= Len(File')
    BY <1>2
  <2> QED  BY <1>1, <2>1, <2>2
<1> QED  BY <1>3, <1>4, <1>5, <1>6 DEF ReplyOf

LEMMA FileSame ==
    ASSUME FileInv, UNCHANGED <<lines, end_pos>>,
           \A d \in Conn : pc'[d] = "publish" <=> pc[d] = "publish",
           \A d \in Conn : pc[d] = "publish" => rd'[d] = rd[d]
    PROVE  FileInv'
<1>1. File' = File
  BY DEF File
<1> QED  BY <1>1 DEF FileInv, FileHas

(***************************************************************************)
(* A write completes its packet, and with it a line.                       *)
(***************************************************************************)
LEMMA QuietWrite ==
    ASSUME DataTypes, partial = <<>>, NEW c \in Conn, Packet(rd[c], c),
           Device!Write(c, rd[c], Len(rd[c]))
    PROVE  /\ partial' = <<>> /\ pos' = [pos EXCEPT ![c] = 0]
           /\ Len(lines') < Lines => Len(lines) < Lines /\ Joins(File', File, rd[c], Symbol)
<1>1. rd[c] \in Seq(Symbol) /\ Len(rd[c]) \in Nat /\ Len(rd[c]) >= 2 /\ rd[c][Len(rd[c])] = NL
  BY DEF DataTypes, Packet
<1>2. partial \o SubSeq(rd[c], 1, Len(rd[c])) = rd[c]
  <2>1. SubSeq(rd[c], 1, Len(rd[c])) = rd[c]
    BY <1>1
  <2>2. <<>> \o rd[c] = rd[c]
    BY <1>1
  <2> QED  BY <2>1, <2>2
<1>3. Device!Occurs(NL, rd[c])
  BY <1>1 DEF Device!Occurs
<1>4. /\ partial' = <<>> /\ pos' = [pos EXCEPT ![c] = 0]
      /\ lines' = IF Len(lines) < Lines THEN Append(lines, rd[c]) ELSE Append(Tail(lines), rd[c])
  BY <1>2, <1>3 DEF Device!Write
<1>5. ASSUME Len(lines') < Lines PROVE Len(lines) < Lines
  <2>1. Len(lines) \in Nat /\ Lines \in Nat \ {0} /\ lines \in Seq(Seq(Symbol))
    BY LinesAssumption DEF DataTypes, IsDevice
  <2>2. CASE ~(Len(lines) < Lines)
    <3>1. lines # <<>> /\ Tail(lines) \in Seq(Seq(Symbol)) /\ Len(Tail(lines)) = Len(lines) - 1
      BY <2>1, <2>2
    <3>2. Len(lines') = Len(lines)
      BY <1>1, <1>4, <2>1, <2>2, <3>1
    <3> QED  BY <1>5, <3>2
  <2> QED  BY <2>2
<1>6. Len(lines) < Lines => Joins(File', File, rd[c], Symbol)
  BY <1>1, <1>4, JoinedAppend DEF File, DataTypes
<1> QED  BY <1>4, <1>5, <1>6
(***************************************************************************)
(* A step of the thread of c leaves the others what they have.             *)
(***************************************************************************)
Others(c) == \A d \in Conn \ {c} :
    /\ pc'[d] = pc[d] /\ rd'[d] = rd[d] /\ wr'[d] = wr[d] /\ sent'[d] = sent[d]
    /\ new_line'[d] = new_line[d] /\ pos'[d] = pos[d] /\ thread_complete'[d] = thread_complete[d]

LEMMA OthersPacket ==
    ASSUME PacketInv, NEW c \in Conn, Others(c), partial' = <<>>, PacketOf(c)'
    PROVE  PacketInv'
<1>1. ASSUME NEW d \in Conn \ {c} PROVE PacketOf(d)'
  BY PacketSame DEF Others, PacketInv
<1> QED  BY <1>1 DEF PacketInv

LEMMA OthersReply ==
    ASSUME DataTypes, DataTypes', FileInv, NEW c \in Conn, Others(c), \A d \in Conn : ReplyOf(d),
           Starts(File, File'), end_pos <= end_pos', ReplyOf(c)'
    PROVE  \A d \in Conn : ReplyOf(d)'
<1>1. Len(File') \in Nat /\ end_pos' \in Nat
  BY JoinedType DEF DataTypes, File
<1>2. ASSUME NEW d \in Conn \ {c} PROVE ReplyOf(d)'
  BY <1>1, ReplySame DEF Others, FileInv
<1> QED  BY <1>2

LEMMA Stepped ==
    ASSUME DataTypes, DataTypes', ReplyInv, NEW c \in Conn, Others(c),
           UNCHANGED <<lines, partial, end_pos>>, pc[c] # "publish", pc'[c] # "publish",
           PacketOf(c)', FileInv /\ ReplyOf(c) => ReplyOf(c)'
    PROVE  ReplyInv'
<1>1. PacketInv'
  BY OthersPacket DEF ReplyInv, PacketInv
<1>2. ASSUME Len(lines') < Lines PROVE FileInv' /\ \A d \in Conn : ReplyOf(d)'
  <2>1. FileInv /\ \A d \in Conn : ReplyOf(d)
    BY <1>2 DEF ReplyInv
  <2>2. File' = File
    BY DEF File
  <2>3. Starts(File, File') /\ end_pos <= end_pos'
    BY <2>2, FileType DEF Starts, DataTypes
  <2>4. \A d \in Conn : ReplyOf(d)'
    BY <2>1, <2>3, OthersReply
  <2>5. FileInv'
    BY <2>1, FileSame DEF Others
  <2> QED  BY <2>4, <2>5
<1> QED  BY <1>1, <1>2 DEF ReplyInv

(***************************************************************************)
(* The actions of a thread, one by one.                                    *)
(***************************************************************************)
StepsOf(c) == /\ Quiet /\ DataTypes /\ DataTypes' /\ LockInv /\ ReplyInv
              /\ pc \in [Conn -> ThreadPlaces]

LEMMA MovedPc ==
    ASSUME NEW c \in Conn, NEW from, NEW to, StepsOf(c), Go(c, from, to)
    PROVE  pc[c] = from /\ pc'[c] = to /\ \A d \in Conn \ {c} : pc'[d] = pc[d]
  BY DEF StepsOf, Go

LEMMA EarlyReply ==
    ASSUME NEW c \in Conn, StepsOf(c), OpenDevice(c) \/ Recv(c) \/ LockWrite(c)
    PROVE  ReplyInv'
<1>1. /\ UNCHANGED <<lines, partial, end_pos, wr, sent, new_line, pos, thread_complete>>
      /\ pc[c] \in {"open", "recv", "lockwrite"}
      /\ pc'[c] \in {"recv", "lockwrite", "write"}
      /\ \A d \in Conn \ {c} : pc'[d] = pc[d]
      /\ rd' = rd \/ Recv(c)
  BY MovedPc DEF StepsOf, Quiet, OpenDevice, Recv, LockWrite, bufs, dev
<1>2. Others(c)
  BY <1>1 DEF Others, Recv, StepsOf, DataTypes
<1>3. PacketOf(c) /\ sent'[c] = <<>>
  BY <1>1 DEF StepsOf, ReplyInv, PacketInv, PacketOf, Receiving, Writing
<1>4. PacketOf(c)'
  <2> USE DEF PacketOf, Receiving, Writing
  <2>1. CASE OpenDevice(c)
    BY <1>1, <1>3, <2>1, MovedPc DEF OpenDevice, StepsOf, Quiet, bufs
  <2>2. CASE LockWrite(c)
    BY <1>1, <1>3, <2>2, MovedPc DEF LockWrite, bufs
  <2>3. CASE Recv(c)
    <3>1. PICK chunk \in {"line", "part"} :
            /\ rd' = [rd EXCEPT ![c] = rd[c] \o Bytes(c, chunk)]
            /\ \/ chunk = "line" /\ pc'[c] = "lockwrite"
               \/ chunk = "part" /\ pc'[c] = "recv"
            /\ pc[c] = "recv"
      <4>1. PICK chunk \in Chunks :
              /\ rd' = [rd EXCEPT ![c] = rd[c] \o Bytes(c, chunk)]
              /\ \/ chunk # "part" /\ Go(c, "recv", "lockwrite")
                 \/ chunk = "part" /\ Go(c, "recv", "recv")
        BY <2>3 DEF Recv, StepsOf, Quiet
      <4>2. chunk \in {"line", "part"}
        BY DEF StepsOf, Quiet
      <4> QED  BY <4>1, <4>2, MovedPc
    <3>2. rd[c] \in Seq(Symbol) /\ \A x \in 1 .. Len(rd[c]) : rd[c][x] = c
      BY <1>3, <3>1 DEF StepsOf, DataTypes
    <3>3. c \in Symbol /\ NL \in Symbol
      BY DEF Symbol
    <3>4. CASE chunk = "line"
      <4>1. rd'[c] = rd[c] \o <<c, NL>>
        BY <3>1, <3>4 DEF Bytes, StepsOf, DataTypes
      <4>2. Packet(rd'[c], c)
        BY <3>2, <3>3, <4>1 DEF Packet
      <4> QED  BY <1>1, <1>3, <3>1, <3>4, <4>2
    <3>5. CASE chunk = "part"
      <4>1. rd'[c] = rd[c] \o <<c>>
        BY <3>1, <3>5 DEF Bytes, StepsOf, DataTypes
      <4>2. \A x \in 1 .. Len(rd'[c]) : rd'[c][x] = c
        BY <3>2, <3>3, <4>1
      <4> QED  BY <1>1, <1>3, <3>1, <3>5, <4>2
    <3> QED  BY <3>1, <3>4, <3>5
  <2> QED  BY <2>1, <2>2, <2>3
<1>5. ReplyOf(c)'
  BY <1>1, <1>3, ReplyEarly DEF StepsOf, Receiving, Writing
<1> QED  BY <1>1, <1>2, <1>4, <1>5, Stepped DEF StepsOf

LEMMA WriteReply == ASSUME NEW c \in Conn, StepsOf(c), Write(c) PROVE ReplyInv'
<1>1. /\ UNCHANGED <<end_pos, rd, wr, sent, new_line, thread_complete>>
      /\ pc[c] = "write" /\ pc'[c] = "publish" /\ \A d \in Conn \ {c} : pc'[d] = pc[d]
      /\ Device!Write(c, rd[c], Len(rd[c]))
  BY MovedPc DEF StepsOf, Quiet, Write, bufs
<1>2. PacketOf(c) /\ Packet(rd[c], c) /\ sent[c] = <<>> /\ partial = <<>>
  BY <1>1 DEF StepsOf, ReplyInv, PacketInv, PacketOf, Receiving, Writing
<1>3. /\ partial' = <<>> /\ pos' = [pos EXCEPT ![c] = 0]
      /\ Len(lines') < Lines => Len(lines) < Lines /\ Joins(File', File, rd[c], Symbol)
  BY <1>1, <1>2, QuietWrite DEF StepsOf
<1>4. Others(c)
  BY <1>1, <1>3 DEF Others, StepsOf, DataTypes
<1>5. PacketOf(c)' /\ pos'[c] = 0
  BY <1>1, <1>2, <1>3 DEF PacketOf, Receiving, Writing, StepsOf, DataTypes
<1>6. PacketInv'
  BY <1>3, <1>4, <1>5, OthersPacket DEF StepsOf, ReplyInv
<1>7. ASSUME Len(lines') < Lines PROVE FileInv' /\ \A d \in Conn : ReplyOf(d)'
  <2>1. FileInv /\ (\A d \in Conn : ReplyOf(d)) /\ Joins(File', File, rd[c], Symbol)
    BY <1>3, <1>7 DEF StepsOf, ReplyInv
  <2>2. Starts(File, File') /\ end_pos <= end_pos'
    BY <1>1, <2>1 DEF Joins, Starts, StepsOf, DataTypes
  <2>3. ReplyOf(c)'
    BY <1>1, <1>2, ReplyEarly DEF StepsOf, Writing
  <2>4. \A d \in Conn : ReplyOf(d)'
    BY <1>4, <2>1, <2>2, <2>3, OthersReply DEF StepsOf
  <2>5. \A d \in Conn : pc[d] # "publish"
    BY <1>1, NobodyAssumption DEF StepsOf, LockInv, MutualExclusion, InMutex
  <2>6. end_pos = Len(File) /\ \A d \in Conn \ {c} : pc'[d] # "publish"
    BY <1>1, <2>1, <2>5 DEF FileInv
  <2>7. /\ Len(File) \in Nat /\ Len(rd[c]) \in Nat /\ Len(rd[c]) >= 2
        /\ Len(File') = Len(File) + Len(rd[c])
        /\ \A x \in 1 .. Len(rd[c]) : File'[Len(File) + x] = rd[c][x]
    <3>1. Joins(File', File, rd[c], Symbol)
      BY <2>1
    <3>2. Len(rd[c]) >= 2
      BY <1>2 DEF Packet
    <3> QED  BY <3>1, <3>2 DEF Joins
  <2>8. File'[Len(File')] = NL
    <3>1. File'[Len(File) + Len(rd[c])] = rd[c][Len(rd[c])]
      <4>1. Len(rd[c]) \in 1 .. Len(rd[c])
        BY <2>7
      <4> QED  BY <2>7, <4>1
    <3> QED  BY <1>2, <2>7, <3>1 DEF Packet
  <2>9. FileHas(c, Len(File))'
    <3>1. File'[Len(File) + 1] = rd[c][1] /\ rd[c][1] = c
      BY <1>2, <2>1, <2>7 DEF Joins, Packet
    <3>2. Len(File) + 1 \in 1 .. Len(File')
      BY <2>7
    <3> QED  BY <3>1, <3>2 DEF FileHas
  <2>10. FileInv'
    <3>1. Len(File') >= 2 /\ end_pos' <= Len(File') /\ end_pos' + Len(rd'[c]) = Len(File')
      BY <1>1, <2>6, <2>7
    <3>2. \A d \in Conn : pc'[d] = "publish" <=> d = c
      BY <1>1, <2>6
    <3> QED  BY <2>8, <2>9, <3>1, <3>2 DEF FileInv
  <2> QED  BY <2>4, <2>10
<1> QED  BY <1>6, <1>7 DEF ReplyInv

LEMMA PublishReply == ASSUME NEW c \in Conn, StepsOf(c), Publish(c) PROVE ReplyInv'
<1>1. /\ UNCHANGED <<lines, partial, rd, wr, sent, new_line, pos, thread_complete>>
      /\ pc[c] = "publish" /\ pc'[c] = "more" /\ \A d \in Conn \ {c} : pc'[d] = pc[d]
      /\ end_pos' = end_pos + Len(rd[c])
  BY MovedPc DEF Publish, bufs, dev
<1>2. PacketOf(c) /\ pos[c] = 0 /\ sent[c] = <<>> /\ partial = <<>>
  BY <1>1 DEF StepsOf, ReplyInv, PacketInv, PacketOf, Receiving, Writing
<1>3. Others(c) /\ File' = File
  BY <1>1 DEF Others, File
<1>4. PacketOf(c)'
  BY <1>1, <1>2 DEF PacketOf, Receiving, Writing
<1>5. PacketInv'
  BY <1>1, <1>2, <1>3, <1>4, OthersPacket DEF StepsOf, ReplyInv
<1>6. ASSUME Len(lines') < Lines PROVE FileInv' /\ \A d \in Conn : ReplyOf(d)'
  <2>1. FileInv /\ \A d \in Conn : ReplyOf(d)
    BY <1>1, <1>6 DEF StepsOf, ReplyInv
  <2>2. /\ end_pos' = Len(File) /\ FileHas(c, Len(File)) /\ Len(File) \in Nat
        /\ end_pos <= end_pos'
    BY <1>1, <2>1, FileType DEF FileInv, StepsOf
  <2>3. Starts(File, File')
    BY <1>3, <2>2 DEF Starts
  <2>4. ReplyOf(c)'
    BY <1>1, <1>2, <1>3, <2>1, <2>2 DEF ReplyOf, Sending, Served, FileHas
  <2>5. \A d \in Conn : ReplyOf(d)'
    BY <1>3, <2>1, <2>2, <2>3, <2>4, OthersReply DEF StepsOf
  <2>6. \A d \in Conn : pc'[d] # "publish"
    BY <1>1, NobodyAssumption DEF StepsOf, LockInv, MutualExclusion, InMutex
  <2>7. FileInv'
    BY <1>3, <2>1, <2>2, <2>6 DEF FileInv
  <2> QED  BY <2>5, <2>7
<1> QED  BY <1>5, <1>6 DEF ReplyInv

LEMMA SendingPacket ==
    ASSUME NEW c \in Conn, StepsOf(c), pc[c] \in Sending, UNCHANGED thread_complete,
           pc'[c] \in Sending \cup {"finish"}
    PROVE  PacketOf(c)' /\ pc[c] # "publish" /\ pc'[c] # "publish"
<1>1. ~thread_complete[c]
  BY DEF StepsOf, ReplyInv, PacketInv, PacketOf, Sending
<1> QED  BY <1>1 DEF PacketOf, Receiving, Writing, Sending

LEMMA MoreReply == ASSUME NEW c \in Conn, StepsOf(c), More(c) PROVE ReplyInv'
<1>1. /\ UNCHANGED <<lines, partial, end_pos, rd, sent, new_line, pos, thread_complete>>
      /\ pc[c] = "more" /\ \A d \in Conn \ {c} : pc'[d] = pc[d]
      /\ wr' = [wr EXCEPT ![c] = <<>>]
      /\ \/ Len(sent[c]) < end_pos /\ pc'[c] = "lockread"
         \/ ~(Len(sent[c]) < end_pos) /\ pc'[c] = "finish"
  BY MovedPc DEF StepsOf, Quiet, More, Remaining, dev
<1>2. Others(c) /\ File' = File /\ wr'[c] = <<>>
  BY <1>1 DEF Others, File, StepsOf, DataTypes
<1>3. PacketOf(c)' /\ pc[c] # "publish" /\ pc'[c] # "publish"
  BY <1>1, SendingPacket DEF Sending
<1>4. ASSUME FileInv, ReplyOf(c) PROVE ReplyOf(c)'
  <2>1. /\ Len(sent[c]) \in Nat /\ end_pos \in Nat /\ end_pos <= Len(File) /\ Len(File) \in Nat
        /\ Len(sent[c]) <= Len(File) /\ \A x \in 1 .. Len(sent[c]) : sent[c][x] = File[x]
        /\ FileHas(c, end_pos) /\ pos[c] = Len(sent[c])
        /\ ~new_line[c] => sent[c] = <<>>
    BY <1>1, <1>4, FileType DEF StepsOf, DataTypes, FileInv, ReplyOf, Sending
  <2>2. CASE Len(sent[c]) < end_pos /\ pc'[c] = "lockread"
    <3>1. Len(wr'[c]) = 0 /\ pos'[c] = pos[c] /\ sent'[c] = sent[c] /\ Len(File') = Len(File)
      BY <1>1, <1>2
    <3>2. pos[c] = Len(sent[c]) /\ Len(sent[c]) \in Nat /\ Len(sent[c]) < end_pos
          /\ end_pos <= Len(File) /\ end_pos \in Nat /\ Len(File) \in Nat
      BY <2>1, <2>2
    <3>3. pos[c] = Len(sent[c]) + 0 /\ Len(sent[c]) < Len(File)
      BY <3>2
    <3>4. Len(wr'[c]) = 0 /\ pos'[c] = Len(sent'[c]) + Len(wr'[c]) /\ pos'[c] < Len(File')
      BY <3>1, <3>2, <3>3
    <3>5. \A x \in 1 .. Len(wr'[c]) : FALSE
      BY <3>4
    <3>6. FileHas(c, end_pos)'
      BY <1>1, <1>2, <2>1 DEF FileHas
    <3>7. pos'[c] <= Len(File')
      BY <1>1, <1>2, <2>1, <3>4
    <3> QED  BY <1>1, <1>2, <2>1, <2>2, <3>4, <3>5, <3>6, <3>7 DEF ReplyOf, Sending, Served
  <2>3. CASE ~(Len(sent[c]) < end_pos) /\ pc'[c] = "finish"
    <3>1. \E k \in 1 .. Len(sent[c]) : sent[c][k] = c
      <4>1. PICK k \in 1 .. end_pos : File[k] = c
        BY <2>1 DEF FileHas
      <4>2. k \in 1 .. Len(sent[c])
        BY <2>1, <2>3
      <4> QED  BY <2>1, <4>1, <4>2
    <3> QED  BY <1>1, <1>2, <2>1, <2>3, <3>1 DEF ReplyOf, Sending, Served
  <2> QED  BY <1>1, <2>2, <2>3
<1> QED  BY <1>1, <1>2, <1>3, <1>4, Stepped DEF StepsOf

LEMMA LockReadReply == ASSUME NEW c \in Conn, StepsOf(c), LockRead(c) PROVE ReplyInv'
<1>1. /\ UNCHANGED <<lines, partial, end_pos, rd, wr, sent, new_line, pos, thread_complete>>
      /\ pc[c] = "lockread" /\ pc'[c] = "read" /\ \A d \in Conn \ {c} : pc'[d] = pc[d]
  BY MovedPc DEF LockRead, bufs, dev
<1>2. Others(c) /\ File' = File
  BY <1>1 DEF Others, File
<1>3. PacketOf(c)' /\ pc[c] # "publish" /\ pc'[c] # "publish"
  BY <1>1, SendingPacket DEF Sending
<1>4. ReplyOf(c) => ReplyOf(c)'
  BY <1>1, <1>2 DEF ReplyOf, Sending, Served, FileHas
<1> QED  BY <1>1, <1>2, <1>3, <1>4, Stepped DEF StepsOf

LEMMA FinishReply == ASSUME NEW c \in Conn, StepsOf(c), Finish(c) PROVE ReplyInv'
<1>1. /\ UNCHANGED <<lines, partial, end_pos, rd, wr, sent, new_line, pos>>
      /\ pc[c] = "finish" /\ pc'[c] = "exited" /\ \A d \in Conn \ {c} : pc'[d] = pc[d]
      /\ thread_complete' = [thread_complete EXCEPT ![c] = TRUE]
  BY MovedPc DEF Finish, bufs, dev
<1>2. Others(c) /\ File' = File
  BY <1>1 DEF Others, File, StepsOf, DataTypes
<1>3. PacketOf(c)'
  BY <1>1 DEF PacketOf, Receiving, Writing
<1>4. ReplyOf(c) => ReplyOf(c)'
  BY <1>1, <1>2 DEF ReplyOf, Sending, Served, FileHas
<1> QED  BY <1>1, <1>2, <1>3, <1>4, Stepped DEF StepsOf

LEMMA SendReply == ASSUME NEW c \in Conn, StepsOf(c), Send(c) PROVE ReplyInv'
<1>1. /\ UNCHANGED <<lines, partial, end_pos, rd, wr, new_line, pos, thread_complete>>
      /\ pc[c] = "send" /\ pc'[c] = "more" /\ \A d \in Conn \ {c} : pc'[d] = pc[d]
      /\ sent' = [sent EXCEPT ![c] = sent[c] \o wr[c]]
  BY MovedPc DEF StepsOf, Quiet, Send, dev
<1>2. Others(c) /\ File' = File /\ sent'[c] = sent[c] \o wr[c]
  BY <1>1 DEF Others, File, StepsOf, DataTypes
<1>3. PacketOf(c)' /\ pc[c] # "publish" /\ pc'[c] # "publish"
  BY <1>1, SendingPacket DEF Sending
<1>4. ASSUME FileInv, ReplyOf(c) PROVE ReplyOf(c)'
  <2>1. /\ \A x \in 1 .. Len(sent[c]) : sent[c][x] = File[x]
        /\ FileHas(c, end_pos) /\ new_line[c]
        /\ \A x \in 1 .. Len(wr[c]) : wr[c][x] = File[Len(sent[c]) + x]
    BY <1>1, <1>4 DEF ReplyOf, Sending
  <2>2. pos[c] = Len(sent[c]) + Len(wr[c])
    BY <1>1, <1>4 DEF ReplyOf
  <2>3. pos[c] <= Len(File)
    BY <1>1, <1>4 DEF ReplyOf
  <2>4. Joins(sent'[c], sent[c], wr[c], Symbol)
    BY <1>2, JoinIs DEF StepsOf, DataTypes
  <2>5. pos'[c] = Len(sent'[c]) /\ Len(sent'[c]) <= Len(File')
    BY <1>1, <1>2, <2>2, <2>3, <2>4 DEF Joins
  <2>6. ASSUME NEW x \in 1 .. Len(sent'[c]) PROVE sent'[c][x] = File'[x]
    <3>1. Len(sent[c]) \in Nat /\ Len(wr[c]) \in Nat /\ Len(sent'[c]) = Len(sent[c]) + Len(wr[c])
      BY <2>4 DEF Joins
    <3>2. CASE x <= Len(sent[c])
      BY <1>2, <2>1, <2>4, <3>1, <3>2 DEF Joins
    <3>3. CASE x > Len(sent[c])
      <4>1. PICK y \in 1 .. Len(wr[c]) : x = Len(sent[c]) + y
        <5>1. x - Len(sent[c]) \in 1 .. Len(wr[c]) /\ x = Len(sent[c]) + (x - Len(sent[c]))
          BY <3>1, <3>3, Beyond, ZenonT(60)
        <5> QED  BY <5>1
      <4> QED  BY <1>2, <2>1, <2>4, <4>1 DEF Joins
    <3> QED  BY <3>1, <3>2, <3>3
  <2>7. FileHas(c, end_pos)'
    BY <1>1, <1>2, <2>1 DEF FileHas
  <2> QED  BY <1>1, <2>1, <2>5, <2>6, <2>7 DEF ReplyOf, Sending, Served
<1> QED  BY <1>1, <1>2, <1>3, <1>4, Stepped DEF StepsOf

(***************************************************************************)
(* The byte that is read is the next one of the file.  If the thread still *)
(* sees no newline after it, the file goes on: its last byte is a newline, *)
(* and so is none of those read.                                           *)
(***************************************************************************)
LEMMA ReadReply == ASSUME NEW c \in Conn, StepsOf(c), ReadByte(c) PROVE ReplyInv'
<1> DEFINE two   == Len(wr'[c]) > 1
           found == Device!Occurs(NL, wr'[c])
<1>1. /\ UNCHANGED <<lines, partial, end_pos, rd, sent, thread_complete>>
      /\ pc[c] = "read" /\ wr' = [wr EXCEPT ![c] = wr[c] \o answer']
  BY ReadDevice DEF StepsOf, ReadByte
<1>2. /\ \A d \in Conn \ {c} : pc'[d] = pc[d] /\ new_line'[d] = new_line[d] /\ wr'[d] = wr[d]
                              /\ pos'[d] = pos[d]
      /\ pc'[c] \in {"read", "send"}
      /\ pc'[c] = "send" => new_line'[c] = TRUE
      /\ pc'[c] = "read" => /\ new_line'[c] = FALSE
                            /\ two => ~found
                            /\ ~two => new_line[c] = FALSE
  <2> DEFINE seens == IF two THEN {found, found \/ "garbage" \in Faults} ELSE {new_line[c]}
  <2>1. PICK seen \in seens :
          /\ new_line' = [new_line EXCEPT ![c] = seen]
          /\ IF seen THEN Go(c, "read", "send") ELSE UNCHANGED pc
    BY DEF ReadByte
  <2>2. found \in BOOLEAN /\ new_line[c] \in BOOLEAN
    BY DEF Device!Occurs, StepsOf, DataTypes
  <2>3. /\ two => seen = found
        /\ ~two => seen = new_line[c]
    <3> HIDE DEF two, found
    <3>1. (found \/ "garbage" \in Faults) = found
      BY <2>2 DEF StepsOf, Quiet
    <3> QED  BY <2>1, <3>1
  <2> HIDE DEF two, found, seens
  <2>4. seen \in BOOLEAN
    BY <2>2, <2>3
  <2>5. new_line'[c] = seen /\ \A d \in Conn \ {c} : new_line'[d] = new_line[d]
    BY <2>1 DEF StepsOf, DataTypes
  <2>6. \A d \in Conn \ {c} : wr'[d] = wr[d] /\ pos'[d] = pos[d]
    BY <1>1 DEF StepsOf, DataTypes, ReadByte, Device!Read
  <2>7. CASE seen = TRUE
    <3>1. pc'[c] = "send" /\ \A d \in Conn \ {c} : pc'[d] = pc[d]
      BY <2>1, <2>7, MovedPc
    <3> QED  BY <2>5, <2>6, <2>7, <3>1
  <2>8. CASE seen = FALSE
    BY <1>1, <2>1, <2>2, <2>3, <2>5, <2>6, <2>8
  <2> QED  BY <2>4, <2>7, <2>8
<1> HIDE DEF two, found
<1>3. Others(c) /\ File' = File
  BY <1>1, <1>2 DEF Others, File
<1>4. PacketOf(c)' /\ pc[c] # "publish" /\ pc'[c] # "publish"
  BY <1>1, <1>2, SendingPacket DEF Sending
<1>5. ASSUME FileInv, ReplyOf(c) PROVE ReplyOf(c)'
  <2>1. Len(sent[c]) <= Len(File) /\ \A x \in 1 .. Len(sent[c]) : sent[c][x] = File[x]
    BY <1>5 DEF ReplyOf
  <2>2. \A x \in 1 .. Len(wr[c]) : wr[c][x] = File[Len(sent[c]) + x]
    BY <1>1, <1>5 DEF ReplyOf
  <2>3. FileHas(c, end_pos)
    BY <1>1, <1>5 DEF ReplyOf, Sending
  <2>4. pos[c] = Len(sent[c]) + Len(wr[c])
    BY <1>1, <1>5 DEF ReplyOf
  <2>5. pos[c] < Len(File)
    BY <1>1, <1>5 DEF ReplyOf
  <2>6. (new_line[c] => wr[c] = <<>>) /\ (~new_line[c] => sent[c] = <<>>)
    BY <1>1, <1>5 DEF ReplyOf
  <2>7. /\ Len(File) \in Nat /\ Len(sent[c]) \in Nat /\ Len(wr[c]) \in Nat
        /\ sent[c] \in Seq(Symbol) /\ wr[c] \in Seq(Symbol) /\ File \in Seq(Symbol)
        /\ pos[c] \in Nat
    <3>1. DataTypes
      BY DEF StepsOf
    <3>2. File \in Seq(Symbol)
      BY <3>1, FileType
    <3>3. sent[c] \in Seq(Symbol) /\ wr[c] \in Seq(Symbol) /\ pos[c] \in Nat
      BY <3>1 DEF DataTypes
    <3> QED  BY <3>2, <3>3
  <2>8. answer' = <<File[pos[c] + 1]>> /\ pos'[c] = pos[c] + 1
    BY <2>5, ReadDevice, SMTT(30) DEF StepsOf, DataTypes, ReadByte
  <2>9. File[pos[c] + 1] \in Symbol
    BY <2>5, <2>7
  <2>10. /\ Len(wr'[c]) = Len(wr[c]) + 1
         /\ \A x \in 1 .. Len(wr[c]) : wr'[c][x] = wr[c][x]
         /\ wr'[c][Len(wr[c]) + 1] = File[pos[c] + 1]
    BY <1>1, <2>7, <2>8, <2>9 DEF StepsOf, DataTypes
  <2>11. Len(sent[c]) + (Len(wr[c]) + 1) = pos[c] + 1
    <3> DEFINE a == Len(sent[c])
               b == Len(wr[c])
               q == pos[c]
    <3>1. a \in Nat /\ b \in Nat /\ q = a + b
      BY <2>4, <2>7
    <3> HIDE DEF a, b, q
    <3>2. a + (b + 1) = q + 1
      BY <3>1
    <3> QED  BY <3>2 DEF a, b, q
  <2>12. ASSUME NEW x \in 1 .. Len(wr'[c]) PROVE wr'[c][x] = File[Len(sent[c]) + x]
    <3>1. CASE x \in 1 .. Len(wr[c])
      BY <2>2, <2>10, <3>1
    <3>2. CASE x = Len(wr[c]) + 1
      <4>1. Len(sent[c]) + x = pos[c] + 1
        BY <2>11, <3>2
      <4> QED  BY <2>10, <3>2, <4>1
    <3> QED  BY <2>7, <2>10, <3>1, <3>2
  <2>13. pos'[c] = Len(sent[c]) + Len(wr'[c])
    BY <2>8, <2>10, <2>11
  <2>14. pos'[c] <= Len(File)
    BY <2>5, <2>7, <2>8
  <2>15. FileHas(c, end_pos)'
    BY <1>1, <1>3, <2>3 DEF FileHas
  <2>16. CASE pc'[c] = "send"
    BY <1>1, <1>2, <1>3, <2>1, <2>12, <2>13, <2>14, <2>15, <2>16 DEF ReplyOf, Sending, Served
  <2>17. CASE pc'[c] = "read"
    <3>1. sent[c] = <<>>
      <4>1. CASE two
        <5>1. Len(wr[c]) # 0
          BY <2>7, <2>10, <4>1 DEF two
        <5> QED  BY <2>6, <5>1
      <4>2. CASE ~two
        BY <1>2, <2>6, <2>17, <4>2
      <4> QED  BY <4>1, <4>2
    <3>2. Len(sent[c]) = 0 /\ pos'[c] = Len(wr'[c])
      BY <2>7, <2>10, <2>13, <3>1
    <3>3. Len(File) >= 2 /\ File[Len(File)] = NL
      BY <1>5, <2>5, <2>7 DEF FileInv
    <3>4. pos'[c] # Len(File)
      <4> SUFFICES ASSUME Len(wr'[c]) = Len(File) PROVE FALSE
        BY <3>2
      <4>1. two /\ Len(wr'[c]) \in 1 .. Len(wr'[c])
        BY <2>7, <3>3 DEF two
      <4>2. wr'[c][Len(wr'[c])] = File[Len(sent[c]) + Len(wr'[c])]
        BY <2>12, <4>1
      <4>3. Len(sent[c]) + Len(wr'[c]) = Len(File)
        BY <2>7, <3>2
      <4>4. found
        BY <3>3, <4>1, <4>2, <4>3 DEF found, Device!Occurs
      <4> QED  BY <1>2, <2>17, <4>1, <4>4
    <3>5. pos'[c] < Len(File)
      BY <2>7, <2>8, <2>14, <3>4
    <3> QED  BY <1>1, <1>2, <1>3, <2>1, <2>12, <2>13, <2>14, <2>15, <2>17, <3>1, <3>5
             DEF ReplyOf, Sending, Served
  <2> QED  BY <1>2, <2>16, <2>17
<1> QED  BY <1>1, <1>3, <1>4, <1>5, Stepped DEF StepsOf

LEMMA ThreadReply == ASSUME NEW c \in Conn, StepsOf(c), Thread(c) PROVE ReplyInv'
<1>1. ~RecvClosed(c) /\ ~Crash(c)
  BY DEF StepsOf, Quiet, RecvClosed, Crash
<1> QED  BY <1>1, EarlyReply, WriteReply, PublishReply, MoreReply, LockReadReply, ReadReply,
            SendReply, FinishReply DEF Thread

LEMMA MainReply ==
    ASSUME ReplyInv, DataTypes, DataTypes', pc \in [Conn -> ThreadPlaces],
           \/ Main \/ Signal \/ ParentSignal \/ ParentExit \/ AcceptNoMem \/ UNCHANGED vars
           \/ \E c \in Conn : Accept(c)
    PROVE  ReplyInv'
<1>1. UNCHANGED <<thread_complete, owner, end_pos, rd, new_line, wr, sent, lines, partial, pos, answer>>
  BY DEF Main, SetUp, InstallHandlers, InitMutex, Socket, SetSockOpt, Bind, Listen, Call,
         Daemonise, Session, ParentSignal, ParentExit, Threads, While, AcceptFails, Scan, ScanDone,
         Cleanup, Exit, Signal, AcceptNoMem, Accept, bufs, dev, vars
<1>2. pc' = pc \/ \E c \in Conn : pc[c] = "none" /\ pc' = [pc EXCEPT ![c] = "open"]
  BY DEF Main, SetUp, InstallHandlers, InitMutex, Socket, SetSockOpt, Bind, Listen, Call,
         Daemonise, Session, ParentSignal, ParentExit, Threads, While, AcceptFails, Scan, ScanDone,
         Cleanup, Exit, Signal, AcceptNoMem, Accept, bufs, dev, vars
<1>3. CASE pc' = pc
  <2>1. File' = File
    BY <1>1 DEF File
  <2>2. PacketInv => PacketInv'
    BY <1>1, <1>3 DEF PacketInv, PacketOf
  <2>3. FileInv => FileInv'
    BY <1>1, <1>3, FileSame
  <2>4. ASSUME NEW d \in Conn, ReplyOf(d) PROVE ReplyOf(d)'
    BY <1>1, <1>3, <2>1, <2>4 DEF ReplyOf, FileHas
  <2>5. lines' = lines
    BY <1>1
  <2> QED  BY <2>2, <2>3, <2>4, <2>5 DEF ReplyInv
<1>4. ASSUME NEW c \in Conn, pc[c] = "none", pc' = [pc EXCEPT ![c] = "open"] PROVE ReplyInv'
  <2>1. pc'[c] = "open" /\ \A d \in Conn \ {c} : pc'[d] = pc[d]
    BY <1>4
  <2>2. Others(c)
    BY <1>1, <2>1 DEF Others
  <2>3. PacketOf(c) /\ sent'[c] = <<>>
    BY <1>1, <1>4 DEF ReplyInv, PacketInv, PacketOf, Receiving
  <2>4. PacketOf(c)'
    BY <1>1, <1>4, <2>1, <2>3 DEF PacketOf, Receiving, Writing
  <2>5. ReplyOf(c)'
    BY <2>1, <2>3, ReplyEarly DEF Receiving
  <2> QED  BY <1>1, <1>4, <2>1, <2>2, <2>4, <2>5, Stepped
<1> QED  BY <1>2, <1>3, <1>4

LEMMA InitReply == Init => ReplyInv
<1> SUFFICES ASSUME Init PROVE ReplyInv
  OBVIOUS
<1>1. lines = <<>> /\ partial = <<>> /\ end_pos = 0 /\ pos = [c \in Conn |-> 0]
  BY DEF Init, Device!Init
<1>2. Len(File) = 0
  <2>1. IsDevice(lines) /\ Len(lines) = 0
    BY <1>1 DEF IsDevice
  <2>2. PICK f : Concats(f, lines, Len(lines), Symbol) /\ File = f[Len(lines)]
    BY <2>1, FileIs DEF File
  <2>3. File = <<>>
    BY <2>1, <2>2 DEF Concats
  <2> QED  BY <2>3
<1>3. ASSUME NEW c \in Conn
      PROVE  /\ pc[c] = "none" /\ rd[c] = <<>> /\ sent[c] = <<>>
             /\ ~thread_complete[c]
  BY DEF Init
<1>4. PacketInv
  BY <1>1, <1>3 DEF PacketInv, PacketOf, Receiving, Writing
<1>5. FileInv
  BY <1>1, <1>2, <1>3 DEF FileInv
<1>6. ASSUME NEW c \in Conn PROVE ReplyOf(c)
  <2>1. Len(sent[c]) = 0 /\ pc[c] = "none" /\ sent[c] = <<>>
    BY <1>3
  <2> QED  BY <1>2, <2>1 DEF ReplyOf, Sending, Served
<1> QED  BY <1>4, <1>5, <1>6 DEF ReplyInv

(***************************************************************************)
(* While nothing was evicted, no call fails and every packet has a byte    *)
(* before its newline: what a client was sent is the file from its start,  *)
(* and a thread that is complete has sent its client's own packet back;    *)
(* for any number of connections, packets of any length, and any order of  *)
(* the threads (311-395).                                                  *)
(***************************************************************************)
THEOREM RepliesAreTheFile ==
    ASSUME Faults = {}, Chunks \subseteq {"line", "part"}
    PROVE  Spec => []ReplyIsTheFile
<1>0. Quiet
  BY DEF Quiet
<1>1. Init => ReplyInv
  BY InitReply
<1>2. ReplyInv /\ AllInv /\ AllInv' /\ [Next]_vars => ReplyInv'
  <2> SUFFICES ASSUME ReplyInv, AllInv, AllInv', [Next]_vars PROVE ReplyInv'
    OBVIOUS
  <2>1. /\ DataTypes /\ DataTypes' /\ LockInv /\ pc \in [Conn -> ThreadPlaces]
    BY DEF AllInv, DataInv, ServerInv, MainTypes
  <2>2. ASSUME NEW c \in Conn, Thread(c) PROVE ReplyInv'
    BY <1>0, <2>1, <2>2, ThreadReply DEF StepsOf
  <2> QED  BY <2>1, <2>2, MainReply DEF Next
<1>3. ReplyInv /\ AllInv => ReplyIsTheFile
  <2> SUFFICES ASSUME ReplyInv, AllInv, Len(lines) < Lines, NEW c \in Conn
               PROVE  /\ IsPrefixOf(sent[c], File)
                      /\ thread_complete[c] => \E k \in 1 .. Len(sent[c]) : sent[c][k] = c
    BY DEF ReplyIsTheFile
  <2>1. ReplyOf(c) /\ PacketOf(c) /\ DataTypes
    BY DEF ReplyInv, PacketInv, AllInv, DataInv
  <2>2. File \in Seq(Symbol) /\ Len(File) \in Nat /\ sent[c] \in Seq(Symbol)
    BY <2>1, FileType DEF DataTypes
  <2>3. Len(sent[c]) <= Len(File) /\ \A x \in 1 .. Len(sent[c]) : sent[c][x] = File[x]
    BY <2>1 DEF ReplyOf
  <2>4. sent[c] = SubSeq(File, 1, Len(sent[c]))
    BY <2>2, <2>3
  <2>5. thread_complete[c] => \E k \in 1 .. Len(sent[c]) : sent[c][k] = c
    BY <2>1 DEF ReplyOf, PacketOf, Served
  <2> QED  BY <2>3, <2>4, <2>5 DEF IsPrefixOf
<1> QED  BY <1>1, <1>2, <1>3, AllInvariant, PTL DEF Spec
=============================================================================
