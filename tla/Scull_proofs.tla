---------------------------- MODULE Scull_proofs ----------------------------
(***************************************************************************)
(* The bare scull device, for any number of open files, any quanta and set *)
(* sizes, any data and any sizes read, through failed allocations and      *)
(* copies: until a call has run with values from before a trim, nothing is *)
(* used past its end, and the device is a file with holes.                 *)
(***************************************************************************)
EXTENDS Scull, SequenceTheorems, TLAPS

Arrays == Seq(Seq(Byte))
Lists  == Seq(Arrays)

(***************************************************************************)
(* An array with one of the lengths A, of quanta with lengths from B; and a*)
(* list of them.                                                           *)
(***************************************************************************)
FormedArray(a, A, B) ==
    /\ a \in Arrays /\ Len(a) \in A
    /\ \A j \in 1 .. Len(a) : Len(a[j]) \in B

Formed(l, A, B) == l \in Lists /\ \A i \in 1 .. Len(l) : FormedArray(l[i], A, B)

(***************************************************************************)
(* What WellFormed needs in addition: everything in the list is bytes, and *)
(* a device whose quantum or set is nothing has no list, since every call  *)
(* that would make one divides by zero.                                    *)
(***************************************************************************)
Typed  == TypeOK /\ Formed(list, Nat, Quanta \cup {0})
Shaped == Formed(list, {0, qset}, {0, quantum}) /\ (quantum * qset = 0 => list = <<>>)
IInv   == Typed /\ (~stale => ~overrun /\ Shaped)

-----------------------------------------------------------------------------
(***************************************************************************)
(* The arithmetic of scull_read and scull_write: item, rest, s_pos and     *)
(* q_pos are the digits of the position.                                   *)
(***************************************************************************)
LEMMA Division ==
    ASSUME NEW p \in Nat, NEW m \in Nat \ {0}
    PROVE  \E a \in Nat, b \in 0 .. m - 1 : a = p \div m /\ b = p % m /\ p = m * a + b
<1> DEFINE a == p \div m
           b == p % m
<1>1. a \in Nat /\ b \in 0 .. m - 1
  OBVIOUS
<1>2. b = p - m * a
  OBVIOUS
<1>3. a = p \div m /\ b = p % m
  OBVIOUS
<1> HIDE DEF a, b
<1>4. p = m * a + b
  BY <1>1, <1>2
<1> QED  BY <1>1, <1>3, <1>4

LEMMA Digits ==
    ASSUME NEW m \in Nat \ {0}, NEW a \in Nat, NEW b \in 0 .. m - 1
    PROVE  (m * a + b) \div m = a /\ (m * a + b) % m = b
  OBVIOUS

LEMMA Below ==
    ASSUME NEW q \in Nat \ {0}, NEW s \in Nat \ {0}, NEW a \in Nat, NEW b \in Nat,
           q * a + b < q * s
    PROVE  a < s
<1>1. SUFFICES ASSUME a >= s PROVE FALSE
  OBVIOUS
<1>2. PICK d \in Nat : a = s + d
  BY <1>1
<1>3. q * a = q * s + q * d
  BY <1>2
<1>4. q * d \in Nat
  OBVIOUS
<1> QED  BY <1>3, <1>4

LEMMA Within ==
    ASSUME NEW q \in Nat \ {0}, NEW s \in Nat \ {0}, NEW j \in 0 .. s - 1, NEW k \in 0 .. q - 1
    PROVE  q * j + k \in 0 .. q * s - 1
<1>1. PICK d \in Nat : s = j + 1 + d
  OBVIOUS
<1>2. q * s = q * j + q + q * d
  BY <1>1
<1>3. q * d \in Nat /\ q * j \in Nat
  OBVIOUS
<1> QED  BY <1>2, <1>3

LEMMA Positive == ASSUME NEW q \in Nat \ {0}, NEW s \in Nat \ {0} PROVE q * s \in Nat \ {0}
  OBVIOUS

Split(p, q, s, i, j, k) ==
    /\ i \in Nat /\ j \in 0 .. s - 1 /\ k \in 0 .. q - 1
    /\ p = (q * s) * i + (q * j + k)
    /\ Where(p, q, s) = [item |-> i + 1, s_pos |-> j + 1, q_pos |-> k]

LEMMA Splits ==
    ASSUME NEW p \in Nat, NEW q \in Nat \ {0}, NEW s \in Nat \ {0}
    PROVE  \E i, j, k : Split(p, q, s, i, j, k)
<1> DEFINE m == q * s
<1>1. m \in Nat \ {0}
  BY Positive
<1>2. Where(p, q, s) = [item |-> p \div m + 1, s_pos |-> (p % m) \div q + 1, q_pos |-> (p % m) % q]
  BY DEF Where
<1>3. m = q * s
  OBVIOUS
<1> HIDE DEF m
<1>4. PICK i \in Nat, r \in 0 .. m - 1 : i = p \div m /\ r = p % m /\ p = m * i + r
  BY <1>1, Division
<1>5. r \in Nat
  BY <1>1
<1>6. PICK j \in Nat, k \in 0 .. q - 1 : j = r \div q /\ k = r % q /\ r = q * j + k
  BY <1>5, Division
<1>7. j < s
  <2>1. q * j + k < q * s
    BY <1>1, <1>3, <1>4, <1>6
  <2> QED  BY <1>6, <2>1, Below
<1>8. j \in 0 .. s - 1
  BY <1>6, <1>7
<1>9. p = m * i + (q * j + k)
  BY <1>4, <1>6
<1>10. Where(p, q, s) = [item |-> i + 1, s_pos |-> j + 1, q_pos |-> k]
  BY <1>2, <1>4, <1>6
<1>11. Split(p, q, s, i, j, k)
  BY <1>3, <1>4, <1>6, <1>8, <1>9, <1>10 DEF Split
<1> QED  BY <1>11

LEMMA Joins ==
    ASSUME NEW q \in Nat \ {0}, NEW s \in Nat \ {0},
           NEW i \in Nat, NEW j \in 0 .. s - 1, NEW k \in 0 .. q - 1
    PROVE  Where((q * s) * i + (q * j + k), q, s) = [item |-> i + 1, s_pos |-> j + 1, q_pos |-> k]
<1> DEFINE m == q * s
           r == q * j + k
           p == m * i + r
<1>1. m \in Nat \ {0} /\ r \in 0 .. m - 1
  BY Positive, Within
<1>2. r \in Nat /\ r \div q = j /\ r % q = k
  BY Digits
<1>3. Where(p, q, s) = [item |-> p \div m + 1, s_pos |-> (p % m) \div q + 1, q_pos |-> (p % m) % q]
  BY DEF Where
<1> HIDE DEF m, r
<1>4. p \div m = i /\ p % m = r
  BY <1>1, Digits
<1>5. Where(p, q, s) = [item |-> i + 1, s_pos |-> j + 1, q_pos |-> k]
  BY <1>2, <1>3, <1>4
<1> QED  BY <1>5 DEF m, r

LEMMA Positions ==
    ASSUME NEW p \in Nat, NEW q \in Nat \ {0}, NEW s \in Nat \ {0}
    PROVE  /\ Where(p, q, s).item \in Nat \ {0}
           /\ Where(p, q, s).s_pos \in 1 .. s
           /\ Where(p, q, s).q_pos \in 0 .. q - 1
<1>1. PICK i, j, k : Split(p, q, s, i, j, k)
  BY Splits
<1> QED  BY <1>1 DEF Split

(***************************************************************************)
(* Positions of one quantum are as far apart as their offsets in it.       *)
(***************************************************************************)
LEMMA Together ==
    ASSUME NEW p \in Nat, NEW r \in Nat, NEW q \in Nat \ {0}, NEW s \in Nat \ {0},
           Where(p, q, s).item = Where(r, q, s).item, Where(p, q, s).s_pos = Where(r, q, s).s_pos
    PROVE  r - p = Where(r, q, s).q_pos - Where(p, q, s).q_pos
<1>1. PICK i, j, k : Split(p, q, s, i, j, k)
  BY Splits
<1>2. PICK u, v, w : Split(r, q, s, u, v, w)
  BY Splits
<1>3. i + 1 = u + 1 /\ j + 1 = v + 1 /\ Where(p, q, s).q_pos = k /\ Where(r, q, s).q_pos = w
  BY <1>1, <1>2 DEF Split
<1>4. i = u /\ j = v /\ k \in Int /\ w \in Int
  BY <1>1, <1>2, <1>3 DEF Split
<1> DEFINE base == (q * s) * i + q * j
<1>5. base \in Int /\ p = base + k /\ r = base + w
  BY <1>1, <1>2, <1>4 DEF Split
<1> HIDE DEF base
<1> QED  BY <1>3, <1>4, <1>5

LEMMA Further ==
    ASSUME NEW p \in Nat, NEW q \in Nat \ {0}, NEW s \in Nat \ {0}, NEW t \in Nat,
           Where(p, q, s).q_pos + t < q
    PROVE  /\ Where(p + t, q, s).item = Where(p, q, s).item
           /\ Where(p + t, q, s).s_pos = Where(p, q, s).s_pos
           /\ Where(p + t, q, s).q_pos = Where(p, q, s).q_pos + t
<1>1. PICK i, j, k : Split(p, q, s, i, j, k)
  BY Splits
<1>2. i \in Nat /\ j \in 0 .. s - 1 /\ k + t \in 0 .. q - 1
  BY <1>1 DEF Split
<1>3. p + t = (q * s) * i + (q * j + (k + t))
  BY <1>1 DEF Split
<1>4. Where((q * s) * i + (q * j + (k + t)), q, s) =
        [item |-> i + 1, s_pos |-> j + 1, q_pos |-> k + t]
  BY <1>2, Joins, SMTT(30)
<1> QED  BY <1>1, <1>3, <1>4 DEF Split

-----------------------------------------------------------------------------
(***************************************************************************)
(* Lists.                                                                  *)
(***************************************************************************)
LEMMA MadeSeq ==
    ASSUME NEW S, NEW n \in Nat, NEW g \in [1 .. n -> S]
    PROVE  g \in Seq(S) /\ Len(g) = n
  OBVIOUS

LEMMA SubSeqIs ==
    ASSUME NEW S, NEW s \in Seq(S), NEW a \in Nat, NEW c \in Nat, a + c <= Len(s)
    PROVE  /\ SubSeq(s, a + 1, a + c) \in Seq(S) /\ Len(SubSeq(s, a + 1, a + c)) = c
           /\ \A i \in 1 .. c : SubSeq(s, a + 1, a + c)[i] = s[a + i]
  OBVIOUS

LEMMA FollowIs ==
    ASSUME list \in Lists, NEW n \in Nat, NEW l \in Follow(n)
    PROVE  /\ l \in Lists /\ Len(list) <= Len(l)
           /\ \A i \in 1 .. Len(l) : l[i] = IF i <= Len(list) THEN list[i] ELSE <<>>
<1>1. <<>> \in Arrays /\ Len(list) \in Nat /\ \A i \in 1 .. Len(list) : list[i] \in Arrays
  BY DEF Arrays, Lists
<1>2. CASE l = list
  BY <1>1, <1>2
<1>3. CASE l # list
  <2>1. PICK m \in Len(list) + 1 .. n :
          l = [i \in 1 .. m |-> IF i <= Len(list) THEN list[i] ELSE <<>>]
    BY <1>3 DEF Follow
  <2>2. m \in Nat /\ l \in [1 .. m -> Arrays]
    BY <1>1, <2>1
  <2>3. l \in Lists /\ Len(l) = m
    BY <2>2, MadeSeq DEF Lists
  <2> QED  BY <1>1, <2>1, <2>2, <2>3
<1> QED  BY <1>2, <1>3

LEMMA FormedFollow ==
    ASSUME NEW A, NEW B, 0 \in A, Formed(list, A, B), NEW n \in Nat, NEW l \in Follow(n)
    PROVE  Formed(l, A, B)
<1>1. list \in Lists
  BY DEF Formed
<1>2. FormedArray(<<>>, A, B)
  BY DEF FormedArray, Arrays
<1>3. ASSUME NEW i \in 1 .. Len(l) PROVE FormedArray(l[i], A, B)
  <2>1. CASE i <= Len(list)
    <3>1. i \in 1 .. Len(list)
      BY <1>1, <2>1, FollowIs DEF Lists
    <3> QED  BY <1>1, <2>1, <3>1, FollowIs DEF Formed
  <2>2. CASE ~(i <= Len(list))
    BY <1>1, <1>2, <2>2, FollowIs
  <2> QED  BY <2>1, <2>2
<1> QED  BY <1>1, <1>3, FollowIs DEF Formed

LEMMA FormedPut ==
    ASSUME NEW A, NEW B, NEW l, Formed(l, A, B), NEW i \in 1 .. Len(l),
           NEW a, FormedArray(a, A, B)
    PROVE  /\ Formed([l EXCEPT ![i] = a], A, B)
           /\ Len([l EXCEPT ![i] = a]) = Len(l)
           /\ \A n \in 1 .. Len(l) : [l EXCEPT ![i] = a][n] = IF n = i THEN a ELSE l[n]
<1>1. l \in Seq(Arrays) /\ a \in Arrays
  BY DEF Formed, FormedArray, Lists
<1> DEFINE x == [l EXCEPT ![i] = a]
<1>2. /\ x \in Seq(Arrays) /\ Len(x) = Len(l)
      /\ \A n \in 1 .. Len(l) : x[n] = IF n = i THEN a ELSE l[n]
  BY <1>1, ExceptSeq
<1> HIDE DEF x
<1>3. Formed(x, A, B)
  BY <1>2 DEF Formed, Lists
<1> QED  BY <1>2, <1>3 DEF x

LEMMA FormedPutQuantum ==
    ASSUME NEW A, NEW B, NEW a, FormedArray(a, A, B), NEW j \in 1 .. Len(a),
           NEW b \in Seq(Byte), Len(b) \in B
    PROVE  /\ FormedArray([a EXCEPT ![j] = b], A, B)
           /\ Len([a EXCEPT ![j] = b]) = Len(a)
           /\ \A n \in 1 .. Len(a) : [a EXCEPT ![j] = b][n] = IF n = j THEN b ELSE a[n]
<1>1. a \in Seq(Seq(Byte))
  BY DEF FormedArray, Arrays
<1> DEFINE x == [a EXCEPT ![j] = b]
<1>2. /\ x \in Seq(Seq(Byte)) /\ Len(x) = Len(a)
      /\ \A n \in 1 .. Len(a) : x[n] = IF n = j THEN b ELSE a[n]
  BY <1>1, ExceptSeq
<1> HIDE DEF x
<1>3. FormedArray(x, A, B)
  BY <1>2 DEF FormedArray, Arrays
<1> QED  BY <1>2, <1>3 DEF x

-----------------------------------------------------------------------------
(***************************************************************************)
(* scull_write, once scull_follow has given it the list l: the array and   *)
(* the quantum it works on, and what becomes of the list when the quantum  *)
(* is then b.                                                              *)
(***************************************************************************)
ArrayAt(f, l) == IF l[At(f).item] = <<>> THEN [i \in 1 .. arg[f][2] |-> <<>>]
                                        ELSE l[At(f).item]

BlockAt(f, l) == IF ArrayAt(f, l)[At(f).s_pos] = <<>>
                 THEN [i \in 1 .. arg[f][1] |-> Garbage]
                 ELSE ArrayAt(f, l)[At(f).s_pos]

With(f, l, b) == [l EXCEPT ![At(f).item] = [ArrayAt(f, l) EXCEPT ![At(f).s_pos] = b]]

CopyLen(f, d) == Least(Len(d), Room(f))

Quiet == UNCHANGED <<size, f_pos, got, overrun>>

Fits(f, l) == At(f).item <= Len(l) /\ At(f).s_pos <= Len(ArrayAt(f, l))

Overruns(f, l, d) ==
    /\ At(f).item <= Len(l) /\ Overrun
    /\ \/ At(f).s_pos > Len(ArrayAt(f, l))
       \/ Fits(f, l) /\ At(f).q_pos + CopyLen(f, d) > Len(BlockAt(f, l))

Stores(f, l, d, k) ==
    /\ Fits(f, l) /\ k \in 0 .. CopyLen(f, d)
    /\ At(f).q_pos + CopyLen(f, d) <= Len(BlockAt(f, l))
    /\ list' = With(f, l, Patched(BlockAt(f, l), At(f).q_pos, d, k))

Finishes(f, l, d) ==
    /\ Stores(f, l, d, CopyLen(f, d))
    /\ f_pos' = [f_pos EXCEPT ![f] = @ + CopyLen(f, d)]
    /\ size' = GrownSize(f) /\ UNCHANGED <<got, overrun>>

WriteCase(f, l, d) ==
    \/ list' = l /\ Quiet
    \/ Overruns(f, l, d)
    \/ Fits(f, l) /\ ArrayAt(f, l)[At(f).s_pos] = <<>> /\ list' = With(f, l, <<>>) /\ Quiet
    \/ Quiet /\ \E k \in 0 .. CopyLen(f, d) : Stores(f, l, d, k)
    \/ Finishes(f, l, d)

LEMMA Calls ==
    ASSUME Typed, NEW f \in File, Start(f)
    PROVE  /\ arg[f][1] \in Quanta /\ arg[f][2] \in QSets
           /\ arg[f][1] \in Nat \ {0} /\ arg[f][2] \in Nat \ {0}
           /\ At(f).item \in Nat \ {0}
           /\ At(f).s_pos \in 1 .. arg[f][2]
           /\ At(f).q_pos \in 0 .. arg[f][1] - 1
           /\ Room(f) \in 1 .. arg[f][1]
<1>1. arg[f][1] \in Quanta /\ arg[f][2] \in QSets /\ f_pos[f] \in 0 .. MaxPos
  BY DEF Typed, TypeOK
<1>2. arg[f][1] \in Nat /\ arg[f][2] \in Nat /\ f_pos[f] \in Nat
  <2>1. f_pos[f] \in Nat
    BY <1>1, BoundsAssumption
  <2> QED  BY <1>1, <2>1, QuantaAssumption
<1>3. arg[f][1] * arg[f][2] > 0
  BY DEF Start
<1>4. arg[f][1] # 0 /\ arg[f][2] # 0
  <2>1. \A x \in Nat : 0 * x = 0 /\ x * 0 = 0
    OBVIOUS
  <2> QED  BY <1>2, <1>3, <2>1
<1>5. /\ At(f).item \in Nat \ {0}
      /\ At(f).s_pos \in 1 .. arg[f][2]
      /\ At(f).q_pos \in 0 .. arg[f][1] - 1
  BY <1>2, <1>4, Positions DEF At
<1>6. Room(f) \in 1 .. arg[f][1]
  BY <1>2, <1>5 DEF Room
<1> QED  BY <1>1, <1>2, <1>4, <1>5, <1>6

LEMMA WriteIs ==
    ASSUME Typed, NEW f \in File, Write(f)
    PROVE  \E l \in Follow(At(f).item), d \in Data :
              f_pos[f] + Len(d) <= MaxPos /\ WriteCase(f, l, d)
<1>1. PICK l \in Follow(At(f).item), d \in Data :
        /\ f_pos[f] + Len(d) <= MaxPos
        /\ IF Len(l) < At(f).item THEN NoMemory(l)
           ELSE \/ l[At(f).item] = <<>> /\ NoMemory(l)
                \/ At(f).s_pos > Len(ArrayAt(f, l)) /\ Overrun
                \/ /\ At(f).s_pos <= Len(ArrayAt(f, l))
                   /\ \/ ArrayAt(f, l)[At(f).s_pos] = <<>> /\ NoMemory(With(f, l, <<>>))
                      \/ At(f).q_pos + CopyLen(f, d) > Len(BlockAt(f, l)) /\ Overrun
                      \/ /\ At(f).q_pos + CopyLen(f, d) <= Len(BlockAt(f, l))
                         /\ \/ \E k \in 0 .. CopyLen(f, d) - 1 :
                                 NoMemory(With(f, l, Patched(BlockAt(f, l), At(f).q_pos, d, k)))
                            \/ /\ list' = With(f, l, Patched(BlockAt(f, l), At(f).q_pos, d, CopyLen(f, d)))
                               /\ f_pos' = [f_pos EXCEPT ![f] = @ + CopyLen(f, d)]
                               /\ size' = GrownSize(f)
                               /\ UNCHANGED <<got, overrun>>
  BY Zenon DEF Write, ArrayAt, BlockAt, With, CopyLen, QuantumBytes
<1>2. CopyLen(f, d) \in Nat /\ At(f).item \in Nat /\ Len(l) \in Nat
  <2>1. Len(d) \in Nat
    BY DataAssumption
  <2>2. Room(f) \in Nat /\ At(f).item \in Nat
    BY Calls DEF Write
  <2>3. list \in Lists
    BY DEF Typed, Formed
  <2> QED  BY <2>1, <2>2, <2>3, FollowIs DEF CopyLen, Least, Lists
<1>3. WriteCase(f, l, d)
  <2>1. CASE Len(l) < At(f).item
    BY <1>1, <2>1 DEF WriteCase, NoMemory, Quiet
  <2>2. CASE ~(Len(l) < At(f).item)
    <3>1. At(f).item <= Len(l)
      BY <1>2, <2>2
    <3>2. CASE NoMemory(l)
      BY <3>2 DEF WriteCase, NoMemory, Quiet
    <3>3. CASE At(f).s_pos > Len(ArrayAt(f, l)) /\ Overrun
      BY <3>1, <3>3 DEF WriteCase, Overruns
    <3>4. CASE /\ At(f).s_pos <= Len(ArrayAt(f, l))
               /\ ArrayAt(f, l)[At(f).s_pos] = <<>> /\ NoMemory(With(f, l, <<>>))
      BY <3>1, <3>4 DEF WriteCase, NoMemory, Quiet, Fits
    <3>5. CASE /\ At(f).s_pos <= Len(ArrayAt(f, l))
               /\ At(f).q_pos + CopyLen(f, d) > Len(BlockAt(f, l)) /\ Overrun
      BY <3>1, <3>5 DEF WriteCase, Overruns, Fits
    <3>6. CASE /\ At(f).s_pos <= Len(ArrayAt(f, l))
               /\ At(f).q_pos + CopyLen(f, d) <= Len(BlockAt(f, l))
               /\ \E k \in 0 .. CopyLen(f, d) - 1 :
                    NoMemory(With(f, l, Patched(BlockAt(f, l), At(f).q_pos, d, k)))
      <4>1. PICK k \in 0 .. CopyLen(f, d) - 1 :
              NoMemory(With(f, l, Patched(BlockAt(f, l), At(f).q_pos, d, k)))
        BY <3>6
      <4>2. k \in 0 .. CopyLen(f, d)
        BY <1>2
      <4>3. Stores(f, l, d, k) /\ Quiet
        BY <3>1, <3>6, <4>1, <4>2 DEF Stores, NoMemory, Quiet, Fits
      <4> QED  BY <4>2, <4>3 DEF WriteCase
    <3>7. CASE /\ At(f).s_pos <= Len(ArrayAt(f, l))
               /\ At(f).q_pos + CopyLen(f, d) <= Len(BlockAt(f, l))
               /\ list' = With(f, l, Patched(BlockAt(f, l), At(f).q_pos, d, CopyLen(f, d)))
               /\ f_pos' = [f_pos EXCEPT ![f] = @ + CopyLen(f, d)]
               /\ size' = GrownSize(f)
               /\ UNCHANGED <<got, overrun>>
      <4>1. CopyLen(f, d) \in 0 .. CopyLen(f, d)
        BY <1>2
      <4> QED  BY <3>1, <3>7, <4>1 DEF WriteCase, Finishes, Stores, Fits
    <3> QED  BY <1>1, <2>2, <3>2, <3>3, <3>4, <3>5, <3>6, <3>7, Zenon
  <2> QED  BY <2>1, <2>2
<1> QED  BY <1>1, <1>3

(***************************************************************************)
(* The array and the quantum a write works on have the lengths that those  *)
(* in the list have, and those its call has read.                          *)
(***************************************************************************)
LEMMA ArrayNew ==
    ASSUME NEW f \in File, arg[f][2] \in Nat, NEW l, l[At(f).item] = <<>>
    PROVE  /\ ArrayAt(f, l) \in Arrays /\ Len(ArrayAt(f, l)) = arg[f][2]
           /\ \A j \in 1 .. arg[f][2] : ArrayAt(f, l)[j] = <<>>
<1> DEFINE a == [i \in 1 .. arg[f][2] |-> <<>>]
<1>1. <<>> \in Seq(Byte)
  OBVIOUS
<1>2. a \in [1 .. arg[f][2] -> Seq(Byte)]
  BY <1>1
<1>3. \A j \in 1 .. arg[f][2] : a[j] = <<>>
  OBVIOUS
<1>4. ArrayAt(f, l) = a
  BY DEF ArrayAt
<1> HIDE DEF a
<1>5. a \in Seq(Seq(Byte)) /\ Len(a) = arg[f][2]
  BY <1>2, MadeSeq
<1> QED  BY <1>3, <1>4, <1>5 DEF Arrays

LEMMA ArrayFormed ==
    ASSUME NEW A, NEW B, 0 \in B, NEW f \in File, arg[f][2] \in Nat, arg[f][2] \in A,
           NEW l, Formed(l, A, B), At(f).item \in 1 .. Len(l)
    PROVE  FormedArray(ArrayAt(f, l), A, B)
<1>1. CASE l[At(f).item] = <<>>
  BY <1>1, ArrayNew DEF FormedArray
<1>2. CASE l[At(f).item] # <<>>
  BY <1>2 DEF ArrayAt, Formed
<1> QED  BY <1>1, <1>2

LEMMA BlockNew ==
    ASSUME NEW f \in File, arg[f][1] \in Nat, NEW l, ArrayAt(f, l)[At(f).s_pos] = <<>>
    PROVE  /\ BlockAt(f, l) \in Seq(Byte) /\ Len(BlockAt(f, l)) = arg[f][1]
           /\ \A i \in 1 .. arg[f][1] : BlockAt(f, l)[i] = Garbage
<1> DEFINE b == [i \in 1 .. arg[f][1] |-> Garbage]
<1>1. Garbage \in Byte
  BY Zenon DEF Byte
<1>2. b \in [1 .. arg[f][1] -> Byte]
  BY <1>1
<1>3. \A i \in 1 .. arg[f][1] : b[i] = Garbage
  OBVIOUS
<1>4. BlockAt(f, l) = b
  BY DEF BlockAt
<1> HIDE DEF b
<1>5. b \in Seq(Byte) /\ Len(b) = arg[f][1]
  BY <1>2, MadeSeq
<1> QED  BY <1>3, <1>4, <1>5

LEMMA BlockFormed ==
    ASSUME NEW A, NEW B, NEW f \in File, arg[f][1] \in Nat, arg[f][1] \in B,
           NEW l, FormedArray(ArrayAt(f, l), A, B), At(f).s_pos \in 1 .. Len(ArrayAt(f, l))
    PROVE  BlockAt(f, l) \in Seq(Byte) /\ Len(BlockAt(f, l)) \in B
<1>1. CASE ArrayAt(f, l)[At(f).s_pos] = <<>>
  BY <1>1, BlockNew
<1>2. CASE ArrayAt(f, l)[At(f).s_pos] # <<>>
  BY <1>2 DEF BlockAt, FormedArray, Arrays
<1> QED  BY <1>1, <1>2

PatchByte(b, at, d, k, i) == IF i \in at + 1 .. at + k THEN d[i - at] ELSE b[i]

LEMMA PatchedIs ==
    ASSUME NEW b \in Seq(Byte), NEW at \in Nat, NEW d \in Data, NEW k \in 0 .. Len(d),
           at + k <= Len(b)
    PROVE  /\ Patched(b, at, d, k) \in Seq(Byte) /\ Len(Patched(b, at, d, k)) = Len(b)
           /\ \A i \in 1 .. Len(b) :
                Patched(b, at, d, k)[i] = PatchByte(b, at, d, k, i)
<1> DEFINE x == [i \in 1 .. Len(b) |-> IF i \in at + 1 .. at + k THEN d[i - at] ELSE b[i]]
<1>1. d \in Seq(Byte) /\ Len(d) \in Nat /\ Len(b) \in Nat
  BY DataAssumption
<1>2. ASSUME NEW i \in 1 .. Len(b)
      PROVE  (IF i \in at + 1 .. at + k THEN d[i - at] ELSE b[i]) \in Byte
  <2>1. CASE i \in at + 1 .. at + k
    <3>1. i - at \in 1 .. Len(d)
      BY <1>1, <2>1
    <3>2. d[i - at] \in Byte
      BY <1>1, <3>1, ElementOfSeq
    <3> QED  BY <2>1, <3>2
  <2>2. CASE i \notin at + 1 .. at + k
    BY <2>2, ElementOfSeq
  <2> QED  BY <2>1, <2>2
<1>3. x \in [1 .. Len(b) -> Byte]
  BY <1>2
<1>4. \A i \in 1 .. Len(b) : x[i] = IF i \in at + 1 .. at + k THEN d[i - at] ELSE b[i]
  OBVIOUS
<1>5. Patched(b, at, d, k) = x
  BY DEF Patched
<1> HIDE DEF x
<1>6. x \in Seq(Byte) /\ Len(x) = Len(b)
  BY <1>1, <1>3, MadeSeq
<1> QED  BY <1>4, <1>5, <1>6 DEF PatchByte

LEMMA WithFormed ==
    ASSUME Typed, NEW f \in File, Start(f), NEW A, NEW B, 0 \in A, 0 \in B,
           arg[f][2] \in A, arg[f][1] \in B,
           NEW l, Formed(l, A, B), Fits(f, l), NEW b \in Seq(Byte), Len(b) \in B
    PROVE  Formed(With(f, l, b), A, B)
<1>1. At(f).item \in 1 .. Len(l)
  <2>1. Len(l) \in Nat
    BY DEF Formed, Lists
  <2> QED  BY <2>1, Calls DEF Fits
<1>2. FormedArray(ArrayAt(f, l), A, B)
  BY <1>1, Calls, ArrayFormed
<1>3. At(f).s_pos \in 1 .. Len(ArrayAt(f, l))
  <2>1. Len(ArrayAt(f, l)) \in Nat
    BY <1>2 DEF FormedArray, Arrays
  <2> QED  BY <2>1, Calls DEF Fits
<1>4. FormedArray([ArrayAt(f, l) EXCEPT ![At(f).s_pos] = b], A, B)
  BY <1>2, <1>3, FormedPutQuantum
<1> QED  BY <1>1, <1>4, FormedPut DEF With

LEMMA CopyLenIs ==
    ASSUME Typed, NEW f \in File, Start(f), NEW d \in Data
    PROVE  /\ CopyLen(f, d) \in 0 .. Len(d) /\ CopyLen(f, d) <= Room(f)
           /\ CopyLen(f, d) = 0 => Len(d) = 0
<1>1. Len(d) \in Nat /\ Room(f) \in Nat \ {0}
  BY Calls, DataAssumption
<1> QED  BY <1>1 DEF CopyLen, Least

LEMMA StoresIs ==
    ASSUME Typed, NEW f \in File, Start(f), NEW A, NEW B, 0 \in B,
           arg[f][2] \in A, arg[f][1] \in B,
           NEW l, Formed(l, A, B), NEW d \in Data, NEW k, Stores(f, l, d, k)
    PROVE  /\ At(f).item \in 1 .. Len(l)
           /\ FormedArray(ArrayAt(f, l), A, B)
           /\ At(f).s_pos \in 1 .. Len(ArrayAt(f, l))
           /\ BlockAt(f, l) \in Seq(Byte) /\ Len(BlockAt(f, l)) \in B
           /\ k \in 0 .. Len(d) /\ k <= Room(f) /\ At(f).q_pos + k <= Len(BlockAt(f, l))
<1>1. At(f).item \in 1 .. Len(l)
  <2>1. Len(l) \in Nat
    BY DEF Formed, Lists
  <2> QED  BY <2>1, Calls DEF Fits, Stores
<1>2. FormedArray(ArrayAt(f, l), A, B)
  BY <1>1, Calls, ArrayFormed
<1>3. At(f).s_pos \in 1 .. Len(ArrayAt(f, l))
  <2>1. Len(ArrayAt(f, l)) \in Nat
    BY <1>2 DEF FormedArray, Arrays
  <2> QED  BY <2>1, Calls DEF Fits, Stores
<1>4. BlockAt(f, l) \in Seq(Byte) /\ Len(BlockAt(f, l)) \in B
  BY <1>2, <1>3, Calls, BlockFormed
<1>5. k \in 0 .. Len(d) /\ k <= Room(f) /\ At(f).q_pos + k <= Len(BlockAt(f, l))
  <2>1. /\ k \in 0 .. CopyLen(f, d) /\ CopyLen(f, d) \in 0 .. Len(d) /\ CopyLen(f, d) <= Room(f)
        /\ At(f).q_pos + CopyLen(f, d) <= Len(BlockAt(f, l))
    BY CopyLenIs DEF Stores
  <2>2. Len(d) \in Nat /\ Room(f) \in Nat /\ At(f).q_pos \in Nat /\ Len(BlockAt(f, l)) \in Nat
    BY <1>4, Calls, DataAssumption
  <2> QED  BY <2>1, <2>2
<1> QED  BY <1>1, <1>2, <1>3, <1>4, <1>5

(***************************************************************************)
(* A write keeps the lengths of arrays and quanta, if its call's parameters*)
(* are among them.                                                         *)
(***************************************************************************)
LEMMA WriteForms ==
    ASSUME Typed, NEW f \in File, Write(f), NEW A, NEW B, 0 \in A, 0 \in B,
           arg[f][2] \in A, arg[f][1] \in B, Formed(list, A, B)
    PROVE  Formed(list', A, B)
<1>1. Start(f)
  BY DEF Write
<1>2. PICK l \in Follow(At(f).item), d \in Data : WriteCase(f, l, d)
  BY WriteIs
<1>3. Formed(l, A, B)
  BY <1>1, Calls, FormedFollow
<1>4. CASE list' = l
  BY <1>3, <1>4
<1>5. CASE Overruns(f, l, d)
  BY <1>5 DEF Overruns, Overrun
<1>6. CASE Fits(f, l) /\ list' = With(f, l, <<>>)
  <2>1. <<>> \in Seq(Byte) /\ Len(<<>>) = 0
    OBVIOUS
  <2> QED  BY <1>1, <1>3, <1>6, <2>1, WithFormed
<1>7. ASSUME NEW k, Stores(f, l, d, k) PROVE Formed(list', A, B)
  <2>0. At(f).q_pos \in Nat
    BY <1>1, Calls
  <2>1. /\ At(f).item \in 1 .. Len(l)
        /\ FormedArray(ArrayAt(f, l), A, B)
        /\ At(f).s_pos \in 1 .. Len(ArrayAt(f, l))
        /\ BlockAt(f, l) \in Seq(Byte) /\ Len(BlockAt(f, l)) \in B
        /\ k \in 0 .. Len(d) /\ k <= Room(f) /\ At(f).q_pos + k <= Len(BlockAt(f, l))
    BY <1>1, <1>3, <1>7, StoresIs
  <2> DEFINE b == Patched(BlockAt(f, l), At(f).q_pos, d, k)
  <2>2. b \in Seq(Byte) /\ Len(b) \in B
    BY <2>0, <2>1, PatchedIs
  <2>3. Fits(f, l) /\ list' = With(f, l, b)
    BY <1>7 DEF Stores
  <2> HIDE DEF b
  <2> QED  BY <1>1, <1>3, <2>2, <2>3, WithFormed
<1> QED  BY <1>2, <1>4, <1>5, <1>6, <1>7 DEF WriteCase, Finishes

(***************************************************************************)
(* A call whose parameters are the device's finds, or makes, arrays and    *)
(* quanta of their full lengths.                                           *)
(***************************************************************************)
LEMMA FollowShaped ==
    ASSUME Typed, Shaped, NEW f \in File, Start(f), NEW l \in Follow(At(f).item),
           NEW A, A = {0, qset}, NEW B, B = {0, quantum}
    PROVE  Formed(l, A, B)
<1>1. Formed(list, A, B) /\ 0 \in A
  BY DEF Shaped
<1> QED  BY <1>1, Calls, FormedFollow

LEMMA ShapedWrite ==
    ASSUME Typed, Shaped, NEW f \in File, Start(f), arg[f] = <<quantum, qset>>,
           NEW l \in Follow(At(f).item), At(f).item <= Len(l)
    PROVE  /\ l \in Lists /\ At(f).item \in 1 .. Len(l)
           /\ ArrayAt(f, l) \in Arrays /\ Len(ArrayAt(f, l)) = qset
           /\ At(f).s_pos \in 1 .. Len(ArrayAt(f, l))
           /\ BlockAt(f, l) \in Seq(Byte) /\ Len(BlockAt(f, l)) = quantum
<1> SUFFICES ASSUME NEW A, A = {0, qset}, NEW B, B = {0, quantum}
             PROVE  /\ l \in Lists /\ At(f).item \in 1 .. Len(l)
                    /\ ArrayAt(f, l) \in Arrays /\ Len(ArrayAt(f, l)) = qset
                    /\ At(f).s_pos \in 1 .. Len(ArrayAt(f, l))
                    /\ BlockAt(f, l) \in Seq(Byte) /\ Len(BlockAt(f, l)) = quantum
  OBVIOUS
<1>1. Formed(l, A, B) /\ arg[f][2] = qset /\ arg[f][1] = quantum
  BY FollowShaped
<1>2. 0 \in A /\ 0 \in B /\ arg[f][2] \in A /\ arg[f][1] \in B
  BY <1>1
<1>3. \A n : n \in A /\ n # 0 => n = qset
  OBVIOUS
<1>4. \A n : n \in B /\ n # 0 => n = quantum
  OBVIOUS
<1>5. l \in Lists
  BY <1>1 DEF Formed
<1>6. At(f).item \in 1 .. Len(l)
  <2>1. Len(l) \in Nat
    BY <1>5 DEF Lists
  <2> QED  BY <2>1, Calls
<1>7. FormedArray(ArrayAt(f, l), A, B) /\ arg[f][2] \in Nat /\ arg[f][1] \in Nat
  <2>1. arg[f][2] \in Nat /\ arg[f][1] \in Nat
    BY Calls
  <2> QED  BY <1>1, <1>2, <1>6, <2>1, ArrayFormed
<1>8. Len(ArrayAt(f, l)) = qset
  <2>1. CASE l[At(f).item] # <<>>
    <3>1. ArrayAt(f, l) = l[At(f).item]
      BY <2>1 DEF ArrayAt
    <3>2. Len(ArrayAt(f, l)) # 0
      BY <1>7, <2>1, <3>1 DEF FormedArray, Arrays
    <3> QED  BY <1>3, <1>7, <3>2 DEF FormedArray
  <2> QED  BY <1>1, <1>7, <2>1, ArrayNew
<1>9. At(f).s_pos \in 1 .. Len(ArrayAt(f, l))
  BY <1>1, <1>8, Calls
<1>10. BlockAt(f, l) \in Seq(Byte) /\ Len(BlockAt(f, l)) \in B
  BY <1>2, <1>7, <1>9, BlockFormed
<1>11. Len(BlockAt(f, l)) = quantum
  <2>1. CASE ArrayAt(f, l)[At(f).s_pos] # <<>>
    <3>1. BlockAt(f, l) = ArrayAt(f, l)[At(f).s_pos]
      BY <2>1 DEF BlockAt
    <3>2. Len(BlockAt(f, l)) # 0
      BY <1>10, <2>1, <3>1
    <3> QED  BY <1>4, <1>10, <3>2
  <2> QED  BY <1>1, <1>7, <2>1, BlockNew
<1>12. ArrayAt(f, l) \in Arrays
  BY <1>7 DEF FormedArray
<1> QED  BY <1>5, <1>6, <1>8, <1>9, <1>10, <1>11, <1>12

(***************************************************************************)
(* So it uses nothing past its end.                                        *)
(***************************************************************************)
LEMMA WriteStays ==
    ASSUME Typed, Shaped, NEW f \in File, Start(f), arg[f] = <<quantum, qset>>,
           NEW l \in Follow(At(f).item), NEW d \in Data
    PROVE  ~Overruns(f, l, d)
<1> SUFFICES ASSUME Overruns(f, l, d) PROVE FALSE
  OBVIOUS
<1>1. At(f).item <= Len(l) /\ arg[f][2] = qset /\ arg[f][1] = quantum
  BY DEF Overruns
<1>2. /\ Len(ArrayAt(f, l)) = qset /\ Len(BlockAt(f, l)) = quantum
      /\ At(f).s_pos \in 1 .. Len(ArrayAt(f, l))
  BY <1>1, ShapedWrite
<1>3. qset \in Nat /\ quantum \in Nat /\ At(f).q_pos \in Nat /\ Room(f) = quantum - At(f).q_pos
  BY <1>1, Calls DEF Room
<1>4. At(f).q_pos + CopyLen(f, d) <= quantum /\ CopyLen(f, d) \in Nat
  BY <1>3, Calls, CopyLenIs, DataAssumption
<1>5. ~(At(f).s_pos > Len(ArrayAt(f, l)))
  BY <1>2, <1>3
<1>6. ~(At(f).q_pos + CopyLen(f, d) > Len(BlockAt(f, l)))
  BY <1>2, <1>3, <1>4
<1> QED  BY <1>5, <1>6 DEF Overruns

-----------------------------------------------------------------------------
(***************************************************************************)
(* scull_read, of n bytes, once scull_follow has given it the list l.      *)
(***************************************************************************)
ReadLen(f, n)   == Least(Least(n, size - f_pos[f]), Room(f))
Source(f, l)    == l[At(f).item][At(f).s_pos]
HasArray(f, l)  == ~(Len(l) < At(f).item) /\ l[At(f).item] # <<>>
HasSource(f, l) ==
    HasArray(f, l) /\ ~(At(f).s_pos > Len(l[At(f).item])) /\ Source(f, l) # <<>>

ReadsPast(f, l, n) ==
    \/ HasArray(f, l) /\ At(f).s_pos > Len(l[At(f).item])
    \/ HasSource(f, l) /\ At(f).q_pos + ReadLen(f, n) > Len(Source(f, l))

Takes(f, l, n) ==
    /\ HasSource(f, l) /\ ~(At(f).q_pos + ReadLen(f, n) > Len(Source(f, l)))
    /\ UNCHANGED <<size, overrun>>
    /\ \/ /\ got' = SubSeq(Source(f, l), At(f).q_pos + 1, At(f).q_pos + ReadLen(f, n))
          /\ f_pos' = [f_pos EXCEPT ![f] = @ + ReadLen(f, n)]
       \/ UNCHANGED <<got, f_pos>>

FindsHole(f, l) ==
    \/ Len(l) < At(f).item \/ l[At(f).item] = <<>>
    \/ HasArray(f, l) /\ ~(At(f).s_pos > Len(l[At(f).item])) /\ Source(f, l) = <<>>

ReadCase(f, l, n) ==
    \/ list' = l /\ Nothing /\ FindsHole(f, l)
    \/ Overrun /\ ReadsPast(f, l, n)
    \/ list' = l /\ Takes(f, l, n)

LEMMA ReadIs ==
    ASSUME NEW f \in File, Read(f)
    PROVE  \/ f_pos[f] >= size /\ Nothing /\ UNCHANGED list
           \/ /\ ~(f_pos[f] >= size)
              /\ \E l \in Follow(At(f).item), n \in Count : ReadCase(f, l, n)
<1>1. CASE f_pos[f] >= size
  BY <1>1 DEF Read
<1>2. CASE ~(f_pos[f] >= size)
  <2>1. PICK l \in Follow(At(f).item), n \in Count :
          IF Len(l) < At(f).item \/ l[At(f).item] = <<>>
          THEN Nothing /\ list' = l
          ELSE IF At(f).s_pos > Len(l[At(f).item]) THEN Overrun
          ELSE IF Source(f, l) = <<>> THEN Nothing /\ list' = l
          ELSE IF At(f).q_pos + ReadLen(f, n) > Len(Source(f, l)) THEN Overrun
          ELSE /\ list' = l
               /\ \/ /\ got' = SubSeq(Source(f, l), At(f).q_pos + 1,
                                       At(f).q_pos + ReadLen(f, n))
                     /\ f_pos' = [f_pos EXCEPT ![f] = @ + ReadLen(f, n)]
                  \/ UNCHANGED <<got, f_pos>>
               /\ UNCHANGED <<size, overrun>>
    BY <1>2, Zenon DEF Read, Source, ReadLen
  <2>2. CASE Len(l) < At(f).item \/ l[At(f).item] = <<>>
    BY <1>2, <2>1, <2>2 DEF ReadCase, FindsHole
  <2>3. CASE HasArray(f, l) /\ At(f).s_pos > Len(l[At(f).item])
    BY <1>2, <2>1, <2>3 DEF ReadCase, ReadsPast, HasArray
  <2>4. CASE HasArray(f, l) /\ ~(At(f).s_pos > Len(l[At(f).item]))
    <3>1. CASE Source(f, l) = <<>>
      BY <1>2, <2>1, <2>4, <3>1 DEF ReadCase, FindsHole, HasArray
    <3>2. CASE Source(f, l) # <<>>
      <4>1. HasSource(f, l)
        BY <2>4, <3>2 DEF HasSource
      <4>2. CASE At(f).q_pos + ReadLen(f, n) > Len(Source(f, l))
        BY <1>2, <2>1, <2>4, <3>2, <4>1, <4>2 DEF ReadCase, ReadsPast, HasArray
      <4>3. CASE ~(At(f).q_pos + ReadLen(f, n) > Len(Source(f, l)))
        BY <1>2, <2>1, <2>4, <3>2, <4>1, <4>3 DEF ReadCase, Takes, HasArray
      <4> QED  BY <4>2, <4>3
    <3> QED  BY <3>1, <3>2
  <2> QED  BY <2>2, <2>3, <2>4 DEF HasArray
<1> QED  BY <1>1, <1>2

LEMMA ReadLenIs ==
    ASSUME Typed, NEW f \in File, Start(f), ~(f_pos[f] >= size), NEW n \in Count
    PROVE  /\ ReadLen(f, n) \in Nat /\ ReadLen(f, n) <= n /\ f_pos[f] + ReadLen(f, n) <= size
           /\ ReadLen(f, n) <= Room(f) /\ (ReadLen(f, n) = 0 => n = 0)
           /\ f_pos[f] \in Nat /\ size \in Nat /\ n \in Nat /\ size <= MaxPos /\ MaxPos \in Nat
<1>1. f_pos[f] \in 0 .. MaxPos /\ size \in 0 .. MaxPos
  BY DEF Typed, TypeOK
<1>2. f_pos[f] \in Nat /\ size \in Nat /\ n \in Nat /\ size <= MaxPos /\ MaxPos \in Nat
  BY <1>1, BoundsAssumption
<1>3. Room(f) \in Nat \ {0}
  BY Calls
<1> QED  BY <1>2, <1>3 DEF ReadLen, Least

(***************************************************************************)
(* A read whose parameters are the device's finds arrays and quanta of     *)
(* their full lengths, too, and uses nothing past its end.                 *)
(***************************************************************************)
LEMMA ShapedRead ==
    ASSUME Typed, Shaped, NEW f \in File, Start(f), arg[f] = <<quantum, qset>>,
           NEW l \in Follow(At(f).item), HasArray(f, l)
    PROVE  /\ At(f).item \in 1 .. Len(l) /\ l[At(f).item] \in Arrays
           /\ Len(l[At(f).item]) = qset /\ At(f).s_pos \in 1 .. qset
           /\ Source(f, l) \in Seq(Byte)
           /\ Source(f, l) # <<>> => Len(Source(f, l)) = quantum
<1> SUFFICES ASSUME NEW A, A = {0, qset}, NEW B, B = {0, quantum}
             PROVE  /\ At(f).item \in 1 .. Len(l) /\ l[At(f).item] \in Arrays
                    /\ Len(l[At(f).item]) = qset /\ At(f).s_pos \in 1 .. qset
                    /\ Source(f, l) \in Seq(Byte)
                    /\ Source(f, l) # <<>> => Len(Source(f, l)) = quantum
  OBVIOUS
<1>1. Formed(l, A, B) /\ arg[f][2] = qset
  BY FollowShaped
<1>2. At(f).item \in 1 .. Len(l)
  <2>1. Len(l) \in Nat
    BY <1>1 DEF Formed, Lists
  <2> QED  BY <2>1, Calls DEF HasArray
<1>3. FormedArray(l[At(f).item], A, B)
  BY <1>1, <1>2 DEF Formed
<1>4. Len(l[At(f).item]) = qset
  <2>1. Len(l[At(f).item]) # 0
    BY <1>3 DEF HasArray, FormedArray, Arrays
  <2> QED  BY <1>3, <2>1 DEF FormedArray
<1>5. At(f).s_pos \in 1 .. qset
  BY <1>1, Calls
<1>6. Source(f, l) \in Seq(Byte) /\ Len(Source(f, l)) \in B
  BY <1>3, <1>4, <1>5 DEF FormedArray, Arrays, Source
<1>7. Source(f, l) # <<>> => Len(Source(f, l)) # 0
  BY <1>6
<1>8. l[At(f).item] \in Arrays
  BY <1>3 DEF FormedArray
<1> QED  BY <1>2, <1>4, <1>5, <1>6, <1>7, <1>8

LEMMA ReadStays ==
    ASSUME Typed, Shaped, NEW f \in File, Start(f), arg[f] = <<quantum, qset>>,
           ~(f_pos[f] >= size), NEW l \in Follow(At(f).item), NEW n \in Count
    PROVE  ~ReadsPast(f, l, n)
<1> SUFFICES ASSUME ReadsPast(f, l, n) PROVE FALSE
  OBVIOUS
<1>1. HasArray(f, l)
  BY DEF ReadsPast, HasSource
<1>2. /\ Len(l[At(f).item]) = qset /\ At(f).s_pos \in 1 .. qset
      /\ Source(f, l) # <<>> => Len(Source(f, l)) = quantum
  BY <1>1, ShapedRead
<1>3. /\ qset \in Nat /\ quantum \in Nat /\ At(f).q_pos \in Nat
      /\ Room(f) = quantum - At(f).q_pos
  BY Calls DEF Room
<1>4. ReadLen(f, n) \in Nat /\ ReadLen(f, n) <= Room(f)
  BY ReadLenIs
<1>5. ~(At(f).s_pos > Len(l[At(f).item]))
  BY <1>2, <1>3
<1>6. HasSource(f, l) /\ At(f).q_pos + ReadLen(f, n) > quantum
  BY <1>2, <1>5 DEF ReadsPast, HasSource
<1> QED  BY <1>3, <1>4, <1>6

-----------------------------------------------------------------------------
(***************************************************************************)
(* The invariant.                                                          *)
(***************************************************************************)
LEMMA InitInv == Init => IInv
<1> SUFFICES ASSUME Init PROVE IInv
  OBVIOUS
<1>1. list = <<>> /\ \A A, B : Formed(list, A, B)
  BY DEF Init, Formed, Lists
<1>2. TypeOK
  <2>1. 0 \in 0 .. MaxPos
    BY BoundsAssumption
  <2>2. \A i \in 1 .. Len(list) : \A j \in 1 .. Len(list[i]) : Len(list[i][j]) \in Quanta \cup {0}
    BY <1>1
  <2> QED  BY <2>1, <2>2 DEF Init, TypeOK
<1>3. ~overrun
  BY DEF Init
<1> QED  BY <1>1, <1>2, <1>3 DEF IInv, Typed, Shaped

Moves(f) == Open(f) \/ Release(f) \/ Llseek(f) \/ Call(f) \/ Interrupted(f)

LEMMA TypedQuanta ==
    ASSUME NEW l, Formed(l, Nat, Quanta \cup {0})
    PROVE  \A i \in 1 .. Len(l) : \A j \in 1 .. Len(l[i]) : Len(l[i][j]) \in Quanta \cup {0}
  BY DEF Formed, FormedArray

LEMMA MovesInv == ASSUME IInv, NEW f \in File, Moves(f) PROVE IInv'
<1> USE DEF Go
<1>1. TypeOK /\ stale' = stale /\ overrun' = overrun /\ MaxPos \in Nat
  BY BoundsAssumption DEF IInv, Typed, Moves, Open, Release, Llseek, Call, Interrupted
<1>2. CASE Open(f) /\ Trim
  <2>1. list' = <<>> /\ \A A, B : Formed(list', A, B)
    BY <1>2 DEF Trim, Trimmed, Formed, Lists
  <2>2. TypeOK'
    <3>1. 0 \in 0 .. MaxPos
      BY <1>1
    <3>2. \A i \in 1 .. Len(list') : \A j \in 1 .. Len(list'[i]) :
            Len(list'[i][j]) \in Quanta \cup {0}
      BY <2>1
    <3> QED  BY <1>1, <1>2, <3>1, <3>2 DEF TypeOK, Open, Trim, params
  <2> QED  BY <1>1, <2>1, <2>2 DEF IInv, Typed, Shaped
<1>3. CASE UNCHANGED dev
  <2>1. TypeOK'
    <3>1. CASE Open(f) \/ Interrupted(f)
      BY <1>1, <1>3, <3>1 DEF TypeOK, Open, Interrupted, dev, params
    <3>2. CASE Release(f)
      <4>1. 0 \in 0 .. MaxPos
        BY <1>1
      <4> QED  BY <1>1, <1>3, <3>2, <4>1 DEF TypeOK, Release, dev, params
    <3>3. CASE Llseek(f)
      <4>1. PICK p \in 0 .. MaxPos - 1 : f_pos' = [f_pos EXCEPT ![f] = p]
        BY <3>3 DEF Llseek
      <4>2. p \in 0 .. MaxPos
        BY <1>1
      <4> QED  BY <1>1, <1>3, <3>3, <4>1, <4>2 DEF TypeOK, Llseek, dev, params
    <3>4. CASE Call(f)
      BY <1>1, <1>3, <3>4 DEF TypeOK, Call, dev, params
    <3> QED  BY <1>2, <3>1, <3>2, <3>3, <3>4 DEF Moves
  <2> QED  BY <1>1, <1>3, <2>1 DEF IInv, Typed, Shaped, dev
<1> QED  BY <1>2, <1>3 DEF Moves, Open, Release, Llseek, Call, Interrupted

(***************************************************************************)
(* What a call under the mutex has to show.                                *)
(***************************************************************************)
LEMMA CallInv ==
    ASSUME IInv, NEW f \in File, Start(f),
           Formed(list', Nat, Quanta \cup {0}),
           size' \in 0 .. MaxPos, f_pos' \in [File -> 0 .. MaxPos], overrun' \in BOOLEAN,
           ~stale' => ~overrun' /\ Formed(list', {0, qset}, {0, quantum})
    PROVE  IInv'
<1>1. TypeOK /\ overrun \in BOOLEAN
  BY DEF IInv, Typed, TypeOK
<1>2. \A i \in 1 .. Len(list') : \A j \in 1 .. Len(list'[i]) : Len(list'[i][j]) \in Quanta \cup {0}
  BY TypedQuanta
<1>3. TypeOK'
  BY <1>1, <1>2 DEF TypeOK, Start, Go, params
<1>4. quantum' = quantum /\ qset' = qset /\ (quantum * qset # 0 \/ stale')
  <2>1. arg[f][1] * arg[f][2] # 0
    <3>1. arg[f][1] * arg[f][2] > 0
      BY DEF Start
    <3>2. \A x \in Nat : x > 0 => x # 0
      OBVIOUS
    <3>3. arg[f][1] \in Nat /\ arg[f][2] \in Nat
      BY Calls DEF IInv
    <3> QED  BY <3>1, <3>2, <3>3
  <2>2. stale' \/ arg[f] = <<quantum, qset>>
    BY DEF Start
  <2> QED  BY <2>1, <2>2 DEF Start
<1> QED  BY <1>3, <1>4 DEF IInv, Typed, Shaped, Start

LEMMA Fresh ==
    ASSUME IInv, NEW f \in File, Start(f), ~stale'
    PROVE  /\ Shaped /\ ~overrun /\ arg[f] = <<quantum, qset>>
           /\ arg[f][1] = quantum /\ arg[f][2] = qset
<1>1. stale' = (stale \/ arg[f] # <<quantum, qset>>)
  BY DEF Start
<1>2. ~stale /\ arg[f] = <<quantum, qset>>
  BY <1>1, Zenon
<1>3. Shaped /\ ~overrun
  BY <1>2, Zenon DEF IInv
<1> QED  BY <1>2, <1>3

LEMMA ReadInv == ASSUME IInv, NEW f \in File, Read(f) PROVE IInv'
<1>1. Start(f) /\ Typed
  BY DEF IInv, Read
<1>2. size \in 0 .. MaxPos /\ f_pos \in [File -> 0 .. MaxPos] /\ overrun \in BOOLEAN
  BY <1>1 DEF Typed, TypeOK
<1>3. CASE f_pos[f] >= size /\ Nothing /\ UNCHANGED list
  BY <1>1, <1>2, <1>3, CallInv, Fresh DEF Nothing, Typed, Shaped
<1>4. CASE ~(f_pos[f] >= size)
  <2>1. PICK l \in Follow(At(f).item), n \in Count : ReadCase(f, l, n)
    BY <1>4, ReadIs
  <2>2. list' = list \/ list' = l
    BY <2>1 DEF ReadCase, Overrun
  <2>3. Formed(list', Nat, Quanta \cup {0})
    <3>1. Formed(list, Nat, Quanta \cup {0}) /\ 0 \in Nat
      BY <1>1 DEF Typed
    <3>2. Formed(l, Nat, Quanta \cup {0})
      BY <1>1, <3>1, Calls, FormedFollow
    <3> QED  BY <2>2, <3>1, <3>2
  <2>4. size' = size
    BY <2>1 DEF ReadCase, Overrun, Nothing, Takes
  <2>5. f_pos' \in [File -> 0 .. MaxPos]
    <3>1. CASE f_pos' = f_pos
      BY <1>2, <3>1
    <3>2. CASE f_pos' = [f_pos EXCEPT ![f] = @ + ReadLen(f, n)]
      <4>1. f_pos[f] + ReadLen(f, n) \in 0 .. MaxPos
        BY <1>1, <1>4, ReadLenIs
      <4> QED  BY <1>2, <3>2, <4>1
    <3> QED  BY <2>1, <3>1, <3>2 DEF ReadCase, Overrun, Nothing, Takes
  <2>6. overrun' \in BOOLEAN
    BY <1>2, <2>1 DEF ReadCase, Overrun, Nothing, Takes
  <2>7. ASSUME ~stale' PROVE ~overrun' /\ Formed(list', {0, qset}, {0, quantum})
    <3>1. Shaped /\ ~overrun /\ arg[f] = <<quantum, qset>>
      BY <1>1, <2>7, Fresh
    <3>2. ~ReadsPast(f, l, n)
      BY <1>1, <1>4, <3>1, ReadStays
    <3>3. ~overrun'
      BY <2>1, <3>1, <3>2 DEF ReadCase, Nothing, Takes
    <3>4. Formed(list, {0, qset}, {0, quantum}) /\ 0 \in {0, qset}
      BY <3>1 DEF Shaped
    <3>5. Formed(l, {0, qset}, {0, quantum})
      BY <1>1, <3>4, Calls, FormedFollow
    <3> QED  BY <2>2, <3>3, <3>4, <3>5
  <2> QED  BY <1>1, <1>2, <2>3, <2>4, <2>5, <2>6, <2>7, CallInv
<1> QED  BY <1>3, <1>4, ReadIs

LEMMA WriteInv == ASSUME IInv, NEW f \in File, Write(f) PROVE IInv'
<1>1. Start(f) /\ Typed
  BY DEF IInv, Write
<1>2. size \in 0 .. MaxPos /\ f_pos \in [File -> 0 .. MaxPos] /\ overrun \in BOOLEAN
  BY <1>1 DEF Typed, TypeOK
<1>3. PICK l \in Follow(At(f).item), d \in Data :
        f_pos[f] + Len(d) <= MaxPos /\ WriteCase(f, l, d)
  BY <1>1, WriteIs
<1>4. Formed(list', Nat, Quanta \cup {0})
  <2>1. /\ Formed(list, Nat, Quanta \cup {0}) /\ 0 \in Nat
        /\ arg[f][2] \in Nat /\ arg[f][1] \in Quanta \cup {0} /\ 0 \in Quanta \cup {0}
    BY <1>1, Calls DEF Typed
  <2> QED  BY <1>1, <2>1, WriteForms
<1>5. /\ f_pos[f] + CopyLen(f, d) \in 0 .. MaxPos
  <2>1. CopyLen(f, d) \in 0 .. Len(d) /\ Len(d) \in Nat /\ f_pos[f] \in Nat /\ MaxPos \in Nat
    BY <1>1, <1>2, CopyLenIs, DataAssumption, BoundsAssumption
  <2> QED  BY <1>3, <2>1
<1>6. f_pos' \in [File -> 0 .. MaxPos] /\ size' \in 0 .. MaxPos /\ overrun' \in BOOLEAN
  <2>1. CASE UNCHANGED <<size, f_pos>> /\ (overrun' = overrun \/ overrun' = TRUE)
    BY <1>2, <2>1
  <2>2. CASE Finishes(f, l, d)
    <3>1. f_pos' \in [File -> 0 .. MaxPos]
      BY <1>2, <1>5, <2>2 DEF Finishes
    <3>2. size' \in 0 .. MaxPos
      BY <1>2, <2>2, <3>1 DEF Finishes, GrownSize
    <3> QED  BY <1>2, <2>2, <3>1, <3>2 DEF Finishes
  <2> QED  BY <1>3, <2>1, <2>2 DEF WriteCase, Quiet, Overruns, Overrun
<1>7. ASSUME ~stale' PROVE ~overrun' /\ Formed(list', {0, qset}, {0, quantum})
  <2>1. Shaped /\ ~overrun /\ arg[f] = <<quantum, qset>> /\ arg[f][1] = quantum /\ arg[f][2] = qset
    BY <1>1, <1>7, Fresh
  <2>2. ~Overruns(f, l, d)
    BY <1>1, <2>1, WriteStays
  <2>3. ~overrun'
    BY <1>3, <2>1, <2>2 DEF WriteCase, Quiet, Finishes
  <2>4. SUFFICES ASSUME NEW A, A = {0, qset}, NEW B, B = {0, quantum} PROVE Formed(list', A, B)
    BY <2>3
  <2>5. /\ Formed(list, A, B) /\ 0 \in A /\ 0 \in B /\ arg[f][2] \in A /\ arg[f][1] \in B
    BY <2>1, <2>4 DEF Shaped
  <2> QED  BY <1>1, <2>5, WriteForms
<1> QED  BY <1>1, <1>4, <1>6, <1>7, CallInv

LEMMA NextInv == IInv /\ [Next]_vars => IInv'
<1> SUFFICES ASSUME IInv, [Next]_vars PROVE IInv'
  OBVIOUS
<1>1. CASE UNCHANGED vars
  BY <1>1 DEF vars, params, dev, IInv, Typed, TypeOK, Shaped
<1>2. CASE Ioctl
  BY <1>2 DEF Ioctl, dev, IInv, Typed, TypeOK, Shaped
<1>3. ASSUME NEW f \in File, Moves(f) PROVE IInv'
  BY <1>3, MovesInv
<1>4. ASSUME NEW f \in File, Read(f) PROVE IInv'
  BY <1>4, ReadInv
<1>5. ASSUME NEW f \in File, Write(f) PROVE IInv'
  BY <1>5, WriteInv
<1> QED  BY <1>1, <1>2, <1>3, <1>4, <1>5 DEF Next, Moves

LEMMA WellFormedFromInv == IInv => WellFormed
  BY DEF IInv, Typed, Shaped, Formed, FormedArray, WellFormed

(***************************************************************************)
(* scull_trim, scull_follow, scull_read and scull_write: until a call has  *)
(* run with values from before a trim, all arrays and quanta have the      *)
(* lengths the device was trimmed to, and nothing is used past its end; and*)
(* the variables keep their types for ever.                                *)
(***************************************************************************)
THEOREM DeviceKeepsShape == Spec => []WellFormed
  BY InitInv, NextInv, WellFormedFromInv, PTL DEF Spec

-----------------------------------------------------------------------------
(***************************************************************************)
(* The file the device stands for, as a function of the list, the quantum  *)
(* and the set size.                                                       *)
(***************************************************************************)
Cell(l, q, s, p) ==
    IF l = <<>> \/ Len(l) < Where(p, q, s).item \/ l[Where(p, q, s).item] = <<>> THEN Hole
    ELSE IF l[Where(p, q, s).item][Where(p, q, s).s_pos] = <<>> THEN Hole
    ELSE l[Where(p, q, s).item][Where(p, q, s).s_pos][Where(p, q, s).q_pos + 1]

LEMMA ByteIsCell ==
    /\ \A p : ByteAt(p) = Cell(list, quantum, qset, p)
    /\ \A p : ByteAt(p)' = Cell(list', quantum', qset', p)
  BY DEF ByteAt, Cell

LEMMA EmptyCell == \A q, s, p : Cell(<<>>, q, s, p) = Hole
  BY DEF Cell

LEMMA CellIs ==
    ASSUME NEW l \in Lists, NEW q, NEW s, NEW p, Where(p, q, s).item \in Nat \ {0}
    PROVE  Cell(l, q, s, p) =
             IF Len(l) < Where(p, q, s).item \/ l[Where(p, q, s).item] = <<>> THEN Hole
             ELSE IF l[Where(p, q, s).item][Where(p, q, s).s_pos] = <<>> THEN Hole
             ELSE l[Where(p, q, s).item][Where(p, q, s).s_pos][Where(p, q, s).q_pos + 1]
<1>1. l = <<>> => Len(l) < Where(p, q, s).item
  OBVIOUS
<1> QED  BY <1>1 DEF Cell

(* scull_follow leaves the file as it is. *)
LEMMA FollowCell ==
    ASSUME list \in Lists, NEW n \in Nat, NEW l \in Follow(n),
           NEW q \in Nat \ {0}, NEW s \in Nat \ {0}, NEW p \in Nat
    PROVE  Cell(l, q, s, p) = Cell(list, q, s, p)
<1> DEFINE i == Where(p, q, s).item
<1>1. i \in Nat \ {0}
  BY Positions
<1>2. /\ l \in Lists /\ Len(list) <= Len(l)
      /\ \A k \in 1 .. Len(l) : l[k] = IF k <= Len(list) THEN list[k] ELSE <<>>
  BY FollowIs
<1>3. Len(list) \in Nat /\ Len(l) \in Nat
  BY <1>2 DEF Lists
<1>4. CASE i <= Len(list)
  <2>1. i \in 1 .. Len(l) /\ l[i] = list[i] /\ ~(Len(l) < i) /\ ~(Len(list) < i)
    BY <1>1, <1>2, <1>3, <1>4
  <2> QED  BY <1>1, <1>2, <2>1, CellIs
<1>5. CASE ~(i <= Len(list))
  <2>1. Len(list) < i /\ (Len(l) < i \/ l[i] = <<>>)
    BY <1>1, <1>2, <1>3, <1>5
  <2> QED  BY <1>1, <1>2, <2>1, CellIs
<1> QED  BY <1>4, <1>5

SameQuantum(f, p) ==
    /\ Where(p, quantum, qset).item = At(f).item
    /\ Where(p, quantum, qset).s_pos = At(f).s_pos

(***************************************************************************)
(* A quantum that is replaced changes the file there and nowhere else.     *)
(***************************************************************************)
LEMMA WithCell ==
    ASSUME Typed, Shaped, NEW f \in File, Start(f), arg[f] = <<quantum, qset>>,
           NEW l \in Follow(At(f).item), At(f).item <= Len(l), NEW b \in Seq(Byte), NEW p \in Nat
    PROVE  Cell(With(f, l, b), quantum, qset, p) =
             IF ~SameQuantum(f, p) THEN Cell(l, quantum, qset, p)
             ELSE IF b = <<>> THEN Hole ELSE b[Where(p, quantum, qset).q_pos + 1]
<1> DEFINE w == Where(p, quantum, qset)
           a == ArrayAt(f, l)
           c == [a EXCEPT ![At(f).s_pos] = b]
           x == [l EXCEPT ![At(f).item] = c]
<1>1. /\ l \in Lists /\ At(f).item \in 1 .. Len(l)
      /\ a \in Arrays /\ Len(a) = qset /\ At(f).s_pos \in 1 .. Len(a)
  BY ShapedWrite
<1>2. quantum \in Nat \ {0} /\ qset \in Nat \ {0}
  BY Calls
<1>3. w.item \in Nat \ {0} /\ w.s_pos \in 1 .. qset
  BY <1>2, Positions
<1>4. /\ c \in Arrays /\ Len(c) = qset
      /\ \A n \in 1 .. qset : c[n] = IF n = At(f).s_pos THEN b ELSE a[n]
  <2>1. a \in Seq(Seq(Byte))
    BY <1>1 DEF Arrays
  <2>2. /\ c \in Seq(Seq(Byte)) /\ Len(c) = Len(a)
        /\ \A n \in 1 .. Len(a) : c[n] = IF n = At(f).s_pos THEN b ELSE a[n]
    BY <1>1, <2>1, ExceptSeq
  <2> QED  BY <1>1, <2>2 DEF Arrays
<1> HIDE DEF c
<1>5. /\ x \in Lists /\ Len(x) = Len(l)
      /\ \A n \in 1 .. Len(l) : x[n] = IF n = At(f).item THEN c ELSE l[n]
  <2>1. l \in Seq(Arrays)
    BY <1>1 DEF Lists
  <2>2. /\ x \in Seq(Arrays) /\ Len(x) = Len(l)
        /\ \A n \in 1 .. Len(l) : x[n] = IF n = At(f).item THEN c ELSE l[n]
    BY <1>1, <1>4, <2>1, ExceptSeq
  <2> QED  BY <2>2 DEF Lists
<1>6. With(f, l, b) = x
  BY DEF With, c
<1>7. c # <<>> /\ Len(l) \in Nat
  BY <1>1, <1>2, <1>4 DEF Arrays, Lists
<1> HIDE DEF x
<1>8. CASE w.item # At(f).item
  <2>1. CASE w.item <= Len(l)
    <3>1. w.item \in 1 .. Len(l) /\ x[w.item] = l[w.item]
      BY <1>3, <1>5, <1>7, <1>8, <2>1
    <3> QED  BY <1>1, <1>3, <1>5, <1>6, <1>8, <3>1, CellIs DEF SameQuantum
  <2>2. CASE ~(w.item <= Len(l))
    <3>1. Len(l) < w.item /\ Len(x) < w.item
      BY <1>3, <1>5, <1>7, <2>2
    <3> QED  BY <1>1, <1>3, <1>5, <1>6, <1>8, <3>1, CellIs DEF SameQuantum
  <2> QED  BY <2>1, <2>2
<1>9. CASE w.item = At(f).item
  <2>1. x[w.item] = c /\ ~(Len(x) < w.item) /\ ~(Len(l) < w.item)
    BY <1>1, <1>5, <1>7, <1>9
  <2>2. Cell(x, quantum, qset, p) = IF c[w.s_pos] = <<>> THEN Hole ELSE c[w.s_pos][w.q_pos + 1]
    BY <1>3, <1>5, <1>7, <2>1, CellIs
  <2>3. CASE w.s_pos = At(f).s_pos
    BY <1>3, <1>4, <1>6, <1>9, <2>2, <2>3 DEF SameQuantum
  <2>4. CASE w.s_pos # At(f).s_pos
    <3>1. c[w.s_pos] = a[w.s_pos]
      BY <1>3, <1>4, <2>4
    <3>2. CASE l[w.item] = <<>>
      <4>1. a[w.s_pos] = <<>>
        BY <1>2, <1>3, <1>9, <3>2, ArrayNew
      <4>2. Cell(l, quantum, qset, p) = Hole
        BY <1>1, <1>3, <3>2, CellIs
      <4> QED  BY <1>6, <2>2, <2>4, <3>1, <4>1, <4>2 DEF SameQuantum
    <3>3. CASE l[w.item] # <<>>
      <4>1. a = l[w.item]
        BY <1>9, <3>3 DEF ArrayAt
      <4>2. Cell(l, quantum, qset, p) =
              IF a[w.s_pos] = <<>> THEN Hole ELSE a[w.s_pos][w.q_pos + 1]
        BY <1>1, <1>3, <2>1, <3>3, <4>1, CellIs
      <4> QED  BY <1>6, <2>2, <2>4, <3>1, <4>2 DEF SameQuantum
    <3> QED  BY <3>2, <3>3
  <2> QED  BY <2>3, <2>4
<1> QED  BY <1>8, <1>9

(***************************************************************************)
(* SameQuantum by distance, and the positions a call reaches.              *)
(***************************************************************************)
LEMMA Distance ==
    ASSUME Typed, NEW f \in File, Start(f), arg[f] = <<quantum, qset>>, NEW p \in Nat
    PROVE  /\ Where(p, quantum, qset).q_pos \in 0 .. quantum - 1
           /\ SameQuantum(f, p) => p - f_pos[f] = Where(p, quantum, qset).q_pos - At(f).q_pos
           /\ \A t \in Nat : p = f_pos[f] + t /\ t < Room(f) => SameQuantum(f, p)
           /\ f_pos[f] \in Nat /\ quantum \in Nat \ {0} /\ At(f).q_pos \in Nat
           /\ Room(f) = quantum - At(f).q_pos
<1>1. /\ quantum \in Nat \ {0} /\ qset \in Nat \ {0} /\ At(f) = Where(f_pos[f], quantum, qset)
      /\ At(f).q_pos \in 0 .. quantum - 1 /\ Room(f) = quantum - At(f).q_pos
  <2>1. arg[f][1] = quantum /\ arg[f][2] = qset
    OBVIOUS
  <2>2. At(f) = Where(f_pos[f], quantum, qset)
    BY <2>1 DEF At
  <2>3. Room(f) = quantum - At(f).q_pos
    BY <2>1 DEF Room
  <2> QED  BY <2>1, <2>2, <2>3, Calls
<1>2. f_pos[f] \in Nat
  <2>1. f_pos[f] \in 0 .. MaxPos
    BY DEF Typed, TypeOK
  <2> QED  BY <2>1, BoundsAssumption
<1>3. Where(p, quantum, qset).q_pos \in 0 .. quantum - 1
  BY <1>1, Positions
<1>4. ASSUME SameQuantum(f, p)
      PROVE  p - f_pos[f] = Where(p, quantum, qset).q_pos - At(f).q_pos
  <2>1. /\ Where(f_pos[f], quantum, qset).item = Where(p, quantum, qset).item
        /\ Where(f_pos[f], quantum, qset).s_pos = Where(p, quantum, qset).s_pos
    BY <1>1, <1>4 DEF SameQuantum
  <2>2. p - f_pos[f] = Where(p, quantum, qset).q_pos - Where(f_pos[f], quantum, qset).q_pos
    BY <1>1, <1>2, <2>1, Together, ZenonT(60)
  <2> QED  BY <1>1, <2>2
<1>5. ASSUME NEW t \in Nat, p = f_pos[f] + t, t < Room(f) PROVE SameQuantum(f, p)
  <2>1. At(f).q_pos + t < quantum
    BY <1>1, <1>5
  <2> QED  BY <1>1, <1>2, <1>5, <2>1, Further DEF SameQuantum
<1> QED  BY <1>1, <1>2, <1>3, <1>4, <1>5

LEMMA HoleIsNoByte == \A b \in Seq(Byte) : \A i \in 1 .. Len(b) : b[i] # Hole
  BY DataAssumption

LEMMA StoredIs ==
    ASSUME NEW f, NEW d, NEW k
    PROVE  (\A p \in 0 .. MaxPos - 1 :
              \/ p \in f_pos[f] .. f_pos[f] + k - 1 /\ ByteAt(p)' = d[p - f_pos[f] + 1]
              \/ p \notin f_pos[f] .. f_pos[f] + k - 1 /\ ByteAt(p)' = ByteAt(p)
              \/ p \notin f_pos[f] .. f_pos[f] + k - 1 /\ ByteAt(p) = Hole /\ ByteAt(p)' = Garbage)
           => Device!Stored(f, d, k)
  BY DEF Device!Stored, Device!Place

(***************************************************************************)
(* What is copied into the quantum goes to the positions from f_pos on.    *)
(***************************************************************************)
LEMMA StoresBytes ==
    ASSUME Typed, Shaped, NEW f \in File, Start(f), arg[f] = <<quantum, qset>>,
           NEW l \in Follow(At(f).item), NEW d \in Data, NEW k, Stores(f, l, d, k)
    PROVE  Device!Stored(f, d, k)
<1> DEFINE src == BlockAt(f, l)
           at == At(f).q_pos
           b == Patched(src, at, d, k)
           reach == f_pos[f] .. f_pos[f] + k - 1
<1>1. /\ l \in Lists /\ At(f).item \in 1 .. Len(l) /\ At(f).item <= Len(l)
      /\ ArrayAt(f, l) \in Arrays /\ Len(ArrayAt(f, l)) = qset
      /\ At(f).s_pos \in 1 .. Len(ArrayAt(f, l))
      /\ src \in Seq(Byte) /\ Len(src) = quantum
  <2>1. At(f).item <= Len(l)
    BY DEF Stores, Fits
  <2> QED  BY <2>1, ShapedWrite
<1>2. quantum' = quantum /\ qset' = qset /\ list' = With(f, l, b)
  BY DEF Start, Stores
<1>3. /\ k \in 0 .. Len(d) /\ k \in Nat /\ k <= Room(f) /\ at \in Nat /\ at + k <= Len(src)
      /\ f_pos[f] \in Nat /\ quantum \in Nat \ {0} /\ Room(f) = quantum - at
  <2>1. k \in 0 .. CopyLen(f, d) /\ CopyLen(f, d) \in 0 .. Len(d) /\ CopyLen(f, d) <= Room(f)
    BY CopyLenIs DEF Stores
  <2>2. Len(d) \in Nat
    BY DataAssumption
  <2>3. f_pos[f] \in Nat /\ quantum \in Nat \ {0} /\ at \in Nat /\ Room(f) = quantum - at
    <3>1. 0 \in Nat
      OBVIOUS
    <3> QED  BY <3>1, Distance
  <2>4. k \in Nat /\ k <= Len(d) /\ k <= Room(f)
    BY <2>1, <2>2, <2>3
  <2> QED  BY <1>1, <2>2, <2>3, <2>4
<1>4. /\ b \in Seq(Byte) /\ Len(b) = quantum
      /\ \A i \in 1 .. quantum : b[i] = PatchByte(src, at, d, k, i)
  <2> HIDE DEF src, at
  <2>1. /\ b \in Seq(Byte) /\ Len(b) = Len(src)
        /\ \A i \in 1 .. Len(src) : b[i] = PatchByte(src, at, d, k, i)
    BY <1>1, <1>3, PatchedIs
  <2> HIDE DEF b
  <2> QED  BY <1>1, <2>1
<1>5. b # <<>>
  BY <1>3, <1>4
<1> HIDE DEF b, src, at
<1>6. SUFFICES ASSUME NEW p \in 0 .. MaxPos - 1
      PROVE  \/ p \in reach /\ ByteAt(p)' = d[p - f_pos[f] + 1]
             \/ p \notin reach /\ ByteAt(p)' = ByteAt(p)
             \/ p \notin reach /\ ByteAt(p) = Hole /\ ByteAt(p)' = Garbage
  BY StoredIs
<1> DEFINE o == Where(p, quantum, qset).q_pos
<1>7. p \in Nat
  BY BoundsAssumption
<1>8. /\ o \in 0 .. quantum - 1
      /\ SameQuantum(f, p) => p - f_pos[f] = o - at
      /\ \A t \in Nat : p = f_pos[f] + t /\ t < Room(f) => SameQuantum(f, p)
  BY <1>7, Distance DEF at
<1>9. /\ ByteAt(p) = Cell(l, quantum, qset, p)
      /\ ByteAt(p)' = IF ~SameQuantum(f, p) THEN Cell(l, quantum, qset, p) ELSE b[o + 1]
  <2>0. arg[f][1] = quantum /\ arg[f][2] = qset
    OBVIOUS
  <2>1. quantum \in Nat \ {0} /\ qset \in Nat \ {0} /\ At(f).item \in Nat /\ list \in Lists
    BY <2>0, Calls DEF Typed, Formed
  <2>2. Cell(l, quantum, qset, p) = Cell(list, quantum, qset, p)
    BY <1>7, <2>1, FollowCell
  <2>3. Cell(With(f, l, b), quantum, qset, p) =
          IF ~SameQuantum(f, p) THEN Cell(l, quantum, qset, p) ELSE b[o + 1]
    BY <1>1, <1>4, <1>5, <1>7, WithCell
  <2> QED  BY <1>2, <2>2, <2>3, ByteIsCell
<1> HIDE DEF o
<1>10. CASE ~SameQuantum(f, p)
  <2>1. p \notin reach
    <3> SUFFICES ASSUME p \in reach PROVE FALSE
      OBVIOUS
    <3>1. p - f_pos[f] \in Nat /\ p - f_pos[f] < k /\ p = f_pos[f] + (p - f_pos[f])
      BY <1>3, <1>7, SMTT(30)
    <3>2. p - f_pos[f] < Room(f)
      BY <1>3, <3>1
    <3> QED  BY <1>8, <1>10, <3>1, <3>2
  <2> QED  BY <1>9, <1>10, <2>1
<1>11. CASE SameQuantum(f, p)
  <2>1. p - f_pos[f] = o - at /\ o \in 0 .. quantum - 1 /\ ByteAt(p)' = b[o + 1]
    BY <1>8, <1>9, <1>11
  <2>2. o + 1 \in 1 .. quantum /\ o \in Nat
    BY <1>3, <2>1
  <2>3. b[o + 1] = IF o + 1 \in at + 1 .. at + k THEN d[o + 1 - at] ELSE src[o + 1]
    <3>1. b[o + 1] = PatchByte(src, at, d, k, o + 1)
      BY <1>4, <2>2
    <3> QED  BY <1>3, <2>2, <3>1 DEF PatchByte
  <2>4. (o + 1 \in at + 1 .. at + k <=> p \in reach) /\ o + 1 - at = p - f_pos[f] + 1
    BY <1>3, <1>7, <2>1, <2>2, SMTT(30)
  <2>5. CASE p \in reach
    BY <2>1, <2>3, <2>4, <2>5
  <2>6. CASE p \notin reach
    <3>1. ByteAt(p)' = src[o + 1]
      BY <2>1, <2>3, <2>4, <2>6
    <3>2. Where(p, quantum, qset).item \in Nat \ {0} /\ Len(l) \in Nat
      BY <1>1, <1>11, Calls DEF SameQuantum, Lists
    <3>3. Cell(l, quantum, qset, p) =
            IF l[At(f).item] = <<>> THEN Hole
            ELSE IF l[At(f).item][At(f).s_pos] = <<>> THEN Hole
            ELSE l[At(f).item][At(f).s_pos][o + 1]
      BY <1>1, <1>11, <3>2, CellIs, SMTT(30) DEF SameQuantum, o
    <3>4. CASE ArrayAt(f, l)[At(f).s_pos] = <<>>
      <4>1. src[o + 1] = Garbage
        BY <2>2, <3>4, Calls, BlockNew DEF src
      <4>2. Cell(l, quantum, qset, p) = Hole
        BY <3>3, <3>4 DEF ArrayAt
      <4> QED  BY <1>9, <2>6, <3>1, <4>1, <4>2
    <3>5. CASE ArrayAt(f, l)[At(f).s_pos] # <<>>
      <4>1. l[At(f).item] # <<>>
        BY <1>1, <3>5, Calls, ArrayNew
      <4>2. ArrayAt(f, l) = l[At(f).item]
        BY <4>1 DEF ArrayAt
      <4>3. src = l[At(f).item][At(f).s_pos]
        BY <3>5, <4>2 DEF src, BlockAt
      <4> QED  BY <1>9, <2>6, <3>1, <3>3, <3>5, <4>1, <4>2, <4>3
    <3> QED  BY <3>4, <3>5
  <2> QED  BY <2>5, <2>6
<1> QED  BY <1>10, <1>11

-----------------------------------------------------------------------------
(***************************************************************************)
(* The steps of the device as steps of the file.                           *)
(***************************************************************************)
Content == [p \in 0 .. MaxPos - 1 |-> ByteAt(p)]

LEMMA SameContent ==
    (\A p \in 0 .. MaxPos - 1 : ByteAt(p)' = ByteAt(p)) => Content' = Content
  BY DEF Content

LEMMA KeepsContent ==
    ASSUME Typed, NEW f \in File, Start(f), arg[f] = <<quantum, qset>>,
           NEW l \in Follow(At(f).item), list' = l \/ list' = list
    PROVE  Content' = Content
<1>1. quantum' = quantum /\ qset' = qset /\ arg[f][1] = quantum /\ arg[f][2] = qset
  BY DEF Start
<1>2. quantum \in Nat \ {0} /\ qset \in Nat \ {0} /\ At(f).item \in Nat /\ list \in Lists
  BY <1>1, Calls DEF Typed, Formed
<1>3. ASSUME NEW p \in 0 .. MaxPos - 1 PROVE ByteAt(p)' = ByteAt(p)
  <2>1. p \in Nat
    BY BoundsAssumption
  <2>2. Cell(l, quantum, qset, p) = Cell(list, quantum, qset, p)
    BY <1>2, <2>1, FollowCell
  <2> QED  BY <1>1, <2>2, ByteIsCell
<1> QED  BY <1>3, SameContent

LEMMA ReadsNothing ==
    ASSUME NEW f \in File, Content' = Content, size' = size, got' = <<>>, f_pos' = f_pos,
           f_pos[f] >= size \/ (f_pos[f] \in 0 .. MaxPos - 1 /\ ByteAt(f_pos[f]) = Hole)
    PROVE  Device!Read(f)
  BY DEF Device!Read, Content

LEMMA ReadsSome ==
    ASSUME NEW f \in File, Content' = Content, size' = size, f_pos[f] \in 0 .. MaxPos - 1,
           ByteAt(f_pos[f]) # Hole, NEW n \in Count, NEW k \in Device!Some(n),
           f_pos[f] + k <= size, got' = [i \in 1 .. k |-> Content[f_pos[f] + i - 1]],
           f_pos' = [f_pos EXCEPT ![f] = @ + k]
    PROVE  Device!Read(f)
<1>1. Content[f_pos[f]] # Hole
  BY DEF Content
<1>2. /\ f_pos[f] + k <= size /\ Content[f_pos[f]] # Hole
      /\ got' = [i \in 1 .. k |-> Content[f_pos[f] + i - 1]]
      /\ f_pos' = [f_pos EXCEPT ![f] = @ + k]
  BY <1>1
<1> QED  BY <1>2 DEF Device!Read, Content

(***************************************************************************)
(* Where the device has bytes, the file has them.                          *)
(***************************************************************************)
LEMMA SourceBytes ==
    ASSUME Typed, Shaped, NEW f \in File, Start(f), arg[f] = <<quantum, qset>>,
           NEW l \in Follow(At(f).item), HasSource(f, l),
           NEW t \in Nat, t < Room(f)
    PROVE  /\ ByteAt(f_pos[f] + t) = Source(f, l)[At(f).q_pos + t + 1]
           /\ ByteAt(f_pos[f] + t) \in Byte
<1>1. HasArray(f, l) /\ Source(f, l) # <<>>
  BY DEF HasSource
<1>2. /\ At(f).item \in 1 .. Len(l) /\ l[At(f).item] \in Arrays
      /\ Source(f, l) \in Seq(Byte) /\ Len(Source(f, l)) = quantum
  BY <1>1, ShapedRead
<1>3. arg[f][1] = quantum /\ arg[f][2] = qset
  OBVIOUS
<1>4. /\ quantum \in Nat \ {0} /\ qset \in Nat \ {0} /\ At(f).item \in Nat \ {0}
      /\ At(f).q_pos \in 0 .. quantum - 1 /\ Room(f) = quantum - At(f).q_pos /\ list \in Lists
  BY <1>3, Calls DEF Room, Typed, Formed
<1>5. f_pos[f] \in Nat
  BY BoundsAssumption DEF Typed, TypeOK
<1>6. At(f) = Where(f_pos[f], quantum, qset)
  BY <1>3 DEF At
<1> DEFINE p == f_pos[f] + t
           w == Where(p, quantum, qset)
<1>7. w.item = At(f).item /\ w.s_pos = At(f).s_pos /\ w.q_pos = At(f).q_pos + t
  <2> DEFINE r == f_pos[f]
  <2>1. r \in Nat /\ At(f) = Where(r, quantum, qset) /\ w = Where(r + t, quantum, qset)
    BY <1>5, <1>6
  <2>2. Where(r, quantum, qset).q_pos + t < quantum
    BY <1>4, <2>1
  <2> HIDE DEF r, w
  <2>3. /\ Where(r + t, quantum, qset).item = Where(r, quantum, qset).item
        /\ Where(r + t, quantum, qset).s_pos = Where(r, quantum, qset).s_pos
        /\ Where(r + t, quantum, qset).q_pos = Where(r, quantum, qset).q_pos + t
    BY <1>4, <2>1, <2>2, Further
  <2> QED  BY <2>1, <2>3
<1>8. p \in Nat /\ At(f).item \in Nat
  BY <1>4, <1>5
<1> HIDE DEF p
<1>9. Cell(l, quantum, qset, p) = Source(f, l)[At(f).q_pos + t + 1]
  <2>1. l \in Lists
    BY <1>4, <1>8, FollowIs
  <2>2. Where(p, quantum, qset).item \in Nat \ {0}
    BY <1>4, <1>8, Positions
  <2>3. Cell(l, quantum, qset, p) =
          IF Len(l) < w.item \/ l[w.item] = <<>> THEN Hole
          ELSE IF l[w.item][w.s_pos] = <<>> THEN Hole
          ELSE l[w.item][w.s_pos][w.q_pos + 1]
    BY <2>1, <2>2, CellIs
  <2> QED  BY <1>1, <1>7, <2>3 DEF HasArray, Source
<1>10. At(f).q_pos + t + 1 \in 1 .. quantum
  BY <1>4
<1>11. Source(f, l)[At(f).q_pos + t + 1] \in Byte
  BY <1>2, <1>10, ElementOfSeq
<1>12. ByteAt(p) = Cell(l, quantum, qset, p)
  <2>1. Cell(l, quantum, qset, p) = Cell(list, quantum, qset, p)
    BY <1>4, <1>8, FollowCell
  <2> QED  BY <2>1, ByteIsCell
<1> QED  BY <1>9, <1>11, <1>12 DEF p

LEMMA TakesBytes ==
    ASSUME Typed, Shaped, NEW f \in File, Start(f), arg[f] = <<quantum, qset>>,
           ~(f_pos[f] >= size), NEW l \in Follow(At(f).item), NEW n \in Count,
           list' = l, Takes(f, l, n)
    PROVE  Device!Read(f) \/ UNCHANGED <<Content, size, f_pos, got>>
<1> DEFINE c   == ReadLen(f, n)
           at  == At(f).q_pos
           src == Source(f, l)
<1>1. Content' = Content
  BY KeepsContent
<1>2. size' = size /\ HasSource(f, l)
  BY DEF Takes
<1>3. CASE UNCHANGED <<got, f_pos>>
  BY <1>1, <1>2, <1>3
<1>4. CASE /\ got' = SubSeq(src, at + 1, at + c)
           /\ f_pos' = [f_pos EXCEPT ![f] = @ + c]
  <2>1. /\ c \in Nat /\ c <= n /\ f_pos[f] + c <= size /\ c <= Room(f) /\ (c = 0 => n = 0)
        /\ f_pos[f] \in Nat /\ size \in Nat /\ n \in Nat /\ size <= MaxPos /\ MaxPos \in Nat
    BY ReadLenIs
  <2>2. /\ Room(f) \in Nat \ {0} /\ quantum \in Nat /\ at \in Nat /\ Room(f) = quantum - at
        /\ Len(src) = quantum /\ src \in Seq(Byte)
    <3>1. arg[f][1] = quantum /\ HasArray(f, l) /\ src # <<>>
      BY <1>2 DEF HasSource
    <3>2. src \in Seq(Byte) /\ Len(src) = quantum
      BY <3>1, ShapedRead
    <3> QED  BY <3>1, <3>2, Calls DEF Room
  <2>3. ASSUME NEW t \in Nat, t < Room(f)
        PROVE  ByteAt(f_pos[f] + t) = src[at + t + 1] /\ ByteAt(f_pos[f] + t) \in Byte
    BY <1>2, <2>3, SourceBytes
  <2>4. f_pos[f] \in 0 .. MaxPos - 1 /\ ByteAt(f_pos[f]) # Hole
    <3>1. f_pos[f] + 0 = f_pos[f] /\ 0 < Room(f) /\ f_pos[f] < size
      BY <2>1, <2>2
    <3>2. ByteAt(f_pos[f] + 0) \in Byte
      BY <2>3, <3>1
    <3> QED  BY <2>1, <3>1, <3>2, DataAssumption
  <2>5. c \in Device!Some(n)
    BY <2>1 DEF Device!Some
  <2>6. got' = [i \in 1 .. c |-> Content[f_pos[f] + i - 1]]
    <3> DEFINE g == [i \in 1 .. c |-> Content[f_pos[f] + i - 1]]
               h == SubSeq(src, at + 1, at + c)
    <3> HIDE DEF c, at, src
    <3>1. ASSUME NEW i \in 1 .. c
          PROVE  Content[f_pos[f] + i - 1] = src[at + i] /\ Content[f_pos[f] + i - 1] \in Byte
      <4>1. /\ i - 1 \in Nat /\ i - 1 < Room(f) /\ f_pos[f] + (i - 1) = f_pos[f] + i - 1
            /\ at + (i - 1) + 1 = at + i /\ f_pos[f] + i - 1 \in 0 .. MaxPos - 1
        BY <2>1, <2>2, SMTT(30)
      <4>2. ByteAt(f_pos[f] + (i - 1)) = src[at + (i - 1) + 1] /\ ByteAt(f_pos[f] + (i - 1)) \in Byte
        BY <2>3, <4>1
      <4>3. Content[f_pos[f] + i - 1] = ByteAt(f_pos[f] + i - 1)
        BY <4>1 DEF Content
      <4> QED  BY <4>1, <4>2, <4>3
    <3>2. g \in [1 .. c -> Byte] /\ \A i \in 1 .. c : g[i] = src[at + i]
      BY <3>1
    <3>3. g \in Seq(Byte) /\ Len(g) = c
      <4> HIDE DEF g
      <4> QED  BY <2>1, <3>2, MadeSeq
    <3>4. h \in Seq(Byte) /\ Len(h) = c /\ \A i \in 1 .. c : h[i] = src[at + i]
      <4>1. at \in Nat /\ c \in Nat /\ at + c <= Len(src) /\ src \in Seq(Byte)
        BY <2>1, <2>2
      <4> QED  BY <4>1, SubSeqIs
    <3> HIDE DEF g, h
    <3>5. \A i \in 1 .. Len(h) : h[i] = g[i]
      BY <3>2, <3>4
    <3>6. h = g
      BY <3>3, <3>4, <3>5, SeqEqual
    <3> QED  BY <1>4, <3>6 DEF g, h, c, at, src
  <2> HIDE DEF c, at, src
  <2> QED  BY <1>1, <1>2, <1>4, <2>1, <2>4, <2>5, <2>6, ReadsSome
<1> QED  BY <1>3, <1>4 DEF Takes

LEMMA ReadsHole ==
    ASSUME Typed, Shaped, NEW f \in File, Start(f), arg[f] = <<quantum, qset>>,
           ~(f_pos[f] >= size), NEW l \in Follow(At(f).item),
           list' = l, Nothing, FindsHole(f, l)
    PROVE  Device!Read(f)
<1>1. Content' = Content
  BY KeepsContent
<1>2. arg[f][1] = quantum /\ arg[f][2] = qset
  OBVIOUS
<1>3. /\ quantum \in Nat \ {0} /\ qset \in Nat \ {0} /\ At(f).item \in Nat \ {0}
      /\ list \in Lists /\ At(f) = Where(f_pos[f], quantum, qset)
  BY <1>2, Calls DEF Typed, Formed, At
<1>4. f_pos[f] \in Nat /\ f_pos[f] \in 0 .. MaxPos - 1
  <2>1. f_pos[f] \in 0 .. MaxPos /\ size \in 0 .. MaxPos
    BY DEF Typed, TypeOK
  <2> QED  BY <2>1, BoundsAssumption
<1>5. l \in Lists
  BY <1>3, FollowIs
<1>6. Cell(l, quantum, qset, f_pos[f]) = Hole
  <2>1. Cell(l, quantum, qset, f_pos[f]) =
          IF Len(l) < At(f).item \/ l[At(f).item] = <<>> THEN Hole
          ELSE IF Source(f, l) = <<>> THEN Hole ELSE Source(f, l)[At(f).q_pos + 1]
    BY <1>3, <1>5, CellIs DEF Source
  <2> QED  BY <2>1 DEF FindsHole
<1>7. ByteAt(f_pos[f]) = Hole
  <2>1. Cell(l, quantum, qset, f_pos[f]) = Cell(list, quantum, qset, f_pos[f])
    BY <1>3, <1>4, FollowCell
  <2> QED  BY <1>6, <2>1, ByteIsCell
<1> QED  BY <1>1, <1>4, <1>7, ReadsNothing DEF Nothing

(* A step that the file does not see. *)
SameFile == UNCHANGED <<Content, size, f_pos, got>>

LEMMA EmptiesNothing ==
    ASSUME Typed, Shaped, NEW f \in File, Start(f), arg[f] = <<quantum, qset>>,
           NEW l \in Follow(At(f).item), Fits(f, l),
           ArrayAt(f, l)[At(f).s_pos] = <<>>, list' = With(f, l, <<>>)
    PROVE  Content' = Content
<1>1. quantum' = quantum /\ qset' = qset /\ arg[f][1] = quantum /\ arg[f][2] = qset
  BY DEF Start
<1>2. /\ quantum \in Nat \ {0} /\ qset \in Nat \ {0} /\ At(f).item \in Nat \ {0}
      /\ At(f).s_pos \in 1 .. qset /\ list \in Lists
  BY <1>1, Calls DEF Typed, Formed
<1>3. At(f).item <= Len(l) /\ l \in Lists
  BY <1>2, FollowIs DEF Fits
<1>4. ASSUME NEW p \in 0 .. MaxPos - 1 PROVE ByteAt(p)' = ByteAt(p)
  <2>1. p \in Nat /\ <<>> \in Seq(Byte) /\ At(f).item \in Nat
    BY <1>2, BoundsAssumption
  <2>2. Cell(l, quantum, qset, p) = Cell(list, quantum, qset, p)
    BY <1>2, <2>1, FollowCell
  <2>3. Cell(With(f, l, <<>>), quantum, qset, p) =
          IF ~SameQuantum(f, p) THEN Cell(l, quantum, qset, p)
          ELSE IF <<>> = <<>> THEN Hole ELSE <<>>[Where(p, quantum, qset).q_pos + 1]
    BY <1>3, <2>1, WithCell
  <2>4. ASSUME SameQuantum(f, p) PROVE Cell(l, quantum, qset, p) = Hole
    <3>1. Where(p, quantum, qset).item \in Nat \ {0}
      BY <1>2, <2>4 DEF SameQuantum
    <3>2. Cell(l, quantum, qset, p) =
            IF Len(l) < At(f).item \/ l[At(f).item] = <<>> THEN Hole
            ELSE IF l[At(f).item][At(f).s_pos] = <<>> THEN Hole
            ELSE l[At(f).item][At(f).s_pos][Where(p, quantum, qset).q_pos + 1]
      BY <1>3, <2>4, <3>1, CellIs DEF SameQuantum
    <3> QED  BY <3>2 DEF ArrayAt
  <2> QED  BY <1>1, <2>2, <2>3, <2>4, ByteIsCell
<1> QED  BY <1>4, SameContent

LEMMA WriteSteps ==
    ASSUME Typed, Shaped, NEW f \in File, Write(f), arg[f] = <<quantum, qset>>
    PROVE  Device!Write(f) \/ Device!FailedWrite(f) \/ SameFile
<1>1. Start(f)
  BY DEF Write
<1>2. PICK l \in Follow(At(f).item), d \in Data : WriteCase(f, l, d)
  BY WriteIs
<1>3. Len(d) \in Nat /\ CopyLen(f, d) \in 0 .. Len(d) /\ (CopyLen(f, d) = 0 => Len(d) = 0)
  BY <1>1, CopyLenIs, DataAssumption
<1>4. CASE list' = l /\ Quiet
  BY <1>1, <1>4, KeepsContent DEF Quiet, SameFile
<1>5. CASE Overruns(f, l, d)
  BY <1>1, <1>5, WriteStays
<1>6. CASE Fits(f, l) /\ ArrayAt(f, l)[At(f).s_pos] = <<>> /\ list' = With(f, l, <<>>) /\ Quiet
  BY <1>1, <1>6, EmptiesNothing DEF Quiet, SameFile
<1>7. CASE Quiet /\ \E k \in 0 .. CopyLen(f, d) : Stores(f, l, d, k)
  <2>1. PICK k \in 0 .. CopyLen(f, d) : Stores(f, l, d, k)
    BY <1>7
  <2>2. k \in 0 .. Len(d)
    BY <1>3
  <2>3. Device!Stored(f, d, k)
    BY <1>1, <2>1, StoresBytes
  <2> QED  BY <1>7, <2>2, <2>3 DEF Device!FailedWrite, Quiet
<1>8. CASE Finishes(f, l, d)
  <2>1. CopyLen(f, d) \in Device!Some(Len(d))
    BY <1>3 DEF Device!Some
  <2>2. Device!Stored(f, d, CopyLen(f, d))
    BY <1>1, <1>8, StoresBytes DEF Finishes
  <2>3. size' = IF f_pos'[f] > size THEN f_pos'[f] ELSE size
    <3>1. size' = IF size < f_pos'[f] THEN f_pos'[f] ELSE size
      BY <1>8 DEF Finishes, GrownSize
    <3>2. size \in Nat /\ f_pos'[f] \in Nat
      <4>1. size \in 0 .. MaxPos /\ f_pos \in [File -> 0 .. MaxPos]
        BY DEF Typed, TypeOK
      <4>2. f_pos[f] \in Nat /\ size \in Nat
        BY <4>1, BoundsAssumption
      <4>3. f_pos'[f] = f_pos[f] + CopyLen(f, d)
        BY <1>8, <4>1 DEF Finishes
      <4> QED  BY <1>3, <4>2, <4>3
    <3> QED  BY <3>1, <3>2
  <2>4. /\ f_pos' = [f_pos EXCEPT ![f] = @ + CopyLen(f, d)]
        /\ UNCHANGED got
    BY <1>8 DEF Finishes
  <2> QED  BY <2>1, <2>2, <2>3, <2>4 DEF Device!Write
<1> QED  BY <1>2, <1>4, <1>5, <1>6, <1>7, <1>8 DEF WriteCase

LEMMA ReadSteps ==
    ASSUME Typed, Shaped, NEW f \in File, Read(f), arg[f] = <<quantum, qset>>
    PROVE  Device!Read(f) \/ SameFile
<1>1. Start(f)
  BY DEF Read
<1>2. CASE f_pos[f] >= size /\ Nothing /\ UNCHANGED list
  <2>1. Content' = Content
    <3>1. list \in Follow(At(f).item)
      BY DEF Follow
    <3> QED  BY <1>1, <1>2, <3>1, KeepsContent
  <2> QED  BY <1>2, <2>1, ReadsNothing DEF Nothing
<1>3. CASE ~(f_pos[f] >= size)
  <2>1. PICK l \in Follow(At(f).item), n \in Count : ReadCase(f, l, n)
    BY <1>3, ReadIs
  <2>2. CASE list' = l /\ Nothing /\ FindsHole(f, l)
    BY <1>1, <1>3, <2>2, ReadsHole
  <2>3. CASE Overrun /\ ReadsPast(f, l, n)
    BY <1>1, <1>3, <2>3, ReadStays
  <2>4. CASE list' = l /\ Takes(f, l, n)
    BY <1>1, <1>3, <2>4, TakesBytes DEF SameFile
  <2> QED  BY <2>1, <2>2, <2>3, <2>4 DEF ReadCase
<1> QED  BY <1>2, <1>3, ReadIs

LEMMA SameDevice == UNCHANGED dev => Content' = Content
<1> SUFFICES ASSUME UNCHANGED dev PROVE Content' = Content
  OBVIOUS
<1>1. \A p : ByteAt(p)' = ByteAt(p)
  BY ByteIsCell DEF dev
<1> QED  BY <1>1, SameContent

LEMMA MovesSteps ==
    ASSUME IInv, NEW f \in File, Moves(f)
    PROVE  Device!Trim \/ Device!Seek(f) \/ SameFile
<1>1. CASE Open(f) /\ Trim
  <2>1. Content' = [p \in 0 .. MaxPos - 1 |-> Hole]
    <3>1. \A p : ByteAt(p)' = Hole
      BY <1>1, ByteIsCell, EmptyCell DEF Trim, Trimmed
    <3> QED  BY <3>1 DEF Content
  <2> QED  BY <1>1, <2>1 DEF Device!Trim, Device!Place, Content, Open, Trim
<1>2. CASE Release(f)
  <2>1. 0 \in Device!Place
    BY BoundsAssumption DEF Device!Place
  <2>2. Content' = Content
    BY <1>2, SameDevice DEF Release
  <2> QED  BY <1>2, <2>1, <2>2 DEF Device!Seek, Content, Release, dev
<1>3. CASE Llseek(f)
  <2>1. PICK p \in Device!Place : f_pos' = [f_pos EXCEPT ![f] = p]
    BY <1>3 DEF Llseek, Device!Place
  <2>2. Content' = Content
    BY <1>3, SameDevice DEF Llseek
  <2> QED  BY <1>3, <2>1, <2>2 DEF Device!Seek, Content, Llseek, dev
<1>4. CASE UNCHANGED <<dev, f_pos, got>>
  BY <1>4, SameDevice DEF SameFile, dev
<1> QED  BY <1>1, <1>2, <1>3, <1>4 DEF Moves, Open, Call, Interrupted

LEMMA InitFile == Init => Device!Init
<1> SUFFICES ASSUME Init PROVE Device!Init
  OBVIOUS
<1>1. \A p : ByteAt(p) = Hole
  BY ByteIsCell, EmptyCell DEF Init
<1> QED  BY <1>1 DEF Init, Device!Init, Device!Place

LEMMA NextFile == IInv /\ [Next]_vars => [~stale' => Device!Next]_(Device!vars)
<1> SUFFICES ASSUME IInv, [Next]_vars, ~stale' PROVE Device!Next \/ SameFile
  BY DEF Device!vars, SameFile, Content
<1>1. CASE UNCHANGED vars
  BY <1>1, SameDevice DEF vars, dev, SameFile
<1>2. CASE Ioctl
  BY <1>2, SameDevice DEF Ioctl, dev, SameFile
<1>3. ASSUME NEW f \in File, Moves(f) PROVE Device!Next \/ SameFile
  BY <1>3, MovesSteps DEF Device!Next
<1>4. ASSUME NEW f \in File, Read(f) PROVE Device!Next \/ SameFile
  <2>1. Start(f) /\ Typed
    BY <1>4 DEF IInv, Read
  <2> QED  BY <1>4, <2>1, Fresh, ReadSteps DEF Device!Next
<1>5. ASSUME NEW f \in File, Write(f) PROVE Device!Next \/ SameFile
  <2>1. Start(f) /\ Typed
    BY <1>5 DEF IInv, Write
  <2> QED  BY <1>5, <2>1, Fresh, WriteSteps DEF Device!Next
<1> QED  BY <1>1, <1>2, <1>3, <1>4, <1>5 DEF Next, Moves

(***************************************************************************)
(* scull_read, scull_write, scull_llseek and scull_trim: the device is a   *)
(* file with holes.  Until a call has run with values from before a trim,  *)
(* each of its steps is one of SparseFile's, or changes nothing there.     *)
(***************************************************************************)
THEOREM DeviceIsSparseFile == Spec => ImplementsSparseFile
<1>1. Init => IInv /\ Device!Init
  BY InitInv, InitFile
<1>2. IInv /\ [Next]_vars => IInv'
  BY NextInv
<1>3. IInv /\ [Next]_vars => [~stale' => Device!Next]_(Device!vars)
  BY NextFile
<1> QED  BY <1>1, <1>2, <1>3, PTL DEF Spec, ImplementsSparseFile
=============================================================================
