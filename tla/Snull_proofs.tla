---------------------------- MODULE Snull_proofs ----------------------------
(***************************************************************************)
(* The two interfaces, for any memory, pool size, budget and number of     *)
(* packets, with NAPI and without, whatever fails, times out or goes down: *)
(* no buffer and no packet is lost or in two places; and, under the        *)
(* conditions that the properties name, the transmit queue follows the     *)
(* pool, and each skb is freed once.                                       *)
(***************************************************************************)
EXTENDS Snull, FiniteSetTheorems, SequenceTheorems, TLAPS

Sending   == {"buffer", "enqueue", "ints", "rxread", "rxwrite", "rxirq", "txread",
              "txwrite", "txirq"}
Eyeing    == {"look", "next", "wake"}
Giving    == Eyeing \cup {"release"}
TimingOut == {"timeout", "t_write", "t_irq", "t_pool", "t_wake"}
Flag      == {"RX", "TX"}

-----------------------------------------------------------------------------
(***************************************************************************)
(* Types, and what a call has at which place.                              *)
(***************************************************************************)
PrivTypes ==
    /\ pool_size \in Nat /\ use_napi \in BOOLEAN
    /\ ppool \in [Dev -> Seq(Buffer)]
    /\ heap \in [Dev -> SUBSET Buffer] /\ last \in [Dev -> SUBSET Buffer]
    /\ rx_queue \in [Dev -> Seq([n : Nat, b : Buffer])]
    /\ status \in [Dev -> SUBSET Flag]
    /\ skb \in [Dev -> Nat]
    /\ stopped \in [Dev -> BOOLEAN] /\ up \in [Dev -> BOOLEAN]

CallTypes ==
    /\ napi \in [Dev -> {"off", "idle", "scheduled", "polling"}]
    /\ pc \in [Dev -> {"idle"} \cup Sending \cup Giving \cup TimingOut]
    /\ seen \in [Dev -> SUBSET Flag]
    /\ pkt \in [Dev -> Buffer \cup {NULL}] /\ of \in [Dev -> Dev]
    /\ cont \in [Dev -> {"idle", "txread", "t_pool"}]
    /\ poll \in [Dev -> {"idle", "loop", "dequeue", "end"} \cup Giving]
    /\ ppkt \in [Dev -> Buffer \cup {NULL}]

HistTypes ==
    /\ sent \in [Dev -> Nat] /\ received \in [Dev -> Seq(Nat)]
    /\ dropped \in [Dev -> SUBSET Nat] /\ freed \in [Dev -> Seq(Nat)]

Types == PrivTypes /\ CallTypes /\ HistTypes

CallInv == \A d \in Dev :
    /\ pc[d] \in Giving \cup {"enqueue"} => pkt[d] \in Buffer
    /\ poll[d] \in Giving => ppkt[d] \in Buffer
    /\ poll[d] = "dequeue" => rx_queue[d] # <<>>
    /\ poll[d] # "idle" \/ napi[d] \in {"scheduled", "polling"} => use_napi

(***************************************************************************)
(* The buffers of an interface: h are allocated, each in one place.        *)
(***************************************************************************)
Once(s)  == \A i, j \in 1 .. Len(s) : s[i] = s[j] => i = j
OnceB(q) == \A i, j \in 1 .. Len(q) : q[i].b = q[j].b => i = j
OnceN(q) == \A i, j \in 1 .. Len(q) : q[i].n = q[j].n => i = j

Bufs(q) == {q[i].b : i \in 1 .. Len(q)}
Nums(q) == {q[i].n : i \in 1 .. Len(q)}

Apart(h, P, Q, A, B, C) ==
    /\ h = P \cup Q \cup A \cup B \cup C
    /\ P \cap Q = {} /\ P \cap A = {} /\ P \cap B = {} /\ P \cap C = {}
    /\ Q \cap A = {} /\ Q \cap B = {} /\ Q \cap C = {}
    /\ A \cap B = {} /\ A \cap C = {} /\ B \cap C = {}

BuffersOf(d) ==
    /\ Apart(heap[d], Elems(ppool[d]), Bufs(rx_queue[Twin(d)]),
             InHand(d, d), InHand(d, Twin(d)), InPoll(d))
    /\ Once(ppool[d]) /\ OnceB(rx_queue[Twin(d)])

BufferInv == \A d \in Dev : BuffersOf(d)

(***************************************************************************)
(* The queue, until something has happened.  Three may give a buffer of d  *)
(* back: the threads of d and of its twin, and the twin's poll.  Who has   *)
(* given one back and not left finds it in the pool; one of them, at most, *)
(* is going to wake the queue, and there is one while the queue is stopped *)
(* beside a pool that is not empty.                                        *)
(***************************************************************************)
At  == [d \in Dev |-> <<IF of[d] = d THEN pc[d] ELSE "idle",
                        IF of[Twin(d)] = d THEN pc[Twin(d)] ELSE "idle", poll[Twin(d)]>>]
Has == [d \in Dev |-> <<pkt[d], pkt[Twin(d)], ppkt[Twin(d)]>>]

Wakes(L, at, b, k) == at[k] \in Eyeing /\ b[k] \in L

Follows(P, L, S, at, b) ==
    /\ P = <<>> => S
    /\ \A k \in 1 .. 3 : at[k] \in Eyeing => /\ b[k] \in Elems(P)
                                             /\ b[k] \in L => S
                                             /\ at[k] = "wake" => b[k] \in L
    /\ \A j, k \in 1 .. 3 : Wakes(L, at, b, j) /\ Wakes(L, at, b, k) => j = k
    /\ S /\ P # <<>> => \E k \in 1 .. 3 : Wakes(L, at, b, k)

FollowsOf(d) == Follows(ppool[d], last[d], stopped[d], At[d], Has[d])

CalmOf(d) ==
    /\ stopped[d] => pc[d] # "buffer"
    /\ up[d] /\ pc[d] \notin TimingOut /\ cont[d] # "t_pool"

QueueInv == events = {} => \A d \in Dev : FollowsOf(d) /\ CalmOf(d)

(***************************************************************************)
(* The packets for an interface, those that its twin sent.                 *)
(***************************************************************************)
Upto(d) == 1 .. sent[d] - (IF pc[d] \in {"buffer", "enqueue"} THEN 1 ELSE 0)

Parts(N, R, Q, D) == /\ N = R \cup Q \cup D
                     /\ R \cap Q = {} /\ R \cap D = {} /\ Q \cap D = {}

PacketsOf(d) ==
    /\ Parts(Upto(Twin(d)), Elems(received[d]), Nums(rx_queue[d]), dropped[d])
    /\ Once(received[d]) /\ OnceN(rx_queue[d])

PacketInv == \A d \in Dev : PacketsOf(d) /\ (pc[d] \in {"buffer", "enqueue"} => sent[d] > 0)

(***************************************************************************)
(* The skbs of an interface whose twin has nothing to send.  A transmission*)
(* that has not yet interrupted has its own, and it is not freed; with NAPI*)
(* an skb that is remembered is not.                                       *)
(***************************************************************************)
InTx(d) == pc[d] \in Sending \/ (pc[d] \in Giving /\ cont[d] = "txread")

SkbsOf(d) ==
    /\ skb[d] <= sent[d] /\ (InTx(d) => sent[d] > 0)
    /\ sent[Twin(d)] = 0 /\ (use_napi \/ "timeout" \notin events) =>
        /\ Once(freed[d]) /\ \A m \in Elems(freed[d]) : m <= sent[d]
        /\ InTx(d) => skb[d] = sent[d] /\ sent[d] \notin Elems(freed[d])
        /\ use_napi /\ skb[d] # 0 => skb[d] \notin Elems(freed[d])
    /\ "timeout" \notin events => pc[d] \notin TimingOut /\ cont[d] # "t_pool"

SkbInv == \A d \in Dev : SkbsOf(d)

IInv == Types /\ CallInv /\ BufferInv /\ QueueInv /\ PacketInv /\ SkbInv

-----------------------------------------------------------------------------
(***************************************************************************)
(* The two interfaces, and sequences that lose their first element or get  *)
(* another one.                                                            *)
(***************************************************************************)
LEMMA TwinIs ==
    /\ \A d \in Dev : /\ Twin(d) \in Dev /\ Twin(d) # d /\ Twin(Twin(d)) = d
                      /\ \A e \in Dev : e = d \/ e = Twin(d)
    /\ NULL \notin Buffer
<1>1. PICK a, b \in Dev : a # b /\ Dev = {a, b}
  BY SnullAssumption
<1>2. \A d \in Dev : \E e \in Dev : e # d
  BY <1>1
<1>3. \A d \in Dev : Twin(d) \in Dev /\ Twin(d) # d
  BY <1>2 DEF Twin
<1> QED  BY <1>1, <1>3, SnullAssumption

Values(f, n)  == {f[i] : i \in 1 .. n}
Differ(f, n)  == \A i, j \in 1 .. n : f[i] = f[j] => i = j

LEMMA Shifted ==
    ASSUME NEW n \in Nat, NEW f, NEW g, \A i \in 1 .. n : g[i + 1] = f[i]
    PROVE  /\ Values(g, n + 1) = Values(f, n) \cup {g[1]}
           /\ Differ(g, n + 1) <=> Differ(f, n) /\ g[1] \notin Values(f, n)
<1>1. \A i \in 1 .. n + 1 : i = 1 \/ (i - 1 \in 1 .. n /\ g[i] = f[i - 1])
  <2> TAKE i \in 1 .. n + 1
  <2>1. i = 1 \/ (i - 1 \in 1 .. n /\ (i - 1) + 1 = i)
    OBVIOUS
  <2> QED  BY <2>1
<1>2. ASSUME NEW y \in Values(g, n + 1) PROVE y \in Values(f, n) \cup {g[1]}
  <2>1. PICK i \in 1 .. n + 1 : y = g[i]
    BY DEF Values
  <2> QED  BY <1>1, <2>1 DEF Values
<1>3. ASSUME NEW y \in Values(f, n) \cup {g[1]} PROVE y \in Values(g, n + 1)
  <2>1. 1 \in 1 .. n + 1 /\ \A i \in 1 .. n : i + 1 \in 1 .. n + 1
    OBVIOUS
  <2>2. CASE y = g[1]
    BY <2>1, <2>2 DEF Values
  <2>3. CASE y \in Values(f, n)
    <3>1. PICK i \in 1 .. n : y = f[i]
      BY <2>3 DEF Values
    <3> QED  BY <2>1, <3>1 DEF Values
  <2> QED  BY <2>2, <2>3
<1>4. ASSUME Differ(g, n + 1) PROVE Differ(f, n) /\ g[1] \notin Values(f, n)
  BY <1>4 DEF Differ, Values
<1>5. ASSUME Differ(f, n), g[1] \notin Values(f, n) PROVE Differ(g, n + 1)
  <2> SUFFICES ASSUME NEW i \in 1 .. n + 1, NEW j \in 1 .. n + 1, g[i] = g[j] PROVE i = j
    BY DEF Differ
  <2>1. CASE i = 1 \/ j = 1
    BY <1>1, <1>5, <2>1 DEF Values
  <2>2. CASE i # 1 /\ j # 1
    <3>1. i - 1 \in 1 .. n /\ j - 1 \in 1 .. n /\ f[i - 1] = f[j - 1]
      BY <1>1, <2>2
    <3>2. i - 1 = j - 1
      BY <1>5, <3>1 DEF Differ
    <3> QED  BY <3>2
  <2> QED  BY <2>1, <2>2
<1> QED  BY <1>2, <1>3, <1>4, <1>5

LEMMA TakeFirst ==
    ASSUME NEW S, NEW s \in Seq(S), s # <<>>
    PROVE  /\ Head(s) \in S /\ Tail(s) \in Seq(S)
           /\ Elems(s) = Elems(Tail(s)) \cup {Head(s)}
           /\ Once(s) => Once(Tail(s)) /\ Head(s) \notin Elems(Tail(s))
<1> DEFINE t == Tail(s)
<1>1. PICK n \in Nat : Len(s) = n + 1
  OBVIOUS
<1>2. /\ Head(s) = s[1] /\ Head(s) \in S /\ t \in Seq(S) /\ Len(t) = n
      /\ \A i \in 1 .. n : s[i + 1] = t[i]
  BY <1>1
<1> HIDE DEF t
<1>3. \A i \in 1 .. n : s[i + 1] = t[i]
  BY <1>2
<1>4. /\ Values(s, n + 1) = Values(t, n) \cup {s[1]}
      /\ Differ(s, n + 1) <=> Differ(t, n) /\ s[1] \notin Values(t, n)
  BY <1>3, Shifted
<1>5. /\ Elems(s) = Elems(t) \cup {Head(s)}
      /\ Once(s) => Once(t) /\ Head(s) \notin Elems(t)
  BY <1>1, <1>2, <1>4, Zenon DEF Values, Differ, Elems, Once
<1> QED  BY <1>2, <1>5 DEF t

LEMMA PutFirst ==
    ASSUME NEW S, NEW s \in Seq(S), NEW x \in S
    PROVE  /\ <<x>> \o s \in Seq(S) /\ <<x>> \o s # <<>>
           /\ Elems(<<x>> \o s) = Elems(s) \cup {x}
           /\ Once(s) /\ x \notin Elems(s) => Once(<<x>> \o s)
<1> DEFINE t == <<x>> \o s
<1>1. PICK n \in Nat : Len(s) = n
  OBVIOUS
<1>2. /\ t \in Seq(S) /\ Len(t) = n + 1 /\ t[1] = x /\ t # <<>>
      /\ \A i \in 1 .. n : t[i + 1] = s[i]
  BY <1>1
<1> HIDE DEF t
<1>3. /\ Values(t, n + 1) = Values(s, n) \cup {t[1]}
      /\ Differ(t, n + 1) <=> Differ(s, n) /\ t[1] \notin Values(s, n)
  BY <1>2, Shifted
<1>4. /\ Elems(t) = Elems(s) \cup {x}
      /\ Once(s) /\ x \notin Elems(s) => Once(t)
  BY <1>1, <1>2, <1>3, Zenon DEF Values, Differ, Elems, Once
<1> QED  BY <1>2, <1>4 DEF t

LEMMA PutLast ==
    ASSUME NEW S, NEW s \in Seq(S), NEW x \in S
    PROVE  /\ Append(s, x) \in Seq(S)
           /\ Elems(Append(s, x)) = Elems(s) \cup {x}
           /\ Once(s) /\ x \notin Elems(s) => Once(Append(s, x))
<1> DEFINE t == Append(s, x)
<1>1. PICK n \in Nat : Len(s) = n
  OBVIOUS
<1>2. /\ t \in Seq(S) /\ Len(t) = n + 1 /\ t[n + 1] = x
      /\ \A i \in 1 .. n : t[i] = s[i]
  BY <1>1
<1> HIDE DEF t
<1>3. \A i \in 1 .. n + 1 : i = n + 1 \/ i \in 1 .. n
  OBVIOUS
<1>4. n + 1 \in 1 .. n + 1 /\ \A i \in 1 .. n : i \in 1 .. n + 1
  OBVIOUS
<1>5. Elems(t) = Elems(s) \cup {x}
  <2>1. \A y \in Elems(t) : y \in Elems(s) \cup {x}
    BY <1>1, <1>2, <1>3, Zenon DEF Elems
  <2>2. \A y \in Elems(s) \cup {x} : y \in Elems(t)
    BY <1>1, <1>2, <1>4, Zenon DEF Elems
  <2> QED  BY <2>1, <2>2
<1>6. Once(s) /\ x \notin Elems(s) => Once(t)
  BY <1>1, <1>2, <1>3, Zenon DEF Once, Elems
<1> QED  BY <1>2, <1>5, <1>6 DEF t

LEMMA StackIs ==
    ASSUME NEW S, NEW n \in Nat, NEW s \in Stacks(S, n)
    PROVE  /\ s \in Seq(S) /\ Len(s) = n /\ Elems(s) \subseteq S /\ Bottom(s) \subseteq Elems(s)
           /\ Once(s)
<1>1. s \in [1 .. n -> S] /\ s \in Seq(S) /\ Len(s) = n
  BY DEF Stacks
<1>2. n # 0 => n \in 1 .. n
  OBVIOUS
<1>3. s = <<>> => Len(s) = 0
  OBVIOUS
<1>4. n = 0 => s = <<>>
  BY <1>1
<1> QED  BY <1>1, <1>2, <1>4 DEF Stacks, Elems, Bottom, Once

(***************************************************************************)
(* The same of a receive queue, of its buffers and of its packets.         *)
(***************************************************************************)
Queue == Seq([n : Nat, b : Buffer])

LEMMA QueueShifted ==
    ASSUME NEW n \in Nat, NEW q, NEW r, Len(q) = n, Len(r) = n + 1,
           \A i \in 1 .. n : r[i + 1] = q[i]
    PROVE  /\ Bufs(r) = Bufs(q) \cup {r[1].b} /\ Nums(r) = Nums(q) \cup {r[1].n}
           /\ OnceB(r) <=> OnceB(q) /\ r[1].b \notin Bufs(q)
           /\ OnceN(r) <=> OnceN(q) /\ r[1].n \notin Nums(q)
<1> DEFINE bq == [i \in 1 .. n |-> q[i].b]
           br == [i \in 1 .. n + 1 |-> r[i].b]
           nq == [i \in 1 .. n |-> q[i].n]
           nr == [i \in 1 .. n + 1 |-> r[i].n]
<1>1. 1 \in 1 .. n + 1 /\ \A i \in 1 .. n : i + 1 \in 1 .. n + 1
  OBVIOUS
<1>2. /\ \A i \in 1 .. n : br[i + 1] = bq[i] /\ nr[i + 1] = nq[i]
      /\ \A i \in 1 .. n : bq[i] = q[i].b /\ nq[i] = q[i].n
      /\ \A i \in 1 .. n + 1 : br[i] = r[i].b /\ nr[i] = r[i].n
  BY <1>1
<1>3. br[1] = r[1].b /\ nr[1] = r[1].n
  BY <1>1, <1>2
<1> HIDE DEF bq, br, nq, nr
<1>4. \A i \in 1 .. n : br[i + 1] = bq[i]
  BY <1>2
<1>5. \A i \in 1 .. n : nr[i + 1] = nq[i]
  BY <1>2
<1>6. /\ Values(br, n + 1) = Values(bq, n) \cup {br[1]}
      /\ Differ(br, n + 1) <=> Differ(bq, n) /\ br[1] \notin Values(bq, n)
  BY <1>4, Shifted
<1>7. /\ Values(nr, n + 1) = Values(nq, n) \cup {nr[1]}
      /\ Differ(nr, n + 1) <=> Differ(nq, n) /\ nr[1] \notin Values(nq, n)
  BY <1>5, Shifted
<1>8. Bufs(q) = Values(bq, n)
  <2>1. \A i \in 1 .. n : bq[i] = q[i].b
    BY <1>2
  <2> QED  BY <2>1 DEF Bufs, Values
<1>9. Nums(q) = Values(nq, n)
  <2>1. \A i \in 1 .. n : nq[i] = q[i].n
    BY <1>2
  <2> QED  BY <2>1 DEF Nums, Values
<1>10. Bufs(r) = Values(br, n + 1)
  <2>1. \A i \in 1 .. n + 1 : br[i] = r[i].b
    BY <1>2
  <2> QED  BY <2>1 DEF Bufs, Values
<1>11. Nums(r) = Values(nr, n + 1)
  <2>1. \A i \in 1 .. n + 1 : nr[i] = r[i].n
    BY <1>2
  <2> QED  BY <2>1 DEF Nums, Values
<1>12. /\ OnceB(q) <=> Differ(bq, n)
       /\ OnceB(r) <=> Differ(br, n + 1)
       /\ OnceN(q) <=> Differ(nq, n)
       /\ OnceN(r) <=> Differ(nr, n + 1)
  BY <1>2 DEF OnceB, OnceN, Differ
<1> QED  BY <1>3, <1>6, <1>7, <1>8, <1>9, <1>10, <1>11, <1>12, Zenon

LEMMA HeadAndTail ==
    ASSUME NEW S, NEW s \in Seq(S), s # <<>>
    PROVE  /\ Head(s) = s[1] /\ Head(s) \in S /\ Tail(s) \in Seq(S) /\ Tail(s) # s
           /\ \E n \in Nat : /\ Len(s) = n + 1 /\ Len(Tail(s)) = n
                             /\ \A i \in 1 .. n : s[i + 1] = Tail(s)[i]
<1>1. PICK n \in Nat : Len(s) = n + 1
  OBVIOUS
<1>2. /\ Head(s) = s[1] /\ Head(s) \in S /\ Tail(s) \in Seq(S) /\ Len(Tail(s)) = n
      /\ \A i \in 1 .. n : s[i + 1] = Tail(s)[i]
  BY <1>1
<1>3. Tail(s) # s
  BY <1>1, <1>2
<1> QED  BY <1>1, <1>2, <1>3

LEMMA Dequeued ==
    ASSUME NEW q \in Queue, q # <<>>
    PROVE  /\ Head(q).b \in Buffer /\ Head(q).n \in Nat /\ Tail(q) \in Queue /\ Tail(q) # q
           /\ Bufs(q) = Bufs(Tail(q)) \cup {Head(q).b}
           /\ Nums(q) = Nums(Tail(q)) \cup {Head(q).n}
           /\ OnceB(q) => OnceB(Tail(q)) /\ Head(q).b \notin Bufs(Tail(q))
           /\ OnceN(q) => OnceN(Tail(q)) /\ Head(q).n \notin Nums(Tail(q))
<1> DEFINE t == Tail(q)  h == Head(q)
<1>1. /\ h = q[1] /\ h \in [n : Nat, b : Buffer] /\ t \in Queue /\ t # q
      /\ \E n \in Nat : /\ Len(q) = n + 1 /\ Len(t) = n
                        /\ \A i \in 1 .. n : q[i + 1] = t[i]
  BY HeadAndTail, Zenon DEF Queue
<1> HIDE DEF t, h
<1>2. PICK n \in Nat : /\ Len(q) = n + 1 /\ Len(t) = n
                       /\ \A i \in 1 .. n : q[i + 1] = t[i]
  BY <1>1
<1>3. h.b \in Buffer /\ h.n \in Nat
  BY <1>1
<1>4. /\ Bufs(q) = Bufs(t) \cup {q[1].b} /\ Nums(q) = Nums(t) \cup {q[1].n}
      /\ OnceB(q) <=> OnceB(t) /\ q[1].b \notin Bufs(t)
      /\ OnceN(q) <=> OnceN(t) /\ q[1].n \notin Nums(t)
  BY <1>2, QueueShifted
<1> QED  BY <1>1, <1>3, <1>4, Zenon DEF t, h

LEMMA Enqueued ==
    ASSUME NEW q \in Queue, NEW m \in Nat, NEW c \in Buffer
    PROVE  LET r == <<[n |-> m, b |-> c]>> \o q
           IN  /\ r \in Queue /\ r # <<>>
               /\ Bufs(r) = Bufs(q) \cup {c} /\ Nums(r) = Nums(q) \cup {m}
               /\ OnceB(q) /\ c \notin Bufs(q) => OnceB(r)
               /\ OnceN(q) /\ m \notin Nums(q) => OnceN(r)
<1> DEFINE p == [n |-> m, b |-> c]
           r == <<p>> \o q
<1>1. p \in [n : Nat, b : Buffer] /\ p.n = m /\ p.b = c
  OBVIOUS
<1> HIDE DEF p
<1>2. PICK k \in Nat : Len(q) = k
  BY DEF Queue
<1>3. /\ r \in Queue /\ Len(r) = k + 1 /\ r[1] = p /\ r # <<>>
      /\ \A i \in 1 .. k : r[i + 1] = q[i]
  BY <1>1, <1>2 DEF Queue
<1> HIDE DEF r
<1>4. /\ Bufs(r) = Bufs(q) \cup {r[1].b} /\ Nums(r) = Nums(q) \cup {r[1].n}
      /\ OnceB(r) <=> OnceB(q) /\ r[1].b \notin Bufs(q)
      /\ OnceN(r) <=> OnceN(q) /\ r[1].n \notin Nums(q)
  BY <1>2, <1>3, QueueShifted
<1>5. r[1].b = c /\ r[1].n = m
  BY <1>1, <1>3
<1>6. /\ Bufs(r) = Bufs(q) \cup {c} /\ Nums(r) = Nums(q) \cup {m}
      /\ OnceB(q) /\ c \notin Bufs(q) => OnceB(r)
      /\ OnceN(q) /\ m \notin Nums(q) => OnceN(r)
  BY <1>4, <1>5, Zenon
<1> QED  BY <1>3, <1>6, Zenon DEF r, p
(***************************************************************************)
(* What e's interrupt handler, that d's thread runs, does to the queue: it *)
(* leaves it alone, or takes a packet, whose buffer is to be given back.   *)
(***************************************************************************)
Kept(d, to) ==
    /\ pc' = Set(pc, d, to)
    /\ UNCHANGED <<rx_queue, received, dropped, pkt, of, cont>>

Taken(d, e, to) ==
    /\ ~use_napi /\ rx_queue[e] # <<>>
    /\ Receive(e, Head(rx_queue[e]).n) /\ rx_queue' = Set(rx_queue, e, Tail(rx_queue[e]))
    /\ pc' = Set(pc, d, "release") /\ pkt' = Set(pkt, d, Head(rx_queue[e]).b)
    /\ of' = Set(of, d, Twin(e)) /\ cont' = Set(cont, d, to)

LEMMA InterruptIs ==
    ASSUME Types, NEW d \in Dev, NEW e \in Dev, NEW from, NEW to, Interrupt(d, from, e, to)
    PROVE  /\ pc[d] = from /\ status' = Set(status, e, {}) /\ FreeSkb(e)
           /\ Kept(d, to) \/ Taken(d, e, to)
           /\ UNCHANGED napi \/ (use_napi /\ napi' = Set(napi, e, "scheduled"))
           /\ UNCHANGED <<paramVars, poolVars, stopped, up, seen, pollVars, sent, events>>
<1> USE DEF Interrupt, Kept, Taken, giveVars, Go
<1>1. CASE use_napi
  <2>1. NapiInterrupt(e) /\ UNCHANGED <<rx_queue, received, dropped>>
    BY <1>1 DEF NapiInterrupt
  <2>2. Kept(d, to)
    BY <2>1
  <2>3. UNCHANGED napi \/ (use_napi /\ napi' = Set(napi, e, "scheduled"))
    BY <1>1, <2>1 DEF NapiInterrupt, Types, CallTypes, Set
  <2> QED  BY <2>1, <2>2, <2>3 DEF NapiInterrupt
<1>2. CASE ~use_napi
  <2>1. RegularInterrupt(e)
    BY <1>2
  <2>2. UNCHANGED napi /\ FreeSkb(e)
    BY <2>1 DEF RegularInterrupt
  <2>3. CASE "RX" \in status[e] /\ rx_queue[e] # <<>>
    <3>1. /\ Receive(e, Head(rx_queue[e]).n) /\ rx_queue' = Set(rx_queue, e, Tail(rx_queue[e]))
      BY <2>1, <2>3 DEF RegularInterrupt, Rest
    <3>2. rx_queue \in [Dev -> Queue]
      BY DEF Types, PrivTypes, Queue
    <3>3. rx_queue'[e] # rx_queue[e]
      BY <2>3, <3>1, <3>2, Dequeued DEF Set
    <3>4. Taken(d, e, to)
      BY <1>2, <2>3, <3>1, <3>3
    <3> QED  BY <2>2, <3>4
  <2>4. CASE ~("RX" \in status[e] /\ rx_queue[e] # <<>>)
    <3>1. UNCHANGED <<rx_queue, received, dropped>>
      BY <2>1, <2>4 DEF RegularInterrupt
    <3>2. Kept(d, to)
      BY <3>1
    <3> QED  BY <2>2, <3>2
  <2> QED  BY <2>3, <2>4
<1> QED  BY <1>1, <1>2

LEMMA CallTypesStep ==
    ASSUME Types, CallInv, NEW d \in Dev,
           Tx(d) \/ Transmitting(d) \/ Polling(d) \/ TxTimeout(d) \/ Close(d) \/ Open(d)
    PROVE  CallTypes'
<1>0. CallTypes
  BY DEF Types
<1> USE <1>0, TwinIs DEF CallTypes, Sending, Eyeing, Giving, TimingOut, Set, Go, Poll, paramVars,
                   poolVars, privVars, napiVars, giveVars, txVars, pollVars, hist
<1>1. CASE GetBuffer(d)
  <2>1. ppool[d] # <<>> /\ ppool[d] \in Seq(Buffer)
    BY <1>1 DEF GetBuffer, Types, PrivTypes
  <2>2. Head(ppool[d]) \in Buffer
    BY <2>1, TakeFirst
  <2> QED  BY <1>1, <2>2 DEF GetBuffer
<1>2. CASE Tx(d)
  BY <1>2 DEF Tx
<1>3. CASE NoBuffer(d)
  BY <1>3 DEF NoBuffer
<1>4. CASE Enqueue(d)
  BY <1>4 DEF Enqueue
<1>5. CASE RxInts(d)
  BY <1>5 DEF RxInts
<1>6. ASSUME NEW from, NEW e \in Dev, NEW flag \in Flag,
             NEW to \in {"rxwrite", "rxirq", "txwrite", "txirq", "t_write", "t_irq"},
             ReadStatus(d, from, e, to) \/ WriteStatus(d, from, e, flag, to)
      PROVE  CallTypes'
  <2>1. CASE ReadStatus(d, from, e, to)
    <3>1. status[e] \in SUBSET Flag
      BY DEF Types, PrivTypes
    <3> QED  BY <2>1, <3>1 DEF ReadStatus
  <2>2. CASE WriteStatus(d, from, e, flag, to)
    BY <2>2 DEF WriteStatus
  <2> QED  BY <1>6, <2>1, <2>2
<1>7. CASE FlagRx(d) \/ FlagTx(d)
  BY <1>6, <1>7 DEF FlagRx, FlagTx, Flag
<1>8. ASSUME NEW e \in Dev, NEW from, NEW to \in {"idle", "txread", "t_pool"},
             Interrupt(d, from, e, to)
      PROVE  CallTypes'
  <2>1. /\ Kept(d, to) \/ Taken(d, e, to)
        /\ UNCHANGED napi \/ napi' = Set(napi, e, "scheduled")
        /\ UNCHANGED <<seen, pollVars>>
    BY <1>8, InterruptIs
  <2>2. CASE Kept(d, to)
    BY <2>1, <2>2 DEF Kept
  <2>3. CASE Taken(d, e, to)
    <3>1. rx_queue[e] \in Queue /\ rx_queue[e] # <<>>
      BY <2>3 DEF Taken, Types, PrivTypes, Queue
    <3>2. Head(rx_queue[e]).b \in Buffer
      BY <3>1, Dequeued
    <3> QED  BY <2>1, <2>3, <3>2 DEF Taken
  <2> QED  BY <2>1, <2>2, <2>3
<1>9. CASE RxIrq(d) \/ TxIrq(d) \/ TimeoutIrq(d)
  BY <1>8, <1>9 DEF RxIrq, TxIrq, TimeoutIrq
<1>10. CASE Lockup(d)
  BY <1>10 DEF Lockup
<1>11. CASE ReleaseBuffer(d)
  BY <1>11 DEF ReleaseBuffer
<1>12. CASE LookStopped(d)
  BY <1>12 DEF LookStopped, Leave
<1>13. CASE LookNext(d)
  BY <1>13 DEF LookNext, Leave
<1>14. CASE WakeQueue(d)
  BY <1>14 DEF WakeQueue, Leave
<1>15. CASE ResetPool(d)
  BY <1>15 DEF ResetPool
<1>16. CASE TimeoutWake(d)
  BY <1>16 DEF TimeoutWake
<1>17. CASE PollBegin(d)
  BY <1>17 DEF PollBegin
<1>18. CASE PollLoop(d)
  BY <1>18 DEF PollLoop
<1>19. CASE PollDequeue(d)
  <2>1. rx_queue[d] \in Queue /\ rx_queue[d] # <<>>
    BY <1>19 DEF PollDequeue, CallInv, Types, PrivTypes, Queue
  <2>2. Head(rx_queue[d]).b \in Buffer
    BY <2>1, Dequeued
  <2> QED  BY <1>19, <2>2 DEF PollDequeue
<1>20. CASE PollRelease(d)
  BY <1>20 DEF PollRelease
<1>21. CASE PollLook(d)
  BY <1>21 DEF PollLook, PollLeave
<1>22. CASE PollNext(d)
  BY <1>22 DEF PollNext, PollLeave
<1>23. CASE PollWake(d)
  BY <1>23 DEF PollWake, PollLeave
<1>24. CASE PollEnd(d)
  BY <1>24 DEF PollEnd
<1>25. CASE TxTimeout(d)
  BY <1>25 DEF TxTimeout
<1>26. CASE Close(d)
  BY <1>26 DEF Close
<1>27. CASE Open(d)
  BY <1>27 DEF Open
<1> QED  BY <1>1, <1>2, <1>3, <1>4, <1>5, <1>7, <1>9, <1>10, <1>11, <1>12, <1>13, <1>14, <1>15,
            <1>16, <1>17, <1>18, <1>19, <1>20, <1>21, <1>22, <1>23, <1>24, <1>25, <1>26, <1>27
            DEF Transmitting, Polling, Release

LEMMA PrivTypesStep ==
    ASSUME Types, CallInv, NEW d \in Dev,
           Tx(d) \/ Transmitting(d) \/ Polling(d) \/ TxTimeout(d) \/ Close(d) \/ Open(d)
    PROVE  PrivTypes'
<1>0. PrivTypes
  BY DEF Types
<1> USE <1>0, TwinIs DEF PrivTypes, Flag, Set, Go, Poll, paramVars,
                   poolVars, privVars, napiVars, giveVars, txVars, pollVars, hist
<1>1. CASE GetBuffer(d)
  <2>1. ppool[d] # <<>> /\ ppool[d] \in Seq(Buffer)
    BY <1>1 DEF GetBuffer
  <2>2. Tail(ppool[d]) \in Seq(Buffer)
    BY <2>1, TakeFirst
  <2> QED  BY <1>1, <2>2 DEF GetBuffer
<1>2. CASE Tx(d)
  <2>1. sent'[d] \in Nat
    BY <1>2 DEF Tx, Types, HistTypes
  <2> QED  BY <1>2, <2>1 DEF Tx
<1>3. CASE NoBuffer(d)
  BY <1>3 DEF NoBuffer
<1>4. CASE Enqueue(d)
  <2>1. pkt[d] \in Buffer /\ sent[d] \in Nat /\ rx_queue[Twin(d)] \in Queue
    BY <1>4 DEF Enqueue, CallInv, Types, HistTypes, Queue
  <2>2. <<[n |-> sent[d], b |-> pkt[d]]>> \o rx_queue[Twin(d)] \in Seq([n : Nat, b : Buffer])
    BY <2>1, Enqueued, Zenon DEF Queue
  <2> QED  BY <1>4, <2>1, <2>2 DEF Enqueue
<1>5. CASE RxInts(d)
  BY <1>5 DEF RxInts
<1>6. ASSUME NEW from, NEW to, NEW e \in Dev, NEW flag \in Flag,
             ReadStatus(d, from, e, to) \/ WriteStatus(d, from, e, flag, to)
      PROVE  PrivTypes'
  <2>1. CASE ReadStatus(d, from, e, to)
    BY <2>1 DEF ReadStatus
  <2>2. CASE WriteStatus(d, from, e, flag, to)
    <3>1. seen[d] \cup {flag} \in SUBSET Flag
      BY DEF Types, CallTypes
    <3> QED  BY <2>2, <3>1 DEF WriteStatus
  <2> QED  BY <1>6, <2>1, <2>2
<1>7. CASE FlagRx(d) \/ FlagTx(d)
  BY <1>6, <1>7 DEF FlagRx, FlagTx, Flag
<1>8. ASSUME NEW e \in Dev, NEW from, NEW to, Interrupt(d, from, e, to)
      PROVE  PrivTypes'
  <2>1. /\ status' = Set(status, e, {}) /\ FreeSkb(e)
        /\ Kept(d, to) \/ Taken(d, e, to)
        /\ UNCHANGED <<paramVars, poolVars, stopped, up>>
    BY <1>8, InterruptIs
  <2>2. skb' \in [Dev -> Nat]
    BY <2>1 DEF FreeSkb
  <2>3. rx_queue' \in [Dev -> Seq([n : Nat, b : Buffer])]
    <3>1. CASE Kept(d, to)
      BY <3>1 DEF Kept
    <3>2. CASE Taken(d, e, to)
      <4>1. rx_queue[e] \in Queue /\ rx_queue[e] # <<>>
        BY <3>2 DEF Taken, Queue
      <4>2. Tail(rx_queue[e]) \in Seq([n : Nat, b : Buffer])
        BY <4>1, Dequeued DEF Queue
      <4> QED  BY <3>2, <4>2 DEF Taken
    <3> QED  BY <2>1, <3>1, <3>2
  <2> QED  BY <2>1, <2>2, <2>3
<1>9. CASE RxIrq(d) \/ TxIrq(d) \/ TimeoutIrq(d)
  BY <1>8, <1>9 DEF RxIrq, TxIrq, TimeoutIrq
<1>10. CASE Lockup(d)
  BY <1>10 DEF Lockup
<1>11. ASSUME NEW e \in Dev, NEW b \in Buffer, GiveBack(e, b)
      PROVE  ppool' \in [Dev -> Seq(Buffer)] /\ last' \in [Dev -> SUBSET Buffer]
  <2>1. <<b>> \o ppool[e] \in Seq(Buffer)
    BY PutFirst
  <2>2. /\ ppool' = Set(ppool, e, <<b>> \o ppool[e])
        /\ last' = Set(last, e, IF WasEmpty(e) THEN last[e] \cup {b} ELSE last[e] \ {b})
    BY <1>11 DEF GiveBack, Giver
  <2> QED  BY <2>1, <2>2
<1>12. CASE ReleaseBuffer(d)
  <2>1. of[d] \in Dev /\ pkt[d] \in Buffer
    BY <1>12 DEF ReleaseBuffer, CallInv, Types, CallTypes, Giving
  <2>2. GiveBack(of[d], pkt[d])
    BY <1>12 DEF ReleaseBuffer
  <2> QED  BY <1>11, <1>12, <2>1, <2>2 DEF ReleaseBuffer
<1>13. CASE PollRelease(d)
  <2>1. Twin(d) \in Dev /\ ppkt[d] \in Buffer
    BY <1>13 DEF PollRelease, CallInv, Giving
  <2>2. GiveBack(Twin(d), ppkt[d])
    BY <1>13 DEF PollRelease
  <2> QED  BY <1>11, <1>13, <2>1, <2>2 DEF PollRelease
<1>14. CASE LookStopped(d)
  BY <1>14 DEF LookStopped, Leave
<1>15. CASE LookNext(d)
  BY <1>15 DEF LookNext, Leave
<1>16. CASE WakeQueue(d)
  <2>1. of[d] \in Dev
    BY DEF Types, CallTypes
  <2> QED  BY <1>16, <2>1 DEF WakeQueue
<1>17. CASE ResetPool(d)
  <2>1. PICK n \in 0 .. pool_size : \E s \in Stacks(Buffer \ (heap[d] \ Elems(ppool[d])), n) :
           /\ ppool' = Set(ppool, d, s)
           /\ heap' = Set(heap, d, (heap[d] \ Elems(ppool[d])) \cup Elems(s))
           /\ last' = Set(last, d, (last[d] \ (Elems(ppool[d]) \cup Elems(s))) \cup Bottom(s))
    BY <1>17 DEF ResetPool
  <2>2. PICK s \in Stacks(Buffer \ (heap[d] \ Elems(ppool[d])), n) :
           /\ ppool' = Set(ppool, d, s)
           /\ heap' = Set(heap, d, (heap[d] \ Elems(ppool[d])) \cup Elems(s))
           /\ last' = Set(last, d, (last[d] \ (Elems(ppool[d]) \cup Elems(s))) \cup Bottom(s))
    BY <2>1
  <2>3. n \in Nat
    OBVIOUS
  <2>4. /\ s \in Seq(Buffer \ (heap[d] \ Elems(ppool[d])))
        /\ Elems(s) \subseteq Buffer /\ Bottom(s) \subseteq Buffer
    BY <2>3, StackIs
  <2>5. s \in Seq(Buffer)
    BY <2>4
  <2> QED  BY <1>17, <2>2, <2>4, <2>5 DEF ResetPool
<1>18. CASE TimeoutWake(d)
  BY <1>18 DEF TimeoutWake
<1>19. CASE PollBegin(d)
  BY <1>19 DEF PollBegin
<1>20. CASE PollLoop(d)
  BY <1>20 DEF PollLoop
<1>21. CASE PollDequeue(d)
  <2>1. rx_queue[d] \in Queue /\ rx_queue[d] # <<>>
    BY <1>21 DEF PollDequeue, CallInv, Queue
  <2>2. Tail(rx_queue[d]) \in Seq([n : Nat, b : Buffer])
    BY <2>1, Dequeued DEF Queue
  <2> QED  BY <1>21, <2>2 DEF PollDequeue, Rest
<1>22. CASE PollLook(d)
  BY <1>22 DEF PollLook, PollLeave
<1>23. CASE PollNext(d)
  BY <1>23 DEF PollNext, PollLeave
<1>24. CASE PollWake(d)
  BY <1>24 DEF PollWake, PollLeave
<1>25. CASE PollEnd(d)
  BY <1>25 DEF PollEnd
<1>26. CASE TxTimeout(d)
  BY <1>26 DEF TxTimeout
<1>27. CASE Close(d)
  BY <1>27 DEF Close
<1>28. CASE Open(d)
  BY <1>28 DEF Open
<1> QED  BY <1>1, <1>2, <1>3, <1>4, <1>5, <1>7, <1>9, <1>10, <1>12, <1>13, <1>14, <1>15, <1>16,
            <1>17, <1>18, <1>19, <1>20, <1>21, <1>22, <1>23, <1>24, <1>25, <1>26, <1>27, <1>28
            DEF Transmitting, Polling, Release

LEMMA HistTypesStep ==
    ASSUME Types, CallInv, NEW d \in Dev,
           Tx(d) \/ Transmitting(d) \/ Polling(d) \/ TxTimeout(d) \/ Close(d) \/ Open(d)
    PROVE  HistTypes'
<1>0. HistTypes
  BY DEF Types
<1> USE <1>0, TwinIs DEF HistTypes, Set, Go, Poll, paramVars,
                   poolVars, privVars, napiVars, giveVars, txVars, pollVars, hist
<1>1. ASSUME NEW e \in Dev, NEW m \in Nat, Receive(e, m)
      PROVE  received' \in [Dev -> Seq(Nat)] /\ dropped' \in [Dev -> SUBSET Nat]
  <2>1. Append(received[e], m) \in Seq(Nat) /\ dropped[e] \cup {m} \in SUBSET Nat
    BY PutLast
  <2>2. CASE received' = Set(received, e, Append(received[e], m)) /\ UNCHANGED dropped
    BY <2>1, <2>2
  <2>3. CASE dropped' = Set(dropped, e, dropped[e] \cup {m}) /\ UNCHANGED received
    BY <2>1, <2>3
  <2> QED  BY <1>1, <2>2, <2>3 DEF Receive
<1>2. CASE Tx(d)
  BY <1>2 DEF Tx
<1>3. CASE GetBuffer(d)
  BY <1>3 DEF GetBuffer
<1>4. CASE NoBuffer(d)
  BY <1>4 DEF NoBuffer
<1>5. CASE Enqueue(d)
  BY <1>5 DEF Enqueue
<1>6. CASE RxInts(d)
  BY <1>6 DEF RxInts
<1>7. CASE FlagRx(d) \/ FlagTx(d)
  BY <1>7 DEF FlagRx, FlagTx, ReadStatus, WriteStatus
<1>8. ASSUME NEW e \in Dev, NEW from, NEW to, Interrupt(d, from, e, to)
      PROVE  HistTypes'
  <2>1. FreeSkb(e) /\ (Kept(d, to) \/ Taken(d, e, to)) /\ UNCHANGED sent
    BY <1>8, InterruptIs
  <2>2. freed' \in [Dev -> Seq(Nat)]
    <3>1. Append(freed[e], skb[e]) \in Seq(Nat)
      BY PutLast DEF Types, PrivTypes
    <3>2. UNCHANGED freed \/ freed' = Set(freed, e, Append(freed[e], skb[e]))
      BY <2>1 DEF FreeSkb
    <3> QED  BY <3>1, <3>2
  <2>3. CASE Kept(d, to)
    BY <2>1, <2>2, <2>3 DEF Kept
  <2>4. CASE Taken(d, e, to)
    <3>1. rx_queue[e] \in Queue /\ rx_queue[e] # <<>>
      BY <2>4 DEF Taken, Queue, Types, PrivTypes
    <3>2. Head(rx_queue[e]).n \in Nat
      BY <3>1, Dequeued
    <3>3. Receive(e, Head(rx_queue[e]).n)
      BY <2>4 DEF Taken
    <3> QED  BY <1>1, <2>1, <2>2, <3>2, <3>3
  <2> QED  BY <2>1, <2>3, <2>4
<1>9. CASE RxIrq(d) \/ TxIrq(d) \/ TimeoutIrq(d)
  BY <1>8, <1>9 DEF RxIrq, TxIrq, TimeoutIrq
<1>10. CASE Lockup(d)
  BY <1>10 DEF Lockup
<1>11. CASE ReleaseBuffer(d)
  BY <1>11 DEF ReleaseBuffer
<1>12. CASE LookStopped(d)
  BY <1>12 DEF LookStopped, Leave
<1>13. CASE LookNext(d)
  BY <1>13 DEF LookNext, Leave
<1>14. CASE WakeQueue(d)
  BY <1>14 DEF WakeQueue, Leave
<1>15. CASE ResetPool(d)
  BY <1>15 DEF ResetPool
<1>16. CASE TimeoutWake(d)
  BY <1>16 DEF TimeoutWake
<1>17. CASE PollBegin(d)
  BY <1>17 DEF PollBegin
<1>18. CASE PollLoop(d)
  BY <1>18 DEF PollLoop
<1>19. CASE PollDequeue(d)
  <2>1. rx_queue[d] \in Queue /\ rx_queue[d] # <<>>
    BY <1>19 DEF PollDequeue, CallInv, Types, PrivTypes, Queue
  <2>2. Head(rx_queue[d]).n \in Nat
    BY <2>1, Dequeued
  <2> QED  BY <1>1, <1>19, <2>2 DEF PollDequeue
<1>20. CASE PollRelease(d)
  BY <1>20 DEF PollRelease
<1>21. CASE PollLook(d)
  BY <1>21 DEF PollLook, PollLeave
<1>22. CASE PollNext(d)
  BY <1>22 DEF PollNext, PollLeave
<1>23. CASE PollWake(d)
  BY <1>23 DEF PollWake, PollLeave
<1>24. CASE PollEnd(d)
  BY <1>24 DEF PollEnd
<1>25. CASE TxTimeout(d)
  BY <1>25 DEF TxTimeout
<1>26. CASE Close(d)
  BY <1>26 DEF Close
<1>27. CASE Open(d)
  BY <1>27 DEF Open
<1> QED  BY <1>2, <1>3, <1>4, <1>5, <1>6, <1>7, <1>9, <1>10, <1>11, <1>12, <1>13, <1>14, <1>15,
            <1>16, <1>17, <1>18, <1>19, <1>20, <1>21, <1>22, <1>23, <1>24, <1>25, <1>26, <1>27
            DEF Transmitting, Polling, Release

LEMMA CallInvStep ==
    ASSUME Types, CallInv, NEW d \in Dev,
           Tx(d) \/ Transmitting(d) \/ Polling(d) \/ TxTimeout(d) \/ Close(d) \/ Open(d)
    PROVE  CallInv'
<1>0. CallTypes /\ rx_queue \in [Dev -> Queue]
  BY DEF Types, PrivTypes, Queue
<1> USE <1>0, TwinIs DEF CallInv, CallTypes, Sending, Eyeing, Giving, TimingOut, Set, Go, Poll,
                   paramVars, poolVars, privVars, napiVars, giveVars, txVars, pollVars, hist
<1>1. CASE GetBuffer(d)
  <2>1. ppool[d] # <<>> /\ ppool[d] \in Seq(Buffer)
    BY <1>1 DEF GetBuffer, Types, PrivTypes
  <2>2. Head(ppool[d]) \in Buffer
    BY <2>1, TakeFirst
  <2> QED  BY <1>1, <2>2 DEF GetBuffer
<1>2. CASE Tx(d)
  BY <1>2 DEF Tx
<1>3. CASE NoBuffer(d)
  BY <1>3 DEF NoBuffer
<1>4. CASE Enqueue(d)
  <2>1. pkt[d] \in Buffer /\ sent[d] \in Nat /\ rx_queue[Twin(d)] \in Queue
    BY <1>4 DEF Enqueue, Types, HistTypes
  <2>2. rx_queue'[Twin(d)] # <<>> /\ \A e \in Dev : e # Twin(d) => rx_queue'[e] = rx_queue[e]
    BY <1>4, <2>1, Enqueued DEF Enqueue
  <2> QED  BY <1>4, <2>2 DEF Enqueue
<1>5. CASE RxInts(d)
  BY <1>5 DEF RxInts
<1>6. CASE FlagRx(d)
  BY <1>6 DEF FlagRx, ReadStatus, WriteStatus
<1>7. CASE FlagTx(d)
  BY <1>7 DEF FlagTx, ReadStatus, WriteStatus
<1>8. ASSUME NEW e \in Dev, NEW from, NEW to \in {"idle", "txread", "t_pool"},
             Interrupt(d, from, e, to)
      PROVE  CallInv'
  <2>1. /\ Kept(d, to) \/ Taken(d, e, to)
        /\ UNCHANGED napi \/ (use_napi /\ napi' = Set(napi, e, "scheduled"))
        /\ UNCHANGED <<use_napi, pollVars>>
    BY <1>8, InterruptIs
  <2>2. CASE Kept(d, to)
    BY <2>1, <2>2 DEF Kept
  <2>3. CASE Taken(d, e, to)
    <3>1. rx_queue[e] \in Queue /\ rx_queue[e] # <<>>
      BY <2>3 DEF Taken
    <3>2. Head(rx_queue[e]).b \in Buffer
      BY <3>1, Dequeued
    <3> QED  BY <2>1, <2>3, <3>2 DEF Taken
  <2> QED  BY <2>1, <2>2, <2>3
<1>9. CASE RxIrq(d) \/ TxIrq(d) \/ TimeoutIrq(d)
  BY <1>8, <1>9 DEF RxIrq, TxIrq, TimeoutIrq
<1>10. CASE Lockup(d)
  BY <1>10 DEF Lockup
<1>11. CASE ReleaseBuffer(d)
  BY <1>11 DEF ReleaseBuffer
<1>12. CASE LookStopped(d)
  BY <1>12 DEF LookStopped, Leave
<1>13. CASE LookNext(d)
  BY <1>13 DEF LookNext, Leave
<1>14. CASE WakeQueue(d)
  BY <1>14 DEF WakeQueue, Leave
<1>15. CASE ResetPool(d)
  BY <1>15 DEF ResetPool
<1>16. CASE TimeoutWake(d)
  BY <1>16 DEF TimeoutWake
<1>17. CASE PollBegin(d)
  BY <1>17 DEF PollBegin
<1>18. CASE PollLoop(d)
  BY <1>18 DEF PollLoop
<1>19. CASE PollDequeue(d)
  <2>1. rx_queue[d] \in Queue /\ rx_queue[d] # <<>>
    BY <1>19 DEF PollDequeue
  <2>2. Head(rx_queue[d]).b \in Buffer
    BY <2>1, Dequeued
  <2> QED  BY <1>19, <2>2 DEF PollDequeue
<1>20. CASE PollRelease(d)
  BY <1>20 DEF PollRelease
<1>21. CASE PollLook(d)
  BY <1>21 DEF PollLook, PollLeave
<1>22. CASE PollNext(d)
  BY <1>22 DEF PollNext, PollLeave
<1>23. CASE PollWake(d)
  BY <1>23 DEF PollWake, PollLeave
<1>24. CASE PollEnd(d)
  BY <1>24 DEF PollEnd
<1>25. CASE TxTimeout(d)
  BY <1>25 DEF TxTimeout
<1>26. CASE Close(d)
  BY <1>26 DEF Close
<1>27. CASE Open(d)
  BY <1>27 DEF Open
<1> QED  BY <1>1, <1>2, <1>3, <1>4, <1>5, <1>6, <1>7, <1>9, <1>10, <1>11, <1>12, <1>13,
            <1>14, <1>15, <1>16, <1>17, <1>18, <1>19, <1>20, <1>21, <1>22, <1>23, <1>24,
            <1>25, <1>26, <1>27
            DEF Transmitting, Polling, Release

(***************************************************************************)
(* The buffers: a step moves one at most from its place to another, or     *)
(* makes a pool anew.                                                      *)
(***************************************************************************)
LEMMA PoolToHand ==
    ASSUME NEW h, NEW P, NEW Q, NEW B, NEW C, NEW b, b \notin P,
           Apart(h, P \cup {b}, Q, {}, B, C)
    PROVE  Apart(h, P, Q, {b}, B, C)
<1> QED  BY DEF Apart

LEMMA HandToQueue ==
    ASSUME NEW h, NEW P, NEW Q, NEW B, NEW C, NEW b, Apart(h, P, Q, {b}, B, C)
    PROVE  Apart(h, P, Q \cup {b}, {}, B, C)
<1> QED  BY DEF Apart

LEMMA QueueToHand ==
    ASSUME NEW h, NEW P, NEW Q, NEW B, NEW C, NEW b, b \notin Q,
           Apart(h, P, Q \cup {b}, {}, B, C)
    PROVE  Apart(h, P, Q, {b}, B, C)
<1> QED  BY DEF Apart

LEMMA HandToPool ==
    ASSUME NEW h, NEW P, NEW Q, NEW B, NEW C, NEW b, Apart(h, P, Q, {b}, B, C)
    PROVE  Apart(h, P \cup {b}, Q, {}, B, C)
<1> QED  BY DEF Apart

LEMMA PoolAnew ==
    ASSUME NEW h, NEW P, NEW Q, NEW A, NEW B, NEW C, NEW S, Apart(h, P, Q, A, B, C),
           S \cap (h \ P) = {}
    PROVE  Apart((h \ P) \cup S, S, Q, A, B, C)
<1> QED  BY DEF Apart

LEMMA ApartSwaps ==
    ASSUME NEW h, NEW P, NEW Q, NEW A, NEW B, NEW C, Apart(h, P, Q, A, B, C)
    PROVE  Apart(h, P, Q, B, A, C) /\ Apart(h, P, Q, C, B, A)
<1> QED  BY DEF Apart

Quiet(x) == \/ UNCHANGED <<pc[x], of[x], pkt[x]>>
            \/ pc[x] \notin {"enqueue", "release"} /\ pc'[x] \notin {"enqueue", "release"}

QuietPoll(x) == \/ UNCHANGED <<poll[x], ppkt[x]>>
                \/ poll[x] # "release" /\ poll'[x] # "release"

LEMMA HandsKept ==
    ASSUME NEW d \in Dev
    PROVE  /\ \A x \in Dev : Quiet(x) => InHand(d, x)' = InHand(d, x)
           /\ QuietPoll(Twin(d)) => InPoll(d)' = InPoll(d)
<1> QED  BY DEF Quiet, QuietPoll, InHand, InPoll

LEMMA BuffersStay ==
    ASSUME NEW d \in Dev, BuffersOf(d),
           UNCHANGED <<heap[d], ppool[d], rx_queue[Twin(d)],
                       InHand(d, d), InHand(d, Twin(d)), InPoll(d)>>
    PROVE  BuffersOf(d)'
<1> QED  BY DEF BuffersOf, Elems, Bufs, Once, OnceB

LEMMA NothingMoves ==
    ASSUME BufferInv, UNCHANGED <<heap, ppool, rx_queue>>,
           \A x \in Dev : Quiet(x) /\ QuietPoll(x)
    PROVE  BufferInv'
<1> SUFFICES ASSUME NEW d \in Dev PROVE BuffersOf(d)'
  BY DEF BufferInv
<1>1. Twin(d) \in Dev
  BY TwinIs
<1>2. UNCHANGED <<InHand(d, d), InHand(d, Twin(d)), InPoll(d)>>
  BY <1>1, HandsKept
<1> QED  BY <1>2, BuffersStay DEF BufferInv

LEMMA BuffersOfBoth ==
    ASSUME NEW d \in Dev, BuffersOf(d)', BuffersOf(Twin(d))'
    PROVE  BufferInv'
<1> SUFFICES ASSUME NEW x \in Dev PROVE BuffersOf(x)'
  BY DEF BufferInv
<1>1. CASE x = d
  BY <1>1
<1>2. CASE x = Twin(d)
  BY <1>2
<1> QED  BY <1>1, <1>2, TwinIs

(* Looking at the flow control, a device holds no buffer to give.           *)
LEMMA LookingMoves ==
    ASSUME CallTypes, NEW d \in Dev, LookStopped(d) \/ LookNext(d) \/ WakeQueue(d)
    PROVE  /\ UNCHANGED <<heap, ppool, rx_queue>>
           /\ \A x \in Dev : Quiet(x) /\ QuietPoll(x)
<1>1. UNCHANGED <<heap, ppool, rx_queue, poll, ppkt>>
  BY DEF LookStopped, LookNext, WakeQueue, Leave, privVars, poolVars, pollVars
<1>2. PICK from \in {"look", "next", "wake"}, to \in {"next", "wake", cont[d]} : Go(d, from, to)
  BY DEF LookStopped, LookNext, WakeQueue, Leave
<1>3. pc[d] = from /\ pc'[d] = to /\ \A x \in Dev : x # d => pc'[x] = pc[x]
  BY <1>2 DEF Go, Set, CallTypes
<1>4. \A x \in Dev : x # d => of'[x] = of[x] /\ pkt'[x] = pkt[x]
  BY DEF LookStopped, LookNext, WakeQueue, Leave, giveVars, Set, CallTypes
<1>5. cont[d] \in {"idle", "txread", "t_pool"}
  BY DEF CallTypes
<1>6. pc[d] \notin {"enqueue", "release"} /\ pc'[d] \notin {"enqueue", "release"}
  BY <1>3, <1>5
<1> QED  BY <1>1, <1>3, <1>4, <1>6 DEF Quiet, QuietPoll

LEMMA BufferInvStep ==
    ASSUME Types, CallInv, BufferInv, NEW d \in Dev,
           Tx(d) \/ Transmitting(d) \/ Polling(d) \/ TxTimeout(d) \/ Close(d) \/ Open(d)
    PROVE  BufferInv'
<1>0. /\ CallTypes /\ ppool \in [Dev -> Seq(Buffer)] /\ rx_queue \in [Dev -> Queue]
      /\ heap \in [Dev -> SUBSET Buffer]
  BY DEF Types, PrivTypes, Queue
<1> USE <1>0, TwinIs DEF CallTypes, Set, Go, Poll, paramVars,
                   poolVars, privVars, napiVars, giveVars, txVars, pollVars, hist
<1>1. CASE Tx(d)
  BY <1>1, NothingMoves DEF Tx, Quiet, QuietPoll
<1>2. CASE GetBuffer(d)
  <2> DEFINE b == Head(ppool[d])
             r == Tail(ppool[d])
  <2>1. ppool[d] # <<>> /\ Once(ppool[d])
    BY <1>2 DEF GetBuffer, BufferInv, BuffersOf
  <2>2. Elems(ppool[d]) = Elems(r) \cup {b} /\ Once(r) /\ b \notin Elems(r)
    BY <2>1, TakeFirst
  <2> HIDE DEF b, r
  <2>3. /\ ppool'[d] = r /\ rx_queue' = rx_queue /\ heap' = heap
        /\ InHand(d, d) = {} /\ InHand(d, d)' = {b}
    BY <1>2 DEF GetBuffer, InHand, b, r
  <2>4. InHand(d, Twin(d))' = InHand(d, Twin(d)) /\ InPoll(d)' = InPoll(d)
    BY <1>2, HandsKept DEF GetBuffer, Quiet, QuietPoll
  <2>5. /\ Apart(heap[d], Elems(r) \cup {b}, Bufs(rx_queue[Twin(d)]),
                 {}, InHand(d, Twin(d)), InPoll(d))
        /\ OnceB(rx_queue[Twin(d)])
    BY <2>2, <2>3 DEF BufferInv, BuffersOf
  <2>6. Apart(heap[d], Elems(r), Bufs(rx_queue[Twin(d)]), {b}, InHand(d, Twin(d)), InPoll(d))
    BY <2>2, <2>5, PoolToHand, Zenon
  <2>7. BuffersOf(d)'
    BY <2>2, <2>3, <2>4, <2>5, <2>6 DEF BuffersOf
  <2>8. UNCHANGED <<heap[Twin(d)], ppool[Twin(d)], rx_queue[d]>>
    BY <1>2 DEF GetBuffer
  <2>9. UNCHANGED <<InHand(Twin(d), Twin(d)), InPoll(Twin(d))>>
    BY <1>2, HandsKept DEF GetBuffer, Quiet, QuietPoll
  <2>10. InHand(Twin(d), d) = {} /\ InHand(Twin(d), d)' = {}
    BY <1>2 DEF GetBuffer, InHand
  <2>11. BuffersOf(Twin(d))'
    BY <2>8, <2>9, <2>10, BuffersStay DEF BufferInv
  <2> QED  BY <2>7, <2>11 DEF BufferInv
<1>3. CASE NoBuffer(d)
  BY <1>3, NothingMoves DEF NoBuffer, Quiet, QuietPoll
<1>4. CASE Enqueue(d)
  <2> DEFINE b == pkt[d]
             q == rx_queue[Twin(d)]
             r == <<[n |-> sent[d], b |-> b]>> \o q
  <2>1. b \in Buffer /\ sent[d] \in Nat /\ q \in Queue
    BY <1>4 DEF Enqueue, CallInv, Types, HistTypes
  <2>2. Bufs(r) = Bufs(q) \cup {b} /\ (OnceB(q) /\ b \notin Bufs(q) => OnceB(r))
    BY <2>1, Enqueued
  <2>3. /\ ppool' = ppool /\ rx_queue'[Twin(d)] = r /\ heap' = heap
        /\ InHand(d, d) = {b} /\ InHand(d, d)' = {}
    BY <1>4 DEF Enqueue, InHand
  <2> HIDE DEF b, r
  <2>4. InHand(d, Twin(d))' = InHand(d, Twin(d)) /\ InPoll(d)' = InPoll(d)
    BY <1>4, HandsKept DEF Enqueue, Quiet, QuietPoll
  <2>5. /\ Apart(heap[d], Elems(ppool[d]), Bufs(q), {b}, InHand(d, Twin(d)), InPoll(d))
        /\ OnceB(q) /\ Once(ppool[d])
    BY <2>2, <2>3 DEF BufferInv, BuffersOf
  <2>6. Apart(heap[d], Elems(ppool[d]), Bufs(q) \cup {b}, {}, InHand(d, Twin(d)), InPoll(d))
    BY <2>5, HandToQueue, Zenon
  <2>7. BuffersOf(d)'
    <3>1. b \notin Bufs(q)
      BY <2>5 DEF Apart
    <3> QED  BY <2>2, <2>3, <2>4, <2>5, <2>6, <3>1 DEF BuffersOf
  <2>8. UNCHANGED <<heap[Twin(d)], ppool[Twin(d)], rx_queue[d]>>
    BY <1>4 DEF Enqueue
  <2>9. UNCHANGED <<InHand(Twin(d), Twin(d)), InPoll(Twin(d))>>
    BY <1>4, HandsKept DEF Enqueue, Quiet, QuietPoll
  <2>10. InHand(Twin(d), d) = {} /\ InHand(Twin(d), d)' = {}
    BY <1>4 DEF Enqueue, InHand
  <2>11. BuffersOf(Twin(d))'
    BY <2>8, <2>9, <2>10, BuffersStay DEF BufferInv
  <2> QED  BY <2>7, <2>11 DEF BufferInv
<1>5. CASE RxInts(d)
  BY <1>5, NothingMoves DEF RxInts, Quiet, QuietPoll
<1>6. CASE FlagRx(d)
  BY <1>6, NothingMoves DEF FlagRx, ReadStatus, WriteStatus, Quiet, QuietPoll
<1>7. CASE FlagTx(d)
  BY <1>7, NothingMoves DEF FlagTx, ReadStatus, WriteStatus, Quiet, QuietPoll
<1>8. ASSUME NEW e \in Dev, NEW from \in {"rxirq", "txirq", "t_irq"},
             NEW to \in {"idle", "txread", "t_pool"}, Interrupt(d, from, e, to)
      PROVE  BufferInv'
  <2>1. /\ pc[d] = from
        /\ Kept(d, to) \/ Taken(d, e, to)
        /\ UNCHANGED <<heap, ppool, poll, ppkt>>
    BY <1>8, InterruptIs
  <2>2. CASE Kept(d, to)
    BY <2>1, <2>2, NothingMoves DEF Kept, Quiet, QuietPoll
  <2>3. CASE Taken(d, e, to)
    <3> DEFINE b == Head(rx_queue[e]).b
               r == Tail(rx_queue[e])
    <3>0. PICK g \in Dev : g = Twin(e)
      OBVIOUS
    <3>1. /\ g \in Dev /\ g # e /\ Twin(g) = e /\ (d = g \/ d = e) /\ rx_queue[e] \in Queue
          /\ rx_queue[e] # <<>> /\ BuffersOf(g)
      BY <2>3, <3>0 DEF Taken, BufferInv
    <3>2. Bufs(rx_queue[e]) = Bufs(r) \cup {b} /\ OnceB(r) /\ b \notin Bufs(r)
      BY <3>1, Dequeued DEF BuffersOf
    <3>3. /\ heap' = heap /\ ppool' = ppool /\ rx_queue'[e] = r
          /\ InHand(g, d) = {} /\ InHand(g, d)' = {b}
      BY <2>1, <2>3, <3>0 DEF Taken, InHand
    <3>4. /\ \A x \in Dev : x # d => InHand(g, x)' = InHand(g, x)
          /\ InPoll(g)' = InPoll(g)
      BY <2>1, <2>3, HandsKept DEF Taken, Quiet, QuietPoll
    <3>5. BuffersOf(e)'
      <4>1. UNCHANGED <<heap[e], ppool[e], rx_queue[g], InPoll(e)>>
        BY <2>1, <2>3, <3>1 DEF Taken, InPoll
      <4>2. \A x \in Dev : x # d => InHand(e, x)' = InHand(e, x)
        BY <2>1, <2>3, HandsKept DEF Taken, Quiet
      <4>3. InHand(e, d) = {} /\ InHand(e, d)' = {}
        BY <2>1, <2>3, <3>0, <3>1 DEF Taken, InHand
      <4>4. UNCHANGED <<InHand(e, e), InHand(e, g)>>
        BY <3>1, <4>2, <4>3
      <4> QED  BY <3>0, <4>1, <4>4, BuffersStay DEF BufferInv
    <3> HIDE DEF b, r
    <3>8. BuffersOf(g)'
      <4>1. CASE g = d
        <5>1. /\ Apart(heap[g], Elems(ppool[g]), Bufs(r) \cup {b}, {}, InHand(g, e), InPoll(g))
              /\ Once(ppool[g])
          BY <3>1, <3>2, <3>3, <4>1 DEF BuffersOf
        <5>2. Apart(heap[g], Elems(ppool[g]), Bufs(r), {b}, InHand(g, e), InPoll(g))
          BY <3>2, <5>1, QueueToHand, Zenon
        <5>3. InHand(g, e)' = InHand(g, e)
          BY <3>1, <3>4, <4>1
        <5> QED  BY <3>1, <3>2, <3>3, <3>4, <4>1, <5>1, <5>2, <5>3 DEF BuffersOf
      <4>2. CASE e = d
        <5>0. InHand(g, e) = {} /\ InHand(g, e)' = {b}
          BY <3>3, <4>2
        <5>1. /\ Apart(heap[g], Elems(ppool[g]), Bufs(r) \cup {b}, InHand(g, g), {}, InPoll(g))
              /\ Once(ppool[g])
          BY <3>1, <3>2, <3>3, <5>0 DEF BuffersOf
        <5>2. Apart(heap[g], Elems(ppool[g]), Bufs(r) \cup {b}, {}, InHand(g, g), InPoll(g))
          BY <5>1, ApartSwaps
        <5>3. Apart(heap[g], Elems(ppool[g]), Bufs(r), {b}, InHand(g, g), InPoll(g))
          BY <3>2, <5>2, QueueToHand, Zenon
        <5>4. Apart(heap[g], Elems(ppool[g]), Bufs(r), InHand(g, g), {b}, InPoll(g))
          BY <5>3, ApartSwaps
        <5>5. InHand(g, g)' = InHand(g, g)
          BY <3>1, <3>4, <4>2
        <5> QED  BY <3>1, <3>2, <3>3, <3>4, <5>0, <5>1, <5>4, <5>5 DEF BuffersOf
      <4> QED  BY <3>1, <4>1, <4>2
    <3> QED  BY <3>0, <3>1, <3>5, <3>8, BuffersOfBoth
  <2> QED  BY <2>1, <2>2, <2>3
<1>9. CASE RxIrq(d) \/ TxIrq(d) \/ TimeoutIrq(d)
  BY <1>8, <1>9 DEF RxIrq, TxIrq, TimeoutIrq
<1>10. CASE Lockup(d)
  BY <1>10, NothingMoves DEF Lockup, Quiet, QuietPoll
<1>11. CASE ReleaseBuffer(d)
  <2>0. PICK e \in Dev : e = of[d]
    OBVIOUS
  <2> DEFINE b == pkt[d]
             r == <<b>> \o ppool[e]
  <2>1. e \in Dev /\ b \in Buffer /\ BuffersOf(e) /\ (d = e \/ d = Twin(e))
    BY <1>11, <2>0 DEF ReleaseBuffer, CallInv, Giving, BufferInv
  <2>2. /\ Elems(r) = Elems(ppool[e]) \cup {b}
        /\ Once(ppool[e]) /\ b \notin Elems(ppool[e]) => Once(r)
    BY <2>1, PutFirst
  <2>3. /\ heap' = heap /\ ppool'[e] = r /\ rx_queue' = rx_queue
        /\ InHand(e, d) = {b} /\ InHand(e, d)' = {}
    BY <1>11, <2>0 DEF ReleaseBuffer, GiveBack, Giver, InHand
  <2>4. /\ \A x \in Dev : x # d => InHand(e, x)' = InHand(e, x)
        /\ InPoll(e)' = InPoll(e)
    BY <1>11, HandsKept DEF ReleaseBuffer, Quiet, QuietPoll
  <2>5. BuffersOf(Twin(e))'
    <3>1. UNCHANGED <<heap[Twin(e)], ppool[Twin(e)], rx_queue[e], InPoll(Twin(e))>>
      BY <1>11, <2>0 DEF ReleaseBuffer, GiveBack, Giver, InPoll
    <3>2. \A x \in Dev : x # d => InHand(Twin(e), x)' = InHand(Twin(e), x)
      BY <1>11, HandsKept DEF ReleaseBuffer, Quiet
    <3>3. InHand(Twin(e), d) = {} /\ InHand(Twin(e), d)' = {}
      BY <1>11, <2>0 DEF ReleaseBuffer, InHand
    <3>4. UNCHANGED <<InHand(Twin(e), Twin(e)), InHand(Twin(e), e)>>
      BY <3>2, <3>3
    <3> QED  BY <3>1, <3>4, BuffersStay DEF BufferInv
  <2> HIDE DEF b, r
  <2>8. BuffersOf(e)'
    <3>1. CASE e = d
      <4>1. /\ Apart(heap[e], Elems(ppool[e]), Bufs(rx_queue[Twin(e)]), {b},
                     InHand(e, Twin(e)), InPoll(e))
            /\ Once(ppool[e]) /\ OnceB(rx_queue[Twin(e)])
        BY <2>1, <2>3, <3>1 DEF BuffersOf
      <4>2. Apart(heap[e], Elems(ppool[e]) \cup {b}, Bufs(rx_queue[Twin(e)]), {},
                  InHand(e, Twin(e)), InPoll(e))
        BY <4>1, HandToPool, Zenon
      <4>3. b \notin Elems(ppool[e])
        BY <4>1 DEF Apart
      <4>4. InHand(e, Twin(e))' = InHand(e, Twin(e))
        BY <2>1, <2>4, <3>1
      <4> QED  BY <2>1, <2>2, <2>3, <2>4, <3>1, <4>1, <4>2, <4>3, <4>4 DEF BuffersOf
    <3>2. CASE Twin(e) = d
      <4>1. /\ Apart(heap[e], Elems(ppool[e]), Bufs(rx_queue[Twin(e)]), InHand(e, e), {b},
                     InPoll(e))
            /\ Once(ppool[e]) /\ OnceB(rx_queue[Twin(e)])
        BY <2>1, <2>3, <3>2 DEF BuffersOf
      <4>2. Apart(heap[e], Elems(ppool[e]), Bufs(rx_queue[Twin(e)]), {b}, InHand(e, e), InPoll(e))
        BY <4>1, ApartSwaps
      <4>3. Apart(heap[e], Elems(ppool[e]) \cup {b}, Bufs(rx_queue[Twin(e)]), {}, InHand(e, e),
                  InPoll(e))
        BY <4>2, HandToPool, Zenon
      <4>4. Apart(heap[e], Elems(ppool[e]) \cup {b}, Bufs(rx_queue[Twin(e)]), InHand(e, e), {},
                  InPoll(e))
        BY <4>3, ApartSwaps
      <4>5. b \notin Elems(ppool[e])
        BY <4>1 DEF Apart
      <4>6. InHand(e, e)' = InHand(e, e)
        BY <2>1, <2>4, <3>2
      <4> QED  BY <2>1, <2>2, <2>3, <2>4, <3>2, <4>1, <4>4, <4>5, <4>6 DEF BuffersOf
    <3> QED  BY <2>1, <3>1, <3>2
  <2> QED  BY <2>1, <2>5, <2>8 DEF BufferInv
<1>12. CASE LookStopped(d)
  BY <1>12, LookingMoves, NothingMoves
<1>13. CASE LookNext(d)
  BY <1>13, LookingMoves, NothingMoves
<1>14. CASE WakeQueue(d)
  BY <1>14, LookingMoves, NothingMoves
<1>15. CASE ResetPool(d)
  <2>1. PICK n \in 0 .. pool_size : \E s \in Stacks(Buffer \ (heap[d] \ Elems(ppool[d])), n) :
           /\ ppool' = Set(ppool, d, s)
           /\ heap' = Set(heap, d, (heap[d] \ Elems(ppool[d])) \cup Elems(s))
    BY <1>15 DEF ResetPool
  <2>2. PICK s \in Stacks(Buffer \ (heap[d] \ Elems(ppool[d])), n) :
           /\ ppool' = Set(ppool, d, s)
           /\ heap' = Set(heap, d, (heap[d] \ Elems(ppool[d])) \cup Elems(s))
    BY <2>1
  <2>3. n \in Nat
    OBVIOUS
  <2>4. Elems(s) \subseteq Buffer \ (heap[d] \ Elems(ppool[d])) /\ Once(s)
    BY <2>3, StackIs
  <2>5. /\ rx_queue' = rx_queue
        /\ \A e \in Dev : /\ \A x \in Dev : InHand(e, x)' = InHand(e, x)
                          /\ InPoll(e)' = InPoll(e)
    BY <1>15, HandsKept DEF ResetPool, Quiet, QuietPoll
  <2>6. BuffersOf(d)'
    <3>1. ppool'[d] = s /\ heap'[d] = (heap[d] \ Elems(ppool[d])) \cup Elems(s)
      BY <2>2
    <3>2. /\ Apart(heap[d], Elems(ppool[d]), Bufs(rx_queue[Twin(d)]),
                   InHand(d, d), InHand(d, Twin(d)), InPoll(d))
          /\ Elems(s) \cap (heap[d] \ Elems(ppool[d])) = {}
      BY <2>4 DEF BufferInv, BuffersOf
    <3>3. Apart((heap[d] \ Elems(ppool[d])) \cup Elems(s), Elems(s), Bufs(rx_queue[Twin(d)]),
                InHand(d, d), InHand(d, Twin(d)), InPoll(d))
      BY <3>2, PoolAnew, Zenon
    <3> QED  BY <2>4, <2>5, <3>1, <3>3 DEF BufferInv, BuffersOf
  <2>7. BuffersOf(Twin(d))'
    <3>1. ppool'[Twin(d)] = ppool[Twin(d)] /\ heap'[Twin(d)] = heap[Twin(d)]
      BY <2>2
    <3> QED  BY <2>5, <3>1, BuffersStay DEF BufferInv
  <2> QED  BY <2>6, <2>7 DEF BufferInv
<1>16. CASE TimeoutWake(d)
  BY <1>16, NothingMoves DEF TimeoutWake, Quiet, QuietPoll
<1>17. CASE PollBegin(d)
  BY <1>17, NothingMoves DEF PollBegin, Quiet, QuietPoll
<1>18. CASE PollLoop(d)
  BY <1>18, NothingMoves DEF PollLoop, Quiet, QuietPoll
<1>19. CASE PollDequeue(d)
  <2> DEFINE b == Head(rx_queue[d]).b
             r == Tail(rx_queue[d])
  <2>0. PICK g \in Dev : g = Twin(d)
    OBVIOUS
  <2>1. /\ g \in Dev /\ Twin(g) = d /\ rx_queue[d] \in Queue /\ rx_queue[d] # <<>>
        /\ BuffersOf(g)
    BY <1>19, <2>0 DEF PollDequeue, CallInv, BufferInv
  <2>2. Bufs(rx_queue[d]) = Bufs(r) \cup {b} /\ OnceB(r) /\ b \notin Bufs(r)
    BY <2>1, Dequeued DEF BuffersOf
  <2>3. /\ heap' = heap /\ ppool' = ppool /\ rx_queue'[d] = r
        /\ InPoll(g) = {} /\ InPoll(g)' = {b}
    BY <1>19, <2>0 DEF PollDequeue, Rest, InPoll
  <2>4. \A x \in Dev : InHand(g, x)' = InHand(g, x)
    BY <1>19, HandsKept DEF PollDequeue, Quiet
  <2>5. BuffersOf(d)'
    <3>1. UNCHANGED <<heap[d], ppool[d], rx_queue[g], InPoll(d)>>
      BY <1>19, <2>0 DEF PollDequeue, InPoll
    <3>2. UNCHANGED <<InHand(d, d), InHand(d, g)>>
      BY <1>19, HandsKept DEF PollDequeue, Quiet
    <3> QED  BY <2>0, <3>1, <3>2, BuffersStay DEF BufferInv
  <2> HIDE DEF b, r
  <2>6. /\ Apart(heap[g], Elems(ppool[g]), Bufs(r) \cup {b}, InHand(g, g), InHand(g, d), {})
        /\ Once(ppool[g])
    BY <2>1, <2>2, <2>3 DEF BuffersOf
  <2>7. Apart(heap[g], Elems(ppool[g]), Bufs(r) \cup {b}, {}, InHand(g, d), InHand(g, g))
    BY <2>6, ApartSwaps
  <2>8. Apart(heap[g], Elems(ppool[g]), Bufs(r), {b}, InHand(g, d), InHand(g, g))
    BY <2>2, <2>7, QueueToHand, Zenon
  <2>9. Apart(heap[g], Elems(ppool[g]), Bufs(r), InHand(g, g), InHand(g, d), {b})
    BY <2>8, ApartSwaps
  <2>10. BuffersOf(g)'
    BY <2>1, <2>2, <2>3, <2>4, <2>6, <2>9 DEF BuffersOf
  <2> QED  BY <2>0, <2>5, <2>10 DEF BufferInv
<1>20. CASE PollRelease(d)
  <2>0. PICK e \in Dev : e = Twin(d)
    OBVIOUS
  <2> DEFINE b == ppkt[d]
             r == <<b>> \o ppool[e]
  <2>1. e \in Dev /\ Twin(e) = d /\ b \in Buffer /\ BuffersOf(e)
    BY <1>20, <2>0 DEF PollRelease, CallInv, Giving, BufferInv
  <2>2. /\ Elems(r) = Elems(ppool[e]) \cup {b}
        /\ Once(ppool[e]) /\ b \notin Elems(ppool[e]) => Once(r)
    BY <2>1, PutFirst
  <2>3. /\ heap' = heap /\ ppool'[e] = r /\ rx_queue' = rx_queue
        /\ InPoll(e) = {b} /\ InPoll(e)' = {}
    BY <1>20, <2>0 DEF PollRelease, GiveBack, Giver, InPoll
  <2>4. \A x \in Dev : InHand(e, x)' = InHand(e, x)
    BY <1>20, HandsKept DEF PollRelease, Quiet
  <2>5. BuffersOf(d)'
    <3>1. UNCHANGED <<heap[d], ppool[d], rx_queue[e], InPoll(d)>>
      BY <1>20, <2>0 DEF PollRelease, GiveBack, Giver, InPoll
    <3>2. UNCHANGED <<InHand(d, d), InHand(d, e)>>
      BY <1>20, HandsKept DEF PollRelease, Quiet
    <3> QED  BY <2>0, <3>1, <3>2, BuffersStay DEF BufferInv
  <2> HIDE DEF b, r
  <2>6. /\ Apart(heap[e], Elems(ppool[e]), Bufs(rx_queue[d]), InHand(e, e), InHand(e, d), {b})
        /\ Once(ppool[e]) /\ OnceB(rx_queue[d])
    BY <2>1, <2>3 DEF BuffersOf
  <2>7. Apart(heap[e], Elems(ppool[e]), Bufs(rx_queue[d]), {b}, InHand(e, d), InHand(e, e))
    BY <2>6, ApartSwaps
  <2>8. Apart(heap[e], Elems(ppool[e]) \cup {b}, Bufs(rx_queue[d]), {}, InHand(e, d),
              InHand(e, e))
    BY <2>7, HandToPool, Zenon
  <2>9. Apart(heap[e], Elems(ppool[e]) \cup {b}, Bufs(rx_queue[d]), InHand(e, e), InHand(e, d), {})
    BY <2>8, ApartSwaps
  <2>10. b \notin Elems(ppool[e])
    BY <2>7 DEF Apart
  <2>11. BuffersOf(e)'
    BY <2>1, <2>2, <2>3, <2>4, <2>6, <2>9, <2>10 DEF BuffersOf
  <2> QED  BY <2>0, <2>5, <2>11 DEF BufferInv
<1>21. CASE PollLook(d)
  BY <1>21, NothingMoves DEF PollLook, PollLeave, Quiet, QuietPoll
<1>22. CASE PollNext(d)
  BY <1>22, NothingMoves DEF PollNext, PollLeave, Quiet, QuietPoll
<1>23. CASE PollWake(d)
  BY <1>23, NothingMoves DEF PollWake, PollLeave, Quiet, QuietPoll
<1>24. CASE PollEnd(d)
  BY <1>24, NothingMoves DEF PollEnd, Quiet, QuietPoll
<1>25. CASE TxTimeout(d)
  BY <1>25, NothingMoves DEF TxTimeout, Quiet, QuietPoll
<1>26. CASE Close(d)
  BY <1>26, NothingMoves DEF Close, Quiet, QuietPoll
<1>27. CASE Open(d)
  BY <1>27, NothingMoves DEF Open, Quiet, QuietPoll
<1> QED  BY <1>1, <1>2, <1>3, <1>4, <1>5, <1>6, <1>7, <1>9, <1>10, <1>11, <1>12, <1>13,
            <1>14, <1>15, <1>16, <1>17, <1>18, <1>19, <1>20, <1>21, <1>22, <1>23, <1>24,
            <1>25, <1>26, <1>27
            DEF Transmitting, Polling, Release

(***************************************************************************)
(* The packets: a step moves one at most.                                  *)
(***************************************************************************)
Unsent(d) == pc[d] \in {"buffer", "enqueue"}

LEMMA UptoIs ==
    ASSUME NEW d \in Dev, sent[d] \in Nat
    PROVE  /\ Unsent(d) => Upto(d) = 1 .. sent[d] - 1
           /\ ~Unsent(d) => Upto(d) = 1 .. sent[d]
<1> QED  BY DEF Upto, Unsent

LEMMA OneMore ==
    ASSUME NEW m \in Nat, m > 0
    PROVE  1 .. m = (1 .. m - 1) \cup {m} /\ m \notin 1 .. m - 1
<1> QED  OBVIOUS

LEMMA PacketsStay ==
    ASSUME NEW d \in Dev, PacketsOf(d),
           UNCHANGED <<received[d], dropped[d], rx_queue[d], Upto(Twin(d))>>
    PROVE  PacketsOf(d)'
<1> QED  BY DEF PacketsOf, Elems, Nums, Once, OnceN

SameUnsent(x) == /\ sent'[x] = sent[x]
                 /\ pc'[x] = pc[x] \/ (~Unsent(x) /\ pc'[x] \notin {"buffer", "enqueue"})

LEMMA NoPacketMoves ==
    ASSUME PacketInv, UNCHANGED <<received, dropped, rx_queue>>, \A x \in Dev : SameUnsent(x)
    PROVE  PacketInv'
<1> SUFFICES ASSUME NEW d \in Dev
             PROVE  /\ PacketsOf(d)'
                    /\ (pc[d] \in {"buffer", "enqueue"} => sent[d] > 0)'
  BY DEF PacketInv
<1>1. Twin(d) \in Dev
  BY TwinIs
<1>2. UNCHANGED Upto(Twin(d))
  BY <1>1 DEF SameUnsent, Upto, Unsent
<1>3. PacketsOf(d)'
  BY <1>2, PacketsStay DEF PacketInv
<1> QED  BY <1>3 DEF PacketInv, SameUnsent, Unsent

(***************************************************************************)
(* Who takes the first packet of e's queue hands it up or drops it.        *)
(***************************************************************************)
LEMMA PacketTaken ==
    ASSUME Types, PacketInv, NEW e \in Dev, rx_queue[e] # <<>>,
           Receive(e, Head(rx_queue[e]).n), rx_queue' = Set(rx_queue, e, Tail(rx_queue[e])),
           \A x \in Dev : SameUnsent(x)
    PROVE  PacketInv'
<1> DEFINE m == Head(rx_queue[e]).n
           r == Tail(rx_queue[e])
<1>1. /\ rx_queue[e] \in Queue /\ received[e] \in Seq(Nat) /\ Twin(e) \in Dev
      /\ rx_queue \in [Dev -> Queue] /\ received \in [Dev -> Seq(Nat)]
      /\ dropped \in [Dev -> SUBSET Nat]
  BY TwinIs DEF Types, PrivTypes, HistTypes, Queue
<1>2. /\ m \in Nat /\ Nums(rx_queue[e]) = Nums(r) \cup {m}
      /\ OnceN(r) /\ m \notin Nums(r)
  BY <1>1, Dequeued DEF PacketInv, PacketsOf
<1>3. Receive(e, m)
  OBVIOUS
<1>4. rx_queue'[e] = r
  BY <1>1 DEF Set
<1> HIDE DEF m, r
<1>5. /\ Elems(Append(received[e], m)) = Elems(received[e]) \cup {m}
      /\ Once(received[e]) /\ m \notin Elems(received[e]) => Once(Append(received[e], m))
  BY <1>1, <1>2, PutLast
<1>6. Upto(Twin(e))' = Upto(Twin(e))
  BY <1>1 DEF SameUnsent, Upto, Unsent
<1>7. /\ Parts(Upto(Twin(e)), Elems(received[e]), Nums(r) \cup {m}, dropped[e])
      /\ Once(received[e])
  BY <1>2 DEF PacketInv, PacketsOf
<1>8. PacketsOf(e)'
  <2>1. CASE received' = Set(received, e, Append(received[e], m)) /\ UNCHANGED dropped
    <3>1. received'[e] = Append(received[e], m) /\ dropped'[e] = dropped[e]
      BY <1>1, <2>1 DEF Set
    <3>2. Parts(Upto(Twin(e)), Elems(received[e]) \cup {m}, Nums(r), dropped[e])
      BY <1>2, <1>7 DEF Parts
    <3>3. m \notin Elems(received[e])
      BY <1>7 DEF Parts
    <3> QED  BY <1>2, <1>4, <1>5, <1>6, <1>7, <3>1, <3>2, <3>3 DEF PacketsOf
  <2>2. CASE dropped' = Set(dropped, e, dropped[e] \cup {m}) /\ UNCHANGED received
    <3>1. dropped'[e] = dropped[e] \cup {m} /\ received'[e] = received[e]
      BY <1>1, <2>2 DEF Set
    <3>2. Parts(Upto(Twin(e)), Elems(received[e]), Nums(r), dropped[e] \cup {m})
      BY <1>2, <1>7 DEF Parts
    <3> QED  BY <1>2, <1>4, <1>6, <1>7, <3>1, <3>2 DEF PacketsOf
  <2> QED  BY <1>3, <2>1, <2>2 DEF Receive
<1>9. PacketsOf(Twin(e))'
  <2>1. UNCHANGED <<received[Twin(e)], dropped[Twin(e)], rx_queue[Twin(e)]>>
    BY <1>1, <1>3, TwinIs DEF Receive, Set
  <2>2. Twin(Twin(e)) = e /\ Upto(e)' = Upto(e)
    BY TwinIs DEF SameUnsent, Upto, Unsent
  <2> QED  BY <1>1, <2>1, <2>2, PacketsStay DEF PacketInv
<1>10. \A d \in Dev : (pc[d] \in {"buffer", "enqueue"} => sent[d] > 0)'
  BY DEF PacketInv, SameUnsent, Unsent
<1> QED  BY <1>8, <1>9, <1>10, TwinIs DEF PacketInv

LEMMA PacketInvStep ==
    ASSUME Types, CallInv, PacketInv, NEW d \in Dev,
           Tx(d) \/ Transmitting(d) \/ Polling(d) \/ TxTimeout(d) \/ Close(d) \/ Open(d)
    PROVE  PacketInv'
<1>0. /\ CallTypes /\ HistTypes /\ rx_queue \in [Dev -> Queue]
  BY DEF Types, PrivTypes, Queue
<1> USE <1>0, TwinIs DEF CallTypes, Set, Go, Poll, paramVars,
                   poolVars, privVars, napiVars, giveVars, txVars, pollVars, hist
<1>1. CASE Tx(d)
  <2>1. /\ UNCHANGED <<received, dropped, rx_queue>> /\ pc'[d] = "buffer" /\ pc[d] = "idle"
        /\ sent'[d] = sent[d] + 1
    BY <1>1 DEF Tx, HistTypes
  <2>2. PICK m \in Nat : m = sent[d]
    BY DEF HistTypes
  <2>3. Upto(d)' = 1 .. m + 1 - 1 /\ Upto(d) = 1 .. m
    BY <2>1, <2>2 DEF Upto
  <2>4. Upto(d)' = Upto(d)
    BY <2>3
  <2>5. Upto(Twin(d))' = Upto(Twin(d))
    BY <1>1 DEF Tx, Upto
  <2>6. PacketsOf(d)' /\ PacketsOf(Twin(d))'
    BY <2>1, <2>4, <2>5, PacketsStay DEF PacketInv
  <2>7. sent'[d] > 0
    BY <2>1, <2>2
  <2>8. Unsent(Twin(d))' => sent'[Twin(d)] > 0
    BY <1>1 DEF Tx, PacketInv, Unsent
  <2> QED  BY <2>6, <2>7, <2>8 DEF PacketInv, Unsent
<1>2. CASE GetBuffer(d)
  <2>1. UNCHANGED <<received, dropped, rx_queue>>
    BY <1>2 DEF GetBuffer
  <2>2. \A x \in Dev : Upto(x)' = Upto(x)
    BY <1>2 DEF GetBuffer, Upto
  <2>3. PacketsOf(d)' /\ PacketsOf(Twin(d))'
    BY <2>1, <2>2, PacketsStay DEF PacketInv
  <2> QED  BY <1>2, <2>3 DEF GetBuffer, PacketInv
<1>3. CASE NoBuffer(d)
  <2>1. PICK m \in Nat : m = sent[d] /\ m > 0
    BY <1>3 DEF NoBuffer, PacketInv, HistTypes
  <2>2. Upto(d)' = Upto(d) \cup {m} /\ m \notin Upto(d)
    <3>1. Upto(d)' = 1 .. m /\ Upto(d) = 1 .. m - 1
      BY <1>3, <2>1 DEF NoBuffer, Upto
    <3> QED  BY <2>1, <3>1, OneMore
  <2>3. PacketsOf(Twin(d))'
    <3>1. /\ dropped'[Twin(d)] = dropped[Twin(d)] \cup {m}
          /\ UNCHANGED <<received[Twin(d)], rx_queue[Twin(d)]>>
      BY <1>3, <2>1 DEF NoBuffer, HistTypes
    <3>2. Parts(Upto(d)', Elems(received[Twin(d)]), Nums(rx_queue[Twin(d)]),
                dropped[Twin(d)] \cup {m})
      BY <2>2 DEF PacketInv, PacketsOf, Parts
    <3> QED  BY <3>1, <3>2 DEF PacketInv, PacketsOf
  <2>4. PacketsOf(d)'
    <3>1. UNCHANGED <<received[d], dropped[d], rx_queue[d]>>
      BY <1>3 DEF NoBuffer
    <3>2. Upto(Twin(d))' = Upto(Twin(d))
      BY <1>3 DEF NoBuffer, Upto
    <3> QED  BY <3>1, <3>2, PacketsStay DEF PacketInv
  <2> QED  BY <1>3, <2>3, <2>4 DEF NoBuffer, PacketInv
<1>4. CASE Enqueue(d)
  <2>1. PICK m \in Nat : m = sent[d] /\ m > 0
    BY <1>4 DEF Enqueue, PacketInv, HistTypes
  <2>2. Upto(d)' = Upto(d) \cup {m} /\ m \notin Upto(d)
    <3>1. Upto(d)' = 1 .. m /\ Upto(d) = 1 .. m - 1
      BY <1>4, <2>1 DEF Enqueue, Upto
    <3> QED  BY <2>1, <3>1, OneMore
  <2>3. PacketsOf(Twin(d))'
    <3> DEFINE q == rx_queue[Twin(d)]
               r == <<[n |-> m, b |-> pkt[d]]>> \o q
    <3>1. /\ rx_queue'[Twin(d)] = r
          /\ UNCHANGED <<received[Twin(d)], dropped[Twin(d)]>>
      BY <1>4, <2>1 DEF Enqueue, HistTypes
    <3>2. q \in Queue /\ pkt[d] \in Buffer
      BY <1>4 DEF Enqueue, CallInv
    <3>3. Nums(r) = Nums(q) \cup {m} /\ (OnceN(q) /\ m \notin Nums(q) => OnceN(r))
      BY <3>2, Enqueued
    <3> HIDE DEF r
    <3>4. /\ Parts(Upto(d)', Elems(received[Twin(d)]), Nums(q) \cup {m}, dropped[Twin(d)])
          /\ m \notin Nums(q)
      BY <2>2 DEF PacketInv, PacketsOf, Parts
    <3> QED  BY <3>1, <3>3, <3>4 DEF PacketInv, PacketsOf
  <2>4. PacketsOf(d)'
    <3>1. UNCHANGED <<received[d], dropped[d], rx_queue[d]>>
      BY <1>4 DEF Enqueue
    <3>2. Upto(Twin(d))' = Upto(Twin(d))
      BY <1>4 DEF Enqueue, Upto
    <3> QED  BY <3>1, <3>2, PacketsStay DEF PacketInv
  <2> QED  BY <1>4, <2>3, <2>4 DEF Enqueue, PacketInv
<1>5. CASE RxInts(d)
  BY <1>5, NoPacketMoves DEF RxInts, SameUnsent, Unsent
<1>6. CASE FlagRx(d)
  BY <1>6, NoPacketMoves DEF FlagRx, ReadStatus, WriteStatus, SameUnsent, Unsent
<1>7. CASE FlagTx(d)
  BY <1>7, NoPacketMoves DEF FlagTx, ReadStatus, WriteStatus, SameUnsent, Unsent
<1>8. ASSUME NEW e \in Dev, NEW from \in {"rxirq", "txirq", "t_irq"},
             NEW to \in {"idle", "txread", "t_pool"}, Interrupt(d, from, e, to)
      PROVE  PacketInv'
  <2>1. /\ pc[d] = from
        /\ Kept(d, to) \/ Taken(d, e, to)
        /\ UNCHANGED sent
    BY <1>8, InterruptIs
  <2>2. CASE Kept(d, to)
    BY <2>1, <2>2, NoPacketMoves DEF Kept, SameUnsent, Unsent
  <2>3. CASE Taken(d, e, to)
    <3>1. \A x \in Dev : SameUnsent(x)
      BY <2>1, <2>3 DEF Taken, SameUnsent, Unsent
    <3> QED  BY <2>3, <3>1, PacketTaken DEF Taken
  <2> QED  BY <2>1, <2>2, <2>3
<1>9. CASE RxIrq(d) \/ TxIrq(d) \/ TimeoutIrq(d)
  BY <1>8, <1>9 DEF RxIrq, TxIrq, TimeoutIrq
<1>10. CASE Lockup(d)
  BY <1>10, NoPacketMoves DEF Lockup, SameUnsent, Unsent
<1>11. CASE ReleaseBuffer(d)
  BY <1>11, NoPacketMoves DEF ReleaseBuffer, SameUnsent, Unsent
<1>12. CASE LookStopped(d)
  <2>1. UNCHANGED <<received, dropped, rx_queue, sent>>
    BY <1>12 DEF LookStopped
  <2>2. /\ pc[d] \in Eyeing
        /\ pc' = Set(pc, d, cont[d]) \/ pc' = Set(pc, d, "next") \/ pc' = Set(pc, d, "wake")
    BY <1>12 DEF LookStopped, Leave, Eyeing
  <2>3. \A x \in Dev : SameUnsent(x)
    BY <2>1, <2>2 DEF SameUnsent, Unsent, Eyeing
  <2> QED  BY <2>1, <2>3, NoPacketMoves
<1>13. CASE LookNext(d)
  <2>1. UNCHANGED <<received, dropped, rx_queue, sent>>
    BY <1>13 DEF LookNext
  <2>2. /\ pc[d] \in Eyeing
        /\ pc' = Set(pc, d, cont[d]) \/ pc' = Set(pc, d, "next") \/ pc' = Set(pc, d, "wake")
    BY <1>13 DEF LookNext, Leave, Eyeing
  <2>3. \A x \in Dev : SameUnsent(x)
    BY <2>1, <2>2 DEF SameUnsent, Unsent, Eyeing
  <2> QED  BY <2>1, <2>3, NoPacketMoves
<1>14. CASE WakeQueue(d)
  <2>1. UNCHANGED <<received, dropped, rx_queue, sent>>
    BY <1>14 DEF WakeQueue
  <2>2. /\ pc[d] \in Eyeing
        /\ pc' = Set(pc, d, cont[d]) \/ pc' = Set(pc, d, "next") \/ pc' = Set(pc, d, "wake")
    BY <1>14 DEF WakeQueue, Leave, Eyeing
  <2>3. \A x \in Dev : SameUnsent(x)
    BY <2>1, <2>2 DEF SameUnsent, Unsent, Eyeing
  <2> QED  BY <2>1, <2>3, NoPacketMoves
<1>15. CASE ResetPool(d)
  BY <1>15, NoPacketMoves DEF ResetPool, SameUnsent, Unsent
<1>16. CASE TimeoutWake(d)
  BY <1>16, NoPacketMoves DEF TimeoutWake, SameUnsent, Unsent
<1>17. CASE PollBegin(d)
  BY <1>17, NoPacketMoves DEF PollBegin, SameUnsent, Unsent
<1>18. CASE PollLoop(d)
  BY <1>18, NoPacketMoves DEF PollLoop, SameUnsent, Unsent
<1>19. CASE PollDequeue(d)
  <2>1. /\ rx_queue[d] # <<>> /\ Receive(d, Head(rx_queue[d]).n)
        /\ rx_queue' = Set(rx_queue, d, Tail(rx_queue[d]))
        /\ \A x \in Dev : SameUnsent(x)
    BY <1>19 DEF PollDequeue, Rest, CallInv, SameUnsent
  <2> QED  BY <2>1, PacketTaken
<1>20. CASE PollRelease(d)
  BY <1>20, NoPacketMoves DEF PollRelease, SameUnsent, Unsent
<1>21. CASE PollLook(d)
  BY <1>21, NoPacketMoves DEF PollLook, PollLeave, SameUnsent, Unsent
<1>22. CASE PollNext(d)
  BY <1>22, NoPacketMoves DEF PollNext, PollLeave, SameUnsent, Unsent
<1>23. CASE PollWake(d)
  BY <1>23, NoPacketMoves DEF PollWake, PollLeave, SameUnsent, Unsent
<1>24. CASE PollEnd(d)
  BY <1>24, NoPacketMoves DEF PollEnd, SameUnsent, Unsent
<1>25. CASE TxTimeout(d)
  BY <1>25, NoPacketMoves DEF TxTimeout, SameUnsent, Unsent
<1>26. CASE Close(d)
  BY <1>26, NoPacketMoves DEF Close, SameUnsent, Unsent
<1>27. CASE Open(d)
  BY <1>27, NoPacketMoves DEF Open, SameUnsent, Unsent
<1> QED  BY <1>1, <1>2, <1>3, <1>4, <1>5, <1>6, <1>7, <1>9, <1>10, <1>11, <1>12, <1>13,
            <1>14, <1>15, <1>16, <1>17, <1>18, <1>19, <1>20, <1>21, <1>22, <1>23, <1>24,
            <1>25, <1>26, <1>27
            DEF Transmitting, Polling, Release

(***************************************************************************)
(* The skbs: a step frees one at most.                                     *)
(***************************************************************************)
SameTx(x) ==
    /\ InTx(x)' => InTx(x)
    /\ pc'[x] \in TimingOut => pc[x] \in TimingOut \/ cont[x] = "t_pool" \/ "timeout" \in events'
    /\ cont'[x] = "t_pool" => pc[x] \in TimingOut \/ cont[x] = "t_pool" \/ "timeout" \in events'

LEMMA SkbsStay ==
    ASSUME NEW d \in Dev, SkbsOf(d),
           UNCHANGED <<use_napi, skb[d], freed[d], sent[d], sent[Twin(d)]>>,
           events \subseteq events', SameTx(d)
    PROVE  SkbsOf(d)'
<1>1. Elems(freed[d])' = Elems(freed[d]) /\ Once(freed[d])' = Once(freed[d])
  BY DEF Elems, Once
<1> QED  BY <1>1 DEF SkbsOf, SameTx

LEMMA NoSkbFreed ==
    ASSUME SkbInv, UNCHANGED <<use_napi, skb, freed, sent>>, events \subseteq events',
           \A x \in Dev : SameTx(x)
    PROVE  SkbInv'
<1> SUFFICES ASSUME NEW d \in Dev PROVE SkbsOf(d)'
  BY DEF SkbInv
<1> QED  BY SkbsStay DEF SkbInv

LEMMA SkbInvStep ==
    ASSUME Types, CallInv, SkbInv, NEW d \in Dev,
           Tx(d) \/ Transmitting(d) \/ Polling(d) \/ TxTimeout(d) \/ Close(d) \/ Open(d)
    PROVE  SkbInv'
<1>00. \A f \in Seq(Nat), v \in Nat :
           /\ Elems(Append(f, v)) = Elems(f) \cup {v}
           /\ Once(f) /\ v \notin Elems(f) => Once(Append(f, v))
  BY PutLast
<1>0. CallTypes /\ HistTypes /\ skb \in [Dev -> Nat]
  BY DEF Types, PrivTypes
<1> USE <1>0, TwinIs DEF CallTypes, Set, Go, Poll, Sending, Giving, Eyeing, TimingOut, paramVars,
                   poolVars, privVars, napiVars, giveVars, txVars, pollVars, hist
<1>1. CASE Tx(d)
  <2>1. /\ UNCHANGED <<use_napi, freed, events>> /\ pc'[d] = "buffer" /\ cont'[d] = cont[d]
        /\ sent'[d] = sent[d] + 1 /\ skb'[d] = sent[d] + 1 /\ pc[d] = "idle"
        /\ sent'[Twin(d)] = sent[Twin(d)]
    BY <1>1 DEF Tx, HistTypes
  <2>2. PICK m \in Nat : m = sent[d]
    BY DEF HistTypes
  <2>3. SkbsOf(d)
    BY DEF SkbInv
  <2>4. sent[Twin(d)] = 0 /\ (use_napi \/ "timeout" \notin events) =>
           /\ Once(freed[d]) /\ (\A i \in Elems(freed[d]) : i <= m + 1)
           /\ m + 1 \notin Elems(freed[d])
    <3> SUFFICES ASSUME sent[Twin(d)] = 0, use_napi \/ "timeout" \notin events
                 PROVE  /\ Once(freed[d]) /\ (\A i \in Elems(freed[d]) : i <= m + 1)
                        /\ m + 1 \notin Elems(freed[d])
      OBVIOUS
    <3>1. Once(freed[d]) /\ \A i \in Elems(freed[d]) : i <= m
      BY <2>2, <2>3 DEF SkbsOf
    <3>2. \A i \in Elems(freed[d]) : i \in Nat
      BY DEF Elems, HistTypes
    <3> QED  BY <3>1, <3>2
  <2>5. SkbsOf(d)'
    <3>1. skb'[d] <= sent'[d] /\ sent'[d] > 0
      BY <2>1, <2>2
    <3>2. "timeout" \notin events => pc'[d] \notin TimingOut /\ cont'[d] # "t_pool"
      BY <2>1, <2>3 DEF SkbsOf
    <3>3. skb'[d] = m + 1 /\ sent'[d] = m + 1
      BY <2>1, <2>2
    <3>4. (Elems(freed[d]))' = Elems(freed[d]) /\ (Once(freed[d]))' = Once(freed[d])
      BY <2>1 DEF Elems, Once
    <3> QED  BY <2>1, <2>4, <3>1, <3>2, <3>3, <3>4 DEF SkbsOf
  <2>6. SkbsOf(Twin(d))'
    <3>1. /\ pc'[Twin(d)] = pc[Twin(d)] /\ cont'[Twin(d)] = cont[Twin(d)]
          /\ UNCHANGED <<skb[Twin(d)], freed[Twin(d)], sent[Twin(d)]>>
      BY <1>1 DEF Tx, HistTypes
    <3>2. sent'[d] # 0
      BY <2>1, <2>2
    <3>3. SkbsOf(Twin(d)) /\ Twin(Twin(d)) = d
      BY DEF SkbInv
    <3> QED  BY <2>1, <3>1, <3>2, <3>3 DEF SkbsOf, InTx
  <2> QED  BY <2>5, <2>6 DEF SkbInv
<1>2. CASE GetBuffer(d)
  BY <1>2, NoSkbFreed DEF GetBuffer, SameTx, InTx
<1>3. CASE NoBuffer(d)
  BY <1>3, NoSkbFreed DEF NoBuffer, SameTx, InTx
<1>4. CASE Enqueue(d)
  BY <1>4, NoSkbFreed DEF Enqueue, SameTx, InTx
<1>5. CASE RxInts(d)
  BY <1>5, NoSkbFreed DEF RxInts, SameTx, InTx
<1>6. CASE FlagRx(d)
  BY <1>6, NoSkbFreed DEF FlagRx, ReadStatus, WriteStatus, SameTx, InTx
<1>7. CASE FlagTx(d)
  BY <1>7, NoSkbFreed DEF FlagTx, ReadStatus, WriteStatus, SameTx, InTx
<1>8. ASSUME NEW e \in Dev, NEW from, NEW to, Interrupt(d, from, e, to),
             \/ e = d /\ from = "txirq" /\ to = "idle"
             \/ e = d /\ from = "t_irq" /\ to = "t_pool"
             \/ e = Twin(d) /\ from = "rxirq" /\ to = "txread"
      PROVE  SkbInv'
  <2>1. /\ pc[d] = from /\ FreeSkb(e)
        /\ Kept(d, to) \/ Taken(d, e, to)
        /\ UNCHANGED <<use_napi, sent, events>>
    BY <1>8, InterruptIs
  <2>2. \A x \in Dev : SameTx(x)
    <3>1. CASE Kept(d, to)
      BY <1>8, <2>1, <3>1 DEF Kept, SameTx, InTx
    <3>2. CASE Taken(d, e, to)
      BY <1>8, <2>1, <3>2 DEF Taken, SameTx, InTx
    <3> QED  BY <2>1, <3>1, <3>2
  <2>3. e = d => ~InTx(d)'
    <3>1. CASE Kept(d, to)
      BY <1>8, <2>1, <3>1 DEF Kept, InTx
    <3>2. CASE Taken(d, e, to)
      BY <1>8, <2>1, <3>2 DEF Taken, InTx
    <3> QED  BY <2>1, <3>1, <3>2
  <2>4. CASE UNCHANGED <<freed, skb>>
    BY <2>1, <2>2, <2>4, NoSkbFreed
  <2>5. CASE /\ freed' = Set(freed, e, Append(freed[e], skb[e])) /\ Freed(e)
             /\ skb' = Set(skb, e, IF use_napi THEN 0 ELSE skb[e])
    <3>1. SkbsOf(Twin(e))'
      <4>1. skb'[Twin(e)] = skb[Twin(e)] /\ freed'[Twin(e)] = freed[Twin(e)]
        BY <2>5 DEF HistTypes
      <4> QED  BY <2>1, <2>2, <4>1, SkbsStay DEF SkbInv
    <3>2. PICK v \in Nat : v = skb[e]
      OBVIOUS
    <3>3. PICK f \in Seq(Nat) : f = freed[e]
      BY DEF HistTypes
    <3>4. /\ freed'[e] = Append(f, v) /\ skb'[e] = (IF use_napi THEN 0 ELSE v)
          /\ sent'[e] = sent[e] /\ sent'[Twin(e)] = sent[Twin(e)]
      BY <2>1, <2>5, <3>2, <3>3 DEF HistTypes
    <3>5. SkbsOf(e) /\ SkbsOf(d)
      BY DEF SkbInv
    <3>6. /\ Elems(Append(f, v)) = Elems(f) \cup {v}
          /\ Once(f) /\ v \notin Elems(f) => Once(Append(f, v))
      BY <1>00
    <3>7. ASSUME sent[Twin(e)] = 0, use_napi \/ "timeout" \notin events
          PROVE  /\ e = d /\ Once(f) /\ v \notin Elems(f)
                 /\ \A i \in Elems(f) \cup {v} : i <= sent[e]
      <4>1. e = d
        BY <1>8, <2>1, <3>5, <3>7 DEF SkbsOf, InTx
      <4>2. Once(f) /\ (\A i \in Elems(f) \cup {v} : i <= sent[e])
        BY <3>2, <3>3, <3>5, <3>7 DEF SkbsOf
      <4>3. CASE from = "txirq"
        BY <2>1, <3>2, <3>3, <3>5, <3>7, <4>1, <4>2, <4>3 DEF SkbsOf, InTx
      <4>4. CASE from = "t_irq"
        <5>1. use_napi /\ v # 0
          BY <2>1, <2>5, <3>2, <3>5, <3>7, <4>1, <4>4 DEF SkbsOf, Freed
        <5> QED  BY <3>2, <3>3, <3>5, <3>7, <4>1, <4>2, <5>1 DEF SkbsOf
      <4> QED  BY <1>8, <4>1, <4>3, <4>4
    <3>8. SkbsOf(e)'
      <4>1. skb'[e] <= sent'[e]
        BY <3>2, <3>4, <3>5 DEF SkbsOf, HistTypes
      <4>2. InTx(e)' => sent'[e] > 0
        BY <2>2, <3>4, <3>5 DEF SkbsOf, SameTx
      <4>3. "timeout" \notin events => pc'[e] \notin TimingOut /\ cont'[e] # "t_pool"
        BY <2>1, <2>2, <3>5 DEF SkbsOf, SameTx
      <4>4. sent[Twin(e)] = 0 /\ (use_napi \/ "timeout" \notin events) =>
               /\ Once(Append(f, v)) /\ (\A i \in Elems(Append(f, v)) : i <= sent[e])
               /\ ~InTx(e)'
        BY <2>3, <3>6, <3>7
      <4>5. /\ (Once(freed[e]))' = Once(Append(f, v))
            /\ (Elems(freed[e]))' = Elems(Append(f, v))
        BY <3>4 DEF Once, Elems
      <4>6. use_napi => skb'[e] = 0
        BY <3>4
      <4> QED  BY <2>1, <3>4, <4>1, <4>2, <4>3, <4>4, <4>5, <4>6 DEF SkbsOf
    <3> QED  BY <3>1, <3>8 DEF SkbInv
  <2> QED  BY <2>1, <2>4, <2>5 DEF FreeSkb
<1>9. CASE RxIrq(d) \/ TxIrq(d) \/ TimeoutIrq(d)
  BY <1>8, <1>9 DEF RxIrq, TxIrq, TimeoutIrq
<1>10. CASE Lockup(d)
  BY <1>10, NoSkbFreed DEF Lockup, SameTx, InTx
<1>11. CASE ReleaseBuffer(d)
  BY <1>11, NoSkbFreed DEF ReleaseBuffer, SameTx, InTx
<1>12. CASE LookStopped(d)
  <2>1. UNCHANGED <<use_napi, skb, freed, sent, events>>
    BY <1>12 DEF LookStopped
  <2>2. /\ pc[d] \in Eyeing
        /\ \/ pc' \in {Set(pc, d, "next"), Set(pc, d, "wake")} /\ cont' = cont
           \/ pc' = Set(pc, d, cont[d]) /\ cont' = Set(cont, d, "idle")
    BY <1>12 DEF LookStopped, Leave
  <2>3. \A x \in Dev : SameTx(x)
    BY <2>1, <2>2 DEF SameTx, InTx
  <2> QED  BY <2>1, <2>3, NoSkbFreed
<1>13. CASE LookNext(d)
  <2>1. UNCHANGED <<use_napi, skb, freed, sent, events>>
    BY <1>13 DEF LookNext
  <2>2. /\ pc[d] \in Eyeing
        /\ \/ pc' \in {Set(pc, d, "next"), Set(pc, d, "wake")} /\ cont' = cont
           \/ pc' = Set(pc, d, cont[d]) /\ cont' = Set(cont, d, "idle")
    BY <1>13 DEF LookNext, Leave
  <2>3. \A x \in Dev : SameTx(x)
    BY <2>1, <2>2 DEF SameTx, InTx
  <2> QED  BY <2>1, <2>3, NoSkbFreed
<1>14. CASE WakeQueue(d)
  <2>1. UNCHANGED <<use_napi, skb, freed, sent, events>>
    BY <1>14 DEF WakeQueue
  <2>2. /\ pc[d] \in Eyeing
        /\ \/ pc' \in {Set(pc, d, "next"), Set(pc, d, "wake")} /\ cont' = cont
           \/ pc' = Set(pc, d, cont[d]) /\ cont' = Set(cont, d, "idle")
    BY <1>14 DEF WakeQueue, Leave
  <2>3. \A x \in Dev : SameTx(x)
    BY <2>1, <2>2 DEF SameTx, InTx
  <2> QED  BY <2>1, <2>3, NoSkbFreed
<1>15. CASE ResetPool(d)
  BY <1>15, NoSkbFreed DEF ResetPool, SameTx, InTx
<1>16. CASE TimeoutWake(d)
  BY <1>16, NoSkbFreed DEF TimeoutWake, SameTx, InTx
<1>17. CASE PollBegin(d)
  BY <1>17, NoSkbFreed DEF PollBegin, SameTx, InTx
<1>18. CASE PollLoop(d)
  BY <1>18, NoSkbFreed DEF PollLoop, SameTx, InTx
<1>19. CASE PollDequeue(d)
  BY <1>19, NoSkbFreed DEF PollDequeue, SameTx, InTx
<1>20. CASE PollRelease(d)
  BY <1>20, NoSkbFreed DEF PollRelease, SameTx, InTx
<1>21. CASE PollLook(d)
  BY <1>21, NoSkbFreed DEF PollLook, PollLeave, SameTx, InTx
<1>22. CASE PollNext(d)
  BY <1>22, NoSkbFreed DEF PollNext, PollLeave, SameTx, InTx
<1>23. CASE PollWake(d)
  BY <1>23, NoSkbFreed DEF PollWake, PollLeave, SameTx, InTx
<1>24. CASE PollEnd(d)
  BY <1>24, NoSkbFreed DEF PollEnd, SameTx, InTx
<1>25. CASE TxTimeout(d)
  BY <1>25, NoSkbFreed DEF TxTimeout, SameTx, InTx
<1>26. CASE Close(d)
  BY <1>26, NoSkbFreed DEF Close, SameTx, InTx
<1>27. CASE Open(d)
  BY <1>27, NoSkbFreed DEF Open, SameTx, InTx
<1> QED  BY <1>1, <1>2, <1>3, <1>4, <1>5, <1>6, <1>7, <1>9, <1>10, <1>11, <1>12, <1>13,
            <1>14, <1>15, <1>16, <1>17, <1>18, <1>19, <1>20, <1>21, <1>22, <1>23, <1>24,
            <1>25, <1>26, <1>27
            DEF Transmitting, Polling, Release

(***************************************************************************)
(* The queue and its pool: what one of the three does.                     *)
(***************************************************************************)
Unmoved(at, b, at2, b2, k) ==
    \/ at2[k] = at[k] /\ b2[k] = b[k]
    \/ at[k] \notin Eyeing /\ at2[k] \notin Eyeing

LEMMA FollowsStays ==
    ASSUME NEW P, NEW L, NEW S, NEW at, NEW b, NEW at2, NEW b2, Follows(P, L, S, at, b),
           \A k \in 1 .. 3 : Unmoved(at, b, at2, b2, k)
    PROVE  Follows(P, L, S, at2, b2)
<1>1. \A k \in 1 .. 3 : Wakes(L, at2, b2, k) <=> Wakes(L, at, b, k)
  BY DEF Unmoved, Wakes
<1>2. \A k \in 1 .. 3 : at2[k] \in Eyeing => at2[k] = at[k] /\ b2[k] = b[k]
  BY DEF Unmoved
<1> QED  BY <1>1, <1>2 DEF Follows

LEMMA FollowsLast ==
    ASSUME NEW P, NEW L, NEW S, NEW at, NEW b, NEW M, NEW c, Follows(P, L, S, at, b),
           c \notin Elems(P), M \in {L \cup {c}, L \ {c}}
    PROVE  Follows(P, M, S, at, b)
<1>1. \A k \in 1 .. 3 : at[k] \in Eyeing => b[k] # c
  BY DEF Follows
<1>2. \A k \in 1 .. 3 : at[k] \in Eyeing => (b[k] \in M <=> b[k] \in L)
  BY <1>1
<1>3. \A k \in 1 .. 3 : Wakes(M, at, b, k) <=> Wakes(L, at, b, k)
  BY <1>2 DEF Wakes
<1> QED  BY <1>2, <1>3 DEF Follows

LEMMA FollowsTake ==
    ASSUME NEW U, NEW P \in Seq(U), NEW L, NEW S \in BOOLEAN, NEW T \in BOOLEAN, NEW at, NEW b,
           P # <<>>, T <=> S \/ Len(P) = 1, Follows(P, L, S, at, b),
           \A k \in 1 .. 3 : at[k] \in Eyeing => b[k] # Head(P)
    PROVE  Follows(Tail(P), L, T, at, b)
<1>1. Elems(P) = Elems(Tail(P)) \cup {Head(P)} /\ (Tail(P) = <<>> <=> Len(P) = 1)
  <2>1. PICK n \in Nat : Len(P) = n + 1 /\ Len(Tail(P)) = n
    BY HeadAndTail
  <2>2. Tail(P) \in Seq(U) /\ Elems(P) = Elems(Tail(P)) \cup {Head(P)}
    BY TakeFirst
  <2>3. PICK t \in Seq(U) : t = Tail(P)
    BY <2>2
  <2>4. t = <<>> <=> Len(t) = 0
    OBVIOUS
  <2>5. Tail(P) = <<>> <=> n = 0
    BY <2>1, <2>3, <2>4
  <2>6. n = 0 <=> Len(P) = 1
    BY <2>1
  <2> QED  BY <2>2, <2>5, <2>6
<1>2. \A k \in 1 .. 3 : at[k] \in Eyeing => b[k] \in Elems(Tail(P))
  BY <1>1 DEF Follows
<1>3. Tail(P) = <<>> => Elems(Tail(P)) = {}
  BY DEF Elems
<1>4. \A k \in 1 .. 3 : at[k] \in Eyeing /\ b[k] \in L => S
  BY DEF Follows
<1>5. T => (Tail(P) # <<>> => \E k \in 1 .. 3 : Wakes(L, at, b, k))
  BY <1>1 DEF Follows
<1> QED  BY <1>1, <1>2, <1>3, <1>4, <1>5 DEF Follows

LEMMA FollowsGive ==
    ASSUME NEW U, NEW P \in Seq(U), NEW L, NEW S \in BOOLEAN, NEW at, NEW b, NEW at2, NEW b2,
           NEW c \in U, NEW M, NEW k \in 1 .. 3, Follows(P, L, S, at, b), c \notin Elems(P),
           M = (IF P = <<>> THEN L \cup {c} ELSE L \ {c}),
           at[k] \notin Eyeing, at2[k] = "look", b2[k] = c,
           \A j \in 1 .. 3 : j # k => Unmoved(at, b, at2, b2, j)
    PROVE  Follows(<<c>> \o P, M, S, at2, b2)
<1> DEFINE Q == <<c>> \o P
<1>1. Q # <<>> /\ Elems(Q) = Elems(P) \cup {c}
  BY PutFirst
<1> HIDE DEF Q
<1>2. \A j \in 1 .. 3 : j # k /\ at2[j] \in Eyeing =>
           at[j] \in Eyeing /\ at2[j] = at[j] /\ b2[j] = b[j] /\ b[j] \in Elems(P) /\ b[j] # c
  BY DEF Unmoved, Follows
<1>3. CASE P = <<>>
  <2>1. Elems(P) = {}
    BY <1>3 DEF Elems
  <2>2. \A j \in 1 .. 3 : at2[j] \in Eyeing => j = k
    BY <1>2, <2>1
  <2>3. S /\ c \in M /\ k \in 1 .. 3 /\ "look" \in Eyeing
    BY <1>3 DEF Follows, Eyeing
  <2>4. \E j \in 1 .. 3 : Wakes(M, at2, b2, j)
    BY <2>3 DEF Wakes
  <2>5. \A j \in 1 .. 3 : Wakes(M, at2, b2, j) => j = k
    BY <2>2 DEF Wakes
  <2>6. Follows(Q, M, S, at2, b2)
    BY <1>1, <2>2, <2>3, <2>4, <2>5 DEF Follows
  <2> QED  BY <2>6 DEF Q
<1>4. CASE P # <<>>
  <2>1. c \notin M /\ \A x : x # c => (x \in M <=> x \in L)
    BY <1>4
  <2>2. ~Wakes(M, at2, b2, k)
    BY <2>1 DEF Wakes
  <2>3. \A j \in 1 .. 3 : Wakes(M, at2, b2, j) => Wakes(L, at, b, j)
    BY <1>2, <2>1, <2>2 DEF Wakes
  <2>4. \A j \in 1 .. 3 : Wakes(L, at, b, j) => Wakes(M, at2, b2, j)
    <3> SUFFICES ASSUME NEW j \in 1 .. 3, Wakes(L, at, b, j) PROVE Wakes(M, at2, b2, j)
      OBVIOUS
    <3>1. j # k /\ at[j] \in Eyeing /\ b[j] \in L /\ b[j] \in Elems(P)
      BY DEF Wakes, Follows
    <3>2. at2[j] = at[j] /\ b2[j] = b[j] /\ b[j] # c
      BY <3>1 DEF Unmoved
    <3> QED  BY <2>1, <3>1, <3>2 DEF Wakes
  <2>5. \A j \in 1 .. 3 : at2[j] \in Eyeing => /\ b2[j] \in Elems(Q)
                                               /\ b2[j] \in M => S
                                               /\ at2[j] = "wake" => b2[j] \in M
    <3> SUFFICES ASSUME NEW j \in 1 .. 3, at2[j] \in Eyeing
                 PROVE  b2[j] \in Elems(Q) /\ (b2[j] \in M => S) /\ (at2[j] = "wake" => b2[j] \in M)
      OBVIOUS
    <3>1. CASE j = k
      BY <1>1, <2>1, <3>1
    <3>2. CASE j # k
      <4>1. at[j] \in Eyeing /\ at2[j] = at[j] /\ b2[j] = b[j] /\ b[j] \in Elems(P) /\ b[j] # c
        BY <1>2, <3>2
      <4>2. (b[j] \in L => S) /\ (at[j] = "wake" => b[j] \in L)
        BY <4>1 DEF Follows
      <4> QED  BY <1>1, <2>1, <4>1, <4>2
    <3> QED  BY <3>1, <3>2
  <2>6. Follows(Q, M, S, at2, b2)
    <3>1. \A i, j \in 1 .. 3 : Wakes(M, at2, b2, i) /\ Wakes(M, at2, b2, j) => i = j
      BY <2>3 DEF Follows
    <3>2. S => \E j \in 1 .. 3 : Wakes(M, at2, b2, j)
      BY <1>4, <2>4 DEF Follows
    <3> QED  BY <1>1, <2>5, <3>1, <3>2 DEF Follows
  <2> QED  BY <2>6 DEF Q
<1> QED  BY <1>3, <1>4

(***************************************************************************)
(* Who has given a buffer back looks on, leaves, or wakes the queue.       *)
(***************************************************************************)
LEMMA FollowsLook ==
    ASSUME NEW P, NEW L, NEW S, NEW at, NEW b, NEW at2, NEW b2, NEW k \in 1 .. 3,
           Follows(P, L, S, at, b), at[k] \in Eyeing, at2[k] \in Eyeing, b2[k] = b[k],
           at2[k] = "wake" => b[k] \in L,
           \A j \in 1 .. 3 : j # k => Unmoved(at, b, at2, b2, j)
    PROVE  Follows(P, L, S, at2, b2)
<1>1. \A j \in 1 .. 3 : Wakes(L, at2, b2, j) <=> Wakes(L, at, b, j)
  BY DEF Unmoved, Wakes
<1>2. \A j \in 1 .. 3 : at2[j] \in Eyeing => /\ at[j] \in Eyeing /\ b2[j] = b[j]
                                             /\ at2[j] = "wake" => b[j] \in L
  BY DEF Unmoved, Follows
<1> QED  BY <1>1, <1>2 DEF Follows

LEMMA FollowsLeave ==
    ASSUME NEW P, NEW L, NEW S \in BOOLEAN, NEW at, NEW b, NEW at2, NEW b2, NEW k \in 1 .. 3,
           Follows(P, L, S, at, b), at[k] \in Eyeing, ~S \/ b[k] \notin L, at2[k] \notin Eyeing,
           \A j \in 1 .. 3 : j # k => Unmoved(at, b, at2, b2, j)
    PROVE  Follows(P, L, S, at2, b2)
<1>1. ~Wakes(L, at, b, k)
  BY DEF Wakes, Follows
<1>2. \A j \in 1 .. 3 : Wakes(L, at2, b2, j) <=> Wakes(L, at, b, j)
  BY <1>1 DEF Unmoved, Wakes
<1>3. \A j \in 1 .. 3 : at2[j] \in Eyeing => at2[j] = at[j] /\ b2[j] = b[j]
  BY DEF Unmoved
<1> QED  BY <1>2, <1>3 DEF Follows

LEMMA FollowsWake ==
    ASSUME NEW P, NEW L, NEW S, NEW T, NEW at, NEW b, NEW at2, NEW b2, NEW k \in 1 .. 3,
           Follows(P, L, S, at, b), ~T, at[k] = "wake", at2[k] \notin Eyeing,
           \A j \in 1 .. 3 : j # k => Unmoved(at, b, at2, b2, j)
    PROVE  Follows(P, L, T, at2, b2)
<1>1. at[k] \in Eyeing /\ b[k] \in Elems(P) /\ b[k] \in L
  BY DEF Follows, Eyeing
<1>2. P # <<>>
  BY <1>1 DEF Elems
<1>3. \A j \in 1 .. 3 : j # k => ~Wakes(L, at, b, j)
  BY <1>1 DEF Follows, Wakes
<1>4. \A j \in 1 .. 3 : ~Wakes(L, at2, b2, j)
  BY <1>3 DEF Unmoved, Wakes
<1>5. \A j \in 1 .. 3 : at2[j] \in Eyeing => at2[j] = at[j] /\ b2[j] = b[j] /\ b2[j] \notin L
  BY <1>4 DEF Unmoved, Wakes
<1> QED  BY <1>2, <1>4, <1>5 DEF Follows

Ix(d, x) == IF x = d THEN 1 ELSE 2

Elsewhere(d, x) ==
    \/ UNCHANGED <<pc[x], of[x], pkt[x]>>
    \/ ~(of[x] = d /\ pc[x] \in Eyeing) /\ ~(of'[x] = d /\ pc'[x] \in Eyeing)

PollElsewhere(d) ==
    \/ UNCHANGED <<poll[Twin(d)], ppkt[Twin(d)]>>
    \/ poll[Twin(d)] \notin Eyeing /\ poll'[Twin(d)] \notin Eyeing

LEMMA AtElsewhere ==
    ASSUME NEW d \in Dev
    PROVE  /\ \A x \in Dev : Elsewhere(d, x) => Unmoved(At[d], Has[d], At'[d], Has'[d], Ix(d, x))
           /\ PollElsewhere(d) => Unmoved(At[d], Has[d], At'[d], Has'[d], 3)
           /\ \A x \in Dev : Ix(d, x) \in 1 .. 3 /\ Ix(d, x) # 3
           /\ \A x, y \in Dev : x # y => Ix(d, x) # Ix(d, y)
           /\ \A k \in 1 .. 3 : k = 3 \/ \E x \in Dev : k = Ix(d, x)
<1>1. ASSUME NEW x \in Dev, Elsewhere(d, x)
      PROVE  Unmoved(At[d], Has[d], At'[d], Has'[d], Ix(d, x))
  <2>1. "idle" \notin Eyeing
    BY DEF Eyeing
  <2>2. CASE x = d
    BY <1>1, <2>1, <2>2 DEF Elsewhere, Unmoved, At, Has, Ix
  <2>3. CASE x # d
    <3>1. x = Twin(d)
      BY <2>3, TwinIs
    <3> QED  BY <1>1, <2>1, <2>3, <3>1 DEF Elsewhere, Unmoved, At, Has, Ix
  <2> QED  BY <2>2, <2>3
<1>2. PollElsewhere(d) => Unmoved(At[d], Has[d], At'[d], Has'[d], 3)
  BY DEF PollElsewhere, Unmoved, At, Has
<1>3. /\ \A x \in Dev : Ix(d, x) \in 1 .. 3 /\ Ix(d, x) # 3
      /\ \A x, y \in Dev : x # y => Ix(d, x) # Ix(d, y)
      /\ \A k \in 1 .. 3 : k = 3 \/ \E x \in Dev : k = Ix(d, x)
  BY TwinIs DEF Ix
<1> QED  BY <1>1, <1>2, <1>3

LEMMA AllUnmoved ==
    ASSUME NEW d \in Dev, \A x \in Dev : Elsewhere(d, x), PollElsewhere(d)
    PROVE  \A k \in 1 .. 3 : Unmoved(At[d], Has[d], At'[d], Has'[d], k)
<1> SUFFICES ASSUME NEW k \in 1 .. 3 PROVE Unmoved(At[d], Has[d], At'[d], Has'[d], k)
  OBVIOUS
<1>1. CASE k = 3
  BY <1>1, AtElsewhere
<1>2. ASSUME NEW x \in Dev, k = Ix(d, x) PROVE Unmoved(At[d], Has[d], At'[d], Has'[d], k)
  <2>1. Unmoved(At[d], Has[d], At'[d], Has'[d], Ix(d, x))
    BY AtElsewhere
  <2> QED  BY <1>2, <2>1
<1>3. k = 3 \/ \E x \in Dev : k = Ix(d, x)
  BY AtElsewhere
<1> QED  BY <1>1, <1>2, <1>3

LEMMA OthersUnmoved ==
    ASSUME NEW d \in Dev, NEW x \in Dev, \A y \in Dev : y # x => Elsewhere(d, y), PollElsewhere(d)
    PROVE  \A k \in 1 .. 3 : k # Ix(d, x) => Unmoved(At[d], Has[d], At'[d], Has'[d], k)
<1> SUFFICES ASSUME NEW k \in 1 .. 3, k # Ix(d, x)
             PROVE  Unmoved(At[d], Has[d], At'[d], Has'[d], k)
  OBVIOUS
<1>1. CASE k = 3
  BY <1>1, AtElsewhere
<1>2. ASSUME NEW y \in Dev, k = Ix(d, y) PROVE Unmoved(At[d], Has[d], At'[d], Has'[d], k)
  <2>1. y # x
    BY <1>2
  <2>2. Unmoved(At[d], Has[d], At'[d], Has'[d], Ix(d, y))
    BY <2>1, AtElsewhere
  <2> QED  BY <1>2, <2>2
<1>3. k = 3 \/ \E y \in Dev : k = Ix(d, y)
  BY AtElsewhere
<1> QED  BY <1>1, <1>2, <1>3

LEMMA ThreadsUnmoved ==
    ASSUME NEW d \in Dev, \A x \in Dev : Elsewhere(d, x)
    PROVE  \A k \in 1 .. 3 : k # 3 => Unmoved(At[d], Has[d], At'[d], Has'[d], k)
<1> SUFFICES ASSUME NEW k \in 1 .. 3, k # 3 PROVE Unmoved(At[d], Has[d], At'[d], Has'[d], k)
  OBVIOUS
<1>1. PICK x \in Dev : k = Ix(d, x)
  BY AtElsewhere
<1>2. Unmoved(At[d], Has[d], At'[d], Has'[d], Ix(d, x))
  BY AtElsewhere
<1> QED  BY <1>1, <1>2

LEMMA AtIs ==
    ASSUME NEW d \in Dev
    PROVE  /\ \A x \in Dev : /\ At[d][Ix(d, x)] = IF of[x] = d THEN pc[x] ELSE "idle"
                             /\ Has[d][Ix(d, x)] = pkt[x]
                             /\ At'[d][Ix(d, x)] = IF of'[x] = d THEN pc'[x] ELSE "idle"
                             /\ Has'[d][Ix(d, x)] = pkt'[x]
           /\ At[d][3] = poll[Twin(d)] /\ Has[d][3] = ppkt[Twin(d)]
           /\ At'[d][3] = poll'[Twin(d)] /\ Has'[d][3] = ppkt'[Twin(d)]
<1> QED  BY TwinIs DEF At, Has, Ix

LEMMA FollowsOfStays ==
    ASSUME NEW d \in Dev, FollowsOf(d), UNCHANGED <<ppool[d], last[d], stopped[d]>>,
           \A x \in Dev : Elsewhere(d, x), PollElsewhere(d)
    PROVE  FollowsOf(d)'
<1>1. \A k \in 1 .. 3 : Unmoved(At[d], Has[d], At'[d], Has'[d], k)
  BY AllUnmoved
<1>2. Follows(ppool[d], last[d], stopped[d], At'[d], Has'[d])
  BY <1>1, FollowsStays DEF FollowsOf
<1> QED  BY <1>2 DEF FollowsOf

LEMMA NothingGiven ==
    ASSUME \A d \in Dev : FollowsOf(d), UNCHANGED <<ppool, last, stopped>>,
           \A d, x \in Dev : Elsewhere(d, x), \A d \in Dev : PollElsewhere(d)
    PROVE  \A d \in Dev : FollowsOf(d)'
<1> QED  BY FollowsOfStays

LEMMA CalmStep ==
    ASSUME Types, \A x \in Dev : CalmOf(x), events' = {}, NEW d \in Dev,
           Tx(d) \/ Transmitting(d) \/ Polling(d) \/ TxTimeout(d) \/ Close(d) \/ Open(d)
    PROVE  \A x \in Dev : CalmOf(x)'
<1>0. CallTypes /\ up \in [Dev -> BOOLEAN] /\ stopped \in [Dev -> BOOLEAN]
  BY DEF Types, PrivTypes
<1> USE <1>0, TwinIs DEF CalmOf, CallTypes, Set, Go, Poll, Sending, Giving, Eyeing, TimingOut,
                   paramVars, poolVars, privVars, napiVars, giveVars, txVars, pollVars, hist
<1>1. CASE Tx(d)
  BY <1>1 DEF Tx
<1>2. CASE GetBuffer(d)
  BY <1>2 DEF GetBuffer
<1>3. CASE NoBuffer(d)
  BY <1>3 DEF NoBuffer
<1>4. CASE Enqueue(d)
  BY <1>4 DEF Enqueue
<1>5. CASE RxInts(d)
  BY <1>5 DEF RxInts
<1>6. CASE FlagRx(d)
  BY <1>6 DEF FlagRx, ReadStatus, WriteStatus
<1>7. CASE FlagTx(d)
  BY <1>7 DEF FlagTx, ReadStatus, WriteStatus
<1>8. ASSUME NEW e \in Dev, NEW from \in {"rxirq", "txirq"}, NEW to \in {"idle", "txread"},
             Interrupt(d, from, e, to)
      PROVE  \A x \in Dev : CalmOf(x)'
  <2>1. (Kept(d, to) \/ Taken(d, e, to)) /\ UNCHANGED <<stopped, up>>
    BY <1>8, InterruptIs
  <2> QED  BY <2>1 DEF Kept, Taken
<1>9. CASE RxIrq(d) \/ TxIrq(d)
  BY <1>8, <1>9 DEF RxIrq, TxIrq
<1>10. CASE TimeoutIrq(d)
  <2>1. pc[d] = "t_irq"
    BY <1>10 DEF TimeoutIrq, Interrupt
  <2> QED  BY <2>1
<1>11. CASE Lockup(d)
  BY <1>11 DEF Lockup
<1>12. CASE ReleaseBuffer(d)
  BY <1>12 DEF ReleaseBuffer
<1>13. CASE LookStopped(d)
  BY <1>13 DEF LookStopped, Leave
<1>14. CASE LookNext(d)
  BY <1>14 DEF LookNext, Leave
<1>15. CASE WakeQueue(d)
  BY <1>15 DEF WakeQueue, Leave
<1>16. CASE ResetPool(d)
  BY <1>16 DEF ResetPool
<1>17. CASE TimeoutWake(d)
  BY <1>17 DEF TimeoutWake
<1>18. CASE PollBegin(d)
  BY <1>18 DEF PollBegin
<1>19. CASE PollLoop(d)
  BY <1>19 DEF PollLoop
<1>20. CASE PollDequeue(d)
  BY <1>20 DEF PollDequeue
<1>21. CASE PollRelease(d)
  BY <1>21 DEF PollRelease
<1>22. CASE PollLook(d)
  BY <1>22 DEF PollLook, PollLeave
<1>23. CASE PollNext(d)
  BY <1>23 DEF PollNext, PollLeave
<1>24. CASE PollWake(d)
  BY <1>24 DEF PollWake, PollLeave
<1>25. CASE PollEnd(d)
  BY <1>25 DEF PollEnd
<1>26. CASE TxTimeout(d)
  BY <1>26 DEF TxTimeout
<1>27. CASE Close(d)
  BY <1>27 DEF Close
<1>28. CASE Open(d)
  BY <1>28 DEF Open
<1> QED  BY <1>1, <1>2, <1>3, <1>4, <1>5, <1>6, <1>7, <1>9, <1>10, <1>11, <1>12, <1>13,
            <1>14, <1>15, <1>16, <1>17, <1>18, <1>19, <1>20, <1>21, <1>22, <1>23, <1>24,
            <1>25, <1>26, <1>27, <1>28
            DEF Transmitting, Polling, Release

LEMMA FollowsStep ==
    ASSUME Types, CallInv, BufferInv, \A x \in Dev : FollowsOf(x) /\ CalmOf(x),
           events' = {}, NEW d \in Dev,
           Tx(d) \/ Transmitting(d) \/ Polling(d) \/ TxTimeout(d) \/ Close(d) \/ Open(d)
    PROVE  \A x \in Dev : FollowsOf(x)'
<1>0. /\ CallTypes /\ ppool \in [Dev -> Seq(Buffer)] /\ last \in [Dev -> SUBSET Buffer]
      /\ stopped \in [Dev -> BOOLEAN] /\ rx_queue \in [Dev -> Queue]
  BY DEF Types, PrivTypes, Queue
<1> USE DEF CallTypes, Set, Go, Poll, paramVars,
                   poolVars, privVars, napiVars, giveVars, txVars, pollVars, hist
<1>00. \A x \in Dev : pc[x] \notin TimingOut /\ up[x] /\ cont[x] \notin Eyeing
  BY <1>0 DEF CalmOf, Eyeing
<1>1. CASE Tx(d)
  BY <1>0, TwinIs, <1>1, NothingGiven DEF Tx, Elsewhere, PollElsewhere, Eyeing
<1>2. CASE GetBuffer(d)
  <2> DEFINE c == Head(ppool[d])
  <2>1. /\ ppool[d] # <<>> /\ ppool'[d] = Tail(ppool[d]) /\ last' = last
        /\ stopped'[d] = (stopped[d] \/ Len(ppool[d]) = 1) /\ ~Looking(d, c)
    BY <1>0, TwinIs, <1>2 DEF GetBuffer, LastBuffer
  <2>2. (\A i, x \in Dev : Elsewhere(i, x)) /\ \A i \in Dev : PollElsewhere(i)
    BY <1>0, TwinIs, <1>2 DEF GetBuffer, Elsewhere, PollElsewhere, Eyeing
  <2>3. FollowsOf(Twin(d))'
    <3>1. UNCHANGED <<ppool[Twin(d)], last[Twin(d)], stopped[Twin(d)]>>
      BY <1>0, TwinIs, <1>2 DEF GetBuffer
    <3> QED  BY TwinIs, <2>2, <3>1, FollowsOfStays
  <2>4. \A k \in 1 .. 3 : At[d][k] \in Eyeing => Has[d][k] # c
    <3> SUFFICES ASSUME NEW k \in 1 .. 3, At[d][k] \in Eyeing PROVE Has[d][k] # c
      OBVIOUS
    <3>1. CASE k = 3
      BY <2>1, <3>1, AtIs DEF Looking, Eyeing
    <3>2. ASSUME NEW x \in Dev, k = Ix(d, x) PROVE Has[d][k] # c
      <4>1. of[x] = d /\ pc[x] \in Eyeing /\ Has[d][k] = pkt[x]
        BY <3>2, AtIs DEF Eyeing
      <4> QED  BY <2>1, <4>1 DEF Looking, Eyeing
    <3> QED  BY <3>1, <3>2, AtElsewhere
  <2>5. Follows(Tail(ppool[d]), last[d], stopped'[d], At[d], Has[d])
    <3>1. /\ Follows(ppool[d], last[d], stopped[d], At[d], Has[d]) /\ ppool[d] \in Seq(Buffer)
          /\ stopped[d] \in BOOLEAN /\ stopped'[d] \in BOOLEAN
          /\ stopped'[d] <=> stopped[d] \/ Len(ppool[d]) = 1
      BY <1>0, <2>1 DEF FollowsOf
    <3> QED  BY <2>1, <2>4, <3>1, FollowsTake
  <2>6. \A k \in 1 .. 3 : Unmoved(At[d], Has[d], At'[d], Has'[d], k)
    BY <2>2, AllUnmoved
  <2>7. Follows(Tail(ppool[d]), last[d], stopped'[d], At'[d], Has'[d])
    BY <2>5, <2>6, FollowsStays
  <2>8. FollowsOf(d)'
    BY <2>1, <2>7 DEF FollowsOf
  <2> QED  BY TwinIs, <2>3, <2>8
<1>3. CASE NoBuffer(d)
  BY <1>0, TwinIs, <1>3, NothingGiven DEF NoBuffer, Elsewhere, PollElsewhere, Eyeing
<1>4. CASE Enqueue(d)
  <2>1. /\ ppool' = ppool /\ stopped' = stopped
        /\ last'[d] \in {last[d] \cup {pkt[d]}, last[d] \ {pkt[d]}}
    BY <1>0, TwinIs, <1>4 DEF Enqueue
  <2>2. (\A i, x \in Dev : Elsewhere(i, x)) /\ \A i \in Dev : PollElsewhere(i)
    BY <1>0, TwinIs, <1>4 DEF Enqueue, Elsewhere, PollElsewhere, Eyeing
  <2>3. FollowsOf(Twin(d))'
    <3>1. UNCHANGED <<ppool[Twin(d)], last[Twin(d)], stopped[Twin(d)]>>
      BY <1>0, TwinIs, <1>4 DEF Enqueue
    <3> QED  BY TwinIs, <2>2, <3>1, FollowsOfStays
  <2>4. pkt[d] \notin Elems(ppool[d])
    <3>1. InHand(d, d) = {pkt[d]} /\ BuffersOf(d)
      BY <1>0, TwinIs, <1>4 DEF Enqueue, InHand, BufferInv
    <3> QED  BY <3>1 DEF BuffersOf, Apart
  <2>5. Follows(ppool[d], last'[d], stopped[d], At[d], Has[d])
    <3>1. Follows(ppool[d], last[d], stopped[d], At[d], Has[d])
      BY DEF FollowsOf
    <3> QED  BY <2>1, <2>4, <3>1, FollowsLast
  <2>6. \A k \in 1 .. 3 : Unmoved(At[d], Has[d], At'[d], Has'[d], k)
    BY <2>2, AllUnmoved
  <2>7. Follows(ppool[d], last'[d], stopped[d], At'[d], Has'[d])
    BY <2>5, <2>6, FollowsStays
  <2>8. FollowsOf(d)'
    BY <2>1, <2>7 DEF FollowsOf
  <2> QED  BY TwinIs, <2>3, <2>8
<1>5. CASE RxInts(d)
  BY <1>0, TwinIs, <1>5, NothingGiven DEF RxInts, Elsewhere, PollElsewhere, Eyeing
<1>6. CASE FlagRx(d)
  BY <1>0, TwinIs, <1>6, NothingGiven DEF FlagRx, ReadStatus, WriteStatus, Elsewhere,
      PollElsewhere, Eyeing
<1>7. CASE FlagTx(d)
  BY <1>0, TwinIs, <1>7, NothingGiven DEF FlagTx, ReadStatus, WriteStatus, Elsewhere,
      PollElsewhere, Eyeing
<1>8. ASSUME NEW e \in Dev, NEW from \in {"rxirq", "txirq", "t_irq"},
             NEW to \in {"idle", "txread", "t_pool"}, Interrupt(d, from, e, to)
      PROVE  \A x \in Dev : FollowsOf(x)'
  <2>1. /\ pc[d] = from
        /\ Kept(d, to) \/ Taken(d, e, to)
        /\ UNCHANGED <<ppool, last, stopped, poll, ppkt>>
    BY <1>8, InterruptIs
  <2>2. CASE Kept(d, to)
    BY <1>0, TwinIs, <2>1, <2>2, NothingGiven DEF Kept, Elsewhere, PollElsewhere, Eyeing
  <2>3. CASE Taken(d, e, to)
    BY <1>0, TwinIs, <2>1, <2>3, NothingGiven DEF Taken, Elsewhere, PollElsewhere, Eyeing
  <2> QED  BY <2>1, <2>2, <2>3
<1>9. CASE RxIrq(d) \/ TxIrq(d) \/ TimeoutIrq(d)
  BY TwinIs, <1>8, <1>9 DEF RxIrq, TxIrq, TimeoutIrq
<1>10. CASE Lockup(d)
  BY <1>0, TwinIs, <1>10, NothingGiven DEF Lockup, Elsewhere, PollElsewhere, Eyeing
<1>11. CASE ReleaseBuffer(d)
  <2>1. PICK e \in Dev : e = of[d]
    BY <1>0
  <2>2. PICK c \in Buffer : c = pkt[d]
    BY <1>0, TwinIs, <1>11 DEF ReleaseBuffer, CallInv, Giving
  <2>3. /\ ppool' = Set(ppool, e, <<c>> \o ppool[e]) /\ stopped' = stopped
        /\ last' = Set(last, e, IF ppool[e] = <<>> THEN last[e] \cup {c} ELSE last[e] \ {c})
        /\ pc[d] = "release" /\ pc'[d] = "look" /\ of' = of /\ pkt' = pkt
    BY <1>0, TwinIs, <1>11, <2>1, <2>2 DEF ReleaseBuffer, GiveBack, Giver, WasEmpty
  <2>4. /\ \A i, x \in Dev : x # d => Elsewhere(i, x)
        /\ \A i \in Dev : PollElsewhere(i)
        /\ \A i \in Dev : i # e => Elsewhere(i, d)
    BY <1>0, TwinIs, <1>11, <2>1 DEF ReleaseBuffer, Elsewhere, PollElsewhere
  <2>5. FollowsOf(Twin(e))'
    <3>1. UNCHANGED <<ppool[Twin(e)], last[Twin(e)], stopped[Twin(e)]>>
      BY <1>0, TwinIs, <2>3
    <3> QED  BY TwinIs, <2>4, <3>1, FollowsOfStays
  <2>6. c \notin Elems(ppool[e])
    <3>1. InHand(e, d) = {c} /\ BuffersOf(e) /\ (d = e \/ d = Twin(e))
      BY TwinIs, <2>1, <2>2, <2>3 DEF InHand, BufferInv
    <3> QED  BY <3>1 DEF BuffersOf, Apart
  <2>7. PICK k \in 1 .. 3 : k = Ix(e, d)
    BY AtElsewhere
  <2>8. At[e][k] \notin Eyeing /\ At'[e][k] = "look" /\ Has'[e][k] = c
    BY <2>1, <2>2, <2>3, <2>7, AtIs DEF Eyeing
  <2>9. \A j \in 1 .. 3 : j # k => Unmoved(At[e], Has[e], At'[e], Has'[e], j)
    BY <2>4, <2>7, OthersUnmoved
  <2>10. /\ ppool'[e] = <<c>> \o ppool[e] /\ stopped'[e] = stopped[e]
         /\ last'[e] = (IF ppool[e] = <<>> THEN last[e] \cup {c} ELSE last[e] \ {c})
         /\ ppool[e] \in Seq(Buffer) /\ stopped[e] \in BOOLEAN
    BY <1>0, <2>3
  <2>11. FollowsOf(e)'
    <3>1. Follows(ppool[e], last[e], stopped[e], At[e], Has[e])
      BY DEF FollowsOf
    <3>2. Follows(<<c>> \o ppool[e], last'[e], stopped[e], At'[e], Has'[e])
      <4>1. PICK P \in Seq(Buffer), S \in BOOLEAN : P = ppool[e] /\ S = stopped[e]
        BY <2>10
      <4>2. PICK at, b, at2, b2, L, M : /\ at = At[e] /\ b = Has[e] /\ at2 = At'[e]
                                        /\ b2 = Has'[e] /\ L = last[e] /\ M = last'[e]
        OBVIOUS
      <4>3. Follows(P, L, S, at, b) /\ c \notin Elems(P) /\ at[k] \notin Eyeing
        BY <2>6, <2>8, <3>1, <4>1, <4>2
      <4>4. M = (IF P = <<>> THEN L \cup {c} ELSE L \ {c})
        BY <2>10, <4>1, <4>2
      <4>5. at2[k] = "look" /\ b2[k] = c /\ \A j \in 1 .. 3 : j # k => Unmoved(at, b, at2, b2, j)
        BY <2>8, <2>9, <4>2
      <4>6. Follows(<<c>> \o P, M, S, at2, b2)
        BY <4>3, <4>4, <4>5, FollowsGive
      <4> QED  BY <4>1, <4>2, <4>6
    <3> QED  BY <2>10, <3>2 DEF FollowsOf
  <2> QED  BY TwinIs, <2>5, <2>11
<1>12. CASE LookStopped(d)
  <2>1. PICK e \in Dev : e = of[d]
    BY <1>0
  <2>2. /\ UNCHANGED <<ppool, last, stopped>> /\ pc[d] = "look"
        /\ \/ stopped[e] /\ pc'[d] = "next" /\ of'[d] = e /\ pkt'[d] = pkt[d]
           \/ ~stopped[e] /\ pc'[d] = cont[d]
    BY <1>0, TwinIs, <1>12, <2>1 DEF LookStopped, Leave
  <2>4. /\ \A i, x \in Dev : x # d => Elsewhere(i, x)
        /\ \A i \in Dev : PollElsewhere(i)
        /\ \A i \in Dev : i # e => Elsewhere(i, d)
    BY <1>0, TwinIs, <1>00, <1>12, <2>1 DEF LookStopped, Leave, Elsewhere, PollElsewhere
  <2>5. FollowsOf(Twin(e))'
    <3>1. UNCHANGED <<ppool[Twin(e)], last[Twin(e)], stopped[Twin(e)]>>
      BY <1>0, TwinIs, <1>12, <2>1 DEF LookStopped
    <3> QED  BY TwinIs, <2>4, <3>1, FollowsOfStays
  <2>6. PICK k \in 1 .. 3 : k = Ix(e, d)
    BY AtElsewhere
  <2>7. \A j \in 1 .. 3 : j # k => Unmoved(At[e], Has[e], At'[e], Has'[e], j)
    BY <2>4, <2>6, OthersUnmoved
  <2>8. Follows(ppool[e], last[e], stopped[e], At[e], Has[e]) /\ stopped[e] \in BOOLEAN
    BY <1>0 DEF FollowsOf
  <2>9. FollowsOf(e)'
    <3>1. At[e][k] = "look" /\ At[e][k] \in Eyeing
      BY <2>1, <2>2, <2>6, AtIs DEF Eyeing
    <3>2. CASE stopped[e]
      <4>1. At'[e][k] = "next" /\ Has'[e][k] = Has[e][k] /\ "next" \in Eyeing
        BY <2>2, <2>6, <3>2, AtIs DEF Eyeing
      <4>2. Follows(ppool[e], last[e], stopped[e], At'[e], Has'[e])
        BY <2>7, <2>8, <3>1, <4>1, FollowsLook
      <4> QED  BY <2>2, <4>2 DEF FollowsOf
    <3>3. CASE ~stopped[e]
      <4>1. At'[e][k] \notin Eyeing
        BY <1>00, <2>2, <2>6, <3>3, AtIs DEF Eyeing
      <4>2. Follows(ppool[e], last[e], stopped[e], At'[e], Has'[e])
        BY <2>7, <2>8, <3>1, <3>3, <4>1, FollowsLeave
      <4> QED  BY <2>2, <4>2 DEF FollowsOf
    <3> QED  BY <3>2, <3>3
  <2> QED  BY TwinIs, <2>5, <2>9
<1>13. CASE LookNext(d)
  <2>1. PICK e \in Dev : e = of[d]
    BY <1>0
  <2>2. UNCHANGED <<ppool, last, stopped>> /\ pc[d] = "next"
    BY <1>0, TwinIs, <1>13 DEF LookNext, Leave
  <2>3. \/ pkt[d] \in last[e] /\ pc'[d] = "wake" /\ of'[d] = e /\ pkt'[d] = pkt[d]
        \/ pkt[d] \notin last[e] /\ pc'[d] = cont[d]
    <3>1. pkt[d] \in Elems(ppool[e])
      <4>1. Ix(e, d) \in 1 .. 3 /\ At[e][Ix(e, d)] = "next" /\ Has[e][Ix(e, d)] = pkt[d]
        BY <2>1, <2>2, AtIs, AtElsewhere
      <4> QED  BY <4>1 DEF FollowsOf, Follows, Eyeing
    <3>2. pkt[d] \in heap[e]
      BY <3>1 DEF BufferInv, BuffersOf, Apart
    <3> QED  BY <1>0, TwinIs, <1>13, <2>1, <3>2 DEF LookNext, Leave, NextIs
  <2>4. /\ \A i, x \in Dev : x # d => Elsewhere(i, x)
        /\ \A i \in Dev : PollElsewhere(i)
        /\ \A i \in Dev : i # e => Elsewhere(i, d)
    BY <1>0, TwinIs, <1>00, <1>13, <2>1 DEF LookNext, Leave, Elsewhere, PollElsewhere
  <2>5. FollowsOf(Twin(e))'
    <3>1. UNCHANGED <<ppool[Twin(e)], last[Twin(e)], stopped[Twin(e)]>>
      BY <1>0, TwinIs, <1>13, <2>1 DEF LookNext
    <3> QED  BY TwinIs, <2>4, <3>1, FollowsOfStays
  <2>6. PICK k \in 1 .. 3 : k = Ix(e, d)
    BY AtElsewhere
  <2>7. \A j \in 1 .. 3 : j # k => Unmoved(At[e], Has[e], At'[e], Has'[e], j)
    BY <2>4, <2>6, OthersUnmoved
  <2>8. Follows(ppool[e], last[e], stopped[e], At[e], Has[e]) /\ stopped[e] \in BOOLEAN
    BY <1>0 DEF FollowsOf
  <2>9. FollowsOf(e)'
    <3>1. At[e][k] = "next" /\ At[e][k] \in Eyeing /\ Has[e][k] = pkt[d]
      BY <2>1, <2>2, <2>6, AtIs DEF Eyeing
    <3>2. CASE pkt[d] \in last[e]
      <4>1. At'[e][k] = "wake" /\ Has'[e][k] = Has[e][k] /\ "wake" \in Eyeing
        BY <2>3, <2>6, <3>2, AtIs DEF Eyeing
      <4>2. Follows(ppool[e], last[e], stopped[e], At'[e], Has'[e])
        BY <2>7, <2>8, <3>1, <3>2, <4>1, FollowsLook
      <4> QED  BY <2>2, <4>2 DEF FollowsOf
    <3>3. CASE pkt[d] \notin last[e]
      <4>1. At'[e][k] \notin Eyeing
        BY <1>00, <2>3, <2>6, <3>3, AtIs DEF Eyeing
      <4>2. Has[e][k] \notin last[e]
        BY <3>1, <3>3
      <4>3. Follows(ppool[e], last[e], stopped[e], At'[e], Has'[e])
        BY <2>7, <2>8, <3>1, <4>1, <4>2, FollowsLeave
      <4> QED  BY <2>2, <4>3 DEF FollowsOf
    <3> QED  BY <3>2, <3>3
  <2> QED  BY TwinIs, <2>5, <2>9
<1>14. CASE WakeQueue(d)
  <2>1. PICK e \in Dev : e = of[d]
    BY <1>0
  <2>2. /\ UNCHANGED <<ppool, last>> /\ pc[d] = "wake" /\ stopped'[e] = FALSE
        /\ pc'[d] = cont[d]
    BY <1>0, TwinIs, <1>14, <2>1 DEF WakeQueue, Leave
  <2>4. /\ \A i, x \in Dev : x # d => Elsewhere(i, x)
        /\ \A i \in Dev : PollElsewhere(i)
        /\ \A i \in Dev : i # e => Elsewhere(i, d)
    BY <1>0, TwinIs, <1>00, <1>14, <2>1 DEF WakeQueue, Leave, Elsewhere, PollElsewhere
  <2>5. FollowsOf(Twin(e))'
    <3>1. UNCHANGED <<ppool[Twin(e)], last[Twin(e)], stopped[Twin(e)]>>
      BY <1>0, TwinIs, <1>14, <2>1 DEF WakeQueue
    <3> QED  BY TwinIs, <2>4, <3>1, FollowsOfStays
  <2>6. PICK k \in 1 .. 3 : k = Ix(e, d)
    BY AtElsewhere
  <2>7. \A j \in 1 .. 3 : j # k => Unmoved(At[e], Has[e], At'[e], Has'[e], j)
    BY <2>4, <2>6, OthersUnmoved
  <2>8. Follows(ppool[e], last[e], stopped[e], At[e], Has[e]) /\ stopped[e] \in BOOLEAN
    BY <1>0 DEF FollowsOf
  <2>9. FollowsOf(e)'
    <3>1. At[e][k] = "wake" /\ At'[e][k] \notin Eyeing
      BY <1>00, <2>1, <2>2, <2>6, AtIs DEF Eyeing
    <3>2. ~stopped'[e]
      BY <2>2
    <3>3. Follows(ppool[e], last[e], stopped'[e], At'[e], Has'[e])
      BY <2>7, <2>8, <3>1, <3>2, FollowsWake
    <3> QED  BY <2>2, <3>3 DEF FollowsOf
  <2> QED  BY TwinIs, <2>5, <2>9
<1>15. CASE ResetPool(d)
  BY <1>00, <1>15 DEF ResetPool, TimingOut
<1>16. CASE TimeoutWake(d)
  BY <1>00, <1>16 DEF TimeoutWake, TimingOut
<1>17. CASE PollBegin(d)
  BY <1>0, TwinIs, <1>17, NothingGiven DEF PollBegin, Elsewhere, PollElsewhere, Eyeing
<1>18. CASE PollLoop(d)
  BY <1>0, TwinIs, <1>18, NothingGiven DEF PollLoop, Elsewhere, PollElsewhere, Eyeing
<1>19. CASE PollDequeue(d)
  BY <1>0, TwinIs, <1>19, NothingGiven DEF PollDequeue, Elsewhere, PollElsewhere, Eyeing
<1>20. CASE PollRelease(d)
  <2>1. PICK e \in Dev : e = Twin(d) /\ d = Twin(e)
    BY TwinIs
  <2>2. PICK c \in Buffer : c = ppkt[d]
    BY <1>0, TwinIs, <1>20 DEF PollRelease, CallInv, Giving
  <2>3. /\ ppool' = Set(ppool, e, <<c>> \o ppool[e]) /\ stopped' = stopped
        /\ last' = Set(last, e, IF ppool[e] = <<>> THEN last[e] \cup {c} ELSE last[e] \ {c})
        /\ poll[d] = "release" /\ poll'[d] = "look" /\ ppkt' = ppkt
    BY <1>0, TwinIs, <1>20, <2>1, <2>2 DEF PollRelease, GiveBack, Giver, WasEmpty
  <2>4. /\ \A i, x \in Dev : Elsewhere(i, x)
        /\ PollElsewhere(d)
    BY <1>0, TwinIs, <1>20, <2>1 DEF PollRelease, Elsewhere, PollElsewhere
  <2>5. FollowsOf(d)'
    <3>1. UNCHANGED <<ppool[d], last[d], stopped[d]>>
      BY <1>0, TwinIs, <1>20, <2>1 DEF PollRelease, GiveBack, Giver
    <3> QED  BY TwinIs, <2>4, <3>1, FollowsOfStays
  <2>6. PICK k \in 1 .. 3 : k = 3
    OBVIOUS
  <2>7. \A j \in 1 .. 3 : j # k => Unmoved(At[e], Has[e], At'[e], Has'[e], j)
    BY <2>4, <2>6, ThreadsUnmoved
  <2>8. Follows(ppool[e], last[e], stopped[e], At[e], Has[e]) /\ stopped[e] \in BOOLEAN
    BY <1>0 DEF FollowsOf
  <2>9. c \notin Elems(ppool[e])
    <3>1. InPoll(e) = {c} /\ BuffersOf(e)
      BY <2>1, <2>2, <2>3 DEF InPoll, BufferInv
    <3> QED  BY <3>1 DEF BuffersOf, Apart
  <2>10. At[e][k] \notin Eyeing /\ At'[e][k] = "look" /\ Has'[e][k] = c
    BY <2>1, <2>2, <2>3, <2>6, AtIs DEF Eyeing
  <2>11. /\ ppool'[e] = <<c>> \o ppool[e] /\ stopped'[e] = stopped[e]
         /\ last'[e] = (IF ppool[e] = <<>> THEN last[e] \cup {c} ELSE last[e] \ {c})
         /\ ppool[e] \in Seq(Buffer)
    BY <1>0, <2>3
  <2>12. FollowsOf(e)'
    <3>1. Follows(<<c>> \o ppool[e], last'[e], stopped[e], At'[e], Has'[e])
      <4>1. PICK P \in Seq(Buffer) : P = ppool[e]
        BY <2>11
      <4>2. PICK S \in BOOLEAN : S = stopped[e]
        BY <2>8
      <4>3. PICK M : M = last'[e]
        OBVIOUS
      <4>4. PICK at2, b2 : at2 = At'[e] /\ b2 = Has'[e]
        OBVIOUS
      <4>5. /\ Follows(P, last[e], S, At[e], Has[e]) /\ c \notin Elems(P)
            /\ M = (IF P = <<>> THEN last[e] \cup {c} ELSE last[e] \ {c})
            /\ At[e][k] \notin Eyeing /\ at2[k] = "look" /\ b2[k] = c
            /\ \A j \in 1 .. 3 : j # k => Unmoved(At[e], Has[e], at2, b2, j)
        BY <2>7, <2>8, <2>9, <2>10, <2>11, <4>1, <4>2, <4>3, <4>4
      <4>6. Follows(<<c>> \o P, M, S, at2, b2)
        BY <4>5, FollowsGive
      <4> QED  BY <2>11, <4>1, <4>2, <4>3, <4>4, <4>6
    <3> QED  BY <2>11, <3>1 DEF FollowsOf
  <2> QED  BY TwinIs, <2>1, <2>5, <2>12
<1>21. CASE PollLook(d)
  <2>1. PICK e \in Dev : e = Twin(d) /\ d = Twin(e)
    BY TwinIs
  <2>2. /\ UNCHANGED <<ppool, last, stopped>> /\ poll[d] = "look"
        /\ \/ stopped[e] /\ poll'[d] = "next" /\ ppkt'[d] = ppkt[d]
           \/ ~stopped[e] /\ poll'[d] = "loop"
    BY <1>0, TwinIs, <1>21, <2>1 DEF PollLook, PollLeave
  <2>4. /\ \A i, x \in Dev : Elsewhere(i, x)
        /\ PollElsewhere(d)
    BY <1>0, TwinIs, <1>21, <2>1 DEF PollLook, PollLeave, Elsewhere, PollElsewhere
  <2>5. FollowsOf(d)'
    <3>1. UNCHANGED <<ppool[d], last[d], stopped[d]>>
      BY <1>0, TwinIs, <1>21, <2>1 DEF PollLook, PollLeave, GiveBack, Giver
    <3> QED  BY TwinIs, <2>4, <3>1, FollowsOfStays
  <2>6. PICK k \in 1 .. 3 : k = 3
    OBVIOUS
  <2>7. \A j \in 1 .. 3 : j # k => Unmoved(At[e], Has[e], At'[e], Has'[e], j)
    BY <2>4, <2>6, ThreadsUnmoved
  <2>8. Follows(ppool[e], last[e], stopped[e], At[e], Has[e]) /\ stopped[e] \in BOOLEAN
    BY <1>0 DEF FollowsOf
  <2>9. FollowsOf(e)'
    <3>1. At[e][k] = "look" /\ At[e][k] \in Eyeing
      BY <2>1, <2>2, <2>6, AtIs DEF Eyeing
    <3>2. CASE stopped[e]
      <4>1. At'[e][k] = "next" /\ Has'[e][k] = Has[e][k] /\ "next" \in Eyeing
        BY <2>1, <2>2, <2>6, <3>2, AtIs DEF Eyeing
      <4>2. Follows(ppool[e], last[e], stopped[e], At'[e], Has'[e])
        BY <2>7, <2>8, <3>1, <4>1, FollowsLook
      <4> QED  BY <2>2, <4>2 DEF FollowsOf
    <3>3. CASE ~stopped[e]
      <4>1. At'[e][k] \notin Eyeing
        BY <2>1, <2>2, <2>6, <3>3, AtIs DEF Eyeing
      <4>2. Follows(ppool[e], last[e], stopped[e], At'[e], Has'[e])
        BY <2>7, <2>8, <3>1, <3>3, <4>1, FollowsLeave
      <4> QED  BY <2>2, <4>2 DEF FollowsOf
    <3> QED  BY <3>2, <3>3
  <2> QED  BY TwinIs, <2>1, <2>5, <2>9
<1>22. CASE PollNext(d)
  <2>1. PICK e \in Dev : e = Twin(d) /\ d = Twin(e)
    BY TwinIs
  <2>2. UNCHANGED <<ppool, last, stopped>> /\ poll[d] = "next"
    BY <1>0, TwinIs, <1>22 DEF PollNext, PollLeave
  <2>3. \/ ppkt[d] \in last[e] /\ poll'[d] = "wake" /\ ppkt'[d] = ppkt[d]
        \/ ppkt[d] \notin last[e] /\ poll'[d] = "loop"
    <3>1. ppkt[d] \in Elems(ppool[e])
      <4>1. At[e][3] = "next" /\ Has[e][3] = ppkt[d] /\ 3 \in 1 .. 3
        BY <2>1, <2>2, AtIs
      <4> QED  BY <4>1 DEF FollowsOf, Follows, Eyeing
    <3>2. ppkt[d] \in heap[e]
      BY <3>1 DEF BufferInv, BuffersOf, Apart
    <3> QED  BY <1>0, TwinIs, <1>22, <2>1, <3>2 DEF PollNext, PollLeave, NextIs
  <2>4. /\ \A i, x \in Dev : Elsewhere(i, x)
        /\ PollElsewhere(d)
    BY <1>0, TwinIs, <1>22, <2>1 DEF PollNext, PollLeave, Elsewhere, PollElsewhere
  <2>5. FollowsOf(d)'
    <3>1. UNCHANGED <<ppool[d], last[d], stopped[d]>>
      BY <1>0, TwinIs, <1>22, <2>1 DEF PollNext, PollLeave, GiveBack, Giver
    <3> QED  BY TwinIs, <2>4, <3>1, FollowsOfStays
  <2>6. PICK k \in 1 .. 3 : k = 3
    OBVIOUS
  <2>7. \A j \in 1 .. 3 : j # k => Unmoved(At[e], Has[e], At'[e], Has'[e], j)
    BY <2>4, <2>6, ThreadsUnmoved
  <2>8. Follows(ppool[e], last[e], stopped[e], At[e], Has[e]) /\ stopped[e] \in BOOLEAN
    BY <1>0 DEF FollowsOf
  <2>9. FollowsOf(e)'
    <3>1. At[e][k] = "next" /\ At[e][k] \in Eyeing /\ Has[e][k] = ppkt[d]
      BY <2>1, <2>2, <2>6, AtIs DEF Eyeing
    <3>2. CASE ppkt[d] \in last[e]
      <4>1. At'[e][k] = "wake" /\ Has'[e][k] = Has[e][k] /\ "wake" \in Eyeing
        BY <2>1, <2>3, <2>6, <3>2, AtIs DEF Eyeing
      <4>2. Follows(ppool[e], last[e], stopped[e], At'[e], Has'[e])
        BY <2>7, <2>8, <3>1, <3>2, <4>1, FollowsLook
      <4> QED  BY <2>2, <4>2 DEF FollowsOf
    <3>3. CASE ppkt[d] \notin last[e]
      <4>1. At'[e][k] \notin Eyeing
        BY <2>1, <2>3, <2>6, <3>3, AtIs DEF Eyeing
      <4>2. Has[e][k] \notin last[e]
        BY <3>1, <3>3
      <4>3. Follows(ppool[e], last[e], stopped[e], At'[e], Has'[e])
        BY <2>7, <2>8, <3>1, <4>1, <4>2, FollowsLeave
      <4> QED  BY <2>2, <4>3 DEF FollowsOf
    <3> QED  BY <3>2, <3>3
  <2> QED  BY TwinIs, <2>1, <2>5, <2>9
<1>23. CASE PollWake(d)
  <2>1. PICK e \in Dev : e = Twin(d) /\ d = Twin(e)
    BY TwinIs
  <2>2. /\ UNCHANGED <<ppool, last>> /\ poll[d] = "wake" /\ stopped'[e] = FALSE
        /\ poll'[d] = "loop"
    BY <1>0, TwinIs, <1>23, <2>1 DEF PollWake, PollLeave
  <2>4. /\ \A i, x \in Dev : Elsewhere(i, x)
        /\ PollElsewhere(d)
    BY <1>0, TwinIs, <1>23, <2>1 DEF PollWake, PollLeave, Elsewhere, PollElsewhere
  <2>5. FollowsOf(d)'
    <3>1. UNCHANGED <<ppool[d], last[d], stopped[d]>>
      BY <1>0, TwinIs, <1>23, <2>1 DEF PollWake, PollLeave, GiveBack, Giver
    <3> QED  BY TwinIs, <2>4, <3>1, FollowsOfStays
  <2>6. PICK k \in 1 .. 3 : k = 3
    OBVIOUS
  <2>7. \A j \in 1 .. 3 : j # k => Unmoved(At[e], Has[e], At'[e], Has'[e], j)
    BY <2>4, <2>6, ThreadsUnmoved
  <2>8. Follows(ppool[e], last[e], stopped[e], At[e], Has[e]) /\ stopped[e] \in BOOLEAN
    BY <1>0 DEF FollowsOf
  <2>9. FollowsOf(e)'
    <3>1. At[e][k] = "wake" /\ At'[e][k] \notin Eyeing
      BY <2>1, <2>2, <2>6, AtIs DEF Eyeing
    <3>2. ~stopped'[e]
      BY <2>2
    <3>3. Follows(ppool[e], last[e], stopped'[e], At'[e], Has'[e])
      BY <2>7, <2>8, <3>1, <3>2, FollowsWake
    <3> QED  BY <2>2, <3>3 DEF FollowsOf
  <2> QED  BY TwinIs, <2>1, <2>5, <2>9
<1>24. CASE PollEnd(d)
  BY <1>0, TwinIs, <1>24, NothingGiven DEF PollEnd, Elsewhere, PollElsewhere, Eyeing
<1>25. CASE TxTimeout(d) \/ Close(d)
  BY <1>25 DEF TxTimeout, Close
<1>26. CASE Open(d)
  BY <1>00, <1>26 DEF Open, TimingOut
<1> QED  BY <1>1, <1>2, <1>3, <1>4, <1>5, <1>6, <1>7, <1>9, <1>10, <1>11, <1>12, <1>13,
            <1>14, <1>15, <1>16, <1>17, <1>18, <1>19, <1>20, <1>21, <1>22, <1>23, <1>24,
            <1>25, <1>26
            DEF Transmitting, Polling, Release

LEMMA EventsGrow ==
    ASSUME Types, NEW d \in Dev,
           Tx(d) \/ Transmitting(d) \/ Polling(d) \/ TxTimeout(d) \/ Close(d) \/ Open(d)
    PROVE  events \subseteq events'
<1> USE DEF hist
<1>1. CASE Tx(d)
  BY <1>1 DEF Tx
<1>2. CASE GetBuffer(d)
  BY <1>2 DEF GetBuffer
<1>3. CASE NoBuffer(d)
  BY <1>3 DEF NoBuffer
<1>4. CASE Enqueue(d)
  BY <1>4 DEF Enqueue
<1>5. CASE RxInts(d)
  BY <1>5 DEF RxInts
<1>6. CASE FlagRx(d)
  BY <1>6 DEF FlagRx, ReadStatus, WriteStatus
<1>7. CASE FlagTx(d)
  BY <1>7 DEF FlagTx, ReadStatus, WriteStatus
<1>8. ASSUME NEW e \in Dev, NEW from, NEW to, Interrupt(d, from, e, to)
      PROVE  events \subseteq events'
  BY <1>8, InterruptIs
<1>9. CASE RxIrq(d) \/ TxIrq(d) \/ TimeoutIrq(d)
  BY TwinIs, <1>8, <1>9 DEF RxIrq, TxIrq, TimeoutIrq
<1>10. CASE Lockup(d)
  BY <1>10 DEF Lockup
<1>11. CASE ReleaseBuffer(d)
  BY <1>11 DEF ReleaseBuffer
<1>12. CASE LookStopped(d)
  BY <1>12 DEF LookStopped, Leave
<1>13. CASE LookNext(d)
  BY <1>13 DEF LookNext, Leave
<1>14. CASE WakeQueue(d)
  BY <1>14 DEF WakeQueue, Leave
<1>15. CASE ResetPool(d)
  BY <1>15 DEF ResetPool
<1>16. CASE TimeoutWake(d)
  BY <1>16 DEF TimeoutWake
<1>17. CASE PollBegin(d)
  BY <1>17 DEF PollBegin
<1>18. CASE PollLoop(d)
  BY <1>18 DEF PollLoop
<1>19. CASE PollDequeue(d)
  BY <1>19 DEF PollDequeue
<1>20. CASE PollRelease(d)
  BY <1>20 DEF PollRelease
<1>21. CASE PollLook(d)
  BY <1>21 DEF PollLook, PollLeave
<1>22. CASE PollNext(d)
  BY <1>22 DEF PollNext, PollLeave
<1>23. CASE PollWake(d)
  BY <1>23 DEF PollWake, PollLeave
<1>24. CASE PollEnd(d)
  BY <1>24 DEF PollEnd
<1>25. CASE TxTimeout(d)
  BY <1>25 DEF TxTimeout
<1>26. CASE Close(d)
  BY <1>26 DEF Close
<1>27. CASE Open(d)
  BY <1>27 DEF Open
<1> QED  BY <1>1, <1>2, <1>3, <1>4, <1>5, <1>6, <1>7, <1>9, <1>10, <1>11, <1>12, <1>13,
            <1>14, <1>15, <1>16, <1>17, <1>18, <1>19, <1>20, <1>21, <1>22, <1>23, <1>24,
            <1>25, <1>26, <1>27
            DEF Transmitting, Polling, Release

LEMMA QueueInvStep ==
    ASSUME Types, CallInv, BufferInv, QueueInv, NEW d \in Dev,
           Tx(d) \/ Transmitting(d) \/ Polling(d) \/ TxTimeout(d) \/ Close(d) \/ Open(d)
    PROVE  QueueInv'
<1> SUFFICES ASSUME events' = {} PROVE \A x \in Dev : FollowsOf(x)' /\ CalmOf(x)'
  BY DEF QueueInv
<1>1. events = {}
  BY EventsGrow
<1>2. \A x \in Dev : FollowsOf(x) /\ CalmOf(x)
  BY <1>1 DEF QueueInv
<1>3. \A x \in Dev : FollowsOf(x)'
  BY <1>2, FollowsStep
<1>4. \A x \in Dev : CalmOf(x)'
  BY <1>2, CalmStep
<1> QED  BY <1>3, <1>4

-----------------------------------------------------------------------------
(***************************************************************************)
(* The invariant holds at first, and every step keeps it.                  *)
(***************************************************************************)
LEMMA NothingYet ==
    /\ Elems(<<>>) = {} /\ Bufs(<<>>) = {} /\ Nums(<<>>) = {}
    /\ Once(<<>>) /\ OnceB(<<>>) /\ OnceN(<<>>)
<1>1. 1 .. Len(<<>>) = {}
  OBVIOUS
<1> QED  BY <1>1 DEF Elems, Bufs, Nums, Once, OnceB, OnceN

LEMMA InitInv == Init => IInv
<1> SUFFICES ASSUME Init PROVE IInv
  OBVIOUS
<1> USE TwinIs
<1>1. pool_size \in Nat
  BY SnullAssumption DEF Init
<1>2. \A d \in Dev : /\ ppool[d] \in Seq(Buffer) /\ Once(ppool[d])
                     /\ Elems(ppool[d]) \subseteq Buffer /\ Bottom(ppool[d]) \subseteq Buffer
  <2> SUFFICES ASSUME NEW d \in Dev
               PROVE  /\ ppool[d] \in Seq(Buffer) /\ Once(ppool[d])
                      /\ Elems(ppool[d]) \subseteq Buffer /\ Bottom(ppool[d]) \subseteq Buffer
    OBVIOUS
  <2>0. ppool[d] \in UNION {Stacks(Buffer, n) : n \in 0 .. pool_size}
    BY DEF Init
  <2>1. PICK n \in 0 .. pool_size : ppool[d] \in Stacks(Buffer, n)
    BY <2>0
  <2>2. n \in Nat
    BY <1>1
  <2> QED  BY <2>1, <2>2, StackIs
<1>3. Types
  <2>1. PrivTypes
    <3>1. ppool \in [Dev -> Seq(Buffer)]
      BY <1>2 DEF Init
    <3>2. heap \in [Dev -> SUBSET Buffer] /\ last \in [Dev -> SUBSET Buffer]
      BY <1>2 DEF Init
    <3>3. rx_queue \in [Dev -> Seq([n : Nat, b : Buffer])]
      <4>1. <<>> \in Seq([n : Nat, b : Buffer])
        OBVIOUS
      <4> QED  BY <4>1 DEF Init
    <3>4. /\ status \in [Dev -> SUBSET Flag] /\ skb \in [Dev -> Nat]
          /\ stopped \in [Dev -> BOOLEAN] /\ up \in [Dev -> BOOLEAN] /\ use_napi \in BOOLEAN
      BY DEF Init
    <3> QED  BY <1>1, <3>1, <3>2, <3>3, <3>4 DEF PrivTypes
  <2>2. CallTypes
    BY DEF Init, CallTypes
  <2>3. HistTypes
    <3>1. <<>> \in Seq(Nat) /\ {} \in SUBSET Nat /\ 0 \in Nat
      OBVIOUS
    <3>2. sent \in [Dev -> Nat] /\ dropped \in [Dev -> SUBSET Nat]
      BY <3>1 DEF Init
    <3>3. received \in [Dev -> Seq(Nat)] /\ freed \in [Dev -> Seq(Nat)]
      BY <3>1 DEF Init
    <3> QED  BY <3>2, <3>3 DEF HistTypes
  <2> QED  BY <2>1, <2>2, <2>3 DEF Types
<1>4. CallInv
  BY DEF Init, CallInv, Giving, Eyeing
<1>5. BufferInv
  <2> SUFFICES ASSUME NEW d \in Dev PROVE BuffersOf(d)
    BY DEF BufferInv
  <2>1. heap[d] = Elems(ppool[d]) /\ rx_queue[Twin(d)] = <<>>
    BY DEF Init
  <2>2. InHand(d, d) = {} /\ InHand(d, Twin(d)) = {} /\ InPoll(d) = {}
    BY DEF Init, InHand, InPoll
  <2> QED  BY <1>2, <2>1, <2>2, NothingYet DEF BuffersOf, Apart
<1>6. QueueInv
  <2> SUFFICES ASSUME events = {}, NEW d \in Dev PROVE FollowsOf(d) /\ CalmOf(d)
    BY DEF QueueInv
  <2>1. ppool[d] # <<>>
    BY DEF Init
  <2>2. CalmOf(d)
    BY DEF Init, CalmOf, TimingOut
  <2>3. \A k \in 1 .. 3 : At[d][k] \notin Eyeing
    <3>1. pc[d] = "idle" /\ pc[Twin(d)] = "idle" /\ poll[Twin(d)] = "idle"
      BY DEF Init
    <3>2. At[d] = <<"idle", "idle", "idle">>
      BY <3>1 DEF At
    <3> QED  BY <3>2 DEF Eyeing
  <2>4. ~stopped[d]
    BY DEF Init
  <2>5. FollowsOf(d)
    BY <2>1, <2>3, <2>4 DEF FollowsOf, Follows, Wakes
  <2> QED  BY <2>2, <2>5
<1>7. PacketInv
  <2> SUFFICES ASSUME NEW d \in Dev PROVE PacketsOf(d) /\ pc[d] \notin {"buffer", "enqueue"}
    BY DEF PacketInv
  <2>1. Upto(Twin(d)) = {}
    <3>1. sent[Twin(d)] = 0 /\ pc[Twin(d)] = "idle"
      BY DEF Init
    <3> QED  BY <3>1 DEF Upto
  <2>2. received[d] = <<>> /\ rx_queue[d] = <<>> /\ dropped[d] = {} /\ pc[d] = "idle"
    BY DEF Init
  <2> QED  BY <2>1, <2>2, NothingYet DEF PacketsOf, Parts
<1>8. SkbInv
  <2> SUFFICES ASSUME NEW d \in Dev PROVE SkbsOf(d)
    BY DEF SkbInv
  <2>1. freed[d] = <<>> /\ skb[d] = 0 /\ sent[d] = 0 /\ pc[d] = "idle" /\ cont[d] = "idle"
    BY DEF Init
  <2>2. ~InTx(d)
    BY <2>1 DEF InTx, Sending, Giving, Eyeing
  <2> QED  BY <2>1, <2>2, NothingYet DEF SkbsOf, TimingOut
<1> QED  BY <1>3, <1>4, <1>5, <1>6, <1>7, <1>8 DEF IInv

LEMMA Stutters == IInv /\ UNCHANGED vars => IInv'
<1> SUFFICES ASSUME IInv, UNCHANGED vars PROVE IInv'
  OBVIOUS
<1> USE DEF vars, paramVars, poolVars, privVars, napiVars, giveVars, txVars, pollVars, hist
<1>1. Types'
  BY DEF IInv, Types, PrivTypes, CallTypes, HistTypes
<1>2. CallInv'
  BY DEF IInv, CallInv
<1>3. BufferInv'
  <2>1. \A x \in Dev : Quiet(x) /\ QuietPoll(x)
    BY DEF Quiet, QuietPoll
  <2> QED  BY <2>1, NothingMoves DEF IInv
<1>4. QueueInv'
  BY DEF IInv, QueueInv, FollowsOf, CalmOf, At, Has
<1>5. PacketInv'
  BY DEF IInv, PacketInv, PacketsOf, Upto, Elems, Nums, Once, OnceN
<1>6. SkbInv'
  BY DEF IInv, SkbInv, SkbsOf, InTx, Elems, Once
<1> QED  BY <1>1, <1>2, <1>3, <1>4, <1>5, <1>6 DEF IInv

LEMMA Steps == IInv /\ [Next]_vars => IInv'
<1>1. ASSUME IInv, Next PROVE IInv'
  <2>1. PICK d \in Dev :
          Tx(d) \/ Transmitting(d) \/ Polling(d) \/ TxTimeout(d) \/ Close(d) \/ Open(d)
    BY <1>1 DEF Next
  <2>2. Types /\ CallInv /\ BufferInv /\ QueueInv /\ PacketInv /\ SkbInv
    BY <1>1 DEF IInv
  <2>3. Types'
    BY <2>1, <2>2, PrivTypesStep, CallTypesStep, HistTypesStep DEF Types
  <2>4. CallInv'
    BY <2>1, <2>2, CallInvStep
  <2>5. BufferInv'
    BY <2>1, <2>2, BufferInvStep
  <2>6. QueueInv'
    BY <2>1, <2>2, QueueInvStep
  <2>7. PacketInv'
    BY <2>1, <2>2, PacketInvStep
  <2>8. SkbInv'
    BY <2>1, <2>2, SkbInvStep
  <2> QED  BY <2>3, <2>4, <2>5, <2>6, <2>7, <2>8 DEF IInv
<1> QED  BY <1>1, Stutters

LEMMA Invariance == Spec => []IInv
<1> QED  BY InitInv, Steps, PTL DEF Spec

-----------------------------------------------------------------------------
(***************************************************************************)
(* A sequence without repetition has as many elements as it is long.       *)
(***************************************************************************)
LEMMA Counted ==
    ASSUME NEW n \in Nat, NEW f, Differ(f, n)
    PROVE  Cardinality(Values(f, n)) = n
<1> DEFINE g == [i \in 1 .. n |-> f[i]]
<1>1. g \in Bijection(1 .. n, Values(f, n))
  <2>1. g \in [1 .. n -> Values(f, n)]
    BY DEF Values
  <2>2. \A i, j \in 1 .. n : g[i] = g[j] => i = j
    BY DEF Differ
  <2>3. \A y \in Values(f, n) : \E i \in 1 .. n : g[i] = y
    BY DEF Values
  <2> HIDE DEF g
  <2> QED  BY <2>1, <2>2, <2>3 DEF Bijection, Injection, Surjection, IsInjective
<1>2. IsFiniteSet(1 .. n) /\ Cardinality(1 .. n) = n
  BY FS_Interval
<1>3. ExistsBijection(1 .. n, Values(f, n))
  BY <1>1 DEF ExistsBijection
<1>4. Cardinality(Values(f, n)) = Cardinality(1 .. n)
  BY <1>2, <1>3, FS_Bijection
<1> QED  BY <1>2, <1>4

LEMMA CountedElems ==
    ASSUME NEW S, NEW s \in Seq(S), Once(s)
    PROVE  Cardinality(Elems(s)) = Len(s)
<1>1. Len(s) \in Nat /\ Differ(s, Len(s))
  BY DEF Once, Differ
<1>2. Cardinality(Values(s, Len(s))) = Len(s)
  BY <1>1, Counted
<1> QED  BY <1>2 DEF Values, Elems

LEMMA CountedBufs ==
    ASSUME NEW q \in Queue, OnceB(q)
    PROVE  Cardinality(Bufs(q)) = Len(q)
<1> DEFINE f == [i \in 1 .. Len(q) |-> q[i].b]
<1>1. Len(q) \in Nat /\ Differ(f, Len(q))
  BY DEF OnceB, Differ, Queue
<1>2. Bufs(q) = Values(f, Len(q))
  BY DEF Bufs, Values
<1> HIDE DEF f
<1>3. Cardinality(Values(f, Len(q))) = Len(q)
  BY <1>1, Counted
<1> QED  BY <1>2, <1>3

LEMMA CountedNums ==
    ASSUME NEW q \in Queue, OnceN(q)
    PROVE  Cardinality(Nums(q)) = Len(q)
<1> DEFINE f == [i \in 1 .. Len(q) |-> q[i].n]
<1>1. Len(q) \in Nat /\ Differ(f, Len(q))
  BY DEF OnceN, Differ, Queue
<1>2. Nums(q) = Values(f, Len(q))
  BY DEF Nums, Values
<1> HIDE DEF f
<1>3. Cardinality(Values(f, Len(q))) = Len(q)
  BY <1>1, Counted
<1> QED  BY <1>2, <1>3

-----------------------------------------------------------------------------
(***************************************************************************)
(* What the runs check follows from the invariant.                         *)
(***************************************************************************)
LEMMA InvTypeOK == IInv => TypeOK
<1> QED  BY DEF IInv, Types, PrivTypes, CallTypes, TypeOK, Places, Sending, Giving, Eyeing,
                TimingOut, Flag

LEMMA InvBuffersKept == IInv => BuffersKept
<1> SUFFICES ASSUME IInv, NEW d \in Dev
             PROVE  /\ heap[d] = UNION {Where(d)[i] : i \in 1 .. 5}
                    /\ \A i, j \in 1 .. 5 : i # j => Where(d)[i] \cap Where(d)[j] = {}
                    /\ Cardinality(Elems(ppool[d])) = Len(ppool[d])
                    /\ Cardinality(Queued(d)) = Len(rx_queue[Twin(d)])
  BY DEF BuffersKept
<1> DEFINE P == Elems(ppool[d])  Q == Queued(d)  A == InHand(d, d)
           B == InHand(d, Twin(d))  C == InPoll(d)
<1>1. Apart(heap[d], P, Q, A, B, C) /\ Once(ppool[d]) /\ OnceB(rx_queue[Twin(d)])
  BY DEF IInv, BufferInv, BuffersOf, Bufs, Queued
<1>2. /\ Where(d)[1] = P /\ Where(d)[2] = Q /\ Where(d)[3] = A /\ Where(d)[4] = B
      /\ Where(d)[5] = C
  BY DEF Where
<1>3. Cardinality(P) = Len(ppool[d])
  BY <1>1, CountedElems DEF IInv, Types, PrivTypes
<1>4. Cardinality(Q) = Len(rx_queue[Twin(d)])
  <2>1. rx_queue[Twin(d)] \in Queue
    BY TwinIs DEF IInv, Types, PrivTypes, Queue
  <2> QED  BY <1>1, <2>1, CountedBufs DEF Queued, Bufs
<1> HIDE DEF P, Q, A, B, C
<1>5. heap[d] = UNION {Where(d)[i] : i \in 1 .. 5}
  <2>1. \A i \in 1 .. 5 : i = 1 \/ i = 2 \/ i = 3 \/ i = 4 \/ i = 5
    OBVIOUS
  <2>2. \A i \in 1 .. 5 : Where(d)[i] \subseteq heap[d]
    BY <1>1, <1>2, <2>1 DEF Apart
  <2>3. \A b \in heap[d] : \E i \in 1 .. 5 : b \in Where(d)[i]
    BY <1>1, <1>2 DEF Apart
  <2> QED  BY <2>2, <2>3
<1>6. \A i, j \in 1 .. 5 : i # j => Where(d)[i] \cap Where(d)[j] = {}
  BY <1>1, <1>2 DEF Apart
<1> QED  BY <1>3, <1>4, <1>5, <1>6 DEF P, Q

LEMMA InvStoppedWhenEmpty == IInv => StoppedWhenEmpty
<1> SUFFICES ASSUME IInv, events = {}, NEW d \in Dev
             PROVE  /\ ppool[d] = <<>> => stopped[d] /\ pc[d] # "buffer"
                    /\ ppool[d] # <<>> /\ stopped[d] => Waking(d)
  BY DEF StoppedWhenEmpty
<1>1. FollowsOf(d) /\ CalmOf(d)
  BY DEF IInv, QueueInv
<1>2. ppool[d] = <<>> => stopped[d] /\ pc[d] # "buffer"
  BY <1>1 DEF FollowsOf, Follows, CalmOf
<1>3. ASSUME ppool[d] # <<>>, stopped[d] PROVE Waking(d)
  <2>1. PICK k \in 1 .. 3 : At[d][k] \in Eyeing /\ Has[d][k] \in last[d]
    BY <1>1, <1>3 DEF FollowsOf, Follows, Wakes
  <2>2. CASE k = 3
    <3>1. poll[Twin(d)] \in Eyeing /\ ppkt[Twin(d)] \in last[d]
      BY <2>1, <2>2, AtIs
    <3> QED  BY <3>1 DEF Waking, Looking, Eyeing
  <2>3. ASSUME NEW x \in Dev, k = Ix(d, x) PROVE Waking(d)
    <3>1. of[x] = d /\ pc[x] \in Eyeing /\ pkt[x] \in last[d]
      BY <2>1, <2>3, AtIs DEF Eyeing
    <3> QED  BY <3>1 DEF Waking, Looking, Eyeing
  <2> QED  BY <2>2, <2>3, AtElsewhere
<1> QED  BY <1>2, <1>3

(***************************************************************************)
(* Every buffer that is allocated is in one place, and until an interface  *)
(* goes down, a timeout, or a buffer that is taken again too soon, a queue *)
(* is stopped just while its pool is empty: snull_get_tx_buffer and        *)
(* snull_release_buffer (snull.c:133 and 155) with whatever runs between   *)
(* them, for any memory, pool size and number of packets.                  *)
(***************************************************************************)
THEOREM PoolAndQueue == Spec => []QueueFollowsPool
<1>1. IInv => QueueFollowsPool
  BY InvTypeOK, InvBuffersKept, InvStoppedWhenEmpty DEF QueueFollowsPool
<1> QED  BY <1>1, Invariance, PTL

(***************************************************************************)
(* A packet that snull_hw_tx has put on a queue is handed up once, dropped *)
(* once, or still there, whether interrupts or polls receive it.           *)
(***************************************************************************)
THEOREM PacketsReceivedOnce == Spec => []ReceivedOnce
<1>1. ASSUME IInv PROVE ReceivedOnce
  <2> SUFFICES ASSUME NEW d \in Dev
               PROVE  LET r == received[d]
                          q == rx_queue[d]
                          InQ == {q[i].n : i \in 1 .. Len(q)}
                          InR == Elems(r)
                      IN  /\ Cardinality(InR) = Len(r) /\ Cardinality(InQ) = Len(q)
                          /\ InR \cap (InQ \cup dropped[d]) = {} /\ InQ \cap dropped[d] = {}
                          /\ InR \cup InQ \cup dropped[d] = Upto(Twin(d))
    BY DEF ReceivedOnce, Upto
  <2>1. /\ Parts(Upto(Twin(d)), Elems(received[d]), Nums(rx_queue[d]), dropped[d])
        /\ Once(received[d]) /\ OnceN(rx_queue[d])
    BY <1>1 DEF IInv, PacketInv, PacketsOf
  <2>2. received[d] \in Seq(Nat) /\ rx_queue[d] \in Queue
    BY <1>1 DEF IInv, Types, PrivTypes, HistTypes, Queue
  <2>3. /\ Cardinality(Elems(received[d])) = Len(received[d])
        /\ Cardinality(Nums(rx_queue[d])) = Len(rx_queue[d])
    BY <2>1, <2>2, CountedElems, CountedNums
  <2> QED  BY <2>1, <2>3, Zenon DEF Parts, Nums
<1> QED  BY <1>1, Invariance, PTL

(***************************************************************************)
(* The interrupt handlers (snull.c:383 and 426) free the skb of each       *)
(* transmission once, and not before snull_hw_tx has copied it, as long as *)
(* the other interface sends nothing and, without NAPI, none timed out.    *)
(***************************************************************************)
THEOREM SkbsFreedOnce == Spec => []SkbFreedOnce
<1>1. ASSUME IInv PROVE SkbFreedOnce
  <2> SUFFICES ASSUME NEW d \in Dev, sent[Twin(d)] = 0, use_napi \/ "timeout" \notin events
               PROVE  /\ Once(freed[d])
                      /\ pc[d] \in {"buffer", "enqueue"} =>
                            \A i \in 1 .. Len(freed[d]) : freed[d][i] # sent[d]
    BY DEF SkbFreedOnce, Once
  <2>1. SkbsOf(d)
    BY <1>1 DEF IInv, SkbInv
  <2>2. Once(freed[d]) /\ (InTx(d) => sent[d] \notin Elems(freed[d]))
    BY <2>1 DEF SkbsOf
  <2>3. pc[d] \in {"buffer", "enqueue"} => InTx(d)
    BY DEF InTx, Sending
  <2> QED  BY <2>2, <2>3 DEF Elems
<1> QED  BY <1>1, Invariance, PTL
=============================================================================
