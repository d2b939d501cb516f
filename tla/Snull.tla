------------------------------- MODULE Snull -------------------------------
(***************************************************************************)
(* snull/snull.c: two network interfaces, each the receiver of what the    *)
(* other sends.  A packet to send is put into a buffer of the sender's     *)
(* pool and onto the receiver's queue; the receiver's interrupt handler,   *)
(* run on the spot, receives it, or leaves that to a poll (NAPI).          *)
(*                                                                         *)
(* A section under priv->lock is one step; priv->status, rx_int_enabled    *)
(* and a buffer's next are read and written outside it.  The kernel's      *)
(* transmit lock makes snull_tx and snull_tx_timeout of one interface      *)
(* exclude each other.                                                     *)
(***************************************************************************)
EXTENDS Naturals, Sequences, FiniteSets

CONSTANTS
    Dev,             \* snull_devs, two of them
    Buffer, NULL,    \* memory for packet buffers, of each interface
    PoolSizes,       \* values pool_size may have
    Budget,
    MaxSent          \* bound: packets an interface sends

ASSUME SnullAssumption ==
    /\ \E d, e \in Dev : d # e /\ Dev = {d, e}
    /\ NULL \notin Buffer
    /\ PoolSizes \subseteq Nat /\ Budget \in Nat /\ MaxSent \in Nat

Twin(d) == CHOOSE e \in Dev : e # d

VARIABLES
    pool_size, use_napi, lockup,                    \* the module's parameters
    ppool, rx_queue, rx_int_enabled, status, skb,   \* struct snull_priv
    heap, last,      \* of an interface: the buffers that are allocated, and
                     \* those whose next is NULL
    stuck,           \* priv->lock was left locked
    stopped, up,     \* the transmit queue is stopped; the interface is up
    napi, missed,    \* the state of priv->napi
    pc, seen, pkt,   \* of a transmission: where it is, the status it read, the
    of, cont,        \* buffer it has, whose that is when it gives it back, and
                     \* where it goes then
    poll, npackets, ppkt,                           \* of a poll, likewise
    sent, received, dropped, freed, events  \* history: packets sent, received and
                     \* dropped, skbs freed, and what has happened that is no
                     \* transmission by itself

paramVars == <<pool_size, use_napi, lockup>>
poolVars == <<ppool, heap, last>>
privVars == <<poolVars, rx_queue, rx_int_enabled, status, skb, stuck>>
napiVars == <<napi, missed>>
giveVars == <<pkt, of, cont>>
txVars   == <<pc, seen, giveVars>>
pollVars == <<poll, npackets, ppkt>>
hist     == <<sent, received, dropped, freed, events>>
vars     == <<paramVars, privVars, stopped, up, napiVars, txVars, pollVars, hist>>

(* n buffers from S, one on the other. *)
Stacks(S, n) == {s \in [1 .. n -> S] : \A i, j \in 1 .. n : s[i] = s[j] => i = j}

Elems(s) == {s[i] : i \in 1 .. Len(s)}

Bottom(s) == IF s = <<>> THEN {} ELSE {s[Len(s)]}

Init ==
    /\ pool_size \in PoolSizes /\ use_napi \in BOOLEAN /\ lockup \in BOOLEAN
    /\ ppool \in [Dev -> UNION {Stacks(Buffer, n) : n \in 0 .. pool_size}]
    /\ heap = [d \in Dev |-> Elems(ppool[d])]
    /\ last = [d \in Dev |-> Bottom(ppool[d])]
    /\ rx_queue = [d \in Dev |-> <<>>]
    /\ rx_int_enabled = [d \in Dev |-> TRUE]
    /\ status = [d \in Dev |-> {}]
    /\ skb = [d \in Dev |-> 0]
    /\ stuck = [d \in Dev |-> FALSE]
    /\ stopped = [d \in Dev |-> FALSE]
    /\ up = [d \in Dev |-> TRUE]
    /\ napi = [d \in Dev |-> "idle"] /\ missed = [d \in Dev |-> FALSE]
    /\ pc = [d \in Dev |-> "idle"] /\ seen = [d \in Dev |-> {}]
    /\ pkt = [d \in Dev |-> NULL] /\ of = [d \in Dev |-> d]
    /\ cont = [d \in Dev |-> "idle"]
    /\ poll = [d \in Dev |-> "idle"] /\ npackets = [d \in Dev |-> 0]
    /\ ppkt = [d \in Dev |-> NULL]
    /\ sent = [d \in Dev |-> 0] /\ received = [d \in Dev |-> <<>>]
    /\ dropped = [d \in Dev |-> {}] /\ freed = [d \in Dev |-> <<>>]
    /\ events = IF \E d \in Dev : ppool[d] = <<>> THEN {"no pool"} ELSE {}

Set(f, d, v) == [f EXCEPT ![d] = v]
Go(d, from, to) == pc[d] = from /\ pc' = Set(pc, d, to)
Poll(d, from, to) == poll[d] = from /\ poll' = Set(poll, d, to)

-----------------------------------------------------------------------------
(* snull_tx and snull_hw_tx. *)
Tx(d) ==
    /\ sent[d] < MaxSent
    /\ up[d] /\ ~stopped[d] /\ Go(d, "idle", "buffer")
    /\ sent' = Set(sent, d, sent[d] + 1)
    /\ skb' = Set(skb, d, sent'[d])
    /\ UNCHANGED <<paramVars, poolVars, rx_queue, rx_int_enabled, status, stuck, stopped, up,
                   napiVars, seen, giveVars, pollVars, received, dropped, freed, events>>

(* Somebody has given b back to d's pool and has yet to look at its next.  *)
Looking(d, b) ==
    \/ \E x \in Dev : pc[x] \in {"look", "next", "wake"} /\ of[x] = d /\ pkt[x] = b
    \/ poll[Twin(d)] \in {"look", "next", "wake"} /\ ppkt[Twin(d)] = b

(* snull_get_tx_buffer; without a buffer the packet is lost, and the lock  *)
(* is left locked.                                                         *)
LastBuffer_Late(d) == ppool[d] = <<>>             \* slip: before the packet is taken
LastBuffer(d) == Len(ppool[d]) = 1

GetBuffer(d) ==
    /\ ~stuck[d] /\ ppool[d] # <<>> /\ Go(d, "buffer", "enqueue")
    /\ pkt' = Set(pkt, d, Head(ppool[d]))
    /\ ppool' = Set(ppool, d, Tail(ppool[d]))
    /\ stopped' = Set(stopped, d, stopped[d] \/ LastBuffer(d))
    /\ events' = IF Looking(d, Head(ppool[d])) THEN events \cup {"reuse"} ELSE events
    /\ UNCHANGED <<paramVars, heap, last, rx_queue, rx_int_enabled, status, skb, stuck, up,
                   napiVars, seen, of, cont, pollVars, sent, received, dropped, freed>>

NoBuffer(d) ==
    /\ ~stuck[d] /\ ppool[d] = <<>> /\ Go(d, "buffer", "idle")
    /\ stuck' = Set(stuck, d, TRUE)
    /\ dropped' = Set(dropped, Twin(d), dropped[Twin(d)] \cup {sent[d]})
    /\ UNCHANGED <<paramVars, poolVars, rx_queue, rx_int_enabled, status, skb, stopped, up,
                   napiVars, seen, giveVars, pollVars, sent, received, freed, events>>

Enqueue(d) ==
    /\ ~stuck[Twin(d)] /\ Go(d, "enqueue", "ints")
    /\ rx_queue' = Set(rx_queue, Twin(d),
                       <<[n |-> sent[d], b |-> pkt[d]]>> \o rx_queue[Twin(d)])
    /\ last' = Set(last, d, IF rx_queue[Twin(d)] = <<>> THEN last[d] \cup {pkt[d]}
                                                       ELSE last[d] \ {pkt[d]})
    /\ pkt' = Set(pkt, d, NULL)
    /\ UNCHANGED <<paramVars, ppool, heap, rx_int_enabled, status, skb, stuck, stopped, up,
                   napiVars, seen, of, cont, pollVars, hist>>

RxInts(d) ==
    /\ Go(d, "ints", IF rx_int_enabled[Twin(d)] THEN "rxread" ELSE "txread")
    /\ UNCHANGED <<paramVars, privVars, stopped, up, napiVars, seen, giveVars, pollVars, hist>>

(* status |= flag, on the interface e: a read, and a write of what was read. *)
ReadStatus(d, from, e, to) ==
    /\ Go(d, from, to)
    /\ seen' = Set(seen, d, status[e])
    /\ UNCHANGED <<paramVars, privVars, stopped, up, napiVars, giveVars, pollVars, hist>>

WriteStatus(d, from, e, flag, to) ==
    /\ Go(d, from, to)
    /\ status' = Set(status, e, seen[d] \cup {flag})
    /\ seen' = Set(seen, d, {})
    /\ UNCHANGED <<paramVars, poolVars, rx_queue, rx_int_enabled, skb, stuck, stopped, up,
                   napiVars, giveVars, pollVars, hist>>

FlagRx(d) ==
    \/ ReadStatus(d, "rxread", Twin(d), "rxwrite")
    \/ WriteStatus(d, "rxwrite", Twin(d), "RX", "rxirq")

FlagTx(d) ==
    \/ ReadStatus(d, "txread", d, "txwrite")
    \/ WriteStatus(d, "txwrite", d, "TX", "txirq")
    \/ ReadStatus(d, "timeout", d, "t_write")
    \/ WriteStatus(d, "t_write", d, "TX", "t_irq")

(* A transmission that is over frees its skb.                              *)
Freed_Any(e) == TRUE                              \* slip: not looked whether
Freed(e) == use_napi => skb[e] # 0

FreeSkb(e) ==
    IF "TX" \in status[e] /\ Freed(e)
    THEN /\ freed' = Set(freed, e, Append(freed[e], skb[e]))
         /\ skb' = Set(skb, e, IF use_napi THEN 0 ELSE skb[e])
    ELSE UNCHANGED <<freed, skb>>

(* snull_napi_interrupt: receiving is left to the poll, if it can run. *)
NapiInterrupt(e) ==
    /\ FreeSkb(e)
    /\ IF "RX" \in status[e]
       THEN /\ rx_int_enabled' = Set(rx_int_enabled, e, FALSE)
            /\ napi'   = Set(napi, e, IF napi[e] = "idle" THEN "scheduled" ELSE napi[e])
            /\ missed' = Set(missed, e, missed[e] \/ napi[e] # "idle")
       ELSE UNCHANGED <<rx_int_enabled, napi, missed>>
    /\ UNCHANGED <<rx_queue, received, dropped>>

(* The queue without the packet taken from it. *)
Rest_Kept(e) == rx_queue[e]                       \* slip: not taken off
Rest(e) == Tail(rx_queue[e])

(* What snull_rx makes of a packet: it is handed up, or memory is short.   *)
Receive(e, n) ==
    \/ received' = Set(received, e, Append(received[e], n)) /\ UNCHANGED dropped
    \/ dropped' = Set(dropped, e, dropped[e] \cup {n}) /\ UNCHANGED received

RegularInterrupt(e) ==
    /\ FreeSkb(e)
    /\ IF "RX" \in status[e] /\ rx_queue[e] # <<>>
       THEN Receive(e, Head(rx_queue[e]).n) /\ rx_queue' = Set(rx_queue, e, Rest(e))
       ELSE UNCHANGED <<rx_queue, received, dropped>>
    /\ UNCHANGED <<rx_int_enabled, napi, missed>>

(* d's thread runs e's handler, then gives a received packet's buffer back.*)
Interrupt(d, from, e, to) ==
    /\ ~stuck[e] /\ pc[d] = from
    /\ status' = Set(status, e, {})
    /\ IF use_napi THEN NapiInterrupt(e) ELSE RegularInterrupt(e)
    /\ IF rx_queue'[e] # rx_queue[e]
       THEN /\ Go(d, from, "release")
            /\ pkt' = Set(pkt, d, Head(rx_queue[e]).b) /\ of' = Set(of, d, Twin(e))
            /\ cont' = Set(cont, d, to)
       ELSE Go(d, from, to) /\ UNCHANGED giveVars
    /\ UNCHANGED <<paramVars, poolVars, stuck, stopped, up, seen, pollVars, sent, events>>

RxIrq(d) == Interrupt(d, "rxirq", Twin(d), "txread")
TxIrq(d) == Interrupt(d, "txirq", d, "idle")

(* A transmit interrupt dropped on purpose, as lockup asks for now and then.*)
Lockup(d) ==
    /\ lockup /\ Go(d, "txirq", "idle")
    /\ stopped' = Set(stopped, d, TRUE)
    /\ events' = events \cup {"lockup"}
    /\ UNCHANGED <<paramVars, privVars, up, napiVars, seen, giveVars, pollVars, sent, received,
                   dropped, freed>>

TimeoutIrq(d) == Interrupt(d, "t_irq", d, "t_pool")

(* snull_release_buffer of a buffer b of e: the queue is woken if it is    *)
(* stopped and b's next is NULL, which is read when the lock is free again:*)
(* b may be somewhere else by then, or freed.                              *)
WasEmpty_Now(e) == Len(ppool[e]) = 1              \* slip: after the release
WasEmpty(e) == ppool[e] = <<>>

Giver_Receiver(e) == Twin(e)                      \* slip: to whom received it
Giver(e) == e

GiveBack(e, b) ==
    /\ ~stuck[e]
    /\ ppool' = Set(ppool, Giver(e), <<b>> \o ppool[Giver(e)])
    /\ last' = Set(last, e, IF WasEmpty(e) THEN last[e] \cup {b} ELSE last[e] \ {b})

NextIs(e, b, null) == b \in heap[e] => (null <=> b \in last[e])

Leave(d, from) ==
    /\ Go(d, from, cont[d])
    /\ cont' = Set(cont, d, "idle") /\ pkt' = Set(pkt, d, NULL) /\ of' = Set(of, d, d)

ReleaseBuffer(d) ==
    /\ Go(d, "release", "look") /\ GiveBack(of[d], pkt[d])
    /\ UNCHANGED <<paramVars, heap, rx_queue, rx_int_enabled, status, skb, stuck, stopped, up,
                   napiVars, seen, giveVars, pollVars, hist>>

LookStopped(d) ==
    /\ IF stopped[of[d]] THEN Go(d, "look", "next") /\ UNCHANGED giveVars ELSE Leave(d, "look")
    /\ UNCHANGED <<paramVars, privVars, stopped, up, napiVars, seen, pollVars, hist>>

LookNext(d) ==
    /\ \E null \in BOOLEAN :
        /\ NextIs(of[d], pkt[d], null)
        /\ IF null THEN Go(d, "next", "wake") /\ UNCHANGED giveVars ELSE Leave(d, "next")
    /\ UNCHANGED <<paramVars, privVars, stopped, up, napiVars, seen, pollVars, hist>>

WakeQueue(d) ==
    /\ Leave(d, "wake")
    /\ stopped' = Set(stopped, of[d], FALSE)
    /\ UNCHANGED <<paramVars, privVars, up, napiVars, seen, pollVars, hist>>

Release(d) == ReleaseBuffer(d) \/ LookStopped(d) \/ LookNext(d) \/ WakeQueue(d)

-----------------------------------------------------------------------------
(* snull_tx_timeout: the watchdog finds the queue stopped. *)
TxTimeout(d) ==
    /\ up[d] /\ stopped[d] /\ Go(d, "idle", "timeout")
    /\ events' = events \cup {"timeout"}
    /\ UNCHANGED <<paramVars, privVars, stopped, up, napiVars, seen, giveVars, pollVars, sent,
                   received, dropped, freed>>

(* Free buffers are freed and others allocated, of which some may fail. *)
ResetPool(d) ==
    /\ ~stuck[d] /\ Go(d, "t_pool", "t_wake")
    /\ \E n \in 0 .. pool_size : \E s \in Stacks(Buffer \ (heap[d] \ Elems(ppool[d])), n) :
        /\ ppool' = Set(ppool, d, s)
        /\ heap' = Set(heap, d, (heap[d] \ Elems(ppool[d])) \cup Elems(s))
        /\ last' = Set(last, d, (last[d] \ (Elems(ppool[d]) \cup Elems(s))) \cup Bottom(s))
    /\ UNCHANGED <<paramVars, rx_queue, rx_int_enabled, status, skb, stuck, stopped, up,
                   napiVars, seen, giveVars, pollVars, hist>>

TimeoutWake(d) ==
    /\ Go(d, "t_wake", "idle")
    /\ stopped' = Set(stopped, d, FALSE)
    /\ UNCHANGED <<paramVars, privVars, up, napiVars, seen, giveVars, pollVars, hist>>

-----------------------------------------------------------------------------
(* snull_poll, which the kernel calls while the napi is scheduled. *)
PollBegin(d) ==
    /\ napi[d] = "scheduled" /\ Poll(d, "idle", "loop")
    /\ napi' = Set(napi, d, "polling") /\ npackets' = Set(npackets, d, 0)
    /\ UNCHANGED <<paramVars, privVars, stopped, up, missed, txVars, ppkt, hist>>

PollLoop(d) ==
    /\ Poll(d, "loop", IF npackets[d] < Budget /\ rx_queue[d] # <<>> THEN "dequeue" ELSE "end")
    /\ UNCHANGED <<paramVars, privVars, stopped, up, napiVars, txVars, npackets, ppkt, hist>>

PollDequeue(d) ==
    /\ ~stuck[d] /\ Poll(d, "dequeue", "release")
    /\ Receive(d, Head(rx_queue[d]).n)
    /\ ppkt' = Set(ppkt, d, Head(rx_queue[d]).b)
    /\ rx_queue' = Set(rx_queue, d, Rest(d))
    /\ npackets' = Set(npackets, d, npackets[d] + 1)
    /\ UNCHANGED <<paramVars, poolVars, rx_int_enabled, status, skb, stuck, stopped, up,
                   napiVars, txVars, sent, freed, events>>

PollRelease(d) ==
    /\ Poll(d, "release", "look") /\ GiveBack(Twin(d), ppkt[d])
    /\ UNCHANGED <<paramVars, heap, rx_queue, rx_int_enabled, status, skb, stuck, stopped, up,
                   napiVars, txVars, npackets, ppkt, hist>>

PollLeave(d, from) == Poll(d, from, "loop") /\ ppkt' = Set(ppkt, d, NULL)

PollLook(d) ==
    /\ IF stopped[Twin(d)] THEN Poll(d, "look", "next") /\ UNCHANGED ppkt
                           ELSE PollLeave(d, "look")
    /\ UNCHANGED <<paramVars, privVars, stopped, up, napiVars, txVars, npackets, hist>>

PollNext(d) ==
    /\ \E null \in BOOLEAN :
        /\ NextIs(Twin(d), ppkt[d], null)
        /\ IF null THEN Poll(d, "next", "wake") /\ UNCHANGED ppkt ELSE PollLeave(d, "next")
    /\ UNCHANGED <<paramVars, privVars, stopped, up, napiVars, txVars, npackets, hist>>

PollWake(d) ==
    /\ PollLeave(d, "wake")
    /\ stopped' = Set(stopped, Twin(d), FALSE)
    /\ UNCHANGED <<paramVars, privVars, up, napiVars, txVars, npackets, hist>>

(* With budget left the poll completes and lets interrupts come again,     *)
(* unless one has come all the same; without, it is called again.          *)
PollEnd(d) ==
    /\ ~stuck[d] /\ Poll(d, "end", "idle")
    /\ missed' = Set(missed, d, missed[d] /\ npackets[d] = Budget)
    /\ IF npackets[d] < Budget /\ ~missed[d]
       THEN napi' = Set(napi, d, "idle") /\ rx_int_enabled' = Set(rx_int_enabled, d, TRUE)
       ELSE napi' = Set(napi, d, "scheduled") /\ UNCHANGED rx_int_enabled
    /\ UNCHANGED <<paramVars, poolVars, rx_queue, status, skb, stuck, stopped, up, txVars,
                   npackets, ppkt, hist>>

-----------------------------------------------------------------------------
(* ifconfig down and up.  No transmission runs when snull_release is       *)
(* called; napi_disable waits for the poll.                                *)
Close(d) ==
    /\ up[d] /\ pc[d] = "idle"
    /\ use_napi => napi[d] = "idle"
    /\ up' = Set(up, d, FALSE) /\ stopped' = Set(stopped, d, TRUE)
    /\ napi' = Set(napi, d, "off")
    /\ events' = events \cup {"down"}
    /\ UNCHANGED <<paramVars, privVars, missed, txVars, pollVars, sent, received, dropped,
                   freed>>

Open(d) ==
    /\ ~up[d]
    /\ up' = Set(up, d, TRUE) /\ stopped' = Set(stopped, d, FALSE)
    /\ napi' = Set(napi, d, "idle")
    /\ UNCHANGED <<paramVars, privVars, missed, txVars, pollVars, hist>>

-----------------------------------------------------------------------------
Transmitting(d) ==
    \/ GetBuffer(d) \/ NoBuffer(d) \/ Enqueue(d) \/ RxInts(d)
    \/ FlagRx(d) \/ RxIrq(d) \/ FlagTx(d) \/ TxIrq(d) \/ Lockup(d) \/ Release(d)
    \/ TimeoutIrq(d) \/ ResetPool(d) \/ TimeoutWake(d)

Polling(d) ==
    \/ PollBegin(d) \/ PollLoop(d) \/ PollDequeue(d) \/ PollRelease(d)
    \/ PollLook(d) \/ PollNext(d) \/ PollWake(d) \/ PollEnd(d)

Next == \E d \in Dev :
    \/ Tx(d) \/ Transmitting(d) \/ Polling(d)
    \/ TxTimeout(d) \/ Close(d) \/ Open(d)

Spec == Init /\ [][Next]_vars

(* A transmission runs on, and the kernel polls what is scheduled. *)
FairSpec == Spec /\ \A d \in Dev : WF_vars(Transmitting(d)) /\ WF_vars(Polling(d))

-----------------------------------------------------------------------------
(* Where the buffers of d are. *)
Queued(d) == {rx_queue[Twin(d)][i].b : i \in 1 .. Len(rx_queue[Twin(d)])}

InHand(d, x) ==
    IF (x = d /\ pc[x] = "enqueue") \/ (of[x] = d /\ pc[x] = "release") THEN {pkt[x]} ELSE {}

InPoll(d) == IF poll[Twin(d)] = "release" THEN {ppkt[Twin(d)]} ELSE {}

Where(d) == <<Elems(ppool[d]), Queued(d), InHand(d, d), InHand(d, Twin(d)), InPoll(d)>>

Places == {"idle", "buffer", "enqueue", "ints", "rxread", "rxwrite", "rxirq", "txread",
           "txwrite", "txirq", "release", "look", "next", "wake",
           "timeout", "t_write", "t_irq", "t_pool", "t_wake"}

TypeOK ==
    /\ pc \in [Dev -> Places]
    /\ poll \in [Dev -> {"idle", "loop", "dequeue", "release", "look", "next", "wake", "end"}]
    /\ napi \in [Dev -> {"off", "idle", "scheduled", "polling"}]
    /\ status \in [Dev -> SUBSET {"RX", "TX"}]
    /\ ppool \in [Dev -> Seq(Buffer)]

(***************************************************************************)
(* Every buffer of an interface that is allocated is in one place: its     *)
(* pool, the other's queue, or somebody's hands, whatever fails, goes down *)
(* or times out between snull_get_tx_buffer and snull_release_buffer.      *)
(***************************************************************************)
BuffersKept == \A d \in Dev :
    /\ heap[d] = UNION {Where(d)[i] : i \in 1 .. 5}
    /\ \A i, j \in 1 .. 5 : i # j => Where(d)[i] \cap Where(d)[j] = {}
    /\ Cardinality(Elems(ppool[d])) = Len(ppool[d])
    /\ Cardinality(Queued(d)) = Len(rx_queue[Twin(d)])

(***************************************************************************)
(* A packet that was sent is received once, dropped once, or on its way.   *)
(***************************************************************************)
ReceivedOnce == \A d \in Dev :
    LET r == received[d]
        q == rx_queue[d]
        InQ == {q[i].n : i \in 1 .. Len(q)}
        InR == Elems(r)
    IN  /\ Cardinality(InR) = Len(r) /\ Cardinality(InQ) = Len(q)
        /\ InR \cap (InQ \cup dropped[d]) = {} /\ InQ \cap dropped[d] = {}
        /\ InR \cup InQ \cup dropped[d] =
              1 .. sent[Twin(d)] - (IF pc[Twin(d)] \in {"buffer", "enqueue"} THEN 1 ELSE 0)

(***************************************************************************)
(* The queue of an interface is stopped exactly while its pool is empty,   *)
(* but for the moment in which a buffer comes back: so no transmission     *)
(* asks an empty pool for a buffer, nor waits while there is one.  That is *)
(* until an interface goes down, a transmission times out, or a buffer that*)
(* was given back is taken again before its giver has looked at its next.  *)
(***************************************************************************)
Waking(d) == \E b \in last[d] : Looking(d, b)

StoppedWhenEmpty == events = {} => \A d \in Dev :
    /\ ppool[d] = <<>> => stopped[d] /\ pc[d] # "buffer"
    /\ ppool[d] # <<>> /\ stopped[d] => Waking(d)

(***************************************************************************)
(* The pool and the queue that it stops and wakes (snull_get_tx_buffer,    *)
(* snull_release_buffer, snull_setup_pool).                                *)
(***************************************************************************)
QueueFollowsPool == TypeOK /\ BuffersKept /\ StoppedWhenEmpty

(***************************************************************************)
(* "a transmission is over: free the skb" (snull.c:383 and 426): as long as*)
(* the other interface has nothing to send, each skb is freed once, and not*)
(* before its data have been copied; without NAPI, until a timeout.        *)
(***************************************************************************)
SkbFreedOnce == \A d \in Dev : sent[Twin(d)] = 0 /\ (use_napi \/ "timeout" \notin events) =>
    /\ \A i, j \in 1 .. Len(freed[d]) : freed[d][i] = freed[d][j] => i = j
    /\ pc[d] \in {"buffer", "enqueue"} =>
          \A i \in 1 .. Len(freed[d]) : freed[d][i] # sent[d]

-----------------------------------------------------------------------------
(* The code's texts also state what follows, which the code does not keep: *)
(* TLC refutes each of them.                                               *)

(***************************************************************************)
(* "If we processed all packets, we're done; tell the kernel and reenable  *)
(* ints" (snull.c:332): with interrupts on, no packet lies in the queue    *)
(* without one on its way.                                                 *)
(***************************************************************************)
PollDone == \A d \in Dev :
    rx_int_enabled[d] /\ rx_queue[d] # <<>> =>
        \/ pc[Twin(d)] \in {"ints", "rxread", "rxwrite", "rxirq"}
        \/ "RX" \in status[d]

(***************************************************************************)
(* "Disable further interrupts" (snull.c:422), to reenable them when the   *)
(* poll is done: while they are off on an interface that is up, a poll is  *)
(* scheduled or running.                                                   *)
(***************************************************************************)
PollWhileOff == \A d \in Dev :
    up[d] /\ ~rx_int_enabled[d] => napi[d] \in {"scheduled", "polling"}

(***************************************************************************)
(* "Our simple device can not fail" (snull.c:557): a transmission leaves   *)
(* the device as it must find it.                                          *)
(***************************************************************************)
NeverStuck == \A d \in Dev : ~stuck[d]
=============================================================================
