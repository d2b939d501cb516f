-------------------------- MODULE ShortPrint_proofs --------------------------
(***************************************************************************)
(* The printer driver, for any number of writers, any writes, any sizes of *)
(* the output buffer and of the page, and any loss of interrupts: output   *)
(* keeps moving, no wake-up is lost, and the bytes that are printed are    *)
(* those that were written, in their order.                                *)
(***************************************************************************)
EXTENDS ShortPrint, SequenceTheorems, TLAPS

Inside == {"order", "space", "copy", "start", "sleep"}
Index  == 0 .. OutSize - 1

-----------------------------------------------------------------------------
(***************************************************************************)
(* What the properties need in addition.  A writer is inside the mutex from*)
(* its call to its end, and has nothing left to write outside.  The order  *)
(* of head and tail that it read holds on while it is "head first", and    *)
(* while it is not, the worker has at most moved on with too little free   *)
(* to wake somebody, or woken the writer.  What it is going to copy fits   *)
(* between the head and the end of the buffer, or the tail.                *)
(***************************************************************************)
OutTypes ==
    /\ out_head \in Index /\ out_tail \in Index
    /\ bytes \in [Index -> Byte]

ProcTypes ==
    /\ out_mutex \in Writer \cup {Nobody}
    /\ outq \subseteq Writer /\ emptyq \subseteq Writer
    /\ pc \in [Writer -> Inside \cup {"idle", "close", "asleep"}]
    /\ rest \in [Writer -> Seq(Byte)]
    /\ order \in [Writer -> BOOLEAN]
    /\ space \in [Writer -> Nat]

KernTypes ==
    /\ active \in BOOLEAN /\ queued \in BOOLEAN /\ pending \in BOOLEAN /\ irq \in BOOLEAN
    /\ worker \in {"idle", "wait", "write", "line", "wake"}
    /\ timer \in {"idle", "status", "irq"}
    /\ printer \in {"busy", "ack", "ready"}

MutexInv == \A w \in Writer : /\ out_mutex = w <=> pc[w] \in Inside
                              /\ pc[w] \notin Inside => rest[w] = <<>>

OrderOf(w) == pc[w] = "space" /\ order[w] => out_head >= out_tail

StaleOf(w) == pc[w] = "space" /\ ~order[w] /\ w \in outq =>
    out_head < out_tail \/ (OutSize + out_tail - out_head) % OutSize <= MinSpace

Fits(n) == IF out_head >= out_tail
           THEN out_head + n <= OutSize /\ (out_tail = 0 => out_head + n < OutSize)
           ELSE out_head + n < out_tail

CopyOf(w) == pc[w] = "copy" => space[w] <= Len(rest[w]) /\ Fits(space[w])

WriterInv == \A w \in Writer : OrderOf(w) /\ StaleOf(w) /\ CopyOf(w)

IInv == OutTypes /\ ProcTypes /\ MutexInv /\ WriterInv /\ WritersWoken

-----------------------------------------------------------------------------
(***************************************************************************)
(* The operator % by cases, for what the code applies it to.               *)
(***************************************************************************)
LEMMA ModCases ==
    ASSUME NEW n \in Nat \ {0}
    PROVE  /\ \A x \in 0 .. n - 1 : x % n = x
           /\ \A x \in n .. 2 * n - 1 : x % n = x - n
<1>1. ASSUME NEW x \in 0 .. n - 1 PROVE x % n = x
  OBVIOUS
<1>2. ASSUME NEW x \in n .. 2 * n - 1 PROVE x % n = x - n
  OBVIOUS
<1> QED  BY <1>1, <1>2

LEMMA Between ==
    ASSUME NEW a \in Index, NEW b \in Index
    PROVE  (OutSize + a - b) % OutSize = IF a >= b THEN a - b ELSE OutSize + a - b
<1>1. OutSize \in Nat \ {0} /\ a \in 0 .. OutSize - 1 /\ b \in 0 .. OutSize - 1
  BY OutAssumption DEF Index
<1>2. /\ \A x \in 0 .. OutSize - 1 : x % OutSize = x
      /\ \A x \in OutSize .. 2 * OutSize - 1 : x % OutSize = x - OutSize
  BY <1>1, ModCases
<1>3. CASE a >= b
  <2>1. OutSize + a - b \in OutSize .. 2 * OutSize - 1 /\ (OutSize + a - b) - OutSize = a - b
    BY <1>1, <1>3
  <2> QED  BY <1>2, <1>3, <2>1
<1>4. CASE ~(a >= b)
  <2>1. OutSize + a - b \in 0 .. OutSize - 1
    BY <1>1, <1>4
  <2> QED  BY <1>2, <1>4, <2>1
<1> QED  BY <1>3, <1>4

LEMMA Sizes ==
    /\ OutSize \in Nat /\ OutSize > 1 /\ MinSpace \in Nat /\ MinSpace >= 1
    /\ \A i : i \in Index <=> i \in Nat /\ i < OutSize
<1>1. OutSize \in Nat /\ OutSize > 1
  BY OutAssumption
<1>2. OutSize \div 2 \in Nat /\ OutSize \div 2 >= 1
  BY <1>1
<1> QED  BY <1>1, <1>2 DEF MinSpace, Index

LEMMA FreeIs ==
    ASSUME OutTypes
    PROVE  (OutSize + out_tail - out_head) % OutSize =
              IF out_tail >= out_head THEN out_tail - out_head
              ELSE OutSize + out_tail - out_head
  BY Between DEF OutTypes

-----------------------------------------------------------------------------
(***************************************************************************)
(* The steps, by what they may disturb.                                    *)
(***************************************************************************)
Quiet == UNCHANGED <<outVars, procVars>>

WriterStep(w) ==
    \/ \E d \in Data : WriteCall(w, d)
    \/ WriteOrder(w) \/ Enough(w) \/ Full(w) \/ Woken(w) \/ GiveUp(w) \/ Copy(w) \/ Start(w)
    \/ Release(w) \/ Closing(w) \/ Closed(w)

LEMMA NextIs ==
    ASSUME [Next]_vars
    PROVE  \/ Quiet /\ active' = active /\ got' = got
           \/ WorkEmpty
           \/ WorkByte
           \/ \E w \in Writer : WriterStep(w)
<1>1. CASE UNCHANGED vars
  BY <1>1 DEF vars, Quiet, kernVars, portVars
<1>2. CASE Work
  <2>1. WorkBegin \/ WorkReady \/ WorkLine \/ WorkEnd =>
            Quiet /\ active' = active /\ got' = got
    BY DEF WorkBegin, WorkReady, WorkLine, WorkEnd, Quiet, portVars
  <2> QED  BY <1>2, <2>1 DEF Work
<1>3. CASE Interrupt \/ TimerFires \/ TimerStatus \/ TimerIrq \/ PrinterAck \/ PrinterReady
  BY <1>3 DEF Interrupt, TimerFires, TimerStatus, TimerIrq, PrinterAck, PrinterReady, Quiet,
              kernVars, portVars
<1>4. CASE \E r \in Reader : ReaderStep(r)
  BY <1>4 DEF ReaderStep, Quiet, kernVars, portVars
<1>5. CASE \E w \in Writer :
              \/ \E d \in Data : WriteCall(w, d)
              \/ GiveUp(w) \/ Writing(w) \/ Release(w) \/ Closing(w) \/ Closed(w)
  BY <1>5 DEF Writing, WriterStep
<1> QED  BY <1>1, <1>2, <1>3, <1>4, <1>5 DEF Next

(***************************************************************************)
(* Who is inside the mutex is alone there.                                 *)
(***************************************************************************)
LEMMA OneInside ==
    ASSUME MutexInv, NEW v \in Writer, NEW w \in Writer, pc[v] \in Inside, pc[w] \in Inside
    PROVE  v = w
  BY DEF MutexInv

LEMMA Aside ==
    ASSUME MutexInv, ProcTypes, NEW v \in Writer, NEW w \in Writer, v # w, pc[v] \in Inside,
           WriterStep(w)
    PROVE  /\ UNCHANGED <<outVars, out_mutex, outq, rest, order, space>>
           /\ pc'[v] = pc[v] /\ pc[w] \notin Inside /\ pc'[w] \notin Inside
<1>1. pc[w] \notin Inside
  BY OneInside
<1>2. ~(\E d \in Data : WriteCall(w, d))
  <2>1. out_mutex = v /\ v # Nobody
    BY OutAssumption DEF MutexInv
  <2> QED  BY <2>1 DEF WriteCall, MayWrite
<1>3. ~(WriteOrder(w) \/ Enough(w) \/ Full(w) \/ Woken(w) \/ GiveUp(w) \/ Copy(w) \/ Start(w))
  BY <1>1 DEF WriteOrder, Enough, Full, Woken, GiveUp, Copy, Start, Go, Inside
<1>4. CASE Release(w)
  BY <1>1, <1>4 DEF Release, Go, ProcTypes, Inside
<1>5. CASE Closing(w)
  BY <1>1, <1>5 DEF Closing, Go, ProcTypes, Inside
<1>6. CASE Closed(w)
  BY <1>1, <1>6 DEF Closed, Go, ProcTypes, Inside
<1> QED  BY <1>2, <1>3, <1>4, <1>5, <1>6 DEF WriterStep

(***************************************************************************)
(* shortp_out_space: a positive space fits, also when the tail moved       *)
(* between its two reads; a writer that finds none, and was on the queue   *)
(* while it looked, may sleep.                                             *)
(***************************************************************************)
LEMMA SpaceIs ==
    ASSUME IInv, NEW w \in Writer, pc[w] = "space", Space(w) > 0, NEW n \in Nat, n <= Space(w)
    PROVE  Space(w) \in Nat /\ Fits(n)
<1>1. OutSize \in Nat /\ out_head \in Nat /\ out_tail \in Nat /\ out_head < OutSize
      /\ out_tail < OutSize
  BY Sizes DEF IInv, OutTypes
<1>2. CASE order[w]
  <2>1. out_head >= out_tail
    BY <1>2 DEF IInv, WriterInv, OrderOf
  <2>2. Space(w) = OutSize - out_head - (IF out_tail = 0 THEN 1 ELSE 0)
    BY <1>2 DEF Space
  <2> QED  BY <1>1, <2>1, <2>2 DEF Fits
<1>3. CASE ~order[w]
  <2>1. Space(w) = out_tail - out_head - 1
    BY <1>3 DEF Space
  <2> QED  BY <1>1, <2>1 DEF Fits
<1> QED  BY <1>2, <1>3

LEMMA NoSpaceIs ==
    ASSUME IInv, NEW w \in Writer, pc[w] = "space", Space(w) <= 0, w \in outq
    PROVE  (OutSize + out_tail - out_head) % OutSize <= MinSpace
<1> DEFINE f == (OutSize + out_tail - out_head) % OutSize
<1>1. OutSize \in Nat /\ out_head \in Nat /\ out_tail \in Nat /\ out_head < OutSize
      /\ out_tail < OutSize /\ MinSpace \in Nat /\ MinSpace >= 1
  BY Sizes DEF IInv, OutTypes
<1>2. f = IF out_tail >= out_head THEN out_tail - out_head ELSE OutSize + out_tail - out_head
  BY FreeIs DEF IInv
<1>3. ~order[w] => out_head < out_tail \/ f <= MinSpace
  BY DEF IInv, WriterInv, StaleOf
<1> HIDE DEF f
<1>4. CASE order[w]
  <2>1. out_head >= out_tail
    BY <1>4 DEF IInv, WriterInv, OrderOf
  <2>2. Space(w) = OutSize - out_head - (IF out_tail = 0 THEN 1 ELSE 0)
    BY <1>4 DEF Space
  <2>3. out_tail = 0 /\ out_head = OutSize - 1
    BY <1>1, <2>1, <2>2
  <2> QED  BY <1>1, <1>2, <2>3 DEF f
<1>5. CASE ~order[w] /\ out_head < out_tail
  <2>1. Space(w) = out_tail - out_head - 1
    BY <1>5 DEF Space
  <2>2. out_tail - out_head = 1
    BY <1>1, <1>5, <2>1
  <2> QED  BY <1>1, <1>2, <1>5, <2>2 DEF f
<1> QED  BY <1>3, <1>4, <1>5 DEF f

(***************************************************************************)
(* The copy of a writer stays inside the buffer.                           *)
(***************************************************************************)
LEMMA CopyIs ==
    ASSUME IInv, NEW w \in Writer, pc[w] = "copy"
    PROVE  /\ out_head \in Nat /\ space[w] \in Nat /\ out_head + space[w] <= OutSize
           /\ rest[w] \in Seq(Byte) /\ Len(rest[w]) \in Nat /\ space[w] <= Len(rest[w])
           /\ incr_out_bp(out_head, space[w]) =
                 IF out_head + space[w] = OutSize THEN 0 ELSE out_head + space[w]
           /\ incr_out_bp(out_head, space[w]) \in Index
<1>1. /\ OutSize \in Nat /\ out_head \in Nat /\ out_tail \in Nat /\ space[w] \in Nat
      /\ out_tail < OutSize /\ OutSize > 1
      /\ rest[w] \in Seq(Byte) /\ Len(rest[w]) \in Nat
  BY Sizes DEF IInv, OutTypes, ProcTypes
<1>2. space[w] <= Len(rest[w]) /\ Fits(space[w])
  BY DEF IInv, WriterInv, CopyOf
<1>3. out_head + space[w] <= OutSize
  BY <1>1, <1>2 DEF Fits
<1>4. incr_out_bp(out_head, space[w]) =
                 IF out_head + space[w] = OutSize THEN 0 ELSE out_head + space[w]
  BY <1>1, <1>3 DEF incr_out_bp
<1> QED  BY <1>1, <1>2, <1>3, <1>4, Sizes

LEMMA RestSuffix ==
    ASSUME NEW s \in Seq(Byte), NEW k \in 0 .. Len(s)
    PROVE  /\ SubSeq(s, k + 1, Len(s)) \in Seq(Byte)
           /\ Len(SubSeq(s, k + 1, Len(s))) = Len(s) - k
           /\ \A i \in 1 .. Len(s) - k : SubSeq(s, k + 1, Len(s))[i] = s[k + i]
<1>1. Len(s) \in Nat /\ k \in Nat /\ k <= Len(s) /\ \A i \in 1 .. Len(s) : s[i] \in Byte
  OBVIOUS
<1> QED  BY <1>1

LEMMA RestPrefix ==
    ASSUME NEW s \in Seq(Byte), NEW k \in 0 .. Len(s)
    PROVE  /\ SubSeq(s, 1, k) \in Seq(Byte) /\ Len(SubSeq(s, 1, k)) = k
           /\ \A i \in 1 .. k : SubSeq(s, 1, k)[i] = s[i]
<1>1. Len(s) \in Nat /\ k \in Nat /\ k <= Len(s) /\ \A i \in 1 .. Len(s) : s[i] \in Byte
  OBVIOUS
<1> QED  BY <1>1

-----------------------------------------------------------------------------
(***************************************************************************)
(* A step of a writer keeps the types.                                     *)
(***************************************************************************)
LEMMA CopyTypes ==
    ASSUME IInv, NEW w \in Writer, Copy(w)
    PROVE  OutTypes' /\ ProcTypes'
<1>1. pc[w] = "copy" /\ out_tail' = out_tail /\ out_head' = incr_out_bp(out_head, space[w])
  BY DEF Copy, Go
<1>2. out_head' \in Index /\ out_tail' \in Index
  BY <1>1, CopyIs DEF IInv, OutTypes
<1>3. bytes' \in [Index -> Byte]
  <2>1. bytes \in [Index -> Byte]
    BY DEF IInv, OutTypes
  <2>2. bytes' = [i \in Index |-> IF i \in out_head .. out_head + space[w] - 1
                                  THEN rest[w][i - out_head + 1] ELSE bytes[i]]
    BY <2>1 DEF Copy
  <2>3. ASSUME NEW i \in Index, i \in out_head .. out_head + space[w] - 1
        PROVE  rest[w][i - out_head + 1] \in Byte
    <3>1. i - out_head + 1 \in 1 .. Len(rest[w])
      BY <1>1, <2>3, CopyIs
    <3>2. rest[w] \in Seq(Byte)
      BY DEF IInv, ProcTypes
    <3> QED  BY <3>1, <3>2
  <2> QED  BY <2>1, <2>2, <2>3
<1>4. rest' \in [Writer -> Seq(Byte)]
  <2>1. space[w] \in 0 .. Len(rest[w]) /\ rest[w] \in Seq(Byte)
    BY <1>1, CopyIs
  <2>2. SubSeq(rest[w], space[w] + 1, Len(rest[w])) \in Seq(Byte)
    BY <2>1, RestSuffix
  <2>3. rest' = [rest EXCEPT ![w] = SubSeq(rest[w], space[w] + 1, Len(rest[w]))]
    BY DEF Copy
  <2> QED  BY <2>2, <2>3 DEF IInv, ProcTypes
<1>5. /\ pc' \in [Writer -> Inside \cup {"idle", "close", "asleep"}]
      /\ space' \in [Writer -> Nat]
  BY DEF Copy, Go, IInv, ProcTypes, Inside
<1>6. UNCHANGED <<out_mutex, outq, emptyq, order>>
  BY DEF Copy
<1> QED  BY <1>2, <1>3, <1>4, <1>5, <1>6 DEF OutTypes, ProcTypes, IInv

LEMMA WriterTypes ==
    ASSUME IInv, NEW w \in Writer, WriterStep(w)
    PROVE  OutTypes' /\ ProcTypes'
<1> USE DEF Go, ProcTypes, Inside
<1>0. OutTypes /\ ProcTypes
  BY DEF IInv
<1>1. UNCHANGED outVars => OutTypes'
  BY <1>0 DEF outVars, OutTypes
<1>2. ASSUME NEW d \in Data, WriteCall(w, d) PROVE OutTypes' /\ ProcTypes'
  <2>1. d \in Seq(Byte)
    BY DataAssumption
  <2> QED  BY <1>0, <1>1, <1>2, <2>1 DEF WriteCall
<1>3. CASE WriteOrder(w)
  <2>1. (out_head >= out_tail) \in BOOLEAN
    BY <1>0, Sizes DEF OutTypes
  <2> QED  BY <1>0, <1>1, <1>3, <2>1 DEF WriteOrder
<1>4. CASE Enough(w)
  <2>1. Space(w) \in Nat
    <3>1. Space(w) > 0 /\ pc[w] = "space"
      BY <1>4 DEF Enough
    <3>2. 0 <= Space(w) /\ 0 \in Nat
      <4>1. Space(w) \in Int
        BY <1>0, Sizes DEF OutTypes, Space
      <4> QED  BY <3>1, <4>1
    <3> QED  BY <3>1, <3>2, SpaceIs
  <2>2. (IF Space(w) < Len(rest[w]) THEN Space(w) ELSE Len(rest[w])) \in Nat
    BY <1>0, <2>1
  <2> QED  BY <1>0, <1>1, <1>4, <2>2 DEF Enough
<1>5. CASE Full(w)
  BY <1>0, <1>1, <1>5 DEF Full
<1>6. CASE Woken(w)
  BY <1>0, <1>1, <1>6 DEF Woken
<1>7. CASE GiveUp(w)
  <2>1. <<>> \in Seq(Byte)
    OBVIOUS
  <2> QED  BY <1>0, <1>1, <1>7, <2>1 DEF GiveUp
<1>8. CASE Copy(w)
  BY <1>8, CopyTypes
<1>9. CASE Start(w)
  BY <1>0, <1>1, <1>9 DEF Start
<1>10. CASE Release(w)
  BY <1>0, <1>1, <1>10 DEF Release
<1>11. CASE Closing(w)
  BY <1>0, <1>1, <1>11 DEF Closing
<1>12. CASE Closed(w)
  BY <1>0, <1>1, <1>12 DEF Closed
<1> QED  BY <1>2, <1>3, <1>4, <1>5, <1>6, <1>7, <1>8, <1>9, <1>10, <1>11, <1>12 DEF WriterStep

(***************************************************************************)
(* The mutex stays with the writer that is inside it.                      *)
(***************************************************************************)
LEMMA MutexSame ==
    ASSUME MutexInv, ProcTypes, NEW w \in Writer, out_mutex' = out_mutex,
           \A v \in Writer : v # w => pc'[v] = pc[v] /\ rest'[v] = rest[v],
           pc'[w] \in Inside <=> pc[w] \in Inside,
           pc'[w] \notin Inside => rest'[w] = rest[w]
    PROVE  MutexInv'
  BY DEF MutexInv

LEMMA MutexLeft ==
    ASSUME MutexInv, ProcTypes, NEW w \in Writer, out_mutex' = Nobody,
           \A v \in Writer : v # w => pc'[v] = pc[v] /\ rest'[v] = rest[v],
           pc[w] \in Inside, pc'[w] \notin Inside, rest'[w] = <<>>
    PROVE  MutexInv'
<1>1. out_mutex = w
  BY DEF MutexInv
<1>2. ASSUME NEW v \in Writer
      PROVE  /\ out_mutex' = v <=> pc'[v] \in Inside
             /\ pc'[v] \notin Inside => rest'[v] = <<>>
  <2>1. CASE v = w
    BY <2>1, OutAssumption
  <2>2. CASE v # w
    BY <1>1, <2>2, OutAssumption DEF MutexInv
  <2> QED  BY <2>1, <2>2
<1> QED  BY <1>2 DEF MutexInv

LEMMA WriterMutex ==
    ASSUME IInv, NEW w \in Writer, WriterStep(w)
    PROVE  MutexInv'
<1>0. MutexInv /\ ProcTypes
  BY DEF IInv
<1>1. ASSUME NEW d \in Data, WriteCall(w, d) PROVE MutexInv'
  <2>1. \A v \in Writer : pc[v] \notin Inside
    BY <1>0, <1>1, OutAssumption DEF MutexInv, WriteCall, MayWrite
  <2>2. out_mutex' = w /\ pc' = [pc EXCEPT ![w] = "order"] /\ rest' = [rest EXCEPT ![w] = d]
    BY <1>1 DEF WriteCall, Go
  <2>3. pc'[w] \in Inside /\ \A v \in Writer : v # w => pc'[v] = pc[v] /\ rest'[v] = rest[v]
    BY <1>0, <2>2 DEF ProcTypes, Inside
  <2> QED  BY <1>0, <2>1, <2>2, <2>3 DEF MutexInv
<1>2. CASE WriteOrder(w) \/ Enough(w) \/ Full(w) \/ Woken(w)
  <2>1. /\ out_mutex' = out_mutex /\ rest' = rest /\ pc[w] \in Inside
        /\ pc' = [pc EXCEPT ![w] = pc'[w]] /\ pc'[w] \in Inside
    BY <1>0, <1>2 DEF WriteOrder, Enough, Full, Woken, Go, ProcTypes, Inside
  <2>2. \A v \in Writer : v # w => pc'[v] = pc[v] /\ rest'[v] = rest[v]
    BY <1>0, <2>1 DEF ProcTypes
  <2> QED  BY <1>0, <2>1, <2>2, MutexSame
<1>3. CASE GiveUp(w)
  <2>1. /\ out_mutex' = Nobody /\ rest' = [rest EXCEPT ![w] = <<>>] /\ pc[w] \in Inside
        /\ pc' = [pc EXCEPT ![w] = "idle"]
    BY <1>3 DEF GiveUp, Go, Inside
  <2>2. /\ \A v \in Writer : v # w => pc'[v] = pc[v] /\ rest'[v] = rest[v]
        /\ pc'[w] \notin Inside /\ rest'[w] = <<>>
    BY <1>0, <2>1 DEF ProcTypes, Inside
  <2> QED  BY <1>0, <2>1, <2>2, MutexLeft
<1>4. CASE Copy(w)
  <2>1. /\ out_mutex' = out_mutex /\ pc[w] \in Inside /\ pc' = [pc EXCEPT ![w] = "start"]
        /\ rest' = [rest EXCEPT ![w] = rest'[w]]
    BY <1>0, <1>4 DEF Copy, Go, ProcTypes, Inside
  <2>2. /\ \A v \in Writer : v # w => pc'[v] = pc[v] /\ rest'[v] = rest[v]
        /\ pc'[w] \in Inside
    BY <1>0, <2>1 DEF ProcTypes, Inside
  <2> QED  BY <1>0, <2>1, <2>2, MutexSame
<1>5. CASE Start(w) /\ rest[w] = <<>>
  <2>1. /\ out_mutex' = Nobody /\ rest' = rest /\ pc[w] \in Inside
        /\ pc' = [pc EXCEPT ![w] = "idle"]
    BY <1>5 DEF Start, Go, Inside
  <2>2. /\ \A v \in Writer : v # w => pc'[v] = pc[v] /\ rest'[v] = rest[v]
        /\ pc'[w] \notin Inside /\ rest'[w] = <<>>
    BY <1>0, <1>5, <2>1 DEF ProcTypes, Inside
  <2> QED  BY <1>0, <2>1, <2>2, MutexLeft
<1>6. CASE Start(w) /\ rest[w] # <<>>
  <2>1. /\ out_mutex' = out_mutex /\ rest' = rest /\ pc[w] \in Inside
        /\ pc' = [pc EXCEPT ![w] = "order"]
    BY <1>6 DEF Start, Go, Inside
  <2>2. /\ \A v \in Writer : v # w => pc'[v] = pc[v] /\ rest'[v] = rest[v]
        /\ pc'[w] \in Inside
    BY <1>0, <2>1 DEF ProcTypes, Inside
  <2> QED  BY <1>0, <2>1, <2>2, MutexSame
<1>7. CASE Release(w) \/ Closing(w) \/ Closed(w)
  <2>1. /\ out_mutex' = out_mutex /\ rest' = rest /\ pc[w] \notin Inside
        /\ pc' = [pc EXCEPT ![w] = pc'[w]] /\ pc'[w] \notin Inside
    BY <1>0, <1>7 DEF Release, Closing, Closed, Go, ProcTypes, Inside
  <2>2. \A v \in Writer : v # w => pc'[v] = pc[v] /\ rest'[v] = rest[v]
    BY <1>0, <2>1 DEF ProcTypes
  <2> QED  BY <1>0, <2>1, <2>2, MutexSame
<1> QED  BY <1>1, <1>2, <1>3, <1>4, <1>5, <1>6, <1>7 DEF WriterStep

-----------------------------------------------------------------------------
(***************************************************************************)
(* What the writer inside the mutex knows of head and tail stays true as   *)
(* it goes on itself.                                                      *)
(***************************************************************************)
Known(w) == OrderOf(w) /\ StaleOf(w) /\ CopyOf(w)

LEMMA KnownElsewhere ==
    ASSUME NEW w \in Writer, pc'[w] \notin {"space", "copy"}
    PROVE  Known(w)'
  BY DEF Known, OrderOf, StaleOf, CopyOf

LEMMA WriterKnows ==
    ASSUME IInv, NEW w \in Writer, WriterStep(w)
    PROVE  Known(w)'
<1>0. OutTypes /\ ProcTypes
  BY DEF IInv
<1>1. CASE WriteOrder(w)
  <2>1. /\ pc'[w] = "space" /\ order'[w] = (out_head >= out_tail)
        /\ out_head' = out_head /\ out_tail' = out_tail
    BY <1>0, <1>1 DEF WriteOrder, Go, ProcTypes, outVars
  <2>2. OrderOf(w)' /\ CopyOf(w)'
    BY <2>1 DEF OrderOf, CopyOf
  <2>3. ~order'[w] => out_head' < out_tail'
    <3>1. ~(out_head >= out_tail) => out_head < out_tail
      BY <1>0, Sizes DEF OutTypes
    <3> QED  BY <2>1, <3>1, Zenon
  <2>4. StaleOf(w)'
    BY <2>3 DEF StaleOf
  <2> QED  BY <2>2, <2>4 DEF Known
<1>2. CASE Enough(w)
  <2>1. /\ pc[w] = "space" /\ pc'[w] = "copy" /\ Space(w) > 0
        /\ space'[w] = IF Space(w) < Len(rest[w]) THEN Space(w) ELSE Len(rest[w])
        /\ rest' = rest /\ out_head' = out_head /\ out_tail' = out_tail
    BY <1>0, <1>2 DEF Enough, Go, ProcTypes, outVars
  <2>2. Space(w) \in Int /\ Len(rest[w]) \in Nat
    BY <1>0, Sizes DEF OutTypes, ProcTypes, Space
  <2>3. space'[w] \in Nat /\ space'[w] <= Space(w) /\ space'[w] <= Len(rest[w])
    BY <2>1, <2>2
  <2>4. Fits(space'[w])
    BY <2>1, <2>3, SpaceIs
  <2>5. CopyOf(w)'
    BY <2>1, <2>3, <2>4 DEF CopyOf, Fits
  <2>6. OrderOf(w)' /\ StaleOf(w)'
    BY <2>1 DEF OrderOf, StaleOf
  <2> QED  BY <2>5, <2>6 DEF Known
<1>3. CASE ~(WriteOrder(w) \/ Enough(w))
  <2>1. pc'[w] \notin {"space", "copy"}
    BY <1>0, <1>3 DEF WriterStep, WriteCall, Full, Woken, GiveUp, Copy, Start, Release, Closing,
                      Closed, Go, ProcTypes
  <2> QED  BY <2>1, KnownElsewhere
<1> QED  BY <1>1, <1>2, <1>3

LEMMA WriterPlace ==
    ASSUME ProcTypes, NEW w \in Writer, WriterStep(w)
    PROVE  pc' = [pc EXCEPT ![w] = pc'[w]] /\ \A v \in Writer : v # w => pc'[v] = pc[v]
  BY DEF WriterStep, WriteCall, WriteOrder, Enough, Full, Woken, GiveUp, Copy, Start, Release,
         Closing, Closed, Go, ProcTypes

LEMMA WriterKeeps ==
    ASSUME IInv, NEW w \in Writer, WriterStep(w)
    PROVE  WriterInv'
<1>1. ASSUME NEW v \in Writer, v # w PROVE Known(v)'
  <2>1. pc'[v] = pc[v]
    BY <1>1, WriterPlace DEF IInv
  <2>2. CASE pc[v] \in Inside
    <3>1. UNCHANGED <<out_head, out_tail, outq, rest, order, space>>
      BY <1>1, <2>2, Aside DEF IInv, outVars
    <3>2. Known(v)
      BY DEF IInv, WriterInv, Known
    <3> QED  BY <2>1, <3>1, <3>2 DEF Known, OrderOf, StaleOf, CopyOf, Fits
  <2>3. CASE pc[v] \notin Inside
    BY <2>1, <2>3, KnownElsewhere DEF Inside
  <2> QED  BY <2>2, <2>3
<1>2. \A v \in Writer : Known(v)'
  BY <1>1, WriterKnows
<1> QED  BY <1>2 DEF WriterInv, Known

(***************************************************************************)
(* A writer goes to sleep only if less than half the buffer, or, as the    *)
(* worker counts, nothing is free; nobody makes it more behind its back.   *)
(***************************************************************************)
LEMMA WriterSleeps ==
    ASSUME IInv, NEW w \in Writer, WriterStep(w)
    PROVE  WritersWoken'
<1> SUFFICES ASSUME NEW v \in outq', pc'[v] = "sleep"
             PROVE  (OutSize + out_tail' - out_head') % OutSize <= MinSpace
  BY DEF WritersWoken
<1>0. ProcTypes /\ ProcTypes'
  BY WriterTypes DEF IInv
<1>1. v \in Writer
  BY <1>0 DEF ProcTypes
<1>2. CASE v # w
  <2>1. pc[v] = "sleep"
    BY <1>0, <1>1, <1>2, WriterPlace
  <2>2. UNCHANGED <<out_head, out_tail, outq>>
    BY <1>0, <1>1, <1>2, <2>1, Aside DEF IInv, outVars, Inside
  <2> QED  BY <2>1, <2>2 DEF IInv, WritersWoken
<1>3. CASE v = w
  <2>1. Full(w)
    BY <1>0, <1>3 DEF WriterStep, WriteCall, WriteOrder, Enough, Woken, GiveUp, Copy, Start,
                      Release, Closing, Closed, Go, ProcTypes
  <2>2. w \in outq /\ pc[w] = "space" /\ Space(w) <= 0
    BY <1>0, <1>3, <2>1 DEF Full, Go, ProcTypes
  <2>3. out_head' = out_head /\ out_tail' = out_tail
    BY <2>1 DEF Full, outVars
  <2> QED  BY <2>2, <2>3, NoSpaceIs
<1> QED  BY <1>2, <1>3

-----------------------------------------------------------------------------
(***************************************************************************)
(* The worker takes a byte: what a writer knows stays true.                *)
(***************************************************************************)
LEMMA TailIs ==
    ASSUME IInv, WorkByte
    PROVE  /\ out_tail' = IF out_tail = OutSize - 1 THEN 0 ELSE out_tail + 1
           /\ out_tail' \in Index /\ out_head' = out_head /\ out_head # out_tail
           /\ OutSize \in Nat /\ out_head \in Nat /\ out_tail \in Nat
           /\ out_head < OutSize /\ out_tail < OutSize
<1>1. OutSize \in Nat /\ OutSize > 1 /\ out_head \in Nat /\ out_tail \in Nat
      /\ out_head < OutSize /\ out_tail < OutSize
  BY Sizes DEF IInv, OutTypes
<1>2. out_tail' = incr_out_bp(out_tail, 1) /\ out_head' = out_head /\ out_head # out_tail
  BY DEF WorkByte
<1>3. out_tail' = IF out_tail = OutSize - 1 THEN 0 ELSE out_tail + 1
  BY <1>1, <1>2 DEF incr_out_bp
<1> QED  BY <1>1, <1>2, <1>3, Sizes

LEMMA FitsStill ==
    ASSUME IInv, WorkByte, NEW n \in Nat, Fits(n)
    PROVE  Fits(n)'
  BY TailIs DEF Fits

LEMMA ByteKeeps ==
    ASSUME IInv, WorkByte
    PROVE  OutTypes' /\ ProcTypes' /\ MutexInv' /\ WriterInv' /\ WritersWoken'
<1>0. OutTypes /\ ProcTypes /\ MutexInv /\ WriterInv /\ WritersWoken
  BY DEF IInv
<1>1. OutTypes'
  BY <1>0, TailIs DEF OutTypes, WorkByte
<1>2. UNCHANGED <<bytes, out_mutex, emptyq, pc, rest, order, space>> /\ outq' \subseteq outq
  BY DEF WorkByte
<1>3. ProcTypes' /\ MutexInv'
  BY <1>0, <1>2 DEF ProcTypes, MutexInv
<1> DEFINE f == (OutSize + out_tail' - out_head') % OutSize
<1>4. outq' # {} => f <= MinSpace
  <2>1. outq' # {} => ~(f > MinSpace)
    BY TailIs DEF WorkByte, WakeWriters, Free
  <2>2. f \in Nat /\ MinSpace \in Nat
    BY TailIs, Sizes
  <2> HIDE DEF f
  <2> QED  BY <2>1, <2>2
<1>5. WritersWoken'
  BY <1>4 DEF WritersWoken
<1>6. ASSUME NEW v \in Writer PROVE Known(v)'
  <2>1. Known(v)
    BY <1>0 DEF WriterInv, Known
  <2>2. OrderOf(v)'
    <3>1. out_head >= out_tail => out_head' >= out_tail'
      BY TailIs
    <3> QED  BY <1>2, <2>1, <3>1 DEF Known, OrderOf
  <2>3. StaleOf(v)'
    BY <1>4 DEF StaleOf
  <2>4. CopyOf(v)'
    <3>1. PICK n \in Nat : n = space[v]
      BY <1>0 DEF ProcTypes
    <3>2. pc'[v] = pc[v] /\ space'[v] = n /\ rest'[v] = rest[v]
      BY <1>2, <3>1
    <3>3. CASE pc[v] = "copy"
      <4>1. n <= Len(rest[v]) /\ Fits(n)
        BY <2>1, <3>1, <3>3 DEF Known, CopyOf
      <4>2. Fits(n)'
        BY <4>1, FitsStill
      <4> QED  BY <3>2, <4>1, <4>2 DEF CopyOf, Fits
    <3>4. CASE pc[v] # "copy"
      BY <3>2, <3>4 DEF CopyOf
    <3> QED  BY <3>3, <3>4
  <2> QED  BY <2>2, <2>3, <2>4 DEF Known
<1>7. WriterInv'
  BY <1>6 DEF WriterInv, Known
<1> QED  BY <1>1, <1>3, <1>5, <1>7

LEMMA OutSame ==
    ASSUME IInv, UNCHANGED <<outVars, out_mutex, outq, pc, rest, order, space>>, emptyq' \subseteq Writer
    PROVE  IInv'
<1>1. UNCHANGED <<out_head, out_tail, bytes, out_mutex, outq, pc, rest, order, space>>
  BY DEF outVars
<1>2. OutTypes' /\ ProcTypes' /\ MutexInv'
  BY <1>1 DEF IInv, OutTypes, ProcTypes, MutexInv
<1>3. WriterInv' /\ WritersWoken'
  BY <1>1 DEF IInv, WriterInv, OrderOf, StaleOf, CopyOf, Fits, WritersWoken
<1> QED  BY <1>2, <1>3 DEF IInv

LEMMA OutInit == Init => IInv
<1> SUFFICES ASSUME Init PROVE IInv
  OBVIOUS
<1>1. OutTypes
  <2>1. NoByte \in Byte
    BY DEF Byte
  <2>2. 0 \in Index
    BY Sizes
  <2>3. out_head = 0 /\ out_tail = 0 /\ bytes = [i \in Index |-> NoByte]
    BY DEF Init, Index
  <2> QED  BY <2>1, <2>2, <2>3 DEF OutTypes
<1>2. ProcTypes
  <2>1. <<>> \in Seq(Byte)
    OBVIOUS
  <2> QED  BY <2>1 DEF Init, ProcTypes
<1>3. MutexInv
  BY OutAssumption DEF Init, MutexInv, Inside
<1>4. WriterInv /\ WritersWoken
  BY DEF Init, WriterInv, OrderOf, StaleOf, CopyOf, WritersWoken
<1> QED  BY <1>1, <1>2, <1>3, <1>4 DEF IInv

LEMMA OutNext == IInv /\ [Next]_vars => IInv'
<1> SUFFICES ASSUME IInv, [Next]_vars PROVE IInv'
  OBVIOUS
<1>1. CASE Quiet
  <2>1. UNCHANGED <<outVars, out_mutex, outq, pc, rest, order, space>> /\ emptyq' = emptyq
    BY <1>1 DEF Quiet, procVars
  <2> QED  BY <2>1, OutSame DEF IInv, ProcTypes
<1>2. CASE WorkEmpty
  <2>1. UNCHANGED <<outVars, out_mutex, outq, pc, rest, order, space>> /\ emptyq' = {}
    BY <1>2 DEF WorkEmpty
  <2> QED  BY <2>1, OutSame
<1>3. CASE WorkByte
  BY <1>3, ByteKeeps DEF IInv
<1>4. ASSUME NEW w \in Writer, WriterStep(w) PROVE IInv'
  BY <1>4, WriterTypes, WriterMutex, WriterKeeps, WriterSleeps DEF IInv
<1> QED  BY <1>1, <1>2, <1>3, <1>4, NextIs

LEMMA OutInvariant == Spec => []IInv
  BY OutInit, OutNext, PTL DEF Spec

-----------------------------------------------------------------------------
(***************************************************************************)
(* The worker, the timer, the interrupt and the printer; of the writers,   *)
(* only shortp_start_output has to do with them.                           *)
(***************************************************************************)
LEMMA WriterFrame ==
    ASSUME NEW w \in Writer, WriterStep(w)
    PROVE  /\ UNCHANGED <<ringVars, portVars, worker, timer>>
           /\ \/ UNCHANGED kernVars
              \/ Start(w) /\ ~active /\ active' /\ pending' /\ queued'
  BY DEF WriterStep, WriteCall, WriteOrder, Enough, Full, Woken, GiveUp, Copy, Start, MustStart,
         Release, Closing, Closed, kernVars

KernInv == KernTypes /\ TimerWhenActive

LEMMA KernSame == KernInv /\ UNCHANGED <<kernVars, printer, irq>> => KernInv'
  BY DEF KernInv, KernTypes, TimerWhenActive, kernVars

LEMMA WorkMoves == KernInv /\ Work => KernInv'
<1> SUFFICES ASSUME KernInv, Work PROVE KernInv'
  OBVIOUS
<1> USE DEF KernInv, KernTypes, TimerWhenActive, portVars
<1>1. CASE WorkBegin
  BY <1>1 DEF WorkBegin
<1>2. CASE WorkReady
  BY <1>2 DEF WorkReady
<1>3. CASE WorkEmpty
  BY <1>3 DEF WorkEmpty
<1>4. CASE WorkByte
  BY <1>4 DEF WorkByte, Rearmed
<1>5. CASE WorkLine
  BY <1>5 DEF WorkLine
<1>6. CASE WorkEnd
  BY <1>6 DEF WorkEnd
<1> QED  BY <1>1, <1>2, <1>3, <1>4, <1>5, <1>6 DEF Work

LEMMA TimerMoves ==
    KernInv /\ (Interrupt \/ TimerFires \/ TimerStatus \/ TimerIrq \/ PrinterAck \/ PrinterReady)
        => KernInv'
<1> SUFFICES ASSUME KernInv,
                    Interrupt \/ TimerFires \/ TimerStatus \/ TimerIrq \/ PrinterAck \/ PrinterReady
             PROVE  KernInv'
  OBVIOUS
<1> USE DEF KernInv, KernTypes, TimerWhenActive, portVars, kernVars
<1>1. CASE Interrupt
  BY <1>1 DEF Interrupt
<1>2. CASE TimerFires
  BY <1>2 DEF TimerFires
<1>3. CASE TimerStatus
  BY <1>3 DEF TimerStatus
<1>4. CASE TimerIrq
  BY <1>4 DEF TimerIrq
<1>5. CASE PrinterAck
  <2>1. irq' \in BOOLEAN
    BY <1>5 DEF PrinterAck
  <2> QED  BY <1>5, <2>1 DEF PrinterAck
<1>6. CASE PrinterReady
  BY <1>6 DEF PrinterReady
<1> QED  BY <1>1, <1>2, <1>3, <1>4, <1>5, <1>6

LEMMA KernInit == Init => KernInv
  BY DEF Init, KernInv, KernTypes, TimerWhenActive

LEMMA KernNext == KernInv /\ [Next]_vars => KernInv'
<1> SUFFICES ASSUME KernInv, [Next]_vars PROVE KernInv'
  OBVIOUS
<1>1. CASE UNCHANGED vars
  BY <1>1, KernSame DEF vars, portVars
<1>2. ASSUME NEW r \in Reader, ReaderStep(r) PROVE KernInv'
  BY <1>2, KernSame DEF ReaderStep, portVars
<1>3. ASSUME NEW w \in Writer, WriterStep(w) PROVE KernInv'
  <2>1. CASE UNCHANGED kernVars
    BY <1>3, <2>1, WriterFrame, KernSame DEF portVars
  <2>2. CASE active' /\ pending' /\ queued'
    BY <1>3, <2>2, WriterFrame DEF KernInv, KernTypes, TimerWhenActive, portVars
  <2> QED  BY <1>3, <2>1, <2>2, WriterFrame
<1> QED  BY <1>1, <1>2, <1>3, WorkMoves, TimerMoves DEF Next, Writing, WriterStep

-----------------------------------------------------------------------------
(***************************************************************************)
(* Output that waits is active, or a writer is going to start it.          *)
(***************************************************************************)
LEMMA DataNext == IInv /\ KernInv /\ DataKeepsActive /\ [Next]_vars => DataKeepsActive'
<1> SUFFICES ASSUME IInv, KernInv, DataKeepsActive, [Next]_vars PROVE DataKeepsActive'
  OBVIOUS
<1>0. ProcTypes
  BY DEF IInv
<1>1. CASE Quiet /\ active' = active
  BY <1>1 DEF Quiet, outVars, procVars, DataKeepsActive
<1>2. CASE WorkEmpty
  BY <1>2 DEF WorkEmpty, outVars, DataKeepsActive
<1>3. CASE WorkByte
  BY <1>3 DEF WorkByte, DataKeepsActive
<1>4. ASSUME NEW w \in Writer, WriterStep(w) PROVE DataKeepsActive'
  <2>1. CASE Start(w)
    <3>1. active'
      BY <2>1 DEF Start, MustStart
    <3> QED  BY <3>1 DEF DataKeepsActive
  <2>2. CASE Copy(w)
    <3>1. pc'[w] = "start"
      BY <1>0, <2>2 DEF Copy, Go, ProcTypes
    <3> QED  BY <3>1 DEF DataKeepsActive
  <2>3. CASE ~Start(w) /\ ~Copy(w)
    <3>1. UNCHANGED <<outVars, active>>
      BY <1>4, <2>3 DEF WriterStep, WriteCall, WriteOrder, Enough, Full, Woken, GiveUp, Release,
                        Closing, Closed, kernVars
    <3>2. pc[w] # "start"
      BY <1>4, <2>3 DEF WriterStep, WriteCall, WriteOrder, Enough, Full, Woken, GiveUp, Release,
                        Closing, Closed, Go
    <3>3. \A v \in Writer : pc[v] = "start" => pc'[v] = "start"
      BY <1>0, <1>4, <3>2, WriterPlace
    <3> QED  BY <3>1, <3>3 DEF DataKeepsActive, outVars
  <2> QED  BY <2>1, <2>2, <2>3
<1> QED  BY <1>1, <1>2, <1>3, <1>4, NextIs

(***************************************************************************)
(* A close sleeps only while output is active.                             *)
(***************************************************************************)
LEMMA ClosersNext == IInv /\ ClosersWoken /\ [Next]_vars => ClosersWoken'
<1> SUFFICES ASSUME IInv, ClosersWoken, [Next]_vars PROVE ClosersWoken'
  OBVIOUS
<1>0. ProcTypes
  BY DEF IInv
<1>1. CASE Quiet /\ active' = active
  BY <1>1 DEF Quiet, procVars, ClosersWoken
<1>2. CASE WorkEmpty
  BY <1>2 DEF WorkEmpty, ClosersWoken
<1>3. CASE WorkByte
  BY <1>3 DEF WorkByte, ClosersWoken
<1>4. ASSUME NEW w \in Writer, WriterStep(w) PROVE ClosersWoken'
  <2>1. CASE Start(w)
    <3>1. active'
      BY <2>1 DEF Start, MustStart
    <3> QED  BY <3>1 DEF ClosersWoken
  <2>2. CASE ~Start(w)
    <3>1. active' = active
      BY <1>4, <2>2, WriterFrame DEF kernVars
    <3>2. \A v \in Writer : v # w => pc'[v] = pc[v]
      BY <1>0, <1>4, WriterPlace
    <3>3. pc'[w] = "asleep" => active
      BY <1>0, <1>4, <2>2 DEF WriterStep, WriteCall, WriteOrder, Enough, Full, Woken, GiveUp,
                             Copy, Release, Closing, Closed, Go, ProcTypes
    <3>4. emptyq' \subseteq emptyq \cup {w}
      BY <1>4, <2>2 DEF WriterStep, WriteCall, WriteOrder, Enough, Full, Woken, GiveUp, Copy,
                        Release, Closing, Closed
    <3>5. emptyq \subseteq Writer
      BY <1>0 DEF ProcTypes
    <3> QED  BY <3>1, <3>2, <3>3, <3>4, <3>5 DEF ClosersWoken
  <2> QED  BY <2>1, <2>2
<1> QED  BY <1>1, <1>2, <1>3, <1>4, NextIs

-----------------------------------------------------------------------------
(***************************************************************************)
(* The page of time stamps.                                                *)
(***************************************************************************)
LEMMA PageIs == PageSize \in Nat /\ PageSize > 0 /\ LineLen \in Nat /\ Count \subseteq Nat
  BY PageAssumption

LEMMA IncrIs ==
    ASSUME NEW i \in 0 .. PageSize - 1, NEW n \in Nat
    PROVE  incr_bp(i, n) \in 0 .. PageSize - 1
  BY PageIs DEF incr_bp

LEMMA ReadableIs ==
    ASSUME RingOK
    PROVE  Readable \in 0 .. PageSize /\ tail + Readable <= PageSize /\ tail \in Nat
  BY PageIs DEF RingOK, Readable

LEMMA ReadCountIs ==
    ASSUME RingOK, NEW r \in Reader, ReadCount(r)
    PROVE  /\ rcount'[r] \in 0 .. PageSize /\ tail + rcount'[r] <= PageSize
           /\ rcount' = [rcount EXCEPT ![r] = rcount'[r]]
<1>1. PICK n \in Count :
          rcount' = [rcount EXCEPT ![r] = IF Readable < n THEN Readable ELSE n]
  BY DEF ReadCount
<1>2. rcount'[r] = IF Readable < n THEN Readable ELSE n
  BY <1>1 DEF RingOK
<1>3. Readable \in Nat /\ Readable <= PageSize /\ tail + Readable <= PageSize /\ tail \in Nat
      /\ PageSize \in Nat /\ n \in Nat
  BY PageIs, ReadableIs
<1>4. rcount'[r] \in 0 .. PageSize /\ tail + rcount'[r] <= PageSize
  BY <1>2, <1>3
<1> QED  BY <1>1, <1>2, <1>4

LEMMA ReaderTypes ==
    ASSUME RingOK, NEW r \in Reader, ReaderStep(r)
    PROVE  RingOK'
<1> USE DEF RingOK, RGo
<1>1. CASE ReadCall(r)
  BY <1>1 DEF ReadCall
<1>2. CASE ReadSignal(r)
  BY <1>2 DEF ReadSignal
<1>3. CASE ReadQueue(r)
  BY <1>3 DEF ReadQueue
<1>4. CASE ReadLook(r)
  BY <1>4 DEF ReadLook
<1>5. CASE ReadWoken(r)
  BY <1>5 DEF ReadWoken
<1>6. CASE ReadCount(r)
  <2>1. rcount' \in [Reader -> 0 .. PageSize]
    BY <1>6, ReadCountIs
  <2> QED  BY <1>6, <2>1 DEF ReadCount
<1>7. CASE ReadCopy(r)
  BY <1>7 DEF ReadCopy
<1>8. CASE ReadIncr(r)
  <2>1. rcount[r] \in Nat
    BY PageIs
  <2>2. tail' \in 0 .. PageSize - 1
    BY <1>8, <2>1, IncrIs DEF ReadIncr
  <2> QED  BY <1>8, <2>2 DEF ReadIncr
<1> QED  BY <1>1, <1>2, <1>3, <1>4, <1>5, <1>6, <1>7, <1>8 DEF ReaderStep, Read

RingStep ==
    \/ UNCHANGED ringVars /\ (worker = "wake" => worker' = "wake")
    \/ AppendLine /\ worker' = "wake"
    \/ WakeReaders
    \/ \E r \in Reader : ReaderStep(r) /\ worker' = worker

LEMMA RingSteps ==
    ASSUME [Next]_vars
    PROVE  RingStep
<1>1. CASE UNCHANGED vars
  BY <1>1 DEF vars, kernVars, RingStep
<1>2. CASE Work
  BY <1>2 DEF Work, WorkBegin, WorkReady, WorkEmpty, WorkByte, WorkLine, WorkEnd, RingStep
<1>3. CASE Interrupt \/ TimerFires \/ TimerStatus \/ TimerIrq \/ PrinterAck \/ PrinterReady
  BY <1>3 DEF Interrupt, TimerFires, TimerStatus, TimerIrq, PrinterAck, PrinterReady, kernVars,
              RingStep
<1>4. CASE \E r \in Reader : ReaderStep(r)
  BY <1>4 DEF ReaderStep, kernVars, RingStep
<1>5. ASSUME NEW w \in Writer, WriterStep(w) PROVE RingStep
  BY <1>5, WriterFrame DEF RingStep
<1> QED  BY <1>1, <1>2, <1>3, <1>4, <1>5 DEF Next, Writing, WriterStep

LEMMA RingInitial == Init => RingOK
  BY PageIs DEF Init, RingInit, RingOK

LEMMA RingNext == RingOK /\ [Next]_vars => RingOK'
<1> SUFFICES ASSUME RingOK, [Next]_vars PROVE RingOK'
  OBVIOUS
<1>1. CASE UNCHANGED ringVars
  BY <1>1 DEF ringVars, RingOK
<1>2. CASE AppendLine
  <2>1. head' \in 0 .. PageSize - 1
    BY <1>2, IncrIs, PageIs DEF AppendLine, RingOK
  <2> QED  BY <1>2, <2>1 DEF AppendLine, RingOK
<1>3. CASE WakeReaders
  BY <1>3 DEF WakeReaders, RingOK
<1> QED  BY <1>1, <1>2, <1>3, ReaderTypes, RingSteps DEF RingStep

(***************************************************************************)
(* What one reader counted stays readable, and one reader does not move the*)
(* tail behind its own back while it sleeps.                               *)
(***************************************************************************)
OneReader == \A a, b \in Reader : a = b

LEMMA ReaderServed ==
    ASSUME OneReader, RingOK, ReadersServed, NEW r \in Reader, ReaderStep(r), worker' = worker
    PROVE  ReadersServed'
<1>1. \A a \in Reader : a = r
  BY DEF OneReader
<1>2. RingOK /\ RingOK'
  BY ReaderTypes
<1>3. rpc'[r] = "sleep" => head' = tail'
  BY <1>2 DEF ReaderStep, Read, ReadCall, ReadSignal, ReadQueue, ReadLook, ReadWoken, ReadCount,
         ReadCopy, ReadIncr, RGo, RingOK, Empty
<1>4. SleepsOnNothing(worker = "wake")'
  BY <1>1, <1>2, <1>3 DEF SleepsOnNothing, RingOK
<1>5. rpc'[r] = "copy" => ReadCount(r)
  BY <1>2 DEF ReaderStep, Read, ReadCall, ReadSignal, ReadQueue, ReadLook, ReadWoken, ReadCount,
         ReadCopy, ReadIncr, RGo, RingOK
<1>6. rpc'[r] = "copy" => tail' + rcount'[r] <= PageSize
  BY <1>2, <1>5, ReadCountIs DEF ReadCount
<1>7. CopyInPage'
  BY <1>1, <1>6 DEF CopyInPage
<1> QED  BY <1>4, <1>7 DEF ReadersServed

LEMMA ReadersNext ==
    ASSUME OneReader
    PROVE  RingOK /\ ReadersServed /\ [Next]_vars => ReadersServed'
<1> SUFFICES ASSUME RingOK, ReadersServed, [Next]_vars PROVE ReadersServed'
  OBVIOUS
<1> USE DEF ReadersServed, SleepsOnNothing, CopyInPage
<1>1. CASE UNCHANGED ringVars /\ (worker = "wake" => worker' = "wake")
  BY <1>1 DEF ringVars
<1>2. CASE AppendLine /\ worker' = "wake"
  BY <1>2 DEF AppendLine
<1>3. CASE WakeReaders
  BY <1>3 DEF WakeReaders
<1> QED  BY <1>1, <1>2, <1>3, ReaderServed, RingSteps DEF RingStep

-----------------------------------------------------------------------------
(***************************************************************************)
(* The bytes that wait, and where in the buffer they are.                  *)
(***************************************************************************)
Held     == (OutSize + out_head - out_tail) % OutSize
Place(i) == (out_tail + i - 1) % OutSize

LEMMA HeldIs ==
    ASSUME OutTypes
    PROVE  /\ Held = IF out_head >= out_tail THEN out_head - out_tail
                     ELSE OutSize + out_head - out_tail
           /\ Held \in Nat /\ Held < OutSize
<1>1. /\ OutSize \in Nat /\ out_head \in Nat /\ out_tail \in Nat
      /\ out_head < OutSize /\ out_tail < OutSize
  BY Sizes DEF OutTypes
<1>2. Held = IF out_head >= out_tail THEN out_head - out_tail
             ELSE OutSize + out_head - out_tail
  BY Between DEF OutTypes, Held
<1> QED  BY <1>1, <1>2

LEMMA PlaceIs ==
    ASSUME OutTypes, NEW i \in 1 .. OutSize
    PROVE  /\ Place(i) = IF out_tail + i - 1 < OutSize THEN out_tail + i - 1
                         ELSE out_tail + i - 1 - OutSize
           /\ Place(i) \in Index
<1>1. OutSize \in Nat \ {0} /\ out_tail \in Nat /\ out_tail < OutSize /\ i \in Nat /\ i >= 1
      /\ i <= OutSize
  BY Sizes DEF OutTypes
<1>2. /\ \A y \in 0 .. OutSize - 1 : y % OutSize = y
      /\ \A y \in OutSize .. 2 * OutSize - 1 : y % OutSize = y - OutSize
  BY <1>1, ModCases
<1>3. PICK x \in Nat : x = out_tail + i - 1
  BY <1>1
<1>4. Place(i) = x % OutSize
  BY <1>3 DEF Place
<1>5. x < 2 * OutSize
  BY <1>1, <1>3
<1>6. /\ Place(i) = IF x < OutSize THEN x ELSE x - OutSize
      /\ Place(i) \in Index
  <2>1. CASE x < OutSize
    <3>1. x \in 0 .. OutSize - 1
      BY <1>1, <2>1
    <3> QED  BY <1>2, <1>4, <2>1, <3>1 DEF Index
  <2>2. CASE ~(x < OutSize)
    <3>1. x \in OutSize .. 2 * OutSize - 1 /\ x - OutSize \in 0 .. OutSize - 1
      BY <1>1, <1>5, <2>2
    <3> QED  BY <1>2, <1>4, <2>2, <3>1 DEF Index
  <2> QED  BY <2>1, <2>2
<1>7. /\ (out_tail + i - 1 < OutSize) = (x < OutSize)
      /\ out_tail + i - 1 - OutSize = x - OutSize
  BY <1>1, <1>3
<1>8. Place(i) = IF out_tail + i - 1 < OutSize THEN out_tail + i - 1
                 ELSE out_tail + i - 1 - OutSize
  BY <1>1, <1>3, <1>6, <1>7
<1> QED  BY <1>6, <1>8

LEMMA WaitingIs ==
    ASSUME OutTypes
    PROVE  /\ Waiting \in Seq(Byte) /\ Len(Waiting) = Held
           /\ \A i \in 1 .. Held : Waiting[i] = bytes[Place(i)]
<1>1. Waiting = [i \in 1 .. Held |-> bytes[Place(i)]]
  BY DEF Waiting, Held, Place
<1>2. Held \in Nat /\ Held < OutSize /\ OutSize \in Nat
  BY HeldIs, Sizes
<1>3. ASSUME NEW i \in 1 .. Held PROVE bytes[Place(i)] \in Byte
  <2>1. i \in 1 .. OutSize
    BY <1>2
  <2>2. Place(i) \in Index
    BY <2>1, PlaceIs
  <2> QED  BY <2>2 DEF OutTypes
<1> QED  BY <1>1, <1>2, <1>3

LEMMA WaitingNext ==
    (OutTypes => /\ Held = IF out_head >= out_tail THEN out_head - out_tail
                           ELSE OutSize + out_head - out_tail
                 /\ Held \in Nat /\ Held < OutSize
                 /\ Waiting \in Seq(Byte) /\ Len(Waiting) = Held
                 /\ \A i \in 1 .. Held : Waiting[i] = bytes[Place(i)]
                 /\ \A i \in 1 .. OutSize :
                      Place(i) = IF out_tail + i - 1 < OutSize THEN out_tail + i - 1
                                 ELSE out_tail + i - 1 - OutSize)'
<1>1. OutTypes => /\ Held = IF out_head >= out_tail THEN out_head - out_tail
                            ELSE OutSize + out_head - out_tail
                  /\ Held \in Nat /\ Held < OutSize
                  /\ Waiting \in Seq(Byte) /\ Len(Waiting) = Held
                  /\ \A i \in 1 .. Held : Waiting[i] = bytes[Place(i)]
                  /\ \A i \in 1 .. OutSize :
                       Place(i) = IF out_tail + i - 1 < OutSize THEN out_tail + i - 1
                                  ELSE out_tail + i - 1 - OutSize
  BY HeldIs, WaitingIs, PlaceIs
<1> QED  BY <1>1, PTL

LEMMA WaitingSame == UNCHANGED outVars => Waiting' = Waiting
  BY DEF outVars, Waiting

(***************************************************************************)
(* The worker prints the byte that waits longest.                          *)
(***************************************************************************)
LEMMA BytePrinted ==
    ASSUME IInv, IInv', WorkByte
    PROVE  Waiting # <<>> /\ got' = <<Head(Waiting)>> /\ Waiting' = Tail(Waiting)
<1> DEFINE q == Waiting
           r == Waiting'
<1>1. /\ out_tail' = IF out_tail = OutSize - 1 THEN 0 ELSE out_tail + 1
      /\ out_head' = out_head /\ out_head # out_tail
      /\ OutSize \in Nat /\ out_head \in Nat /\ out_tail \in Nat
      /\ out_head < OutSize /\ out_tail < OutSize
  BY TailIs
<1>2. OutTypes /\ OutTypes'
  BY DEF IInv
<1>3. /\ Held = IF out_head >= out_tail THEN out_head - out_tail
                ELSE OutSize + out_head - out_tail
      /\ Held \in Nat /\ Held < OutSize
  BY <1>2, HeldIs
<1>4. q \in Seq(Byte) /\ Len(q) = Held /\ \A i \in 1 .. Held : q[i] = bytes[Place(i)]
  BY <1>2, WaitingIs
<1>5. /\ Held' = IF out_head' >= out_tail' THEN out_head' - out_tail'
                 ELSE OutSize + out_head' - out_tail'
      /\ r \in Seq(Byte) /\ Len(r) = Held'
      /\ \A i \in 1 .. Held' : r[i] = bytes'[Place(i)']
      /\ \A i \in 1 .. OutSize : Place(i)' = IF out_tail' + i - 1 < OutSize THEN out_tail' + i - 1
                                             ELSE out_tail' + i - 1 - OutSize
  BY <1>2, WaitingNext
<1>6. Held' = Held - 1 /\ Held >= 1
  BY <1>1, <1>3, <1>5
<1>7. \A i \in 1 .. Held : Place(i) = IF out_tail + i - 1 < OutSize THEN out_tail + i - 1
                                      ELSE out_tail + i - 1 - OutSize
  <2>1. \A i \in 1 .. Held : i \in 1 .. OutSize
    BY <1>1, <1>3
  <2> QED  BY <1>2, <2>1, PlaceIs
<1>8. ASSUME NEW i \in 1 .. Held - 1 PROVE r[i] = q[i + 1]
  <2>1. i \in 1 .. Held' /\ i + 1 \in 1 .. Held /\ i \in 1 .. OutSize
    BY <1>1, <1>3, <1>6
  <2>2. Place(i)' = Place(i + 1)
    BY <1>1, <1>5, <1>7, <2>1
  <2>3. bytes' = bytes
    BY DEF WorkByte
  <2> QED  BY <1>4, <1>5, <2>1, <2>2, <2>3
<1>9. Place(1) = out_tail /\ q[1] = bytes[out_tail]
  <2>1. 1 \in 1 .. Held
    BY <1>3, <1>6
  <2>2. Place(1) = out_tail
    BY <1>1, <1>7, <2>1
  <2> QED  BY <1>4, <2>1, <2>2
<1> HIDE DEF q, r
<1>10. q # <<>> /\ Head(q) = q[1]
  BY <1>3, <1>4, <1>6
<1>11. Tail(q) \in Seq(Byte) /\ Len(Tail(q)) = Held - 1
       /\ \A i \in 1 .. Held - 1 : Tail(q)[i] = q[i + 1]
  BY <1>3, <1>4, <1>6, <1>10
<1>12. r = Tail(q)
  <2>1. Len(r) = Len(Tail(q)) /\ \A i \in 1 .. Len(r) : r[i] = Tail(q)[i]
    BY <1>5, <1>6, <1>8, <1>11
  <2> QED  BY <1>5, <1>11, <2>1, SeqEqual
<1>13. got' = <<bytes[out_tail]>>
  BY DEF WorkByte
<1> QED  BY <1>9, <1>10, <1>12, <1>13 DEF q, r

(***************************************************************************)
(* A copy adds the front of what the writer has left to the end.           *)
(***************************************************************************)
LEMMA CopyPlaces ==
    ASSUME IInv, NEW w \in Writer, pc[w] = "copy", NEW k, k = space[w]
    PROVE  /\ Held + k < OutSize
           /\ \A i \in 1 .. Held : Place(i) \notin out_head .. out_head + k - 1
           /\ \A i \in 1 .. k : Place(Held + i) = out_head + i - 1
<1>1. /\ out_head \in Nat /\ k \in Nat /\ out_head + k <= OutSize
      /\ OutSize \in Nat /\ out_tail \in Nat /\ out_tail < OutSize /\ out_head < OutSize
  BY CopyIs, Sizes DEF IInv, OutTypes
<1>2. /\ Held = IF out_head >= out_tail THEN out_head - out_tail
                ELSE OutSize + out_head - out_tail
      /\ Held \in Nat /\ Held < OutSize
  BY HeldIs DEF IInv
<1>3. Fits(k)
  BY DEF IInv, WriterInv, CopyOf
<1>4. Held + k < OutSize
  BY <1>1, <1>2, <1>3 DEF Fits
<1>5. \A i \in 1 .. Held + k : Place(i) = IF out_tail + i - 1 < OutSize THEN out_tail + i - 1
                                          ELSE out_tail + i - 1 - OutSize
  <2>1. \A i \in 1 .. Held + k : i \in 1 .. OutSize
    BY <1>1, <1>2, <1>4
  <2> QED  BY <2>1, PlaceIs DEF IInv
<1>6. ASSUME NEW i \in 1 .. Held PROVE Place(i) \notin out_head .. out_head + k - 1
  <2>1. Place(i) = IF out_tail + i - 1 < OutSize THEN out_tail + i - 1
                   ELSE out_tail + i - 1 - OutSize
    BY <1>1, <1>2, <1>5
  <2>2. CASE out_head >= out_tail
    BY <1>1, <1>2, <2>1, <2>2
  <2>3. CASE ~(out_head >= out_tail)
    <3>1. out_head + k < out_tail
      BY <1>3, <2>3 DEF Fits
    <3> QED  BY <1>1, <1>2, <2>1, <2>3, <3>1
  <2> QED  BY <2>2, <2>3
<1>7. ASSUME NEW i \in 1 .. k PROVE Place(Held + i) = out_head + i - 1
  <2>1. Held + i \in 1 .. Held + k
    BY <1>1, <1>2
  <2>2. Place(Held + i) = IF out_tail + (Held + i) - 1 < OutSize THEN out_tail + (Held + i) - 1
                          ELSE out_tail + (Held + i) - 1 - OutSize
    BY <1>5, <2>1
  <2> QED  BY <1>1, <1>2, <2>2
<1> QED  BY <1>4, <1>6, <1>7

LEMMA CopyPut ==
    ASSUME IInv, IInv', NEW w \in Writer, Copy(w)
    PROVE  Device!Put(w) \/ UNCHANGED <<rest, Waiting, got>>
<1> DEFINE k == space[w]
           d == rest[w]
           q == Waiting
           r == Waiting'
           h == Held
<1>1. pc[w] = "copy" /\ out_tail' = out_tail /\ got' = got
  BY DEF Copy, Go, portVars
<1>2. OutTypes /\ OutTypes'
  BY DEF IInv
<1>3. /\ out_head \in Nat /\ k \in Nat /\ out_head + k <= OutSize
      /\ d \in Seq(Byte) /\ Len(d) \in Nat /\ k <= Len(d)
      /\ incr_out_bp(out_head, k) = IF out_head + k = OutSize THEN 0 ELSE out_head + k
  BY <1>1, CopyIs
<1>4. /\ h + k < OutSize
      /\ \A i \in 1 .. h : Place(i) \notin out_head .. out_head + k - 1
      /\ \A i \in 1 .. k : Place(h + i) = out_head + i - 1
  BY <1>1, CopyPlaces
<1>5. /\ h = IF out_head >= out_tail THEN out_head - out_tail
             ELSE OutSize + out_head - out_tail
      /\ h \in Nat /\ h < OutSize
  BY <1>2, HeldIs
<1>6. q \in Seq(Byte) /\ Len(q) = h /\ \A i \in 1 .. h : q[i] = bytes[Place(i)]
  BY <1>2, WaitingIs
<1>7. /\ Held' = IF out_head' >= out_tail' THEN out_head' - out_tail'
                 ELSE OutSize + out_head' - out_tail'
      /\ r \in Seq(Byte) /\ Len(r) = Held'
      /\ \A i \in 1 .. Held' : r[i] = bytes'[Place(i)']
  BY <1>2, WaitingNext
<1>8. out_head' = IF out_head + k = OutSize THEN 0 ELSE out_head + k
  BY <1>3 DEF Copy
<1>9. OutSize \in Nat /\ OutSize > 1 /\ out_tail \in Nat /\ out_tail < OutSize /\ out_head < OutSize
  BY <1>2, Sizes DEF OutTypes
<1>10. Fits(k)
  BY <1>1 DEF IInv, WriterInv, CopyOf
<1> HIDE DEF h, k, d, q, r
<1>11. Held' = h + k
  BY <1>1, <1>3, <1>5, <1>7, <1>8, <1>9, <1>10 DEF Fits
<1>12. \A i \in 1 .. h + k : Place(i)' = Place(i) /\ Place(i) \in Index
  <2>1. \A i \in 1 .. h + k : i \in 1 .. OutSize
    BY <1>3, <1>4, <1>5, <1>9
  <2> QED  BY <1>1, <1>2, <2>1, PlaceIs DEF Place
<1>13. \A j \in Index : bytes'[j] = IF j \in out_head .. out_head + k - 1
                                    THEN d[j - out_head + 1] ELSE bytes[j]
  <2>1. bytes' = [i \in DOMAIN bytes |-> IF i \in out_head .. out_head + k - 1
                                         THEN d[i - out_head + 1] ELSE bytes[i]]
    BY DEF Copy, k, d
  <2> QED  BY <1>2, <2>1 DEF OutTypes
<1>14. ASSUME NEW i \in 1 .. h PROVE r[i] = q[i]
  <2>1. i \in 1 .. h + k /\ i \in 1 .. Held'
    BY <1>3, <1>5, <1>11
  <2>2. r[i] = bytes'[Place(i)] /\ Place(i) \in Index
    BY <1>7, <1>12, <2>1
  <2>3. bytes'[Place(i)] = bytes[Place(i)]
    BY <1>4, <1>13, <2>2
  <2> QED  BY <1>6, <2>2, <2>3
<1>15. ASSUME NEW i \in 1 .. k PROVE r[h + i] = d[i]
  <2>1. h + i \in 1 .. h + k /\ h + i \in 1 .. Held'
    BY <1>3, <1>5, <1>11
  <2>2. r[h + i] = bytes'[Place(h + i)] /\ Place(h + i) \in Index
    BY <1>7, <1>12, <2>1
  <2>3. Place(h + i) = out_head + i - 1
    BY <1>4
  <2>4. /\ out_head + i - 1 \in out_head .. out_head + k - 1
        /\ (out_head + i - 1) - out_head + 1 = i
    BY <1>3
  <2> QED  BY <1>13, <2>2, <2>3, <2>4
<1>16. rest' = [rest EXCEPT ![w] = SubSeq(d, k + 1, Len(d))]
  BY DEF Copy, d, k
<1>17. CASE k = 0
  <2>1. r = q
    <3>1. Len(r) = Len(q) /\ \A i \in 1 .. Len(r) : r[i] = q[i]
      BY <1>5, <1>6, <1>7, <1>11, <1>14, <1>17
    <3> QED  BY <1>6, <1>7, <3>1, SeqEqual
  <2>2. SubSeq(d, k + 1, Len(d)) = d
    <3> DEFINE e == SubSeq(d, k + 1, Len(d))
    <3>1. k \in 0 .. Len(d)
      BY <1>3
    <3>2. e \in Seq(Byte) /\ Len(e) = Len(d) - k /\ \A i \in 1 .. Len(d) - k : e[i] = d[k + i]
      BY <1>3, <3>1, RestSuffix
    <3> HIDE DEF e
    <3>3. Len(e) = Len(d) /\ \A i \in 1 .. Len(e) : e[i] = d[i]
      BY <1>3, <1>17, <3>2
    <3>4. e = d
      BY <1>3, <3>2, <3>3, SeqEqual
    <3> QED  BY <3>4 DEF e
  <2>3. rest' = rest
    <3>1. rest \in [Writer -> Seq(Byte)]
      BY DEF IInv, ProcTypes
    <3>2. rest' = [rest EXCEPT ![w] = rest[w]]
      BY <1>16, <2>2 DEF d
    <3> QED  BY <3>1, <3>2
  <2> QED  BY <1>1, <2>1, <2>3 DEF q, r
<1>18. CASE k # 0
  <2> DEFINE t == SubSeq(d, 1, k)
             x == q \o t
  <2>1. k \in 1 .. Len(d) /\ k \in 0 .. Len(d) /\ Len(q) + k <= OutSize - 1
    BY <1>3, <1>4, <1>5, <1>6, <1>9, <1>18
  <2>2. t \in Seq(Byte) /\ Len(t) = k /\ \A i \in 1 .. k : t[i] = d[i]
    BY <1>3, <2>1, RestPrefix
  <2> HIDE DEF t
  <2>3. /\ x \in Seq(Byte) /\ Len(x) = h + k
        /\ \A i \in 1 .. h + k : x[i] = IF i <= h THEN q[i] ELSE t[i - h]
    <3>1. /\ q \o t \in Seq(Byte) /\ Len(q \o t) = Len(q) + Len(t)
          /\ \A i \in 1 .. Len(q) + Len(t) :
                (q \o t)[i] = IF i <= Len(q) THEN q[i] ELSE t[i - Len(q)]
      BY <1>6, <2>2
    <3> QED  BY <1>6, <2>2, <3>1
  <2>4. \A i \in 1 .. h + k : r[i] = x[i]
    <3> SUFFICES ASSUME NEW i \in 1 .. h + k PROVE r[i] = x[i]
      OBVIOUS
    <3>1. CASE i <= h
      <4>1. i \in 1 .. h
        BY <1>5, <3>1
      <4> QED  BY <1>14, <2>3, <3>1, <4>1
    <3>2. CASE ~(i <= h)
      <4>1. PICK j \in 1 .. k : i = h + j /\ i - h = j
        <5>1. i - h \in 1 .. k /\ i = h + (i - h)
          BY <1>3, <1>5, <3>2
        <5> QED  BY <5>1
      <4>2. r[i] = d[j]
        BY <1>15, <4>1
      <4>3. x[i] = t[j]
        BY <2>3, <3>2, <4>1
      <4> QED  BY <2>2, <4>1, <4>2, <4>3
    <3> QED  BY <3>1, <3>2
  <2>5. r \in Seq(Byte) /\ Len(r) = h + k
    BY <1>7, <1>11
  <2> HIDE DEF x
  <2>6. r = x
    <3>1. Len(r) = Len(x) /\ \A i \in 1 .. Len(r) : r[i] = x[i]
      BY <2>3, <2>4, <2>5
    <3> QED  BY <2>3, <2>5, <3>1, SeqEqual
  <2>7. Waiting' = Waiting \o SubSeq(rest[w], 1, k)
    BY <2>6 DEF r, x, q, t, d
  <2>8. rest' = [rest EXCEPT ![w] = SubSeq(@, k + 1, Len(@))]
    BY <1>16 DEF d
  <2>9. k \in 1 .. Len(rest[w]) /\ Len(Waiting) + k <= OutSize - 1
    BY <2>1 DEF d, q
  <2> QED  BY <1>1, <2>7, <2>8, <2>9 DEF Device!Put
<1> QED  BY <1>17, <1>18

(***************************************************************************)
(* A call begins when no other has anything left to write.                 *)
(***************************************************************************)
LEMMA CallBegins ==
    ASSUME IInv, NEW w \in Writer, NEW d \in Data, WriteCall(w, d)
    PROVE  Device!Begin(w)
<1>1. \A v \in Writer : rest[v] = <<>>
  BY OutAssumption DEF IInv, MutexInv, WriteCall, MayWrite
<1>2. rest' = [rest EXCEPT ![w] = d] /\ got' = got /\ Waiting' = Waiting
  BY WaitingSame DEF WriteCall, portVars
<1> QED  BY <1>1, <1>2 DEF Device!Begin

LEMMA QueueStep ==
    ASSUME IInv, IInv', [Next]_vars
    PROVE  [Device!Next]_(Device!vars)
<1>0. UNCHANGED <<rest, Waiting, got>> => UNCHANGED Device!vars
  BY DEF Device!vars
<1>1. CASE Quiet /\ got' = got
  BY <1>0, <1>1, WaitingSame DEF Quiet, procVars
<1>2. CASE WorkEmpty
  BY <1>0, <1>2, WaitingSame DEF WorkEmpty, portVars
<1>3. CASE WorkByte
  <2>1. rest' = rest
    BY <1>3 DEF WorkByte
  <2>2. Device!Strobe
    BY <1>3, <2>1, BytePrinted DEF Device!Strobe
  <2> QED  BY <2>2 DEF Device!Next
<1>4. ASSUME NEW w \in Writer, WriterStep(w) PROVE [Device!Next]_(Device!vars)
  <2>1. ASSUME NEW d \in Data, WriteCall(w, d) PROVE Device!Next
    BY <2>1, CallBegins DEF Device!Next
  <2>2. CASE Copy(w)
    BY <1>0, <2>2, CopyPut DEF Device!Next
  <2>3. CASE GiveUp(w)
    <3>1. rest' = [rest EXCEPT ![w] = <<>>] /\ got' = got /\ Waiting' = Waiting
      BY <2>3, WaitingSame DEF GiveUp, portVars
    <3>2. Device!CutShort(w)
      BY <3>1 DEF Device!CutShort
    <3> QED  BY <3>2 DEF Device!Next
  <2>4. CASE \/ WriteOrder(w) \/ Enough(w) \/ Full(w) \/ Woken(w) \/ Start(w)
             \/ Release(w) \/ Closing(w) \/ Closed(w)
    <3>1. UNCHANGED <<outVars, portVars, rest>>
      BY <2>4 DEF WriteOrder, Enough, Full, Woken, Start, Release, Closing, Closed
    <3> QED  BY <1>0, <3>1, WaitingSame DEF portVars
  <2> QED  BY <1>4, <2>1, <2>2, <2>3, <2>4 DEF WriterStep
<1> QED  BY <1>1, <1>2, <1>3, <1>4, NextIs

LEMMA QueueInit == Init => Device!Init
<1> SUFFICES ASSUME Init PROVE Device!Init
  OBVIOUS
<1>1. OutTypes /\ out_head = 0 /\ out_tail = 0
  BY OutInit DEF IInv, Init
<1>2. Held = 0
  BY <1>1, HeldIs
<1>3. Waiting = <<>>
  BY <1>1, <1>2, WaitingIs
<1> QED  BY <1>3 DEF Init, Device!Init

-----------------------------------------------------------------------------
(***************************************************************************)
(* shortp_do_work, shortp_write, shortp_interrupt, shortp_timeout: active  *)
(* output always has a timer, a work item or a worker that moves it, and   *)
(* bytes that wait are output that is active or about to be, whatever the  *)
(* writers do and however late interrupts come or whether they come.       *)
(***************************************************************************)
THEOREM OutputMoves == Spec => []OutputKeepsMoving
<1>1. Init => DataKeepsActive
  BY DEF Init, DataKeepsActive
<1>2. Spec => [](IInv /\ KernInv /\ RingOK /\ DataKeepsActive)
  BY <1>1, OutInit, OutNext, KernInit, KernNext, RingInitial, RingNext, DataNext, PTL DEF Spec
<1>3. IInv /\ KernInv /\ RingOK /\ DataKeepsActive => OutputKeepsMoving
  BY DEF IInv, KernInv, KernTypes, OutTypes, ProcTypes, MutexInv, Inside, Index, TypeOK,
         OutputKeepsMoving
<1> QED  BY <1>2, <1>3, PTL

(***************************************************************************)
(* shortp_write, shortp_release: no writer sleeps on when the worker has   *)
(* made room, and no close when output has ended.                          *)
(***************************************************************************)
THEOREM WritersAndClosersWoken == Spec => [](WritersWoken /\ ClosersWoken)
<1>1. Init => ClosersWoken
  BY DEF Init, ClosersWoken
<1>2. Spec => [](IInv /\ ClosersWoken)
  BY <1>1, OutInit, OutNext, ClosersNext, PTL DEF Spec
<1> QED  BY <1>2, PTL DEF IInv

(***************************************************************************)
(* Nor does a reader of the time stamps (shortp_read), which copies bytes  *)
(* of the page and no others, as long as it is the only one: it holds no   *)
(* lock, and another reader would move the tail behind its back.           *)
(***************************************************************************)
THEOREM PrinterLosesNoWakeup == ASSUME OneReader PROVE Spec => []NoLostWakeup
<1>1. Init => ReadersServed
  BY DEF Init, RingInit, ReadersServed, SleepsOnNothing, CopyInPage
<1>2. RingOK /\ ReadersServed /\ [Next]_vars => ReadersServed'
  BY ReadersNext
<1>3. Spec => [](RingOK /\ ReadersServed)
  BY <1>1, <1>2, RingInitial, RingNext, PTL DEF Spec
<1> QED  BY <1>3, WritersAndClosersWoken, PTL DEF NoLostWakeup

(***************************************************************************)
(* shortp_write, shortp_do_work: the printer gets the bytes that were      *)
(* written, each once, in their order, those of a write together, and at   *)
(* most the buffer's size less one wait, although a writer computes its    *)
(* space while the worker moves the tail.                                  *)
(***************************************************************************)
THEOREM PrinterPrintsWrites == Spec => ImplementsQueue
<1>1. IInv /\ IInv' /\ [Next]_vars => [Device!Next]_(Device!vars)
  BY QueueStep
<1>2. Spec => Device!Init /\ [][Device!Next]_(Device!vars)
  BY <1>1, QueueInit, OutInvariant, PTL DEF Spec
<1> QED  BY <1>2 DEF ImplementsQueue, Device!Spec
=============================================================================
