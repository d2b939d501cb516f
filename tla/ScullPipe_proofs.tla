-------------------------- MODULE ScullPipe_proofs --------------------------
(***************************************************************************)
(* The pipe, for any finite number of open files, any writes, any reads    *)
(* and any buffer sizes of at least two, changed while the pipe is in use: *)
(* the buffer belongs to its readers and writers, no wake-up is lost, and  *)
(* what comes out is what went in.                                         *)
(***************************************************************************)
EXTENDS ScullPipe, FiniteSetTheorems, TLAPS

Holding  == {"rcheck", "rwrap", "wcheck", "wwrap"}
Sleeping == {"rsleep", "wsleep", "pollin", "pollout"}
Waking   == {"rwrap", "rwake", "wwrap", "wwake"}
Users(k) == {f \in File : k \in mode[f]}

(***************************************************************************)
(* What the properties need in addition.  The owner of the lock is where   *)
(* it owns it.  A pointer is at the end of the buffer only until its owner *)
(* wraps it, and the writer never gets there with the reader at the start: *)
(* one slot stays empty, so that rp = wp always means an empty pipe.  The  *)
(* counters count the open files.                                          *)
(***************************************************************************)
LockInv == \A f \in File : lock = f <=> pc[f] \in Holding

PointersInv ==
    /\ buffersize = 0 => allocated = 0
    /\ buffersize # 0 /\ rp = buffersize => \E f \in File : pc[f] = "rwrap"
    /\ buffersize # 0 /\ wp = buffersize => rp # 0 /\ \E f \in File : pc[f] = "wwrap"

UsersInv ==
    /\ \A f \in File : IF pc[f] = "closed" THEN mode[f] = {}
                                           ELSE mode[f] \in Modes /\ allocated # 0
    /\ nreaders = Cardinality(Users("r")) /\ nwriters = Cardinality(Users("w"))
    /\ allocated # 0 => nreaders + nwriters > 0

IInv == TypeOK /\ LockInv /\ PointersInv /\ UsersInv /\ NoLostWakeup

-----------------------------------------------------------------------------
(***************************************************************************)
(* The operator % by cases, for what the code applies it to.               *)
(***************************************************************************)
LEMMA ModCases ==
    ASSUME NEW m \in Nat \ {0}, NEW x \in 0 .. 2 * m
    PROVE  x % m = IF x < m THEN x ELSE IF x < 2 * m THEN x - m ELSE 0
<1>1. ASSUME NEW k \in Nat \ {0}, NEW y \in 0 .. k - 1 PROVE y % k = y
  OBVIOUS
<1>2. ASSUME NEW k \in Nat \ {0}, NEW y \in k .. 2 * k - 1 PROVE y % k = y - k
  OBVIOUS
<1>3. ASSUME NEW k \in Nat \ {0} PROVE (2 * k) % k = 0
  OBVIOUS
<1>4. CASE x < m
  <2>1. x \in 0 .. m - 1
    BY <1>4
  <2> QED  BY <1>1, <1>4, <2>1
<1>5. CASE ~(x < m) /\ x < 2 * m
  <2>1. x \in m .. 2 * m - 1
    BY <1>5
  <2> QED  BY <1>2, <1>5, <2>1
<1>6. CASE ~(x < m) /\ ~(x < 2 * m)
  <2>1. x = 2 * m
    BY <1>6
  <2> QED  BY <1>3, <1>6, <2>1
<1> QED  BY <1>4, <1>5, <1>6

(***************************************************************************)
(* spacefree, which is -1 while the reader has yet to wrap and the writer  *)
(* waits at the start.                                                     *)
(***************************************************************************)
LEMMA Ranges ==
    ASSUME TypeOK
    PROVE  /\ rp \in Nat /\ wp \in Nat /\ buffersize \in Nat
           /\ rp <= buffersize /\ wp <= buffersize
           /\ buffersize # 0 => buffersize > 1
           /\ allocated \in Nat
  BY SizesAssumption DEF TypeOK

LEMMA SpaceCases ==
    ASSUME NEW n \in Nat \ {0}, NEW r \in 0 .. n, NEW w \in 0 .. n, w = n => r # 0
    PROVE  r # w => (r + n - w) % n = IF r < w THEN r + n - w
                                      ELSE IF r - w < n THEN r - w ELSE 0
<1> SUFFICES ASSUME r # w
             PROVE  (r + n - w) % n = IF r < w THEN r + n - w
                                      ELSE IF r - w < n THEN r - w ELSE 0
  OBVIOUS
<1>1. r + n - w \in 0 .. 2 * n
  OBVIOUS
<1>2. (r + n - w) % n = IF r + n - w < n THEN r + n - w
                        ELSE IF r + n - w < 2 * n THEN r + n - w - n ELSE 0
  <2>1. \A x \in 0 .. 2 * n : x % n = IF x < n THEN x ELSE IF x < 2 * n THEN x - n ELSE 0
    BY ModCases
  <2> QED  BY <1>1, <2>1
<1>3. CASE r < w
  BY <1>2, <1>3
<1>4. CASE ~(r < w) /\ r - w < n
  BY <1>2, <1>4
<1>5. CASE ~(r < w) /\ ~(r - w < n)
  BY <1>2, <1>5
<1> QED  BY <1>3, <1>4, <1>5

LEMMA SpaceIs ==
    ASSUME TypeOK, PointersInv, buffersize # 0
    PROVE  spacefree = IF rp = wp THEN buffersize - 1
                       ELSE IF rp < wp THEN rp + buffersize - wp - 1
                       ELSE IF rp - wp < buffersize THEN rp - wp - 1 ELSE -1
<1>1. /\ buffersize \in Nat \ {0} /\ rp \in 0 .. buffersize /\ wp \in 0 .. buffersize
      /\ wp = buffersize => rp # 0
  BY Ranges DEF TypeOK, PointersInv
<1>2. rp # wp => (rp + buffersize - wp) % buffersize =
                    IF rp < wp THEN rp + buffersize - wp
                    ELSE IF rp - wp < buffersize THEN rp - wp ELSE 0
  BY <1>1, SpaceCases
<1> QED  BY <1>1, <1>2 DEF spacefree

(***************************************************************************)
(* Under the lock, before it moves its pointer, a call sees both inside.   *)
(***************************************************************************)
LEMMA OneHolds ==
    ASSUME LockInv, NEW f \in File, pc[f] \in Holding
    PROVE  lock = f /\ \A g \in File : g # f => pc[g] \notin Holding
  BY DEF LockInv

LEMMA NobodyHolds == LockInv /\ lock = Nobody => \A g \in File : pc[g] \notin Holding
  BY NobodyAssumption DEF LockInv

LEMMA InBuffer ==
    ASSUME IInv, NEW f \in File, pc[f] \in Holding
    PROVE  /\ buffersize > 1
           /\ pc[f] # "rwrap" => rp < buffersize
           /\ pc[f] # "wwrap" => wp < buffersize
<1>1. buffersize # 0
  BY DEF IInv, UsersInv, PointersInv, Holding
<1>2. pc[f] # "rwrap" => rp # buffersize
  BY <1>1, OneHolds DEF IInv, PointersInv, Holding
<1>3. pc[f] # "wwrap" => wp # buffersize
  BY <1>1, OneHolds DEF IInv, PointersInv, Holding
<1> QED  BY <1>1, <1>2, <1>3, Ranges DEF IInv

LEMMA WritableIs ==
    ASSUME IInv, NEW f \in File, pc[f] = "wcheck", NEW n \in Nat
    PROVE  /\ Writable(n) \in Nat /\ Writable(n) <= n /\ Writable(n) <= spacefree
           /\ wp + Writable(n) <= buffersize /\ spacefree \in Nat
           /\ rp = 0 => wp + Writable(n) < buffersize
<1>1. rp \in Nat /\ wp \in Nat /\ buffersize \in Nat
  BY Ranges DEF IInv
<1>2. buffersize > 1 /\ rp < buffersize /\ wp < buffersize
  BY InBuffer DEF Holding
<1>3. spacefree = IF rp = wp THEN buffersize - 1
                  ELSE IF rp < wp THEN rp + buffersize - wp - 1 ELSE rp - wp - 1
  <2>1. buffersize # 0 /\ rp - wp < buffersize
    BY <1>1, <1>2
  <2> QED  BY <2>1, SpaceIs DEF IInv
<1> DEFINE s == spacefree
<1>4. s \in Nat
  BY <1>1, <1>2, <1>3
<1>5. Writable(n) = Smaller(Smaller(n, s), IF wp >= rp THEN buffersize - wp ELSE rp - wp - 1)
  BY DEF Writable
<1>6. s = IF rp = wp THEN buffersize - 1
          ELSE IF rp < wp THEN rp + buffersize - wp - 1 ELSE rp - wp - 1
  BY <1>3
<1> HIDE DEF s
<1>7. CASE wp >= rp
  BY <1>1, <1>2, <1>4, <1>5, <1>6, <1>7 DEF Smaller, s
<1>8. CASE ~(wp >= rp)
  BY <1>1, <1>2, <1>4, <1>5, <1>6, <1>8 DEF Smaller, s
<1> QED  BY <1>7, <1>8

LEMMA ReadableIs ==
    ASSUME IInv, NEW f \in File, pc[f] = "rcheck", NEW n \in Nat, rp # wp
    PROVE  /\ Readable(n) \in Nat /\ Readable(n) <= n /\ rp + Readable(n) <= buffersize
           /\ n # 0 => Readable(n) # 0
           /\ wp > rp => rp + Readable(n) <= wp
<1>1. rp \in Nat /\ wp \in Nat /\ buffersize \in Nat
  BY Ranges DEF IInv
<1>2. buffersize > 1 /\ rp < buffersize /\ wp < buffersize
  BY InBuffer DEF Holding
<1> QED  BY <1>1, <1>2 DEF Readable, Smaller

-----------------------------------------------------------------------------
(***************************************************************************)
(* Who has the pipe open.                                                  *)
(***************************************************************************)
LEMMA UsersAre ==
    /\ \A k : IsFiniteSet(Users(k)) /\ Users(k) \subseteq File
    /\ \A k : Cardinality(Users(k)) \in Nat
    /\ \A k : Cardinality(Users(k)) \in 0 .. Cardinality(File)
    /\ \A k : Cardinality(Users(k)) = 0 => Users(k) = {}
<1>1. \A k : Users(k) \subseteq File
  BY DEF Users
<1>2. \A k : IsFiniteSet(Users(k)) /\ Cardinality(Users(k)) <= Cardinality(File)
  BY <1>1, FileAssumption, FS_Subset
<1>3. \A k : Cardinality(Users(k)) \in Nat /\ Cardinality(File) \in Nat
  BY <1>2, FileAssumption, FS_CardinalityType
<1> QED  BY <1>1, <1>2, <1>3, FS_EmptySet

LEMMA OneOrNone ==
    \A S : \A k : Cardinality(S \cap {k}) = IF k \in S THEN 1 ELSE 0
<1> TAKE S
<1> TAKE k
<1>1. CASE k \in S
  <2>1. S \cap {k} = {k}
    BY <1>1
  <2> QED  BY <1>1, <2>1, FS_Singleton
<1>2. CASE k \notin S
  <2>1. S \cap {k} = {}
    BY <1>2
  <2> QED  BY <1>2, <2>1, FS_EmptySet
<1> QED  BY <1>1, <1>2

LEMMA UsersOpened ==
    ASSUME TypeOK, NEW f \in File, mode[f] = {}, NEW m, mode' = [mode EXCEPT ![f] = m], NEW k
    PROVE  Cardinality(Users(k)') = Cardinality(Users(k)) + Cardinality(m \cap {k})
<1>1. f \notin Users(k) /\ Users(k)' = IF k \in m THEN Users(k) \cup {f} ELSE Users(k)
  BY DEF TypeOK, Users
<1>2. CASE k \in m
  <2>1. Cardinality(Users(k) \cup {f}) = Cardinality(Users(k)) + 1
    BY <1>1, UsersAre, FS_AddElement
  <2> QED  BY <1>1, <1>2, <2>1, OneOrNone
<1>3. CASE k \notin m
  <2>1. Cardinality(Users(k)) + 0 = Cardinality(Users(k))
    BY UsersAre
  <2> QED  BY <1>1, <1>3, <2>1, OneOrNone
<1> QED  BY <1>2, <1>3

LEMMA UsersClosed ==
    ASSUME TypeOK, NEW f \in File, mode' = [mode EXCEPT ![f] = {}], NEW k
    PROVE  Cardinality(Users(k)') = Cardinality(Users(k)) - Ends(f, k)
<1>1. Users(k)' = Users(k) \ {f} /\ (f \in Users(k) <=> k \in mode[f])
  BY DEF TypeOK, Users
<1>2. CASE k \in mode[f]
  <2>1. Cardinality(Users(k) \ {f}) = Cardinality(Users(k)) - 1
    BY <1>1, <1>2, UsersAre, FS_RemoveElement
  <2> QED  BY <1>1, <1>2, <2>1, OneOrNone DEF Ends
<1>3. CASE k \notin mode[f]
  <2>1. Cardinality(Users(k)) - 0 = Cardinality(Users(k)) /\ Users(k) \ {f} = Users(k)
    BY <1>1, <1>3, UsersAre
  <2> QED  BY <1>1, <1>3, <2>1, OneOrNone DEF Ends
<1> QED  BY <1>2, <1>3

LEMMA UsersInvOpen == ASSUME IInv, NEW f \in File, NEW m \in Modes, Open(f, m) PROVE UsersInv'
<1>1. /\ pc[f] = "closed" /\ mode[f] = {} /\ mode' = [mode EXCEPT ![f] = m]
      /\ pc' = [pc EXCEPT ![f] = "open"] /\ TypeOK
  BY DEF Open, Go, IInv, UsersInv
<1>2. scull_p_buffer \in Nat \ {0}
  BY SizesAssumption DEF IInv, TypeOK
<1>3. allocated' # 0
  BY <1>2, Ranges DEF IInv, Open
<1>4. \A g \in File : IF pc'[g] = "closed" THEN mode'[g] = {}
                                           ELSE mode'[g] \in Modes /\ allocated' # 0
  BY <1>1, <1>3 DEF IInv, TypeOK, UsersInv
<1>5. nreaders' = Cardinality(Users("r")') /\ nwriters' = Cardinality(Users("w")')
  <2>1. /\ nreaders = Cardinality(Users("r")) /\ nreaders' = nreaders + Cardinality(m \cap {"r"})
        /\ nwriters = Cardinality(Users("w")) /\ nwriters' = nwriters + Cardinality(m \cap {"w"})
    BY DEF Open, IInv, UsersInv
  <2> QED  BY <1>1, <2>1, UsersOpened
<1>6. nreaders' + nwriters' > 0
  <2>1. Cardinality(m \cap {"r"}) + Cardinality(m \cap {"w"}) > 0
    BY OneOrNone DEF Modes
  <2>2. Cardinality(m \cap {"r"}) \in Nat /\ Cardinality(m \cap {"w"}) \in Nat
    BY OneOrNone
  <2>3. /\ nreaders \in Nat /\ nreaders' = nreaders + Cardinality(m \cap {"r"})
        /\ nwriters \in Nat /\ nwriters' = nwriters + Cardinality(m \cap {"w"})
    BY UsersAre DEF Open, IInv, UsersInv
  <2> QED  BY <2>1, <2>2, <2>3
<1> QED  BY <1>4, <1>5, <1>6 DEF UsersInv

LEMMA UsersInvRelease == ASSUME IInv, NEW f \in File, Release(f) PROVE UsersInv'
<1>1. /\ pc[f] = "open" /\ mode' = [mode EXCEPT ![f] = {}]
      /\ pc' = [pc EXCEPT ![f] = "closed"] /\ TypeOK
  BY DEF Release, Go, IInv
<1>2. nreaders' = Cardinality(Users("r")') /\ nwriters' = Cardinality(Users("w")')
  <2>1. /\ nreaders = Cardinality(Users("r")) /\ nreaders' = nreaders - Ends(f, "r")
        /\ nwriters = Cardinality(Users("w")) /\ nwriters' = nwriters - Ends(f, "w")
    BY DEF Release, IInv, UsersInv
  <2> QED  BY <1>1, <2>1, UsersClosed
<1>3. nreaders' \in Nat /\ nwriters' \in Nat
  <2>1. (\A k : Cardinality(Users(k)) \in Nat)'
    BY UsersAre, PTL
  <2> QED  BY <1>2, <2>1
<1>4. allocated' # 0 => nreaders' + nwriters' > 0
  BY <1>3 DEF Release, Last
<1>5. ASSUME NEW g \in File
      PROVE  IF pc'[g] = "closed" THEN mode'[g] = {} ELSE mode'[g] \in Modes /\ allocated' # 0
  <2>1. CASE g = f
    BY <1>1, <2>1 DEF TypeOK
  <2>2. CASE g # f /\ pc[g] = "closed"
    BY <1>1, <2>2 DEF TypeOK, IInv, UsersInv
  <2>3. CASE g # f /\ pc[g] # "closed"
    <3>1. pc'[g] # "closed" /\ mode'[g] = mode[g] /\ mode[g] \in Modes /\ allocated # 0
      BY <1>1, <2>3 DEF TypeOK, IInv, UsersInv
    <3>2. g \in Users("r")' \/ g \in Users("w")'
      BY <3>1 DEF Modes, Users
    <3>3. (\A k : Cardinality(Users(k)) = 0 => Users(k) = {})'
      BY UsersAre, PTL
    <3>4. nreaders' # 0 \/ nwriters' # 0
      BY <1>2, <3>2, <3>3
    <3>5. nreaders' + nwriters' # 0
      <4>1. \A a, b \in Nat : a # 0 \/ b # 0 => a + b # 0
        OBVIOUS
      <4> QED  BY <1>3, <3>4, <4>1
    <3> QED  BY <3>1, <3>5 DEF Release, Last
  <2> QED  BY <2>1, <2>2, <2>3
<1> QED  BY <1>2, <1>4, <1>5 DEF UsersInv

(***************************************************************************)
(* Every other step is one of an open file, which stays open.              *)
(***************************************************************************)
LEMMA UsersInvSame ==
    ASSUME IInv, UNCHANGED <<mode, allocated, nreaders, nwriters>>,
           \A f \in File : pc'[f] = "closed" <=> pc[f] = "closed"
    PROVE  UsersInv'
<1>1. \A k : Users(k)' = Users(k)
  BY DEF Users
<1> QED  BY <1>1 DEF IInv, UsersInv

-----------------------------------------------------------------------------
(***************************************************************************)
(* The steps of one file, by what they change.                             *)
(***************************************************************************)
Quiet(f) ==       \* nothing but pc, the lock and the queues
    \/ Call(f) \/ Lock(f) \/ Interrupted(f)
    \/ ReadEmpty(f) \/ ReadWake(f) \/ ReadWait(f) \/ ReadQueue(f) \/ ReadCond(f) \/ ReadWoken(f)
    \/ WriteFull(f) \/ WriteWake(f) \/ WriteWait(f) \/ WriteCond(f) \/ WriteWoken(f)
    \/ \E s \in {"pollin", "pollout"} : PollSleeps(f, s) \/ PollReturns(f, s)

Moves(f) ==       \* a pointer
    ReadData(f) \/ ReadWrap(f) \/ WriteData(f) \/ WriteWrap(f)

Step(f) == Quiet(f) \/ Moves(f) \/ Release(f) \/ \E m \in Modes : Open(f, m)

LEMMA NextIs == Next <=> \/ \E n \in Sizes : SetSize(n)
                         \/ \E f \in File : Step(f)
  BY DEF Next, Step, Quiet, Moves, Inside

Places == {"closed", "open", "pollin", "pollout",
           "rlock", "rcheck", "rwrap", "rwake", "rwait", "rqueue", "rcond", "rsleep",
           "wlock", "wcheck", "wwrap", "wwake", "wwait", "wcond", "wsleep"}

(***************************************************************************)
(* What a quiet step may do: the lock goes with pc, the pointers stay, and *)
(* only f gets into the queues.                                            *)
(***************************************************************************)
QuietFacts(f) ==
    /\ UNCHANGED <<memVars, rp, wp, bytes, got>>
    /\ \E to \in Places \ {"closed", "rwrap", "wwrap", "rwake", "wwake"} :
        /\ pc' = [pc EXCEPT ![f] = to]
        /\ to = "rcheck" \/ to = "wcheck" <=> lock' = f
    /\ pc[f] \notin {"closed", "rwrap", "wwrap"}
    /\ inq' \subseteq inq \cup {f} /\ outq' \subseteq outq \cup {f}
    /\ \/ lock' = lock /\ pc[f] \notin Holding
       \/ lock' = Nobody /\ pc[f] \in Holding
       \/ lock' = f /\ lock = Nobody /\ pc[f] \notin Holding

LEMMA QuietIs == ASSUME TypeOK, LockInv, NEW f \in File, Quiet(f) PROVE QuietFacts(f)
<1> USE DEF QuietFacts, Go, Places, Holding
<1>0. f # Nobody /\ (lock = f <=> pc[f] \in Holding)
  BY NobodyAssumption DEF LockInv
<1>1. CASE Call(f)
  BY <1>0, <1>1 DEF Call
<1>2. CASE Lock(f)
  BY <1>0, <1>2 DEF Lock
<1>3. CASE Interrupted(f)
  <2>1. pc[f] \notin Holding \cup {"closed"} /\ pc' = [pc EXCEPT ![f] = "open"]
    BY <1>3 DEF Interrupted
  <2>2. inq' \subseteq inq \cup {f} /\ outq' \subseteq outq \cup {f} /\ lock' = lock
    BY <1>3 DEF Interrupted
  <2>3. UNCHANGED <<memVars, rp, wp, bytes, got>>
    BY <1>3 DEF Interrupted
  <2>4. "open" \in Places \ {"closed", "rwrap", "wwrap", "rwake", "wwake"}
    OBVIOUS
  <2> QED  BY <1>0, <2>1, <2>2, <2>3, <2>4
<1>4. CASE ReadEmpty(f) \/ WriteFull(f)
  BY <1>0, <1>4 DEF ReadEmpty, WriteFull
<1>5. CASE ReadWake(f) \/ WriteWake(f)
  BY <1>0, <1>5 DEF ReadWake, WriteWake
<1>6. CASE ReadWait(f) \/ ReadQueue(f) \/ WriteWait(f)
  BY <1>0, <1>6 DEF ReadWait, ReadQueue, WriteWait
<1>7. CASE ReadCond(f) \/ WriteCond(f)
  BY <1>0, <1>7 DEF ReadCond, WriteCond
<1>8. CASE ReadWoken(f) \/ WriteWoken(f)
  BY <1>0, <1>8 DEF ReadWoken, WriteWoken
<1>9. ASSUME NEW s \in {"pollin", "pollout"}, PollSleeps(f, s) \/ PollReturns(f, s)
      PROVE  QuietFacts(f)
  BY <1>0, <1>9 DEF PollSleeps, PollReturns
<1> QED  BY <1>1, <1>2, <1>3, <1>4, <1>5, <1>6, <1>7, <1>8, <1>9 DEF Quiet

(***************************************************************************)
(* What a step that moves a pointer does.                                  *)
(***************************************************************************)
ReaderMoves(f) ==
    /\ UNCHANGED <<memVars, wp, bytes, inq, outq>>
    /\ \/ /\ pc[f] = "rcheck" /\ pc' = [pc EXCEPT ![f] = "rwrap"] /\ UNCHANGED lock
          /\ rp # wp
          /\ \E n \in Count : /\ rp' = rp + Readable(n)
                              /\ got' = [i \in 1 .. Readable(n) |-> bytes[rp + i - 1]]
       \/ /\ pc[f] = "rwrap" /\ pc' = [pc EXCEPT ![f] = "rwake"] /\ lock' = Nobody
          /\ rp' = IF rp = buffersize THEN 0 ELSE rp
          /\ UNCHANGED got
       \/ /\ pc[f] = "rcheck" /\ pc' = [pc EXCEPT ![f] = "open"] /\ lock' = Nobody
          /\ UNCHANGED <<rp, got>>

Written(n, d) == [i \in DOMAIN bytes |-> IF i \in wp .. wp + n - 1 THEN d[i - wp + 1] ELSE bytes[i]]

WriterMoves(f) ==
    /\ UNCHANGED <<memVars, rp, got, inq, outq>>
    /\ \/ /\ pc[f] = "wcheck" /\ pc' = [pc EXCEPT ![f] = "wwrap"] /\ UNCHANGED lock
          /\ spacefree # 0
          /\ \E d \in Data : /\ wp' = wp + Writable(Len(d))
                             /\ bytes' = Written(Writable(Len(d)), d)
       \/ /\ pc[f] = "wwrap" /\ pc' = [pc EXCEPT ![f] = "wwake"] /\ lock' = Nobody
          /\ wp' = IF wp = buffersize THEN 0 ELSE wp
          /\ UNCHANGED bytes
       \/ /\ pc[f] = "wcheck" /\ pc' = [pc EXCEPT ![f] = "open"] /\ lock' = Nobody
          /\ UNCHANGED <<wp, bytes>>

LEMMA MovesIs == ASSUME NEW f \in File, Moves(f) PROVE ReaderMoves(f) \/ WriterMoves(f)
<1> USE DEF Go
<1>1. ReadData(f) => ReaderMoves(f)
  BY DEF ReadData, ReaderMoves
<1>2. ReadWrap(f) => ReaderMoves(f)
  BY DEF ReadWrap, ReaderMoves
<1>3. WriteData(f) => WriterMoves(f)
  BY DEF WriteData, WriterMoves, Written
<1>4. WriteWrap(f) => WriterMoves(f)
  BY DEF WriteWrap, WriterMoves
<1> QED  BY <1>1, <1>2, <1>3, <1>4 DEF Moves

LEMMA PlacesAre == TypeOK => pc \in [File -> Places]
  BY DEF TypeOK, Places

(***************************************************************************)
(* The lock.                                                               *)
(***************************************************************************)
LEMMA LockStep == ASSUME IInv, NEW f \in File, Step(f) PROVE LockInv'
<1> USE DEF LockInv, Holding
<1>0. TypeOK /\ LockInv /\ pc \in [File -> Places]
  BY PlacesAre DEF IInv
<1>1. CASE Quiet(f)
  <2>1. QuietFacts(f)
    BY <1>0, <1>1, QuietIs
  <2> QED  BY <1>0, <2>1, NobodyAssumption DEF QuietFacts
<1>2. CASE Moves(f)
  <2>1. CASE ReaderMoves(f)
    BY <1>0, <2>1, NobodyAssumption DEF ReaderMoves
  <2>2. CASE WriterMoves(f)
    BY <1>0, <2>2, NobodyAssumption DEF WriterMoves
  <2> QED  BY <1>2, <2>1, <2>2, MovesIs
<1>3. CASE Release(f)
  BY <1>0, <1>3 DEF Release, Go
<1>4. ASSUME NEW m \in Modes, Open(f, m) PROVE LockInv'
  BY <1>0, <1>4 DEF Open, Go
<1> QED  BY <1>1, <1>2, <1>3, <1>4 DEF Step

(***************************************************************************)
(* Users.                                                                  *)
(***************************************************************************)
LEMMA UsersStep == ASSUME IInv, NEW f \in File, Step(f) PROVE UsersInv'
<1>0. TypeOK /\ LockInv /\ pc \in [File -> Places]
  BY PlacesAre DEF IInv
<1>1. CASE Quiet(f)
  <2>1. QuietFacts(f)
    BY <1>0, <1>1, QuietIs
  <2>2. \A g \in File : pc'[g] = "closed" <=> pc[g] = "closed"
    BY <1>0, <2>1 DEF QuietFacts, Places
  <2> QED  BY <2>1, <2>2, UsersInvSame DEF QuietFacts, memVars
<1>2. CASE Moves(f)
  <2>1. \A g \in File : pc'[g] = "closed" <=> pc[g] = "closed"
    BY <1>0, <1>2, MovesIs DEF ReaderMoves, WriterMoves
  <2>2. UNCHANGED memVars
    BY <1>2, MovesIs DEF ReaderMoves, WriterMoves
  <2> QED  BY <2>1, <2>2, UsersInvSame DEF memVars
<1>3. CASE Release(f)
  BY <1>3, UsersInvRelease
<1>4. ASSUME NEW m \in Modes, Open(f, m) PROVE UsersInv'
  BY <1>4, UsersInvOpen
<1> QED  BY <1>1, <1>2, <1>3, <1>4 DEF Step

(***************************************************************************)
(* Pointers and types.                                                     *)
(***************************************************************************)
LEMMA PointersStep ==
    ASSUME IInv, NEW f \in File, Step(f)
    PROVE  PointersInv' /\ rp' \in 0 .. buffersize' /\ wp' \in 0 .. buffersize'
<1>0. /\ TypeOK /\ LockInv /\ PointersInv /\ pc \in [File -> Places]
      /\ rp \in Nat /\ wp \in Nat /\ buffersize \in Nat /\ rp <= buffersize /\ wp <= buffersize
  BY PlacesAre, Ranges DEF IInv
<1>1. CASE Quiet(f)
  <2>1. QuietFacts(f)
    BY <1>0, <1>1, QuietIs
  <2>2. \A g \in File : pc[g] \in {"rwrap", "wwrap"} => pc'[g] = pc[g]
    BY <1>0, <2>1 DEF QuietFacts
  <2> QED  BY <1>0, <2>1, <2>2 DEF QuietFacts, PointersInv, memVars
<1>2. CASE ReaderMoves(f)
  <2>1. pc[f] \in Holding /\ buffersize > 1 /\ wp < buffersize
    BY <1>2, InBuffer DEF ReaderMoves, Holding
  <2>2. rp' \in 0 .. buffersize /\ (rp' = buffersize => pc'[f] = "rwrap")
    <3>1. CASE pc[f] = "rcheck" /\ pc' = [pc EXCEPT ![f] = "rwrap"] /\ rp # wp
      <4>1. PICK n \in Count : rp' = rp + Readable(n)
        BY <1>0, <1>2, <3>1 DEF ReaderMoves
      <4>2. n \in Nat
        BY CountAssumption
      <4>3. Readable(n) \in Nat /\ rp + Readable(n) <= buffersize
        BY <3>1, <4>2, ReadableIs
      <4> QED  BY <1>0, <3>1, <4>1, <4>3
    <3>2. CASE rp' = IF rp = buffersize THEN 0 ELSE rp
      BY <1>0, <2>1, <3>2
    <3>3. CASE pc[f] = "rcheck" /\ rp' = rp
      BY <1>0, <2>1, <3>3, InBuffer
    <3> QED  BY <1>2, <3>1, <3>2, <3>3 DEF ReaderMoves
  <2> QED  BY <1>0, <1>2, <2>1, <2>2 DEF ReaderMoves, PointersInv, memVars
<1>3. CASE WriterMoves(f)
  <2>1. pc[f] \in Holding /\ buffersize > 1 /\ rp < buffersize
    BY <1>3, InBuffer DEF WriterMoves, Holding
  <2>2. wp' \in 0 .. buffersize /\ (wp' = buffersize => pc'[f] = "wwrap" /\ rp # 0)
    <3>1. CASE pc[f] = "wcheck" /\ pc' = [pc EXCEPT ![f] = "wwrap"]
      <4>1. PICK d \in Data : wp' = wp + Writable(Len(d))
        BY <1>0, <1>3, <3>1 DEF WriterMoves
      <4>2. Len(d) \in Nat
        BY DataAssumption
      <4>3. /\ Writable(Len(d)) \in Nat /\ wp + Writable(Len(d)) <= buffersize
            /\ rp = 0 => wp + Writable(Len(d)) < buffersize
        BY <3>1, <4>2, WritableIs
      <4> QED  BY <1>0, <3>1, <4>1, <4>3
    <3>2. CASE wp' = IF wp = buffersize THEN 0 ELSE wp
      BY <1>0, <2>1, <3>2
    <3>3. CASE pc[f] = "wcheck" /\ wp' = wp
      BY <1>0, <2>1, <3>3, InBuffer
    <3> QED  BY <1>3, <3>1, <3>2, <3>3 DEF WriterMoves
  <2> QED  BY <1>0, <1>3, <2>1, <2>2 DEF WriterMoves, PointersInv, memVars
<1>4. CASE Release(f)
  <2>1. \A g \in File : pc[g] \in {"rwrap", "wwrap"} => pc'[g] = pc[g]
    BY <1>0, <1>4 DEF Release, Go
  <2> QED  BY <1>0, <1>4, <2>1 DEF Release, PointersInv
<1>5. ASSUME NEW m \in Modes, Open(f, m)
      PROVE  PointersInv' /\ rp' \in 0 .. buffersize' /\ wp' \in 0 .. buffersize'
  <2>1. scull_p_buffer \in Nat \ {0, 1}
    BY SizesAssumption DEF IInv, TypeOK
  <2> QED  BY <1>5, <2>1 DEF Open, PointersInv
<1> QED  BY <1>1, <1>2, <1>3, <1>4, <1>5, MovesIs DEF Step

LEMMA TypeStep ==
    ASSUME IInv, NEW f \in File, Step(f), UsersInv', rp' \in 0 .. buffersize', wp' \in 0 .. buffersize'
    PROVE  TypeOK'
<1>0. TypeOK /\ LockInv /\ pc \in [File -> Places]
  BY PlacesAre DEF IInv
<1>1. nreaders' \in 0 .. Cardinality(File) /\ nwriters' \in 0 .. Cardinality(File)
  <2>1. (\A k : Cardinality(Users(k)) \in 0 .. Cardinality(File))'
    BY UsersAre, PTL
  <2> QED  BY <2>1 DEF UsersInv
<1> DEFINE Rest ==
      /\ scull_p_buffer \in Sizes
      /\ allocated \in Sizes \cup {0} /\ buffersize \in Sizes \cup {0}
      /\ lock \in File \cup {Nobody}
      /\ inq \subseteq File /\ outq \subseteq File
      /\ mode \in [File -> SUBSET {"r", "w"}]
<1>2. Rest
  BY <1>0 DEF TypeOK
<1>3. CASE Quiet(f)
  <2>1. QuietFacts(f)
    BY <1>0, <1>3, QuietIs
  <2>2. Rest'
    BY <1>2, <2>1 DEF QuietFacts, memVars
  <2>3. pc' \in [File -> Places]
    BY <1>0, <2>1 DEF QuietFacts
  <2> HIDE DEF Rest
  <2> QED  BY <1>1, <2>2, <2>3 DEF TypeOK, Rest, Places
<1>4. CASE Moves(f)
  <2>1. Rest'
    BY <1>2, <1>4, MovesIs DEF ReaderMoves, WriterMoves, memVars
  <2>2. pc' \in [File -> Places]
    BY <1>0, <1>4, MovesIs DEF ReaderMoves, WriterMoves, Places
  <2> HIDE DEF Rest
  <2> QED  BY <1>1, <2>1, <2>2 DEF TypeOK, Rest, Places
<1>5. CASE Release(f)
  <2>1. Rest'
    BY <1>2, <1>5 DEF Release
  <2>2. pc' \in [File -> Places]
    BY <1>0, <1>5 DEF Release, Go, Places
  <2> HIDE DEF Rest
  <2> QED  BY <1>1, <2>1, <2>2 DEF TypeOK, Rest, Places
<1>6. ASSUME NEW m \in Modes, Open(f, m) PROVE TypeOK'
  <2>1. Rest'
    BY <1>2, <1>6 DEF Open, Modes
  <2>2. pc' \in [File -> Places]
    BY <1>0, <1>6 DEF Open, Go, Places
  <2> HIDE DEF Rest
  <2> QED  BY <1>1, <2>1, <2>2 DEF TypeOK, Rest, Places
<1> QED  BY <1>3, <1>4, <1>5, <1>6 DEF Step

-----------------------------------------------------------------------------
(***************************************************************************)
(* Wake-ups.  A step that falls asleep has just looked.  One that changes  *)
(* what sleepers wait for goes on to wake them, and nothing else falsifies *)
(* that somebody is about to.                                              *)
(***************************************************************************)
WakesIn  == AsleepIn # {} /\ rp # wp => \E g \in File : pc[g] \in {"wwrap", "wwake"}
WakesOut == AsleepOut # {} /\ spacefree > 0 =>
                emptied \/ \E g \in File : pc[g] \in {"rwrap", "rwake"}

LEMMA WakesAre == NoLostWakeup <=> WakesIn /\ WakesOut
  BY DEF NoLostWakeup, WakesIn, WakesOut

Unasleep(f) ==    \* f is not going to sleep
    /\ pc' = [pc EXCEPT ![f] = pc'[f]] /\ pc'[f] \in Places \ Sleeping
    /\ inq' \subseteq inq \cup {f} /\ outq' \subseteq outq \cup {f}

LEMMA FewerAsleep ==
    ASSUME TypeOK, NEW f \in File, Unasleep(f)
    PROVE  AsleepIn' \subseteq AsleepIn /\ AsleepOut' \subseteq AsleepOut
  BY DEF TypeOK, Unasleep, AsleepIn, AsleepOut, Sleeping

LEMMA WakersStay ==
    ASSUME TypeOK, NEW f \in File, pc[f] \notin Waking, pc' = [pc EXCEPT ![f] = pc'[f]]
    PROVE  /\ (\E g \in File : pc[g] \in {"wwrap", "wwake"}) =>
                  \E g \in File : pc'[g] \in {"wwrap", "wwake"}
           /\ (\E g \in File : pc[g] \in {"rwrap", "rwake"}) =>
                  \E g \in File : pc'[g] \in {"rwrap", "rwake"}
  BY DEF TypeOK, Waking

LEMMA WakeQuiet ==
    ASSUME TypeOK, NoLostWakeup, NEW f \in File, Unasleep(f), pc[f] \notin Waking,
           UNCHANGED <<rp, wp, buffersize, emptied>>
    PROVE  NoLostWakeup'
<1>1. AsleepIn' \subseteq AsleepIn /\ AsleepOut' \subseteq AsleepOut
  BY FewerAsleep
<1>2. spacefree' = spacefree
  BY DEF spacefree
<1> QED  BY <1>1, <1>2, WakersStay DEF NoLostWakeup, Unasleep

(***************************************************************************)
(* Going to sleep.                                                         *)
(***************************************************************************)
LEMMA WakeSleeps ==
    ASSUME TypeOK, NoLostWakeup, NEW f \in File, pc[f] \notin Waking,
           UNCHANGED <<rp, wp, buffersize, emptied>>,
           pc' = [pc EXCEPT ![f] = pc'[f]],
           inq' \subseteq inq \cup {f}, outq' \subseteq outq \cup {f},
           \/ pc'[f] \in {"rsleep", "pollin"} /\ rp = wp
           \/ pc'[f] \in {"wsleep", "pollout"} /\ spacefree = 0
    PROVE  NoLostWakeup'
<1>1. spacefree' = spacefree
  BY DEF spacefree
<1>2. CASE pc'[f] \in {"rsleep", "pollin"} /\ rp = wp
  <2>1. AsleepOut' \subseteq AsleepOut
    BY <1>2 DEF TypeOK, AsleepOut
  <2> QED  BY <1>1, <1>2, <2>1, WakersStay DEF NoLostWakeup
<1>3. CASE pc'[f] \in {"wsleep", "pollout"} /\ spacefree = 0
  <2>1. AsleepIn' \subseteq AsleepIn
    BY <1>3 DEF TypeOK, AsleepIn
  <2>2. ~(spacefree' > 0)
    BY <1>1, <1>3
  <2> QED  BY <2>1, <2>2, WakersStay DEF NoLostWakeup
<1> QED  BY <1>2, <1>3

LEMMA WakeStepQuiet == ASSUME IInv, NEW f \in File, Quiet(f) PROVE NoLostWakeup'
<1>0. TypeOK /\ LockInv /\ NoLostWakeup /\ pc \in [File -> Places]
  BY PlacesAre DEF IInv
<1>1. QuietFacts(f)
  BY <1>0, QuietIs
<1>2. /\ UNCHANGED <<rp, wp, buffersize, emptied>> /\ pc' = [pc EXCEPT ![f] = pc'[f]]
      /\ inq' \subseteq inq \cup {f} /\ outq' \subseteq outq \cup {f} /\ pc'[f] \in Places
  BY <1>0, <1>1 DEF QuietFacts, memVars
<1>3. CASE ReadWake(f)
  <2>1. AsleepOut' = {} /\ AsleepIn' \subseteq AsleepIn
    BY <1>0, <1>3 DEF ReadWake, Go, AsleepOut, AsleepIn
  <2>2. \A g \in File : pc[g] \in {"wwrap", "wwake"} => pc'[g] = pc[g]
    BY <1>0, <1>3 DEF ReadWake, Go
  <2> QED  BY <1>0, <1>2, <2>1, <2>2 DEF NoLostWakeup
<1>4. CASE WriteWake(f)
  <2>1. AsleepIn' = {} /\ AsleepOut' \subseteq AsleepOut
    BY <1>0, <1>4 DEF WriteWake, Go, AsleepOut, AsleepIn
  <2>2. \A g \in File : pc[g] \in {"rwrap", "rwake"} => pc'[g] = pc[g]
    BY <1>0, <1>4 DEF WriteWake, Go
  <2>3. spacefree' = spacefree
    BY <1>2 DEF spacefree
  <2> QED  BY <1>0, <1>2, <2>1, <2>2, <2>3 DEF NoLostWakeup
<1>5. CASE Quiet(f) /\ pc[f] \notin Waking /\ pc'[f] \notin Sleeping
  BY <1>0, <1>2, <1>5, WakeQuiet DEF Unasleep
<1>6. CASE Quiet(f) /\ pc[f] \notin Waking /\ pc'[f] \in Sleeping
  <2>1. \/ pc'[f] \in {"rsleep", "pollin"} /\ rp = wp
        \/ pc'[f] \in {"wsleep", "pollout"} /\ spacefree = 0
    <3>1. pc'[f] \in {"rsleep", "wsleep", "pollin", "pollout"}
      BY <1>6 DEF Sleeping
    <3>2. CASE ReadCond(f) \/ WriteCond(f)
      BY <1>0, <3>1, <3>2 DEF ReadCond, WriteCond, Nothing, NoSpace, Go
    <3>3. ASSUME NEW s \in {"pollin", "pollout"}, PollSleeps(f, s)
          PROVE  \/ pc'[f] \in {"rsleep", "pollin"} /\ rp = wp
                 \/ pc'[f] \in {"wsleep", "pollout"} /\ spacefree = 0
      <4>1. pc'[f] = s
        BY <1>0, <3>3 DEF PollSleeps, Go
      <4> QED  BY <3>3, <4>1 DEF PollSleeps, HasPolled
    <3>4. CASE Call(f) \/ Lock(f) \/ Interrupted(f) \/ ReadEmpty(f) \/ WriteFull(f)
      BY <1>0, <3>1, <3>4 DEF Call, Lock, Interrupted, ReadEmpty, WriteFull, Go
    <3>5. CASE ReadWait(f) \/ ReadQueue(f) \/ ReadWoken(f) \/ WriteWait(f) \/ WriteWoken(f)
      BY <1>0, <3>1, <3>5 DEF ReadWait, ReadQueue, ReadWoken, WriteWait, WriteWoken, Go
    <3>6. ASSUME NEW s \in {"pollin", "pollout"}, PollReturns(f, s) PROVE FALSE
      BY <1>0, <3>1, <3>6 DEF PollReturns, Go
    <3>7. ~ReadWake(f) /\ ~WriteWake(f)
      BY <1>6 DEF ReadWake, WriteWake, Go, Waking
    <3> QED  BY <1>6, <3>2, <3>3, <3>4, <3>5, <3>6, <3>7 DEF Quiet
  <2> QED  BY <1>0, <1>2, <1>6, <2>1, WakeSleeps
<1>7. pc[f] \in Waking => ReadWake(f) \/ WriteWake(f)
  BY DEF Quiet, Waking, Go, Call, Lock, Interrupted, ReadEmpty, ReadWait, ReadQueue, ReadCond,
         ReadWoken, WriteFull, WriteWait, WriteCond, WriteWoken, PollSleeps, PollReturns
<1> QED  BY <1>3, <1>4, <1>5, <1>6, <1>7

(***************************************************************************)
(* A reader makes room and goes on to rwrap and rwake.                     *)
(***************************************************************************)
LEMMA WakeStepReader == ASSUME IInv, NEW f \in File, ReaderMoves(f) PROVE NoLostWakeup'
<1>0. /\ TypeOK /\ LockInv /\ NoLostWakeup /\ pc \in [File -> Places]
      /\ pc[f] \in Holding /\ pc[f] \in {"rcheck", "rwrap"} /\ wp < buffersize /\ wp \in Nat
      /\ UNCHANGED <<wp, buffersize, emptied, inq, outq>> /\ pc' = [pc EXCEPT ![f] = pc'[f]]
  BY PlacesAre, InBuffer, Ranges DEF IInv, ReaderMoves, Holding, memVars
<1>1. Unasleep(f)
  BY <1>0 DEF ReaderMoves, Unasleep, Sleeping, Places
<1>2. AsleepIn' \subseteq AsleepIn /\ AsleepOut' \subseteq AsleepOut
  BY <1>0, <1>1, FewerAsleep
<1>3. rp' # wp' => rp # wp
  BY <1>0 DEF ReaderMoves
<1>4. WakesIn'
  <2>1. \A g \in File : pc[g] \in {"wwrap", "wwake"} => pc'[g] = pc[g]
    BY <1>0
  <2> QED  BY <1>0, <1>2, <1>3, <2>1 DEF NoLostWakeup, WakesIn
<1>5. WakesOut'
  <2>1. CASE pc'[f] \in {"rwrap", "rwake"}
    BY <2>1 DEF WakesOut
  <2>2. CASE pc'[f] = "open" /\ pc[f] = "rcheck" /\ rp' = rp
    <3>1. \A g \in File : pc[g] \in {"rwrap", "rwake"} => pc'[g] = pc[g]
      BY <1>0, <2>2
    <3>2. spacefree' = spacefree
      BY <1>0, <2>2 DEF spacefree
    <3> QED  BY <1>0, <1>2, <3>1, <3>2 DEF NoLostWakeup, WakesOut
  <2> QED  BY <1>0, <2>1, <2>2 DEF ReaderMoves
<1> QED  BY <1>4, <1>5 DEF NoLostWakeup, WakesIn, WakesOut

(***************************************************************************)
(* A writer makes bytes and goes on to wwrap and wwake; it leaves no room  *)
(* where there was none.                                                   *)
(***************************************************************************)
LEMMA WakeStepWriter == ASSUME IInv, NEW f \in File, WriterMoves(f) PROVE NoLostWakeup'
<1>0. /\ TypeOK /\ LockInv /\ NoLostWakeup /\ pc \in [File -> Places] /\ PointersInv
      /\ pc[f] \in Holding /\ pc[f] \in {"wcheck", "wwrap"}
      /\ rp < buffersize /\ rp \in Nat /\ wp \in Nat /\ buffersize \in Nat
      /\ UNCHANGED <<rp, buffersize, emptied, inq, outq>> /\ pc' = [pc EXCEPT ![f] = pc'[f]]
  BY PlacesAre, InBuffer, Ranges DEF IInv, WriterMoves, Holding, memVars
<1>1. Unasleep(f)
  BY <1>0 DEF WriterMoves, Unasleep, Sleeping, Places
<1>2. AsleepIn' \subseteq AsleepIn /\ AsleepOut' \subseteq AsleepOut
  BY <1>0, <1>1, FewerAsleep
<1>3. spacefree' > 0 => spacefree > 0
  <2>1. CASE pc[f] = "wcheck" /\ spacefree # 0
    <3>1. spacefree \in Nat
      BY <2>1, WritableIs
    <3>2. spacefree > 0
      BY <2>1, <3>1
    <3> QED  BY <3>2
  <2>2. CASE wp' = IF wp = buffersize THEN 0 ELSE wp
    <3>1. CASE wp = buffersize
      <4>1. rp # 0 /\ buffersize # 0 /\ rp # wp /\ rp # wp' /\ wp' = 0
        BY <1>0, <2>2, <3>1 DEF PointersInv
      <4>2. (rp + buffersize - 0) % buffersize = rp
        BY <1>0, <4>1, SpaceCases
      <4>3. (rp + buffersize - wp) % buffersize = rp
        BY <1>0, <3>1, <4>1, SpaceCases
      <4> QED  BY <1>0, <4>1, <4>2, <4>3 DEF spacefree
    <3>2. CASE wp # buffersize
      BY <1>0, <2>2, <3>2 DEF spacefree
    <3> QED  BY <3>1, <3>2
  <2>3. CASE wp' = wp
    BY <1>0, <2>3 DEF spacefree
  <2> QED  BY <2>1, <2>2, <2>3 DEF WriterMoves
<1>4. WakesOut'
  <2>1. \A g \in File : pc[g] \in {"rwrap", "rwake"} => pc'[g] = pc[g]
    BY <1>0
  <2> QED  BY <1>0, <1>2, <1>3, <2>1 DEF NoLostWakeup, WakesOut
<1>5. WakesIn'
  <2>1. CASE pc'[f] \in {"wwrap", "wwake"}
    BY <2>1 DEF WakesIn
  <2>2. CASE pc'[f] = "open" /\ pc[f] = "wcheck" /\ wp' = wp
    <3>1. \A g \in File : pc[g] \in {"wwrap", "wwake"} => pc'[g] = pc[g]
      BY <1>0, <2>2
    <3> QED  BY <1>0, <1>2, <2>2, <3>1 DEF NoLostWakeup, WakesIn
  <2> QED  BY <1>0, <2>1, <2>2 DEF WriterMoves
<1> QED  BY <1>4, <1>5 DEF NoLostWakeup, WakesIn, WakesOut

(***************************************************************************)
(* An open that throws bytes away makes room and is remembered; one of an  *)
(* empty pipe makes none that was not there.                               *)
(***************************************************************************)
LEMMA WakeStepOpen == ASSUME IInv, NEW f \in File, NEW m \in Modes, Open(f, m) PROVE NoLostWakeup'
<1>0. /\ TypeOK /\ LockInv /\ NoLostWakeup /\ pc \in [File -> Places] /\ PointersInv /\ UsersInv
      /\ buffersize \in Nat /\ (buffersize # 0 => buffersize > 1)
      /\ pc[f] = "closed" /\ pc' = [pc EXCEPT ![f] = "open"]
      /\ emptied' = (emptied \/ rp # wp) /\ rp' = wp' /\ inq' = inq /\ outq' = outq
  BY PlacesAre, Ranges DEF IInv, Open, Go
<1>1. Unasleep(f)
  BY <1>0 DEF Unasleep, Sleeping, Places
<1>2. AsleepIn' \subseteq AsleepIn /\ AsleepOut' \subseteq AsleepOut
  BY <1>0, <1>1, FewerAsleep
<1>3. \A g \in File : pc[g] \in {"rwrap", "rwake"} => pc'[g] = pc[g]
  BY <1>0
<1>4. WakesOut'
  <2>1. CASE emptied \/ rp # wp
    BY <1>0, <2>1 DEF WakesOut
  <2>2. CASE rp = wp /\ AsleepOut' = {}
    BY <2>2 DEF WakesOut
  <2>3. CASE rp = wp /\ AsleepOut # {}
    <3>1. PICK g \in File : pc[g] \in {"wsleep", "pollout"}
      BY <1>0, <2>3 DEF AsleepOut, TypeOK
    <3>2. buffersize > 1
      BY <1>0, <3>1 DEF UsersInv, PointersInv
    <3>3. spacefree > 0
      BY <1>0, <2>3, <3>2 DEF spacefree
    <3> QED  BY <1>0, <1>3, <2>3, <3>3 DEF NoLostWakeup, WakesOut
  <2> QED  BY <1>2, <2>1, <2>2, <2>3
<1> QED  BY <1>0, <1>4 DEF NoLostWakeup, WakesOut

LEMMA WakeStepRelease == ASSUME IInv, NEW f \in File, Release(f) PROVE NoLostWakeup'
<1>1. /\ TypeOK /\ NoLostWakeup /\ pc[f] = "open" /\ pc' = [pc EXCEPT ![f] = "closed"]
      /\ UNCHANGED <<rp, wp, buffersize, emptied, inq, outq>>
  BY DEF IInv, Release, Go
<1>2. pc[f] \notin Waking /\ Unasleep(f)
  BY <1>1 DEF Waking, Unasleep, Sleeping, Places, TypeOK
<1> QED  BY <1>1, <1>2, WakeQuiet

-----------------------------------------------------------------------------
LEMMA InitInv == Init => IInv
<1> SUFFICES ASSUME Init PROVE IInv
  OBVIOUS
<1>1. Cardinality(File) \in Nat
  BY FileAssumption, FS_CardinalityType
<1>2. TypeOK
  BY <1>1 DEF Init, TypeOK
<1>3. LockInv
  BY NobodyAssumption DEF Init, LockInv, Holding
<1>4. PointersInv
  BY DEF Init, PointersInv
<1>5. UsersInv
  <2>1. Users("r") = {} /\ Users("w") = {}
    BY DEF Init, Users
  <2> QED  BY <2>1, FS_EmptySet DEF Init, UsersInv
<1>6. NoLostWakeup
  BY DEF Init, NoLostWakeup, AsleepIn, AsleepOut
<1> QED  BY <1>2, <1>3, <1>4, <1>5, <1>6 DEF IInv

LEMMA SetSizeStep == ASSUME IInv, NEW n \in Sizes, SetSize(n) PROVE IInv'
<1>1. \A k : Users(k)' = Users(k)
  BY DEF SetSize, Users
<1>2. AsleepIn' = AsleepIn /\ AsleepOut' = AsleepOut /\ spacefree' = spacefree
  BY DEF SetSize, AsleepIn, AsleepOut, spacefree
<1>3. TypeOK' /\ LockInv' /\ PointersInv'
  BY DEF SetSize, IInv, TypeOK, LockInv, PointersInv
<1>4. UsersInv'
  BY <1>1 DEF SetSize, IInv, UsersInv
<1>5. NoLostWakeup'
  BY <1>2 DEF SetSize, IInv, NoLostWakeup
<1> QED  BY <1>3, <1>4, <1>5 DEF IInv

LEMMA StutterStep == IInv /\ UNCHANGED vars => IInv'
<1> SUFFICES ASSUME IInv, UNCHANGED vars PROVE IInv'
  OBVIOUS
<1> USE DEF vars, memVars
<1>1. \A k : Users(k)' = Users(k)
  BY DEF Users
<1>2. AsleepIn' = AsleepIn /\ AsleepOut' = AsleepOut /\ spacefree' = spacefree
  BY DEF AsleepIn, AsleepOut, spacefree
<1>3. TypeOK' /\ LockInv' /\ PointersInv'
  BY DEF IInv, TypeOK, LockInv, PointersInv
<1>4. UsersInv'
  BY <1>1 DEF IInv, UsersInv
<1>5. NoLostWakeup'
  BY <1>2 DEF IInv, NoLostWakeup
<1> QED  BY <1>3, <1>4, <1>5 DEF IInv

LEMMA FileStep == ASSUME IInv, NEW f \in File, Step(f) PROVE IInv'
<1>1. LockInv'
  BY LockStep
<1>2. UsersInv'
  BY UsersStep
<1>3. PointersInv' /\ rp' \in 0 .. buffersize' /\ wp' \in 0 .. buffersize'
  BY PointersStep
<1>4. TypeOK'
  BY <1>2, <1>3, TypeStep
<1>5. NoLostWakeup'
  BY MovesIs, WakeStepQuiet, WakeStepReader, WakeStepWriter, WakeStepOpen, WakeStepRelease DEF Step
<1> QED  BY <1>1, <1>2, <1>3, <1>4, <1>5 DEF IInv

LEMMA NextInv == IInv /\ [Next]_vars => IInv'
<1> SUFFICES ASSUME IInv, [Next]_vars PROVE IInv'
  OBVIOUS
<1>1. CASE UNCHANGED vars
  BY <1>1, StutterStep
<1>2. ASSUME NEW n \in Sizes, SetSize(n) PROVE IInv'
  BY <1>2, SetSizeStep
<1>3. ASSUME NEW f \in File, Step(f) PROVE IInv'
  BY <1>3, FileStep
<1> QED  BY <1>1, <1>2, <1>3, NextIs

LEMMA Invariant == Spec => []IInv
<1> QED  BY InitInv, NextInv, PTL DEF Spec

(***************************************************************************)
(* scull_p_open and scull_p_release: whatever sizes the module's parameter *)
(* takes between two opens, pointers and counters are in their ranges, the *)
(* buffer is there for all who have the pipe open and gone after the last. *)
(***************************************************************************)
THEOREM PipeBelongsToUsers == Spec => []BufferOfUsers
<1>1. IInv => BufferOfUsers
  BY Ranges DEF IInv, UsersInv, BufferOfUsers
<1> QED  BY <1>1, Invariant, PTL

(***************************************************************************)
(* scull_p_read, scull_p_write, scull_getwritespace and scull_p_poll look  *)
(* at the pointers without the lock after they joined a wait queue: for    *)
(* any number of readers, writers and pollers, nobody sleeps through the   *)
(* wake-up that is due.                                                    *)
(***************************************************************************)
THEOREM PipeLosesNoWakeup == Spec => []NoLostWakeup
<1>1. IInv => NoLostWakeup
  BY DEF IInv
<1> QED  BY <1>1, Invariant, PTL

-----------------------------------------------------------------------------
(***************************************************************************)
(* The FIFO in the ring: from rp on, around the end, as many as Held.      *)
(***************************************************************************)
BytesInv == bytes \in [0 .. Largest - 1 -> Byte]

Queue == [i \in 1 .. Held |-> bytes[(rp + i - 1) % buffersize]]

Place(i) == IF rp + i - 1 < buffersize THEN rp + i - 1 ELSE rp + i - 1 - buffersize

LEMMA LargestIs == Largest \in Nat \ {0, 1} /\ \A k \in Sizes : k <= Largest
  BY SizesAssumption DEF Largest

LEMMA HeldCases ==
    ASSUME NEW n \in Nat \ {0}, NEW r \in 0 .. n, NEW w \in 0 .. n, w = n => r # 0
    PROVE  (w + n - r) % n = IF r <= w THEN w - r ELSE w + n - r
<1>1. w + n - r \in 0 .. 2 * n
  OBVIOUS
<1>2. (w + n - r) % n = IF w + n - r < n THEN w + n - r
                        ELSE IF w + n - r < 2 * n THEN w + n - r - n ELSE 0
  <2>1. \A x \in 0 .. 2 * n : x % n = IF x < n THEN x ELSE IF x < 2 * n THEN x - n ELSE 0
    BY ModCases
  <2> QED  BY <1>1, <2>1
<1>3. CASE r <= w
  BY <1>2, <1>3
<1>4. CASE ~(r <= w)
  BY <1>2, <1>4
<1> QED  BY <1>3, <1>4

LEMMA HeldIs ==
    TypeOK /\ PointersInv /\ allocated # 0 =>
        /\ Held = IF rp <= wp THEN wp - rp ELSE wp + buffersize - rp
        /\ Held \in Nat /\ Held < buffersize
        /\ \A i \in 1 .. buffersize : (rp + i - 1) % buffersize = Place(i)
<1> SUFFICES ASSUME TypeOK, PointersInv, allocated # 0
             PROVE  /\ Held = IF rp <= wp THEN wp - rp ELSE wp + buffersize - rp
                    /\ Held \in Nat /\ Held < buffersize
                    /\ \A i \in 1 .. buffersize : (rp + i - 1) % buffersize = Place(i)
  OBVIOUS
<1>1. /\ buffersize \in Nat \ {0} /\ rp \in 0 .. buffersize /\ wp \in 0 .. buffersize
      /\ wp = buffersize => rp # 0
  BY Ranges DEF TypeOK, PointersInv
<1>2. Held = IF rp <= wp THEN wp - rp ELSE wp + buffersize - rp
  BY <1>1, HeldCases DEF Held
<1>3. Held \in Nat /\ Held < buffersize
  BY <1>1, <1>2
<1>4. ASSUME NEW i \in 1 .. buffersize PROVE (rp + i - 1) % buffersize = Place(i)
  <2> DEFINE y == rp + i - 1
  <2>1. y \in 0 .. 2 * buffersize /\ y < 2 * buffersize
    BY <1>1
  <2>2. \A x \in 0 .. 2 * buffersize : x % buffersize =
            IF x < buffersize THEN x ELSE IF x < 2 * buffersize THEN x - buffersize ELSE 0
    BY <1>1, ModCases
  <2>3. Place(i) = IF y < buffersize THEN y ELSE y - buffersize
    BY <1>1 DEF Place
  <2> HIDE DEF y
  <2>4. y % buffersize = Place(i)
    BY <2>1, <2>2, <2>3
  <2> QED  BY <2>4 DEF y
<1> QED  BY <1>2, <1>3, <1>4

LEMMA QueueIs ==
    IInv /\ BytesInv =>
        /\ Held \in Nat /\ Held <= Largest - 1
        /\ Queue = [i \in 1 .. Held |-> bytes[Place(i)]]
        /\ \A i \in 1 .. Held : Place(i) \in 0 .. Largest - 1
        /\ Queue \in Seq(Byte) /\ Len(Queue) = Held
<1> SUFFICES ASSUME IInv, BytesInv
             PROVE  /\ Held \in Nat /\ Held <= Largest - 1
                    /\ Queue = [i \in 1 .. Held |-> bytes[Place(i)]]
                    /\ \A i \in 1 .. Held : Place(i) \in 0 .. Largest - 1
                    /\ Queue \in Seq(Byte) /\ Len(Queue) = Held
  OBVIOUS
<1>1. CASE allocated = 0
  <2>1. Held = 0
    BY <1>1 DEF Held
  <2>2. Queue = <<>> /\ [i \in 1 .. Held |-> bytes[Place(i)]] = <<>>
    BY <2>1 DEF Queue
  <2>3. <<>> \in Seq(Byte)
    OBVIOUS
  <2> QED  BY <2>1, <2>2, <2>3, LargestIs
<1>2. CASE allocated # 0
  <2>1. /\ rp \in Nat /\ buffersize \in Nat /\ rp <= buffersize /\ buffersize <= Largest
        /\ Largest \in Nat
    BY <1>2, Ranges, LargestIs DEF IInv, TypeOK, PointersInv
  <2>2. /\ Held \in Nat /\ Held < buffersize
        /\ \A i \in 1 .. buffersize : (rp + i - 1) % buffersize = Place(i)
    BY <1>2, HeldIs DEF IInv
  <2>3. \A i \in 1 .. Held : Place(i) \in 0 .. Largest - 1
    BY <2>1, <2>2 DEF Place
  <2>4. \A i \in 1 .. Held : i \in 1 .. buffersize
    BY <2>1, <2>2
  <2>5. Queue = [i \in 1 .. Held |-> bytes[Place(i)]]
    BY <2>2, <2>4 DEF Queue
  <2>6. Queue \in [1 .. Held -> Byte]
    BY <2>3, <2>5 DEF BytesInv
  <2>7. Queue \in Seq(Byte) /\ Len(Queue) = Held
    BY <2>2, <2>6
  <2> QED  BY <2>1, <2>2, <2>3, <2>5, <2>7
<1> QED  BY <1>1, <1>2

LEMMA QueueSame ==
    ASSUME UNCHANGED <<allocated, rp, wp, buffersize, bytes>>
    PROVE  Queue' = Queue
<1>1. Held' = Held
  BY DEF Held
<1> QED  BY <1>1 DEF Queue

LEMMA DataBytes ==
    ASSUME NEW d \in Data
    PROVE  d \in Seq(Byte) /\ Len(d) \in Nat /\ \A i \in 1 .. Len(d) : d[i] \in Byte
  BY DataAssumption

LEMMA BytesStep == ASSUME IInv, BytesInv, NEW f \in File, Step(f) PROVE BytesInv'
<1>1. CASE UNCHANGED bytes
  BY <1>1 DEF BytesInv
<1>2. CASE WriterMoves(f) /\ ~UNCHANGED bytes
  <2>1. PICK d \in Data : bytes' = Written(Writable(Len(d)), d) /\ pc[f] = "wcheck"
    BY <1>2 DEF WriterMoves
  <2>2. d \in Seq(Byte) /\ Len(d) \in Nat /\ \A i \in 1 .. Len(d) : d[i] \in Byte
    BY DataBytes
  <2>3. Writable(Len(d)) \in Nat /\ Writable(Len(d)) <= Len(d) /\ wp \in Nat
    BY <2>1, <2>2, WritableIs, Ranges DEF IInv
  <2>4. ASSUME NEW i \in 0 .. Largest - 1, i \in wp .. wp + Writable(Len(d)) - 1
        PROVE  i - wp + 1 \in 1 .. Len(d)
    BY <2>2, <2>3, <2>4
  <2> QED  BY <2>1, <2>2, <2>4 DEF BytesInv, Written
<1>3. Quiet(f) => UNCHANGED bytes
  BY QuietIs DEF IInv, QuietFacts
<1> QED  BY <1>1, <1>2, <1>3, MovesIs DEF Step, Release, Open, ReaderMoves

LEMMA SameSeq ==
    ASSUME NEW x \in Seq(Byte), NEW y \in Seq(Byte), Len(x) = Len(y),
           \A i \in 1 .. Len(x) : x[i] = y[i]
    PROVE  x = y
  OBVIOUS

LEMMA ByteOfSeq == \A s \in Seq(Byte) : \A i \in 1 .. Len(s) : s[i] \in Byte
  OBVIOUS

LEMMA CutSeq ==
    ASSUME NEW s \in Seq(Byte), NEW k \in 0 .. Len(s)
    PROVE  /\ Fifo!Take(s, k) \in Seq(Byte) /\ Len(Fifo!Take(s, k)) = k
           /\ \A i \in 1 .. k : Fifo!Take(s, k)[i] = s[i]
           /\ Fifo!Drop(s, k) \in Seq(Byte) /\ Len(Fifo!Drop(s, k)) = Len(s) - k
           /\ \A i \in 1 .. Len(s) - k : Fifo!Drop(s, k)[i] = s[k + i]
<1>1. Len(s) \in Nat /\ k \in Nat /\ k <= Len(s) /\ \A i \in 1 .. Len(s) : s[i] \in Byte
  OBVIOUS
<1>2. /\ SubSeq(s, 1, k) \in Seq(Byte) /\ Len(SubSeq(s, 1, k)) = k
      /\ \A i \in 1 .. k : SubSeq(s, 1, k)[i] = s[i]
  BY <1>1
<1>3. /\ SubSeq(s, k + 1, Len(s)) \in Seq(Byte) /\ Len(SubSeq(s, k + 1, Len(s))) = Len(s) - k
      /\ \A i \in 1 .. Len(s) - k : SubSeq(s, k + 1, Len(s))[i] = s[k + i]
  BY <1>1
<1> QED  BY <1>2, <1>3 DEF Fifo!Take, Fifo!Drop

LEMMA JoinSeq ==
    ASSUME NEW s \in Seq(Byte), NEW t \in Seq(Byte)
    PROVE  /\ s \o t \in Seq(Byte) /\ Len(s \o t) = Len(s) + Len(t)
           /\ \A i \in 1 .. Len(s) + Len(t) :
                (s \o t)[i] = IF i <= Len(s) THEN s[i] ELSE t[i - Len(s)]
  OBVIOUS

(***************************************************************************)
(* A read takes the bytes at the front.                                    *)
(***************************************************************************)
LEMMA ReadGets ==
    ASSUME IInv, BytesInv, IInv', BytesInv', NEW f \in File, pc[f] = "rcheck", rp # wp,
           UNCHANGED <<memVars, wp, bytes>>, NEW n \in Nat \ {0}, rp' = rp + Readable(n),
           got' = [i \in 1 .. Readable(n) |-> bytes[rp + i - 1]]
    PROVE  \E k \in 1 .. Len(Queue) : got' = Fifo!Take(Queue, k) /\ Queue' = Fifo!Drop(Queue, k)
<1> DEFINE k == Readable(n)
           q == Queue
<1>1. /\ allocated # 0 /\ allocated' = allocated /\ buffersize' = buffersize
      /\ rp \in Nat /\ wp \in Nat /\ buffersize \in Nat /\ rp < buffersize /\ wp < buffersize
  BY InBuffer, Ranges DEF IInv, UsersInv, PointersInv, Holding, memVars
<1>2. k \in Nat /\ k # 0 /\ rp + k <= buffersize /\ (wp > rp => rp + k <= wp)
  BY ReadableIs
<1> HIDE DEF k
<1>3. rp' = rp + k /\ got' = [i \in 1 .. k |-> bytes[rp + i - 1]]
  BY DEF k
<1>4. Held = IF rp <= wp THEN wp - rp ELSE wp + buffersize - rp
  BY <1>1, HeldIs DEF IInv
<1>5. Held' = IF rp + k <= wp THEN wp - (rp + k) ELSE wp + buffersize - (rp + k)
  <2>1. (TypeOK /\ PointersInv /\ allocated # 0 =>
            Held = IF rp <= wp THEN wp - rp ELSE wp + buffersize - rp)'
    BY HeldIs, PTL
  <2> QED  BY <1>1, <1>3, <2>1 DEF IInv
<1>6. k \in 1 .. Held /\ Held' = Held - k /\ Held \in Nat
  BY <1>1, <1>2, <1>4, <1>5
<1>7. /\ q = [i \in 1 .. Held |-> bytes[Place(i)]]
      /\ q \in Seq(Byte) /\ Len(q) = Held
  BY QueueIs
<1>8. /\ Queue' = [i \in 1 .. Held' |-> bytes[Place(i)']]
      /\ Queue' \in Seq(Byte) /\ Len(Queue') = Held'
  <2>1. (IInv /\ BytesInv => Queue = [i \in 1 .. Held |-> bytes[Place(i)]]
                             /\ Queue \in Seq(Byte) /\ Len(Queue) = Held)'
    BY QueueIs, PTL
  <2> QED  BY <2>1
<1> HIDE DEF q
<1>9. /\ k \in 0 .. Len(q) /\ k \in Nat
      /\ \A i \in 1 .. Held : q[i] = bytes[Place(i)] /\ q[i] \in Byte
  <2>1. k \in 0 .. Len(q) /\ k \in Nat
    BY <1>6, <1>7
  <2>2. \A i \in 1 .. Held : q[i] = bytes[Place(i)]
    BY <1>7
  <2>3. \A i \in 1 .. Held : q[i] \in Byte
    BY <1>7, ByteOfSeq
  <2> QED  BY <2>1, <2>2, <2>3
<1>10. got' = Fifo!Take(q, k)
  <2>1. \A i \in 1 .. k : i \in 1 .. Held /\ Place(i) = rp + i - 1
    BY <1>1, <1>2, <1>6 DEF Place
  <2> DEFINE g == [i \in 1 .. k |-> bytes[rp + i - 1]]
             t == Fifo!Take(q, k)
  <2>2. \A i \in 1 .. k : g[i] = q[i] /\ q[i] \in Byte
    BY <1>9, <2>1
  <2>3. g \in [1 .. k -> Byte]
    BY <2>2
  <2>4. t \in Seq(Byte) /\ Len(t) = k /\ \A i \in 1 .. k : t[i] = q[i]
    BY <1>7, <1>9, CutSeq
  <2> HIDE DEF g, t
  <2>5. g \in Seq(Byte) /\ Len(g) = k
    BY <1>9, <2>3
  <2>6. g = t
    BY <2>2, <2>4, <2>5, SameSeq
  <2> QED  BY <1>3, <2>6 DEF g, t
<1>11. Queue' = Fifo!Drop(q, k)
  <2>1. \A i \in 1 .. Held - k : k + i \in 1 .. Held /\ Place(i)' = Place(k + i)
    BY <1>1, <1>2, <1>3, <1>6, SMTT(30) DEF Place
  <2> DEFINE r == Queue'
             t == Fifo!Drop(q, k)
  <2>2. \A i \in 1 .. Held - k : r[i] = bytes[Place(i)']
    BY <1>6, <1>8
  <2>3. \A i \in 1 .. Held - k : r[i] = q[k + i]
    BY <1>9, <2>1, <2>2
  <2>4. t \in Seq(Byte) /\ Len(t) = Held - k /\ \A i \in 1 .. Held - k : t[i] = q[k + i]
    BY <1>7, <1>9, CutSeq, ZenonT(60)
  <2>5. r \in Seq(Byte) /\ Len(r) = Held - k
    BY <1>6, <1>8
  <2> HIDE DEF r, t
  <2>6. r = t
    BY <2>3, <2>4, <2>5, SameSeq
  <2> QED  BY <2>6 DEF r, t
<1> QED  BY <1>6, <1>7, <1>10, <1>11 DEF q

(***************************************************************************)
(* A write adds, at the end, as many of its first bytes as there is room   *)
(* for, and overwrites none that waits to be read.                         *)
(***************************************************************************)
LEMMA WritePlaces ==
    ASSUME IInv, NEW f \in File, pc[f] = "wcheck", NEW n \in Nat,
           NEW i \in 1 .. Held + Writable(n)
    PROVE  /\ i <= Held => Place(i) \notin wp .. wp + Writable(n) - 1
           /\ i > Held => Place(i) = wp + (i - Held) - 1
<1> DEFINE k == Writable(n)
<1>1. /\ allocated # 0
      /\ rp \in Nat /\ wp \in Nat /\ buffersize \in Nat /\ rp < buffersize /\ wp < buffersize
  BY InBuffer, Ranges DEF IInv, UsersInv, Holding
<1>2. k \in Nat /\ wp + k <= buffersize /\ k <= spacefree
  BY WritableIs
<1>3. spacefree = IF rp = wp THEN buffersize - 1
                  ELSE IF rp < wp THEN rp + buffersize - wp - 1 ELSE rp - wp - 1
  <2>1. buffersize # 0 /\ rp - wp < buffersize
    BY <1>1
  <2> QED  BY <2>1, SpaceIs DEF IInv
<1>4. Held = IF rp <= wp THEN wp - rp ELSE wp + buffersize - rp
  BY <1>1, HeldIs DEF IInv
<1> DEFINE sp == spacefree
           h  == Held
<1>5. /\ k <= sp /\ sp = IF rp = wp THEN buffersize - 1
                         ELSE IF rp < wp THEN rp + buffersize - wp - 1 ELSE rp - wp - 1
      /\ h = IF rp <= wp THEN wp - rp ELSE wp + buffersize - rp
      /\ i \in 1 .. h + k
  BY <1>2, <1>3, <1>4
<1> HIDE DEF k, sp, h
<1>6. h \in Nat
  BY <1>1, <1>5
<1>7. CASE rp <= wp
  <2>1. h = wp - rp
    BY <1>5, <1>7
  <2>2. Place(i) = rp + i - 1
    BY <1>1, <1>2, <1>5, <1>6, <1>7, <2>1 DEF Place
  <2>3. (i <= h => Place(i) \notin wp .. wp + k - 1) /\ (i > h => Place(i) = wp + (i - h) - 1)
    BY <1>1, <1>2, <1>5, <1>6, <2>1, <2>2
  <2> QED  BY <2>3 DEF h, k
<1>8. CASE ~(rp <= wp)
  <2>1. h = wp + buffersize - rp /\ k <= rp - wp - 1
    BY <1>1, <1>2, <1>5, <1>8
  <2>2. Place(i) = IF rp + i - 1 < buffersize THEN rp + i - 1 ELSE rp + i - 1 - buffersize
    BY DEF Place
  <2>3. (i <= h => Place(i) \notin wp .. wp + k - 1) /\ (i > h => Place(i) = wp + (i - h) - 1)
    BY <1>1, <1>2, <1>5, <1>6, <1>8, <2>1, <2>2
  <2> QED  BY <2>3 DEF h, k
<1> QED  BY <1>7, <1>8

LEMMA WriteRoom ==
    ASSUME IInv, NEW f \in File, pc[f] = "wcheck", NEW n \in Nat
    PROVE  Held + Writable(n) < buffersize
<1> DEFINE k  == Writable(n)
           sp == spacefree
           h  == Held
<1>1. /\ allocated # 0
      /\ rp \in Nat /\ wp \in Nat /\ buffersize \in Nat /\ rp < buffersize /\ wp < buffersize
  BY InBuffer, Ranges DEF IInv, UsersInv, Holding
<1>2. k \in Nat /\ k <= sp
  BY WritableIs
<1>3. sp = IF rp = wp THEN buffersize - 1
           ELSE IF rp < wp THEN rp + buffersize - wp - 1 ELSE rp - wp - 1
  <2>1. buffersize # 0 /\ rp - wp < buffersize
    BY <1>1
  <2> QED  BY <2>1, SpaceIs DEF IInv
<1>4. h = IF rp <= wp THEN wp - rp ELSE wp + buffersize - rp
  BY <1>1, HeldIs DEF IInv
<1> HIDE DEF k, sp, h
<1>5. h + k < buffersize
  BY <1>1, <1>2, <1>3, <1>4
<1> QED  BY <1>5 DEF h, k

LEMMA WritePuts ==
    ASSUME IInv, BytesInv, IInv', BytesInv', NEW f \in File, pc[f] = "wcheck",
           UNCHANGED <<memVars, rp>>, NEW d \in Data, wp' = wp + Writable(Len(d)),
           bytes' = Written(Writable(Len(d)), d)
    PROVE  \/ Queue' = Queue
           \/ \E k \in 1 .. Largest - 1 - Len(Queue) :
                k <= Len(d) /\ Queue' = Queue \o Fifo!Take(d, k)
<1> DEFINE k == Writable(Len(d))
           q == Queue
<1>0. d \in Seq(Byte) /\ Len(d) \in Nat /\ \A i \in 1 .. Len(d) : d[i] \in Byte
  BY DataBytes
<1>1. /\ allocated # 0 /\ allocated' = allocated /\ buffersize' = buffersize /\ rp' = rp
      /\ rp \in Nat /\ wp \in Nat /\ buffersize \in Nat /\ rp < buffersize /\ wp < buffersize
      /\ Largest \in Nat /\ buffersize <= Largest
  BY InBuffer, Ranges, LargestIs DEF IInv, UsersInv, TypeOK, Holding, memVars
<1>2. k \in Nat /\ wp + k <= buffersize /\ k <= Len(d) /\ Held + k < buffersize
  BY <1>0, WritableIs, WriteRoom
<1>3. \A i \in 1 .. Held + k : /\ i <= Held => Place(i) \notin wp .. wp + k - 1
                               /\ i > Held => Place(i) = wp + (i - Held) - 1
  BY <1>0, WritePlaces
<1> HIDE DEF k
<1>4. wp' = wp + k /\ bytes' = Written(k, d)
  BY DEF k
<1>5. Held = IF rp <= wp THEN wp - rp ELSE wp + buffersize - rp
  BY <1>1, HeldIs DEF IInv
<1>6. Held' = IF rp <= wp + k THEN wp + k - rp ELSE wp + k + buffersize - rp
  <2>1. (TypeOK /\ PointersInv /\ allocated # 0 =>
            Held = IF rp <= wp THEN wp - rp ELSE wp + buffersize - rp)'
    BY HeldIs, PTL
  <2>2. Held' = IF rp' <= wp' THEN wp' - rp' ELSE wp' + buffersize' - rp'
    BY <1>1, <2>1 DEF IInv
  <2>3. rp' = rp /\ wp' = wp + k /\ buffersize' = buffersize
    BY <1>1, <1>4
  <2> QED  BY <1>1, <1>2, <2>2, <2>3
<1>7. /\ Held \in Nat /\ q = [i \in 1 .. Held |-> bytes[Place(i)]]
      /\ q \in Seq(Byte) /\ Len(q) = Held
  BY QueueIs
<1>8. /\ Held' \in Nat /\ Held' < buffersize /\ Queue' = [i \in 1 .. Held' |-> bytes'[Place(i)']]
      /\ Queue' \in Seq(Byte) /\ Len(Queue') = Held'
      /\ \A i \in 1 .. Held' : Place(i)' \in 0 .. Largest - 1
  <2>1. (IInv /\ BytesInv => Queue = [i \in 1 .. Held |-> bytes[Place(i)]]
                             /\ (\A i \in 1 .. Held : Place(i) \in 0 .. Largest - 1)
                             /\ Queue \in Seq(Byte) /\ Len(Queue) = Held)'
    BY QueueIs, PTL
  <2>2. (TypeOK /\ PointersInv /\ allocated # 0 => Held \in Nat /\ Held < buffersize)'
    BY HeldIs, PTL
  <2> QED  BY <1>1, <2>1, <2>2 DEF IInv
<1>9. Held' = Held + k
  BY <1>1, <1>2, <1>5, <1>6, <1>8
<1>10. \A i \in 1 .. Held + k : Place(i)' = Place(i) /\ Place(i) \in 0 .. Largest - 1
  BY <1>1, <1>8, <1>9 DEF Place
<1>11. \A i \in 1 .. Held + k :
          Queue'[i] = IF i <= Held THEN bytes[Place(i)] ELSE d[i - Held]
  <2> SUFFICES ASSUME NEW i \in 1 .. Held + k
               PROVE  Queue'[i] = IF i <= Held THEN bytes[Place(i)] ELSE d[i - Held]
    OBVIOUS
  <2>1. Queue'[i] = bytes'[Place(i)]
    BY <1>8, <1>9, <1>10
  <2>2. bytes'[Place(i)] = IF Place(i) \in wp .. wp + k - 1 THEN d[Place(i) - wp + 1]
                           ELSE bytes[Place(i)]
    BY <1>4, <1>10 DEF Written, BytesInv
  <2>3. CASE i <= Held
    BY <1>3, <2>1, <2>2, <2>3
  <2>4. CASE ~(i <= Held)
    <3>1. /\ Place(i) = wp + (i - Held) - 1 /\ Place(i) \in wp .. wp + k - 1
          /\ Place(i) - wp + 1 = i - Held
      BY <1>1, <1>2, <1>3, <1>7, <2>4
    <3> QED  BY <2>1, <2>2, <2>4, <3>1
  <2> QED  BY <2>3, <2>4
<1> HIDE DEF q
<1>12. CASE k = 0
  <2>1. Held' = Held
    BY <1>7, <1>9, <1>12
  <2>2. \A i \in 1 .. Held : bytes'[Place(i)'] = bytes[Place(i)]
    <3>1. \A i \in 1 .. Held : i \in 1 .. Held + k /\ i <= Held /\ i \in 1 .. Held'
      BY <1>7, <1>12, <2>1
    <3> QED  BY <1>8, <1>11, <3>1
  <2>3. Queue' = q
    BY <1>7, <1>8, <2>1, <2>2
  <2> QED  BY <2>3 DEF q
<1>13. CASE k # 0
  <2>1. k \in 1 .. Largest - 1 - Len(q) /\ k \in 0 .. Len(d)
    BY <1>1, <1>2, <1>7, <1>13
  <2> DEFINE t == Fifo!Take(d, k)
             r == Queue'
             x == q \o t
  <2>2. t \in Seq(Byte) /\ Len(t) = k /\ \A i \in 1 .. k : t[i] = d[i]
    BY <1>0, <2>1, CutSeq
  <2> HIDE DEF t
  <2>3. /\ x \in Seq(Byte) /\ Len(x) = Held + k
        /\ \A i \in 1 .. Held + k : x[i] = IF i <= Held THEN q[i] ELSE t[i - Held]
    <3>1. /\ q \o t \in Seq(Byte) /\ Len(q \o t) = Len(q) + Len(t)
          /\ \A i \in 1 .. Len(q) + Len(t) :
                (q \o t)[i] = IF i <= Len(q) THEN q[i] ELSE t[i - Len(q)]
      BY <1>7, <2>2, JoinSeq
    <3> QED  BY <1>7, <2>2, <3>1
  <2>4. \A i \in 1 .. Held + k : x[i] = r[i]
    <3> SUFFICES ASSUME NEW i \in 1 .. Held + k PROVE x[i] = r[i]
      OBVIOUS
    <3>1. CASE i <= Held
      <4>1. i \in 1 .. Held
        BY <1>7, <3>1
      <4>2. q[i] = bytes[Place(i)]
        BY <1>7, <4>1
      <4> QED  BY <1>11, <2>3, <3>1, <4>2
    <3>2. CASE ~(i <= Held)
      <4>1. i - Held \in 1 .. k
        BY <1>2, <1>7, <3>2
      <4> QED  BY <1>11, <2>2, <2>3, <3>2, <4>1
    <3> QED  BY <3>1, <3>2
  <2>5. r \in Seq(Byte) /\ Len(r) = Held + k
    BY <1>8, <1>9
  <2> HIDE DEF r, x
  <2>6. r = x
    BY <2>3, <2>4, <2>5, SameSeq
  <2>7. Queue' = q \o Fifo!Take(d, k)
    BY <2>6 DEF r, x, t
  <2> QED  BY <1>2, <2>1, <2>7 DEF q
<1> QED  BY <1>12, <1>13

(***************************************************************************)
(* A pointer that wraps points to the same place in the ring.              *)
(***************************************************************************)
LEMMA WrapKeeps ==
    ASSUME IInv, BytesInv, IInv', BytesInv', NEW f \in File, pc[f] \in Holding,
           UNCHANGED <<memVars, bytes>>,
           \/ UNCHANGED <<rp, wp>>
           \/ UNCHANGED wp /\ pc[f] = "rwrap" /\ rp' = IF rp = buffersize THEN 0 ELSE rp
           \/ UNCHANGED rp /\ pc[f] = "wwrap" /\ wp' = IF wp = buffersize THEN 0 ELSE wp
    PROVE  Queue' = Queue
<1>1. /\ allocated # 0 /\ allocated' = allocated /\ buffersize' = buffersize /\ bytes' = bytes
      /\ rp \in Nat /\ wp \in Nat /\ buffersize \in Nat /\ rp <= buffersize /\ wp <= buffersize
      /\ (pc[f] = "rwrap" => wp < buffersize) /\ (pc[f] = "wwrap" => rp < buffersize)
      /\ (wp = buffersize => rp # 0)
  BY InBuffer, Ranges DEF IInv, UsersInv, PointersInv, Holding, memVars
<1>2. Held = IF rp <= wp THEN wp - rp ELSE wp + buffersize - rp
  BY <1>1, HeldIs DEF IInv
<1>3. Held' = IF rp' <= wp' THEN wp' - rp' ELSE wp' + buffersize - rp'
  <2>1. (TypeOK /\ PointersInv /\ allocated # 0 =>
            Held = IF rp <= wp THEN wp - rp ELSE wp + buffersize - rp)'
    BY HeldIs, PTL
  <2> QED  BY <1>1, <2>1 DEF IInv
<1>4. Held' = Held /\ Held \in Nat /\ Held < buffersize
  <2>1. Held \in Nat /\ Held < buffersize
    BY <1>1, HeldIs DEF IInv
  <2>2. CASE UNCHANGED <<rp, wp>>
    <3>1. rp' = rp /\ wp' = wp
      BY <2>2
    <3> QED  BY <1>1, <1>2, <1>3, <2>1, <3>1
  <2>3. CASE UNCHANGED wp /\ pc[f] = "rwrap" /\ rp' = IF rp = buffersize THEN 0 ELSE rp
    BY <1>1, <1>2, <1>3, <2>3
  <2>4. CASE UNCHANGED rp /\ pc[f] = "wwrap" /\ wp' = IF wp = buffersize THEN 0 ELSE wp
    BY <1>1, <1>2, <1>3, <2>4
  <2> QED  BY <2>1, <2>2, <2>3, <2>4
<1>5. Queue = [i \in 1 .. Held |-> bytes[Place(i)]]
  BY QueueIs
<1>6. Queue' = [i \in 1 .. Held' |-> bytes[Place(i)']]
  <2>1. (IInv /\ BytesInv => Queue = [i \in 1 .. Held |-> bytes[Place(i)]])'
    BY QueueIs, PTL
  <2> QED  BY <1>1, <2>1
<1>7. \A i \in 1 .. Held : Place(i)' = Place(i)
  BY <1>1, <1>4 DEF Place
<1> QED  BY <1>4, <1>5, <1>6, <1>7

LEMMA OpenClears == ASSUME IInv, NEW f \in File, NEW m \in Modes, Open(f, m) PROVE Queue' = <<>>
<1>1. /\ rp' = 0 /\ wp' = 0 /\ buffersize' \in Nat \ {0} /\ allocated' # 0
  BY Ranges, SizesAssumption DEF IInv, TypeOK, Open
<1>2. Held' = (0 + buffersize' - 0) % buffersize'
  BY <1>1 DEF Held
<1>3. Held' = 0
  <2>1. \A n \in Nat \ {0} : (0 + n - 0) % n = 0
    BY HeldCases
  <2> QED  BY <1>1, <1>2, <2>1
<1> QED  BY <1>3 DEF Queue

LEMMA ReleaseClears ==
    ASSUME IInv, NEW f \in File, Release(f)
    PROVE  Queue' = <<>> \/ Queue' = Queue
<1>1. CASE allocated' = 0
  <2>1. Held' = 0
    BY <1>1 DEF Held
  <2> QED  BY <2>1 DEF Queue
<1>2. CASE allocated' # 0
  BY <1>2, QueueSame DEF Release
<1> QED  BY <1>1, <1>2

FifoNext == IF mode' # mode THEN Fifo!Clear ELSE Fifo!Put \/ Fifo!Get

LEMMA ReaderFifo ==
    ASSUME 0 \notin Count, IInv, BytesInv, IInv', BytesInv', NEW f \in File, ReaderMoves(f)
    PROVE  Fifo!Get \/ UNCHANGED <<Queue, got>>
<1>1. UNCHANGED <<memVars, wp, bytes>> /\ pc[f] \in Holding
  BY DEF ReaderMoves, Holding
<1>2. CASE UNCHANGED got /\ (\/ UNCHANGED rp
                             \/ pc[f] = "rwrap" /\ rp' = IF rp = buffersize THEN 0 ELSE rp)
  BY <1>1, <1>2, WrapKeeps
<1>3. CASE /\ pc[f] = "rcheck" /\ rp # wp
           /\ \E n \in Count : /\ rp' = rp + Readable(n)
                               /\ got' = [i \in 1 .. Readable(n) |-> bytes[rp + i - 1]]
  <2>1. PICK n \in Count : /\ rp' = rp + Readable(n)
                           /\ got' = [i \in 1 .. Readable(n) |-> bytes[rp + i - 1]]
    BY <1>3
  <2>2. n \in Nat \ {0}
    BY CountAssumption
  <2>3. \E k \in 1 .. Len(Queue) : got' = Fifo!Take(Queue, k) /\ Queue' = Fifo!Drop(Queue, k)
    BY <1>1, <1>3, <2>1, <2>2, ReadGets
  <2> QED  BY <2>3 DEF Fifo!Get, Queue
<1> QED  BY <1>2, <1>3 DEF ReaderMoves

LEMMA WriterFifo ==
    ASSUME IInv, BytesInv, IInv', BytesInv', NEW f \in File, WriterMoves(f)
    PROVE  Fifo!Put \/ UNCHANGED <<Queue, got>>
<1>1. UNCHANGED <<memVars, rp, got>> /\ pc[f] \in Holding
  BY DEF WriterMoves, Holding
<1>2. CASE UNCHANGED bytes /\ (\/ UNCHANGED wp
                               \/ pc[f] = "wwrap" /\ wp' = IF wp = buffersize THEN 0 ELSE wp)
  BY <1>1, <1>2, WrapKeeps
<1>3. CASE /\ pc[f] = "wcheck"
           /\ \E d \in Data : /\ wp' = wp + Writable(Len(d))
                              /\ bytes' = Written(Writable(Len(d)), d)
  <2>1. PICK d \in Data : /\ wp' = wp + Writable(Len(d))
                          /\ bytes' = Written(Writable(Len(d)), d)
    BY <1>3
  <2>2. \/ Queue' = Queue
        \/ \E k \in 1 .. Largest - 1 - Len(Queue) :
                k <= Len(d) /\ Queue' = Queue \o Fifo!Take(d, k)
    BY <1>1, <1>3, <2>1, WritePuts
  <2> QED  BY <1>1, <2>2 DEF Fifo!Put, Queue
<1> QED  BY <1>2, <1>3 DEF WriterMoves

LEMMA FifoStep ==
    ASSUME 0 \notin Count, IInv, BytesInv, IInv', BytesInv', [Next]_vars
    PROVE  [FifoNext]_(Fifo!vars)
<1>0. UNCHANGED <<Queue, got>> => UNCHANGED Fifo!vars
  BY DEF Fifo!vars, Queue
<1>1. CASE UNCHANGED vars
  BY <1>0, <1>1, QueueSame DEF vars, memVars
<1>2. ASSUME NEW n \in Sizes, SetSize(n) PROVE UNCHANGED <<Queue, got>>
  BY <1>2, QueueSame DEF SetSize
<1>3. ASSUME NEW f \in File, Quiet(f) PROVE UNCHANGED <<Queue, got>>
  <2>1. QuietFacts(f)
    BY <1>3, QuietIs DEF IInv
  <2> QED  BY <2>1, QueueSame DEF QuietFacts, memVars
<1>4. ASSUME NEW f \in File, Moves(f) PROVE [FifoNext]_(Fifo!vars)
  <2>1. mode' = mode
    BY <1>4, MovesIs DEF ReaderMoves, WriterMoves, memVars
  <2>2. Fifo!Put \/ Fifo!Get \/ UNCHANGED <<Queue, got>>
    BY <1>4, MovesIs, ReaderFifo, WriterFifo
  <2> QED  BY <1>0, <2>1, <2>2 DEF FifoNext
<1>5. ASSUME NEW f \in File, Release(f) PROVE [FifoNext]_(Fifo!vars)
  <2>1. mode' # mode
    <3>1. mode[f] # {} /\ mode'[f] = {}
      BY <1>5 DEF IInv, UsersInv, TypeOK, Release, Go, Modes
    <3> QED  BY <3>1
  <2>2. got' = got /\ (Queue' = <<>> \/ Queue' = Queue)
    BY <1>5, ReleaseClears DEF Release
  <2>3. Fifo!Clear \/ UNCHANGED <<Queue, got>>
    BY <2>2 DEF Fifo!Clear, Queue
  <2> QED  BY <1>0, <2>1, <2>3 DEF FifoNext
<1>6. ASSUME NEW f \in File, NEW m \in Modes, Open(f, m) PROVE [FifoNext]_(Fifo!vars)
  <2>1. mode' # mode
    <3>1. mode[f] = {} /\ mode'[f] = m /\ m # {}
      BY <1>6 DEF IInv, UsersInv, TypeOK, Open, Go, Modes
    <3> QED  BY <3>1
  <2>2. got' = got /\ Queue' = <<>>
    BY <1>6, OpenClears DEF Open
  <2>3. Fifo!Clear
    BY <2>2 DEF Fifo!Clear, Queue
  <2> QED  BY <2>1, <2>3 DEF FifoNext
<1> QED  BY <1>0, <1>1, <1>2, <1>3, <1>4, <1>5, <1>6, NextIs DEF Step

LEMMA BytesInit == Init => BytesInv
  BY DEF Init, BytesInv, Byte

LEMMA BytesNext == IInv /\ BytesInv /\ [Next]_vars => BytesInv'
<1> SUFFICES ASSUME IInv, BytesInv, [Next]_vars PROVE BytesInv'
  OBVIOUS
<1>1. CASE UNCHANGED vars
  BY <1>1 DEF vars, BytesInv
<1>2. ASSUME NEW n \in Sizes, SetSize(n) PROVE BytesInv'
  BY <1>2 DEF SetSize, BytesInv
<1>3. ASSUME NEW f \in File, Step(f) PROVE BytesInv'
  BY <1>3, BytesStep
<1> QED  BY <1>1, <1>2, <1>3, NextIs

(***************************************************************************)
(* scull_p_read and scull_p_write: for any number of files and any buffer  *)
(* sizes, what is read is what was written, in its order and once, in      *)
(* pieces around the end of the buffer; at most the largest size less one  *)
(* waits inside, and only open and close throw bytes away.  A read that    *)
(* asks for nothing is left out: it returns nothing, which no Get does.    *)
(***************************************************************************)
THEOREM PipeIsFifo == ASSUME 0 \notin Count PROVE Spec => ImplementsFifo
<1>1. Init => Fifo!Init
  <2>1. Init => Held = 0 /\ got = <<>>
    BY DEF Init, Held
  <2> QED  BY <2>1 DEF Fifo!Init
<1>2. IInv /\ BytesInv /\ IInv' /\ BytesInv' /\ [Next]_vars => [FifoNext]_(Fifo!vars)
  BY FifoStep
<1>3. Spec => []BytesInv
  BY BytesInit, BytesNext, Invariant, PTL DEF Spec
<1>4. Spec => Fifo!Init /\ [][FifoNext]_(Fifo!vars)
  BY <1>1, <1>2, <1>3, Invariant, PTL DEF Spec
<1> QED  BY <1>4 DEF ImplementsFifo, FifoNext
=============================================================================
