--------------------------- MODULE Devices_proofs ---------------------------
(***************************************************************************)
(* The drivers of MCDevices, for every value of its constants: each keeps  *)
(* its properties whatever the subject, because its variables change by its*)
(* own steps only.                                                         *)
(***************************************************************************)
EXTENDS MCDevices, FiniteSetTheorems, TLAPS

-----------------------------------------------------------------------------
(***************************************************************************)
(* The listings under /proc.  What keeps the list in place under a walk is *)
(* that the mutex of its device, and no other, is held for as long as the  *)
(* walk is at it; the place of the walk and what it has shown then go      *)
(* together.                                                               *)
(***************************************************************************)
ListsTypes ==
    /\ lister \in Lists!Drivers /\ lpc \in {"idle", "device", "lock", "walk"}
    /\ i \in 1 .. NDevices + 1 /\ at \in Nat \ {0} /\ count \in Nat /\ shown \in Nat
    /\ items \in [1 .. NDevices -> Seq(0 .. Qset \cup {None})]
    /\ gen \in [1 .. NDevices -> 0 .. MaxTrims] /\ owner \in [1 .. NDevices -> BOOLEAN]
    /\ freed \in BOOLEAN

WalkInPlace == lister # "scullmem" =>
    /\ ~freed /\ qs = None
    /\ lpc = "walk" => at \in 1 .. Len(items[i]) + 1 /\ shown = at - 1

ListsInv ==
    /\ ListsTypes
    /\ Lists!HoldsItsDevice
    /\ lpc \in {"lock", "walk"} => i \in 1 .. NDevices
    /\ WalkInPlace

LEMMA ListsSteps == Next => Lists!Next \/ UNCHANGED lists
BY DEF Next, OnlyDisk, OnlyMap, OnlyCache, OnlyTty, OnlyUsb, OnlyLoad, OnlySerial, OnlyMoving,
       OnlyQueue

LEMMA FreshIsList == Lists!Fresh \in Seq(0 .. Qset \cup {None})
<1>1. <<None>> \in Seq(0 .. Qset \cup {None}) /\ <<>> \in Seq(0 .. Qset \cup {None})
  OBVIOUS
<1> QED  BY <1>1 DEF Lists!Fresh

LEMMA ListsInit == Lists!Init => ListsInv
<1> SUFFICES ASSUME Lists!Init PROVE ListsInv
  OBVIOUS
<1>1. items \in [1 .. NDevices -> Seq(0 .. Qset \cup {None})]
  BY FreshIsList DEF Lists!Init, Lists!Device
<1>2. gen \in [1 .. NDevices -> 0 .. MaxTrims]
  BY ListsAssumption DEF Lists!Init, Lists!Device
<1>3. owner \in [1 .. NDevices -> BOOLEAN] /\ Lists!HoldsItsDevice
  BY DEF Lists!Init, Lists!Device, Lists!HoldsItsDevice
<1>4. i \in 1 .. NDevices + 1 /\ at \in Nat \ {0} /\ count \in Nat /\ shown \in Nat
  BY ListsAssumption DEF Lists!Init
<1> QED  BY <1>1, <1>2, <1>3, <1>4 DEF Lists!Init, ListsInv, ListsTypes, WalkInPlace, Lists!Drivers

(***************************************************************************)
(* The others, who wait for the mutex: AddItem, AddQuanta and Trim.        *)
(***************************************************************************)
LEMMA OthersLeaveTheWalk ==
    ASSUME ListsInv, NEW d \in Lists!Device, Lists!Others(d),
           NEW L \in Seq(0 .. Qset \cup {None}), items' = [items EXCEPT ![d] = L],
           gen' \in [1 .. NDevices -> 0 .. MaxTrims]
    PROVE  ListsInv'
<1>1. UNCHANGED <<lister, owner, lpc, i, at, qs, count, shown, freed>> /\ ~owner[d]
  BY DEF Lists!Others, Lists!Waits, Lists!listVars
<1>2. lpc = "walk" => i # d
  BY <1>1 DEF ListsInv, Lists!HoldsItsDevice
<1>3. ListsTypes'
  BY <1>1 DEF ListsInv, ListsTypes, Lists!Device
<1>4. WalkInPlace'
  BY <1>1, <1>2, ListsAssumption DEF ListsInv, ListsTypes, WalkInPlace, Lists!Device
<1> QED  BY <1>1, <1>3, <1>4 DEF ListsInv, Lists!HoldsItsDevice

LEMMA ListsOthers ==
    ASSUME ListsInv, NEW d \in Lists!Device, Lists!AddItem(d) \/ Lists!AddQuanta(d) \/ Lists!Trim(d)
    PROVE  ListsInv'
<1>1. items[d] \in Seq(0 .. Qset \cup {None}) /\ gen \in [1 .. NDevices -> 0 .. MaxTrims]
  BY DEF ListsInv, ListsTypes, Lists!Device
<1>2. CASE Lists!AddItem(d)
  <2>1. Append(items[d], None) \in Seq(0 .. Qset \cup {None})
    BY <1>1
  <2>2. items' = [items EXCEPT ![d] = Append(items[d], None)]
    BY <1>2 DEF Lists!AddItem
  <2> QED  BY <1>1, <1>2, <2>1, <2>2, OthersLeaveTheWalk DEF Lists!AddItem
<1>3. CASE Lists!AddQuanta(d)
  <2>1. PICK k \in 1 .. Len(items[d]), n \in 0 .. Qset : items' = [items EXCEPT ![d][k] = n]
    BY <1>3 DEF Lists!AddQuanta
  <2>2. [items[d] EXCEPT ![k] = n] \in Seq(0 .. Qset \cup {None})
    BY <1>1
  <2>3. items' = [items EXCEPT ![d] = [items[d] EXCEPT ![k] = n]]
    BY <2>1
  <2> QED  BY <1>1, <1>3, <2>2, <2>3, OthersLeaveTheWalk DEF Lists!AddQuanta
<1>4. CASE Lists!Trim(d)
  <2>1. gen' \in [1 .. NDevices -> 0 .. MaxTrims]
    BY <1>1, <1>4, ListsAssumption DEF Lists!Trim, Lists!Device
  <2> QED  BY <1>4, <2>1, FreshIsList, OthersLeaveTheWalk DEF Lists!Trim
<1> QED  BY <1>2, <1>3, <1>4

(***************************************************************************)
(* The listing itself.                                                     *)
(***************************************************************************)
LEMMA ListsOpenDone ==
    ASSUME ListsInv, Lists!Open \/ Lists!Done \/ Lists!ReadHead
    PROVE  ListsInv'
<1>1. UNCHANGED <<lister, items, gen, owner, at, freed>> /\ lpc # "walk" /\ lpc' # "walk"
  BY DEF Lists!Open, Lists!Done, Lists!ReadHead, Lists!devVars
<1>2. ListsTypes'
  BY <1>1, ListsAssumption, SMTT(30)
     DEF ListsInv, ListsTypes, Lists!Open, Lists!Done, Lists!ReadHead
<1>3. lpc' = "lock" => i' \in 1 .. NDevices
  BY ListsAssumption DEF ListsInv, ListsTypes, Lists!Open, Lists!Done, Lists!ReadHead
<1>4. WalkInPlace'
  BY <1>1 DEF ListsInv, WalkInPlace, Lists!Open, Lists!Done, Lists!ReadHead
<1> QED  BY <1>1, <1>2, <1>3, <1>4 DEF ListsInv, Lists!HoldsItsDevice

LEMMA ListsStart ==
    ASSUME ListsInv, Lists!Start
    PROVE  ListsInv'
<1>1. i \in 1 .. NDevices /\ ~owner[i] /\ lpc # "walk"
  BY ListsAssumption DEF Lists!Start, Lists!MayLock, ListsInv, ListsTypes
<1>2. items[i] \in Seq(0 .. Qset \cup {None}) /\ Len(items[i]) \in Nat
  BY <1>1 DEF ListsInv, ListsTypes
<1>3. UNCHANGED <<lister, items, gen, i>>
  BY DEF Lists!Start, Lists!devVars
<1>4. ListsTypes'
  BY <1>1, <1>2, <1>3 DEF ListsInv, ListsTypes, Lists!Start
<1>5. WalkInPlace'
  <2> SUFFICES ASSUME lister # "scullmem"
      PROVE  ~freed' /\ qs' = None /\ at' \in 1 .. Len(items'[i']) + 1 /\ shown' = at' - 1
    BY <1>3 DEF WalkInPlace
  <2>1. qs = None /\ ~freed
    BY DEF ListsInv, WalkInPlace
  <2>2. at' = 1 /\ shown' = 0 /\ ~freed' /\ qs' = None
    BY <2>1 DEF Lists!Start
  <2> QED  BY <1>2, <1>3, <2>2
<1>6. Lists!HoldsItsDevice'
  BY <1>1, <1>3 DEF ListsInv, ListsTypes, Lists!HoldsItsDevice, Lists!Start, Lists!Device
<1> QED  BY <1>1, <1>3, <1>4, <1>5, <1>6 DEF ListsInv

LEMMA ListsInterrupted ==
    ASSUME ListsInv, Lists!Interrupted
    PROVE  ListsInv'
<1>1. UNCHANGED <<lister, items, gen, owner, at, freed>> /\ lpc # "walk" /\ lpc' = "idle"
  BY DEF Lists!Interrupted, Lists!MayLock, Lists!devVars
<1>2. ListsTypes'
  BY <1>1, ListsAssumption DEF ListsInv, ListsTypes, Lists!Interrupted
<1>3. WalkInPlace'
  BY <1>1 DEF ListsInv, WalkInPlace, Lists!Interrupted
<1> QED  BY <1>1, <1>2, <1>3 DEF ListsInv, Lists!HoldsItsDevice

LEMMA ListsItem ==
    ASSUME ListsInv, Lists!ItemOfScull \/ Lists!ItemOfPages
    PROVE  ListsInv'
<1>1. UNCHANGED <<lister, items, gen, owner, lpc, i, qs, freed>> /\ lpc = "walk"
      /\ at <= Len(items[i]) /\ at' = at + 1 /\ shown' = shown + 1
  BY DEF Lists!ItemOfScull, Lists!ItemOfPages, Lists!devVars
<1>2. i \in 1 .. NDevices /\ items[i] \in Seq(0 .. Qset \cup {None}) /\ Len(items[i]) \in Nat
  BY <1>1 DEF ListsInv, ListsTypes
<1>3. Lists!QuantaOf(i, at) \in Nat
  BY <1>2, ListsAssumption DEF Lists!QuantaOf, ListsInv, ListsTypes
<1>4. count' \in Nat
  <2> HIDE DEF Lists!QuantaOf
  <2>1. CASE Lists!ItemOfScull
    BY <1>3, <2>1 DEF Lists!ItemOfScull, ListsInv, ListsTypes
  <2>2. CASE Lists!ItemOfPages
    BY <1>3, <2>2, ListsAssumption
    DEF Lists!ItemOfPages, Lists!Cut, Lists!Limit, ListsInv, ListsTypes
  <2> QED  BY <2>1, <2>2
<1>5. ListsTypes'
  BY <1>1, <1>4 DEF ListsInv, ListsTypes
<1>6. WalkInPlace'
  BY <1>1, <1>2 DEF ListsInv, ListsTypes, WalkInPlace
<1> QED  BY <1>1, <1>2, <1>5, <1>6 DEF ListsInv, Lists!HoldsItsDevice

LEMMA ListsOut ==
    ASSUME ListsInv, Lists!Out
    PROVE  ListsInv'
<1>1. UNCHANGED <<lister, items, gen, qs, count, freed>> /\ lpc = "walk" /\ lpc' = "device"
  BY DEF Lists!Out, Lists!devVars
<1>2. i \in 1 .. NDevices /\ i' = i + 1
  BY <1>1 DEF ListsInv, Lists!Out
<1>3. ListsTypes'
  <2>1. owner' \in [1 .. NDevices -> BOOLEAN]
    BY <1>2 DEF ListsInv, ListsTypes, Lists!Out, Lists!Unlocked
  <2>2. i' \in 1 .. NDevices + 1 /\ at' \in Nat \ {0} /\ shown' \in Nat
    BY <1>2, ListsAssumption DEF Lists!Out
  <2> QED  BY <1>1, <2>1, <2>2 DEF ListsInv, ListsTypes
<1>4. WalkInPlace'
  BY <1>1 DEF ListsInv, WalkInPlace
<1>5. Lists!HoldsItsDevice'
  BY <1>1, <1>2
  DEF ListsInv, ListsTypes, Lists!HoldsItsDevice, Lists!Out, Lists!Unlocked, Lists!Device
<1> QED  BY <1>1, <1>3, <1>4, <1>5 DEF ListsInv

LEMMA ListsKept ==
    ASSUME ListsInv, Next
    PROVE  ListsInv'
<1>1. CASE UNCHANGED lists
  BY <1>1 DEF lists, ListsInv, ListsTypes, WalkInPlace, Lists!HoldsItsDevice
<1>2. CASE Lists!Next
  BY <1>2, ListsOthers, ListsOpenDone, ListsStart, ListsInterrupted, ListsItem, ListsOut
  DEF Lists!Next, Lists!ScullRead, Lists!ScullSeq, Lists!ScullPipe, Lists!PagesRead,
      Lists!ScullpRead, Lists!ScullvRead, Lists!ScullcRead, Lists!SculldRead
<1> QED  BY <1>1, <1>2, ListsSteps

LEMMA ListsInvSays == ListsInv => ListsUnderMutex
<1> SUFFICES ASSUME ListsInv PROVE ListsUnderMutex
  OBVIOUS
<1>1. Lists!TypeOK
  BY DEF ListsInv, ListsTypes, Lists!TypeOK, Lists!Device
<1>2. Lists!ShowsTheList
  BY DEF ListsInv, ListsTypes, WalkInPlace, Lists!ShowsTheList
<1> QED  BY <1>1, <1>2 DEF ListsInv, ListsUnderMutex

(***************************************************************************)
(* A listing under /proc holds the mutex of the device it is at, and of no *)
(* other, on every way out; and what it shows is the device's list, which  *)
(* nobody trims or extends meanwhile (scullp_read_procmem,                 *)
(* scull_read_procmem, scull_seq_show, scull_read_p_mem).                  *)
(***************************************************************************)
THEOREM ListingsHoldTheMutex == Spec => []ListsUnderMutex
<1>1. Init => ListsInv
  BY ListsInit DEF Init
<1>2. ListsInv /\ UNCHANGED vars => ListsInv'
  BY DEF vars, lists, ListsInv, ListsTypes, WalkInPlace, Lists!HoldsItsDevice
<1>3. ListsInv /\ [Next]_vars => ListsInv'
  BY <1>2, ListsKept
<1> QED  BY <1>1, <1>3, ListsInvSays, PTL DEF Spec

-----------------------------------------------------------------------------
(***************************************************************************)
(* tiny_tty.  The count is that of the processes that have the port open   *)
(* because a close finds the structure exactly if its open did: whoever    *)
(* holds the lock of the tty has cleared driver_data, and sets it again    *)
(* before letting go, unless there is no memory; then nobody else may have *)
(* the port open, or the close that follows would count down another's.    *)
(***************************************************************************)
TtyCalls == {"store", "set", "answered", "oops", "stuck"}
Bits     == SUBSET {"DTR", "RTS"}

TtyTypes(T) ==
    /\ tiny \in {"null", "made", "freed"} /\ mcr \in Bits
    /\ pending \in BOOLEAN /\ handler \in BOOLEAN /\ status \in {"up", "down", "broken"}
    /\ core \in [lock : T.process \cup {None}, tty : BOOLEAN, data : BOOLEAN, made : 0 .. MaxTty]
    /\ tpc \in [T.process -> {"closed", "opening", "failed", "open"} \cup TtyCalls]

TtyCallsMade(T) ==
    /\ call = [p \in T.process |-> [set |-> call[p].set, clear |-> call[p].clear,
                                    mcr |-> call[p].mcr, answer |-> call[p].answer]]
    /\ \A p \in T.process : call[p].mcr \in Bits

TtyUsers(T) == {p \in T.process : tpc[p] \in {"open"} \cup TtyCalls}

TtyLock(T) ==
    /\ \A p \in T.process : tpc[p] = "opening" <=> core.lock = p
    /\ core.lock = None /\ TtyUsers(T) # {} => core.data
    /\ core.lock # None => ~core.data
    /\ \A p \in T.process : tpc[p] = "failed" => T.nomem /\ ~core.data

TtyFed(T) == status = "up" /\ TtyUsers(T) # {} => pending \/ handler

TtyInv(T) ==
    /\ TtyTypes(T) /\ TtyCallsMade(T) /\ TtyLock(T) /\ TtyFed(T)
    /\ open_count = Cardinality(TtyUsers(T))

(***************************************************************************)
(* What is asked of the processes: a port that may find no memory has one. *)
(***************************************************************************)
TtySetting(T) ==
    /\ IsFiniteSet(T.process) /\ None \notin T.process /\ T.nomem \in BOOLEAN
    /\ T.nomem => \A p, q \in T.process : p = q

LEMMA TtySettings == \A t \in DOMAIN Ttys : TtySetting(Ttys[t])
<1>1. IsFiniteSet({p1})
  BY FS_Singleton
<1>2. DOMAIN Ttys = {"tty", "nomem"}
  BY DEF Ttys
<1>3. Ttys["tty"].process = Process /\ Ttys["tty"].nomem = FALSE
  BY DEF Ttys
<1>4. Ttys["nomem"].process = {p1} /\ Ttys["nomem"].nomem = TRUE
  BY DEF Ttys
<1>5. TtySetting(Ttys["tty"])
  BY <1>3, TtyAssumption DEF TtySetting
<1>6. TtySetting(Ttys["nomem"])
  BY <1>1, <1>4, TtyAssumption DEF TtySetting
<1> QED  BY <1>2, <1>5, <1>6

LEMMA TtyUsersFinite ==
    ASSUME NEW T, TtySetting(T)
    PROVE  /\ IsFiniteSet(TtyUsers(T)) /\ Cardinality(TtyUsers(T)) \in Nat
           /\ Cardinality(TtyUsers(T)) <= Cardinality(T.process)
           /\ Cardinality(TtyUsers(T)) = 0 <=> TtyUsers(T) = {}
<1>1. TtyUsers(T) \subseteq T.process /\ IsFiniteSet(T.process)
  BY DEF TtyUsers, TtySetting
<1>2. IsFiniteSet(TtyUsers(T)) /\ Cardinality(TtyUsers(T)) <= Cardinality(T.process)
  BY <1>1, FS_Subset
<1> QED  BY <1>2, FS_CardinalityType, FS_EmptySet

LEMMA TtyInit == ASSUME NEW T, TtySetting(T), Tty(T)!Init PROVE TtyInv(T)
<1>1. TtyUsers(T) = {}
  BY DEF Tty!Init, TtyUsers, TtyCalls
<1>2. open_count = Cardinality(TtyUsers(T))
  BY <1>1, FS_EmptySet DEF Tty!Init
<1>3. TtyTypes(T)
  <2>1. core \in [lock : T.process \cup {None}, tty : BOOLEAN, data : BOOLEAN, made : 0 .. MaxTty]
    BY TtyAssumption DEF Tty!Init
  <2>2. tpc \in [T.process -> {"closed", "opening", "failed", "open"} \cup TtyCalls]
    BY DEF Tty!Init
  <2> QED  BY <2>1, <2>2 DEF Tty!Init, TtyTypes, Bits
<1>4. TtyCallsMade(T)
  BY DEF Tty!Init, TtyCallsMade, Tty!NoCall, Bits
<1>5. TtyLock(T)
  BY <1>1 DEF Tty!Init, TtyLock, TtySetting
<1> QED  BY <1>1, <1>2, <1>3, <1>4, <1>5 DEF TtyInv, TtyFed

(***************************************************************************)
(* tiny_open: the lock is taken, and let go of with memory or without.     *)
(***************************************************************************)
LEMMA TtyOpenClear ==
    ASSUME NEW T, TtySetting(T), TtyInv(T), NEW p \in T.process, Tty(T)!OpenClear(p)
    PROVE  TtyInv(T)'
<1>1. tpc[p] = "closed" /\ tpc' = [tpc EXCEPT ![p] = "opening"] /\ core.lock = None
      /\ core'.lock = p /\ core'.data = FALSE
      /\ UNCHANGED <<tiny, open_count, mcr, pending, handler, status, call>>
  BY DEF Tty!OpenClear, Tty!Go, Tty!portVars, Tty!timerVars
<1>2. TtyTypes(T)'
  BY <1>1, TtyAssumption DEF TtyInv, TtyTypes, Tty!OpenClear
<1>3. TtyUsers(T)' = TtyUsers(T)
  BY <1>1 DEF TtyInv, TtyTypes, TtyUsers, TtyCalls
<1>4. TtyLock(T)'
  BY <1>1, <1>3 DEF TtyInv, TtyTypes, TtyLock, TtySetting
<1> QED  BY <1>1, <1>2, <1>3, <1>4 DEF TtyInv, TtyFed, TtyCallsMade

LEMMA TtyOpenNomem ==
    ASSUME NEW T, TtySetting(T), TtyInv(T), NEW p \in T.process, Tty(T)!OpenNomem(p)
    PROVE  TtyInv(T)'
<1>1. tpc[p] = "opening" /\ tpc' = [tpc EXCEPT ![p] = "failed"] /\ T.nomem
      /\ core' = [core EXCEPT !.lock = None]
      /\ UNCHANGED <<tiny, open_count, mcr, pending, handler, status, call>>
  BY DEF Tty!OpenNomem, Tty!Go, Tty!portVars, Tty!timerVars
<1>2. T.process = {p}
  BY <1>1 DEF TtySetting
<1>3. TtyTypes(T)'
  BY <1>1 DEF TtyInv, TtyTypes
<1>4. TtyUsers(T) = {} /\ TtyUsers(T)' = {}
  BY <1>1, <1>2 DEF TtyInv, TtyTypes, TtyUsers, TtyCalls
<1>5. ~core.data
  BY <1>1 DEF TtyInv, TtyLock, TtySetting
<1>6. TtyLock(T)'
  BY <1>1, <1>2, <1>4, <1>5 DEF TtyInv, TtyTypes, TtyLock, TtySetting
<1> QED  BY <1>1, <1>3, <1>4, <1>6 DEF TtyInv, TtyFed, TtyCallsMade

LEMMA TtyOpenPort ==
    ASSUME NEW T, TtySetting(T), TtyInv(T), NEW p \in T.process, Tty(T)!OpenPort(p)
    PROVE  TtyInv(T)'
<1>1. /\ tpc[p] = "opening" /\ tpc' = [tpc EXCEPT ![p] = "open"] /\ status = "up"
      /\ tiny' = "made" /\ open_count' = open_count + 1
      /\ core' = [core EXCEPT !.lock = None, !.data = TRUE]
      /\ UNCHANGED <<handler, call>>
  BY DEF Tty!OpenPort, Tty!Go
<1>2. /\ pending' = (pending \/ open_count + 1 = 1) /\ status' \in {"up", "broken"}
      /\ mcr' \in Bits \/ mcr' = mcr
  BY <1>1 DEF Tty!OpenPort, Bits
<1>3. TtyTypes(T)'
  BY <1>1, <1>2 DEF TtyInv, TtyTypes
<1>4. TtyUsers(T)' = TtyUsers(T) \cup {p} /\ p \notin TtyUsers(T)
  BY <1>1 DEF TtyInv, TtyTypes, TtyUsers, TtyCalls
<1>5. open_count' = Cardinality(TtyUsers(T)')
  BY <1>1, <1>4, TtyUsersFinite, FS_AddElement DEF TtyInv
<1>6. TtyFed(T)'
  <2>1. CASE TtyUsers(T) = {}
    <3>1. open_count = 0
      BY <2>1, FS_EmptySet DEF TtyInv
    <3>2. open_count + 1 = 1
      BY <3>1
    <3> QED  BY <1>2, <3>2, Zenon DEF TtyFed
  <2>2. CASE TtyUsers(T) # {}
    BY <1>1, <1>2, <2>2 DEF TtyInv, TtyFed, TtyTypes
  <2> QED  BY <2>1, <2>2
<1>7. TtyLock(T)'
  <2>1. core.lock = p /\ ~core.data
    BY <1>1 DEF TtyInv, TtyLock, TtySetting
  <2>2. core'.lock = None /\ core'.data
    BY <1>1 DEF TtyInv, TtyTypes
  <2>3. \A q \in T.process : tpc'[q] # "opening"
    BY <1>1, <2>1 DEF TtyInv, TtyTypes, TtyLock
  <2>4. \A q \in T.process : tpc'[q] # "failed"
    BY <1>1 DEF TtyInv, TtyTypes, TtyLock, TtySetting
  <2> QED  BY <2>2, <2>3, <2>4 DEF TtyLock, TtySetting
<1> QED  BY <1>1, <1>3, <1>5, <1>6, <1>7 DEF TtyInv, TtyCallsMade

(***************************************************************************)
(* tiny_close and do_close, of a port that is open and of one whose open   *)
(* failed.                                                                 *)
(***************************************************************************)
LEMMA TtyCloseOpen ==
    ASSUME NEW T, TtySetting(T), TtyInv(T), NEW p \in T.process, Tty(T)!Close(p), tpc[p] = "open"
    PROVE  TtyInv(T)'
<1>1. /\ core.lock = None /\ tpc' = [tpc EXCEPT ![p] = "closed"] /\ status = "up"
      /\ UNCHANGED <<tiny, mcr, handler, status, call>>
  BY DEF Tty!Close, Tty!Go
<1>2. TtyUsers(T)' = TtyUsers(T) \ {p} /\ p \in TtyUsers(T)
  BY <1>1 DEF TtyInv, TtyTypes, TtyUsers, TtyCalls
<1>3. core.data
  BY <1>1, <1>2 DEF TtyInv, TtyLock
<1>4. open_count' = open_count - 1 /\ open_count # 0
      /\ pending' = (pending /\ ~(open_count > 0 /\ open_count - 1 <= 0))
  <2>1. open_count # 0
    BY <1>2, TtyUsersFinite DEF TtyInv
  <2> QED  BY <1>3, <2>1 DEF Tty!Close, Tty!DoClose, Tty!Closed, Tty!LastUser
<1>5. open_count' = Cardinality(TtyUsers(T)')
  BY <1>2, <1>4, TtyUsersFinite, FS_RemoveElement DEF TtyInv
<1>6. core' = core \/ (core' = [core EXCEPT !.tty = FALSE, !.data = FALSE]
                       /\ \A q \in T.process : tpc'[q] = "closed")
  BY DEF Tty!Close
<1>7. TtyTypes(T)'
  BY <1>1, <1>4, <1>6 DEF TtyInv, TtyTypes
<1>8. TtyFed(T)'
  <2> SUFFICES ASSUME TtyUsers(T)' # {} PROVE pending' \/ handler'
    BY DEF TtyFed
  <2>1. open_count' \in Nat /\ open_count' # 0
    <3>1. IsFiniteSet(TtyUsers(T)')
      BY <1>2, TtyUsersFinite, FS_RemoveElement
    <3> QED  BY <1>5, <3>1, FS_CardinalityType, FS_EmptySet
  <2>2. open_count \in Nat
    BY TtyUsersFinite DEF TtyInv
  <2>3. pending \/ handler
    BY <1>1, <1>2 DEF TtyInv, TtyFed
  <2>4. ~(open_count > 0 /\ open_count - 1 <= 0)
    BY <1>4, <2>1, <2>2
  <2>5. pending' = pending /\ handler' = handler
    BY <1>1, <1>4, <2>4 DEF TtyInv, TtyTypes
  <2> QED  BY <2>3, <2>5
<1>9. TtyLock(T)'
  <2>1. core'.lock = None
    BY <1>1, <1>6 DEF TtyInv, TtyTypes
  <2>2. \A q \in T.process : tpc'[q] \notin {"opening", "failed"}
    BY <1>1, <1>3 DEF TtyInv, TtyTypes, TtyLock, TtySetting
  <2>3. TtyUsers(T)' # {} => core'.data
    BY <1>3, <1>6 DEF TtyUsers, TtyCalls
  <2> QED  BY <2>1, <2>2, <2>3 DEF TtyLock, TtySetting
<1> QED  BY <1>1, <1>5, <1>7, <1>8, <1>9 DEF TtyInv, TtyCallsMade

LEMMA TtyCloseFailed ==
    ASSUME NEW T, TtySetting(T), TtyInv(T), NEW p \in T.process, Tty(T)!Close(p), tpc[p] = "failed"
    PROVE  TtyInv(T)'
<1>1. T.nomem /\ ~core.data /\ core.lock = None
  BY DEF TtyInv, TtyLock, Tty!Close
<1>2. /\ tpc' = [tpc EXCEPT ![p] = "closed"]
      /\ UNCHANGED <<tiny, open_count, mcr, pending, handler, status, call>>
  BY <1>1 DEF Tty!Close, Tty!Go
<1>3. core' = core \/ core' = [core EXCEPT !.tty = FALSE, !.data = FALSE]
  BY DEF Tty!Close
<1>4. TtyUsers(T)' = TtyUsers(T)
  BY <1>2 DEF TtyInv, TtyTypes, TtyUsers, TtyCalls
<1>5. TtyTypes(T)'
  BY <1>2, <1>3 DEF TtyInv, TtyTypes
<1>6. TtyUsers(T) = {}
  BY <1>1 DEF TtyInv, TtyLock
<1>7. TtyLock(T)'
  BY <1>1, <1>2, <1>3, <1>4, <1>6 DEF TtyInv, TtyTypes, TtyLock, TtySetting
<1> QED  BY <1>2, <1>4, <1>5, <1>7 DEF TtyInv, TtyFed, TtyCallsMade

(***************************************************************************)
(* The calls of an open port: a process that has the port open still has   *)
(* it, and nothing but mcr and what the call is about changes.             *)
(***************************************************************************)
LEMMA TtyInCall ==
    ASSUME NEW T, TtySetting(T), TtyInv(T), NEW p \in T.process,
           NEW to \in {"open"} \cup TtyCalls, tpc[p] \in {"open"} \cup TtyCalls,
           tpc' = [tpc EXCEPT ![p] = to], mcr' \in Bits, TtyCallsMade(T)',
           UNCHANGED <<tiny, open_count, pending, handler, core, status>>
    PROVE  TtyInv(T)'
<1>1. TtyTypes(T)'
  BY DEF TtyInv, TtyTypes
<1>2. TtyUsers(T)' = TtyUsers(T)
  BY DEF TtyInv, TtyTypes, TtyUsers
<1>3. TtyLock(T)'
  BY <1>2 DEF TtyInv, TtyTypes, TtyLock, TtyCalls
<1> QED  BY <1>1, <1>2, <1>3 DEF TtyInv, TtyFed

LEMMA TtySet ==
    ASSUME NEW T, TtySetting(T), TtyInv(T), NEW p \in T.process,
           Tty(T)!SetLoad(p) \/ Tty(T)!SetStore(p) \/ Tty(T)!Return(p)
    PROVE  TtyInv(T)'
<1>1. mcr \in Bits /\ call[p].mcr \in Bits
  BY DEF TtyInv, TtyTypes, TtyCallsMade
<1>2. CASE Tty(T)!SetLoad(p)
  <2>1. PICK s, c \in SUBSET Lines :
            call' = [call EXCEPT ![p] = [set |-> s, clear |-> c, mcr |-> mcr, answer |-> None]]
    BY <1>2 DEF Tty!SetLoad
  <2>2. TtyCallsMade(T)'
    BY <1>1, <2>1 DEF TtyInv, TtyCallsMade
  <2>3. PICK to \in {"store", "oops"} : tpc' = [tpc EXCEPT ![p] = to]
    BY <1>2 DEF Tty!SetLoad, Tty!Go
  <2>4. tpc[p] = "open" /\ mcr' = mcr
        /\ UNCHANGED <<tiny, open_count, pending, handler, core, status>>
    BY <1>2 DEF Tty!SetLoad, Tty!Go, Tty!portVars, Tty!timerVars
  <2> QED  BY <1>1, <2>2, <2>3, <2>4, TtyInCall DEF TtyCalls
<1>3. CASE Tty(T)!SetStore(p)
  <2>1. tpc[p] = "store" /\ tpc' = [tpc EXCEPT ![p] = "set"] /\ mcr' = Tty(T)!Mcr(call[p])
        /\ UNCHANGED <<call, tiny, open_count, pending, handler, core, status>>
    BY <1>3 DEF Tty!SetStore, Tty!Go, Tty!timerVars
  <2>2. mcr' \in Bits
    BY <1>1, <2>1 DEF Tty!Mcr, Bits
  <2>3. TtyCallsMade(T)'
    BY <2>1 DEF TtyInv, TtyCallsMade
  <2> QED  BY <2>1, <2>2, <2>3, TtyInCall DEF TtyCalls
<1>4. CASE Tty(T)!Return(p)
  <2>1. tpc[p] \in {"set", "answered"} /\ tpc' = [tpc EXCEPT ![p] = "open"]
        /\ call' = [call EXCEPT ![p] = Tty(T)!NoCall]
        /\ UNCHANGED <<mcr, tiny, open_count, pending, handler, core, status>>
    BY <1>4 DEF Tty!Return, Tty!Go, Tty!portVars, Tty!timerVars
  <2>2. TtyCallsMade(T)'
    BY <2>1 DEF TtyInv, TtyCallsMade, Tty!NoCall, Bits
  <2> QED  BY <1>1, <2>1, <2>2, TtyInCall DEF TtyCalls
<1> QED  BY <1>2, <1>3, <1>4

LEMMA TtyAnswer ==
    ASSUME NEW T, TtySetting(T), TtyInv(T), NEW p \in T.process, NEW a, Tty(T)!Answer(p, a)
    PROVE  TtyInv(T)'
<1>1. tpc[p] = "open" /\ tpc' = [tpc EXCEPT ![p] = "answered"]
      /\ call' = [call EXCEPT ![p].answer = a]
      /\ UNCHANGED <<mcr, tiny, open_count, pending, handler, core, status>>
  BY DEF Tty!Answer, Tty!Go, Tty!portVars, Tty!timerVars
<1>2. TtyCallsMade(T)'
  <2> DEFINE Made(c) == [set |-> c.set, clear |-> c.clear, mcr |-> c.mcr, answer |-> c.answer]
  <2>1. call = [q \in T.process |-> Made(call[q])] /\ \A q \in T.process : call[q].mcr \in Bits
    BY DEF TtyInv, TtyCallsMade
  <2> HIDE DEF Made
  <2>2. \A q \in T.process : call[q] = Made(call[q])
    <3>1. PICK f : f = [q \in T.process |-> Made(call[q])]
      OBVIOUS
    <3>2. \A q \in T.process : f[q] = Made(call[q])
      BY <3>1
    <3> QED  BY <2>1, <3>1, <3>2
  <2>3. PICK c : c = [call[p] EXCEPT !.answer = a]
    OBVIOUS
  <2>4. c = Made(c) /\ c.mcr = call[p].mcr
    <3>1. PICK w, x, y, z : call[p] = [set |-> w, clear |-> x, mcr |-> y, answer |-> z]
      BY <2>2 DEF Made
    <3>2. c = [set |-> w, clear |-> x, mcr |-> y, answer |-> a]
      BY <2>3, <3>1
    <3> QED  BY <3>1, <3>2 DEF Made
  <2>5. DOMAIN call = T.process
    BY <2>1
  <2>6. /\ \A q \in T.process : call'[q] = IF q = p THEN c ELSE call[q]
        /\ DOMAIN call' = T.process /\ call' = [q \in T.process |-> call'[q]]
    BY <1>1, <2>3, <2>5
  <2>7. \A q \in T.process : call'[q] = Made(call'[q]) /\ call'[q].mcr \in Bits
    BY <2>1, <2>2, <2>4, <2>6
  <2>8. call' = [q \in T.process |-> Made(call'[q])]
    BY <2>6, <2>7
  <2> QED  BY <2>7, <2>8 DEF TtyCallsMade, Made
<1>3. mcr \in Bits
  BY DEF TtyInv, TtyTypes
<1> QED  BY <1>1, <1>2, <1>3, TtyInCall DEF TtyCalls

LEMMA TtyAstray ==
    ASSUME NEW T, TtySetting(T), TtyInv(T), NEW p \in T.process,
           Tty(T)!TiocmWait(p) \/ Tty(T)!NullCall(p)
    PROVE  TtyInv(T)'
<1>1. PICK to \in {"oops", "stuck"} : tpc[p] = "open" /\ tpc' = [tpc EXCEPT ![p] = to]
  BY DEF Tty!TiocmWait, Tty!NullCall, Tty!Go
<1>2. UNCHANGED <<mcr, call, tiny, open_count, pending, handler, core, status>>
  BY DEF Tty!TiocmWait, Tty!NullCall, Tty!portVars, Tty!timerVars
<1>3. mcr \in Bits /\ TtyCallsMade(T)'
  BY <1>2 DEF TtyInv, TtyTypes, TtyCallsMade
<1> QED  BY <1>1, <1>2, <1>3, TtyInCall DEF TtyCalls

(***************************************************************************)
(* The timer, and tiny_exit.                                               *)
(***************************************************************************)
LEMMA TtyTimerExit ==
    ASSUME NEW T, TtySetting(T), TtyInv(T), Tty(T)!TimerFires \/ Tty(T)!TimerAgain \/ Tty(T)!Exit
    PROVE  TtyInv(T)'
<1>1. UNCHANGED <<open_count, mcr, core, tpc, call>>
  BY DEF Tty!TimerFires, Tty!TimerAgain, Tty!Exit, Tty!portVars
<1>2. TtyUsers(T)' = TtyUsers(T)
  BY <1>1 DEF TtyUsers
<1>3. TtyTypes(T)'
  BY <1>1 DEF TtyInv, TtyTypes, Tty!TimerFires, Tty!TimerAgain, Tty!Exit, Tty!portVars
<1>4. TtyFed(T)'
  BY <1>2 DEF TtyInv, TtyFed, Tty!TimerFires, Tty!TimerAgain, Tty!Exit, Tty!portVars
<1> QED  BY <1>1, <1>2, <1>3, <1>4 DEF TtyInv, TtyLock, TtyCallsMade

LEMMA TtyKept ==
    ASSUME NEW T, TtySetting(T), TtyInv(T), Tty(T)!Next
    PROVE  TtyInv(T)'
<1>1. CASE Tty(T)!TimerFires \/ Tty(T)!TimerAgain \/ Tty(T)!Exit
  BY <1>1, TtyTimerExit
<1>2. ASSUME NEW p \in T.process, Tty(T)!Close(p) PROVE TtyInv(T)'
  <2>1. tpc[p] \in {"open", "failed"}
    BY <1>2 DEF Tty!Close, Tty!Go
  <2> QED  BY <1>2, <2>1, TtyCloseOpen, TtyCloseFailed
<1>3. ASSUME NEW p \in T.process,
             \/ Tty(T)!Write(p) \/ Tty(T)!WriteRoom(p) \/ Tty(T)!TiocmGet(p)
             \/ Tty(T)!TiocgCopy(p)
      PROVE  TtyInv(T)'
  <2>1. PICK a : Tty(T)!Answer(p, a)
    BY <1>3 DEF Tty!Write, Tty!WriteRoom, Tty!TiocmGet, Tty!TiocgCopy
  <2> QED  BY <2>1, TtyAnswer
<1> QED  BY <1>1, <1>2, <1>3, TtyOpenClear, TtyOpenNomem, TtyOpenPort, TtySet, TtyAstray
         DEF Tty!Next

LEMMA TtyStutters == ASSUME NEW T, TtyInv(T), UNCHANGED tty PROVE TtyInv(T)'
BY DEF tty, TtyInv, TtyTypes, TtyCallsMade, TtyLock, TtyFed, TtyUsers

LEMMA TtyCardinality == ASSUME NEW T, NEW S PROVE Tty(T)!Cardinality(S) = Cardinality(S)
BY DEF Cardinality, Tty!Cardinality

LEMMA TtyInvSays ==
    ASSUME NEW T, TtySetting(T), TtyInv(T)
    PROVE  Tty(T)!TypeOK /\ Tty(T)!CountsUsers /\ Tty(T)!FeedsOpenPort
<1>1. Tty(T)!Users = TtyUsers(T)
  BY DEF Tty!Users, Tty!InCall, TtyUsers, TtyCalls
<1>2. Tty(T)!CountsUsers
  BY <1>1, TtyCardinality DEF Tty!CountsUsers, TtyInv
<1>3. Tty(T)!FeedsOpenPort
  BY <1>1 DEF Tty!FeedsOpenPort, TtyInv, TtyFed
<1>4. open_count \in 0 .. Tty(T)!Cardinality(T.process)
  <2>1. open_count \in Nat /\ open_count <= Cardinality(T.process)
        /\ Cardinality(T.process) \in Nat
    BY TtyUsersFinite, FS_CardinalityType DEF TtyInv, TtySetting
  <2> QED  BY <2>1, TtyCardinality
<1>5. Tty(T)!TypeOK
  BY <1>4 DEF Tty!TypeOK, Tty!InCall, TtyCalls, TtyInv, TtyTypes, Bits
<1> QED  BY <1>2, <1>3, <1>5

-----------------------------------------------------------------------------
(***************************************************************************)
(* tiny_serial.  The timer of an open port is in the wheel, or the handler *)
(* is on its way to put it there.  The ring, of which one end is the       *)
(* writer's and the other the handler's, holds what is not sent, until a   *)
(* second open; the handler does not take from an empty one, though it     *)
(* looked without a lock, because nobody else takes.  A writer waits for   *)
(* room in an open port only, so that no open finds one.                   *)
(***************************************************************************)
SerialTypes(S) ==
    /\ made \in BOOLEAN /\ in_wheel \in BOOLEAN
    /\ running \in {"idle", "look", "add", "send", "take", "wake"}
    /\ chars \in -1 .. S.fifosize \div 2
    /\ open \in BOOLEAN /\ opens \in 0 .. MaxOpens /\ stopped \in BOOLEAN
    /\ buf \in [0 .. UART_XMIT_SIZE - 1 -> 0 .. UART_XMIT_SIZE]
    /\ head \in 0 .. UART_XMIT_SIZE - 1 /\ tail \in 0 .. UART_XMIT_SIZE - 1
    /\ x_char \in BOOLEAN /\ waiting \in BOOLEAN
    /\ health \in {"up", "timer added twice", "used after close", "not a port"}
    /\ next \in 0 .. UART_XMIT_SIZE /\ unsent \in Seq(0 .. UART_XMIT_SIZE) /\ mistaken \in BOOLEAN

(* How many characters are between the ends, and where the k-th of them is.*)
Unsent   == IF head >= tail THEN head - tail ELSE head + UART_XMIT_SIZE - tail
Place(k) == IF tail + k - 1 >= UART_XMIT_SIZE THEN tail + k - 1 - UART_XMIT_SIZE ELSE tail + k - 1

SerialTimer(S) ==
    /\ in_wheel \/ running # "idle" => made
    /\ running = "take" => chars >= 0
    /\ S.old /\ health = "up" /\ open => in_wheel \/ running \in {"look", "add"}

WaitsForRoom == waiting =>
    open /\ (health = "up" => Unsent >= WAKEUP_CHARS \/ running \in {"take", "wake"})

RingIsQueue == Len(unsent) = Unsent /\ \A k \in 1 .. Unsent : unsent[k] = buf[Place(k)]

SerialRing(S) ==
    /\ opens = 0 => running = "idle" /\ ~in_wheel /\ ~open
    /\ ~S.flushes /\ health = "up" /\ opens < 2 =>
        ~mistaken /\ (open => RingIsQueue /\ (running = "take" => Unsent > 0))

SerialInv(S) == SerialTypes(S) /\ SerialTimer(S) /\ WaitsForRoom /\ SerialRing(S)

SerialSetting(S) == S.old \in BOOLEAN /\ S.flushes \in BOOLEAN /\ S.fifosize \in Nat

LEMMA SerialSettings == \A s \in DOMAIN Serials : SerialSetting(Serials[s])
<1>1. DOMAIN Serials = {"serial", "later"}
  BY DEF Serials
<1>2. Serials["serial"] = [old |-> TRUE, flushes |-> FALSE, fifosize |-> Fifosize]
  BY DEF Serials
<1>3. Serials["later"] = [old |-> FALSE, flushes |-> TRUE, fifosize |-> 0]
  BY DEF Serials
<1>4. SerialSetting(Serials["serial"])
  BY <1>2, SerialAssumption DEF SerialSetting
<1>5. SerialSetting(Serials["later"])
  BY <1>3 DEF SerialSetting
<1> QED  BY <1>1, <1>4, <1>5

(***************************************************************************)
(* The modulo at the end of the ring, as a case split.                     *)
(***************************************************************************)
LEMMA RingCases ==
    ASSUME NEW S, SerialTypes(S)
    PROVE  /\ Serial(S)!After(head) = IF head = UART_XMIT_SIZE - 1 THEN 0 ELSE head + 1
           /\ Serial(S)!After(tail) = IF tail = UART_XMIT_SIZE - 1 THEN 0 ELSE tail + 1
           /\ Serial(S)!chars_pending = Unsent
           /\ Unsent \in 0 .. UART_XMIT_SIZE - 1
<1>1. \A n \in 0 .. UART_XMIT_SIZE - 1 : n % UART_XMIT_SIZE = n
  BY SerialAssumption
<1>2. \A n \in 0 .. UART_XMIT_SIZE - 1 : (n + UART_XMIT_SIZE) % UART_XMIT_SIZE = n
  BY SerialAssumption
<1>3. \A n \in 0 .. UART_XMIT_SIZE - 1 :
        (n + 1) % UART_XMIT_SIZE = IF n = UART_XMIT_SIZE - 1 THEN 0 ELSE n + 1
  <2> TAKE n \in 0 .. UART_XMIT_SIZE - 1
  <2>1. CASE n = UART_XMIT_SIZE - 1
    <3>1. (0 + UART_XMIT_SIZE) % UART_XMIT_SIZE = 0
      BY <1>2, SerialAssumption
    <3> QED  BY <2>1, <3>1, SerialAssumption
  <2>2. CASE n # UART_XMIT_SIZE - 1
    <3>1. n + 1 \in 0 .. UART_XMIT_SIZE - 1
      BY <2>2, SerialAssumption
    <3> QED  BY <1>1, <2>2, <3>1
  <2> QED  BY <2>1, <2>2
<1>4. head \in 0 .. UART_XMIT_SIZE - 1 /\ tail \in 0 .. UART_XMIT_SIZE - 1
  BY DEF SerialTypes
<1>5. Unsent \in 0 .. UART_XMIT_SIZE - 1
  BY <1>4, SerialAssumption DEF Unsent
<1>6. Serial(S)!chars_pending = Unsent
  <2>1. CASE head >= tail
    <3>1. head + UART_XMIT_SIZE - tail = Unsent + UART_XMIT_SIZE
      BY <1>4, <2>1, SerialAssumption DEF Unsent
    <3> QED  BY <1>2, <1>5, <3>1 DEF Serial!chars_pending
  <2>2. CASE ~(head >= tail)
    <3>1. head + UART_XMIT_SIZE - tail = Unsent
      BY <2>2 DEF Unsent
    <3> QED  BY <1>1, <1>5, <3>1 DEF Serial!chars_pending
  <2> QED  BY <2>1, <2>2
<1> QED  BY <1>3, <1>4, <1>5, <1>6 DEF Serial!After

LEMMA RingStarts ==
    <<>> \in Seq(0 .. UART_XMIT_SIZE) /\ 0 \in 0 .. UART_XMIT_SIZE - 1 /\ 0 \in 0 .. UART_XMIT_SIZE
BY SerialAssumption

LEMMA RingStartsEmpty == ASSUME head' = 0, tail' = 0, unsent' = <<>> PROVE RingIsQueue'
<1>1. Unsent' = 0
  BY DEF Unsent
<1> QED  BY <1>1 DEF RingIsQueue

LEMMA RingNotEmpty ==
    ASSUME NEW h \in 0 .. UART_XMIT_SIZE - 1, NEW t \in 0 .. UART_XMIT_SIZE - 1, h # t
    PROVE  (IF h >= t THEN h - t ELSE h + UART_XMIT_SIZE - t) > 0
BY SerialAssumption

LEMMA SerialInit == ASSUME NEW S, SerialSetting(S), Serial(S)!Init PROVE SerialInv(S)
<1>1. buf \in [0 .. UART_XMIT_SIZE - 1 -> 0 .. UART_XMIT_SIZE]
  BY SerialAssumption DEF Serial!Init
<1>2. 0 \in -1 .. S.fifosize \div 2
  BY DEF SerialSetting
<1>3. SerialTypes(S)
  <2>1. opens \in 0 .. MaxOpens /\ chars \in -1 .. S.fifosize \div 2
    BY <1>2, SerialAssumption DEF Serial!Init
  <2> QED  BY <1>1, <2>1, RingStarts DEF Serial!Init, SerialTypes
<1> QED  BY <1>3 DEF Serial!Init, SerialInv, SerialTimer, WaitsForRoom, SerialRing

(***************************************************************************)
(* tiny_startup and tiny_shutdown.                                         *)
(***************************************************************************)
LEMMA SerialStartUp ==
    ASSUME NEW S, SerialSetting(S), SerialInv(S), health = "up", Serial(S)!StartUp
    PROVE  SerialInv(S)'
<1>1. /\ ~open /\ open' = TRUE /\ opens < MaxOpens /\ opens' = opens + 1 /\ made' = TRUE
      /\ in_wheel' = TRUE /\ health' \in {"up", "timer added twice"}
      /\ head' = 0 /\ tail' = 0 /\ unsent' = <<>>
      /\ UNCHANGED <<running, chars, buf, next, mistaken, stopped, x_char, waiting>>
  BY DEF Serial!StartUp, Serial!Submits
<1>2. opens \in Nat /\ opens \in 0 .. MaxOpens
  BY SerialAssumption DEF SerialInv, SerialTypes
<1>3. SerialTypes(S)'
  <2>1. opens < MaxOpens /\ opens' = opens + 1
    BY <1>1
  <2>2. opens' \in 0 .. MaxOpens
    BY <1>2, <2>1, SerialAssumption
  <2> QED  BY <1>1, <2>2, RingStarts DEF SerialInv, SerialTypes
<1>4. SerialTimer(S)'
  BY <1>1 DEF SerialInv, SerialTimer
<1>5. WaitsForRoom'
  BY <1>1 DEF SerialInv, WaitsForRoom
<1>6. RingIsQueue'
  BY <1>1, RingStartsEmpty
<1>7. SerialRing(S)'
  <2>1. opens' # 0 /\ (opens' < 2 => opens = 0)
    <3>1. opens' = opens + 1
      BY <1>1
    <3> QED  BY <1>2, <3>1
  <2>2. opens = 0 => running = "idle" /\ (S.flushes \/ ~mistaken)
    BY DEF SerialInv, SerialRing
  <2>3. running' = running /\ mistaken' = mistaken
    BY <1>1
  <2> QED  BY <1>6, <2>1, <2>2, <2>3 DEF SerialRing
<1> QED  BY <1>3, <1>4, <1>5, <1>7 DEF SerialInv

LEMMA SerialStartUpNomem ==
    ASSUME NEW S, SerialSetting(S), SerialInv(S), health = "up", Serial(S)!StartUpNomem
    PROVE  SerialInv(S)'
<1>1. /\ ~open /\ opens < MaxOpens /\ opens' = opens + 1
      /\ UNCHANGED <<made, in_wheel, running, chars, buf, head, tail, next, unsent, mistaken,
                     open, stopped, x_char, waiting, health>>
  BY DEF Serial!StartUpNomem, Serial!timerVars, Serial!ringVars
<1>2. opens \in Nat /\ opens \in 0 .. MaxOpens
  BY SerialAssumption DEF SerialInv, SerialTypes
<1>3. SerialTypes(S)'
  BY <1>1, <1>2, SerialAssumption DEF SerialInv, SerialTypes
<1>4. SerialRing(S)'
  BY <1>1, <1>2 DEF SerialInv, SerialRing
<1> QED  BY <1>1, <1>3, <1>4 DEF SerialInv, SerialTimer, WaitsForRoom, Unsent

LEMMA SerialShutdown ==
    ASSUME NEW S, SerialSetting(S), SerialInv(S), health = "up", Serial(S)!Shutdown
    PROVE  SerialInv(S)'
<1>1. /\ open /\ ~waiting /\ open' = FALSE /\ stopped' = FALSE /\ x_char' = FALSE
      /\ in_wheel' = FALSE /\ unsent' = <<>>
      /\ UNCHANGED <<made, running, chars, buf, head, tail, next, mistaken, opens, waiting, health>>
  BY DEF Serial!Shutdown
<1>2. SerialTypes(S)'
  BY <1>1, RingStarts DEF SerialInv, SerialTypes
<1>3. SerialRing(S)'
  BY <1>1 DEF SerialInv, SerialRing
<1> QED  BY <1>1, <1>2, <1>3 DEF SerialInv, SerialTimer, WaitsForRoom

(***************************************************************************)
(* What the core and processes do meanwhile.                               *)
(***************************************************************************)
LEMMA SerialWrite ==
    ASSUME NEW S, SerialSetting(S), SerialInv(S), health = "up", Serial(S)!Write
    PROVE  SerialInv(S)'
<1>1. /\ open /\ ~waiting
      /\ UNCHANGED <<made, in_wheel, running, chars, tail, mistaken, open, opens, stopped, x_char,
                     health>>
  BY DEF Serial!Write, Serial!timerVars
<1>2. Unsent \in 0 .. UART_XMIT_SIZE - 1
      /\ Serial(S)!After(head) = (IF head = UART_XMIT_SIZE - 1 THEN 0 ELSE head + 1)
      /\ head \in 0 .. UART_XMIT_SIZE - 1 /\ tail \in 0 .. UART_XMIT_SIZE - 1
  BY RingCases DEF SerialInv, SerialTypes
<1>3. CASE Serial(S)!Full
  <2>1. waiting' = TRUE /\ UNCHANGED <<buf, head, next, unsent>>
    BY <1>3 DEF Serial!Write
  <2>2. Unsent = UART_XMIT_SIZE - 1
    BY <1>2, <1>3, SerialAssumption DEF Serial!Full, Unsent
  <2>3. Unsent' >= WAKEUP_CHARS
    BY <1>1, <2>1, <2>2, SerialAssumption DEF Unsent
  <2>4. SerialTypes(S)'
    BY <1>1, <2>1 DEF SerialInv, SerialTypes
  <2>5. SerialRing(S)'
    BY <1>1, <2>1 DEF SerialInv, SerialRing, RingIsQueue, Unsent, Place
  <2> QED  BY <1>1, <2>1, <2>3, <2>4, <2>5 DEF SerialInv, SerialTimer, WaitsForRoom
<1>4. CASE ~Serial(S)!Full
  <2>1. /\ buf' = [buf EXCEPT ![head] = next] /\ head' = Serial(S)!After(head)
        /\ next' = (next + 1) % (UART_XMIT_SIZE + 1) /\ unsent' = Append(unsent, next)
        /\ waiting' = waiting
    BY <1>4 DEF Serial!Write
  <2>2. head' \in 0 .. UART_XMIT_SIZE - 1 /\ head' # tail
    BY <1>2, <1>4, <2>1, SerialAssumption DEF Serial!Full
  <2>3. Unsent' = Unsent + 1
    BY <1>1, <1>2, <2>1, <2>2, SerialAssumption DEF Unsent
  <2>4. next' \in 0 .. UART_XMIT_SIZE
    <3>1. next + 1 \in Nat /\ UART_XMIT_SIZE + 1 \in Nat \ {0}
      BY SerialAssumption DEF SerialInv, SerialTypes
    <3>2. (next + 1) % (UART_XMIT_SIZE + 1) \in 0 .. UART_XMIT_SIZE
      BY <3>1, SerialAssumption
    <3> QED  BY <2>1, <3>2
  <2>5. SerialTypes(S)'
    BY <1>1, <1>2, <2>1, <2>2, <2>4 DEF SerialInv, SerialTypes
  <2>6. ASSUME RingIsQueue PROVE RingIsQueue'
    <3>1. Len(unsent') = Unsent' /\ Len(unsent) = Unsent /\ unsent \in Seq(0 .. UART_XMIT_SIZE)
      BY <2>1, <2>3, <2>6 DEF RingIsQueue, SerialInv, SerialTypes
    <3>2. Place(Unsent + 1) = head
      BY <1>2, SerialAssumption DEF Place, Unsent
    <3>3. \A k \in 1 .. Unsent : Place(k) \in 0 .. UART_XMIT_SIZE - 1 /\ Place(k) # head
      BY <1>2, SerialAssumption DEF Place, Unsent
    <3>4. \A k \in 1 .. Unsent + 1 : Place(k)' = Place(k)
      BY <1>1 DEF Place
    <3>5. unsent'[Unsent + 1] = next /\ \A k \in 1 .. Unsent : unsent'[k] = unsent[k]
      BY <1>2, <2>1, <3>1
    <3>6. buf'[head] = next /\ \A n \in 0 .. UART_XMIT_SIZE - 1 : n # head => buf'[n] = buf[n]
      BY <1>2, <2>1 DEF SerialInv, SerialTypes
    <3>7. ASSUME NEW k \in 1 .. Unsent' PROVE unsent'[k] = buf'[Place(k)']
      <4>1. CASE k = Unsent + 1
        BY <1>2, <3>2, <3>4, <3>5, <3>6, <4>1
      <4>2. CASE k # Unsent + 1
        <5>1. k \in 1 .. Unsent
          BY <1>2, <2>3, <4>2
        <5> QED  BY <2>6, <3>3, <3>4, <3>5, <3>6, <5>1 DEF RingIsQueue
      <4> QED  BY <4>1, <4>2
    <3> QED  BY <3>1, <3>7 DEF RingIsQueue
  <2>7. SerialRing(S)'
    BY <1>1, <1>2, <2>3, <2>6 DEF SerialInv, SerialRing
  <2> QED  BY <1>1, <2>1, <2>5, <2>7 DEF SerialInv, SerialTimer, WaitsForRoom
<1> QED  BY <1>3, <1>4

LEMMA SerialFlushFlow ==
    ASSUME NEW S, SerialSetting(S), SerialInv(S), health = "up",
           Serial(S)!Flush \/ Serial(S)!FlowControl
    PROVE  SerialInv(S)'
<1>1. CASE Serial(S)!Flush
  <2>1. /\ S.flushes /\ open /\ head' = 0 /\ tail' = 0 /\ unsent' = <<>> /\ waiting' = FALSE
        /\ UNCHANGED <<made, in_wheel, running, chars, buf, next, mistaken, open, opens, stopped,
                       x_char, health>>
    BY <1>1 DEF Serial!Flush, Serial!timerVars
  <2>2. SerialTypes(S)'
    BY <2>1, RingStarts DEF SerialInv, SerialTypes
  <2> QED  BY <2>1, <2>2 DEF SerialInv, SerialTimer, WaitsForRoom, SerialRing
<1>2. CASE Serial(S)!FlowControl
  <2>1. UNCHANGED <<made, in_wheel, running, chars, buf, head, tail, next, unsent, mistaken, open,
                    opens, waiting, health>>
    BY <1>2 DEF Serial!FlowControl, Serial!timerVars, Serial!ringVars
  <2>2. stopped' \in BOOLEAN /\ x_char' \in BOOLEAN
    BY <1>2 DEF Serial!FlowControl, SerialInv, SerialTypes
  <2> QED  BY <2>1, <2>2
           DEF SerialInv, SerialTypes, SerialTimer, WaitsForRoom, SerialRing, RingIsQueue, Unsent,
               Place
<1> QED  BY <1>1, <1>2

(***************************************************************************)
(* tiny_timer, up to tiny_tx_chars.                                        *)
(***************************************************************************)
LEMMA SerialTimerSteps ==
    ASSUME NEW S, SerialSetting(S), SerialInv(S), health = "up",
           Serial(S)!TimerFires \/ Serial(S)!Look \/ Serial(S)!LookAstray \/ Serial(S)!Feed
    PROVE  SerialInv(S)'
<1>1. /\ running \in {"idle", "look", "add"} /\ (running = "idle" => in_wheel)
      /\ UNCHANGED <<made, chars, buf, head, tail, next, unsent, mistaken, open, opens, stopped,
                     x_char, waiting>>
  BY DEF Serial!TimerFires, Serial!Look, Serial!LookAstray, Serial!Feed, Serial!Handler,
         Serial!ringVars, Serial!portVars
<1>2. /\ running' \in {"look", "add", "idle", "send"} /\ in_wheel' \in BOOLEAN
      /\ health' \in {"up", "timer added twice", "used after close", "not a port"}
      /\ S.old /\ health' = "up" /\ open => in_wheel' \/ running' \in {"look", "add"}
  BY DEF Serial!TimerFires, Serial!Look, Serial!LookAstray, Serial!Feed, Serial!Handler,
         SerialInv, SerialTypes, SerialTimer
<1>3. SerialTypes(S)'
  BY <1>1, <1>2 DEF SerialInv, SerialTypes
<1>4. SerialTimer(S)'
  BY <1>1, <1>2 DEF SerialInv, SerialTimer
<1>5. WaitsForRoom'
  BY <1>1 DEF SerialInv, WaitsForRoom, Unsent
<1>6. opens # 0
  BY <1>1 DEF SerialInv, SerialRing
<1>7. SerialRing(S)'
  BY <1>1, <1>2, <1>6 DEF SerialInv, SerialRing, RingIsQueue, Unsent, Place
<1> QED  BY <1>3, <1>4, <1>5, <1>7 DEF SerialInv

(***************************************************************************)
(* tiny_tx_chars.                                                          *)
(***************************************************************************)
LEMMA SerialSend ==
    ASSUME NEW S, SerialSetting(S), SerialInv(S), health = "up",
           Serial(S)!SendXChar \/ Serial(S)!SendNone \/ Serial(S)!SendFirst
    PROVE  SerialInv(S)'
<1>1. /\ running = "send" /\ running' \in {"idle", "take"}
      /\ x_char' \in BOOLEAN /\ chars' \in -1 .. S.fifosize \div 2
      /\ running' = "take" => chars' >= 0 /\ head # tail
      /\ UNCHANGED <<made, in_wheel, buf, head, tail, next, unsent, mistaken, open, opens, stopped,
                     waiting, health>>
  <2>1. PICK n \in Nat : n = S.fifosize \div 2
    BY DEF SerialSetting
  <2>2. chars \in -1 .. n
    BY <2>1 DEF SerialInv, SerialTypes
  <2>3. CASE Serial(S)!SendXChar \/ Serial(S)!SendNone
    BY <2>1, <2>2, <2>3 DEF Serial!SendXChar, Serial!SendNone, Serial!Handler, Serial!ringVars,
       Serial!portVars, SerialInv, SerialTypes
  <2>4. CASE Serial(S)!SendFirst
    BY <2>1, <2>2, <2>4 DEF Serial!SendFirst, Serial!Handler, Serial!Empty, Serial!ringVars,
       Serial!portVars, SerialInv, SerialTypes
  <2> QED  BY <2>3, <2>4
<1>2. SerialTypes(S)'
  BY <1>1 DEF SerialInv, SerialTypes
<1>3. SerialTimer(S)'
  BY <1>1 DEF SerialInv, SerialTimer
<1>4. WaitsForRoom'
  BY <1>1 DEF SerialInv, WaitsForRoom, Unsent
<1>5. running' = "take" => Unsent > 0
  BY <1>1, SerialAssumption DEF SerialInv, SerialTypes, Unsent
<1>6. opens # 0
  BY <1>1 DEF SerialInv, SerialRing
<1>7. SerialRing(S)'
  BY <1>1, <1>5, <1>6 DEF SerialInv, SerialRing, RingIsQueue, Unsent, Place
<1> QED  BY <1>2, <1>3, <1>4, <1>7 DEF SerialInv

LEMMA TakenInOrder ==
    ASSUME NEW S, SerialTypes(S), RingIsQueue, Unsent > 0,
           tail' = Serial(S)!After(tail), unsent' = Tail(unsent), UNCHANGED <<buf, head>>
    PROVE  RingIsQueue' /\ Unsent' = Unsent - 1 /\ unsent # <<>> /\ buf[tail] = Head(unsent)
<1>1. /\ tail' = IF tail = UART_XMIT_SIZE - 1 THEN 0 ELSE tail + 1
      /\ Unsent \in 0 .. UART_XMIT_SIZE - 1
      /\ head \in 0 .. UART_XMIT_SIZE - 1 /\ tail \in 0 .. UART_XMIT_SIZE - 1
      /\ unsent \in Seq(0 .. UART_XMIT_SIZE)
  BY RingCases DEF SerialTypes
<1>2. Unsent' = Unsent - 1
  BY <1>1, SerialAssumption DEF Unsent
<1>3. \A k \in 1 .. Unsent - 1 : Place(k)' = Place(k + 1)
  BY <1>1, SerialAssumption DEF Place
<1>4. Len(unsent) = Unsent /\ unsent # <<>>
  BY <1>1 DEF RingIsQueue
<1>5. Len(unsent') = Unsent - 1 /\ \A k \in 1 .. Unsent - 1 : unsent'[k] = unsent[k + 1]
  BY <1>1, <1>4
<1>6. \A k \in 1 .. Unsent - 1 : unsent[k + 1] = buf[Place(k + 1)]
  BY <1>1 DEF RingIsQueue
<1>7. RingIsQueue'
  BY <1>1, <1>2, <1>3, <1>5, <1>6 DEF RingIsQueue
<1>8. unsent[1] = buf[Place(1)] /\ Place(1) = tail
  BY <1>1, SerialAssumption DEF RingIsQueue, Place
<1> QED  BY <1>1, <1>2, <1>4, <1>7, <1>8

LEMMA SerialTake ==
    ASSUME NEW S, SerialSetting(S), SerialInv(S), health = "up", Serial(S)!Take
    PROVE  SerialInv(S)'
<1>1. /\ running = "take" /\ running' \in {"take", "wake"} /\ tail' = Serial(S)!After(tail)
      /\ running' = "take" => head # tail' /\ chars - 1 > 0
      /\ chars' = chars - 1
      /\ mistaken' = (mistaken \/ unsent = <<>> \/ buf[tail] # Head(unsent))
      /\ unsent' = IF unsent = <<>> THEN unsent ELSE Tail(unsent)
      /\ health' = IF open THEN "up" ELSE "used after close"
      /\ UNCHANGED <<made, in_wheel, buf, head, next, open, opens, stopped, x_char, waiting>>
  BY DEF Serial!Take, Serial!Handler, Serial!Empty, Serial!More, Serial!portVars
<1>2. tail' \in 0 .. UART_XMIT_SIZE - 1
  <2>1. tail' = (IF tail = UART_XMIT_SIZE - 1 THEN 0 ELSE tail + 1)
    BY <1>1, RingCases DEF SerialInv
  <2>2. tail \in 0 .. UART_XMIT_SIZE - 1
    BY DEF SerialInv, SerialTypes
  <2> QED  BY <2>1, <2>2, SerialAssumption
<1>3. unsent' \in Seq(0 .. UART_XMIT_SIZE)
  <2>1. unsent \in Seq(0 .. UART_XMIT_SIZE)
    BY DEF SerialInv, SerialTypes
  <2>2. unsent # <<>> => Tail(unsent) \in Seq(0 .. UART_XMIT_SIZE)
    BY <2>1
  <2> QED  BY <1>1, <2>1, <2>2
<1>4. chars' \in -1 .. S.fifosize \div 2 /\ (running' = "take" => chars' >= 0)
  <2>1. PICK n \in Nat : n = S.fifosize \div 2
    BY DEF SerialSetting
  <2>2. chars \in -1 .. n /\ chars >= 0
    BY <1>1, <2>1 DEF SerialInv, SerialTypes, SerialTimer
  <2>3. chars - 1 \in -1 .. n /\ (chars - 1 > 0 => chars - 1 >= 0)
    BY <2>2
  <2> QED  BY <1>1, <2>1, <2>3
<1>5. SerialTypes(S)'
  BY <1>1, <1>2, <1>3, <1>4 DEF SerialInv, SerialTypes
<1>6. SerialTimer(S)'
  BY <1>1, <1>4 DEF SerialInv, SerialTimer
<1>7. WaitsForRoom'
  BY <1>1 DEF SerialInv, WaitsForRoom
<1>8. opens # 0
  BY <1>1 DEF SerialInv, SerialRing
<1>9. ASSUME ~S.flushes, health' = "up", opens < 2
      PROVE  ~mistaken' /\ RingIsQueue' /\ (running' = "take" => Unsent' > 0)
  <2>1. open /\ RingIsQueue /\ Unsent > 0 /\ ~mistaken
    BY <1>1, <1>9 DEF SerialInv, SerialRing
  <2>2. unsent # <<>>
    BY <2>1 DEF RingIsQueue
  <2>3. SerialTypes(S) /\ unsent' = Tail(unsent)
    BY <1>1, <2>2 DEF SerialInv
  <2>4. RingIsQueue' /\ buf[tail] = Head(unsent)
    BY <1>1, <2>1, <2>3, TakenInOrder
  <2>5. running' = "take" => Unsent' > 0
    <3>1. head' = head /\ head \in 0 .. UART_XMIT_SIZE - 1 /\ (running' = "take" => head # tail')
      BY <1>1 DEF SerialInv, SerialTypes
    <3>2. head' # tail' => Unsent' > 0
      BY <1>2, <3>1, RingNotEmpty DEF Unsent
    <3> QED  BY <3>1, <3>2
  <2> QED  BY <1>1, <2>1, <2>2, <2>4, <2>5
<1>10. SerialRing(S)'
  BY <1>1, <1>8, <1>9 DEF SerialRing
<1> QED  BY <1>5, <1>6, <1>7, <1>10 DEF SerialInv

LEMMA SerialWake ==
    ASSUME NEW S, SerialSetting(S), SerialInv(S), health = "up", Serial(S)!Wake
    PROVE  SerialInv(S)'
<1>1. /\ running = "wake" /\ running' = "idle"
      /\ waiting' = (waiting /\ ~(Unsent < WAKEUP_CHARS))
      /\ UNCHANGED <<made, in_wheel, chars, buf, head, tail, next, unsent, mistaken, open, opens,
                     stopped, x_char, health>>
  BY RingCases DEF Serial!Wake, Serial!Handler, Serial!Few, Serial!ringVars, SerialInv
<1>2. SerialTypes(S)'
  BY <1>1 DEF SerialInv, SerialTypes
<1>3. SerialTimer(S)'
  BY <1>1 DEF SerialInv, SerialTimer
<1>4. Unsent \in Nat /\ Unsent' = Unsent
  BY <1>1, RingCases, SerialAssumption DEF SerialInv, Unsent
<1>5. WaitsForRoom'
  <2> SUFFICES ASSUME waiting' PROVE open' /\ Unsent' >= WAKEUP_CHARS
    BY DEF WaitsForRoom
  <2>1. waiting /\ ~(Unsent < WAKEUP_CHARS)
    BY <1>1
  <2>2. open'
    BY <1>1, <2>1 DEF SerialInv, WaitsForRoom
  <2>3. Unsent >= WAKEUP_CHARS
    BY <1>4, <2>1, SerialAssumption
  <2> QED  BY <1>4, <2>2, <2>3
<1>6. opens # 0
  BY <1>1 DEF SerialInv, SerialRing
<1>7. SerialRing(S)'
  BY <1>1, <1>6 DEF SerialInv, SerialRing, RingIsQueue, Unsent, Place
<1> QED  BY <1>2, <1>3, <1>5, <1>7 DEF SerialInv

LEMMA SerialKept ==
    ASSUME NEW S, SerialSetting(S), SerialInv(S), Serial(S)!Next
    PROVE  SerialInv(S)'
BY SerialStartUp, SerialStartUpNomem, SerialShutdown, SerialWrite, SerialFlushFlow,
   SerialTimerSteps, SerialSend, SerialTake, SerialWake DEF Serial!Next, Serial!Sending

LEMMA SerialStutters == ASSUME NEW S, SerialInv(S), UNCHANGED serial PROVE SerialInv(S)'
BY ZenonT(60)
   DEF serial, SerialInv, SerialTypes, SerialTimer, WaitsForRoom, SerialRing, RingIsQueue, Unsent,
       Place

LEMMA SerialInvSays ==
    ASSUME NEW S, SerialSetting(S), SerialInv(S)
    PROVE  /\ Serial(S)!TypeOK /\ Serial(S)!WriterWoken
           /\ S.old => Serial(S)!FeedsOpenPort
           /\ ~S.flushes => Serial(S)!SentInOrder
<1>1. Serial(S)!TypeOK
  BY DEF Serial!TypeOK, Serial!Char, SerialInv, SerialTypes, SerialTimer
<1>2. Serial(S)!WriterWoken
  BY RingCases DEF Serial!WriterWoken, SerialInv, WaitsForRoom
<1>3. S.old => Serial(S)!FeedsOpenPort
  BY DEF Serial!FeedsOpenPort, SerialInv, SerialTimer
<1>4. ~S.flushes => Serial(S)!SentInOrder
  BY DEF Serial!SentInOrder, SerialInv, SerialRing
<1> QED  BY <1>1, <1>2, <1>3, <1>4

-----------------------------------------------------------------------------
(***************************************************************************)
(* The two terminals together: which settings the port has is decided at   *)
(* the start.                                                              *)
(***************************************************************************)
PortsInv ==
    /\ \A t \in DOMAIN Ttys : subject = t => TtyInv(Ttys[t])
    /\ \A s \in DOMAIN Serials : subject = s => SerialInv(Serials[s])

LEMMA PortsInit == Init => PortsInv
<1> SUFFICES ASSUME Init PROVE PortsInv
  OBVIOUS
<1>1. ASSUME NEW t \in DOMAIN Ttys, subject = t PROVE TtyInv(Ttys[t])
  <2>1. DOMAIN Ttys = {"tty", "nomem"} /\ Ttys.nomem = Ttys["nomem"] /\ Ttys.tty = Ttys["tty"]
    BY DEF Ttys
  <2>2. Tty(Ttys[t])!Init
    BY <1>1, <2>1 DEF Init
  <2> QED  BY <2>2, TtySettings, TtyInit
<1>2. ASSUME NEW s \in DOMAIN Serials, subject = s PROVE SerialInv(Serials[s])
  <2>1. Serial(Serials.serial)!Init
    BY DEF Init
  <2>2. Serial(Serials[s])!Init
    BY <2>1 DEF Serial!Init
  <2> QED  BY <2>2, SerialSettings, SerialInit
<1> QED  BY <1>1, <1>2 DEF PortsInv

LEMMA PortsKept == ASSUME PortsInv, [Next]_vars PROVE PortsInv'
<1>1. subject' = subject
  BY DEF Next, vars, OnlyDisk, OnlyMap, OnlyCache, OnlyTty, OnlyUsb, OnlyLoad, OnlyLists,
     OnlySerial, OnlyMoving, OnlyQueue
<1>2. ASSUME NEW t \in DOMAIN Ttys, subject = t PROVE TtyInv(Ttys[t])'
  <2>1. TtySetting(Ttys[t]) /\ TtyInv(Ttys[t])
    BY <1>2, TtySettings DEF PortsInv
  <2>2. Tty(Ttys[t])!Next \/ UNCHANGED tty
    BY <1>2 DEF Next, vars, OnlyDisk, OnlyMap, OnlyCache, OnlyUsb, OnlyLoad, OnlyLists, OnlySerial,
       OnlyMoving, OnlyQueue
  <2> QED  BY <2>1, <2>2, TtyKept, TtyStutters
<1>3. ASSUME NEW s \in DOMAIN Serials, subject = s PROVE SerialInv(Serials[s])'
  <2>1. SerialSetting(Serials[s]) /\ SerialInv(Serials[s])
    BY <1>3, SerialSettings DEF PortsInv
  <2>2. Serial(Serials[s])!Next \/ UNCHANGED serial
    BY <1>3 DEF Next, vars, OnlyDisk, OnlyMap, OnlyCache, OnlyTty, OnlyUsb, OnlyLoad, OnlyLists,
       OnlyMoving, OnlyQueue
  <2> QED  BY <2>1, <2>2, SerialKept, SerialStutters
<1> QED  BY <1>1, <1>2, <1>3 DEF PortsInv

LEMMA PortsInvSays == PortsInv => FedWhileOpen
<1> SUFFICES ASSUME PortsInv PROVE FedWhileOpen
  OBVIOUS
<1>1. ASSUME NEW t \in DOMAIN Ttys, subject = t
      PROVE  Tty(Ttys[t])!TypeOK /\ Tty(Ttys[t])!CountsUsers /\ Tty(Ttys[t])!FeedsOpenPort
  BY <1>1, TtySettings, TtyInvSays DEF PortsInv
<1>2. ASSUME NEW s \in DOMAIN Serials, subject = s
      PROVE  Serial(Serials[s])!TypeOK /\ Serial(Serials[s])!WriterWoken
  BY <1>2, SerialSettings, SerialInvSays DEF PortsInv
<1>3. ASSUME subject = "serial"
      PROVE  Serial(Serials.serial)!FeedsOpenPort /\ Serial(Serials.serial)!SentInOrder
  <2>1. "serial" \in DOMAIN Serials /\ Serials["serial"] = Serials.serial
        /\ Serials.serial.old = TRUE /\ Serials.serial.flushes = FALSE
    BY DEF Serials
  <2>2. SerialSetting(Serials.serial) /\ SerialInv(Serials.serial)
    BY <1>3, <2>1, SerialSettings DEF PortsInv
  <2> QED  BY <2>1, <2>2, SerialInvSays
<1> QED  BY <1>1, <1>2, <1>3 DEF FedWhileOpen

(***************************************************************************)
(* tiny_open, do_close and tiny_timer, tiny_startup and tiny_tx_chars: the *)
(* count of the port is the number of processes that have it open, an open *)
(* port is fed, what is written goes out once and in order, and a writer   *)
(* that waits for room is woken, for any number of processes and any ring. *)
(***************************************************************************)
THEOREM OpenPortsAreFed == Spec => []FedWhileOpen
<1>1. Init => PortsInv
  BY PortsInit
<1>2. PortsInv /\ [Next]_vars => PortsInv'
  BY PortsKept
<1> QED  BY <1>1, <1>2, PortsInvSays, PTL DEF Spec
-----------------------------------------------------------------------------
(***************************************************************************)
(* usb-skeleton.  The count is one for the interface, from the probe to    *)
(* the end of the disconnect, and one for each file that is open; a process*)
(* that opens holds back the disconnect before the interface's own goes.   *)
(***************************************************************************)
OfInterface ==
    IF driver \in {"register", "bound", "data", "minor", "put"} THEN 1 ELSE 0

OpensWhileBound ==
    /\ \A p \in Process : pc[p] \in {"find", "get"} => driver \in {"bound", "data", "minor"}
    /\ minor => driver \in {"bound", "data", "minor"}

FreedAtZero ==
    IF driver = "probe"
    THEN dev = "none" /\ \A p \in Process : pc[p] = "closed"
    ELSE dev = IF kref = 0 THEN "freed" ELSE "live"

UsbTypes ==
    /\ plugged \in BOOLEAN /\ intfdata \in BOOLEAN /\ minor \in BOOLEAN
    /\ driver \in {"probe", "register", "bound", "data", "minor", "put", "done"}
    /\ pc \in [Process -> {"closed", "find", "get", "open", "transfer", "copy", "oops"}]
    /\ sent \in 0 .. Packets /\ bulk_in \in 0 .. Packets

BuffersOnce ==
    /\ inflight \subseteq Process /\ frees \in [Process -> 0 .. 2]
    /\ \A p \in inflight : frees[p] = 0

UsbInv ==
    /\ UsbTypes
    /\ BuffersOnce
    /\ kref = OfInterface + Cardinality(Usb!Users)
    /\ OpensWhileBound
    /\ FreedAtZero

LEMMA UsbSteps == Next => Usb!Next \/ UNCHANGED usb
BY DEF Next, OnlyDisk, OnlyMap, OnlyCache, OnlyTty, OnlyLists, OnlyLoad, OnlySerial, OnlyMoving,
       OnlyQueue

LEMMA UsersCounted ==
    UsbTypes => /\ IsFiniteSet(Usb!Users) /\ Cardinality(Usb!Users) \in 0 .. Cardinality(Process)
                /\ Cardinality(Process) \in Nat
<1> SUFFICES ASSUME UsbTypes
    PROVE  /\ IsFiniteSet(Usb!Users) /\ Cardinality(Usb!Users) \in 0 .. Cardinality(Process)
           /\ Cardinality(Process) \in Nat
  OBVIOUS
<1>1. IsFiniteSet(Process) /\ Usb!Users \subseteq Process
  BY TtyAssumption DEF Usb!Users
<1>2. /\ IsFiniteSet(Usb!Users) /\ Cardinality(Usb!Users) <= Cardinality(Process)
  BY <1>1, FS_Subset
<1>3. Cardinality(Process) \in Nat /\ Cardinality(Usb!Users) \in Nat
  BY <1>1, <1>2, FS_CardinalityType
<1> QED  BY <1>2, <1>3

LEMMA UsbInit == Usb!Init => UsbInv
<1> SUFFICES ASSUME Usb!Init PROVE UsbInv
  OBVIOUS
<1>1. UsbTypes
  <2>1. sent \in 0 .. Packets /\ bulk_in \in 0 .. Packets
    BY UsbAssumption DEF Usb!Init
  <2>2. pc \in [Process -> {"closed", "find", "get", "open", "transfer", "copy", "oops"}]
    BY DEF Usb!Init
  <2> QED  BY <2>1, <2>2 DEF Usb!Init, UsbTypes
<1>2. BuffersOnce
  BY DEF Usb!Init, BuffersOnce
<1>3. Usb!Users = {}
  BY DEF Usb!Init, Usb!Users
<1>4. kref = OfInterface + Cardinality(Usb!Users)
  BY <1>3, FS_EmptySet DEF Usb!Init, OfInterface
<1>5. OpensWhileBound /\ FreedAtZero
  BY DEF Usb!Init, OpensWhileBound, FreedAtZero
<1> QED  BY <1>1, <1>2, <1>4, <1>5 DEF UsbInv

LEMMA UsersKept == ASSUME UNCHANGED pc PROVE Usb!Users' = Usb!Users
BY DEF Usb!Users

LEMMA UsbProbe ==
    ASSUME UsbInv, Usb!ProbeStore \/ Usb!ProbeRegister \/ Usb!ProbeError
    PROVE  UsbInv'
<1>1. UNCHANGED <<pc, inflight, frees, sent, bulk_in, plugged>> /\ Cardinality(Usb!Users) \in Nat
  BY UsersCounted DEF UsbInv, Usb!ProbeStore, Usb!ProbeRegister, Usb!ProbeError, Usb!ioVars
<1>2. Usb!Users' = Usb!Users
  BY <1>1, UsersKept
<1>3. BuffersOnce'
  BY <1>1 DEF UsbInv, BuffersOnce
<1>4. UsbTypes'
  BY <1>1 DEF UsbInv, UsbTypes, Usb!ProbeStore, Usb!ProbeRegister, Usb!ProbeError
<1>5. kref' = OfInterface' + Cardinality(Usb!Users') /\ OpensWhileBound' /\ FreedAtZero'
  <2>1. kref = OfInterface + Cardinality(Usb!Users) /\ OpensWhileBound /\ FreedAtZero
    BY DEF UsbInv
  <2>2. CASE Usb!ProbeStore
    <3>1. Usb!Users = {}
      BY <2>1, <2>2 DEF FreedAtZero, Usb!ProbeStore, Usb!Users
    <3>2. Cardinality(Usb!Users) = 0
      BY <3>1, FS_EmptySet
    <3> QED  BY <1>1, <1>2, <2>1, <2>2, <3>2
             DEF Usb!ProbeStore, OfInterface, OpensWhileBound, FreedAtZero
  <2>3. CASE Usb!ProbeRegister
    BY <1>1, <1>2, <2>1, <2>3 DEF Usb!ProbeRegister, OfInterface, OpensWhileBound, FreedAtZero
  <2>4. CASE Usb!ProbeError
    BY <1>1, <1>2, <2>1, <2>4
    DEF Usb!ProbeError, Usb!ProbeFails, Usb!Put, OfInterface, OpensWhileBound, FreedAtZero
  <2> QED  BY <2>2, <2>3, <2>4
<1> QED  BY <1>3, <1>4, <1>5 DEF UsbInv

LEMMA UsbDisconnect ==
    ASSUME UsbInv, Usb!Unplug \/ Usb!Disconnect \/ Usb!Disconnecting
    PROVE  UsbInv'
<1>1. UNCHANGED <<pc, inflight, frees, sent, bulk_in>> /\ Cardinality(Usb!Users) \in Nat
  BY UsersCounted DEF UsbInv, Usb!Unplug, Usb!Disconnect, Usb!Disconnecting, Usb!ioVars
<1>2. Usb!Users' = Usb!Users
  BY <1>1, UsersKept
<1>3. BuffersOnce'
  BY <1>1 DEF UsbInv, BuffersOnce
<1>4. UsbTypes'
  BY <1>1 DEF UsbInv, UsbTypes, Usb!Unplug, Usb!Disconnect, Usb!Disconnecting, Usb!After,
              Usb!devVars
<1>5. kref' = OfInterface' + Cardinality(Usb!Users') /\ OpensWhileBound' /\ FreedAtZero'
  <2>1. kref = OfInterface + Cardinality(Usb!Users) /\ OpensWhileBound /\ FreedAtZero
    BY DEF UsbInv
  <2>2. CASE Usb!Unplug
    BY <1>1, <1>2, <2>1, <2>2
    DEF Usb!Unplug, Usb!devVars, OfInterface, OpensWhileBound, FreedAtZero
  <2>3. CASE Usb!Disconnect
    BY <1>1, <1>2, <2>1, <2>3 DEF Usb!Disconnect, OfInterface, OpensWhileBound, FreedAtZero
  <2>4. CASE Usb!Disconnecting
    <3>1. CASE driver \in {"data", "minor"}
      BY <1>1, <1>2, <2>1, <2>4, <3>1
      DEF Usb!Disconnecting, Usb!After, OfInterface, OpensWhileBound, FreedAtZero
    <3>2. CASE driver = "put"
      BY <1>1, <1>2, <2>1, <2>4, <3>2
      DEF Usb!Disconnecting, Usb!After, Usb!Put, OfInterface, OpensWhileBound, FreedAtZero
    <3> QED  BY <2>4, <3>1, <3>2 DEF Usb!Disconnecting
  <2> QED  BY <2>2, <2>3, <2>4
<1> QED  BY <1>3, <1>4, <1>5 DEF UsbInv

(***************************************************************************)
(* A process opens the file and closes it.                                 *)
(***************************************************************************)
LEMMA UsbOpens ==
    ASSUME UsbInv, NEW p \in Process,
           Usb!OpenMinor(p) \/ Usb!OpenFind(p) \/ Usb!OpenGet(p) \/ Usb!Release(p)
    PROVE  UsbInv'
<1> DEFINE U == Usb!Users
<1>1. /\ UNCHANGED <<plugged, intfdata, minor, driver, sent, bulk_in, inflight, frees>>
      /\ IsFiniteSet(U) /\ Cardinality(U) \in Nat
  BY UsersCounted DEF UsbInv, Usb!OpenMinor, Usb!OpenFind, Usb!OpenGet, Usb!Release, Usb!ioVars,
                      Usb!devVars
<1>2. UsbTypes'
  BY <1>1 DEF UsbInv, UsbTypes, Usb!OpenMinor, Usb!OpenFind, Usb!OpenGet, Usb!Release, Usb!Go
<1>3. BuffersOnce'
  BY <1>1 DEF UsbInv, BuffersOnce
<1>4. pc \in [Process -> {"closed", "find", "get", "open", "transfer", "copy", "oops"}]
  BY DEF UsbInv, UsbTypes
<1>5. OpensWhileBound'
  BY <1>1, <1>4 DEF UsbInv, OpensWhileBound, Usb!OpenMinor, Usb!OpenFind, Usb!OpenGet,
                    Usb!Release, Usb!Go
<1>6. OfInterface' = OfInterface /\ OfInterface \in {0, 1}
  BY <1>1 DEF OfInterface
<1>7. driver # "probe" /\ (pc[p] \in {"find", "get"} => OfInterface = 1)
  BY <1>4 DEF UsbInv, OpensWhileBound, FreedAtZero, OfInterface, Usb!OpenMinor, Usb!OpenFind,
              Usb!OpenGet, Usb!Release, Usb!Go
<1>8. kref = OfInterface + Cardinality(U) /\ dev = IF kref = 0 THEN "freed" ELSE "live"
  BY <1>7 DEF UsbInv, FreedAtZero
<1>9. kref' = OfInterface + Cardinality(U') /\ dev' = IF kref' = 0 THEN "freed" ELSE "live"
  <2>1. CASE Usb!OpenMinor(p) \/ Usb!OpenFind(p)
    <3>1. U' = U
      BY <1>4, <2>1 DEF Usb!Users, Usb!OpenMinor, Usb!OpenFind, Usb!Go
    <3>2. UNCHANGED <<kref, dev>>
      BY <2>1 DEF Usb!OpenMinor, Usb!OpenFind, Usb!devVars
    <3> QED  BY <1>8, <3>1, <3>2
  <2>2. CASE Usb!OpenGet(p)
    <3>1. p \notin U /\ U' = U \cup {p}
      BY <1>4, <2>2 DEF Usb!Users, Usb!OpenGet, Usb!Go
    <3>2. Cardinality(U') = Cardinality(U) + 1
      BY <1>1, <3>1, FS_AddElement
    <3>3. kref' = kref + 1 /\ dev' = dev /\ OfInterface = 1
      BY <1>7, <2>2 DEF Usb!OpenGet, Usb!Go
    <3> QED  BY <1>1, <1>8, <3>2, <3>3
  <2>3. CASE Usb!Release(p)
    <3>1. p \in U /\ U' = U \ {p}
      BY <1>4, <2>3 DEF Usb!Users, Usb!Release, Usb!Go
    <3>2. Cardinality(U') = Cardinality(U) - 1 /\ Cardinality(U') \in Nat
      BY <1>1, <3>1, FS_RemoveElement, FS_CardinalityType
    <3>3. kref' = kref - 1 /\ dev' = IF kref = 1 THEN "freed" ELSE dev
      BY <2>3 DEF Usb!Release, Usb!Put
    <3> QED  BY <1>1, <1>6, <1>8, <3>2, <3>3
  <2> QED  BY <2>1, <2>2, <2>3
<1>10. FreedAtZero'
  BY <1>1, <1>7, <1>9 DEF FreedAtZero
<1> QED  BY <1>2, <1>3, <1>5, <1>6, <1>9, <1>10 DEF UsbInv

(***************************************************************************)
(* A process reads and writes: who has the file open stays the same.       *)
(***************************************************************************)
LEMMA UsersWork ==
    ASSUME UsbInv, NEW p \in Process, NEW s \in {"open", "transfer", "copy", "oops"},
           pc[p] \in {"open", "transfer", "copy", "oops"},
           pc' = pc \/ pc' = [pc EXCEPT ![p] = s], UNCHANGED <<dev, kref, intfdata, minor, driver>>
    PROVE  /\ Usb!Users' = Usb!Users /\ OpensWhileBound' /\ FreedAtZero'
           /\ kref' = OfInterface' + Cardinality(Usb!Users')
           /\ pc' \in [Process -> {"closed", "find", "get", "open", "transfer", "copy", "oops"}]
<1>1. pc \in [Process -> {"closed", "find", "get", "open", "transfer", "copy", "oops"}]
  BY DEF UsbInv, UsbTypes
<1>2. Usb!Users' = Usb!Users
  BY <1>1 DEF Usb!Users
<1>3. OpensWhileBound'
  BY <1>1 DEF UsbInv, OpensWhileBound
<1>4. FreedAtZero'
  BY <1>1 DEF UsbInv, FreedAtZero
<1> QED  BY <1>1, <1>2, <1>3, <1>4 DEF UsbInv, OfInterface

LEMMA UsbReads ==
    ASSUME UsbInv, NEW p \in Process, Usb!ReadStart(p) \/ Usb!ReadEnd(p) \/ Usb!ReadCopy(p)
    PROVE  UsbInv'
<1>1. /\ pc[p] \in {"open", "transfer", "copy", "oops"}
      /\ \E s \in {"open", "transfer", "copy", "oops"} : pc' = [pc EXCEPT ![p] = s]
      /\ UNCHANGED <<plugged, dev, kref, intfdata, minor, driver, inflight, frees>>
  BY DEF Usb!ReadStart, Usb!ReadEnd, Usb!ReadCopy, Usb!Go, Usb!devVars, Usb!ioVars
<1>2. sent' \in 0 .. Packets /\ bulk_in' \in 0 .. Packets
  BY UsbAssumption DEF UsbInv, UsbTypes, Usb!ReadStart, Usb!ReadEnd, Usb!ReadCopy, Usb!ioVars
<1>3. /\ OpensWhileBound' /\ FreedAtZero' /\ kref' = OfInterface' + Cardinality(Usb!Users')
      /\ pc' \in [Process -> {"closed", "find", "get", "open", "transfer", "copy", "oops"}]
  BY <1>1, UsersWork
<1>4. UsbTypes' /\ BuffersOnce'
  BY <1>1, <1>2, <1>3 DEF UsbInv, UsbTypes, BuffersOnce
<1> QED  BY <1>3, <1>4 DEF UsbInv

LEMMA UsbWrites ==
    ASSUME UsbInv, NEW p \in Process, Usb!Write(p)
    PROVE  UsbInv'
<1>1. /\ pc[p] \in {"open", "transfer", "copy", "oops"}
      /\ pc' = pc \/ pc' = [pc EXCEPT ![p] = "oops"]
      /\ UNCHANGED <<plugged, dev, kref, intfdata, minor, driver, sent, bulk_in>>
  BY DEF Usb!Write, Usb!devVars
<1>2. BuffersOnce'
  <2>1. inflight \subseteq Process /\ frees \in [Process -> 0 .. 2] /\ p \notin inflight
    BY DEF UsbInv, BuffersOnce, Usb!Write
  <2>2. \E n \in {0, 2} : frees' = [frees EXCEPT ![p] = n] /\ (n = 2 => inflight' = inflight)
    BY DEF Usb!Write
  <2>3. inflight' \in {inflight, inflight \cup {p}}
    BY DEF Usb!Write
  <2> QED  BY <2>1, <2>2, <2>3 DEF UsbInv, BuffersOnce
<1>3. /\ OpensWhileBound' /\ FreedAtZero' /\ kref' = OfInterface' + Cardinality(Usb!Users')
      /\ pc' \in [Process -> {"closed", "find", "get", "open", "transfer", "copy", "oops"}]
  BY <1>1, UsersWork
<1>4. UsbTypes'
  BY <1>1, <1>3 DEF UsbInv, UsbTypes
<1> QED  BY <1>2, <1>3, <1>4 DEF UsbInv

LEMMA UsbCallback ==
    ASSUME UsbInv, NEW p \in Process, Usb!WriteCallback(p)
    PROVE  UsbInv'
<1>1. UNCHANGED <<plugged, dev, kref, intfdata, minor, driver, pc, sent, bulk_in>>
  BY DEF Usb!WriteCallback, Usb!devVars
<1>2. BuffersOnce'
  BY DEF UsbInv, BuffersOnce, Usb!WriteCallback
<1>3. Usb!Users' = Usb!Users
  BY <1>1, UsersKept
<1>4. UsbTypes' /\ OpensWhileBound' /\ FreedAtZero'
  BY <1>1 DEF UsbInv, UsbTypes, OpensWhileBound, FreedAtZero
<1> QED  BY <1>1, <1>2, <1>3, <1>4 DEF UsbInv, OfInterface

LEMMA UsbNext ==
    ASSUME UsbInv, Usb!Next
    PROVE  UsbInv'
<1>1. CASE Usb!ProbeStore \/ Usb!ProbeRegister \/ Usb!ProbeError
  BY <1>1, UsbProbe
<1>2. CASE Usb!Unplug \/ Usb!Disconnect \/ Usb!Disconnecting
  BY <1>2, UsbDisconnect
<1>3. CASE \E p \in Process :
            Usb!OpenMinor(p) \/ Usb!OpenFind(p) \/ Usb!OpenGet(p) \/ Usb!Release(p)
  BY <1>3, UsbOpens
<1>4. CASE \E p \in Process : Usb!ReadStart(p) \/ Usb!ReadEnd(p) \/ Usb!ReadCopy(p)
  BY <1>4, UsbReads
<1>5. CASE \E p \in Process : Usb!Write(p) \/ Usb!WriteCallback(p)
  BY <1>5, UsbWrites, UsbCallback
<1> QED  BY <1>1, <1>2, <1>3, <1>4, <1>5 DEF Usb!Next

LEMMA UsbStays ==
    ASSUME UsbInv, UNCHANGED usb
    PROVE  UsbInv'
BY UsersKept DEF usb, UsbInv, UsbTypes, BuffersOnce, OfInterface, OpensWhileBound, FreedAtZero

LEMMA UsbHolds == UsbInv => Usb!TypeOK /\ Usb!NoneFreed /\ Usb!NoLeak
<1> SUFFICES ASSUME UsbInv PROVE Usb!TypeOK /\ Usb!NoneFreed /\ Usb!NoLeak
  OBVIOUS
<1> DEFINE U == Usb!Users
           C == Cardinality(U)
<1>1. /\ IsFiniteSet(U) /\ C \in 0 .. Cardinality(Process) /\ Cardinality(Process) \in Nat
      /\ kref = OfInterface + C
  BY UsersCounted DEF UsbInv
<1>2. OfInterface \in {0, 1}
  BY DEF OfInterface
<1>3. Usb!Cardinality(Process) = Cardinality(Process)
  BY DEF Cardinality, Usb!Cardinality
<1>4. kref \in 0 .. Usb!Cardinality(Process) + 1
  BY <1>1, <1>2, <1>3
<1>5. Usb!TypeOK
  BY <1>4 DEF UsbInv, UsbTypes, BuffersOnce, FreedAtZero, Usb!TypeOK
<1>6. ASSUME NEW p \in Process, p \in U \/ pc[p] = "get" PROVE dev = "live"
  <2>1. driver # "probe"
    BY <1>6 DEF UsbInv, FreedAtZero, Usb!Users
  <2>2. kref # 0
    <3>1. CASE p \in U
      <4>1. C # 0
        BY <1>1, <3>1, FS_EmptySet
      <4> QED  BY <1>1, <1>2, <4>1
    <3>2. CASE pc[p] = "get"
      <4>1. OfInterface = 1
        BY <3>2 DEF UsbInv, OpensWhileBound, OfInterface
      <4> QED  BY <1>1, <4>1
    <3> QED  BY <1>6, <3>1, <3>2
  <2> QED  BY <2>1, <2>2 DEF UsbInv, FreedAtZero
<1>7. ASSUME driver = "done", U = {} PROVE dev = "freed"
  <2>1. OfInterface = 0 /\ C = 0
    BY <1>7, FS_EmptySet DEF OfInterface
  <2> QED  BY <1>1, <1>7, <2>1 DEF UsbInv, FreedAtZero
<1> QED  BY <1>5, <1>6, <1>7 DEF Usb!NoneFreed, Usb!NoLeak
-----------------------------------------------------------------------------
(***************************************************************************)
(* scullc.  A trim frees the objects in the slots that the device has, so  *)
(* that none may lie in a slot the device does not have: a call puts it    *)
(* where the device's own quantum and qset say, for as long as nobody has  *)
(* changed them since the call looked them up.                             *)
(***************************************************************************)
CacheTypes ==
    /\ scullc_quantum \in Nat \ {0} /\ scullc_qset \in Nat \ {0}
    /\ quantum \in [Dev -> Nat \ {0}] /\ qset \in [Dev -> Nat \ {0}]
    /\ objects \in [Dev -> [Cache!Slots -> Object \cup {None}]] /\ used \subseteq Object
    /\ lookup \in [Caller ->
            [dev : Dev, quantum : Nat \ {0}, qset : Nat \ {0}] \cup {None}]
    /\ torn \in BOOLEAN /\ outside \in BOOLEAN

OneSlotEach == \A d, e \in Dev : \A s, t \in Cache!Slots :
    objects[d][s] # None /\ objects[d][s] = objects[e][t] => d = e /\ s = t

UsedAreHeld == \A o \in Object :
    o \in used <=> \E d \in Dev : \E s \in Cache!Slots : objects[d][s] = o

SlotsOfDevice == \A d \in Dev : \A s \in Cache!Slots : objects[d][s] # None => s[2] < qset[d]

CacheInv ==
    /\ CacheTypes
    /\ Cache!Sane => OneSlotEach /\ UsedAreHeld /\ SlotsOfDevice

LEMMA CacheSteps == Next => Cache!Next \/ UNCHANGED cache
BY DEF Next, OnlyDisk, OnlyMap, OnlyUsb, OnlyTty, OnlyLists, OnlyLoad, OnlySerial, OnlyMoving,
       OnlyQueue

LEMMA CacheInit == Cache!Init => CacheInv
<1> SUFFICES ASSUME Cache!Init PROVE CacheInv
  OBVIOUS
<1>1. scullc_quantum \in Nat \ {0} /\ scullc_qset \in Nat \ {0}
  BY CacheAssumption DEF Cache!Init
<1>2. quantum \in [Dev -> Nat \ {0}] /\ qset \in [Dev -> Nat \ {0}]
  BY <1>1 DEF Cache!Init
<1>3. \A d \in Dev : objects[d] = [s \in Cache!Slots |-> None]
  BY DEF Cache!Init
<1>4. objects \in [Dev -> [Cache!Slots -> Object \cup {None}]]
  BY DEF Cache!Init
<1>5. \A d \in Dev, s \in Cache!Slots : objects[d][s] = None
  BY <1>3
<1>6. CacheTypes
  BY <1>1, <1>2, <1>4 DEF Cache!Init, CacheTypes
<1>7. UsedAreHeld
  BY <1>5, CacheAssumption DEF Cache!Init, UsedAreHeld
<1> QED  BY <1>5, <1>6, <1>7 DEF CacheInv, OneSlotEach, SlotsOfDevice

LEMMA CacheTrim ==
    ASSUME CacheInv, NEW d \in Dev, Cache!OpenTrim(d)
    PROVE  CacheInv'
<1>1. UNCHANGED <<scullc_quantum, scullc_qset, lookup, torn, outside>>
  BY DEF Cache!OpenTrim
<1>2. CacheTypes
  BY DEF CacheInv
<1>3. quantum' \in [Dev -> Nat \ {0}] /\ qset' \in [Dev -> Nat \ {0}] /\ used' \subseteq Object
  BY <1>2 DEF CacheTypes, Cache!OpenTrim
<1>4. objects' = [objects EXCEPT ![d] = [s \in Cache!Slots |-> None]]
  BY DEF Cache!OpenTrim
<1>5. objects' \in [Dev -> [Cache!Slots -> Object \cup {None}]]
  BY <1>2, <1>4 DEF CacheTypes
<1>6. CacheTypes'
  BY <1>1, <1>2, <1>3, <1>5 DEF CacheTypes
<1>7. \A e \in Dev : \A s \in Cache!Slots :
        objects'[e][s] = IF e = d THEN None ELSE objects[e][s]
  BY <1>2, <1>4 DEF CacheTypes
<1>8. ASSUME Cache!Sane PROVE OneSlotEach' /\ UsedAreHeld' /\ SlotsOfDevice'
  <2>1. OneSlotEach /\ UsedAreHeld /\ SlotsOfDevice
    BY <1>8 DEF CacheInv
  <2>2. OneSlotEach'
    BY <1>7, <2>1 DEF OneSlotEach
  <2>3. \A e \in Dev : e # d => qset'[e] = qset[e]
    BY <1>2 DEF CacheTypes, Cache!OpenTrim
  <2>4. SlotsOfDevice'
    BY <1>7, <2>1, <2>3 DEF SlotsOfDevice
  <2>5. \A o \in Object : o \in Cache!Freed(d) <=> \E s \in Cache!Slots : objects[d][s] = o
    BY <1>2, <2>1, CacheAssumption DEF SlotsOfDevice, CacheTypes, Cache!Freed
  <2>6. used' = used \ Cache!Freed(d)
    BY DEF Cache!OpenTrim
  <2>7. UsedAreHeld'
    <3> SUFFICES ASSUME NEW o \in Object
        PROVE  o \in used' <=> \E e \in Dev : \E s \in Cache!Slots : objects'[e][s] = o
      BY DEF UsedAreHeld
    <3>1. o # None
      BY CacheAssumption
    <3>2. ASSUME o \in used' PROVE \E e \in Dev : \E s \in Cache!Slots : objects'[e][s] = o
      <4>1. PICK e \in Dev, s \in Cache!Slots : objects[e][s] = o
        BY <2>1, <2>6, <3>2 DEF UsedAreHeld
      <4>2. e # d
        BY <2>5, <2>6, <3>2, <4>1
      <4> QED  BY <1>7, <4>1, <4>2
    <3>3. ASSUME NEW e \in Dev, NEW s \in Cache!Slots, objects'[e][s] = o PROVE o \in used'
      <4>1. e # d /\ objects[e][s] = o
        BY <1>7, <3>1, <3>3
      <4>2. o \in used
        BY <2>1, <4>1 DEF UsedAreHeld
      <4>3. o \notin Cache!Freed(d)
        BY <2>1, <2>5, <3>1, <4>1 DEF OneSlotEach
      <4> QED  BY <2>6, <4>2, <4>3
    <3> QED  BY <3>2, <3>3
  <2> QED  BY <2>2, <2>4, <2>7
<1>9. Cache!Sane' = Cache!Sane
  BY <1>1 DEF Cache!Sane
<1> QED  BY <1>6, <1>8, <1>9 DEF CacheInv

(***************************************************************************)
(* Where a byte lies: the item is not past the byte, and the slot is one   *)
(* that the call takes the device to have.                                 *)
(***************************************************************************)
LEMMA Dividing ==
    ASSUME NEW p \in Nat, NEW m \in Nat \ {0}
    PROVE  p \div m \in 0 .. p /\ p % m \in 0 .. m - 1 /\ p % m <= p
<1> DEFINE a == p \div m
           b == p % m
<1>1. a \in Nat /\ b \in 0 .. m - 1 /\ b = p - m * a
  OBVIOUS
<1> HIDE DEF a, b
<1>2. m * a \in Nat /\ m * a >= a
  <2>1. PICK e \in Nat : m = e + 1
    OBVIOUS
  <2>2. m * a = e * a + a /\ e * a \in Nat
    BY <1>1, <2>1
  <2> QED  BY <1>1, <2>2
<1>3. a <= p /\ b <= p
  BY <1>1, <1>2
<1> QED  BY <1>1, <1>3 DEF a, b

LEMMA QuotientBelow ==
    ASSUME NEW q \in Nat \ {0}, NEW s \in Nat \ {0}, NEW r \in 0 .. q * s - 1
    PROVE  r \div q < s
<1> DEFINE a == r \div q
<1>1. a \in Nat /\ q * a <= r
  OBVIOUS
<1> HIDE DEF a
<1>2. SUFFICES ASSUME a >= s PROVE FALSE
  BY <1>1 DEF a
<1>3. PICK e \in Nat : a = s + e
  BY <1>1, <1>2
<1>4. q * a = q * s + q * e /\ q * e \in Nat /\ q * s \in Nat
  BY <1>3
<1> QED  BY <1>1, <1>4

LEMMA PlaceInSlots ==
    ASSUME NEW p \in Cache!Byte, NEW k \in [dev : Dev, quantum : Nat \ {0}, qset : Nat \ {0}]
    PROVE  Cache!Place(p, k).slot \in Cache!Slots /\ Cache!Place(p, k).slot[2] < k.qset
<1> DEFINE m == k.quantum * k.qset
           r == p % m
<1>1. k.quantum \in Nat \ {0} /\ k.qset \in Nat \ {0} /\ p \in Nat /\ p < NBytes
  BY CacheAssumption DEF Cache!Byte
<1>2. m \in Nat \ {0}
  BY <1>1
<1>3. Cache!Place(p, k).slot = <<p \div m, r \div k.quantum>>
  BY DEF Cache!Place
<1>4. p \div m \in 0 .. p /\ r \in 0 .. m - 1 /\ r <= p
  BY <1>1, <1>2, Dividing
<1>5. r \div k.quantum < k.qset
  BY <1>1, <1>4, QuotientBelow
<1> HIDE DEF r, m
<1>6. r \div k.quantum \in 0 .. r
  BY <1>1, <1>4, Dividing
<1>7. p \div m \in Cache!Byte /\ r \div k.quantum \in Cache!Byte
  BY <1>1, <1>4, <1>6, CacheAssumption DEF Cache!Byte
<1> QED  BY <1>3, <1>5, <1>7 DEF Cache!Slots

(***************************************************************************)
(* scullc_write: an object that is new goes to a slot that has none.       *)
(***************************************************************************)
LEMMA CacheWrite ==
    ASSUME CacheInv, NEW c \in Caller, NEW p \in Cache!Byte, NEW n, NEW k, NEW x,
           Cache!Write(c, p, n, k, x)
    PROVE  CacheInv'
<1> DEFINE me == lookup[c]
           d == me.dev
           at0 == Cache!Place(p, me).slot
<1>1. CacheTypes /\ me \in [dev : Dev, quantum : Nat \ {0}, qset : Nat \ {0}]
  BY DEF CacheInv, CacheTypes, Cache!Write
<1>2. d \in Dev /\ at0 \in Cache!Slots /\ at0[2] < me.qset
  BY <1>1, PlaceInSlots
<1>3. PICK o \in Object :
        /\ IF objects[d][at0] = None THEN o \notin used ELSE o = objects[d][at0]
        /\ used' = used \cup {o} /\ objects' = [objects EXCEPT ![d][at0] = o]
  BY DEF Cache!Write
<1>4. /\ UNCHANGED <<scullc_quantum, scullc_qset, quantum, qset>>
      /\ lookup' = [lookup EXCEPT ![c] = None]
  BY DEF Cache!Write
<1>5. /\ torn' \in BOOLEAN /\ outside' \in BOOLEAN
      /\ Cache!Sane' => Cache!Sane /\ me.qset = qset[d]
  BY DEF Cache!Write, Cache!Sane, Cache!Straddles
<1> HIDE DEF at0
<1>6. objects' \in [Dev -> [Cache!Slots -> Object \cup {None}]]
  BY <1>1, <1>2, <1>3 DEF CacheTypes
<1>7. used' \subseteq Object
  BY <1>1, <1>3 DEF CacheTypes
<1>8. CacheTypes'
  BY <1>1, <1>4, <1>5, <1>6, <1>7 DEF CacheTypes
<1>9. \A e \in Dev : \A s \in Cache!Slots :
        objects'[e][s] = IF e = d /\ s = at0 THEN o ELSE objects[e][s]
  BY <1>1, <1>2, <1>3 DEF CacheTypes
<1>10. ASSUME Cache!Sane, me.qset = qset[d]
       PROVE  OneSlotEach' /\ UsedAreHeld' /\ SlotsOfDevice'
  <2>1. OneSlotEach /\ UsedAreHeld /\ SlotsOfDevice
    BY <1>10 DEF CacheInv
  <2>2. SlotsOfDevice'
    BY <1>2, <1>4, <1>9, <1>10, <2>1 DEF SlotsOfDevice
  <2>3. o # None /\ \A e \in Dev : \A s \in Cache!Slots : objects[e][s] = o => e = d /\ s = at0
    BY <1>2, <1>3, <2>1, CacheAssumption DEF OneSlotEach, UsedAreHeld
  <2>4. OneSlotEach'
    BY <1>9, <2>1, <2>3 DEF OneSlotEach
  <2>5. objects[d][at0] = None \/ objects[d][at0] = o
    BY <1>3
  <2>6. UsedAreHeld'
    <3> SUFFICES ASSUME NEW u \in Object
        PROVE  u \in used' <=> \E e \in Dev : \E s \in Cache!Slots : objects'[e][s] = u
      BY DEF UsedAreHeld
    <3>1. u \in used' <=> u = o \/ u \in used
      BY <1>3
    <3>2. CASE u = o
      BY <1>2, <1>9, <3>1, <3>2
    <3>3. CASE u # o
      <4>1. u # None
        BY CacheAssumption
      <4>2. \A e \in Dev : \A s \in Cache!Slots : objects'[e][s] = u <=> objects[e][s] = u
        BY <1>9, <2>5, <3>3, <4>1
      <4> QED  BY <2>1, <3>1, <3>3, <4>2 DEF UsedAreHeld
    <3> QED  BY <3>2, <3>3
  <2> QED  BY <2>2, <2>4, <2>6
<1> QED  BY <1>5, <1>8, <1>10 DEF CacheInv

(***************************************************************************)
(* The steps that allocate nothing and free nothing.                       *)
(***************************************************************************)
LEMMA CacheElse ==
    ASSUME CacheInv, UNCHANGED <<quantum, qset, objects, used>>,
           CacheTypes', Cache!Sane' => Cache!Sane
    PROVE  CacheInv'
BY DEF CacheInv, OneSlotEach, UsedAreHeld, SlotsOfDevice

LEMMA CacheNext ==
    ASSUME CacheInv, Cache!Next
    PROVE  CacheInv'
<1>1. CASE Cache!Ioctl
  <2>1. /\ UNCHANGED <<quantum, qset, objects, used, lookup, torn, outside>>
        /\ scullc_quantum' \in Nat \ {0} /\ scullc_qset' \in Nat \ {0}
    BY <1>1, CacheAssumption DEF Cache!Ioctl
  <2> QED  BY <2>1, CacheElse DEF CacheInv, CacheTypes, Cache!Sane
<1>2. CASE \E d \in Dev : Cache!OpenTrim(d)
  BY <1>2, CacheTrim
<1>3. CASE \E c \in Caller, d \in Dev : Cache!LookUp(c, d)
  <2>1. PICK c \in Caller, d \in Dev :
          lookup' = [lookup EXCEPT ![c] = [dev |-> d, quantum |-> quantum[d], qset |-> qset[d]]]
    BY <1>3 DEF Cache!LookUp
  <2>2. UNCHANGED <<scullc_quantum, scullc_qset, quantum, qset, objects, used, torn, outside>>
    BY <1>3 DEF Cache!LookUp
  <2>3. [dev |-> d, quantum |-> quantum[d], qset |-> qset[d]]
            \in [dev : Dev, quantum : Nat \ {0}, qset : Nat \ {0}]
    BY DEF CacheInv, CacheTypes
  <2>4. CacheTypes'
    BY <2>1, <2>2, <2>3 DEF CacheInv, CacheTypes
  <2> QED  BY <2>2, <2>4, CacheElse DEF Cache!Sane
<1>4. CASE \E c \in Caller, p \in Cache!Byte, n \in 1 .. 2 : Cache!Read(c, p, n)
  <2>1. PICK c \in Caller : lookup' = [lookup EXCEPT ![c] = None]
    BY <1>4 DEF Cache!Read
  <2>2. UNCHANGED <<scullc_quantum, scullc_qset, quantum, qset, objects, used, outside>>
    BY <1>4 DEF Cache!Read
  <2>3. torn' \in BOOLEAN /\ (torn => torn')
    BY <1>4 DEF Cache!Read, CacheInv, CacheTypes
  <2>4. CacheTypes'
    BY <2>1, <2>2, <2>3 DEF CacheInv, CacheTypes
  <2> QED  BY <2>2, <2>3, <2>4, CacheElse DEF Cache!Sane
<1>5. CASE \E c \in Caller, p \in Cache!Byte, n \in 1 .. 2, k \in 0 .. 2 :
              Cache!Write(c, p, n, k, lookup[c].dev)
  BY <1>5, CacheWrite
<1>6. CASE \E c \in Caller, p \in Cache!Byte : Cache!WriteNomem(c, p)
  <2>1. PICK c \in Caller : lookup' = [lookup EXCEPT ![c] = None]
    BY <1>6 DEF Cache!WriteNomem
  <2>2. UNCHANGED <<scullc_quantum, scullc_qset, quantum, qset, objects, used, torn, outside>>
    BY <1>6 DEF Cache!WriteNomem
  <2>3. CacheTypes'
    BY <2>1, <2>2 DEF CacheInv, CacheTypes
  <2> QED  BY <2>2, <2>3, CacheElse DEF Cache!Sane
<1> QED  BY <1>1, <1>2, <1>3, <1>4, <1>5, <1>6 DEF Cache!Next

LEMMA CacheStays ==
    ASSUME CacheInv, UNCHANGED cache
    PROVE  CacheInv'
BY DEF cache, CacheInv, CacheTypes, OneSlotEach, UsedAreHeld, SlotsOfDevice, Cache!Sane

LEMMA CacheHolds == CacheInv => Cache!ObjectsOwned
<1> SUFFICES ASSUME CacheInv, Cache!Sane
    PROVE  /\ used = UNION {{objects[d][s] : s \in Cache!Held(d)} : d \in Dev}
           /\ \A d, e \in Dev : \A s \in Cache!Held(d), t \in Cache!Held(e) :
                objects[d][s] = objects[e][t] => d = e /\ s = t
  BY DEF Cache!ObjectsOwned
<1>1. CacheTypes /\ OneSlotEach /\ UsedAreHeld
  BY DEF CacheInv
<1>2. ASSUME NEW o
      PROVE  o \in used <=> \E d \in Dev : \E s \in Cache!Held(d) : o = objects[d][s]
  <2>1. ASSUME o \in used PROVE \E d \in Dev : \E s \in Cache!Held(d) : o = objects[d][s]
    BY <1>1, <2>1, CacheAssumption DEF CacheTypes, UsedAreHeld, Cache!Held
  <2>2. ASSUME NEW d \in Dev, NEW s \in Cache!Held(d), o = objects[d][s] PROVE o \in used
    BY <1>1, <2>2 DEF CacheTypes, UsedAreHeld, Cache!Held
  <2> QED  BY <2>1, <2>2
<1>3. used = UNION {{objects[d][s] : s \in Cache!Held(d)} : d \in Dev}
  BY <1>2
<1> QED  BY <1>1, <1>3 DEF OneSlotEach, Cache!Held
-----------------------------------------------------------------------------
FreedInv ==
    /\ UsbInv
    /\ CacheInv

LEMMA FreedInit == Init => FreedInv
<1>1. Init => Usb!Init /\ Cache!Init
  BY DEF Init
<1> QED  BY <1>1, UsbInit, CacheInit DEF FreedInv

LEMMA FreedKept == ASSUME FreedInv, [Next]_vars PROVE FreedInv'
<1>1. UsbInv'
  <2>1. Usb!Next \/ UNCHANGED usb
    BY UsbSteps DEF vars
  <2> QED  BY <2>1, UsbNext, UsbStays DEF FreedInv
<1>2. CacheInv'
  <2>1. Cache!Next \/ UNCHANGED cache
    BY CacheSteps DEF vars
  <2> QED  BY <2>1, CacheNext, CacheStays DEF FreedInv
<1> QED  BY <1>1, <1>2 DEF FreedInv

(***************************************************************************)
(* skel_delete and scullc_trim: the structure of the USB device is freed   *)
(* when the last file is closed and the interface is gone, and not under a *)
(* process that opens, for any number of them; and the objects of scullc's *)
(* cache that are in use are those of its devices, one for a slot, whatever*)
(* quantum and qset are set to, for as long as nothing is torn or spilled. *)
(***************************************************************************)
THEOREM StructuresFreedUnused == Spec => []FreedWhenUnused
<1>1. FreedInv => FreedWhenUnused
  BY UsbHolds, CacheHolds DEF FreedInv, FreedWhenUnused
<1> QED  BY <1>1, FreedInit, FreedKept, PTL DEF Spec
-----------------------------------------------------------------------------
(***************************************************************************)
(* scullp, scullv and sculld.  A mapped device is not trimmed, and a call  *)
(* only adds to it, so a block that was found stays where it was found.    *)
(* Arrays are as long as the set the device has, for as long as every call *)
(* runs with what the device has; where neither parameter changes, every   *)
(* call does.                                                              *)
(***************************************************************************)
MapSetting(M) ==
    /\ M.pages \in Nat /\ M.sets \subseteq Nat \ {0}
    /\ 0 \in M.orders /\ \A o \in M.orders : 2 ^ o \in Nat \ {0}

Rows(M) == Seq(M.block \cup {None})

MapDev(M) ==
    /\ scullp_order \in M.orders /\ order \in M.orders
    /\ scullp_qset \in M.sets /\ mqset \in M.sets
    /\ size \in 0 .. M.pages /\ list \in Seq(Rows(M)) /\ list # <<>>
    /\ stale \in BOOLEAN /\ spilled \in BOOLEAN

MapFile(M) ==
    /\ f_pos \in [{c1} -> 0 .. M.pages] /\ io \in [{c1} -> {"none", "read", "write"}]
    /\ arg \in [{c1} -> M.orders \X (M.sets \cup {0})]
    /\ io[c1] # "none" => arg[c1][2] \in M.sets

MapProc(M) ==
    /\ mpc \in [{p1} -> {"unmapped", "open_read", "open_write", "mapped", "close_read",
                         "close_write"}]
    /\ seen \in [{p1} -> Int] /\ access \in [{p1} -> Map(M)!Page \cup {None}]
    /\ pages \in [{p1} -> [Map(M)!Page -> M.block \cup {None}]]
    /\ access[p1] # None => mpc[p1] = "mapped"
    /\ mpc[p1] # "mapped" => \A g \in Map(M)!Page : pages[p1][g] = None

MapCount ==
    /\ vmas = IF mpc[p1] \in {"mapped", "close_read", "close_write"} THEN 1 ELSE 0
    /\ mpc[p1] \in {"open_write", "close_write"} => seen[p1] = vmas

WholeFor(l, s) == \A n \in 1 .. Len(l) : Len(l[n]) \in {0, s}

MapWhole(M) == M.orders = {0} /\ ~stale => ~spilled /\ WholeFor(list, mqset)

MapShared(M) == M.orders = {0} /\ (\E s : M.sets = {s}) => ~stale /\ Map(M)!SharesPages

MapInv(M) ==
    MapDev(M) /\ MapFile(M) /\ MapProc(M) /\ MapCount /\ MapWhole(M) /\ MapShared(M)

LEMMA MapSettings == \A m \in DOMAIN Maps : MapSetting(Maps[m])
<1>1. 2 ^ 0 = 1
  OBVIOUS
<1> QED  BY <1>1, MapAssumption DEF Maps, Pages, MapSetting

LEMMA EmptyRow == ASSUME NEW M PROVE <<>> \in Rows(M) /\ <<<<>>>> \in Seq(Rows(M))
<1>1. <<>> \in Rows(M)
  BY DEF Rows
<1> HIDE DEF Rows
<1>2. <<<<>>>> \in Seq(Rows(M))
  BY <1>1
<1> QED  BY <1>1, <1>2

LEMMA MapInit == ASSUME NEW M, MapSetting(M), Map(M)!Init PROVE MapInv(M)
<1>1. MapDev(M)
  <2>1. list \in Seq(Rows(M)) /\ list # <<>>
    BY EmptyRow DEF Map!Init
  <2>2. size \in 0 .. M.pages
    BY DEF MapSetting, Map!Init
  <2> QED  BY <2>1, <2>2 DEF MapDev, MapSetting, Map!Init
<1>2. MapFile(M)
  <2>1. f_pos \in [{c1} -> 0 .. M.pages] /\ io \in [{c1} -> {"none", "read", "write"}]
    BY DEF MapSetting, Map!Init
  <2>2. <<0, 0>> \in M.orders \X (M.sets \cup {0})
    BY DEF MapSetting
  <2>3. arg \in [{c1} -> M.orders \X (M.sets \cup {0})]
    BY <2>2 DEF Map!Init
  <2> QED  BY <2>1, <2>3 DEF MapFile, Map!Init
<1>3. \A g \in Map(M)!Page : pages[p1][g] = None
  BY DEF Map!Init
<1>4. MapProc(M)
  <2>1. pages \in [{p1} -> [Map(M)!Page -> M.block \cup {None}]]
    BY DEF Map!Init
  <2>2. seen \in [{p1} -> Int] /\ access \in [{p1} -> Map(M)!Page \cup {None}]
    BY DEF Map!Init
  <2> QED  BY <1>3, <2>1, <2>2 DEF MapProc, Map!Init
<1>5. MapCount
  BY DEF MapCount, Map!Init
<1>6. WholeFor(list, mqset)
  BY DEF WholeFor, Map!Init
<1>7. Map(M)!SharesPages
  BY <1>3 DEF Map!SharesPages
<1> QED  BY <1>1, <1>2, <1>4, <1>5, <1>6, <1>7 DEF MapInv, MapWhole, MapShared, Map!Init

(***************************************************************************)
(* Where a page is: in a slot of the set, and before the end of a quantum. *)
(***************************************************************************)
LEMMA MapPlaces ==
    ASSUME NEW M, NEW g \in Nat, NEW o, 2 ^ o \in Nat \ {0}, NEW s \in Nat \ {0}
    PROVE  /\ Map(M)!Where(g, o, s).item \in Nat \ {0}
           /\ Map(M)!Where(g, o, s).s_pos \in 1 .. s
           /\ Map(M)!Where(g, o, s).q_pos \in 0 .. 2 ^ o - 1
<1> DEFINE q == 2 ^ o
           m == q * s
           r == g % m
<1>1. Map(M)!Where(g, o, s) =
        [item |-> g \div m + 1, s_pos |-> r \div q + 1, q_pos |-> g % q]
  BY DEF Map!Where
<1>2. q \in Nat \ {0}
  OBVIOUS
<1> HIDE DEF q
<1>3. m \in Nat \ {0}
  BY <1>2
<1>4. r \in 0 .. m - 1
  BY <1>3, Dividing
<1>5. r \div q < s
  BY <1>2, <1>4, QuotientBelow
<1>6. g % q \in 0 .. q - 1
  BY <1>2, Dividing
<1> HIDE DEF r
<1>7. r \in Nat
  BY <1>3, <1>4
<1>8. r \div q \in 0 .. r
  BY <1>2, <1>7, Dividing
<1> HIDE DEF m
<1>9. g \div m \in 0 .. g
  BY <1>3, Dividing
<1> QED  BY <1>1, <1>5, <1>6, <1>7, <1>8, <1>9 DEF q

LEMMA MapSingle ==
    ASSUME NEW M, NEW g \in Nat, NEW s \in Nat \ {0}
    PROVE  Map(M)!Where(g, 0, s) = [item |-> g \div s + 1, s_pos |-> (g % s) + 1, q_pos |-> 0]
<1>1. 2 ^ 0 = 1
  OBVIOUS
<1>2. 1 * s = s
  OBVIOUS
<1>3. Map(M)!Where(g, 0, s) = [item |-> g \div s + 1, s_pos |-> (g % s) \div 1 + 1, q_pos |-> g % 1]
  BY <1>1, <1>2 DEF Map!Where
<1>4. g % s \in Nat
  BY Dividing
<1>5. g % 1 = 0 /\ \A r \in Nat : r \div 1 = r
  OBVIOUS
<1> QED  BY <1>3, <1>4, <1>5

(***************************************************************************)
(* scullp_follow, and the array and the block that a write adds.           *)
(***************************************************************************)
Longer(M, l) ==
    /\ l \in Seq(Rows(M)) /\ Len(l) >= Len(list)
    /\ \A a \in 1 .. Len(l) : l[a] = IF a <= Len(list) THEN list[a] ELSE <<>>

GrownTo(M, l) ==
    /\ l \in Seq(Rows(M)) /\ Len(l) >= Len(list)
    /\ \A a \in 1 .. Len(list) : \A b \in 1 .. Len(list[a]) :
        b \in 1 .. Len(l[a]) /\ (list[a][b] # None => l[a][b] = list[a][b])

LEMMA MapFollow ==
    ASSUME NEW M, list \in Seq(Rows(M)), NEW n \in Nat \ {0}
    PROVE  Longer(M, Map(M)!Follow(n)) /\ n \in 1 .. Len(Map(M)!Follow(n))
<1> DEFINE k == IF Len(list) < n THEN n ELSE Len(list)
           l == [a \in 1 .. k |-> IF a <= Len(list) THEN list[a] ELSE <<>>]
<1>1. Map(M)!Follow(n) = l
  BY DEF Map!Follow
<1>2. k \in Nat /\ k >= n /\ k >= Len(list)
  OBVIOUS
<1>3. \A a \in 1 .. k : l[a] \in Rows(M)
  BY EmptyRow
<1> HIDE DEF k
<1>4. l \in Seq(Rows(M)) /\ Len(l) = k
  BY <1>2, <1>3
<1> QED  BY <1>1, <1>2, <1>4 DEF Longer

LEMMA LongerIsGrown ==
    ASSUME NEW M, list \in Seq(Rows(M)), NEW l, Longer(M, l)
    PROVE  GrownTo(M, l) /\ \A s : WholeFor(list, s) => WholeFor(l, s)
<1>1. GrownTo(M, l)
  BY DEF Longer, GrownTo
<1>2. ASSUME NEW s, WholeFor(list, s) PROVE WholeFor(l, s)
  BY <1>2 DEF Longer, WholeFor
<1> QED  BY <1>1, <1>2

LEMMA PutIsGrown ==
    ASSUME NEW M, list \in Seq(Rows(M)), NEW l, Longer(M, l), NEW n \in 1 .. Len(l),
           NEW s \in Nat \ {0}, NEW array,
           array = IF l[n] = <<>> THEN [a \in 1 .. s |-> None] ELSE l[n],
           NEW k \in 1 .. Len(array), NEW b \in M.block \cup {None}, array[k] # None => b = array[k]
    PROVE  LET w == [l EXCEPT ![n] = [array EXCEPT ![k] = b]]
           IN  GrownTo(M, w) /\ (WholeFor(list, s) => WholeFor(w, s))
<1> DEFINE row == [array EXCEPT ![k] = b]
           w == [l EXCEPT ![n] = row]
<1>1. l \in Seq(Rows(M)) /\ Len(l) \in Nat /\ l[n] \in Seq(M.block \cup {None})
  BY DEF Longer, Rows
<1>2. array \in Seq(M.block \cup {None}) /\ Len(array) \in Nat
      /\ Len(array) = IF l[n] = <<>> THEN s ELSE Len(l[n])
  <2>1. CASE l[n] = <<>>
    BY <2>1
  <2>2. CASE l[n] # <<>>
    BY <1>1, <2>2
  <2> QED  BY <2>1, <2>2
<1>3. row \in Rows(M) /\ Len(row) = Len(array)
      /\ \A c \in 1 .. Len(array) : row[c] = IF c = k THEN b ELSE array[c]
  BY <1>2 DEF Rows
<1> HIDE DEF row
<1>4. w \in Seq(Rows(M)) /\ Len(w) = Len(l)
      /\ \A a \in 1 .. Len(l) : w[a] = IF a = n THEN row ELSE l[a]
  BY <1>1, <1>3
<1> HIDE DEF w
<1>5. \A a \in 1 .. Len(l) : l[a] = IF a <= Len(list) THEN list[a] ELSE <<>>
  BY DEF Longer
<1>6. Len(list) \in Nat /\ Len(list) <= Len(l)
  BY DEF Longer
<1>7. ASSUME NEW a \in 1 .. Len(list), NEW c \in 1 .. Len(list[a])
      PROVE  c \in 1 .. Len(w[a]) /\ (list[a][c] # None => w[a][c] = list[a][c])
  <2>1. a \in 1 .. Len(l) /\ l[a] = list[a]
    BY <1>5, <1>6
  <2>2. CASE a # n
    BY <1>4, <2>1, <2>2
  <2>3. CASE a = n
    <3>1. l[n] = list[a] /\ l[n] # <<>>
      BY <2>1, <2>3
    <3>2. array = list[a]
      BY <3>1
    <3>3. w[a] = row
      BY <1>4, <2>1, <2>3
    <3> QED  BY <1>2, <1>3, <3>2, <3>3
  <2> QED  BY <2>2, <2>3
<1>8. GrownTo(M, w)
  BY <1>4, <1>6, <1>7 DEF GrownTo
<1>9. ASSUME WholeFor(list, s) PROVE WholeFor(w, s)
  <2>1. \A a \in 1 .. Len(l) : Len(l[a]) \in {0, s}
    BY <1>9, LongerIsGrown DEF WholeFor
  <2>2. l[n] = <<>> \/ Len(l[n]) # 0
    BY <1>1
  <2>3. Len(row) = s
    BY <1>2, <1>3, <2>1, <2>2
  <2> QED  BY <1>4, <2>1, <2>3 DEF WholeFor
<1> QED  BY <1>8, <1>9 DEF w, row

(***************************************************************************)
(* The steps that leave the device alone, or only its parameters.          *)
(***************************************************************************)
LEMMA MapFileStep ==
    ASSUME NEW M, MapInv(M), MapFile(M)',
           UNCHANGED <<order, mqset, vmas, size, list, mpc, seen, pages, access, stale, spilled>>,
           scullp_order' \in M.orders, scullp_qset' \in M.sets
    PROVE  MapInv(M)'
<1>1. MapDev(M)'
  BY DEF MapInv, MapDev
<1>2. MapProc(M)' /\ MapCount'
  BY DEF MapInv, MapProc, MapCount
<1>3. MapWhole(M)'
  BY DEF MapInv, MapWhole, WholeFor
<1>4. MapShared(M)'
  BY DEF MapInv, MapShared, Map!SharesPages, Map!BlockAt
<1> QED  BY <1>1, <1>2, <1>3, <1>4 DEF MapInv

LEMMA MapIoctl ==
    ASSUME NEW M, MapInv(M), Map(M)!Ioctl
    PROVE  MapInv(M)'
<1>1. /\ UNCHANGED <<order, mqset, vmas, size, list, mpc, seen, pages, access, stale, spilled>>
      /\ UNCHANGED <<io, arg, f_pos>>
  BY DEF Map!Ioctl, Map!devVars, Map!fileVars, Map!procVars, Map!history
<1>2. scullp_order' \in M.orders /\ scullp_qset' \in M.sets
  BY DEF MapInv, MapDev, Map!Ioctl
<1>3. MapFile(M)'
  BY <1>1 DEF MapInv, MapFile
<1> QED  BY <1>1, <1>2, <1>3, MapFileStep

LEMMA MapFeatures ==
    ASSUME NEW M, MapInv(M), NEW op \in {"read", "write"}, Map(M)!Features(c1, op)
    PROVE  MapInv(M)'
<1>1. /\ UNCHANGED <<order, mqset, vmas, size, list, mpc, seen, pages, access, stale, spilled>>
      /\ UNCHANGED <<f_pos, scullp_order, scullp_qset>>
  BY DEF Map!Features, Map!devVars, Map!params, Map!procVars, Map!history
<1>2. <<order, mqset>> \in M.orders \X M.sets
  BY DEF MapInv, MapDev
<1>3. io' = [io EXCEPT ![c1] = op] /\ arg' = [arg EXCEPT ![c1] = <<order, mqset>>]
  BY DEF Map!Features
<1>4. MapFile(M)'
  BY <1>1, <1>2, <1>3 DEF MapInv, MapFile
<1> QED  BY <1>1, <1>4, MapFileStep DEF MapInv, MapDev

LEMMA MapInterrupted ==
    ASSUME NEW M, MapSetting(M), MapInv(M), Map(M)!Interrupted(c1)
    PROVE  MapInv(M)'
<1>1. /\ UNCHANGED <<order, mqset, vmas, size, list, mpc, seen, pages, access, stale, spilled>>
      /\ UNCHANGED <<f_pos, scullp_order, scullp_qset>>
  BY DEF Map!Interrupted, Map!devVars, Map!params, Map!procVars, Map!history
<1>2. <<0, 0>> \in M.orders \X (M.sets \cup {0})
  BY DEF MapSetting
<1>3. io' = [io EXCEPT ![c1] = "none"] /\ arg' = [arg EXCEPT ![c1] = <<0, 0>>]
  BY DEF Map!Interrupted
<1>4. MapFile(M)'
  BY <1>1, <1>2, <1>3 DEF MapInv, MapFile
<1> QED  BY <1>1, <1>4, MapFileStep DEF MapInv, MapDev

LEMMA MapLlseek ==
    ASSUME NEW M, MapSetting(M), MapInv(M), Map(M)!Llseek(c1)
    PROVE  MapInv(M)'
<1>1. /\ UNCHANGED <<order, mqset, vmas, size, list, mpc, seen, pages, access, stale, spilled>>
      /\ UNCHANGED <<io, arg, scullp_order, scullp_qset>>
  BY DEF Map!Llseek, Map!devVars, Map!params, Map!procVars, Map!history
<1>2. PICK n \in Map(M)!Page : f_pos' = [f_pos EXCEPT ![c1] = n]
  BY DEF Map!Llseek
<1>3. n \in 0 .. M.pages
  BY DEF Map!Page, MapSetting
<1>4. MapFile(M)'
  BY <1>1, <1>2, <1>3 DEF MapInv, MapFile
<1> QED  BY <1>1, <1>4, MapFileStep DEF MapInv, MapDev

LEMMA MapTrim ==
    ASSUME NEW M, MapSetting(M), MapInv(M), Map(M)!Trim
    PROVE  MapInv(M)'
<1>1. /\ vmas = 0 /\ list' = <<<<>>>> /\ size' = 0 /\ order' = scullp_order
      /\ mqset' = scullp_qset
      /\ UNCHANGED <<scullp_order, scullp_qset, vmas, io, arg, f_pos, mpc, seen, pages, access,
                     stale>>
  BY DEF Map!Trim, Map!MayTrim, Map!params, Map!fileVars, Map!procVars
<1>2. spilled' = (\E a \in 1 .. Len(list) : Len(list[a]) \in 1 .. mqset - 1)
  BY DEF Map!Trim
<1>3. MapDev(M)'
  <2>1. list' \in Seq(Rows(M)) /\ list' # <<>>
    BY <1>1, EmptyRow
  <2>2. size' \in 0 .. M.pages
    BY <1>1 DEF MapSetting
  <2> QED  BY <1>1, <1>2, <2>1, <2>2 DEF MapInv, MapDev
<1>4. MapFile(M)' /\ MapProc(M)' /\ MapCount'
  BY <1>1 DEF MapInv, MapFile, MapProc, MapCount
<1>5. MapWhole(M)'
  <2> SUFFICES ASSUME M.orders = {0}, ~stale PROVE ~spilled' /\ WholeFor(list', mqset')
    BY <1>1 DEF MapWhole
  <2>1. WholeFor(list, mqset) /\ mqset \in Nat
    BY DEF MapInv, MapWhole, MapDev, MapSetting
  <2>2. \A a \in 1 .. Len(list) : Len(list[a]) \notin 1 .. mqset - 1
    BY <2>1 DEF WholeFor
  <2> QED  BY <1>1, <1>2, <2>2 DEF WholeFor
<1>6. MapShared(M)'
  <2>1. mpc[p1] # "mapped"
    BY <1>1 DEF MapInv, MapCount
  <2>2. \A g \in Map(M)!Page : pages'[p1][g] = None
    BY <1>1, <2>1 DEF MapInv, MapProc
  <2> QED  BY <1>1, <2>2 DEF MapInv, MapShared, Map!SharesPages
<1> QED  BY <1>3, <1>4, <1>5, <1>6 DEF MapInv

(***************************************************************************)
(* A call that has the mutex: what it may do to the device.                *)
(***************************************************************************)
Body(M) ==
    /\ GrownTo(M, list') /\ size' \in 0 .. M.pages /\ size' >= size
    /\ f_pos' \in [{c1} -> 0 .. M.pages] /\ spilled' \in BOOLEAN
    /\ order = 0 /\ arg[c1] = <<0, mqset>> /\ WholeFor(list, mqset) =>
        spilled' = spilled /\ WholeFor(list', mqset)

LEMMA MapNothing ==
    ASSUME NEW M, MapInv(M), NEW l, Map(M)!Nothing(l), GrownTo(M, l),
           WholeFor(list, arg[c1][2]) => WholeFor(l, arg[c1][2])
    PROVE  Body(M)
<1>1. list' = l /\ UNCHANGED <<size, f_pos, spilled>>
  BY DEF Map!Nothing
<1>2. size \in 0 .. M.pages /\ f_pos \in [{c1} -> 0 .. M.pages] /\ spilled \in BOOLEAN
  BY DEF MapInv, MapDev, MapFile
<1>3. size' \in 0 .. M.pages /\ size' >= size
  BY <1>1, <1>2
<1> QED  BY <1>1, <1>2, <1>3 DEF Body

LEMMA ListIsGrown == ASSUME NEW M, MapInv(M) PROVE GrownTo(M, list)
BY DEF MapInv, MapDev, GrownTo

LEMMA MapOops ==
    ASSUME NEW M, MapInv(M), Map(M)!FollowOops(c1)
    PROVE  Body(M)
<1>1. UNCHANGED <<list, size, f_pos, spilled>>
  BY DEF Map!FollowOops
<1>2. size \in 0 .. M.pages /\ f_pos \in [{c1} -> 0 .. M.pages] /\ spilled \in BOOLEAN
  BY DEF MapInv, MapDev, MapFile
<1>3. size' \in 0 .. M.pages /\ size' >= size
  BY <1>1, <1>2
<1> QED  BY <1>1, <1>2, <1>3, ListIsGrown DEF Body

LEMMA MapOverrun ==
    ASSUME NEW M, MapInv(M), Map(M)!Overrun,
           ~(order = 0 /\ arg[c1] = <<0, mqset>> /\ WholeFor(list, mqset))
    PROVE  Body(M)
<1>1. spilled' = TRUE /\ UNCHANGED <<list, size, f_pos>>
  BY DEF Map!Overrun
<1>2. size \in 0 .. M.pages /\ f_pos \in [{c1} -> 0 .. M.pages]
  BY DEF MapInv, MapDev, MapFile
<1>3. size' \in 0 .. M.pages /\ size' >= size
  BY <1>1, <1>2
<1> QED  BY <1>1, <1>2, <1>3, ListIsGrown DEF Body

LEMMA CallPlace ==
    ASSUME NEW M, MapSetting(M), MapInv(M), io[c1] # "none"
    PROVE  /\ Map(M)!At(c1).item \in Nat \ {0} /\ Map(M)!At(c1).s_pos \in 1 .. arg[c1][2]
           /\ Map(M)!Room(c1) \in Nat \ {0} /\ Map(M)!At(c1).q_pos \in Nat
           /\ f_pos[c1] \in 0 .. M.pages /\ arg[c1][2] \in Nat \ {0}
           /\ order = 0 /\ arg[c1] = <<0, mqset>> =>
                /\ Map(M)!At(c1).q_pos = 0 /\ Map(M)!Room(c1) = 1
                /\ \A a : Map(M)!BlockPages(a) = 1
<1> DEFINE o == arg[c1][1]
           s == arg[c1][2]
           g == f_pos[c1]
           w == Map(M)!At(c1)
<1>1. o \in M.orders /\ s \in M.sets /\ g \in 0 .. M.pages
  BY DEF MapInv, MapFile
<1>2. 2 ^ o \in Nat \ {0} /\ s \in Nat \ {0} /\ g \in Nat
  BY <1>1 DEF MapSetting
<1>3. w = Map(M)!Where(g, o, s) /\ Map(M)!Room(c1) = 2 ^ o - w.q_pos
  BY DEF Map!At, Map!Room
<1>4. w.item \in Nat \ {0} /\ w.s_pos \in 1 .. s /\ w.q_pos \in 0 .. 2 ^ o - 1
  BY <1>2, <1>3, MapPlaces
<1>5. Map(M)!Room(c1) \in Nat \ {0} /\ w.q_pos \in Nat
  <2> DEFINE q == 2 ^ o
  <2>1. q \in Nat \ {0} /\ w.q_pos \in 0 .. q - 1 /\ Map(M)!Room(c1) = q - w.q_pos
    BY <1>2, <1>3, <1>4
  <2> HIDE DEF q, w
  <2> QED  BY <2>1
<1>6. ASSUME order = 0, arg[c1] = <<0, mqset>>
      PROVE  w.q_pos = 0 /\ Map(M)!Room(c1) = 1 /\ \A a : Map(M)!BlockPages(a) = 1
  <2>1. 2 ^ 0 = 1 /\ o = 0
    BY <1>6
  <2>2. w.q_pos = 0
    BY <1>2, <1>3, <2>1, MapSingle
  <2>3. Map(M)!Room(c1) = 1 - 0
    BY <1>3, <2>1, <2>2
  <2> QED  BY <1>6, <2>1, <2>2, <2>3 DEF Map!BlockPages
<1> HIDE DEF w
<1> QED  BY <1>1, <1>2, <1>4, <1>5, <1>6 DEF w

LEMMA LeastOf ==
    ASSUME NEW M, NEW a \in Int, NEW b \in Int
    PROVE  /\ Map(M)!Least(a, b) \in {a, b} /\ Map(M)!Least(a, b) \in Int
           /\ Map(M)!Least(a, b) <= a /\ Map(M)!Least(a, b) <= b
BY DEF Map!Least

LEMMA MapReads ==
    ASSUME NEW M, MapSetting(M), MapInv(M), Map(M)!Read(c1)
    PROVE  Body(M)
<1> DEFINE w == Map(M)!At(c1)
           l == Map(M)!Follow(w.item)
           s == arg[c1][2]
           Single == order = 0 /\ arg[c1] = <<0, mqset>> /\ WholeFor(list, mqset)
<1>1. io[c1] # "none"
  BY DEF Map!Read, Map!Start
<1>2. list \in Seq(Rows(M)) /\ size \in 0 .. M.pages /\ M.pages \in Nat
  BY DEF MapInv, MapDev, MapSetting
<1>3. /\ w.item \in Nat \ {0} /\ w.s_pos \in 1 .. s
      /\ Map(M)!Room(c1) \in Nat \ {0} /\ w.q_pos \in Nat
      /\ f_pos[c1] \in 0 .. M.pages /\ s \in Nat \ {0}
      /\ Single => w.q_pos = 0 /\ Map(M)!Room(c1) = 1 /\ \A a : Map(M)!BlockPages(a) = 1
  BY <1>1, CallPlace
<1>4. Longer(M, l) /\ w.item \in 1 .. Len(l)
  BY <1>2, <1>3, MapFollow
<1>5. GrownTo(M, l) /\ (WholeFor(list, s) => WholeFor(l, s))
  BY <1>2, <1>4, LongerIsGrown
<1>6. CASE f_pos[c1] > size
  <2>1. Map(M)!Nothing(list)
    BY <1>6 DEF Map!Read
  <2> QED  BY <2>1, MapNothing, ListIsGrown
<1>7. CASE Map(M)!FollowOops(c1)
  BY <1>7, MapOops
<1>8. CASE ~(f_pos[c1] > size) /\ ~Map(M)!FollowOops(c1)
  <2>1. PICK n \in 0 .. M.pages :
          LET c == Map(M)!Least(Map(M)!Least(n, size - f_pos[c1]), Map(M)!Room(c1))
          IN  IF l[w.item] = <<>> THEN Map(M)!Nothing(l)
              ELSE IF w.s_pos > Len(l[w.item]) THEN Map(M)!Overrun
              ELSE IF l[w.item][w.s_pos] = None THEN Map(M)!Nothing(l)
              ELSE IF w.q_pos + c > Map(M)!BlockPages(w.item) THEN Map(M)!Overrun
              ELSE \/ Map(M)!Nothing(l)
                   \/ /\ list' = l /\ f_pos' = [f_pos EXCEPT ![c1] = @ + c]
                      /\ UNCHANGED <<size, spilled, oops>>
    BY <1>8 DEF Map!Read
  <2> DEFINE c == Map(M)!Least(Map(M)!Least(n, size - f_pos[c1]), Map(M)!Room(c1))
  <2>2. c \in Nat /\ c <= size - f_pos[c1] /\ c <= Map(M)!Room(c1)
    <3>1. size - f_pos[c1] \in Nat /\ n \in Nat /\ Map(M)!Room(c1) \in Nat
      BY <1>2, <1>3, <1>8
    <3> DEFINE e == Map(M)!Least(n, size - f_pos[c1])
    <3>2. e \in Nat /\ e <= size - f_pos[c1]
      BY <3>1, LeastOf
    <3> HIDE DEF e
    <3>3. Map(M)!Least(e, Map(M)!Room(c1)) \in Nat /\ Map(M)!Least(e, Map(M)!Room(c1)) <= e
          /\ Map(M)!Least(e, Map(M)!Room(c1)) <= Map(M)!Room(c1)
      BY <3>1, <3>2, LeastOf
    <3> QED  BY <3>1, <3>2, <3>3 DEF e
  <2> HIDE DEF c
  <2>3. CASE Map(M)!Nothing(l)
    BY <1>5, <2>3, MapNothing
  <2>4. CASE Map(M)!Overrun /\ l[w.item] # <<>> /\ w.s_pos > Len(l[w.item])
    <3>1. ASSUME Single PROVE FALSE
      <4>1. WholeFor(l, s)
        BY <1>5, <3>1
      <4>2. Len(l[w.item]) \in {0, s} /\ l[w.item] \in Seq(M.block \cup {None})
        BY <1>4, <4>1 DEF WholeFor, Longer, Rows
      <4>3. Len(l[w.item]) = s
        BY <2>4, <4>2
      <4> HIDE DEF w, l, s
      <4> QED  BY <1>3, <2>4, <4>3
    <3> QED  BY <2>4, <3>1, MapOverrun
  <2>5. CASE Map(M)!Overrun /\ w.q_pos + c > Map(M)!BlockPages(w.item)
    <3>1. ASSUME Single PROVE FALSE
      <4>1. w.q_pos = 0 /\ Map(M)!Room(c1) = 1 /\ Map(M)!BlockPages(w.item) = 1
        BY <1>3, <3>1
      <4>2. 0 + c > 1 /\ c <= 1
        BY <2>2, <2>5, <4>1
      <4> QED  BY <2>2, <4>2
    <3> QED  BY <2>5, <3>1, MapOverrun
  <2>6. CASE /\ list' = l /\ f_pos' = [f_pos EXCEPT ![c1] = @ + c]
             /\ UNCHANGED <<size, spilled, oops>>
    <3>1. f_pos[c1] + c \in 0 .. M.pages
      BY <1>2, <1>3, <2>2
    <3>2. f_pos \in [{c1} -> 0 .. M.pages] /\ spilled \in BOOLEAN
      BY DEF MapInv, MapDev, MapFile
    <3>3. f_pos' \in [{c1} -> 0 .. M.pages]
      BY <2>6, <3>1, <3>2
    <3>4. size' = size /\ spilled' = spilled /\ list' = l
      BY <2>6
    <3>5. size' \in 0 .. M.pages /\ size' >= size
      BY <1>2, <3>4
    <3>6. Single => WholeFor(list', mqset)
      BY <1>5, <3>4
    <3> HIDE DEF l, w, s
    <3> QED  BY <1>5, <3>2, <3>3, <3>4, <3>5, <3>6 DEF Body
  <2> QED  BY <2>1, <2>3, <2>4, <2>5, <2>6 DEF c
<1> QED  BY <1>6, <1>7, <1>8

LEMMA MapWrites ==
    ASSUME NEW M, MapSetting(M), MapInv(M), Map(M)!Write(c1)
    PROVE  Body(M)
<1> DEFINE w == Map(M)!At(c1)
           l == Map(M)!Follow(w.item)
           s == arg[c1][2]
           array == IF l[w.item] = <<>> THEN [a \in 1 .. s |-> None] ELSE l[w.item]
           With(b) == [l EXCEPT ![w.item] = [array EXCEPT ![w.s_pos] = b]]
           Fits(n) == Map(M)!Fits(c1, n)
           Single == order = 0 /\ arg[c1] = <<0, mqset>> /\ WholeFor(list, mqset)
<1>1. io[c1] # "none"
  BY DEF Map!Write, Map!Start
<1>2. list \in Seq(Rows(M)) /\ size \in 0 .. M.pages /\ M.pages \in Nat
  BY DEF MapInv, MapDev, MapSetting
<1>3. /\ w.item \in Nat \ {0} /\ w.s_pos \in 1 .. s
      /\ Map(M)!Room(c1) \in Nat \ {0} /\ w.q_pos \in Nat
      /\ f_pos[c1] \in 0 .. M.pages /\ s \in Nat \ {0}
      /\ Single => w.q_pos = 0 /\ Map(M)!Room(c1) = 1 /\ \A a : Map(M)!BlockPages(a) = 1
  BY <1>1, CallPlace
<1>4. Longer(M, l) /\ w.item \in 1 .. Len(l)
  BY <1>2, <1>3, MapFollow
<1>5. GrownTo(M, l) /\ (WholeFor(list, s) => WholeFor(l, s))
  BY <1>2, <1>4, LongerIsGrown
<1>6. CASE Map(M)!FollowOops(c1)
  BY <1>6, MapOops
<1>7. CASE ~Map(M)!FollowOops(c1)
  <2>1. PICK n \in 0 .. M.pages - f_pos[c1] :
          \/ l[w.item] = <<>> /\ Map(M)!Nothing(l)
          \/ w.s_pos > Len(array) /\ Map(M)!Overrun
          \/ /\ w.s_pos <= Len(array)
             /\ \/ array[w.s_pos] = None /\ Map(M)!Nothing(With(None))
                \/ \E b \in IF array[w.s_pos] # None THEN {array[w.s_pos]}
                            ELSE IF Map(M)!Unused = {} THEN {}
                            ELSE {CHOOSE u \in Map(M)!Unused : TRUE} :
                   \/ w.q_pos + Fits(n) > Map(M)!BlockPages(w.item) /\ Map(M)!Overrun
                   \/ /\ w.q_pos + Fits(n) <= Map(M)!BlockPages(w.item)
                      /\ \/ Map(M)!Nothing(With(b))
                         \/ /\ list' = With(b)
                            /\ f_pos' = [f_pos EXCEPT ![c1] = @ + Fits(n)]
                            /\ size' = IF size < f_pos'[c1] THEN f_pos'[c1] ELSE size
                            /\ UNCHANGED <<spilled, oops>>
    BY <1>7 DEF Map!Write
  <2>2. n \in Nat /\ f_pos[c1] + n <= M.pages
    BY <1>2, <1>3
  <2>3. Fits(n) \in Nat /\ Fits(n) <= n /\ Fits(n) <= Map(M)!Room(c1)
    <3>1. Map(M)!Least(n, Map(M)!Room(c1)) \in Nat /\ Map(M)!Least(n, Map(M)!Room(c1)) <= n
          /\ Map(M)!Least(n, Map(M)!Room(c1)) <= Map(M)!Room(c1)
      BY <1>3, <2>2, LeastOf
    <3> QED  BY <3>1 DEF Map!Fits
  <2>4. ASSUME w.s_pos \in 1 .. Len(array), NEW b \in M.block \cup {None},
               array[w.s_pos] # None => b = array[w.s_pos]
        PROVE  GrownTo(M, With(b)) /\ (WholeFor(list, s) => WholeFor(With(b), s))
    <3> HIDE DEF w, l, s
    <3> QED  BY <1>2, <1>3, <1>4, <2>4, PutIsGrown
  <2> HIDE DEF Fits
  <2>5. CASE Map(M)!Nothing(l)
    BY <1>5, <2>5, MapNothing
  <2>6. Len(array) \in Nat
    BY <1>3, <1>4, SMTT(30) DEF Longer, Rows
  <2>7. CASE w.s_pos > Len(array) /\ Map(M)!Overrun
    <3>1. ASSUME Single PROVE FALSE
      <4>1. WholeFor(l, s)
        BY <1>5, <3>1
      <4>2. Len(l[w.item]) \in {0, s} /\ l[w.item] \in Seq(M.block \cup {None})
        BY <1>4, <4>1 DEF WholeFor, Longer, Rows
      <4>3. l[w.item] # <<>> => Len(array) = s
        BY <4>2
      <4>4. l[w.item] = <<>> => Len(array) = s
        BY <1>3
      <4> HIDE DEF w, l, s, array
      <4> QED  BY <1>3, <2>7, <4>3, <4>4
    <3> QED  BY <2>7, <3>1, MapOverrun
  <2>8. CASE w.s_pos <= Len(array) /\ array[w.s_pos] = None /\ Map(M)!Nothing(With(None))
    <3>1. w.s_pos \in 1 .. Len(array)
      BY <1>3, <2>6, <2>8
    <3>2. GrownTo(M, With(None)) /\ (WholeFor(list, s) => WholeFor(With(None), s))
      BY <2>4, <2>8, <3>1
    <3> QED  BY <2>8, <3>2, MapNothing
  <2>9. ASSUME w.s_pos <= Len(array),
               NEW b \in IF array[w.s_pos] # None THEN {array[w.s_pos]}
                         ELSE IF Map(M)!Unused = {} THEN {}
                         ELSE {CHOOSE u \in Map(M)!Unused : TRUE},
               \/ w.q_pos + Fits(n) > Map(M)!BlockPages(w.item) /\ Map(M)!Overrun
               \/ /\ w.q_pos + Fits(n) <= Map(M)!BlockPages(w.item)
                  /\ \/ Map(M)!Nothing(With(b))
                     \/ /\ list' = With(b)
                        /\ f_pos' = [f_pos EXCEPT ![c1] = @ + Fits(n)]
                        /\ size' = IF size < f_pos'[c1] THEN f_pos'[c1] ELSE size
                        /\ UNCHANGED <<spilled, oops>>
        PROVE  Body(M)
    <3>1. w.s_pos \in 1 .. Len(array)
      BY <1>3, <2>6, <2>9
    <3>2. array[w.s_pos] \in M.block \cup {None}
      <4>1. l[w.item] \in Seq(M.block \cup {None})
        BY <1>4 DEF Longer, Rows
      <4>2. CASE l[w.item] = <<>>
        <5>1. array = [a \in 1 .. s |-> None]
          BY <4>2
        <5> QED  BY <1>3, <5>1
      <4>3. CASE l[w.item] # <<>>
        BY <3>1, <4>1, <4>3
      <4> QED  BY <4>2, <4>3
    <3>3. b \in M.block \cup {None} /\ (array[w.s_pos] # None => b = array[w.s_pos])
      <4>1. CASE array[w.s_pos] # None
        BY <3>2, <4>1
      <4>2. CASE array[w.s_pos] = None
        <5>1. Map(M)!Unused # {} /\ b = CHOOSE u \in Map(M)!Unused : TRUE
          BY <2>9, <4>2
        <5>2. b \in Map(M)!Unused
          BY <5>1
        <5> QED  BY <4>2, <5>2 DEF Map!Unused
      <4> QED  BY <4>1, <4>2
    <3>4. GrownTo(M, With(b)) /\ (WholeFor(list, s) => WholeFor(With(b), s))
      BY <2>4, <3>1, <3>3
    <3>5. CASE w.q_pos + Fits(n) > Map(M)!BlockPages(w.item) /\ Map(M)!Overrun
      <4>1. ASSUME Single PROVE FALSE
        <5>1. w.q_pos = 0 /\ Map(M)!Room(c1) = 1 /\ Map(M)!BlockPages(w.item) = 1
          BY <1>3, <4>1
        <5>2. 0 + Fits(n) > 1 /\ Fits(n) <= 1
          BY <2>3, <3>5, <5>1
        <5> QED  BY <2>3, <5>2
      <4> QED  BY <3>5, <4>1, MapOverrun
    <3>6. CASE Map(M)!Nothing(With(b))
      <4> HIDE DEF With, s
      <4> QED  BY <3>4, <3>6, MapNothing DEF s
    <3>7. CASE /\ list' = With(b) /\ f_pos' = [f_pos EXCEPT ![c1] = @ + Fits(n)]
               /\ size' = IF size < f_pos'[c1] THEN f_pos'[c1] ELSE size
               /\ UNCHANGED <<spilled, oops>>
      <4> HIDE DEF With
      <4>1. f_pos \in [{c1} -> 0 .. M.pages] /\ spilled \in BOOLEAN
        BY DEF MapInv, MapDev, MapFile
      <4>2. f_pos[c1] + Fits(n) \in 0 .. M.pages
        BY <1>2, <1>3, <2>2, <2>3, SMTT(30)
      <4>3. f_pos' \in [{c1} -> 0 .. M.pages]
        BY <3>7, <4>1, <4>2
      <4>4. f_pos'[c1] \in 0 .. M.pages /\ size' = IF size < f_pos'[c1] THEN f_pos'[c1] ELSE size
        BY <3>7, <4>3
      <4>5. size' \in 0 .. M.pages /\ size' >= size
        BY <1>2, <4>4
      <4>6. list' = With(b) /\ spilled' = spilled
        BY <3>7
      <4>7. Single => WholeFor(list', mqset)
        BY <3>4, <4>6
      <4> HIDE DEF w, l, s, array
      <4> QED  BY <3>4, <4>1, <4>3, <4>5, <4>6, <4>7 DEF Body
    <3> QED  BY <2>9, <3>5, <3>6, <3>7
  <2> QED  BY <2>1, <2>5, <2>7, <2>8, <2>9
<1> QED  BY <1>6, <1>7

LEMMA MapCall ==
    ASSUME NEW M, MapSetting(M), MapInv(M), NEW op \in {"read", "write"},
           Map(M)!Start(c1, op), Body(M)
    PROVE  MapInv(M)'
<1>1. /\ io[c1] = op /\ io' = [io EXCEPT ![c1] = "none"] /\ arg' = [arg EXCEPT ![c1] = <<0, 0>>]
      /\ UNCHANGED <<scullp_order, scullp_qset, order, mqset, vmas, mpc, seen, pages, access>>
  BY DEF Map!Start, Map!params, Map!procVars
<1>2. stale' = (stale \/ arg[c1] # <<order, mqset>>)
  BY DEF Map!Start
<1>3. MapFile(M)'
  <2>1. <<0, 0>> \in M.orders \X (M.sets \cup {0})
    BY DEF MapSetting
  <2> QED  BY <1>1, <2>1 DEF MapInv, MapFile, Body
<1>4. MapDev(M)'
  <2>1. list' \in Seq(Rows(M)) /\ list' # <<>>
    <3>1. list' \in Seq(Rows(M)) /\ Len(list') >= Len(list) /\ list \in Seq(Rows(M)) /\ list # <<>>
      BY DEF Body, GrownTo, MapInv, MapDev
    <3>2. Len(list) # 0
      BY <3>1
    <3> QED  BY <3>1, <3>2
  <2> QED  BY <1>1, <1>2, <2>1 DEF MapInv, MapDev, Body
<1>5. MapProc(M)' /\ MapCount'
  BY <1>1 DEF MapInv, MapProc, MapCount
<1>6. arg[c1] \in M.orders \X M.sets /\ arg[c1] = <<arg[c1][1], arg[c1][2]>>
  BY <1>1 DEF MapInv, MapFile
<1>7. MapWhole(M)'
  <2> SUFFICES ASSUME M.orders = {0}, ~stale' PROVE ~spilled' /\ WholeFor(list', mqset')
    BY DEF MapWhole
  <2>1. ~stale /\ order = 0 /\ arg[c1] = <<0, mqset>>
    BY <1>2 DEF MapInv, MapDev
  <2>2. ~spilled /\ WholeFor(list, mqset)
    BY <2>1 DEF MapInv, MapWhole
  <2> QED  BY <1>1, <2>1, <2>2 DEF Body
<1>8. MapShared(M)'
  <2> SUFFICES ASSUME M.orders = {0}, NEW s, M.sets = {s} PROVE ~stale' /\ Map(M)!SharesPages'
    BY DEF MapShared
  <2>1. ~stale /\ Map(M)!SharesPages
    BY DEF MapInv, MapShared
  <2>2. order = 0 /\ mqset = s /\ arg[c1] = <<0, s>>
    BY <1>6 DEF MapInv, MapDev
  <2>3. ~stale'
    BY <1>2, <2>1, <2>2
  <2>4. s \in Nat \ {0} /\ M.pages \in Nat
    BY DEF MapSetting
  <2>5. ASSUME NEW g \in Map(M)!Page, pages[p1][g] # None
        PROVE  g < size' /\ pages[p1][g] = Map(M)!BlockAt(g)'
    <3> DEFINE w == Map(M)!Where(g, 0, s)
    <3>1. g < size /\ pages[p1][g] = Map(M)!BlockAt(g) /\ g \in Nat
      BY <2>1, <2>4, <2>5 DEF Map!SharesPages, Map!Page
    <3>2. g < size'
      <4>1. size \in Int /\ size' \in Int /\ size' >= size
        BY <2>4 DEF Body, MapInv, MapDev
      <4> QED  BY <3>1, <4>1
    <3>3. w.item \in Nat \ {0} /\ w.s_pos \in Nat \ {0}
      <4>1. 2 ^ 0 \in Nat \ {0}
        OBVIOUS
      <4>2. w.item \in Nat \ {0} /\ w.s_pos \in 1 .. s
        BY <2>4, <3>1, <4>1, MapPlaces
      <4> HIDE DEF w
      <4> QED  BY <4>2
    <3>4. Map(M)!BlockAt(g) = IF w.item <= Len(list) /\ w.s_pos <= Len(list[w.item])
                              THEN list[w.item][w.s_pos] ELSE None
      BY <2>2 DEF Map!BlockAt
    <3>5. Map(M)!BlockAt(g)' = IF w.item <= Len(list') /\ w.s_pos <= Len(list'[w.item])
                               THEN list'[w.item][w.s_pos] ELSE None
      BY <1>1, <2>2 DEF Map!BlockAt
    <3> HIDE DEF w
    <3>6. /\ w.item <= Len(list) /\ w.s_pos <= Len(list[w.item])
          /\ pages[p1][g] = list[w.item][w.s_pos]
      BY <2>5, <3>1, <3>4
    <3>7. list \in Seq(Rows(M)) /\ w.item \in 1 .. Len(list)
      BY <3>3, <3>6 DEF MapInv, MapDev
    <3>8. list[w.item] \in Seq(M.block \cup {None}) /\ w.s_pos \in 1 .. Len(list[w.item])
      BY <3>3, <3>6, <3>7 DEF Rows
    <3>9. /\ w.s_pos \in 1 .. Len(list'[w.item]) /\ list'[w.item][w.s_pos] = list[w.item][w.s_pos]
          /\ Len(list') >= Len(list) /\ list' \in Seq(Rows(M))
      BY <2>5, <3>6, <3>7, <3>8 DEF Body, GrownTo
    <3>10. w.item <= Len(list') /\ w.s_pos <= Len(list'[w.item])
      BY <3>7, <3>9 DEF Rows
    <3> QED  BY <3>2, <3>5, <3>6, <3>9, <3>10
  <2> QED  BY <1>1, <2>3, <2>5 DEF Map!SharesPages
<1> QED  BY <1>3, <1>4, <1>5, <1>7, <1>8 DEF MapInv

(***************************************************************************)
(* The process that maps.                                                  *)
(***************************************************************************)
LEMMA MapProcStep ==
    ASSUME NEW M, MapInv(M), Map(M)!UnchangedButProc, MapProc(M)', MapCount',
           \A g \in Map(M)!Page : pages'[p1][g] # None =>
                pages'[p1][g] = pages[p1][g] \/ (pages'[p1][g] = Map(M)!BlockAt(g) /\ g < size)
    PROVE  MapInv(M)'
<1>1. UNCHANGED <<scullp_order, scullp_qset, order, mqset, size, list, io, arg, f_pos, stale,
                  spilled>>
  BY DEF Map!UnchangedButProc, Map!params, Map!fileVars, Map!history
<1>2. MapDev(M)' /\ MapFile(M)'
  BY <1>1 DEF MapInv, MapDev, MapFile
<1>3. MapWhole(M)'
  BY <1>1 DEF MapInv, MapWhole, WholeFor
<1>4. \A g : Map(M)!BlockAt(g)' = Map(M)!BlockAt(g)
  BY <1>1 DEF Map!BlockAt
<1>5. MapShared(M)'
  <2> SUFFICES ASSUME M.orders = {0}, NEW s, M.sets = {s} PROVE ~stale' /\ Map(M)!SharesPages'
    BY DEF MapShared
  <2>1. ~stale /\ Map(M)!SharesPages
    BY DEF MapInv, MapShared
  <2>2. ASSUME NEW g \in Map(M)!Page, pages'[p1][g] # None
        PROVE  g < size' /\ pages'[p1][g] = Map(M)!BlockAt(g)'
    BY <1>1, <1>4, <2>1, <2>2 DEF Map!SharesPages
  <2> QED  BY <1>1, <2>1, <2>2 DEF Map!SharesPages
<1> QED  BY <1>2, <1>3, <1>5 DEF MapInv

LEMMA MapMoves ==
    ASSUME NEW M, MapInv(M),
           Map(M)!ScullpMmap(p1) \/ Map(M)!ScullvMmap(p1) \/ Map(M)!SculldMmap(p1)
           \/ Map(M)!VmaOpen(p1) \/ Map(M)!VmaClose(p1) \/ Map(M)!Munmap(p1)
    PROVE  MapInv(M)'
<1>1. Map(M)!UnchangedButProc /\ access' = access
  BY DEF Map!ScullpMmap, Map!ScullvMmap, Map!SculldMmap, Map!VmaOpen, Map!VmaClose, Map!Munmap,
         Map!ReadVmas, Map!WriteVmas
<1>2. CASE Map(M)!Munmap(p1)
  <2>1. /\ mpc[p1] = "mapped" /\ mpc' = [mpc EXCEPT ![p1] = "close_read"] /\ access[p1] = None
        /\ pages' = [pages EXCEPT ![p1] = [g \in Map(M)!Page |-> None]]
        /\ UNCHANGED <<vmas, seen, access>>
    BY <1>2 DEF Map!Munmap, Map!Go
  <2>2. \A g \in Map(M)!Page : pages'[p1][g] = None
    BY <2>1 DEF MapInv, MapProc
  <2>3. pages' \in [{p1} -> [Map(M)!Page -> M.block \cup {None}]]
    BY <2>1 DEF MapInv, MapProc
  <2>4. mpc' \in [{p1} -> {"unmapped", "open_read", "open_write", "mapped", "close_read",
                           "close_write"}] /\ mpc'[p1] = "close_read"
    BY <2>1 DEF MapInv, MapProc
  <2>5. MapProc(M)'
    BY <2>1, <2>2, <2>3, <2>4 DEF MapInv, MapProc
  <2>6. MapCount'
    BY <2>1, <2>4 DEF MapInv, MapCount
  <2> QED  BY <1>1, <2>2, <2>5, <2>6, MapProcStep
<1>3. ASSUME ~Map(M)!Munmap(p1) PROVE MapInv(M)'
  <2>1. /\ pages' = pages
        /\ \/ /\ mpc[p1] = "unmapped" /\ mpc' = [mpc EXCEPT ![p1] = "open_read"]
              /\ UNCHANGED <<vmas, seen>>
           \/ /\ mpc[p1] = "open_read" /\ mpc' = [mpc EXCEPT ![p1] = "open_write"]
              /\ seen' = [seen EXCEPT ![p1] = vmas] /\ UNCHANGED vmas
           \/ /\ mpc[p1] = "open_write" /\ mpc' = [mpc EXCEPT ![p1] = "mapped"]
              /\ vmas' = seen[p1] + 1 /\ seen' = [seen EXCEPT ![p1] = 0]
           \/ /\ mpc[p1] = "close_read" /\ mpc' = [mpc EXCEPT ![p1] = "close_write"]
              /\ seen' = [seen EXCEPT ![p1] = vmas] /\ UNCHANGED vmas
           \/ /\ mpc[p1] = "close_write" /\ mpc' = [mpc EXCEPT ![p1] = "unmapped"]
              /\ vmas' = seen[p1] - 1 /\ seen' = [seen EXCEPT ![p1] = 0]
    BY <1>3 DEF Map!ScullpMmap, Map!ScullvMmap, Map!SculldMmap, Map!VmaOpen, Map!VmaClose,
                Map!ReadVmas, Map!WriteVmas, Map!OneLess, Map!Go
  <2>2. MapProc(M) /\ MapCount
    BY DEF MapInv
  <2>3. vmas \in Int /\ mpc \in [{p1} -> {"unmapped", "open_read", "open_write", "mapped",
                                          "close_read", "close_write"}]
    BY <2>2 DEF MapProc, MapCount
  <2>4. mpc' \in [{p1} -> {"unmapped", "open_read", "open_write", "mapped", "close_read",
                           "close_write"}]
    BY <2>1, <2>3
  <2>5. seen' \in [{p1} -> Int]
    BY <2>1, <2>2, <2>3 DEF MapProc
  <2>6. mpc[p1] # "mapped" /\ access'[p1] = None
    BY <1>1, <2>1, <2>2, <2>3 DEF MapProc
  <2>7. MapProc(M)'
    BY <1>1, <2>1, <2>2, <2>4, <2>5, <2>6 DEF MapProc
  <2>8. MapCount'
    BY <2>1, <2>2, <2>3 DEF MapProc, MapCount
  <2> QED  BY <1>1, <2>1, <2>7, <2>8, MapProcStep
<1> QED  BY <1>2, <1>3

LEMMA MapTouches ==
    ASSUME NEW M, MapSetting(M), MapInv(M),
           \/ Map(M)!Touched(p1) \/ \E g \in Map(M)!Page : Map(M)!Touch(p1, g)
           \/ Map(M)!ScullpNopage(p1) \/ Map(M)!ScullvNopage(p1) \/ Map(M)!SculldNopage(p1)
    PROVE  MapInv(M)'
<1>1. Map(M)!UnchangedButProc /\ UNCHANGED <<vmas, mpc, seen>>
  BY DEF Map!Touched, Map!Touch, Map!ScullpNopage, Map!ScullvNopage, Map!SculldNopage, Map!Nopage,
         Map!Fault
<1>2. MapProc(M) /\ MapCount'
  BY <1>1 DEF MapInv, MapCount
<1>3. CASE Map(M)!Touched(p1)
  <2>1. access' = [access EXCEPT ![p1] = None] /\ pages' = pages
    BY <1>3 DEF Map!Touched
  <2>2. MapProc(M)'
    BY <1>1, <1>2, <2>1 DEF MapProc
  <2> QED  BY <1>1, <1>2, <2>1, <2>2, MapProcStep
<1>4. CASE \E g \in Map(M)!Page : Map(M)!Touch(p1, g)
  <2>1. PICK g \in Map(M)!Page : mpc[p1] = "mapped" /\ access' = [access EXCEPT ![p1] = g]
    BY <1>4 DEF Map!Touch
  <2>2. pages' = pages
    BY <1>4 DEF Map!Touch
  <2>3. MapProc(M)'
    BY <1>1, <1>2, <2>1, <2>2 DEF MapProc
  <2> QED  BY <1>1, <1>2, <2>2, <2>3, MapProcStep
<1>5. CASE Map(M)!SculldNopage(p1)
  <2>1. pages' = pages /\ access' = access
    BY <1>5 DEF Map!SculldNopage
  <2>2. MapProc(M)'
    BY <1>1, <1>2, <2>1 DEF MapProc
  <2> QED  BY <1>1, <1>2, <2>1, <2>2, MapProcStep
<1>6. CASE Map(M)!Nopage(p1)
  <2> DEFINE h == access[p1]
  <2>1. /\ h # None /\ Map(M)!Found(h) # None
        /\ pages' = [pages EXCEPT ![p1][h] = Map(M)!Found(h)]
        /\ access' = [access EXCEPT ![p1] = None]
    BY <1>6 DEF Map!Nopage, Map!Fault
  <2>2. h \in Map(M)!Page /\ h \in Nat /\ mpc[p1] = "mapped"
    BY <1>2, <2>1 DEF MapProc, Map!Page, MapSetting
  <2>3. mqset \in Nat \ {0} /\ list \in Seq(Rows(M))
    BY DEF MapInv, MapDev, MapSetting
  <2> HIDE DEF h
  <2> DEFINE n == h \div mqset + 1
             k == (h % mqset) + 1
  <2>4. n \in Nat \ {0} /\ k \in Nat \ {0}
    <3>1. h \div mqset \in 0 .. h /\ h % mqset \in 0 .. mqset - 1
      BY <2>2, <2>3, Dividing
    <3> QED  BY <2>2, <2>3, <3>1
  <2>5. h < size /\ n <= Len(list) /\ k <= Len(list[n]) /\ Map(M)!Found(h) = list[n][k]
    BY <2>1 DEF Map!Found
  <2>6. Map(M)!Found(h) \in M.block
    <3> HIDE DEF n, k
    <3>1. n \in 1 .. Len(list)
      BY <2>3, <2>4, <2>5
    <3>2. list[n] \in Seq(M.block \cup {None})
      BY <2>3, <3>1 DEF Rows
    <3> QED  BY <2>1, <2>4, <2>5, <3>2
  <2>7. pages' \in [{p1} -> [Map(M)!Page -> M.block \cup {None}]]
    BY <1>2, <2>1, <2>2, <2>6 DEF MapProc
  <2>8. MapProc(M)'
    BY <1>1, <1>2, <2>1, <2>2, <2>7 DEF MapProc
  <2>9. \A g \in Map(M)!Page : g # h => pages'[p1][g] = pages[p1][g]
    BY <1>2, <2>1, <2>2 DEF MapProc
  <2>10. pages'[p1][h] = Map(M)!Found(h)
    BY <1>2, <2>1, <2>2 DEF MapProc
  <2>11. CASE order = 0
    <3>1. Map(M)!Where(h, order, mqset) = [item |-> n, s_pos |-> k, q_pos |-> 0]
      BY <2>2, <2>3, <2>11, MapSingle
    <3>2. Map(M)!BlockAt(h) = list[n][k]
      BY <2>5, <3>1 DEF Map!BlockAt
    <3>3. pages'[p1][h] = Map(M)!BlockAt(h) /\ h < size
      BY <2>5, <2>10, <3>2
    <3> HIDE DEF n, k
    <3> QED  BY <1>1, <1>2, <2>8, <2>9, <3>3, MapProcStep
  <2>12. CASE order # 0
    <3>1. M.orders # {0}
      BY <2>12 DEF MapInv, MapDev
    <3>2. UNCHANGED <<scullp_order, scullp_qset, order, mqset, size, list, io, arg, f_pos, stale,
                      spilled>>
      BY <1>1 DEF Map!UnchangedButProc, Map!params, Map!fileVars, Map!history
    <3>3. MapDev(M)' /\ MapFile(M)'
      BY <3>2 DEF MapInv, MapDev, MapFile
    <3> QED  BY <1>2, <2>8, <3>1, <3>3 DEF MapInv, MapWhole, MapShared
  <2> QED  BY <2>11, <2>12
<1> QED  BY <1>3, <1>4, <1>5, <1>6 DEF Map!ScullpNopage, Map!ScullvNopage

LEMMA MapKept ==
    ASSUME NEW M, MapSetting(M), MapInv(M), Map(M)!Next
    PROVE  MapInv(M)'
<1>1. \/ Map(M)!Trim \/ Map(M)!Ioctl
      \/ \E op \in {"read", "write"} : Map(M)!Features(c1, op)
      \/ Map(M)!Read(c1) \/ Map(M)!Write(c1) \/ Map(M)!Llseek(c1) \/ Map(M)!Interrupted(c1)
      \/ Map(M)!ScullpMmap(p1) \/ Map(M)!ScullvMmap(p1) \/ Map(M)!SculldMmap(p1)
      \/ Map(M)!VmaOpen(p1) \/ Map(M)!VmaClose(p1) \/ Map(M)!Munmap(p1)
      \/ Map(M)!Touched(p1) \/ \E g \in Map(M)!Page : Map(M)!Touch(p1, g)
      \/ Map(M)!ScullpNopage(p1) \/ Map(M)!ScullvNopage(p1) \/ Map(M)!SculldNopage(p1)
  BY DEF Map!Next, Map!ScullpOpen, Map!ScullvOpen, Map!SculldOpen, Map!ScullpTrim,
     Map!ScullvTrim, Map!SculldTrim, Map!ScullpRead, Map!ScullvRead, Map!SculldRead,
     Map!ScullpWrite, Map!ScullvWrite, Map!SculldWrite, Map!ScullpIoctl, Map!ScullvIoctl,
     Map!SculldIoctl, Map!ScullpLlseek, Map!ScullvLlseek, Map!SculldLlseek
<1>2. CASE Map(M)!Read(c1)
  BY <1>2, MapReads, MapCall DEF Map!Read
<1>3. CASE Map(M)!Write(c1)
  BY <1>3, MapWrites, MapCall DEF Map!Write
<1> QED  BY <1>1, <1>2, <1>3, MapTrim, MapIoctl, MapFeatures, MapLlseek, MapInterrupted, MapMoves,
            MapTouches

LEMMA MapStutters == ASSUME NEW M, MapInv(M), UNCHANGED map PROVE MapInv(M)'
BY DEF map, MapInv, MapDev, MapFile, MapProc, MapCount, MapWhole, MapShared, WholeFor,
       Map!SharesPages, Map!BlockAt

LEMMA MapInvSays ==
    ASSUME NEW M, MapInv(M)
    PROVE  /\ Map(M)!TypeOK /\ Map(M)!VmasCount
           /\ M.orders = {0} => Map(M)!QuantumHolds
           /\ M.orders = {0} /\ (\E s : M.sets = {s}) => Map(M)!SharesPages
<1>1. Map(M)!TypeOK
  BY DEF MapInv, MapDev, MapFile, MapProc, MapCount, Rows, Map!TypeOK
<1>2. Map(M)!VmasCount
  <2> SUFFICES ASSUME mpc[p1] \in {"unmapped", "mapped"}
      PROVE  vmas = Map(M)!Cardinality({p \in {p1} : mpc[p] = "mapped"})
    BY DEF Map!VmasCount
  <2> DEFINE S == {p \in {p1} : mpc[p] = "mapped"}
  <2>1. Map(M)!Cardinality(S) = Cardinality(S)
    BY DEF Cardinality, Map!Cardinality
  <2>2. CASE mpc[p1] = "mapped"
    <3>1. S = {p1}
      BY <2>2
    <3>2. Cardinality(S) = 1
      BY <3>1, FS_Singleton
    <3> QED  BY <2>1, <2>2, <3>2 DEF MapInv, MapCount
  <2>3. CASE mpc[p1] = "unmapped"
    <3>1. S = {}
      BY <2>3
    <3>2. Cardinality(S) = 0
      BY <3>1, FS_EmptySet
    <3> QED  BY <2>1, <2>3, <3>2 DEF MapInv, MapCount
  <2> QED  BY <2>2, <2>3
<1>3. M.orders = {0} => Map(M)!QuantumHolds
  BY DEF MapInv, MapWhole, Map!QuantumHolds
<1> QED  BY <1>1, <1>2, <1>3 DEF MapInv, MapShared

MapsInv == \A m \in DOMAIN Maps : subject = m => MapInv(Maps[m])

LEMMA MapsInit == Init => MapsInv
<1> SUFFICES ASSUME Init, NEW m \in DOMAIN Maps, subject = m PROVE MapInv(Maps[m])
  BY DEF MapsInv
<1>1. Map(Maps[m])!Init
  BY DEF Init
<1> QED  BY <1>1, MapSettings, MapInit

LEMMA MapsKept == ASSUME MapsInv, [Next]_vars PROVE MapsInv'
<1>1. subject' = subject
  BY DEF Next, vars, OnlyDisk, OnlyMap, OnlyCache, OnlyTty, OnlyUsb, OnlyLoad, OnlyLists,
     OnlySerial, OnlyMoving, OnlyQueue
<1>2. ASSUME NEW m \in DOMAIN Maps, subject = m PROVE MapInv(Maps[m])'
  <2>1. MapSetting(Maps[m]) /\ MapInv(Maps[m])
    BY <1>2, MapSettings DEF MapsInv
  <2>2. Map(Maps[m])!Next \/ UNCHANGED map
    BY <1>2 DEF Next, vars, OnlyDisk, OnlyCache, OnlyTty, OnlyUsb, OnlyLoad, OnlyLists,
       OnlySerial, OnlyMoving, OnlyQueue
  <2> QED  BY <2>1, <2>2, MapKept, MapStutters
<1> QED  BY <1>1, <1>2 DEF MapsInv

(***************************************************************************)
(* scullp_mmap and its copies: the count of the mappings, the blocks that  *)
(* a process sees at its pages, and the quantum that a read or a write     *)
(* stays in, for any number of pages and blocks and any size of the sets.  *)
(***************************************************************************)
THEOREM MappingsKeepPages == Spec => []MappingKeepsPages
<1>1. MapsInv => MappingKeepsPages
  <2>1. \A m \in DOMAIN Maps \ {"orders"} : Maps[m].orders = {0}
    BY DEF Maps, Pages
  <2>2. \A m \in DOMAIN Maps \ {"orders", "sets"} : Maps[m].sets = {SetSize}
    BY DEF Maps, Pages
  <2>3. ASSUME MapsInv, NEW m \in DOMAIN Maps, subject = m
        PROVE  /\ Map(Maps[m])!TypeOK /\ Map(Maps[m])!VmasCount
               /\ Maps[m].orders = {0} => Map(Maps[m])!QuantumHolds
               /\ Maps[m].orders = {0} /\ (\E s : Maps[m].sets = {s}) => Map(Maps[m])!SharesPages
    BY <2>3, MapInvSays DEF MapsInv
  <2> QED  BY <2>1, <2>2, <2>3 DEF MappingKeepsPages
<1> QED  BY <1>1, MapsInit, MapsKept, PTL DEF Spec
=============================================================================
