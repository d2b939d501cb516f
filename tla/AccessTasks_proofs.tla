------------------------- MODULE AccessTasks_proofs -------------------------
(***************************************************************************)
(* Who gets into the access-controlled devices (ScullAccess), for any      *)
(* finite number of processes, any users and any terminals: the counters   *)
(* count, a device of one user has one user, the single device one file,   *)
(* and a terminal one private device.  And what is said of the work that   *)
(* runs beside other work (MCTasks), for any number of readers and threads:*)
(* no wake-up is lost, and what claims success has had it.                 *)
(***************************************************************************)
EXTENDS ScullAccess, MCTasks, Integers, FiniteSetTheorems, TLAPS

-----------------------------------------------------------------------------
Within == {"trim", "open", "call"}
States == Within \cup {"idle", "s_busy", "w_look", "w_sleep", "w_again", "w_wake", "c_new"}
Busy   == {p \in Process : pc[p] = "s_busy"}
Shared == {"uid", "wuid"}

(***************************************************************************)
(* What the properties need in addition: every counter is the size of a    *)
(* set of processes, and who is about to add a private device holds the    *)
(* lock under which it saw that its terminal has none.                     *)
(***************************************************************************)
Types ==
    /\ TypeOK
    /\ pc \in [Process -> States] /\ dev = [p \in Process |-> dev[p]]
    /\ count = [d \in Shared |-> count[d]]

Counts ==
    /\ \A d \in Shared : count[d] = Cardinality(Users(d))
    /\ s_available = 1 - Cardinality(Users("single")) - Cardinality(Busy)
    /\ Cardinality(Users("single")) <= 1

Terminals ==
    /\ c_list \subseteq {<<tty[p], n>> : p \in Process, n \in Clones}
    /\ OnePerTerminal
    /\ \A p \in Process : pc[p] = "c_new" =>
        c_lock = p /\ \A n \in Clones : <<tty[p], n>> \notin c_list

IInv == Types /\ Counts /\ OneUser /\ Terminals

-----------------------------------------------------------------------------
(***************************************************************************)
(* The sets that are counted are finite.                                   *)
(***************************************************************************)
LEMMA FiniteSubset ==
    ASSUME NEW S \in SUBSET Process
    PROVE  /\ IsFiniteSet(S) /\ Cardinality(S) \in Nat
           /\ Cardinality(S) = 0 <=> S = {}
           /\ \A p \in Process : p \notin S => Cardinality(S \cup {p}) = Cardinality(S) + 1
           /\ \A p \in S : Cardinality(S \ {p}) = Cardinality(S) - 1
<1>1. IsFiniteSet(S)
  BY ProcessAssumption, FS_Subset
<1> QED  BY <1>1, FS_CardinalityType, FS_EmptySet, FS_AddElement, FS_RemoveElement

LEMMA CountedSets ==
    /\ \A d : Users(d) \in SUBSET Process
    /\ Busy \in SUBSET Process
  BY DEF Users, Busy

(***************************************************************************)
(* A private device has a number that the others do not have.              *)
(***************************************************************************)
LEMMA ClonesPositive == \A n \in Clones : n # 0
  BY FiniteSubset DEF Clones

(***************************************************************************)
(* Getting in: p has one device more, and nobody else any other.           *)
(***************************************************************************)
LEMMA EnterUsers ==
    ASSUME Types, NEW p \in Process, NEW d, NEW n, NEW to \in {"open", "trim"},
           pc[p] \notin Within, pc[p] # "s_busy",
           pc' = [pc EXCEPT ![p] = to], dev' = [dev EXCEPT ![p] = <<d, n>>]
    PROVE  /\ Busy' = Busy
           /\ \A e : p \notin Users(e)
           /\ n = 0 => Users(d)' = Users(d) \cup {p}
           /\ \A e : e # d \/ n # 0 => Users(e)' = Users(e)
  BY DEF Types, States, Within, Busy, Users, Has

(***************************************************************************)
(* Getting out, from the device that dev tells.                            *)
(***************************************************************************)
LEMMA LeaveUsers ==
    ASSUME Types, NEW p \in Process, NEW d, NEW n, NEW to \in {"idle", "w_wake"},
           pc[p] = "open", dev[p] = <<d, n>>,
           pc' = [pc EXCEPT ![p] = to], dev' = [dev EXCEPT ![p] = Nobody]
    PROVE  /\ Busy' = Busy
           /\ n = 0 => p \in Users(d) /\ Users(d)' = Users(d) \ {p}
           /\ \A e : e # d \/ n # 0 => Users(e)' = Users(e)
  BY DEF Types, States, Within, Busy, Users, Has

(***************************************************************************)
(* A step that neither gets in nor out leaves all users where they are.    *)
(***************************************************************************)
LEMMA StayUsers ==
    ASSUME Types, NEW p \in Process, NEW to \in States, UNCHANGED dev,
           pc' = [pc EXCEPT ![p] = to], pc[p] \in Within <=> to \in Within
    PROVE  \A e : Users(e)' = Users(e)
  BY DEF Types, States, Within, Users, Has

-----------------------------------------------------------------------------
Step(p) ==
    \/ SOpen(p) \/ SBusy(p) \/ SRelease(p)
    \/ UOpen(p) \/ URelease(p)
    \/ WOpen(p) \/ WRefused(p) \/ WGiveUp(p) \/ WRelease(p)
    \/ COpen(p) \/ CMissing(p) \/ CRelease(p)
    \/ Lock(p)  \/ Inside(p)

LEMMA TypesStep == ASSUME Types, NEW p \in Process, Step(p) PROVE Types'
<1> USE DEF Types, TypeOK, States, Within, Shared, Go, Opened, Leave, gate
<1>1. CASE SOpen(p) \/ SBusy(p) \/ SRelease(p) \/ SBack(p)
  BY <1>1 DEF SOpen, SBusy, SRelease, SBack
<1>2. CASE UOpen(p) \/ WOpen(p)
  <2>1. \A d \in Shared : Owner(p, d) \in User \cup {Nobody}
    BY ProcessAssumption DEF Owner
  <2>2. PICK d \in Shared, from \in {"idle", "w_again"} : Grab(p, from, d)
    BY <1>2 DEF UOpen, WOpen
  <2>3. UNCHANGED <<s_available, c_lock, c_list, waiting>>
    BY <1>2 DEF UOpen, WOpen
  <2> QED  BY <2>1, <2>2, <2>3 DEF Grab
<1>3. CASE URelease(p) \/ WRelease(p)
  BY <1>3 DEF URelease, WRelease
<1>4. CASE WRefused(p) \/ WGiveUp(p) \/ WLook(p) \/ WWoken(p) \/ WWake(p)
  BY <1>4 DEF WRefused, WGiveUp, WLook, WWoken, WWake
<1>5. CASE COpen(p) \/ CMissing(p) \/ CRelease(p) \/ CAdd(p) \/ CNoMemory(p)
  BY <1>5 DEF COpen, CMissing, CRelease, CAdd, CNoMemory
<1>6. CASE Lock(p) \/ Trimmed(p) \/ Unlock(p)
  BY <1>6 DEF Lock, Trimmed, Unlock
<1> QED  BY <1>1, <1>2, <1>3, <1>4, <1>5, <1>6 DEF Step, Inside

(***************************************************************************)
(* The counts.                                                             *)
(***************************************************************************)
LEMMA CountsSame ==
    ASSUME Counts, UNCHANGED <<s_available, count>>, Busy' = Busy, \A e : Users(e)' = Users(e)
    PROVE  Counts'
<1>1. Users("single")' = Users("single") /\ \A d \in Shared : Users(d)' = Users(d)
  OBVIOUS
<1> QED  BY <1>1 DEF Counts

LEMMA SingleCounts ==
    ASSUME Types, Counts, NEW p \in Process, SOpen(p) \/ SBusy(p) \/ SBack(p) \/ SRelease(p)
    PROVE  Counts'
<1> DEFINE U == Users("single")
<1>0. /\ Cardinality(U) \in Nat /\ Cardinality(Busy) \in Nat
      /\ s_available = 1 - Cardinality(U) - Cardinality(Busy) /\ Cardinality(U) <= 1
  BY CountedSets, FiniteSubset DEF Counts
<1>1. CASE SOpen(p)
  <2>1. PICK to \in {"open", "trim"} : pc' = [pc EXCEPT ![p] = to]
    BY <1>1 DEF SOpen, Opened, Go
  <2>2. /\ pc[p] = "idle" /\ dev' = [dev EXCEPT ![p] = <<"single", 0>>]
        /\ s_available = 1 /\ s_available' = s_available - 1 /\ count' = count
    BY <1>1 DEF SOpen, Opened, Go, DecAndTest
  <2>3. Busy' = Busy /\ p \notin U /\ U' = U \cup {p} /\ \A d \in Shared : Users(d)' = Users(d)
    BY <2>1, <2>2, EnterUsers DEF Within, Shared
  <2>4. Cardinality(U) = 0 /\ Cardinality(U') = 1
    BY <1>0, <2>2, <2>3, CountedSets, FiniteSubset
  <2>5. s_available' = 1 - Cardinality(U') - Cardinality(Busy')
    BY <1>0, <2>2, <2>3, <2>4
  <2> QED  BY <2>2, <2>3, <2>4, <2>5 DEF Counts
<1>2. CASE SBusy(p)
  <2>1. /\ pc[p] = "idle" /\ pc' = [pc EXCEPT ![p] = "s_busy"] /\ dev' = dev
        /\ s_available' = s_available - 1 /\ count' = count
    BY <1>2 DEF SBusy, Go
  <2>2. \A e : Users(e)' = Users(e)
    BY <2>1, StayUsers DEF Within, States
  <2>3. p \notin Busy /\ Busy' = Busy \cup {p}
    BY <2>1 DEF Busy, Types
  <2>4. Cardinality(Busy') = Cardinality(Busy) + 1
    BY <2>3, CountedSets, FiniteSubset
  <2>5. U' = U /\ \A d \in Shared : Users(d)' = Users(d)
    BY <2>2
  <2> QED  BY <1>0, <2>1, <2>4, <2>5 DEF Counts
<1>3. CASE SBack(p)
  <2>1. /\ pc[p] = "s_busy" /\ pc' = [pc EXCEPT ![p] = "idle"] /\ dev' = dev
        /\ s_available' = s_available + 1 /\ count' = count
    BY <1>3 DEF SBack, Back, Go
  <2>2. \A e : Users(e)' = Users(e)
    BY <2>1, StayUsers DEF Within, States
  <2>3. p \in Busy /\ Busy' = Busy \ {p}
    BY <2>1 DEF Busy, Types
  <2>4. Cardinality(Busy') = Cardinality(Busy) - 1
    BY <2>3, CountedSets, FiniteSubset
  <2>5. U' = U /\ \A d \in Shared : Users(d)' = Users(d)
    BY <2>2
  <2> QED  BY <1>0, <2>1, <2>4, <2>5 DEF Counts
<1>4. CASE SRelease(p)
  <2>1. /\ pc[p] = "open" /\ pc' = [pc EXCEPT ![p] = "idle"]
        /\ dev[p] = <<"single", 0>> /\ dev' = [dev EXCEPT ![p] = Nobody]
        /\ s_available' = s_available + 1 /\ count' = count
    BY <1>4 DEF SRelease, Leave, Go
  <2>2. /\ Busy' = Busy /\ p \in Users("single") /\ Users("single")' = Users("single") \ {p}
        /\ \A e : e # "single" => Users(e)' = Users(e)
    BY <2>1, LeaveUsers
  <2>3. Cardinality(U') = Cardinality(U) - 1
    BY <2>2, CountedSets, FiniteSubset
  <2>4. \A d \in Shared : Users(d)' = Users(d)
    BY <2>2 DEF Shared
  <2> QED  BY <1>0, <2>1, <2>2, <2>3, <2>4 DEF Counts
<1> QED  BY <1>1, <1>2, <1>3, <1>4

LEMMA GrabCounts ==
    ASSUME Types, Counts, NEW p \in Process, NEW d \in Shared,
           NEW from \in {"idle", "w_again"}, Grab(p, from, d), UNCHANGED s_available
    PROVE  /\ Counts'
           /\ p \notin Users(d) /\ Users(d)' = Users(d) \cup {p}
           /\ \A e : e # d => Users(e)' = Users(e)
<1>1. PICK to \in {"open", "trim"} : pc' = [pc EXCEPT ![p] = to]
  BY DEF Grab, Opened, Go
<1>2. /\ pc[p] = from /\ dev' = [dev EXCEPT ![p] = <<d, 0>>]
      /\ count' = [count EXCEPT ![d] = @ + 1]
  BY DEF Grab, Opened, Go
<1>3. Busy' = Busy /\ p \notin Users(d) /\ Users(d)' = Users(d) \cup {p}
      /\ \A e : e # d => Users(e)' = Users(e)
  BY <1>1, <1>2, EnterUsers DEF Within
<1>4. Cardinality(Users(d)') = Cardinality(Users(d)) + 1
  BY <1>3, CountedSets, FiniteSubset
<1>5. Users("single")' = Users("single") /\ \A e \in Shared \ {d} : Users(e)' = Users(e)
  BY <1>3 DEF Shared
<1>6. \A e \in Shared : count'[e] = Cardinality(Users(e)')
  BY <1>2, <1>4, <1>5 DEF Types, Counts
<1> QED  BY <1>3, <1>5, <1>6 DEF Counts

LEMMA ReleaseCounts ==
    ASSUME Types, Counts, NEW p \in Process, URelease(p) \/ WRelease(p)
    PROVE  Counts' /\ \A e : Users(e)' \subseteq Users(e)
<1>1. PICK d \in Shared, to \in {"idle", "w_wake"} :
        /\ dev[p] = <<d, 0>> /\ pc' = [pc EXCEPT ![p] = to]
        /\ count' = [count EXCEPT ![d] = @ - 1]
  BY DEF URelease, WRelease, Leave, Go, Shared
<1>2. /\ pc[p] = "open" /\ dev' = [dev EXCEPT ![p] = Nobody]
      /\ s_available' = s_available
  BY DEF URelease, WRelease, Leave, Go
<1>3. Busy' = Busy /\ p \in Users(d) /\ Users(d)' = Users(d) \ {p}
      /\ \A e : e # d => Users(e)' = Users(e)
  BY <1>1, <1>2, LeaveUsers
<1>4. Cardinality(Users(d)') = Cardinality(Users(d)) - 1
  BY <1>3, CountedSets, FiniteSubset
<1>5. Users("single")' = Users("single") /\ \A e \in Shared \ {d} : Users(e)' = Users(e)
  BY <1>3 DEF Shared
<1>6. \A e \in Shared : count'[e] = Cardinality(Users(e)')
  BY <1>1, <1>4, <1>5 DEF Types, Counts
<1> QED  BY <1>2, <1>3, <1>5, <1>6 DEF Counts

LEMMA PrivateUsers ==
    ASSUME Types, Terminals, NEW p \in Process, COpen(p) \/ CAdd(p) \/ CRelease(p)
    PROVE  Busy' = Busy /\ \A e : Users(e)' = Users(e)
<1>1. CASE COpen(p) \/ CAdd(p)
  <2>1. PICK n \in Clones, from \in {"idle", "c_new"} : Opened(p, from, tty[p], n)
    BY <1>1 DEF COpen, CAdd
  <2>2. PICK to \in {"open", "trim"} : pc' = [pc EXCEPT ![p] = to]
    BY <2>1 DEF Opened, Go
  <2>3. dev' = [dev EXCEPT ![p] = <<tty[p], n>>] /\ n # 0
    BY <2>1, ClonesPositive DEF Opened, Go
  <2>4. pc[p] \notin Within /\ pc[p] # "s_busy"
    BY <2>1 DEF Opened, Go, Within
  <2>5. Busy' = Busy
    BY <2>2, <2>4 DEF Types, Busy
  <2>6. \A e : Users(e)' = Users(e)
    BY <2>2, <2>3, <2>4 DEF Types, Within, Users, Has
  <2> QED  BY <2>5, <2>6
<1>2. CASE CRelease(p)
  <2>1. PICK q \in Process, n \in Clones : dev[p] = <<tty[q], n>>
    BY <1>2 DEF CRelease, Terminals
  <2>2. /\ pc[p] = "open" /\ pc' = [pc EXCEPT ![p] = "idle"]
        /\ dev' = [dev EXCEPT ![p] = Nobody] /\ n # 0
    BY <1>2, ClonesPositive DEF CRelease, Leave, Go
  <2> QED  BY <2>1, <2>2, LeaveUsers
<1> QED  BY <1>1, <1>2

Waiting(p) == WRefused(p) \/ WGiveUp(p) \/ WLook(p) \/ WWoken(p) \/ WWake(p)
Calling(p) == Lock(p) \/ Trimmed(p) \/ Unlock(p)

LEMMA OtherUsers ==
    ASSUME Types, NEW p \in Process, Waiting(p) \/ Calling(p) \/ CMissing(p) \/ CNoMemory(p)
    PROVE  Busy' = Busy /\ \A e : Users(e)' = Users(e)
<1>1. PICK to \in States : pc' = [pc EXCEPT ![p] = to] /\ to # "s_busy"
                           /\ (pc[p] \in Within <=> to \in Within)
  BY DEF Waiting, WRefused, WGiveUp, WLook, WWoken, WWake, Calling, Lock, Trimmed, Unlock,
         CMissing, CNoMemory, Go, States, Within
<1>2. pc[p] # "s_busy" /\ dev' = dev
  BY DEF Waiting, WRefused, WGiveUp, WLook, WWoken, WWake, Calling, Lock, Trimmed, Unlock,
         CMissing, CNoMemory, Go
<1>3. Busy' = Busy
  BY <1>1, <1>2 DEF Busy, Types
<1> QED  BY <1>1, <1>2, <1>3, StayUsers

LEMMA CountsStep == ASSUME Types, Counts, Terminals, NEW p \in Process, Step(p) PROVE Counts'
<1>1. CASE SOpen(p) \/ SBusy(p) \/ SBack(p) \/ SRelease(p)
  BY <1>1, SingleCounts
<1>2. CASE UOpen(p) \/ WOpen(p)
  <2>1. PICK d \in Shared, from \in {"idle", "w_again"} : Grab(p, from, d)
    BY <1>2 DEF UOpen, WOpen, Shared
  <2>2. UNCHANGED s_available
    BY <1>2 DEF UOpen, WOpen
  <2> QED  BY <2>1, <2>2, GrabCounts
<1>3. CASE URelease(p) \/ WRelease(p)
  BY <1>3, ReleaseCounts
<1>4. CASE COpen(p) \/ CAdd(p) \/ CRelease(p)
  <2>1. UNCHANGED <<s_available, count>>
    BY <1>4 DEF COpen, CAdd, CRelease, gate
  <2> QED  BY <1>4, <2>1, PrivateUsers, CountsSame
<1>5. CASE Waiting(p) \/ Calling(p) \/ CMissing(p) \/ CNoMemory(p)
  <2>1. UNCHANGED <<s_available, count>>
    BY <1>5 DEF Waiting, WRefused, WGiveUp, WLook, WWoken, WWake, Calling, Lock, Trimmed, Unlock,
                CMissing, CNoMemory, gate
  <2> QED  BY <1>5, <2>1, OtherUsers, CountsSame
<1> QED  BY <1>1, <1>2, <1>3, <1>4, <1>5 DEF Step, Inside, Waiting, Calling

-----------------------------------------------------------------------------
(***************************************************************************)
(* One user.                                                               *)
(***************************************************************************)
LEMMA FewerUsers ==
    ASSUME OneUser, UNCHANGED owner, \A e : Users(e)' \subseteq Users(e)
    PROVE  OneUser'
<1>1. \A d \in Shared : Users(d)' \subseteq Users(d)
  OBVIOUS
<1> QED  BY <1>1 DEF OneUser, Shared

(***************************************************************************)
(* Where the count says that nobody has the device there is no user who    *)
(* could be left with another's.                                           *)
(***************************************************************************)
LEMMA GrabOneUser ==
    ASSUME Types, Counts, OneUser, NEW p \in Process, NEW d \in Shared,
           NEW from \in {"idle", "w_again"}, Grab(p, from, d), UNCHANGED s_available
    PROVE  OneUser'
<1>1. Users(d)' = Users(d) \cup {p} /\ \A e \in Shared \ {d} : Users(e)' = Users(e)
  BY GrabCounts
<1>2. owner' = [owner EXCEPT ![d] = Owner(p, d)] /\ Available(p, d)
  BY DEF Grab
<1>3. CASE count[d] = 0
  <2>1. Users(d) = {}
    BY <1>3, CountedSets, FiniteSubset DEF Counts
  <2>2. owner'[d] = uid[p]
    BY <1>2, <1>3 DEF Owner, Types, TypeOK, Shared
  <2> QED  BY <1>1, <1>2, <2>1, <2>2 DEF OneUser, Types, TypeOK, Shared
<1>4. CASE count[d] # 0
  BY <1>1, <1>2, <1>4 DEF OneUser, Owner, Available, Types, TypeOK, Shared
<1> QED  BY <1>3, <1>4

LEMMA OneUserStep ==
    ASSUME Types, Counts, Terminals, OneUser, NEW p \in Process, Step(p)
    PROVE  OneUser'
<1>1. CASE SOpen(p)
  <2>1. PICK to \in {"open", "trim"} : pc' = [pc EXCEPT ![p] = to]
    BY <1>1 DEF SOpen, Opened, Go
  <2>2. pc[p] = "idle" /\ dev' = [dev EXCEPT ![p] = <<"single", 0>>] /\ owner' = owner
    BY <1>1 DEF SOpen, Opened, Go
  <2>3. \A e : e # "single" => Users(e)' = Users(e)
    BY <2>1, <2>2, EnterUsers DEF Within
  <2> QED  BY <2>2, <2>3 DEF OneUser
<1>2. CASE SBusy(p) \/ SBack(p)
  <2>1. PICK to \in States : pc' = [pc EXCEPT ![p] = to] /\ (pc[p] \in Within <=> to \in Within)
    BY <1>2 DEF SBusy, SBack, Go, States, Within
  <2> QED  BY <1>2, <2>1, StayUsers, FewerUsers DEF SBusy, SBack
<1>3. CASE SRelease(p)
  <2>1. /\ pc[p] = "open" /\ pc' = [pc EXCEPT ![p] = "idle"]
        /\ dev[p] = <<"single", 0>> /\ dev' = [dev EXCEPT ![p] = Nobody]
        /\ owner' = owner
    BY <1>3 DEF SRelease, Leave, Go
  <2>2. \A e : e # "single" => Users(e)' = Users(e)
    BY <2>1, LeaveUsers
  <2> QED  BY <2>1, <2>2 DEF OneUser
<1>4. CASE UOpen(p) \/ WOpen(p)
  <2>1. PICK d \in Shared, from \in {"idle", "w_again"} : Grab(p, from, d)
    BY <1>4 DEF UOpen, WOpen, Shared
  <2>2. UNCHANGED s_available
    BY <1>4 DEF UOpen, WOpen
  <2> QED  BY <2>1, <2>2, GrabOneUser
<1>5. CASE URelease(p) \/ WRelease(p)
  BY <1>5, ReleaseCounts, FewerUsers DEF URelease, WRelease
<1>6. CASE COpen(p) \/ CAdd(p) \/ CRelease(p)
  <2>1. UNCHANGED owner
    BY <1>6 DEF COpen, CAdd, CRelease, gate
  <2> QED  BY <1>6, <2>1, PrivateUsers, FewerUsers
<1>7. CASE Waiting(p) \/ Calling(p) \/ CMissing(p) \/ CNoMemory(p)
  <2>1. UNCHANGED owner
    BY <1>7 DEF Waiting, WRefused, WGiveUp, WLook, WWoken, WWake, Calling, Lock, Trimmed, Unlock,
                CMissing, CNoMemory, gate
  <2> QED  BY <1>7, <2>1, OtherUsers, FewerUsers
<1> QED  BY <1>1, <1>2, <1>3, <1>4, <1>5, <1>6, <1>7 DEF Step, Inside, Waiting, Calling

-----------------------------------------------------------------------------
(***************************************************************************)
(* One private device for a terminal.                                      *)
(***************************************************************************)
LEMMA TerminalsStep == ASSUME Types, Terminals, NEW p \in Process, Step(p) PROVE Terminals'
<1>1. CASE CAdd(p)
  <2>1. PICK n \in Clones : c_list' = c_list \cup {<<tty[p], n>>}
    BY <1>1 DEF CAdd
  <2>2. pc[p] = "c_new" /\ c_lock = p
    BY <1>1 DEF CAdd, Opened, Go, Terminals
  <2>3. \A q \in Process : pc'[q] = "c_new" => pc[q] = "c_new" /\ q # p
    BY <1>1 DEF CAdd, Opened, Go, Types
  <2>4. \A q \in Process : pc'[q] # "c_new"
    BY <2>2, <2>3 DEF Terminals
  <2>5. c_list' \subseteq {<<tty[q], k>> : q \in Process, k \in Clones}
    BY <2>1 DEF Terminals
  <2>6. OnePerTerminal'
    <3>1. \A c \in c_list : c[1] # tty[p]
      BY <2>2 DEF Terminals
    <3> QED  BY <2>1, <3>1 DEF Terminals, OnePerTerminal
  <2> QED  BY <2>4, <2>5, <2>6 DEF Terminals, Clones
<1>2. CASE CMissing(p)
  <2>1. /\ c_lock = Nobody /\ c_lock' = p /\ c_list' = c_list
        /\ pc' = [pc EXCEPT ![p] = "c_new"]
        /\ \A n \in Clones : <<tty[p], n>> \notin c_list
    BY <1>2 DEF CMissing, Locked, Go
  <2>2. \A q \in Process : pc[q] # "c_new"
    BY <2>1, ProcessAssumption DEF Terminals
  <2> QED  BY <2>1, <2>2 DEF Terminals, OnePerTerminal, Types, Clones
<1>3. CASE CNoMemory(p)
  BY <1>3 DEF CNoMemory, Terminals, OnePerTerminal, Types, Go, Clones
<1>4. CASE ~(CAdd(p) \/ CMissing(p) \/ CNoMemory(p))
  <2>1. UNCHANGED <<c_list, c_lock>> /\ \A q \in Process : pc'[q] = "c_new" => pc[q] = "c_new"
    <3> USE DEF Go, Opened, Leave, Types, gate
    <3>1. CASE SOpen(p) \/ SBusy(p) \/ SBack(p) \/ SRelease(p)
      BY <3>1 DEF SOpen, SBusy, SBack, SRelease
    <3>2. CASE UOpen(p) \/ URelease(p) \/ WOpen(p) \/ WRelease(p)
      BY <3>2 DEF UOpen, URelease, WOpen, WRelease, Grab
    <3>3. CASE Waiting(p)
      BY <3>3 DEF Waiting, WRefused, WGiveUp, WLook, WWoken, WWake
    <3>4. CASE COpen(p) \/ CRelease(p) \/ Calling(p)
      BY <3>4 DEF COpen, CRelease, Calling, Lock, Trimmed, Unlock
    <3> QED  BY <1>4, <3>1, <3>2, <3>3, <3>4 DEF Step, Inside, Waiting, Calling
  <2> QED  BY <2>1 DEF Terminals, OnePerTerminal, Clones
<1> QED  BY <1>1, <1>2, <1>3, <1>4

-----------------------------------------------------------------------------
LEMMA InitInv == Init => IInv
<1> SUFFICES ASSUME Init PROVE IInv
  OBVIOUS
<1>1. (\A e : Users(e) = {}) /\ Busy = {} /\ Cardinality({}) = 0
  BY FS_EmptySet DEF Init, Users, Has, Busy
<1>2. Types
  BY DEF Init, Types, TypeOK, States, Shared
<1>3. Counts
  BY <1>1 DEF Init, Counts, Shared
<1>4. OneUser
  BY <1>1 DEF OneUser
<1>5. Terminals
  BY DEF Init, Terminals, OnePerTerminal
<1> QED  BY <1>2, <1>3, <1>4, <1>5 DEF IInv

LEMMA NextInv == IInv /\ [Next]_vars => IInv'
<1> SUFFICES ASSUME IInv, [Next]_vars PROVE IInv'
  OBVIOUS
<1>1. CASE UNCHANGED vars \/ Cleanup
  <2>1. /\ UNCHANGED <<s_available, count, owner, c_lock, waiting, pc, dev>>
        /\ c_list' \subseteq c_list
    BY <1>1 DEF vars, gate, Cleanup
  <2>2. Busy' = Busy /\ \A e : Users(e)' = Users(e)
    BY <2>1 DEF Busy, Users, Has
  <2>3. Types'
    BY <2>1 DEF IInv, Types, TypeOK
  <2>4. Counts'
    BY <2>1, <2>2, CountsSame DEF IInv
  <2>5. OneUser'
    BY <2>1, <2>2, FewerUsers DEF IInv
  <2>6. Terminals'
    BY <2>1 DEF IInv, Terminals, OnePerTerminal, Clones
  <2> QED  BY <2>3, <2>4, <2>5, <2>6 DEF IInv
<1>2. ASSUME NEW p \in Process, Step(p) PROVE IInv'
  BY <1>2, TypesStep, CountsStep, OneUserStep, TerminalsStep DEF IInv
<1> QED  BY <1>1, <1>2 DEF Next, Step

LEMMA Invariant == Spec => []IInv
  BY InitInv, NextInv, PTL DEF Spec

(***************************************************************************)
(* The counters of the single, uid and wuid devices are those of the files *)
(* that are open, and the single device has one file at most               *)
(* (scull_s_open, scull_s_release, scull_u_open, scull_w_open).            *)
(***************************************************************************)
THEOREM CountersCount == Spec => []SingleOpen
<1>1. IInv => SingleOpen
  BY DEF IInv, Types, Counts, SingleOpen, Busy, Shared
<1> QED  BY <1>1, Invariant, PTL

(***************************************************************************)
(* Whoever has a device of one user is its owner, acts for the owner, or   *)
(* may override (scull_u_open, scull_w_available).                         *)
(***************************************************************************)
THEOREM DevicesHaveOneUser == Spec => []OneUser
<1>1. IInv => OneUser
  BY DEF IInv
<1> QED  BY <1>1, Invariant, PTL

(***************************************************************************)
(* scull_c_lookfor_device, under its lock, makes no second private device  *)
(* for a terminal, also when its allocation fails.                         *)
(***************************************************************************)
THEOREM TerminalsHaveOneDevice == Spec => []OnePerTerminal
<1>1. IInv => OnePerTerminal
  BY DEF IInv, Terminals
<1> QED  BY <1>1, Invariant, PTL

-----------------------------------------------------------------------------
(***************************************************************************)
(* short.  The reader is the only one that moves the tail, and so nobody   *)
(* moves it while it sleeps; and whoever moves the head goes on to wake it.*)
(***************************************************************************)
ShortInv(S) == Irqs(S)!TypeOK /\ Irqs(S)!NoLostWakeup /\ arrived \in 0 .. S.most

ShortSetting(S) == S.most \in Nat

LEMMA ShortInit ==
    ASSUME NEW S, NEW T, ShortSetting(S), Irqs(T)!Init
    PROVE  ShortInv(S)
BY ShortAssumption DEF ShortSetting, ShortInv, Irqs!Init, Irqs!RingInit, Irqs!TypeOK, Irqs!RingOK,
   Irqs!NoLostWakeup, Irqs!SleepsOnNothing

LEMMA ShortIncr ==
    ASSUME NEW S, NEW i \in 0 .. PageSize - 1, NEW n \in Nat
    PROVE  Irqs(S)!incr_bp(i, n) \in 0 .. PageSize - 1
BY ShortAssumption DEF Irqs!incr_bp

LEMMA ShortPlaces ==
    ASSUME NEW S, NEW i \in 0 .. NR_TIMEVAL - 1
    PROVE  Irqs(S)!incr_tv(i) \in 0 .. NR_TIMEVAL - 1
BY ShortAssumption DEF Irqs!incr_tv

(***************************************************************************)
(* The reader.                                                             *)
(***************************************************************************)
LEMMA ShortReads ==
    ASSUME NEW S, ShortSetting(S), ShortInv(S), NEW r \in {r1}, Irqs(S)!ReaderStep(r)
    PROVE  ShortInv(S)'
<1>0. /\ head \in 0 .. PageSize - 1 /\ tail \in 0 .. PageSize - 1 /\ readers \subseteq {r1}
      /\ rpc \in [{r1} -> {"idle", "queue", "look", "sleep", "count", "copy", "incr"}]
      /\ rcount \in [{r1} -> 0 .. PageSize]
      /\ PageSize \in Nat \ {0} /\ Count \subseteq Nat
  BY ShortAssumption DEF ShortInv, Irqs!TypeOK, Irqs!RingOK
<1>1. UNCHANGED <<tv, tv_head, tv_tail, irq, bh, arrived>>
  BY DEF Irqs!ReaderStep, Irqs!tvVars
<1>2. r = r1
  OBVIOUS
<1>3. SUFFICES
        /\ head' = head /\ tail' \in 0 .. PageSize - 1 /\ readers' \subseteq {r1}
        /\ rpc' \in [{r1} -> {"idle", "queue", "look", "sleep", "count", "copy", "incr"}]
        /\ rcount' \in [{r1} -> 0 .. PageSize]
        /\ rpc'[r1] = "sleep" => tail' = tail /\ (rpc[r1] = "sleep" \/ head = tail)
                                 /\ (rpc[r1] = "sleep" => readers' = readers)
  <2>1. Irqs(S)!TypeOK'
    BY <1>1, <1>3 DEF ShortInv, Irqs!TypeOK, Irqs!RingOK
  <2>2. Irqs(S)!NoLostWakeup'
    BY <1>0, <1>1, <1>3 DEF ShortInv, Irqs!NoLostWakeup, Irqs!SleepsOnNothing
  <2> QED  BY <1>1, <2>1, <2>2 DEF ShortInv
<1> USE <1>0, <1>2
<1>4. CASE Irqs(S)!ReadCall(r) \/ Irqs(S)!ReadQueue(r) \/ Irqs(S)!ReadWoken(r)
  BY <1>4 DEF Irqs!ReadCall, Irqs!ReadQueue, Irqs!ReadWoken, Irqs!RGo
<1>5. CASE Irqs(S)!ReadLook(r) \/ Irqs(S)!ReadSignal(r) \/ Irqs(S)!ReadCopy(r)
  BY <1>5 DEF Irqs!ReadLook, Irqs!ReadSignal, Irqs!ReadCopy, Irqs!RGo, Irqs!Empty
<1>6. CASE Irqs(S)!ReadCount(r)
  <2>1. Irqs(S)!Readable \in 0 .. PageSize
    BY DEF Irqs!Readable
  <2>2. \A n \in Count : (IF Irqs(S)!Readable < n THEN Irqs(S)!Readable ELSE n) \in 0 .. PageSize
    BY <2>1
  <2>3. /\ UNCHANGED <<head, tail, readers>> /\ rpc' = [rpc EXCEPT ![r] = "copy"]
        /\ \E n \in 0 .. PageSize : rcount' = [rcount EXCEPT ![r] = n]
    BY <1>6, <2>2 DEF Irqs!ReadCount, Irqs!RGo
  <2> QED  BY <2>3
<1>7. CASE Irqs(S)!ReadIncr(r)
  <2>1. Irqs(S)!incr_bp(tail, rcount[r]) \in 0 .. PageSize - 1
    BY ShortIncr
  <2> QED  BY <1>7, <2>1 DEF Irqs!ReadIncr, Irqs!RGo
<1> QED  BY <1>4, <1>5, <1>6, <1>7 DEF Irqs!ReaderStep, Irqs!Read

(***************************************************************************)
(* The handlers, whole and in halves.                                      *)
(***************************************************************************)
LEMMA ShortHandles ==
    ASSUME NEW S, ShortSetting(S), ShortInv(S),
           Irqs(S)!Whole \/ Irqs(S)!Top \/ Irqs(S)!Handler \/ Irqs(S)!BottomHalf
    PROVE  ShortInv(S)'
<1>0. /\ head \in 0 .. PageSize - 1 /\ tv_head \in 0 .. NR_TIMEVAL - 1
      /\ tv_tail \in 0 .. NR_TIMEVAL - 1 /\ LineLen \in Nat
      /\ arrived \in 0 .. S.most /\ S.most \in Nat
      /\ tv \in [0 .. NR_TIMEVAL - 1 -> 0 .. S.most]
  BY ShortAssumption DEF ShortSetting, ShortInv, Irqs!TypeOK, Irqs!RingOK
<1>1. /\ Irqs(S)!incr_bp(head, LineLen) \in 0 .. PageSize - 1
      /\ Irqs(S)!incr_tv(tv_head) \in 0 .. NR_TIMEVAL - 1
      /\ Irqs(S)!incr_tv(tv_tail) \in 0 .. NR_TIMEVAL - 1
  BY <1>0, ShortIncr, ShortPlaces
<1> USE DEF ShortInv, Irqs!TypeOK, Irqs!RingOK, Irqs!NoLostWakeup, Irqs!SleepsOnNothing,
            Irqs!ringVars, Irqs!tvVars, Irqs!Irq, Irqs!Bh, Irqs!AppendLine, Irqs!WakeReaders
<1>2. CASE Irqs(S)!Whole
  <2>1. arrived' \in 0 .. S.most
    BY <1>0, <1>2 DEF Irqs!Whole
  <2> QED  BY <1>0, <1>1, <1>2, <2>1 DEF Irqs!Whole
<1>3. CASE Irqs(S)!Top
  <2>1. arrived' \in 0 .. S.most
    BY <1>0, <1>3 DEF Irqs!Top
  <2>2. tv' \in [0 .. NR_TIMEVAL - 1 -> 0 .. S.most]
    BY <1>0, <1>3, <2>1 DEF Irqs!Top
  <2> QED  BY <1>0, <1>1, <1>3, <2>1, <2>2 DEF Irqs!Top
<1>4. CASE Irqs(S)!Handler
  BY <1>0, <1>4 DEF Irqs!Handler, Irqs!WholeWake, Irqs!TopSchedule, Irqs!TopCount
<1>5. CASE Irqs(S)!BhBegin \/ Irqs(S)!BhZero \/ Irqs(S)!BhTest \/ Irqs(S)!BhWake
  BY <1>0, <1>5 DEF Irqs!BhBegin, Irqs!BhZero, Irqs!BhTest, Irqs!BhWake
<1>6. CASE Irqs(S)!BhAfter \/ Irqs(S)!BhLine
  BY <1>0, <1>1, <1>6 DEF Irqs!BhAfter, Irqs!BhLine
<1> QED  BY <1>2, <1>3, <1>4, <1>5, <1>6 DEF Irqs!BottomHalf

LEMMA ShortNext ==
    ASSUME NEW S, ShortSetting(S), ShortInv(S), Irqs(S)!Next
    PROVE  ShortInv(S)'
BY ShortReads, ShortHandles DEF Irqs!Next

LEMMA ShortStays == ASSUME NEW S, ShortInv(S), UNCHANGED short PROVE ShortInv(S)'
BY DEF short, ShortInv, Irqs!TypeOK, Irqs!RingOK, Irqs!NoLostWakeup, Irqs!SleepsOnNothing

-----------------------------------------------------------------------------
(***************************************************************************)
(* jiq.  Whoever printed for whom: a job that has printed is queued again, *)
(* and one that finds the page full wakes everybody.  While the timer is in*)
(* the wheel or runs, a reader of its file sleeps or is about to stop it.  *)
(***************************************************************************)
TimerHeld(J) ==
    "timer" \in jobs \/ ("timer" \in J.files /\ jpc["timer"] = "print") =>
        \E r \in Reader : file[r] = "timer" /\ qpc[r] \in {"sleep", "unset"}

JiqInv(J) ==
    /\ Jobs(J)!TypeOK
    /\ file \in [Reader -> J.files \cup {None}]
    /\ \A r \in Reader : qpc[r] # "idle" => file[r] \in J.files
    /\ Jobs(J)!SleeperHasJob
    /\ TimerHeld(J)

LEMMA JiqInit == ASSUME NEW J, Jobs(J)!Init PROVE JiqInv(J)
<1> USE DEF Jobs!Init
<1>1. Jobs(J)!TypeOK
  <2>1. len \in 0 .. LIMIT + 1
    BY JitAssumption
  <2>2. broken \in BOOLEAN
    OBVIOUS
  <2>3. qpc \in [Reader -> {"idle"}] /\ jpc \in [Jobs(J)!Printer -> {"idle"}]
    OBVIOUS
  <2> QED  BY <2>1, <2>2, <2>3 DEF Jobs!TypeOK
<1>2. Jobs(J)!SleeperHasJob
  BY DEF Jobs!SleeperHasJob
<1>3. TimerHeld(J)
  BY DEF TimerHeld, Jobs!Printer
<1> QED  BY <1>1, <1>2, <1>3 DEF JiqInv

(***************************************************************************)
(* The readers.                                                            *)
(***************************************************************************)
LEMMA JiqReads ==
    ASSUME NEW J, JiqInv(J), NEW r \in Reader,
           Jobs(J)!ReadLen(r) \/ Jobs(J)!Reading(r) \/ Jobs(J)!Signal(r)
    PROVE  JiqInv(J)'
<1> USE DEF Jobs!Go, Jobs!jobVars, Jobs!dataVars, Jobs!Prepared
<1>0. LIMIT \in Nat
  BY JitAssumption
<1>1. CASE Jobs(J)!ReadLen(r) \/ Jobs(J)!ReadPlace(r) \/ Jobs(J)!Prepare(r)
  <2> USE DEF Jobs!ReadLen, Jobs!ReadPlace, Jobs!Prepare
  <2>1. Jobs(J)!TypeOK' /\ Jobs(J)!SleeperHasJob'
    BY <1>0, <1>1 DEF JiqInv, Jobs!TypeOK, Jobs!SleeperHasJob
  <2>2. file' \in [Reader -> J.files \cup {None}]
        /\ \A x \in Reader : qpc'[x] # "idle" => file'[x] \in J.files
    BY <1>1 DEF JiqInv, Jobs!TypeOK
  <2>3. TimerHeld(J)'
    BY <1>1 DEF JiqInv, Jobs!TypeOK, TimerHeld
  <2> QED  BY <2>1, <2>2, <2>3 DEF JiqInv
<1>2. CASE Jobs(J)!Schedule(r) \/ Jobs(J)!Woken(r) \/ Jobs(J)!Signal(r)
  <2> USE DEF Jobs!Schedule, Jobs!Woken, Jobs!Signal
  <2>1. Jobs(J)!TypeOK' /\ Jobs(J)!SleeperHasJob'
    BY <1>0, <1>2 DEF JiqInv, Jobs!TypeOK, Jobs!SleeperHasJob
  <2>2. file' \in [Reader -> J.files \cup {None}]
        /\ \A x \in Reader : qpc'[x] # "idle" => file'[x] \in J.files
    BY <1>2 DEF JiqInv, Jobs!TypeOK
  <2>3. TimerHeld(J)'
    BY <1>2 DEF JiqInv, Jobs!TypeOK, TimerHeld
  <2> QED  BY <2>1, <2>2, <2>3 DEF JiqInv
<1>3. CASE Jobs(J)!TimerSetUp(r) \/ Jobs(J)!TimerPrint(r) \/ Jobs(J)!TimerUnset(r)
  <2> USE DEF Jobs!TimerSetUp, Jobs!TimerPrint, Jobs!TimerUnset, Jobs!HandlerDone, Jobs!Full
  <2>0. len' \in 0 .. LIMIT + 1
    BY <1>0, <1>3 DEF JiqInv, Jobs!TypeOK
  <2>1. Jobs(J)!TypeOK'
    <3>1. broken' \in BOOLEAN
      <4>1. CASE Jobs(J)!TimerSetUp(r)
        <5>1. broken' = ("timer" \in jobs)
          BY <4>1
        <5>2. broken' = TRUE \/ broken' = FALSE
          BY <5>1
        <5> QED  BY <5>2
      <4>2. CASE ~Jobs(J)!TimerSetUp(r)
        BY <1>3, <4>2 DEF JiqInv, Jobs!TypeOK
      <4> QED  BY <4>1, <4>2
    <3> QED  BY <1>3, <2>0, <3>1 DEF JiqInv, Jobs!TypeOK
  <2>2. Jobs(J)!SleeperHasJob'
    BY <1>3 DEF JiqInv, Jobs!TypeOK, Jobs!SleeperHasJob
  <2>3. file' \in [Reader -> J.files \cup {None}]
        /\ \A x \in Reader : qpc'[x] # "idle" => file'[x] \in J.files
    BY <1>3 DEF JiqInv, Jobs!TypeOK
  <2>4. TimerHeld(J)'
    BY <1>3 DEF JiqInv, Jobs!TypeOK, TimerHeld
  <2> QED  BY <2>1, <2>2, <2>3, <2>4 DEF JiqInv
<1> QED  BY <1>1, <1>2, <1>3 DEF Jobs!Reading

(***************************************************************************)
(* The jobs.                                                               *)
(***************************************************************************)
LEMMA JiqPrints ==
    ASSUME NEW J, JiqInv(J), NEW j \in J.files, Jobs(J)!Printing(j)
    PROVE  JiqInv(J)'
<1> USE DEF Jobs!Job, Jobs!readerVars, Jobs!Prepared, Jobs!Printer
<1>0. LIMIT \in Nat
  BY JitAssumption
<1>1. CASE Jobs(J)!JobBegin(j)
  <2> USE DEF Jobs!JobBegin
  <2>1. Jobs(J)!TypeOK' /\ Jobs(J)!SleeperHasJob'
    BY <1>1 DEF JiqInv, Jobs!TypeOK, Jobs!SleeperHasJob
  <2>2. TimerHeld(J)'
    BY <1>1 DEF JiqInv, Jobs!TypeOK, TimerHeld
  <2> QED  BY <1>1, <2>1, <2>2 DEF JiqInv
<1>2. CASE j # "timer" /\ (Jobs(J)!JobFull(j) \/ Jobs(J)!JobPrint(j))
  <2> USE DEF Jobs!JobFull, Jobs!JobPrint, Jobs!StillWaiting, Jobs!Again, Jobs!Full
  <2>0. len' \in 0 .. LIMIT + 1
    BY <1>0, <1>2 DEF JiqInv, Jobs!TypeOK
  <2>1. Jobs(J)!TypeOK' /\ Jobs(J)!SleeperHasJob'
    BY <1>2, <2>0 DEF JiqInv, Jobs!TypeOK, Jobs!SleeperHasJob
  <2>2. TimerHeld(J)'
    BY <1>2 DEF JiqInv, Jobs!TypeOK, TimerHeld
  <2> QED  BY <1>2, <2>1, <2>2 DEF JiqInv
<1>3. CASE j = "timer" /\ Jobs(J)!TimedOut
  <2> USE DEF Jobs!TimedOut, Jobs!Full
  <2>0. len' \in 0 .. LIMIT + 1
    BY <1>0, <1>3 DEF JiqInv, Jobs!TypeOK
  <2>1. Jobs(J)!TypeOK' /\ Jobs(J)!SleeperHasJob'
    BY <1>3, <2>0 DEF JiqInv, Jobs!TypeOK, Jobs!SleeperHasJob
  <2>2. TimerHeld(J)'
    BY <1>3 DEF JiqInv, Jobs!TypeOK, TimerHeld
  <2> QED  BY <1>3, <2>1, <2>2 DEF JiqInv
<1> QED  BY <1>1, <1>2, <1>3 DEF Jobs!Printing

LEMMA JiqNext == ASSUME NEW J, JiqInv(J), Jobs(J)!Next PROVE JiqInv(J)'
BY JiqReads, JiqPrints DEF Jobs!Next

LEMMA JiqStays == ASSUME NEW J, JiqInv(J), UNCHANGED jiq PROVE JiqInv(J)'
BY DEF jiq, JiqInv, TimerHeld, Jobs!TypeOK, Jobs!SleeperHasJob, Jobs!Printer, Jobs!Prepared

LEMMA JiqSays ==
    ASSUME NEW J, JiqInv(J)
    PROVE  Jobs(J)!TypeOK /\ Jobs(J)!SleeperHasJob /\ Jobs(J)!TimerGone
<1>1. "timer" \in J.files => jpc["timer"] \in {"idle", "print"}
  BY DEF JiqInv, Jobs!TypeOK, Jobs!Printer
<1>2. Jobs(J)!TimerGone
  BY <1>1 DEF JiqInv, TimerHeld, Jobs!TimerGone
<1> QED  BY <1>2 DEF JiqInv

-----------------------------------------------------------------------------
(***************************************************************************)
(* jit.  A file has a line more than there have been rounds, also while a  *)
(* line is printed and not yet counted; a timer that is due has lines to   *)
(* print, and a function that is not yet through knows whether these were  *)
(* the last.  For those that delay, jiffies is as far from the end as the  *)
(* ticks are from the delay, but for the values it has wrapped past.       *)
(***************************************************************************)
JitTypes ==
    /\ tpc \in [Reader -> {"idle", "check", "sleep", "restart", "free", "done",
                           "loop", "nap", "asleep", "print"}]
    /\ jit_data \in [Reader -> {"none", "live", "freed"}]
    /\ loops \in [Reader -> 0 .. LOOPS] /\ printed \in [Reader -> Nat]
    /\ due_fn \subseteq Reader
    /\ fn \in [Reader -> {"idle", "count", "next"}] /\ last \in [Reader -> BOOLEAN]
    /\ jiffies \in 0 .. WRAP - 1
    /\ nap \in [Reader -> [end : 0 .. WRAP - 1, left : Nat, ticks : Nat, cut : BOOLEAN]]

Prints(r) ==
    /\ printed[r] = LOOPS + 1 - loops[r] + (IF fn[r] = "count" THEN 1 ELSE 0)
    /\ fn[r] = "count" \/ r \in due_fn => loops[r] >= 1
    /\ r \in due_fn => fn[r] = "idle"
    /\ fn[r] = "next" => (last[r] <=> loops[r] = 0)
    /\ tpc[r] \in {"free", "done"} => loops[r] = 0

Lines(T, r) ==
    /\ IF jit_data[r] = "none"
       THEN /\ tpc[r] \notin {"check", "sleep", "restart", "free"}
            /\ r \notin due_fn /\ fn[r] = "idle" /\ printed[r] = 0
       ELSE tpc[r] \in {"check", "sleep", "restart", "free", "done"} /\ Prints(r)
    /\ T.files = {"async"} /\ jit_data[r] = "none" => tpc[r] = "idle"

Apart(r, wrapped) == jiffies - nap[r].end = nap[r].ticks - delay + wrapped

Naps(T, r) ==
    /\ tpc[r] = "idle" => nap[r].ticks = 0
    /\ Timers(T)!Delaying(r) =>
        /\ Apart(r, 0) \/ Apart(r, WRAP) \/ Apart(r, 0 - WRAP)
        /\ nap[r].ticks = 0 \/ nap[r].ticks <= Timers(T)!Late
    /\ tpc[r] = "asleep" => nap[r].ticks + nap[r].left >= delay
    /\ tpc[r] = "print"  => nap[r].ticks >= delay \/ nap[r].cut

JitInv(T) == JitTypes /\ \A r \in Reader : Lines(T, r) /\ Naps(T, r)

(***************************************************************************)
(* The modulus, for differences of two values of jiffies.                  *)
(***************************************************************************)
LEMMA Wrapped ==
    ASSUME NEW x \in Int, 0 - WRAP < x, x < 2 * WRAP
    PROVE  x % WRAP = IF x < 0 THEN x + WRAP ELSE IF x < WRAP THEN x ELSE x - WRAP
<1>0. WRAP \in Nat \ {0}
  BY JitAssumption
<1>1. ASSUME NEW w \in Nat \ {0}, NEW y \in 0 .. w - 1 PROVE (y - w) % w = y
  OBVIOUS
<1>2. ASSUME NEW w \in Nat \ {0}, NEW y \in 0 .. w - 1 PROVE y % w = y
  OBVIOUS
<1>3. ASSUME NEW w \in Nat \ {0}, NEW y \in 0 .. w - 1 PROVE (y + w) % w = y
  OBVIOUS
<1>4. CASE x < 0
  <2> DEFINE y == x + WRAP
  <2>1. y \in 0 .. WRAP - 1 /\ x = y - WRAP
    BY <1>0, <1>4
  <2>2. (y - WRAP) % WRAP = y
    BY <1>0, <1>1, <2>1
  <2> QED  BY <1>4, <2>1, <2>2
<1>5. CASE ~(x < 0) /\ x < WRAP
  BY <1>0, <1>2, <1>5
<1>6. CASE ~(x < 0) /\ ~(x < WRAP)
  <2> DEFINE y == x - WRAP
  <2>1. y \in 0 .. WRAP - 1 /\ x = y + WRAP
    BY <1>0, <1>6
  <2>2. (y + WRAP) % WRAP = y
    BY <1>0, <1>3, <2>1
  <2> QED  BY <1>0, <1>6, <2>1, <2>2
<1> QED  BY <1>4, <1>5, <1>6

LEMMA HalfRange ==
    /\ WRAP \in Nat \ {0} /\ delay \in Nat /\ WRAP \div 2 \in Nat
    /\ 2 * (WRAP \div 2) <= WRAP /\ delay <= WRAP \div 2
<1>1. ASSUME NEW W \in Nat \ {0} PROVE W \div 2 \in Nat /\ 2 * (W \div 2) <= W
  OBVIOUS
<1> QED  BY <1>1, JitAssumption

LEMMA JitInit == ASSUME NEW T, NEW U, Timers(U)!Init PROVE JitInv(T)
<1> USE JitAssumption DEF Timers!Init
<1>1. JitTypes
  BY DEF JitTypes
<1>2. \A r \in Reader : Lines(T, r) /\ Naps(T, r)
  BY DEF Lines, Naps, Timers!Delaying
<1> QED  BY <1>1, <1>2 DEF JitInv

(***************************************************************************)
(* A reader of which nothing changes keeps what is said of it.             *)
(***************************************************************************)
LEMMA LinesKept ==
    ASSUME NEW T, NEW x, Lines(T, x), tpc'[x] = tpc[x], jit_data'[x] = jit_data[x],
           loops'[x] = loops[x], printed'[x] = printed[x], x \in due_fn' <=> x \in due_fn,
           fn'[x] = fn[x], last'[x] = last[x]
    PROVE  Lines(T, x)'
BY DEF Lines, Prints

LEMMA NapsKept ==
    ASSUME NEW T, NEW x, Naps(T, x), tpc'[x] = tpc[x], nap'[x] = nap[x], UNCHANGED jiffies
    PROVE  Naps(T, x)'
BY DEF Naps, Apart, Timers!Delaying, Timers!Late

(***************************************************************************)
(* The files that a timer or a tasklet prints.                             *)
(***************************************************************************)
LEMMA AsyncSteps ==
    ASSUME NEW T, JitInv(T), NEW r \in Reader,
           Timers(T)!Show(r) \/ Timers(T)!Check(r) \/ Timers(T)!Signal(r) \/ Timers(T)!Free(r)
           \/ Timers(T)!TimerFn(r)
    PROVE  JitInv(T)'
<1> USE DEF Timers!Go, Timers!Fn, Timers!fnVars, Timers!napVars
<1>0. /\ LOOPS \in Nat \ {0} /\ JitTypes /\ Lines(T, r) /\ Naps(T, r)
      /\ loops[r] \in 0 .. LOOPS /\ printed[r] \in Nat
  BY JitAssumption DEF JitInv, JitTypes
<1>1. SUFFICES /\ JitTypes' /\ Lines(T, r)' /\ Naps(T, r)'
               /\ \A x \in Reader \ {r} : Lines(T, x)' /\ Naps(T, x)'
  BY DEF JitInv
<1>2. \A x \in Reader \ {r} : Lines(T, x) /\ Naps(T, x)
  BY DEF JitInv
<1>3. UNCHANGED <<jiffies, nap>>
  BY DEF Timers!Show, Timers!Check, Timers!Signal, Timers!Free, Timers!TimerFn, Timers!FnPrint,
     Timers!FnCount, Timers!FnNext
<1>4. CASE Timers(T)!Show(r)
  <2> USE DEF Timers!Show
  <2>1. JitTypes'
    BY <1>0, <1>4 DEF JitTypes
  <2>2. Lines(T, r)' /\ Naps(T, r)'
    BY <1>0, <1>4 DEF JitTypes, Lines, Prints, Naps, Timers!Delaying
  <2>3. \A x \in Reader \ {r} : Lines(T, x)' /\ Naps(T, x)'
    BY <1>0, <1>2, <1>4, LinesKept, NapsKept DEF JitTypes
  <2> QED  BY <2>1, <2>2, <2>3
<1>5. CASE Timers(T)!Check(r) \/ Timers(T)!Signal(r) \/ Timers(T)!Free(r)
  <2> USE DEF Timers!Check, Timers!Signal, Timers!Free, Timers!NoneLeft
  <2>1. JitTypes'
    BY <1>0, <1>5 DEF JitTypes
  <2>2. Lines(T, r)' /\ Naps(T, r)'
    BY <1>0, <1>5 DEF JitTypes, Lines, Prints, Naps, Timers!Delaying
  <2>3. \A x \in Reader \ {r} : Lines(T, x)' /\ Naps(T, x)'
    BY <1>0, <1>2, <1>5, LinesKept, NapsKept DEF JitTypes
  <2> QED  BY <2>1, <2>2, <2>3
<1>6. CASE Timers(T)!FnPrint(r)
  <2> USE DEF Timers!FnPrint
  <2>1. JitTypes'
    BY <1>0, <1>6 DEF JitTypes
  <2>2. Lines(T, r)' /\ Naps(T, r)'
    BY <1>0, <1>6 DEF JitTypes, Lines, Prints, Naps, Timers!Delaying
  <2>3. \A x \in Reader \ {r} : Lines(T, x)' /\ Naps(T, x)'
    BY <1>0, <1>2, <1>6, LinesKept, NapsKept DEF JitTypes
  <2> QED  BY <2>1, <2>2, <2>3
<1>7. CASE Timers(T)!FnCount(r)
  <2> USE DEF Timers!FnCount
  <2>0. loops[r] >= 1
    BY <1>0, <1>7 DEF Lines, Prints
  <2>1. JitTypes'
    BY <1>0, <1>7, <2>0 DEF JitTypes
  <2>2. Lines(T, r)' /\ Naps(T, r)'
    <3>1. /\ fn[r] = "count" /\ fn'[r] = "next" /\ loops'[r] = loops[r] - 1
          /\ last'[r] = (loops[r] = 1) /\ UNCHANGED <<tpc, jit_data, printed, due_fn>>
      BY <1>0, <1>7 DEF JitTypes
    <3>2. loops'[r] = 0 <=> loops[r] = 1
      BY <1>0, <2>0, <3>1
    <3>3. last'[r] <=> loops'[r] = 0
      BY <3>1, <3>2, Zenon
    <3>4. Lines(T, r)'
      BY <1>0, <2>0, <3>1, <3>3 DEF Lines, Prints
    <3> QED  BY <1>0, <1>3, <3>1, <3>4, NapsKept
  <2>3. \A x \in Reader \ {r} : Lines(T, x)' /\ Naps(T, x)'
    BY <1>0, <1>2, <1>7, LinesKept, NapsKept DEF JitTypes
  <2> QED  BY <2>1, <2>2, <2>3
<1>8. CASE Timers(T)!FnNext(r)
  <2> USE DEF Timers!FnNext, Timers!Again
  <2>1. JitTypes'
    BY <1>0, <1>8 DEF JitTypes
  <2>2. Lines(T, r)' /\ Naps(T, r)'
    BY <1>0, <1>8 DEF JitTypes, Lines, Prints, Naps, Timers!Delaying
  <2>3. \A x \in Reader \ {r} : Lines(T, x)' /\ Naps(T, x)'
    BY <1>0, <1>2, <1>8, LinesKept, NapsKept DEF JitTypes
  <2> QED  BY <2>1, <2>2, <2>3
<1> QED  BY <1>4, <1>5, <1>6, <1>7, <1>8 DEF Timers!TimerFn

(***************************************************************************)
(* The files that delay.                                                   *)
(***************************************************************************)
LEMMA NapSteps ==
    ASSUME NEW T, JitInv(T), NEW r \in Reader,
           \/ Timers(T)!Loop(r) \/ Timers(T)!Sleep(r) \/ Timers(T)!Timeout(r)
           \/ Timers(T)!NapSignal(r) \/ Timers(T)!PrintLine(r)
           \/ \E f \in T.files : Timers(T)!JitFn(r, f)
    PROVE  JitInv(T)'
<1> USE DEF Timers!Go, Timers!napVars, Timers!asyncVars, Timers!fnVars
<1> DEFINE n == nap[r]
           Nap == [end : 0 .. WRAP - 1, left : Nat, ticks : Nat, cut : BOOLEAN]
<1>0. /\ JitTypes /\ Lines(T, r) /\ Naps(T, r) /\ n \in Nap /\ jiffies \in 0 .. WRAP - 1
      /\ nap \in [Reader -> Nap]
  BY DEF JitInv, JitTypes
<1>1. \A x \in Reader \ {r} : Lines(T, x) /\ Naps(T, x)
  BY DEF JitInv
<1>2. UNCHANGED <<jit_data, loops, printed, due_fn, fn, last, jiffies>>
  BY DEF Timers!Loop, Timers!Sleep, Timers!Timeout, Timers!NapSignal, Timers!PrintLine, Timers!JitFn
<1>3. SUFFICES
        /\ nap' \in [Reader -> Nap] /\ \A x \in Reader \ {r} : nap'[x] = nap[x]
        /\ \E to \in {"loop", "nap", "asleep", "print", "done"} : tpc' = [tpc EXCEPT ![r] = to]
        /\ jit_data[r] = "none" /\ T.files # {"async"}
        /\ Naps(T, r)'
  <2>1. JitTypes'
    BY <1>0, <1>2, <1>3 DEF JitTypes
  <2>2. Lines(T, r)'
    BY <1>0, <1>2, <1>3 DEF Lines, JitTypes
  <2>3. \A x \in Reader \ {r} : Lines(T, x)' /\ Naps(T, x)'
    BY <1>0, <1>1, <1>2, <1>3, LinesKept, NapsKept DEF JitTypes
  <2> QED  BY <1>3, <2>1, <2>2, <2>3 DEF JitInv
<1>4. CASE \E f \in T.files : Timers(T)!JitFn(r, f)
  <2>1. PICK f \in T.files \ {"async"} : Timers(T)!JitFn(r, f)
    BY <1>4 DEF Timers!JitFn
  <2>2. /\ tpc[r] = "idle" /\ tpc'[r] \in {"loop", "nap"}
        /\ nap' = [nap EXCEPT ![r].end = (jiffies + delay) % WRAP]
        /\ tpc' = [tpc EXCEPT ![r] = tpc'[r]]
    BY <1>0, <2>1 DEF Timers!JitFn, JitTypes
  <2> DEFINE e == (jiffies + delay) % WRAP
  <2>3. e \in 0 .. WRAP - 1 /\ (e = jiffies + delay \/ e = jiffies + delay - WRAP)
    BY <1>0, Wrapped, HalfRange
  <2>4. nap'[r] = [n EXCEPT !.end = e] /\ n.ticks = 0
    BY <1>0, <2>2 DEF Naps
  <2>5. Apart(r, 0)' \/ Apart(r, WRAP)'
    <3> HIDE DEF e
    <3> QED  BY <1>0, <1>2, <2>3, <2>4, HalfRange DEF Apart
  <2>6. Naps(T, r)'
    BY <1>0, <2>2, <2>4, <2>5 DEF Naps
  <2>7. jit_data[r] = "none"
    BY <1>0, <2>2 DEF Lines
  <2> QED  BY <1>0, <2>1, <2>2, <2>3, <2>6, <2>7
<1>5. CASE Timers(T)!Loop(r)
  <2>1. tpc[r] = "loop" /\ tpc' = [tpc EXCEPT ![r] = "print"] /\ nap' = nap
        /\ ~Timers(T)!before(jiffies, n.end)
    BY <1>5 DEF Timers!Loop
  <2>2. n.ticks >= delay
    <3>1. Apart(r, 0) \/ Apart(r, WRAP) \/ Apart(r, 0 - WRAP)
      BY <1>0, <2>1 DEF Naps, Timers!Delaying
    <3> DEFINE d == jiffies - n.end
    <3>2. d \in Int /\ 0 - WRAP < d /\ d < WRAP
      BY <1>0, HalfRange
    <3>3. d % WRAP < WRAP \div 2
      <4>1. d % WRAP \in Int
        BY <3>2, Wrapped, HalfRange
      <4> QED  BY <2>1, <4>1, HalfRange DEF Timers!before
    <3>4. d % WRAP = IF d < 0 THEN d + WRAP ELSE d
      BY <3>2, Wrapped, HalfRange
    <3>5. d \in {n.ticks - delay, n.ticks - delay + WRAP, n.ticks - delay - WRAP}
      BY <1>0, <3>1, HalfRange DEF Apart
    <3> HIDE DEF d
    <3> QED  BY <1>0, <3>2, <3>3, <3>4, <3>5, HalfRange
  <2>3. Naps(T, r)'
    BY <1>0, <1>2, <2>1, <2>2 DEF Naps, Apart, Timers!Delaying, Timers!Late, JitTypes
  <2>4. jit_data[r] = "none" /\ T.files # {"async"}
    BY <1>0, <2>1 DEF Lines
  <2> QED  BY <1>0, <2>1, <2>3, <2>4
<1>6. CASE Timers(T)!Sleep(r)
  <2>1. /\ tpc[r] = "nap" /\ tpc' = [tpc EXCEPT ![r] = "asleep"]
        /\ nap' = [nap EXCEPT ![r].left = delay]
    BY <1>6 DEF Timers!Sleep
  <2>2. nap'[r] = [n EXCEPT !.left = delay] /\ delay \in Nat
    BY <1>0, <2>1, HalfRange
  <2>3. Naps(T, r)'
    BY <1>0, <1>2, <2>1, <2>2 DEF Naps, Apart, Timers!Delaying, Timers!Late, JitTypes
  <2>4. jit_data[r] = "none" /\ T.files # {"async"}
    BY <1>0, <2>1 DEF Lines
  <2> QED  BY <1>0, <2>1, <2>2, <2>3, <2>4
<1>7. CASE Timers(T)!NapSignal(r)
  <2>1. tpc[r] \in {"nap", "asleep"} /\ tpc' = [tpc EXCEPT ![r] = "print"]
        /\ nap' = [nap EXCEPT ![r].cut = TRUE]
    BY <1>7 DEF Timers!NapSignal
  <2>2. nap'[r] = [n EXCEPT !.cut = TRUE]
    BY <1>0, <2>1
  <2>3. Naps(T, r)'
    BY <1>0, <1>2, <2>1, <2>2 DEF Naps, Apart, Timers!Delaying, Timers!Late, JitTypes
  <2>4. jit_data[r] = "none" /\ T.files # {"async"}
    BY <1>0, <2>1 DEF Lines
  <2> QED  BY <1>0, <2>1, <2>2, <2>3, <2>4
<1>8. CASE Timers(T)!Timeout(r) \/ Timers(T)!PrintLine(r)
  <2>1. \/ tpc[r] = "asleep" /\ n.left = 0 /\ tpc' = [tpc EXCEPT ![r] = "print"]
        \/ tpc[r] = "print" /\ tpc' = [tpc EXCEPT ![r] = "done"]
    BY <1>8 DEF Timers!Timeout, Timers!PrintLine
  <2>2. nap' = nap
    BY <1>8 DEF Timers!Timeout, Timers!PrintLine
  <2>3. Naps(T, r)'
    BY <1>0, <1>2, <2>1, <2>2, HalfRange DEF Naps, Apart, Timers!Delaying, Timers!Late, JitTypes
  <2>4. jit_data[r] = "none" /\ T.files # {"async"}
    BY <1>0, <2>1 DEF Lines
  <2> QED  BY <1>0, <2>1, <2>2, <2>3, <2>4
<1> QED  BY <1>4, <1>5, <1>6, <1>7, <1>8

LEMMA TickSteps == ASSUME NEW T, JitInv(T), Timers(T)!Tick PROVE JitInv(T)'
<1> USE DEF Timers!asyncVars, Timers!fnVars
<1> DEFINE Nap == [end : 0 .. WRAP - 1, left : Nat, ticks : Nat, cut : BOOLEAN]
<1>0. /\ JitTypes /\ jiffies \in 0 .. WRAP - 1 /\ nap \in [Reader -> Nap]
      /\ UNCHANGED <<tpc, jit_data, loops, printed, due_fn, fn, last>>
  BY DEF JitInv, JitTypes, Timers!Tick
<1>1. /\ jiffies' \in 0 .. WRAP - 1
      /\ jiffies' = jiffies + 1 \/ (jiffies' = 0 /\ jiffies = WRAP - 1)
  <2>1. (jiffies + 1) % WRAP = IF jiffies + 1 < WRAP THEN jiffies + 1 ELSE jiffies + 1 - WRAP
    BY <1>0, Wrapped, HalfRange
  <2>2. jiffies' = (jiffies + 1) % WRAP
    BY DEF Timers!Tick
  <2> QED  BY <1>0, <2>1, <2>2, HalfRange
<1>2. ASSUME NEW r \in Reader
      PROVE  nap'[r] \in Nap /\ Lines(T, r)' /\ Naps(T, r)'
  <2> DEFINE n == nap[r]
  <2>0. n \in Nap /\ Lines(T, r) /\ Naps(T, r)
    BY <1>0 DEF JitInv
  <2>1. Lines(T, r)'
    BY <1>0, <2>0, LinesKept
  <2>2. CASE ~Timers(T)!Delaying(r)
    <3>1. nap'[r] = nap[r]
      BY <2>2 DEF Timers!Tick
    <3>2. Naps(T, r)'
      BY <1>0, <2>0, <2>2, <3>1 DEF Naps, Timers!Delaying
    <3> QED  BY <2>0, <2>1, <3>1, <3>2
  <2>3. CASE Timers(T)!Delaying(r)
    <3>1. /\ n.ticks < Timers(T)!Late
          /\ nap'[r] = [n EXCEPT !.ticks = n.ticks + 1,
                                 !.left = IF n.left > 0 THEN n.left - 1 ELSE 0]
      BY <2>3 DEF Timers!Tick
    <3>2. /\ nap'[r].end = n.end /\ nap'[r].ticks = n.ticks + 1 /\ nap'[r].cut = n.cut
          /\ nap'[r].left = IF n.left > 0 THEN n.left - 1 ELSE 0
          /\ nap'[r] \in Nap
      <4> DEFINE t == n.ticks + 1
                 u == IF n.left > 0 THEN n.left - 1 ELSE 0
      <4>1. t \in Nat /\ u \in Nat
        BY <2>0
      <4>2. nap'[r] = [n EXCEPT !.ticks = t, !.left = u]
        BY <3>1
      <4> HIDE DEF t, u
      <4>3. nap'[r] \in Nap /\ nap'[r].end = n.end /\ nap'[r].ticks = t /\ nap'[r].left = u
            /\ nap'[r].cut = n.cut
        BY <2>0, <4>1, <4>2
      <4> QED  BY <4>3 DEF t, u
    <3>3. n.ticks + 1 <= delay + WRAP \div 2 - 1 /\ Timers(T)!Late' = Timers(T)!Late
      BY <2>0, <3>1, HalfRange DEF Timers!Late
    <3>4. Apart(r, 0)' \/ Apart(r, WRAP)' \/ Apart(r, 0 - WRAP)'
      <4>1. Apart(r, 0) \/ Apart(r, WRAP) \/ Apart(r, 0 - WRAP)
        BY <2>0, <2>3 DEF Naps
      <4> QED  BY <1>0, <1>1, <2>0, <3>2, <3>3, <4>1, HalfRange DEF Apart
    <3>5. tpc'[r] = tpc[r] /\ tpc[r] # "idle"
      BY <1>0, <2>3 DEF Timers!Delaying
    <3>6. tpc[r] = "asleep" => nap'[r].ticks + nap'[r].left >= delay
      BY <2>0, <3>2, HalfRange DEF Naps
    <3>7. tpc[r] = "print" => nap'[r].ticks >= delay \/ nap'[r].cut
      BY <2>0, <3>2, HalfRange DEF Naps
    <3>8. nap'[r].ticks <= Timers(T)!Late'
      BY <3>2, <3>3 DEF Timers!Late
    <3>9. Naps(T, r)'
      BY <3>4, <3>5, <3>6, <3>7, <3>8 DEF Naps
    <3> QED  BY <2>1, <3>2, <3>9
  <2> QED  BY <2>2, <2>3
<1>3. nap' \in [Reader -> Nap]
  <2>1. \A r \in Reader : nap'[r] \in Nap
    BY <1>2
  <2>2. nap' = [r \in Reader |-> nap'[r]]
    BY DEF Timers!Tick
  <2> QED  BY <2>1, <2>2
<1>4. JitTypes'
  BY <1>0, <1>1, <1>3 DEF JitTypes
<1> QED  BY <1>2, <1>4 DEF JitInv

LEMMA JitNext == ASSUME NEW T, JitInv(T), Timers(T)!Next PROVE JitInv(T)'
BY AsyncSteps, NapSteps, TickSteps DEF Timers!Next

LEMMA JitStays == ASSUME NEW T, JitInv(T), UNCHANGED jit PROVE JitInv(T)'
<1>1. \A r \in Reader : Lines(T, r)' /\ Naps(T, r)'
  BY LinesKept, NapsKept DEF jit, JitInv
<1> QED  BY <1>1 DEF jit, JitInv, JitTypes

LEMMA JitSays ==
    ASSUME NEW T, JitInv(T)
    PROVE  /\ Timers(T)!TypeOK /\ Timers(T)!DelayLasts
           /\ T.files = {"async"} => Timers(T)!FullFile
<1>0. JitTypes /\ LOOPS \in Nat \ {0} /\ \A r \in Reader : Lines(T, r) /\ Naps(T, r)
  BY JitAssumption DEF JitInv
<1>1. ASSUME NEW r \in Reader PROVE printed[r] \in 0 .. LOOPS + 1
  <2>1. loops[r] \in 0 .. LOOPS
    BY <1>0 DEF JitTypes
  <2> QED  BY <1>0, <2>1 DEF Lines, Prints
<1>2. Timers(T)!TypeOK
  BY <1>0, <1>1 DEF JitTypes, Timers!TypeOK
<1>3. ASSUME T.files = {"async"}, NEW r \in Reader, tpc[r] \in {"free", "done"}
      PROVE  printed[r] = LOOPS + 1
  <2>1. Prints(r)
    BY <1>0, <1>3 DEF Lines
  <2> QED  BY <1>0, <1>3, <2>1 DEF Prints
<1> QED  BY <1>0, <1>2, <1>3 DEF Naps, Timers!DelayLasts, Timers!FullFile

-----------------------------------------------------------------------------
(***************************************************************************)
(* sleepy and complete.  A completion that sleepers have not taken is one  *)
(* for which a reader that is awake will look; the flag stays up, without  *)
(* a sleeper, from the wake-up to the first that lowers it.                *)
(***************************************************************************)
At(s) == {r \in Sleeper : spc[r] = s}

SleepyTypes(C) ==
    /\ flag \in Nat /\ reads \in Nat /\ written \in 0 .. Writes /\ due \subseteq Sleeper
    /\ spc \in [Sleeper -> {"idle", "check", "sleep", "reset"}] /\ writer \in {"idle", "wake"}
    /\ writer = "wake" => ~C /\ written < Writes
    /\ ~C => flag \in {0, 1} /\ (flag = 1 => written > 0 \/ writer = "wake")

SleepyInv(C) ==
    /\ SleepyTypes(C)
    /\ C => /\ written = flag + reads + Cardinality(At("reset"))
            /\ At("sleep") # {} => flag <= Cardinality(At("check"))
    /\ ~C /\ flag > 0 /\ writer = "idle" => At("sleep") = {}

LEMMA FiniteSleepers ==
    ASSUME NEW S \in SUBSET Sleeper
    PROVE  /\ IsFiniteSet(S) /\ Cardinality(S) \in Nat
           /\ Cardinality(S) = 0 <=> S = {}
           /\ \A r \in Sleeper : r \notin S => Cardinality(S \cup {r}) = Cardinality(S) + 1
           /\ \A r \in S : Cardinality(S \ {r}) = Cardinality(S) - 1
<1>1. IsFiniteSet(S)
  BY SleepyAssumption, FS_Subset
<1> QED  BY <1>1, FS_CardinalityType, FS_EmptySet, FS_AddElement, FS_RemoveElement

LEMMA SleepyInit == ASSUME NEW C \in BOOLEAN, NEW D, Waits(D)!Init PROVE SleepyInv(C)
<1>1. \A s : s # "idle" => At(s) = {}
  BY DEF Waits!Init, At
<1>2. Cardinality({}) = 0
  BY FS_EmptySet
<1> QED  BY <1>1, <1>2, SleepyAssumption DEF Waits!Init, SleepyInv, SleepyTypes

(***************************************************************************)
(* A reader goes from one place to another.                                *)
(***************************************************************************)
Moved(a, b) ==
    /\ spc' \in [Sleeper -> {"idle", "check", "sleep", "reset"}]
    /\ \A s : s \notin {a, b} => At(s)' = At(s)
    /\ At(a) # {} /\ At(a)' \subseteq At(a) /\ At(b)' # {}
    /\ \A s : Cardinality(At(s)) \in Nat
    /\ Cardinality(At(a)') = Cardinality(At(a)) - 1
    /\ Cardinality(At(b)') = Cardinality(At(b)) + 1

LEMMA SleepyGoes ==
    ASSUME NEW C, NEW r \in Sleeper, NEW a, NEW b \in {"idle", "check", "sleep", "reset"}, a # b,
           spc \in [Sleeper -> {"idle", "check", "sleep", "reset"}], Waits(C)!Go(r, a, b)
    PROVE  Moved(a, b)
<1>1. spc' \in [Sleeper -> {"idle", "check", "sleep", "reset"}] /\ spc[r] = a /\ spc'[r] = b
      /\ \A x \in Sleeper : x # r => spc'[x] = spc[x]
  BY DEF Waits!Go
<1>2. /\ \A s : s \notin {a, b} => At(s)' = At(s)
      /\ r \in At(a) /\ At(a)' = At(a) \ {r}
      /\ r \notin At(b) /\ At(b)' = At(b) \cup {r}
  BY <1>1 DEF At
<1>3. \A s : At(s) \in SUBSET Sleeper
  BY DEF At
<1>4. \A s : Cardinality(At(s)) \in Nat
  BY <1>3, FiniteSleepers
<1>5. Cardinality(At(a)') = Cardinality(At(a)) - 1
  BY <1>2, <1>3, FiniteSleepers
<1>6. Cardinality(At(b)') = Cardinality(At(b)) + 1
  BY <1>2, <1>3, FiniteSleepers
<1> QED  BY <1>1, <1>2, <1>4, <1>5, <1>6 DEF Moved

LEMMA SleepyReads ==
    ASSUME NEW C \in BOOLEAN, SleepyInv(C), NEW r \in Sleeper,
           Waits(C)!Read(r) \/ Waits(C)!Check(r) \/ Waits(C)!Reset(r) \/ Waits(C)!Signal(r)
    PROVE  SleepyInv(C)'
<1>0. spc \in [Sleeper -> {"idle", "check", "sleep", "reset"}] /\ flag \in Nat /\ reads \in Nat
      /\ (~C => flag \in {0, 1})
  BY DEF SleepyInv, SleepyTypes
<1>1. CASE Waits(C)!Read(r)
  <2>1. Waits(C)!Go(r, "idle", "check") /\ UNCHANGED <<flag, writer, written, reads, due>>
    BY <1>1 DEF Waits!Read
  <2>2. Moved("idle", "check")
    BY <1>0, <2>1, SleepyGoes
  <2> QED  BY <1>0, <2>1, <2>2 DEF SleepyInv, SleepyTypes, Moved
<1>2. CASE Waits(C)!Check(r)
  <2>1. UNCHANGED <<writer, written, reads, due>>
    BY <1>2 DEF Waits!Check
  <2>2. CASE flag = 0
    <3>1. Waits(C)!Go(r, "check", "sleep") /\ UNCHANGED flag
      BY <1>2, <2>2 DEF Waits!Check
    <3>2. Moved("check", "sleep")
      BY <1>0, <3>1, SleepyGoes
    <3>3. SleepyTypes(C)'
      BY <1>0, <2>1, <3>1, <3>2 DEF SleepyInv, SleepyTypes, Moved
    <3>4. At("reset")' = At("reset") /\ Cardinality(At("check")') \in Nat
      BY <3>2, FiniteSleepers, ZenonT(60) DEF Moved, At
    <3> QED  BY <2>1, <2>2, <3>1, <3>3, <3>4 DEF SleepyInv
  <2>3. CASE flag # 0
    <3>1. Waits(C)!Go(r, "check", "reset") /\ flag' = IF C THEN flag - 1 ELSE flag
      BY <1>2, <2>3 DEF Waits!Check
    <3>2. Moved("check", "reset")
      BY <1>0, <3>1, SleepyGoes
    <3> QED  BY <1>0, <2>1, <2>3, <3>1, <3>2 DEF SleepyInv, SleepyTypes, Moved
  <2> QED  BY <2>2, <2>3
<1>3. CASE Waits(C)!Reset(r)
  <2>1. /\ Waits(C)!Go(r, "reset", "idle") /\ flag' = (IF C THEN flag ELSE 0)
        /\ reads' = (IF C THEN reads + 1 ELSE reads)
        /\ due' \subseteq due /\ UNCHANGED <<writer, written>>
    BY <1>3 DEF Waits!Reset, Waits!Lowered
  <2>2. Moved("reset", "idle")
    BY <1>0, <2>1, SleepyGoes
  <2> QED  BY <1>0, <2>1, <2>2 DEF SleepyInv, SleepyTypes, Moved
<1>4. CASE Waits(C)!Signal(r)
  <2>1. ~C /\ Waits(C)!Go(r, "sleep", "reset") /\ UNCHANGED <<flag, writer, written, reads, due>>
    BY <1>4 DEF Waits!Signal
  <2>2. Moved("sleep", "reset")
    BY <1>0, <2>1, SleepyGoes
  <2> QED  BY <1>0, <2>1, <2>2 DEF SleepyInv, SleepyTypes, Moved
<1> QED  BY <1>1, <1>2, <1>3, <1>4

LEMMA SleepyWrites ==
    ASSUME NEW C \in BOOLEAN, SleepyInv(C),
           Waits(C)!Write \/ Waits(C)!WakeUp \/ Waits(C)!Complete
    PROVE  SleepyInv(C)'
<1>0. spc \in [Sleeper -> {"idle", "check", "sleep", "reset"}] /\ flag \in Nat /\ reads \in Nat
      /\ (~C => flag \in {0, 1}) /\ written \in 0 .. Writes /\ Writes \in Nat
      /\ due \subseteq Sleeper
  BY SleepyAssumption DEF SleepyInv, SleepyTypes
<1>1. CASE Waits(C)!Write
  <2>1. /\ ~C /\ written < Writes /\ writer' = "wake" /\ flag' = 1
        /\ UNCHANGED <<spc, written, reads, due>>
    BY <1>1 DEF Waits!Write, Waits!Raised
  <2>2. \A s : At(s)' = At(s)
    BY <2>1 DEF At
  <2> QED  BY <1>0, <2>1, <2>2 DEF SleepyInv, SleepyTypes, Moved
<1>2. CASE Waits(C)!WakeUp
  <2>1. /\ writer = "wake" /\ writer' = "idle" /\ written' = written + 1
        /\ UNCHANGED <<flag, reads>> /\ Waits(C)!Wake
    BY <1>2 DEF Waits!WakeUp
  <2>2. ~C /\ written < Writes
    BY <2>1 DEF SleepyInv, SleepyTypes
  <2>3. /\ due' = due \cup At("sleep")
        /\ spc' = [r \in Sleeper |-> IF r \in At("sleep") THEN "check" ELSE spc[r]]
    BY <2>1, <2>2 DEF Waits!Wake, Waits!Woken, At
  <2>4. At("sleep")' = {} /\ due' \subseteq Sleeper
        /\ spc' \in [Sleeper -> {"idle", "check", "sleep", "reset"}]
    BY <1>0, <2>3 DEF At
  <2> QED  BY <1>0, <2>1, <2>2, <2>4 DEF SleepyInv, SleepyTypes
<1>3. CASE Waits(C)!Complete
  <2>1. /\ C /\ written < Writes /\ written' = written + 1 /\ flag' = flag + 1
        /\ UNCHANGED <<writer, reads>> /\ Waits(C)!Wake
    BY <1>3 DEF Waits!Complete, Waits!Raised
  <2>2. /\ due' = due \cup At("sleep")
        /\ \E woken \in Waits(C)!Woken(At("sleep")) :
              spc' = [r \in Sleeper |-> IF r \in woken THEN "check" ELSE spc[r]]
    BY <2>1 DEF Waits!Wake, At
  <2>3. due' \subseteq Sleeper
    BY <1>0, <2>2 DEF At
  <2>4. CASE At("sleep") = {}
    <3>1. spc' = spc
      BY <1>0, <2>1, <2>2, <2>4 DEF Waits!Woken
    <3>2. \A s : At(s)' = At(s)
      BY <3>1 DEF At
    <3>3. Cardinality(At("reset")) \in Nat
      BY FiniteSleepers DEF At
    <3> QED  BY <1>0, <2>1, <2>3, <2>4, <3>1, <3>2, <3>3 DEF SleepyInv, SleepyTypes, Moved
  <2>5. CASE At("sleep") # {}
    <3>1. PICK r \in At("sleep") :
            spc' = [x \in Sleeper |-> IF x \in {r} THEN "check" ELSE spc[x]]
      BY <2>1, <2>2, <2>5 DEF Waits!Woken
    <3>2. r \in Sleeper /\ Waits(C)!Go(r, "sleep", "check")
      BY <1>0, <3>1 DEF At, Waits!Go
    <3>3. Moved("sleep", "check")
      BY <1>0, <3>2, SleepyGoes
    <3> QED  BY <1>0, <2>1, <2>3, <2>5, <3>2, <3>3 DEF SleepyInv, SleepyTypes, Moved
  <2> QED  BY <2>4, <2>5
<1> QED  BY <1>1, <1>2, <1>3

LEMMA SleepyNext == ASSUME NEW C \in BOOLEAN, SleepyInv(C), Waits(C)!Next PROVE SleepyInv(C)'
BY SleepyReads, SleepyWrites DEF Waits!Next

LEMMA SleepyStays == ASSUME NEW C, SleepyInv(C), UNCHANGED sleepy PROVE SleepyInv(C)'
BY DEF sleepy, SleepyInv, SleepyTypes, At

LEMMA SleepySays ==
    ASSUME NEW C \in BOOLEAN, SleepyInv(C)
    PROVE  /\ Waits(C)!TypeOK /\ Waits(C)!NoLostWakeup
           /\ C => Waits(C)!OneReadPerWrite
<1>0. \A s : Cardinality(At(s)) \in Nat /\ (Cardinality(At(s)) = 0 <=> At(s) = {})
  BY FiniteSleepers DEF At
<1>1. Waits(C)!TypeOK
  BY <1>0, SleepyAssumption DEF SleepyInv, SleepyTypes, Waits!TypeOK
<1>2. Waits(C)!NoLostWakeup
  <2>1. ASSUME flag > 0, writer = "idle", At("sleep") # {}
        PROVE  At("check") # {}
    BY <1>0, <2>1 DEF SleepyInv, SleepyTypes
  <2> QED  BY <2>1 DEF Waits!NoLostWakeup, At
<1>3. C => Waits(C)!OneReadPerWrite
  <2>1. Waits(C)!Cardinality(At("reset")) = Cardinality(At("reset"))
    BY DEF Cardinality, Waits!Cardinality
  <2> QED  BY <2>1 DEF SleepyInv, Waits!OneReadPerWrite, At
<1> QED  BY <1>1, <1>2, <1>3

-----------------------------------------------------------------------------
(***************************************************************************)
(* threading.  The mutex is its who is between obtaining and releasing it. *)
(***************************************************************************)
ThreadInv(F) ==
    /\ Threads(F)!TypeOK
    /\ tp \in [Caller -> {"none", "wait_to_obtain", "lock", "wait_to_release", "unlock",
                          "complete", "exited"}]
    /\ \A t \in Caller :
        /\ tp[t] \in {"wait_to_release", "unlock"} => mutex = t
        /\ tp[t] \in {"none", "wait_to_obtain", "lock", "complete"} => mutex # t
        /\ thread_complete_success[t] => tp[t] = "exited" /\ mutex # t
        /\ caller[t] = "created" => myThread # None
        /\ caller[t] = "call" <=> tp[t] = "none" /\ caller[t] # "false"
    /\ thread_complete_success \in [Caller -> BOOLEAN]
    /\ thread_data \in [Caller -> {"none", "used", "freed"}]

LEMMA ThreadInit == ASSUME NEW F, NEW G, Threads(G)!Init PROVE ThreadInv(F)
<1> USE DEF Threads!Init
<1>1. Threads(F)!TypeOK
  BY DEF Threads!TypeOK
<1> QED  BY <1>1, ThreadAssumption DEF ThreadInv

LEMMA ThreadStarts ==
    ASSUME NEW F, ThreadInv(F), NEW c \in Caller, Threads(F)!Starting(c) \/ Threads(F)!Join(c)
    PROVE  ThreadInv(F)'
<1>1. CASE Threads(F)!Create(c) \/ Threads(F)!CreateFails(c)
  BY <1>1, ThreadAssumption DEF Threads!Create, Threads!CreateFails, ThreadInv, Threads!TypeOK
<1>2. CASE Threads(F)!Fill(c)
  BY <1>2, ThreadAssumption DEF Threads!Fill, ThreadInv, Threads!TypeOK
<1>3. CASE Threads(F)!Join(c)
  <2>1. thread[c] \in Caller
    BY <1>3 DEF Threads!Join, ThreadInv, Threads!TypeOK
  <2> QED  BY <1>3, <2>1 DEF Threads!Join, ThreadInv, Threads!TypeOK
<1> QED  BY <1>1, <1>2, <1>3 DEF Threads!Starting

LEMMA ThreadRuns ==
    ASSUME NEW F, ThreadInv(F), NEW t \in Caller, Threads(F)!ThreadFunc(t)
    PROVE  ThreadInv(F)'
<1> USE ThreadAssumption DEF Threads!Goes, Threads!Slept
<1>0. ASSUME NEW a, NEW b, Threads(F)!Slept(t, a, b),
             <<a, b>> \in {<<"wait_to_obtain", "lock">>, <<"wait_to_obtain", "exited">>,
                           <<"wait_to_release", "unlock">>, <<"wait_to_release", "exited">>}
      PROVE  ThreadInv(F)'
  BY <1>0 DEF ThreadInv, Threads!TypeOK
<1>1. CASE Threads(F)!WaitToObtain(t) \/ Threads(F)!Interrupted(t) \/ Threads(F)!WaitToRelease(t)
  BY <1>0, <1>1 DEF Threads!WaitToObtain, Threads!Interrupted, Threads!WaitToRelease
<1>2. CASE Threads(F)!Lock(t)
  BY <1>2 DEF Threads!Lock, Threads!MayLock, ThreadInv, Threads!TypeOK
<1>3. CASE Threads(F)!Unlock(t)
  BY <1>3 DEF Threads!Unlock, Threads!Released, ThreadInv, Threads!TypeOK
<1>4. CASE Threads(F)!Complete(t)
  BY <1>4 DEF Threads!Complete, ThreadInv, Threads!TypeOK
<1> QED  BY <1>1, <1>2, <1>3, <1>4 DEF Threads!ThreadFunc

LEMMA ThreadNext == ASSUME NEW F, ThreadInv(F), Threads(F)!Next PROVE ThreadInv(F)'
BY ThreadStarts, ThreadRuns DEF Threads!Next

LEMMA ThreadStays == ASSUME NEW F, ThreadInv(F), UNCHANGED threads PROVE ThreadInv(F)'
BY DEF threads, ThreadInv, Threads!TypeOK

LEMMA ThreadSays == ASSUME NEW F, ThreadInv(F) PROVE Threads(F)!TypeOK /\ Threads(F)!OneHolds
BY DEF ThreadInv, Threads!OneHolds, Threads!Holding

(***************************************************************************)
(* systemcalls.  Where no signal ends a command, one that has ended either *)
(* did so with the status there is, or never became one, and that one is   *)
(* not zero.                                                               *)
(***************************************************************************)
SystemInv(K) ==
    /\ Commands(K)!TypeOK /\ fds \in Nat
    /\ child # "none" => cpc = "wait"
    /\ cpc = "open" => call = "redirect"
    /\ cpc # "idle" => result = "none"
    /\ ~K => /\ child = "ended" => status = "nonzero" \/ (status = ran /\ status # "signal")
             /\ result = "true" => ran = "zero"
             /\ child # "returned"

LEMMA SystemInit == ASSUME NEW K, NEW L, Commands(L)!Init PROVE SystemInv(K)
BY DEF Commands!Init, SystemInv, Commands!TypeOK, Commands!Statuses

LEMMA SystemNext == ASSUME NEW K, SystemInv(K), Commands(K)!Next PROVE SystemInv(K)'
<1> USE DEF SystemInv, Commands!TypeOK, Commands!Statuses, Commands!Return
<1>1. CASE \E f \in {"system", "exec", "redirect"} : Commands(K)!Begin(f)
  BY <1>1 DEF Commands!Begin
<1>2. CASE Commands(K)!Open \/ Commands(K)!Fork
  BY <1>2 DEF Commands!Open, Commands!Fork
<1>3. CASE Commands(K)!Redirect \/ Commands(K)!CopyEnds
  BY <1>3 DEF Commands!Redirect, Commands!CopyEnds
<1>4. CASE Commands(K)!Exec
  BY <1>4 DEF Commands!Exec, Commands!MayExec, Commands!ExecFailed
<1>5. CASE Commands(K)!CommandEnds
  BY <1>5 DEF Commands!CommandEnds
<1>6. CASE Commands(K)!Wait \/ Commands(K)!WaitFails
  BY <1>6 DEF Commands!Wait, Commands!WaitFails, Commands!Success
<1> QED  BY <1>1, <1>2, <1>3, <1>4, <1>5, <1>6 DEF Commands!Next

LEMMA SystemStays == ASSUME NEW K, SystemInv(K), UNCHANGED system PROVE SystemInv(K)'
BY DEF system, SystemInv, Commands!TypeOK, Commands!Statuses

LEMMA SystemSays ==
    ASSUME NEW K, SystemInv(K)
    PROVE  Commands(K)!TypeOK /\ (~K => Commands(K)!TrueIfSucceeded)
BY DEF SystemInv, Commands!TrueIfSucceeded

(***************************************************************************)
(* The display.  The needle is below the highest speed while it rises, and *)
(* above zero while it falls.                                              *)
(***************************************************************************)
DisplayInv ==
    /\ value \in 0 .. Fastest /\ value2 \in 1 .. Most /\ ahead \in BOOLEAN
    /\ ahead => value < Fastest
    /\ ~ahead => value > 0
    /\ gps = "runs" /\ sent = <<>> /\ conn = <<>>

LEMMA DisplayInit == Dash("display")!Init => DisplayInv
BY GaugeAssumption DEF Dash!Init, DisplayInv

LEMMA DisplayNext == DisplayInv /\ Dash("display")!Next => DisplayInv'
<1> SUFFICES ASSUME DisplayInv, Dash("display")!Next
             PROVE  DisplayInv'
  OBVIOUS
<1>1. Dash("display")!Show
  BY DEF Dash!Next, Dash!ObdThread, Dash!Send, Dash!GpsThread
<1>2. /\ value' = (IF ahead THEN value + 1 ELSE value - 1)
      /\ ahead' = Dash("display")!Turn(value') /\ value2' = Dash("display")!Fuel(value')
      /\ UNCHANGED <<gps, sent, conn>>
  BY <1>1 DEF Dash!Show
<1>3. value' \in 0 .. Fastest
  BY <1>2, GaugeAssumption DEF DisplayInv
<1>4. value2' \in 1 .. Most
  <2>1. value2' \in {value2, value2 - 1, Most} /\ value2' # 0
    BY <1>2, GaugeAssumption DEF Dash!Fuel, DisplayInv
  <2> QED  BY <2>1, GaugeAssumption DEF DisplayInv
<1>5. ahead' = IF value' = Fastest THEN FALSE ELSE value' = 0 \/ ahead
  BY <1>2 DEF Dash!Turn
<1>6. /\ ahead' \in BOOLEAN
      /\ ahead' => value' < Fastest
      /\ ~ahead' => value' > 0
  <2>1. CASE value' = Fastest
    BY <1>5, <2>1, GaugeAssumption
  <2>2. CASE value' # Fastest /\ value' = 0
    <3>1. ahead' = (TRUE \/ ahead)
      BY <1>5, <2>2
    <3>2. ahead' = TRUE
      BY <3>1, Zenon
    <3> QED  BY <1>3, <2>2, <3>2, GaugeAssumption
  <2>3. CASE value' # Fastest /\ value' # 0
    BY <1>3, <1>5, <2>3, GaugeAssumption DEF DisplayInv
  <2> QED  BY <2>1, <2>2, <2>3
<1> QED  BY <1>2, <1>3, <1>4, <1>6 DEF DisplayInv

LEMMA DisplayStays == DisplayInv /\ UNCHANGED dash => DisplayInv'
BY DEF dash, DisplayInv

LEMMA DisplaySays == DisplayInv => Dash("display")!TypeOK /\ Dash("display")!GaugesHaveImages
<1>1. <<>> \in Seq({"GPGGA", "GPRMC"}) /\ <<>> \in Seq(1 .. Dash("display")!Nowhere)
  OBVIOUS
<1> QED  BY <1>1, GaugeAssumption DEF DisplayInv, Dash!TypeOK, Dash!GaugesHaveImages

-----------------------------------------------------------------------------
(***************************************************************************)
(* A step is one of the subject, and the subject stays what it is.         *)
(***************************************************************************)
TasksInv ==
    /\ \A s \in DOMAIN Shorts     : subject = s => ShortInv(Shorts[s])
    /\ \A j \in DOMAIN Jiqs       : subject = j => JiqInv(Jiqs[j])
    /\ \A t \in DOMAIN Jits       : subject = t => JitInv(Jits[t])
    /\ \A c \in DOMAIN Sleepys    : subject = c => SleepyInv(Sleepys[c])
    /\ \A f \in DOMAIN Threadings : subject = f => ThreadInv(Threadings[f])
    /\ \A k \in DOMAIN Systems    : subject = k => SystemInv(Systems[k])
    /\ subject = "display" => DisplayInv

LEMMA Subjects ==
    /\ DOMAIN Shorts = {"whole", "split"} /\ DOMAIN Jiqs = {"jobs", "timed", "queues"}
    /\ DOMAIN Jits = {"ticks", "timers", "delays"} /\ DOMAIN Sleepys = {"flag", "completions"}
    /\ DOMAIN Threadings = {"failing", "threads"} /\ DOMAIN Systems = {"killed", "commands"}
BY DEF Shorts, Jiqs, Jits, Sleepys, Threadings, Systems

LEMMA Settings ==
    /\ \A s \in DOMAIN Shorts : ShortSetting(Shorts[s])
    /\ \A c \in DOMAIN Sleepys : Sleepys[c] \in BOOLEAN
    /\ Sleepys["completions"] /\ ~Systems["commands"]
    /\ \A t \in DOMAIN Jits \ {"delays"} : Jits[t].files = {"async"}
<1>1. \A s \in DOMAIN Shorts : ShortSetting(Shorts[s])
  BY ShortAssumption DEF Shorts, ShortSetting
<1>2. \A t \in DOMAIN Jits \ {"delays"} : Jits[t].files = {"async"}
  BY DEF Jits
<1>3. /\ \A c \in DOMAIN Sleepys : Sleepys[c] \in BOOLEAN
      /\ Sleepys["completions"] /\ ~Systems["commands"]
  <2>1. DOMAIN Sleepys = {"flag", "completions"} /\ Sleepys["flag"] = FALSE
        /\ Sleepys["completions"] = TRUE /\ Systems["commands"] = FALSE
    BY DEF Sleepys, Systems
  <2> QED  BY <2>1, Zenon
<1> QED  BY <1>1, <1>2, <1>3

LEMMA SubjectStep == TasksNext =>
    /\ subject' = subject
    /\ \A s \in DOMAIN Shorts     : subject = s => Irqs(Shorts[s])!Next
    /\ \A j \in DOMAIN Jiqs       : subject = j => Jobs(Jiqs[j])!Next
    /\ \A t \in DOMAIN Jits       : subject = t => Timers(Jits[t])!Next
    /\ \A c \in DOMAIN Sleepys    : subject = c => Waits(Sleepys[c])!Next
    /\ \A f \in DOMAIN Threadings : subject = f => Threads(Threadings[f])!Next
    /\ \A k \in DOMAIN Systems    : subject = k => Commands(Systems[k])!Next
    /\ subject = "display" => Dash("display")!Next
BY Subjects DEF TasksNext, OnlyShort, OnlyPrint, OnlyJiq, OnlyJit, OnlySleepy, OnlyThreads,
   OnlySystem, OnlyDriver, OnlyDash

LEMMA TasksInitInv == TasksInit => TasksInv
<1> SUFFICES ASSUME TasksInit PROVE TasksInv
  OBVIOUS
<1>1. /\ Irqs(Shorts.whole)!Init /\ Timers(Jits.ticks)!Init /\ Waits(FALSE)!Init
      /\ Threads(FALSE)!Init /\ Commands(FALSE)!Init /\ Dash("display")!Init
  BY DEF TasksInit
<1>2. \A j \in DOMAIN Jiqs : subject = j => Jobs(Jiqs[j])!Init
  BY DEF TasksInit
<1>3. \A s \in DOMAIN Shorts : ShortInv(Shorts[s])
  BY <1>1, ShortInit, Settings
<1>4. \A j \in DOMAIN Jiqs : subject = j => JiqInv(Jiqs[j])
  BY <1>2, JiqInit
<1>5. \A t \in DOMAIN Jits : JitInv(Jits[t])
  BY <1>1, JitInit
<1>6. \A c \in DOMAIN Sleepys : SleepyInv(Sleepys[c])
  BY <1>1, SleepyInit, Settings
<1>7. \A f \in DOMAIN Threadings : ThreadInv(Threadings[f])
  BY <1>1, ThreadInit
<1>8. \A k \in DOMAIN Systems : SystemInv(Systems[k])
  BY <1>1, SystemInit
<1> QED  BY <1>1, <1>3, <1>4, <1>5, <1>6, <1>7, <1>8, DisplayInit DEF TasksInv

LEMMA TasksNextInv == TasksInv /\ [TasksNext]_tasks => TasksInv'
<1> SUFFICES ASSUME TasksInv, [TasksNext]_tasks PROVE TasksInv'
  OBVIOUS
<1>1. CASE TasksNext
  <2>1. subject' = subject
    BY <1>1, SubjectStep
  <2>2. \A s \in DOMAIN Shorts : subject = s => ShortInv(Shorts[s])'
    BY <1>1, SubjectStep, ShortNext, Settings DEF TasksInv
  <2>3. \A j \in DOMAIN Jiqs : subject = j => JiqInv(Jiqs[j])'
    BY <1>1, SubjectStep, JiqNext DEF TasksInv
  <2>4. \A t \in DOMAIN Jits : subject = t => JitInv(Jits[t])'
    BY <1>1, SubjectStep, JitNext DEF TasksInv
  <2>5. \A c \in DOMAIN Sleepys : subject = c => SleepyInv(Sleepys[c])'
    BY <1>1, SubjectStep, SleepyNext, Settings DEF TasksInv
  <2>6. \A f \in DOMAIN Threadings : subject = f => ThreadInv(Threadings[f])'
    BY <1>1, SubjectStep, ThreadNext DEF TasksInv
  <2>7. \A k \in DOMAIN Systems : subject = k => SystemInv(Systems[k])'
    BY <1>1, SubjectStep, SystemNext DEF TasksInv
  <2>8. subject = "display" => DisplayInv'
    BY <1>1, SubjectStep, DisplayNext DEF TasksInv
  <2> QED  BY <2>1, <2>2, <2>3, <2>4, <2>5, <2>6, <2>7, <2>8
           DEF TasksInv, Shorts, Jiqs, Jits, Sleepys, Threadings, Systems
<1>2. CASE UNCHANGED tasks
  <2>1. UNCHANGED <<subject, short, jiq, jit, sleepy, threads, system, dash>>
    BY <1>2 DEF tasks
  <2>2. \A s \in DOMAIN Shorts : subject = s => ShortInv(Shorts[s])'
    BY <2>1, ShortStays DEF TasksInv
  <2>3. \A j \in DOMAIN Jiqs : subject = j => JiqInv(Jiqs[j])'
    BY <2>1, JiqStays DEF TasksInv
  <2>4. \A t \in DOMAIN Jits : subject = t => JitInv(Jits[t])'
    BY <2>1, JitStays DEF TasksInv
  <2>5. \A c \in DOMAIN Sleepys : subject = c => SleepyInv(Sleepys[c])'
    BY <2>1, SleepyStays DEF TasksInv
  <2>6. \A f \in DOMAIN Threadings : subject = f => ThreadInv(Threadings[f])'
    BY <2>1, ThreadStays DEF TasksInv
  <2>7. \A k \in DOMAIN Systems : subject = k => SystemInv(Systems[k])'
    BY <2>1, SystemStays DEF TasksInv
  <2>8. subject = "display" => DisplayInv'
    BY <2>1, DisplayStays DEF TasksInv
  <2> QED  BY <2>1, <2>2, <2>3, <2>4, <2>5, <2>6, <2>7, <2>8
           DEF TasksInv, Shorts, Jiqs, Jits, Sleepys, Threadings, Systems
<1> QED  BY <1>1, <1>2

LEMMA TasksInvariant == TasksSpec => []TasksInv
<1> QED  BY TasksInitInv, TasksNextInv, PTL DEF TasksSpec

(***************************************************************************)
(* No wake-up is lost, with any number of readers of jiq and of sleepy, any*)
(* page, array and bytes asked for in short, and any number of interrupts, *)
(* lines and writes; and every complete_write lets exactly one read return *)
(* (short_interrupt, short_do_tasklet, jiq_print_wq, jiq_timedout,         *)
(* jiq_read_run_timer_show, sleepy_write, complete_read).                  *)
(***************************************************************************)
THEOREM NoWakeUpIsLost == TasksSpec => []SleepersHaveWakers
<1>1. TasksInv => SleepersHaveWakers
  <2> SUFFICES ASSUME TasksInv PROVE SleepersHaveWakers
    OBVIOUS
  <2>1. \A s \in DOMAIN Shorts : subject = s =>
            Irqs(Shorts[s])!TypeOK /\ Irqs(Shorts[s])!NoLostWakeup
    BY DEF TasksInv, ShortInv
  <2>2. \A j \in DOMAIN Jiqs : subject = j =>
            Jobs(Jiqs[j])!TypeOK /\ Jobs(Jiqs[j])!SleeperHasJob /\ Jobs(Jiqs[j])!TimerGone
    BY JiqSays DEF TasksInv
  <2>3. \A c \in DOMAIN Sleepys : subject = c =>
            /\ Waits(Sleepys[c])!TypeOK /\ Waits(Sleepys[c])!NoLostWakeup
            /\ Sleepys[c] => Waits(Sleepys[c])!OneReadPerWrite
    BY SleepySays, Settings DEF TasksInv
  <2>4. subject = "completions" => Waits(TRUE)!OneReadPerWrite
    <3>1. subject = "completions" => Waits(Sleepys["completions"])!OneReadPerWrite
      BY <2>3, Subjects, Settings
    <3>2. Sleepys["completions"] = TRUE
      BY DEF Sleepys
    <3> QED  BY <3>1, <3>2, Zenon
  <2> QED  BY <2>1, <2>2, <2>3, <2>4 DEF SleepersHaveWakers
<1> QED  BY <1>1, TasksInvariant, PTL

(***************************************************************************)
(* What claims success has had it, with any number of readers and threads, *)
(* any delay of up to half the range of jiffies, any number of lines and of*)
(* calls, and any two gauges (jit_timer_fn, jit_fn_show, threadfunc,       *)
(* do_exec, do_exec_redirect, pygame_try.py).                              *)
(***************************************************************************)
THEOREM WhatSucceededIsDone == TasksSpec => []SuccessIsTrue
<1>1. TasksInv => SuccessIsTrue
  <2> SUFFICES ASSUME TasksInv PROVE SuccessIsTrue
    OBVIOUS
  <2>1. \A t \in DOMAIN Jits : subject = t =>
            /\ Timers(Jits[t])!TypeOK /\ Timers(Jits[t])!DelayLasts
            /\ Jits[t].files = {"async"} => Timers(Jits[t])!FullFile
    BY JitSays DEF TasksInv
  <2>2. \A t \in DOMAIN Jits \ {"delays"} : subject = t => Timers(Jits[t])!FullFile
    BY <2>1, Settings
  <2>3. \A f \in DOMAIN Threadings : subject = f =>
            Threads(Threadings[f])!TypeOK /\ Threads(Threadings[f])!OneHolds
    BY ThreadSays DEF TasksInv
  <2>4. \A k \in DOMAIN Systems : subject = k =>
            /\ Commands(Systems[k])!TypeOK
            /\ ~Systems[k] => Commands(Systems[k])!TrueIfSucceeded
    BY SystemSays DEF TasksInv
  <2>5. subject = "commands" => Commands(FALSE)!TrueIfSucceeded
    <3>1. subject = "commands" => Commands(Systems["commands"])!TrueIfSucceeded
      BY <2>4, Subjects, Settings
    <3> QED  BY <3>1 DEF Commands!TrueIfSucceeded
  <2>6. subject = "display" => Dash("display")!TypeOK /\ Dash("display")!GaugesHaveImages
    BY DisplaySays DEF TasksInv
  <2> QED  BY <2>1, <2>2, <2>3, <2>4, <2>5, <2>6 DEF SuccessIsTrue
<1> QED  BY <1>1, TasksInvariant, PTL
=============================================================================
