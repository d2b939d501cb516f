------------------------------- MODULE Sbull -------------------------------
(***************************************************************************)
(* sbull/sbull.c: a disk in memory.  Requests are transferred a segment at *)
(* a time, several at once and without the lock; a timer that runs out     *)
(* while nobody has the disk open flags a change of the medium, and the    *)
(* next to open it finds it empty.  The kernel opens and releases a disk   *)
(* one call after the other, calls media_changed and revalidate_disk from  *)
(* the first open (before version 5.9), and lets a disk go only when its   *)
(* requests are through.                                                   *)
(***************************************************************************)
EXTENDS Naturals, Sequences, FiniteSets, SequencesExt

CONSTANTS
    nsectors,
    Requests,        \* [write, sector, bios], a bio being the sizes of its segments
    Ctx,             \* contexts that handle one request each
    request_mode,    \* "simple", or "full": a bio at a time, which has its own sector
    MaxUsers, MaxMoves   \* bounds: on openings, and on requests handled

VARIABLES
    data, users, media_change,   \* struct sbull_dev; data[s] is Zero, or the
                                 \* request and its sector that were written to s
    timer,                       \* "off", "pending", or "running": the handler waits
    opening,                     \* an open is under way, its timer deleted
    req, bio, seg, sector,       \* of a context: its request and how far it is
    got,                         \* of a context: its request's sectors moved so far,
                                 \* each with what it was moved to or from
    moves

devVars == <<data, users, media_change, timer, opening>>
reqVars == <<req, bio, seg, sector, got, moves>>
vars    == <<devVars, reqVars>>

NoReq == [write |-> FALSE, sector |-> 0, bios |-> <<>>]
Zero  == [of |-> NoReq, at |-> 0]                 \* of a sector not written

Init ==
    /\ data = [s \in 0 .. nsectors - 1 |-> Zero]
    /\ users = 0 /\ media_change = FALSE /\ timer = "off" /\ opening = FALSE
    /\ req = [c \in Ctx |-> NoReq]
    /\ bio = [c \in Ctx |-> 1] /\ seg = [c \in Ctx |-> 1] /\ sector = [c \in Ctx |-> 0]
    /\ got = [c \in Ctx |-> {}] /\ moves = 0

-----------------------------------------------------------------------------
(* sbull_open: the timer, and then the rest of it, under the lock. *)
TimerOff_Left == timer                            \* slip: no del_timer_sync
TimerOff == "off"

Open ==
    /\ ~opening /\ users < MaxUsers /\ timer # "running"
    /\ opening' = TRUE /\ timer' = TimerOff
    /\ UNCHANGED <<data, users, media_change, reqVars>>

ChangeSeen_Kept == media_change                   \* slip: the flag stays
ChangeSeen == FALSE

Revalidate ==
    IF media_change
    THEN data' = [s \in DOMAIN data |-> Zero] /\ media_change' = ChangeSeen
    ELSE UNCHANGED <<data, media_change>>

Opened ==
    /\ opening /\ opening' = FALSE
    /\ IF users = 0 THEN Revalidate ELSE UNCHANGED <<data, media_change>>
    /\ users' = users + 1
    /\ UNCHANGED <<timer, reqVars>>

(* sbull_release: the last one starts the timer. *)
Release ==
    /\ ~opening /\ users > 0
    /\ users = 1 => \A c \in Ctx : req[c] = NoReq
    /\ users' = users - 1
    /\ timer' = IF users' = 0 THEN "pending" ELSE timer
    /\ UNCHANGED <<data, media_change, opening, reqVars>>

Expire ==
    /\ timer = "pending" /\ timer' = "running"
    /\ UNCHANGED <<data, users, media_change, opening, reqVars>>

(* sbull_invalidate, with its sanity check. *)
Invalidate ==
    /\ timer = "running" /\ timer' = "off"
    /\ media_change' = (media_change \/ users = 0)
    /\ UNCHANGED <<data, users, opening, reqVars>>

-----------------------------------------------------------------------------
(* A request comes to a context. *)
Start(c) ==
    /\ users > 0 /\ req[c] = NoReq /\ moves < MaxMoves
    /\ \E r \in Requests :
        /\ req' = [req EXCEPT ![c] = r]
        /\ sector' = [sector EXCEPT ![c] = r.sector]
    /\ bio' = [bio EXCEPT ![c] = 1] /\ seg' = [seg EXCEPT ![c] = 1]
    /\ got' = [got EXCEPT ![c] = {}] /\ moves' = moves + 1
    /\ UNCHANGED devVars

Sum(sizes) == FoldLeft(LAMBDA a, b : a + b, 0, sizes)
Sectors(r) == Sum(FlattenSeq(r.bios))             \* of a request

(* Where in the request's sectors the segment at hand begins. *)
Place(c) ==
    Sum(FlattenSeq(SubSeq(req[c].bios, 1, bio[c] - 1)))
    + Sum(SubSeq(req[c].bios[bio[c]], 1, seg[c] - 1))

(* How many sectors the driver takes the segment to have: what the request *)
(* or the bio counts as its current ones, which is its first segment.      *)
Taken_Less(c) == 1                                \* slip: a sector at a time
Taken(c) == IF request_mode = "simple" THEN req[c].bios[1][1] ELSE req[c].bios[bio[c]][1]

(* sbull_transfer, of n sectors from or to place p of the request. *)
Transfer(c, s, n, p) ==
    IF s + n > nsectors THEN UNCHANGED <<data, got>>
    ELSE /\ data' = IF ~req[c].write THEN data
                    ELSE [t \in DOMAIN data |->
                            IF t \in s .. s + n - 1 THEN [of |-> req[c], at |-> p + t - s]
                            ELSE data[t]]
         /\ got' = [got EXCEPT ![c] = @ \cup {<<p + i, s + i>> : i \in 0 .. n - 1}]

Advanced_Not(c) == sector[c]                      \* slip: each segment to the same place
Advanced(c) == sector[c] + Taken(c)

LastSeg(c) == seg[c] = Len(req[c].bios[bio[c]])

(* One segment, after which the sector goes on by as many; in full mode    *)
(* the next bio begins where the kernel says.                              *)
Segment(c) ==
    /\ req[c] # NoReq /\ bio[c] <= Len(req[c].bios)
    /\ Transfer(c, sector[c], Taken(c), Place(c))
    /\ seg' = [seg EXCEPT ![c] = IF LastSeg(c) THEN 1 ELSE seg[c] + 1]
    /\ bio' = [bio EXCEPT ![c] = IF LastSeg(c) THEN bio[c] + 1 ELSE bio[c]]
    /\ sector' = [sector EXCEPT ![c] =
           IF request_mode = "full" /\ LastSeg(c)
           THEN req[c].sector + Sum(FlattenSeq(SubSeq(req[c].bios, 1, bio[c])))
           ELSE Advanced(c)]
    /\ UNCHANGED <<users, media_change, timer, opening, req, moves>>

End(c) ==
    /\ req[c] # NoReq /\ bio[c] > Len(req[c].bios)
    /\ req' = [req EXCEPT ![c] = NoReq]
    /\ UNCHANGED <<devVars, bio, seg, sector, got, moves>>

-----------------------------------------------------------------------------
Next ==
    \/ Open \/ Opened \/ Release \/ Expire \/ Invalidate
    \/ \E c \in Ctx : Start(c) \/ Segment(c) \/ End(c)

Spec == Init /\ [][Next]_vars

-----------------------------------------------------------------------------
(***************************************************************************)
(* Types; and no timer is set or runs on a disk that somebody has open, so *)
(* the handler's sanity check never fails.                                 *)
(***************************************************************************)
TypeOK ==
    /\ users \in 0 .. MaxUsers /\ media_change \in BOOLEAN /\ opening \in BOOLEAN
    /\ timer \in {"off", "pending", "running"}
    /\ \A c \in Ctx : req[c] \in Requests \cup {NoReq}
    /\ timer # "off" => users = 0 /\ ~opening

(***************************************************************************)
(* No change of the medium is pending while somebody has the disk open, so *)
(* that nothing written is wiped before the disk has lain idle: the first  *)
(* to open it has seen to a change, and none comes while it is in use.     *)
(***************************************************************************)
NoChangeInUse == users > 0 => ~media_change

(***************************************************************************)
(* A sector of a request goes to, or comes from, its own sector of the     *)
(* disk, and nothing beyond the request's is moved.                        *)
(***************************************************************************)
InPlace ==
    /\ \A s \in DOMAIN data : data[s] # Zero => data[s].of.sector + data[s].at = s
    /\ \A c \in Ctx : req[c] # NoReq =>
            \A m \in got[c] : req[c].sector + m[1] = m[2] /\ m[1] < Sectors(req[c])

(***************************************************************************)
(* "Do each segment independently" (sbull.c:181): a request that is at its *)
(* end has had every sector moved.                                         *)
(***************************************************************************)
AllMoved == \A c \in Ctx :
    req[c] # NoReq /\ bio[c] > Len(req[c].bios) =>
        {m[1] : m \in got[c]} = 0 .. Sectors(req[c]) - 1
=============================================================================
