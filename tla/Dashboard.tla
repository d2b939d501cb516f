----------------------------- MODULE Dashboard ------------------------------
(***************************************************************************)
(* The car dashboard of the final project: pygame_try.py, which turns two  *)
(* gauges, and the server thread_ex.py, whose one thread counts a speed and*)
(* a fuel level and whose other finds the positions in what a receiver     *)
(* sends ("NMEA" sentences, of which "$GPGGA" is the one looked for).      *)
(*                                                                         *)
(* The receiver's connection is a stream: a read gets any number of        *)
(* sentences and, where Cuts, may end within one.  A sentence is given in  *)
(* four pieces: its name; two that together hold the words that printGGA   *)
(* needs; and the rest.                                                    *)
(***************************************************************************)
EXTENDS Naturals, Sequences

CONSTANTS
    Program,      \* "display" or "server"
    Top,          \* the highest speed, 199, which has the last image
    Few,          \* the speeds between two changes of the fuel level, 10
    Most,         \* the fuel level of a full tank, 99
    Cuts,         \* TRUE: a read may end within a sentence
    MaxSent       \* bound: sentences that the receiver sends

VARIABLES
    value, value2, ahead,     \* speed, fuel level, and whether speed grows
    stream, gps,              \* what is not yet read; the state of gpsThread
    sent, conn                \* history: sentences sent, positions passed on

gauges == <<value, value2, ahead>>
vars   == <<gauges, stream, gps, sent, conn>>

Init ==
    /\ value = 0 /\ value2 = Most /\ ahead = TRUE
    /\ stream = <<>> /\ gps = "runs" /\ sent = <<>> /\ conn = <<>>

-----------------------------------------------------------------------------
(* The gauges.  The display turns at both ends.  The thread that sends the *)
(* values looks for the upper end in the branch that grows, and there lets *)
(* the speed grow on.                                                      *)
Fuel(v) ==
    LET less == IF v % Few = 0 THEN value2 - 1 ELSE value2
    IN  IF less = 0 THEN Most ELSE less

Turn_Past(v) == IF v > Top THEN FALSE ELSE v = 0 \/ ahead      \* slip: > for ==
Turn(v) == IF v = Top THEN FALSE ELSE v = 0 \/ ahead

Show ==
    /\ Program = "display"
    /\ value' = IF ahead THEN value + 1 ELSE value - 1
    /\ ahead' = Turn(value')
    /\ value2' = Fuel(value')
    /\ UNCHANGED <<stream, gps, sent, conn>>

ObdThread ==
    /\ Program = "server"
    /\ \/ value <= Top /\ value' = IF ahead THEN value + 1 ELSE value
       \/ value > Top  /\ value' = IF ahead THEN value ELSE value - 1
    /\ ahead' = (ahead \/ (value <= Top /\ value' = 0))
    /\ value2' = Fuel(value')
    /\ UNCHANGED <<stream, gps, sent, conn>>

-----------------------------------------------------------------------------
(* The receiver sends positions and other sentences. *)
Pieces(n, kind) == [i \in 1 .. 4 |-> [nr |-> n, kind |-> kind, piece |-> i]]

Send(kind) ==
    /\ Program = "server" /\ Len(sent) < MaxSent
    /\ sent' = Append(sent, kind)
    /\ stream' = stream \o Pieces(Len(sent) + 1, kind)
    /\ UNCHANGED <<gauges, gps, conn>>

(* data_chunk.split("$GPGGA"), where there is one.  What comes before the  *)
(* first is a line, too; another sentence shows by its "$".                *)
Lines(chunk) ==
    LET at == <<0>> \o SelectSeq([i \in DOMAIN chunk |-> i],
                                 LAMBDA i : chunk[i].kind = "GPGGA" /\ chunk[i].piece = 1)
        to(j) == IF j = Len(at) THEN Len(chunk) ELSE at[j + 1] - 1
    IN  IF Len(at) = 1 THEN <<>> ELSE [j \in DOMAIN at |-> SubSeq(chunk, at[j] + 1, to(j))]

Skipped_Empty(line) == line = <<>>                     \* slip: line[0] not looked at
Skipped(line) == line = <<>> \/ line[1].piece = 1

(* What a line leads to: the position of a sentence; an error, where words *)
(* are missing or are no numbers; or, where the end of a sentence goes on  *)
(* with another one, whose words are then taken for a position, that.      *)
Error   == 0
Nowhere == MaxSent + 1

Leads(line) ==
    IF line[1].piece = 2 /\ line[1].kind = "GPGGA" /\ Len(line) > 1 THEN {line[1].nr}
    ELSE {Error} \cup IF line[1].piece = 4 /\ Len(line) > 3 THEN {Nowhere} ELSE {}

(* Positions are passed on until a line raises an error, which ends the    *)
(* thread: it handles none but the one that only the main thread is sent.  *)
GpsThread(n) ==
    /\ Program = "server" /\ gps = "runs"
    /\ ~Cuts => stream[n].piece = 4
    /\ LET lines == SelectSeq(Lines(SubSeq(stream, 1, n)), LAMBDA line : ~Skipped(line)) IN
        \E k \in 0 .. Len(lines), found \in [DOMAIN lines -> 0 .. Nowhere] :
            /\ \A j \in DOMAIN lines : found[j] \in Leads(lines[j])
            /\ \A j \in 1 .. k : found[j] # Error
            /\ k < Len(lines) => found[k + 1] = Error
            /\ conn' = conn \o SubSeq(found, 1, k)
            /\ gps' = IF k < Len(lines) THEN "dead" ELSE "runs"
    /\ stream' = SubSeq(stream, n + 1, Len(stream))
    /\ UNCHANGED <<gauges, sent>>

Next ==
    \/ Show \/ ObdThread
    \/ \E kind \in {"GPGGA", "GPRMC"} : Send(kind)
    \/ \E n \in DOMAIN stream : GpsThread(n)

Spec == Init /\ [][Next]_vars /\ WF_vars(Show) /\ WF_vars(ObdThread)

-----------------------------------------------------------------------------
TypeOK ==
    /\ value \in 0 .. Top + 1 /\ value2 \in 1 .. Most /\ ahead \in BOOLEAN
    /\ gps \in {"runs", "dead"}
    /\ sent \in Seq({"GPGGA", "GPRMC"}) /\ conn \in Seq(1 .. Nowhere)

(***************************************************************************)
(* The display has an image for every speed and fuel level it comes to, and*)
(* its needle comes back again and again.                                  *)
(***************************************************************************)
GaugesHaveImages == Program = "display" => value <= Top
NeedleTurns      == []<>(value = 0)

(***************************************************************************)
(* gpsThread: as long as reads end where sentences do, every position that *)
(* was sent is passed on, once and in order, however many sentences a read *)
(* gets and whatever stands between them; and what is passed on was sent.  *)
(***************************************************************************)
Positions(kinds) == SelectSeq([n \in DOMAIN kinds |-> n], LAMBDA n : kinds[n] = "GPGGA")
Read == IF stream = <<>> THEN Len(sent) ELSE stream[1].nr - 1

EachPassedOn == gps = "runs" /\ conn = Positions(SubSeq(sent, 1, Read))

-----------------------------------------------------------------------------
(* What follows the code does not keep, and TLC refutes.                   *)

(***************************************************************************)
(* The speed that the server sends does not go up and down: once at the    *)
(* top it stays there (NeedleTurns of the server).  And where a read ends  *)
(* within a sentence, the thread that passes positions on dies, or passes  *)
(* on one that nobody sent.                                                *)
(***************************************************************************)
ThreadLives == gps = "runs"
WereSent    == \A i \in DOMAIN conn : conn[i] \in DOMAIN sent /\ sent[conn[i]] = "GPGGA"

=============================================================================
