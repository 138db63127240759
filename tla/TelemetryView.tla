---------------------------- MODULE TelemetryView ----------------------------
(***************************************************************************)
(* The live view over TCP: a board serves its telemetry to one viewer, the *)
(* newest (telemetry.cpp of the garden node, TcpBroadcaster of the rover), *)
(* and every board_tui --host reconnects for ever (TcpSource).             *)
(*                                                                         *)
(* A frame is numbered and travels as two halves, of which the second one  *)
(* ends the line: TCP cuts a stream anywhere, and here a line at one place.*)
(* A viewer has one connection at a time and lends it its name; one that   *)
(* its viewer has left, or the network has cut, is Gone to the board.      *)
(***************************************************************************)
EXTENDS Integers, Sequences, SequencesExt

CONSTANTS
  Viewers,
  None, Gone,   \* no connection, and one with nobody at its other end
  Setups        \* the boards and bounds of a behaviour: one is chosen at its start

(***************************************************************************)
(* board    "garden" or "rover"                                            *)
(* last     bound: the number of the last frame                            *)
(* wraps    frames are numbered modulo last + 1, instead of ending there   *)
(* queue    connections the listener holds until they are accepted         *)
(* room     halves a connection's send buffer holds                        *)
(* starts   bound: how often a viewer is started                           *)
(* outages  the network may be lost for the board                          *)
(* rejoins  the board's loop joins the network again: the garden node does *)
(*          if built with ENABLE_UPLOAD, with ENABLE_TCP_VIEW alone it does*)
(*          not, and the rover joins it at boot only                       *)
(***************************************************************************)
ASSUME ViewAssumption ==
  /\ None \notin Viewers /\ Gone \notin Viewers /\ None # Gone
  /\ Setups \subseteq [board : {"garden", "rover"}, last : Nat, wraps : BOOLEAN,
                       queue : Nat \ {0}, room : Nat \ {0, 1}, starts : Nat,
                       outages : BOOLEAN, rejoins : BOOLEAN]

VARIABLES
  setup,    \* one of Setups, for ever
  up,       \* the board runs
  online,   \* it has joined the network
  frame,    \* the number of the next frame
  client,   \* the connection frames are written to
  backlog,  \* connections not accepted yet
  viewer,   \* [Viewers -> "off", "retry" or "open"]
  wire,     \* [Viewers -> Seq(half)]: written and not received
  closed,   \* [Viewers -> BOOLEAN]: the viewer will read the end of its connection
  buf,      \* [Viewers -> Seq(half)]: received and not yielded
  shown,    \* [Viewers -> Seq(half)]: the last line yielded
  starts    \* how often a viewer was started

vars == <<setup, up, online, frame, client, backlog, viewer, wire, closed, buf, shown, starts>>

FirstHalf(f) == [frame |-> f, part |-> "head"]
LastHalf(f) == [frame |-> f, part |-> "tail"]
Line(f) == <<FirstHalf(f), LastHalf(f)>>
HasLine(s) == \E i \in 1 .. Len(s) : s[i].part = "tail"

Init ==
  /\ setup \in Setups
  /\ up = TRUE
  /\ online = TRUE
  /\ frame = 0
  /\ client = None
  /\ backlog = << >>
  /\ viewer = [v \in Viewers |-> "off"]
  /\ wire = [v \in Viewers |-> << >>]
  /\ closed = [v \in Viewers |-> FALSE]
  /\ buf = [v \in Viewers |-> << >>]
  /\ shown = [v \in Viewers |-> << >>]
  /\ starts = 0

-----------------------------------------------------------------------------
(***************************************************************************)
(* The board, once in TELEMETRY_MS.                                        *)
(***************************************************************************)

NumberLeft == frame < setup.last \/ setup.wraps
NextNumber == IF frame < setup.last THEN frame + 1 ELSE 0

\* The connection a frame goes to: the first one waiting, or the one of before.
Adopted == IF backlog = << >> THEN client ELSE Head(backlog)

\* What accepting it does: the connection of before is closed.
Accept ==
  /\ backlog' = IF backlog = << >> THEN << >> ELSE Tail(backlog)
  /\ closed' = [v \in Viewers |-> closed[v] \/ (v = client /\ Adopted # client)]

\* telemetryTick: the frame is written in full, the loop waits where it has no room.
GardenFrame ==
  /\ Accept
  /\ client' = Adopted
  /\ IF Adopted \in Viewers
     THEN /\ Len(wire[Adopted]) + 2 <= setup.room
          /\ wire' = [wire EXCEPT ![Adopted] = @ \o Line(frame)]
     ELSE UNCHANGED wire

\* A frame of 512 bytes or more goes to the serial port only, and nobody is accepted.
GardenLongFrame == UNCHANGED <<client, backlog, wire, closed>>

\* Mutant of RoverFrame: the error of the write is not looked at.
RoverFrameUnchecked ==
  /\ Accept
  /\ client' = Adopted
  /\ wire' = IF Adopted \notin Viewers \/ Len(wire[Adopted]) >= setup.room THEN wire
             ELSE IF Len(wire[Adopted]) + 2 <= setup.room
             THEN [wire EXCEPT ![Adopted] = @ \o Line(frame)]
             ELSE [wire EXCEPT ![Adopted] = Append(@, FirstHalf(frame))]

\* TcpBroadcaster::broadcast: the socket does not block.  With no room for all of the
\* line a part of it may have been written; the connection is dropped.
RoverFrame ==
  /\ backlog' = IF backlog = << >> THEN << >> ELSE Tail(backlog)
  /\ LET fits == Adopted \in Viewers /\ Len(wire[Adopted]) + 2 <= setup.room
         fails == Adopted = Gone \/ (Adopted \in Viewers /\ ~ fits)
     IN  \/ /\ ~ fails \/ Adopted = Gone
            /\ client' = Adopted
            /\ wire' = IF fits THEN [wire EXCEPT ![Adopted] = @ \o Line(frame)] ELSE wire
            /\ closed' = [v \in Viewers |-> closed[v] \/ (v = client /\ Adopted # client)]
         \/ /\ fails
            /\ client' = None
            /\ wire' = IF Adopted \in Viewers /\ Len(wire[Adopted]) < setup.room
                       THEN [wire EXCEPT ![Adopted] = Append(@, FirstHalf(frame))] ELSE wire
            /\ closed' = [v \in Viewers |-> closed[v] \/ v \in {client, Adopted}]

\* The two kinds of a tick.
Tick ==
  /\ up
  /\ NumberLeft
  /\ frame' = NextNumber
  /\ UNCHANGED <<setup, up, online, viewer, buf, shown, starts>>

SendFrame ==
  /\ Tick
  /\ \/ setup.board = "garden" /\ GardenFrame
     \/ setup.board = "rover" /\ RoverFrame

SkipFrame == Tick /\ setup.board = "garden" /\ GardenLongFrame

\* A reboot, of OTA too: its connections are lost without a word.
Down ==
  /\ up
  /\ up' = FALSE
  /\ online' = FALSE
  /\ client' = None
  /\ backlog' = << >>
  /\ UNCHANGED <<setup, frame, viewer, wire, closed, buf, shown, starts>>

\* setup: joined to the network, or not in the 15 s there are for it, and listening.
\* The rover's main goes no further without the network.
Boot ==
  /\ ~ up
  /\ up' = TRUE
  /\ \/ online' = TRUE
     \/ setup.outages /\ setup.board = "garden" /\ online' = FALSE
  /\ UNCHANGED <<setup, frame, client, backlog, viewer, wire, closed, buf, shown, starts>>

\* The network is gone for the board, and its connections with it, without a word.
LoseWifi ==
  /\ setup.outages
  /\ online
  /\ online' = FALSE
  /\ client' = IF client \in Viewers THEN Gone ELSE client
  /\ backlog' = [i \in DOMAIN backlog |-> Gone]
  /\ UNCHANGED <<setup, up, frame, viewer, wire, closed, buf, shown, starts>>

\* Mutant of Rejoin: netEnsureWifi is for setup.
RejoinNever == FALSE

\* netEnsureWifi, from the OTA poll or a publish of the loop.
Rejoin ==
  /\ setup.rejoins
  /\ up /\ ~ online
  /\ online' = TRUE
  /\ UNCHANGED <<setup, up, frame, client, backlog, viewer, wire, closed, buf, shown, starts>>

-----------------------------------------------------------------------------
(***************************************************************************)
(* TcpSource, and those who start and stop it.                             *)
(***************************************************************************)

\* What the board keeps of v's connection when nobody is at its other end.
Abandoned(v) ==
  /\ client' = IF client = v THEN Gone ELSE client
  /\ backlog' = [i \in DOMAIN backlog |-> IF backlog[i] = v THEN Gone ELSE backlog[i]]

Attached(v) == client = v \/ v \in Range(backlog)

Start(v) ==
  /\ viewer[v] = "off"
  /\ starts < setup.starts
  /\ starts' = starts + 1
  /\ viewer' = [viewer EXCEPT ![v] = "retry"]
  /\ shown' = [shown EXCEPT ![v] = << >>]
  /\ UNCHANGED <<setup, up, online, frame, client, backlog, wire, closed, buf>>

Quit(v) ==
  /\ viewer[v] # "off"
  /\ viewer' = [viewer EXCEPT ![v] = "off"]
  /\ Abandoned(v)
  /\ buf' = [buf EXCEPT ![v] = << >>]
  /\ wire' = [wire EXCEPT ![v] = << >>]
  /\ closed' = [closed EXCEPT ![v] = FALSE]
  /\ UNCHANGED <<setup, up, online, frame, shown, starts>>

\* Mutant of Connect: the listener's queue has no end.
ConnectAnyway(v) ==
  /\ viewer[v] = "retry"
  /\ online
  /\ viewer' = [viewer EXCEPT ![v] = "open"]
  /\ backlog' = Append(backlog, v)
  /\ UNCHANGED <<setup, up, online, frame, client, wire, closed, buf, shown, starts>>

\* create_connection succeeds as soon as the listener's queue has room; where it
\* does not, the viewer sleeps and tries again, which changes nothing.
Connect(v) ==
  /\ viewer[v] = "retry"
  /\ online
  /\ Len(backlog) < setup.queue
  /\ viewer' = [viewer EXCEPT ![v] = "open"]
  /\ backlog' = Append(backlog, v)
  /\ UNCHANGED <<setup, up, online, frame, client, wire, closed, buf, shown, starts>>

\* recv returns what has arrived of the stream, in chunks of any size.
Recv(v) ==
  /\ viewer[v] = "open"
  /\ ~ HasLine(buf[v])
  /\ \E n \in 1 .. Len(wire[v]) :
       /\ buf' = [buf EXCEPT ![v] = @ \o SubSeq(wire[v], 1, n)]
       /\ wire' = [wire EXCEPT ![v] = SubSeq(@, n + 1, Len(@))]
  /\ UNCHANGED <<setup, up, online, frame, client, backlog, viewer, closed, shown, starts>>

\* Mutant of Yield: the line is not taken off the buffer's front, but off its end.
YieldNewest(v) ==
  /\ HasLine(buf[v])
  /\ LET end == CHOOSE i \in 1 .. Len(buf[v]) :
           buf[v][i].part = "tail" /\ \A j \in i + 1 .. Len(buf[v]) : buf[v][j].part # "tail"
     IN  /\ shown' = [shown EXCEPT ![v] = SubSeq(buf[v], end - 1, end)]
         /\ buf' = [buf EXCEPT ![v] = SubSeq(@, 1, end - 2) \o SubSeq(@, end + 1, Len(@))]
  /\ UNCHANGED <<setup, up, online, frame, client, backlog, viewer, wire, closed, starts>>

\* A complete line is yielded.
Yield(v) ==
  /\ HasLine(buf[v])
  /\ LET end == CHOOSE i \in 1 .. Len(buf[v]) :
           buf[v][i].part = "tail" /\ \A j \in 1 .. i - 1 : buf[v][j].part # "tail"
     IN  /\ shown' = [shown EXCEPT ![v] = SubSeq(buf[v], 1, end)]
         /\ buf' = [buf EXCEPT ![v] = SubSeq(@, end + 1, Len(@))]
  /\ UNCHANGED <<setup, up, online, frame, client, backlog, viewer, wire, closed, starts>>

\* Mutant of Retry: what the old connection left in the buffer is kept.
RetryKept(v) ==
  /\ viewer' = [viewer EXCEPT ![v] = "retry"]
  /\ Abandoned(v)
  /\ wire' = [wire EXCEPT ![v] = << >>]
  /\ closed' = [closed EXCEPT ![v] = FALSE]
  /\ UNCHANGED <<setup, up, online, frame, buf, shown, starts>>

\* The socket is closed, the buffer emptied.
Retry(v) ==
  /\ viewer' = [viewer EXCEPT ![v] = "retry"]
  /\ Abandoned(v)
  /\ buf' = [buf EXCEPT ![v] = << >>]
  /\ wire' = [wire EXCEPT ![v] = << >>]
  /\ closed' = [closed EXCEPT ![v] = FALSE]
  /\ UNCHANGED <<setup, up, online, frame, shown, starts>>

\* All that was sent is read and yielded.
Drained(v) == viewer[v] = "open" /\ wire[v] = << >> /\ ~ HasLine(buf[v])

\* Mutant of RecvEnd: the empty chunk is taken for a pause, as SerialSource does.
RecvNothing(v) == Drained(v) /\ closed[v] /\ UNCHANGED vars

\* recv returns the end of the stream.
RecvEnd(v) == Drained(v) /\ closed[v] /\ Retry(v)

\* Mutant of TimeoutLost: the timeout is for connecting only.
TimeoutNever(v) == FALSE

\* create_connection's timeout of 5 s is recv's as well.  A connection that is lost
\* ends like this, and one whose board is busy, or serves another viewer.
TimeoutLost(v) == Drained(v) /\ ~ closed[v] /\ ~ Attached(v) /\ Retry(v)
TimeoutWaiting(v) == Drained(v) /\ ~ closed[v] /\ Attached(v) /\ Retry(v)

-----------------------------------------------------------------------------
\* The network cuts a connection at any point of the stream: what was in flight
\* arrives up to there, and the viewer may be told.
Cut(v) ==
  /\ Attached(v)
  /\ Abandoned(v)
  /\ \E n \in 0 .. Len(wire[v]) : wire' = [wire EXCEPT ![v] = SubSeq(@, 1, n)]
  /\ \E told \in BOOLEAN : closed' = [closed EXCEPT ![v] = told]
  /\ UNCHANGED <<setup, up, online, frame, viewer, buf, shown, starts>>

Next ==
  \/ SendFrame \/ SkipFrame
  \/ Down \/ Boot \/ LoseWifi \/ Rejoin
  \/ \E v \in Viewers :
       \/ Start(v) \/ Quit(v)
       \/ Connect(v) \/ Recv(v) \/ Yield(v)
       \/ RecvEnd(v) \/ TimeoutLost(v) \/ TimeoutWaiting(v)
       \/ Cut(v)

Spec == Init /\ [][Next]_vars

\* The loops go on: the board runs and sends, a viewer reads, notices and connects.
Fairness ==
  /\ WF_vars(SendFrame) /\ WF_vars(Boot) /\ WF_vars(Rejoin)
  /\ \A v \in Viewers :
       WF_vars(Connect(v)) /\ WF_vars(Recv(v)) /\ WF_vars(Yield(v))
         /\ WF_vars(RecvEnd(v)) /\ WF_vars(TimeoutLost(v))

LiveSpec == Spec /\ Fairness

-----------------------------------------------------------------------------
(***************************************************************************)
(* Properties.                                                             *)
(***************************************************************************)

Frames == 0 .. setup.last
Halves == [frame : Frames, part : {"head", "tail"}]

\* Types and bounds; the board holds at most one connection of a viewer, counting
\* the one it serves and those that wait.
TypeOK ==
  /\ setup \in Setups
  /\ up \in BOOLEAN /\ online \in BOOLEAN /\ (online => up)
  /\ frame \in Frames
  /\ client \in Viewers \cup {None, Gone}
  /\ backlog \in Seq(Viewers \cup {Gone}) /\ Len(backlog) <= setup.queue
  /\ viewer \in [Viewers -> {"off", "retry", "open"}]
  /\ wire \in [Viewers -> Seq(Halves)] /\ \A v \in Viewers : Len(wire[v]) <= setup.room
  /\ closed \in [Viewers -> BOOLEAN]
  /\ buf \in [Viewers -> Seq(Halves)]
  /\ shown \in [Viewers -> Seq(Halves)]
  /\ starts \in 0 .. setup.starts
  /\ \A i, j \in 1 .. Len(backlog) : backlog[i] = backlog[j] /\ i # j => backlog[i] = Gone
  /\ client \in Viewers => client \notin Range(backlog)

\* A viewer only shows lines as the board wrote them: no line is put together from
\* two connections, however streams are cut and viewers reconnect (sources.py:158-189).
LinesAreWhole ==
  \A v \in Viewers : shown[v] # << >> => \E f \in Frames : shown[v] = Line(f)

\* The live view never goes back: every line a viewer shows is newer than the one
\* before, across reconnections and take-overs by others (sources.py:155-189).
FramesInOrder ==
  [][~ setup.wraps => \A v \in Viewers :
       shown[v] # << >> /\ shown'[v] # << >> /\ shown'[v] # shown[v] =>
         shown'[v][1].frame > shown[v][1].frame]_vars

\* What disturbs: a reboot, an outage, a cut, a slow board, someone starts or stops.
Disturbed ==
  \/ Down \/ LoseWifi
  \/ \E v \in Viewers : Start(v) \/ Quit(v) \/ Cut(v) \/ TimeoutWaiting(v)

Alone(v) == viewer[v] # "off" /\ \A w \in Viewers \ {v} : viewer[w] = "off"

\* Whatever happened before, once things are quiet a viewer that is alone is shown
\* new frames for ever (the design's third criterion, line 119): also after an outage of
\* the network, if the board is one that joins it again (garden-node.ino:57, net.cpp:39).
LoneViewerIsFed ==
  setup.wraps /\ <>[][~ Disturbed]_vars /\ (setup.rejoins \/ <>[]online) =>
    \A v \in Viewers : <>[]Alone(v) => []<><<Yield(v)>>_vars
=============================================================================
