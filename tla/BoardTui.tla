------------------------------- MODULE BoardTui -------------------------------
(***************************************************************************)
(* tools/board-tui: a reader thread that takes lines from a source, writes *)
(* them to the record and queues them, and the main loop that empties the  *)
(* queue and renders the dashboard.  Beside them the garden node that      *)
(* prints a frame a second, with the readings of a DHT22 that may not have *)
(* answered yet.                                                           *)
(*                                                                         *)
(* A line is a numbered frame or some other text.  The streams of a TCP    *)
(* source, with viewers that compete, are the subject of TelemetryView;    *)
(* here it gives whole lines, and the connection may be lost.              *)
(***************************************************************************)
EXTENDS Integers, Sequences, SequencesExt

CONSTANTS
  Setups,      \* command lines, faults and bounds: one of them in a behaviour
  StaleAfter,  \* STALE_AFTER_S
  TailLimit,   \* lines of the raw panel
  Room         \* lines the port holds until they are read

(***************************************************************************)
(* args     the command line                                               *)
(* faults   "unplug"  the cable, or the network                            *)
(*          "torn"    readline times out in the middle of a line           *)
(*          "text"    the board prints something else                      *)
(*          "dht"     the DHT22 does not answer                            *)
(*          "disk"    the record cannot be written                         *)
(*          "stall"   the terminal stops the main loop for a while         *)
(*          "quit"    Ctrl-C                                               *)
(* last     bound: the number of the last line                             *)
(* wraps    lines are numbered modulo last + 1, instead of ending there   *)
(***************************************************************************)
Args == [host : BOOLEAN, simulate : BOOLEAN, replay : BOOLEAN, port : BOOLEAN,
         record : BOOLEAN, once : BOOLEAN]
FaultKinds == {"unplug", "torn", "text", "dht", "disk", "stall", "quit"}

ASSUME TuiAssumption ==
  /\ Setups \subseteq [args : Args, faults : SUBSET FaultKinds, last : Nat \ {0}, wraps : BOOLEAN]
  /\ StaleAfter \in Nat
  /\ TailLimit \in Nat \ {0}
  /\ Room \in Nat \ {0}

VARIABLES
  setup,    \* one of Setups, for ever
  linked,   \* the board is powered and can be reached
  warm,     \* the board has a reading of its DHT22
  due,      \* a second has gone by since the last line of board or simulation
  next,     \* the number of the next frame
  wire,     \* lines written, or in the capture, and not read
  port,     \* the source: "closed", "open", "lost" (not noticed yet), "dead"
  hand,     \* the line the reader has in hand, with what it did with it
  saved,    \* the lines of the record
  queue,    \* lines queued for the main loop
  frame,    \* DashboardState.frame
  age,      \* seconds since DashboardState.last_rx
  tail,     \* DashboardState.raw_tail
  view,     \* what is on the screen: a status and the frame's line
  main,     \* "run", "ended" or "crashed"
  quiet     \* history: seconds since the source had a frame

vars == <<setup, linked, warm, due, next, wire, port, hand, saved, queue, frame, age, tail,
          view, main, quiet>>
board == <<linked, warm, due, next, quiet>>
reader == <<wire, port, hand, saved>>
dashboard == <<frame, age, tail, view, main>>

\* known: the frame has a temperature, and not null.
Frame(n, known) == [n |-> n, known |-> known]
Text == [n |-> -1, known |-> TRUE]
NoLine == [n |-> -2, known |-> TRUE]
IsFrame(l) == l.n >= 0

Empty == [line |-> NoLine, stage |-> "none"]

args == setup.args
Fault(kind) == kind \in setup.faults
Cap == StaleAfter + 2
Later(seconds) == IF seconds < Cap THEN seconds + 1 ELSE Cap

\* _build_source: the host goes before a simulation, that before a replay, and these
\* before a port, which may be found.
Source ==
  IF args.host THEN "tcp"
  ELSE IF args.simulate THEN "simulate"
  ELSE IF args.replay THEN "replay"
  ELSE IF args.port THEN "serial"
  ELSE "none"
OfBoard == Source \in {"tcp", "serial"}
Recording == args.record /\ ~args.once

\* A capture: a frame, something else and a frame.
Capture == <<Frame(0, TRUE), Text, Frame(1, TRUE)>>

Init ==
  /\ setup \in Setups
  /\ linked = TRUE
  /\ warm = FALSE
  /\ due = TRUE
  /\ next = 0
  /\ wire = IF Source = "replay" THEN Capture ELSE << >>
  /\ port = IF OfBoard THEN "closed" ELSE "open"
  /\ hand = Empty
  /\ saved = << >>
  /\ queue = << >>
  /\ frame = NoLine
  /\ age = 0
  /\ tail = << >>
  /\ view = [status |-> "waiting", n |-> NoLine.n]
  /\ main = IF Source = "none" THEN "ended" ELSE "run"
  /\ quiet = 0

-----------------------------------------------------------------------------
(***************************************************************************)
(* The board.                                                              *)
(***************************************************************************)
NumberLeft == next <= setup.last
NextNumber == IF next = setup.last /\ setup.wraps THEN 0 ELSE next + 1

\* telemetryTick: the last reading of the DHT22 is kept, and until the first one
\* the frame says null.
WriteFrame ==
  /\ OfBoard /\ linked /\ due /\ NumberLeft
  /\ Len(wire) < Room
  /\ warm' = TRUE \/ (Fault("dht") /\ warm' = warm)
  /\ wire' = IF port = "open" THEN Append(wire, Frame(next, warm')) ELSE wire
  /\ next' = NextNumber
  /\ due' = FALSE
  /\ quiet' = 0
  /\ UNCHANGED <<setup, linked, port, hand, saved, queue, dashboard>>

\* Something else, which uses up a number too.
WriteText ==
  /\ Fault("text")
  /\ OfBoard /\ linked /\ due /\ NumberLeft
  /\ Len(wire) < Room
  /\ wire' = IF port = "open" THEN Append(wire, Text) ELSE wire
  /\ next' = NextNumber
  /\ due' = FALSE
  /\ UNCHANGED <<setup, linked, warm, quiet, port, hand, saved, queue, dashboard>>

\* The cable powers the board: it forgets its readings.
Unplug ==
  /\ Fault("unplug")
  /\ OfBoard /\ linked
  /\ linked' = FALSE
  /\ warm' = FALSE
  /\ wire' = << >>
  /\ port' = IF port = "open" THEN "lost" ELSE port
  /\ UNCHANGED <<setup, due, next, quiet, hand, saved, queue, dashboard>>

Plug ==
  /\ ~linked
  /\ linked' = TRUE
  /\ UNCHANGED <<setup, warm, due, next, quiet, reader, queue, dashboard>>

-----------------------------------------------------------------------------
(***************************************************************************)
(* The sources, as _reader's loop or run_once's takes a line from them.    *)
(***************************************************************************)
Reads == main = "run" /\ hand = Empty
InHand(l) == hand' = [line |-> l, stage |-> "read"]

\* An open that fails is tried again after a second, for ever.
Open ==
  /\ Reads
  /\ port = "closed" /\ linked
  /\ port' = "open"
  /\ UNCHANGED <<setup, board, wire, hand, saved, queue, dashboard>>

Read ==
  /\ Reads
  /\ port = "open" /\ wire # << >>
  /\ InHand(Head(wire))
  /\ wire' = Tail(wire)
  /\ UNCHANGED <<setup, board, port, saved, queue, dashboard>>

\* A part of a line, which parse_frame takes for text, as it does the rest.
ReadTorn ==
  /\ Reads
  /\ Fault("torn") /\ Source = "serial"
  /\ port = "open" /\ wire # << >> /\ IsFrame(Head(wire))
  /\ InHand(Text)
  /\ wire' = [wire EXCEPT ![1] = Text]
  /\ UNCHANGED <<setup, board, port, saved, queue, dashboard>>

\* Mutant of ReadError: an error ends the source.
ReadErrorEnds ==
  /\ Reads
  /\ port = "lost"
  /\ port' = "dead"
  /\ UNCHANGED <<setup, board, wire, hand, saved, queue, dashboard>>

\* The error of a port or a connection that is gone: it is opened again.
ReadError ==
  /\ Reads
  /\ port = "lost"
  /\ port' = "closed"
  /\ UNCHANGED <<setup, board, wire, hand, saved, queue, dashboard>>

\* SimulateSource: a frame a second.
Simulate ==
  /\ Reads
  /\ Source = "simulate" /\ port = "open" /\ due /\ NumberLeft
  /\ InHand(Frame(next, TRUE))
  /\ next' = NextNumber
  /\ due' = FALSE
  /\ quiet' = 0
  /\ UNCHANGED <<setup, linked, warm, wire, port, saved, queue, dashboard>>

\* The end of the capture ends the reader.
ReplayEnd ==
  /\ Reads
  /\ Source = "replay" /\ port = "open" /\ wire = << >>
  /\ port' = "dead"
  /\ UNCHANGED <<setup, board, wire, hand, saved, queue, dashboard>>

-----------------------------------------------------------------------------
(***************************************************************************)
(* _reader.                                                                *)
(***************************************************************************)

\* Mutant of Save: the record is not flushed.
SaveUnflushed ==
  /\ main = "run" /\ ~args.once /\ hand.stage = "read"
  /\ hand' = [hand EXCEPT !.stage = "saved"]
  /\ UNCHANGED <<setup, board, wire, port, saved, queue, dashboard>>

\* The line is written to the record, and flushed; an error there ends the thread.
Save ==
  /\ main = "run" /\ ~args.once /\ hand.stage = "read"
  /\ \/ /\ hand' = [hand EXCEPT !.stage = "saved"]
        /\ saved' = IF Recording THEN Append(saved, hand.line.n) ELSE saved
        /\ UNCHANGED port
     \/ /\ Recording /\ Fault("disk")
        /\ hand' = Empty
        /\ port' = "dead"
        /\ UNCHANGED saved
  /\ UNCHANGED <<setup, board, wire, queue, dashboard>>

Put ==
  /\ main = "run" /\ hand.stage = "saved"
  /\ queue' = Append(queue, hand.line)
  /\ hand' = Empty
  /\ UNCHANGED <<setup, board, wire, port, saved, dashboard>>

-----------------------------------------------------------------------------
(***************************************************************************)
(* run_live and run_once.                                                  *)
(***************************************************************************)

\* Mutant of Updated: whatever arrives counts as received.
UpdatedByAny(l) ==
  /\ frame' = IF IsFrame(l) THEN l ELSE frame
  /\ age' = 0

\* DashboardState.update, for what parse_frame takes for a frame.
Updated(l) == IF IsFrame(l) THEN frame' = l /\ age' = 0 ELSE UNCHANGED <<frame, age>>

\* Mutant of PushRaw: the raw panel keeps all lines.
PushRawUnbounded(l) == tail' = Append(tail, l.n)

\* DashboardState.push_raw.
PushRaw(l) ==
  LET all == Append(tail, l.n)
  IN  tail' = SubSeq(all, IF Len(all) > TailLimit THEN Len(all) - TailLimit + 1 ELSE 1, Len(all))

\* What render_dashboard shows of the state.
Status ==
  IF ~IsFrame(frame) THEN "waiting" ELSE IF age > StaleAfter THEN "stale" ELSE "live"

\* The inner loop: a line is taken from the queue.
Take ==
  /\ main = "run" /\ ~args.once /\ queue # << >>
  /\ Updated(Head(queue))
  /\ PushRaw(Head(queue))
  /\ queue' = Tail(queue)
  /\ UNCHANGED <<setup, board, reader, view, main>>

\* A null where a number is formatted raises TypeError, which nothing catches.
Draw(f, status) ==
  IF f.known
  THEN view' = [status |-> status, n |-> f.n] /\ UNCHANGED main
  ELSE main' = "crashed" /\ UNCHANGED view

\* Mutant of Render: the loop waits for a line before it renders.
RenderOnArrival ==
  /\ main = "run" /\ ~args.once /\ queue = << >>
  /\ age = 0
  /\ Draw(frame, Status)
  /\ UNCHANGED <<setup, board, reader, queue, frame, age, tail>>

\* The queue is empty: the dashboard is rendered.
Render ==
  /\ main = "run" /\ ~args.once /\ queue = << >>
  /\ Draw(frame, Status)
  /\ UNCHANGED <<setup, board, reader, queue, frame, age, tail>>

\* --once: lines are read up to the first frame, which is rendered, or to the end.
Once ==
  /\ main = "run" /\ args.once
  /\ \/ /\ hand.stage = "read"
        /\ hand' = Empty
        /\ IF IsFrame(hand.line)
           THEN /\ Updated(hand.line)
                /\ PushRaw(hand.line)
                /\ IF hand.line.known
                   THEN view' = [status |-> "live", n |-> hand.line.n] /\ main' = "ended"
                   ELSE main' = "crashed" /\ UNCHANGED view
           ELSE UNCHANGED dashboard
     \/ port = "dead" /\ main' = "ended" /\ UNCHANGED <<hand, frame, age, tail, view>>
  /\ UNCHANGED <<setup, board, wire, port, saved, queue>>

\* Ctrl-C: the record is closed, and the reader ends with the program.
Quit ==
  /\ Fault("quit")
  /\ main = "run"
  /\ main' = "ended"
  /\ UNCHANGED <<setup, board, reader, queue, frame, age, tail, view>>

\* A second goes by.  Each thread is done with what it can do long before, unless the
\* terminal holds up the main loop.
Pending ==
  \/ hand # Empty
  \/ port = "lost" \/ (port = "open" /\ wire # << >>)
  \/ queue # << >>
  \/ view # [status |-> Status, n |-> frame.n]
Tick ==
  /\ main = "run"
  /\ Fault("stall") \/ ~Pending
  /\ due' = TRUE
  /\ age' = Later(age)
  /\ quiet' = Later(quiet)
  /\ UNCHANGED <<setup, linked, warm, next, reader, queue, frame, tail, view, main>>

Board == WriteFrame \/ WriteText \/ Unplug \/ Plug
Thread == Open \/ Read \/ ReadTorn \/ ReadError \/ Simulate \/ ReplayEnd \/ Save \/ Put
MainLoop == Take \/ Render \/ Once \/ Quit

Next == Board \/ Thread \/ MainLoop \/ Tick

Spec == Init /\ [][Next]_vars

\* Both threads go on, time passes, a cable is put back and the board prints.
Fairness ==
  /\ WF_vars(Thread) /\ WF_vars(Take) /\ WF_vars(Render) /\ WF_vars(Once)
  /\ SF_vars(Tick) /\ WF_vars(Plug) /\ WF_vars(WriteFrame)

LiveSpec == Spec /\ Fairness

-----------------------------------------------------------------------------
(***************************************************************************)
(* Properties.                                                             *)
(***************************************************************************)
Lines == [n : -1 .. setup.last, known : BOOLEAN]
Numbers == -2 .. setup.last

TypeOK ==
  /\ setup \in Setups
  /\ linked \in BOOLEAN /\ warm \in BOOLEAN /\ due \in BOOLEAN
  /\ next \in 0 .. setup.last + 1
  /\ wire \in Seq(Lines)
  /\ port \in {"closed", "open", "lost", "dead"}
  /\ hand \in [line : Lines, stage : {"read", "saved"}] \cup {Empty}
  /\ saved \in Seq(Numbers)
  /\ queue \in Seq(Lines)
  /\ frame \in Lines \cup {NoLine}
  /\ age \in 0 .. Cap /\ quiet \in 0 .. Cap
  /\ tail \in Seq(Numbers) /\ Len(tail) <= TailLimit
  /\ view \in [status : {"waiting", "live", "stale"}, n : Numbers]
  /\ main \in {"run", "ended", "crashed"}

\* What has been shown is in the record, whatever ends the program: the record goes on
\* with the raw panel, then the queue, then the line about to be queued, and nothing is
\* left out, repeated or put in another order (board_tui.py:48-53, 79-84).
ShownIsRecorded ==
  Recording =>
    LET queued == [i \in 1 .. Len(queue) |-> queue[i].n]
        kept == IF hand.stage = "saved" THEN <<hand.line.n>> ELSE << >>
    IN  /\ IsSuffix(tail \o queued \o kept, saved)
        /\ view.status # "waiting" => view.n \in Range(saved)

\* The header says live only of a source that had a frame in the last seconds: torn
\* lines, other text and a render that comes late do not keep it (render.py:81-87).  A
\* main loop that was held up counts what it finds in the queue as received now.
LiveIsRecent ==
  main = "run" /\ view.status = "live" /\ ~Fault("stall") => quiet <= StaleAfter + 1

\* What keeps frames from the dashboard.
Disturbed ==
  \/ Unplug \/ WriteText \/ ReadTorn
  \/ Tick /\ Pending

\* The header follows the source.  Once no more lines come it ceases to say live,
\* whatever the reason: the board is silent or gone, the capture at its end, the reader
\* dead (board_tui.py:69-88).  And whatever came before, once the board prints its
\* frames in peace it says live again and again: a lost port is opened again, for ever
\* (sources.py:107-134).
HeaderFollows ==
  /\ <>[](main = "run" /\ queue = << >>) => <>[](view.status # "live")
  /\ setup.wraps /\ Source # "replay" /\ ~Fault("disk") =>
       (<>[][~Disturbed]_vars /\ <>[](main = "run") => []<>(view.status = "live"))
=============================================================================
