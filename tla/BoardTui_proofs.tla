--------------------------- MODULE BoardTui_proofs ---------------------------
(***************************************************************************)
(* Invariance proofs for BoardTui: for every command line, every set of    *)
(* faults, and any lengths of the wire, the raw panel and the time that    *)
(* makes a frame stale.                                                    *)
(***************************************************************************)
EXTENDS BoardTui, SequenceTheorems, TLAPS

-----------------------------------------------------------------------------
(***************************************************************************)
(* The operators of the model.                                             *)
(***************************************************************************)
LEMMA Setup ==
  ASSUME setup \in Setups
  PROVE  /\ setup.last \in Nat \ {0}
         /\ StaleAfter \in Nat /\ TailLimit \in Nat \ {0} /\ Room \in Nat \ {0}
         /\ args \in Args
         /\ Cap \in Nat /\ Cap = StaleAfter + 2
  BY TuiAssumption DEF args, Cap

LEMMA LinesAreTyped ==
  ASSUME setup \in Setups
  PROVE  /\ \A n \in 0 .. setup.last, known \in BOOLEAN :
              Frame(n, known) \in Lines /\ IsFrame(Frame(n, known))
         /\ Text \in Lines /\ ~ IsFrame(Text) /\ ~ IsFrame(NoLine)
         /\ Capture \in Seq(Lines)
         /\ \A l \in Lines : l.n \in Numbers /\ l.n \in Int /\ l.known \in BOOLEAN
         /\ NoLine.n \in Numbers /\ NoLine \notin Lines
         /\ Empty.line = NoLine /\ Empty.stage = "none"
  <1>1. setup.last \in Nat \ {0}
    BY Setup
  <1>2. Frame(0, TRUE) \in Lines /\ Frame(1, TRUE) \in Lines /\ Text \in Lines
    BY <1>1 DEF Frame, Text, Lines
  <1>3. Capture \in Seq(Lines)
    <2>1. \A a, b, c \in Lines : <<a, b, c>> \in Seq(Lines)
      OBVIOUS
    <2> QED BY <1>2, <2>1 DEF Capture
  <1> QED BY <1>1, <1>2, <1>3 DEF Frame, Text, NoLine, Lines, IsFrame, Numbers, Empty

LEMMA LaterIsBounded ==
  ASSUME setup \in Setups, NEW s \in 0 .. Cap
  PROVE  /\ Later(s) \in 0 .. Cap
         /\ Later(s) <= s + 1
         /\ \A t \in 0 .. Cap : s <= t => Later(s) <= Later(t)
  BY Setup DEF Later

\* The raw panel after one more line: it goes on with the line, from where it is cut.
LEMMA PanelMoves ==
  ASSUME setup \in Setups, tail \in Seq(Numbers), Len(tail) <= TailLimit,
         NEW l \in Lines, PushRaw(l)
  PROVE  /\ tail' \in Seq(Numbers) /\ Len(tail') <= TailLimit
         /\ \E cut \in {0, 1} :
              /\ Len(tail') = Len(tail) + 1 - cut
              /\ \A i \in 1 .. Len(tail') : tail'[i] = IF i = Len(tail') THEN l.n ELSE tail[i + cut]
  <1> DEFINE all == Append(tail, l.n)
             first == IF Len(all) > TailLimit THEN Len(all) - TailLimit + 1 ELSE 1
  <1>1. /\ all \in Seq(Numbers) /\ Len(all) = Len(tail) + 1
        /\ \A i \in 1 .. Len(tail) : all[i] = tail[i]
        /\ all[Len(tail) + 1] = l.n
        /\ Len(tail) \in Nat
    BY LinesAreTyped, AppendProperties
  <1>2. TailLimit \in Nat \ {0} /\ first \in {1, 2} /\ first <= Len(all)
    BY <1>1, Setup
  <1>3. \A i \in first .. Len(all) : all[i] \in Numbers
    BY <1>1, <1>2, ElementOfSeq
  <1>4. tail' = SubSeq(all, first, Len(all))
    BY DEF PushRaw
  <1>5. /\ tail' \in Seq(Numbers)
        /\ Len(tail') = Len(all) - first + 1
        /\ \A i \in 1 .. Len(all) - first + 1 : tail'[i] = all[first + i - 1]
    <2> HIDE DEF all, first
    <2> QED BY <1>1, <1>2, <1>3, <1>4, SubSeqProperties
  <1>6. first - 1 \in {0, 1} /\ Len(tail') = Len(tail) + 1 - (first - 1)
    BY <1>1, <1>2, <1>5
  <1>7. ASSUME NEW i \in 1 .. Len(tail')
        PROVE  tail'[i] = IF i = Len(tail') THEN l.n ELSE tail[i + (first - 1)]
    <2> HIDE DEF all, first
    <2>1. /\ i \in Int /\ i + (first - 1) = first + i - 1
          /\ tail'[i] = all[i + (first - 1)]
      BY <1>1, <1>2, <1>5, <1>6
    <2>2. CASE i = Len(tail')
      BY <1>1, <1>2, <1>6, <2>1, <2>2
    <2>3. CASE i # Len(tail')
      <3>1. i + (first - 1) \in 1 .. Len(tail)
        BY <1>1, <1>2, <1>6, <2>3
      <3> QED BY <1>1, <2>1, <2>3, <3>1
    <2> QED BY <2>2, <2>3
  <1>8. Len(tail') <= TailLimit
    BY <1>1, <1>2, <1>5
  <1> QED BY <1>5, <1>6, <1>7, <1>8

LEMMA NumbersStayBounded ==
  ASSUME setup \in Setups, next \in 0 .. setup.last + 1, NumberLeft
  PROVE  next \in 0 .. setup.last /\ NextNumber \in 0 .. setup.last + 1
  BY Setup DEF NumberLeft, NextNumber

\* What there is to draw is the line of the frame, and a status that says if there is one.
LEMMA StatusIsTyped ==
  ASSUME setup \in Setups, frame \in Lines \cup {NoLine}
  PROVE  /\ Status \in {"waiting", "live", "stale"} /\ frame.n \in Numbers
         /\ Status # "waiting" => IsFrame(frame)
  BY LinesAreTyped DEF Status

-----------------------------------------------------------------------------
(***************************************************************************)
(* Types.                                                                  *)
(***************************************************************************)
LEMMA InitType == Init => TypeOK
  <1> SUFFICES ASSUME Init PROVE TypeOK
    OBVIOUS
  <1>1. setup \in Setups
    BY DEF Init
  <1>2. wire \in Seq(Lines)
    BY <1>1, LinesAreTyped DEF Init
  <1>3. 0 \in 0 .. Cap /\ 0 \in 0 .. setup.last + 1 /\ << >> \in Seq(Numbers) /\ << >> \in Seq(Lines)
    BY <1>1, Setup
  <1>4. hand = Empty /\ frame \in Lines \cup {NoLine}
    BY DEF Init
  <1>5. view \in [status : {"waiting", "live", "stale"}, n : Numbers]
    BY <1>1, LinesAreTyped DEF Init
  <1>6. tail \in Seq(Numbers) /\ Len(tail) <= TailLimit
    BY <1>1, <1>3, Setup DEF Init
  <1> QED BY <1>1, <1>2, <1>3, <1>4, <1>5, <1>6 DEF Init, TypeOK

LEMMA BoardType == TypeOK /\ Board => TypeOK'
  <1> SUFFICES ASSUME TypeOK, Board PROVE TypeOK'
    OBVIOUS
  <1> USE DEF dashboard, reader
  <1>1. setup \in Setups /\ setup' = setup /\ wire \in Seq(Lines)
    BY DEF TypeOK, Board, WriteFrame, WriteText, Unplug, Plug
  <1>2. /\ Lines' = Lines /\ Numbers' = Numbers /\ Cap' = Cap
        /\ 0 \in 0 .. Cap /\ << >> \in Seq(Lines)
    BY <1>1, Setup DEF Lines, Numbers, Cap
  <1>3. CASE WriteFrame
    <2>1. next \in 0 .. setup.last /\ NextNumber \in 0 .. setup.last + 1
      BY <1>3, NumbersStayBounded DEF WriteFrame, TypeOK
    <2>2. warm' \in BOOLEAN
      BY <1>3 DEF WriteFrame, TypeOK
    <2>3. Frame(next, warm') \in Lines
      BY <1>1, <2>1, <2>2, LinesAreTyped
    <2>4. wire' \in Seq(Lines)
      BY <1>1, <1>3, <2>3, AppendProperties DEF WriteFrame
    <2> QED BY <1>3, <1>2, <2>1, <2>2, <2>4 DEF WriteFrame, TypeOK
  <1>4. CASE WriteText
    <2>1. NextNumber \in 0 .. setup.last + 1
      BY <1>4, NumbersStayBounded DEF WriteText, TypeOK
    <2>2. wire' \in Seq(Lines)
      BY <1>1, <1>4, AppendProperties, LinesAreTyped DEF WriteText
    <2> QED BY <1>4, <1>2, <2>1, <2>2 DEF WriteText, TypeOK
  <1>5. CASE Unplug
    BY <1>5, <1>2 DEF Unplug, TypeOK
  <1>6. CASE Plug
    BY <1>6, <1>2 DEF Plug, TypeOK
  <1> QED BY <1>3, <1>4, <1>5, <1>6 DEF Board

LEMMA ThreadType == TypeOK /\ Thread => TypeOK'
  <1> SUFFICES ASSUME TypeOK, Thread PROVE TypeOK'
    OBVIOUS
  <1> USE DEF board, dashboard
  <1>1. /\ setup \in Setups /\ wire \in Seq(Lines) /\ setup' = setup
        /\ hand \in [line : Lines, stage : {"read", "saved"}] \cup {Empty}
    BY DEF TypeOK, Thread, Open, Read, ReadTorn, ReadError, Simulate, ReplayEnd, Save, Put
  <1>2. Lines' = Lines /\ Numbers' = Numbers /\ Cap' = Cap
    BY <1>1 DEF Lines, Numbers, Cap
  <1>3. \A l \in Lines : InHand(l) => hand' \in [line : Lines, stage : {"read", "saved"}]
    BY DEF InHand
  <1>4. CASE Open
    BY <1>4, <1>2 DEF Open, TypeOK
  <1>5. CASE Read
    <2>1. Head(wire) \in Lines /\ Tail(wire) \in Seq(Lines)
      BY <1>1, <1>5, HeadTailProperties DEF Read
    <2> QED BY <1>5, <1>2, <1>3, <2>1 DEF Read, TypeOK
  <1>6. CASE ReadTorn
    <2>1. 1 \in 1 .. Len(wire)
      BY <1>1, <1>6, EmptySeq DEF ReadTorn
    <2>2. [wire EXCEPT ![1] = Text] \in Seq(Lines)
      BY <1>1, <2>1, LinesAreTyped, ExceptSeq
    <2> QED BY <1>6, <1>1, <1>2, <1>3, <2>2, LinesAreTyped DEF ReadTorn, TypeOK
  <1>7. CASE ReadError
    BY <1>7, <1>2 DEF ReadError, TypeOK
  <1>8. CASE Simulate
    <2>1. next \in 0 .. setup.last /\ NextNumber \in 0 .. setup.last + 1
      BY <1>8, NumbersStayBounded DEF Simulate, TypeOK
    <2>2. Frame(next, TRUE) \in Lines
      BY <1>1, <2>1, LinesAreTyped
    <2>3. hand' \in [line : Lines, stage : {"read", "saved"}]
      BY <1>8, <1>3, <2>2 DEF Simulate
    <2>4. 0 \in 0 .. Cap
      BY <1>1, Setup
    <2> QED BY <1>8, <1>1, <1>2, <2>1, <2>3, <2>4 DEF Simulate, TypeOK
  <1>9. CASE ReplayEnd
    BY <1>9, <1>2 DEF ReplayEnd, TypeOK
  <1>10. CASE Save
    <2>1. hand \in [line : Lines, stage : {"read", "saved"}]
      BY <1>1, <1>10, LinesAreTyped DEF Save
    <2>2. hand.line.n \in Numbers
      BY <1>1, <2>1, LinesAreTyped
    <2>3. hand' \in [line : Lines, stage : {"read", "saved"}] \cup {Empty}
      BY <2>1, <1>10 DEF Save
    <2>4. saved' \in Seq(Numbers)
      <3>1. Append(saved, hand.line.n) \in Seq(Numbers)
        BY <2>2, AppendProperties DEF TypeOK
      <3> QED BY <1>10, <3>1 DEF Save, TypeOK
    <2> QED BY <1>10, <1>2, <2>3, <2>4 DEF Save, TypeOK
  <1>11. CASE Put
    <2>1. hand.line \in Lines
      BY <1>1, <1>11, LinesAreTyped DEF Put
    <2>2. queue' \in Seq(Lines)
      BY <2>1, <1>11, AppendProperties DEF Put, TypeOK
    <2> QED BY <1>11, <1>2, <2>2 DEF Put, TypeOK
  <1> QED BY <1>4, <1>5, <1>6, <1>7, <1>8, <1>9, <1>10, <1>11 DEF Thread

LEMMA MainLoopType == TypeOK /\ MainLoop => TypeOK'
  <1> SUFFICES ASSUME TypeOK, MainLoop PROVE TypeOK'
    OBVIOUS
  <1> USE DEF board, reader, dashboard
  <1>1. /\ setup \in Setups /\ setup' = setup
        /\ hand \in [line : Lines, stage : {"read", "saved"}] \cup {Empty}
        /\ 0 \in 0 .. Cap
    BY Setup DEF TypeOK, MainLoop, Take, Render, Once, Quit
  <1>2. Lines' = Lines /\ Numbers' = Numbers /\ Cap' = Cap
    BY <1>1 DEF Lines, Numbers, Cap
  <1>3. \A l \in Lines : Updated(l) => frame' \in Lines \cup {NoLine} /\ age' \in 0 .. Cap
    BY <1>1 DEF Updated, TypeOK
  <1>4. \A l \in Lines : PushRaw(l) => tail' \in Seq(Numbers) /\ Len(tail') <= TailLimit
    BY <1>1, PanelMoves DEF TypeOK
  <1>5. CASE Take
    <2>1. Head(queue) \in Lines /\ Tail(queue) \in Seq(Lines)
      BY <1>5, HeadTailProperties DEF Take, TypeOK
    <2> QED BY <1>5, <1>2, <1>3, <1>4, <2>1 DEF Take, TypeOK
  <1>6. CASE Render
    <2>1. /\ view' \in [status : {"waiting", "live", "stale"}, n : Numbers]
          /\ main' \in {"run", "ended", "crashed"}
      BY <1>6, <1>1, StatusIsTyped DEF Render, Draw, TypeOK
    <2> QED BY <1>6, <1>2, <2>1 DEF Render, TypeOK
  <1>7. CASE Once
    <2>1. CASE hand.stage = "read" /\ hand' = Empty /\ IsFrame(hand.line)
      <3>1. hand.line \in Lines /\ hand.line.n \in Numbers
        BY <1>1, <2>1, LinesAreTyped
      <3>2. /\ Updated(hand.line) /\ PushRaw(hand.line)
            /\ \/ view' = [status |-> "live", n |-> hand.line.n] /\ main' = "ended"
               \/ main' = "crashed" /\ view' = view
        BY <1>7, <2>1, <1>1, LinesAreTyped DEF Once
      <3> QED BY <1>7, <2>1, <1>2, <1>3, <1>4, <3>1, <3>2 DEF Once, TypeOK
    <2>2. CASE hand.stage = "read" /\ hand' = Empty /\ ~ IsFrame(hand.line)
      BY <1>7, <2>2, <1>2 DEF Once, TypeOK
    <2>3. CASE main' = "ended" /\ UNCHANGED <<hand, frame, age, tail, view>>
      BY <1>7, <2>3, <1>2 DEF Once, TypeOK
    <2> QED BY <1>7, <2>1, <2>2, <2>3 DEF Once
  <1>8. CASE Quit
    BY <1>8, <1>2 DEF Quit, TypeOK
  <1> QED BY <1>5, <1>6, <1>7, <1>8 DEF MainLoop

LEMMA TickType == TypeOK /\ Tick => TypeOK'
  <1> SUFFICES ASSUME TypeOK, Tick PROVE TypeOK'
    OBVIOUS
  <1>1. setup \in Setups /\ age \in 0 .. Cap /\ quiet \in 0 .. Cap
    BY DEF TypeOK
  <1>2. Later(age) \in 0 .. Cap /\ Later(quiet) \in 0 .. Cap
    BY <1>1, LaterIsBounded
  <1> QED BY <1>2 DEF Tick, TypeOK, reader, Lines, Numbers, Cap

LEMMA TypeStep == TypeOK /\ [Next]_vars => TypeOK'
  <1>1. TypeOK /\ UNCHANGED vars => TypeOK'
    BY DEF TypeOK, vars, Lines, Numbers, Cap
  <1> QED BY <1>1, BoardType, ThreadType, MainLoopType, TickType DEF Next

\* The reader and the main loop hold lines, numbers and times of their range, and the raw
\* panel no more than TailLimit lines (board_tui.py:48-89, sources.py).
THEOREM TypeCorrect == Spec => []TypeOK
  BY InitType, TypeStep, PTL DEF Spec

-----------------------------------------------------------------------------
(***************************************************************************)
(* The record.  Line by line: the record goes on, after what has left the  *)
(* raw panel, with the panel, the queue and the line about to be queued.   *)
(***************************************************************************)
Kept == IF hand.stage = "saved" THEN 1 ELSE 0
Gone == Len(saved) - Len(tail) - Len(queue) - Kept
Recorded(n) == \E i \in 1 .. Len(saved) : saved[i] = n

RecordInv ==
  Recording =>
    /\ Gone >= 0
    /\ \A i \in 1 .. Len(tail) : tail[i] = saved[Gone + i]
    /\ \A i \in 1 .. Len(queue) : queue[i].n = saved[Gone + Len(tail) + i]
    /\ hand.stage = "saved" => hand.line.n = saved[Len(saved)]
    /\ IsFrame(frame) => Recorded(frame.n)
    /\ view.status # "waiting" => Recorded(view.n)

\* A sequence is a suffix of another that ends with its elements.
LEMMA SuffixByElements ==
  ASSUME NEW S, NEW s \in Seq(S), NEW t \in Seq(S), Len(s) <= Len(t),
         \A i \in 1 .. Len(s) : s[i] = t[Len(t) - Len(s) + i]
  PROVE  IsSuffix(s, t)
  <1> DEFINE m == Len(s)  k == Len(t)
             r == [i \in 1 .. m |-> s[(m - i) + 1]]
             u == [i \in 1 .. k |-> t[(k - i) + 1]]
  <1>1. m \in Nat /\ k \in Nat /\ m <= k
    OBVIOUS
  <1>2. \A i \in 1 .. m : s[(m - i) + 1] \in S
    BY <1>1, ElementOfSeq
  <1>3. \A i \in 1 .. k : t[(k - i) + 1] \in S
    BY <1>1, ElementOfSeq
  <1>4. r \in [1 .. m -> S] /\ u \in [1 .. k -> S]
    BY <1>2, <1>3
  <1>5. r \in Seq(S) /\ u \in Seq(S) /\ Len(r) = m /\ Len(u) = k
    <2>1. r \in Seq(S) /\ u \in Seq(S)
      BY <1>1, <1>4, SeqDef
    <2>2. DOMAIN r = 1 .. m /\ DOMAIN u = 1 .. k
      OBVIOUS
    <2> HIDE DEF r, u, m, k
    <2> QED BY <1>1, <2>1, <2>2, LenProperties
  <1>6. ASSUME NEW i \in 1 .. m
        PROVE  r[i] = u[i]
    <2>1. (m - i) + 1 \in 1 .. m /\ i \in 1 .. k /\ i \in Int
      BY <1>1
    <2>2. k - m + ((m - i) + 1) = (k - i) + 1
      BY <1>1, <2>1
    <2>3. s[(m - i) + 1] = t[(k - i) + 1]
      BY <2>1, <2>2
    <2> QED BY <2>1, <2>3
  <1>7. SubSeq(r, 1, m) = SubSeq(u, 1, m)
    <2> HIDE DEF r, u, m, k
    <2>1. (\A i \in 1 .. m : r[i] \in S) /\ (\A i \in 1 .. m : u[i] \in S)
      BY <1>1, <1>5, ElementOfSeq
    <2>2. /\ SubSeq(r, 1, m) \in Seq(S) /\ SubSeq(u, 1, m) \in Seq(S)
          /\ Len(SubSeq(r, 1, m)) = m /\ Len(SubSeq(u, 1, m)) = m
          /\ \A i \in 1 .. m : SubSeq(r, 1, m)[i] = r[i] /\ SubSeq(u, 1, m)[i] = u[i]
      BY <1>1, <2>1, SubSeqProperties
    <2> QED BY <1>6, <2>2, SeqEqual
  <1>8. Reverse(s) = r /\ Reverse(t) = u
    BY DEF Reverse
  <1>9. IsPrefix(r, u)
    <2> HIDE DEF r, u
    <2> QED BY <1>1, <1>5, <1>7 DEF IsPrefix
  <1> QED BY <1>8, <1>9 DEF IsSuffix

LEMMA RecordIsSuffix == TypeOK /\ RecordInv => ShownIsRecorded
  <1> SUFFICES ASSUME TypeOK, RecordInv, Recording PROVE ShownIsRecorded
    BY DEF ShownIsRecorded
  <1> DEFINE queued == [i \in 1 .. Len(queue) |-> queue[i].n]
             kept == IF hand.stage = "saved" THEN <<hand.line.n>> ELSE << >>
             all == tail \o queued \o kept
  <1>1. /\ setup \in Setups /\ tail \in Seq(Numbers) /\ saved \in Seq(Numbers) /\ queue \in Seq(Lines)
        /\ Len(tail) \in Nat /\ Len(saved) \in Nat /\ Len(queue) \in Nat
    BY DEF TypeOK
  <1>2. queued \in Seq(Numbers) /\ Len(queued) = Len(queue)
    <2>1. \A i \in 1 .. Len(queue) : queue[i].n \in Numbers
      BY <1>1, ElementOfSeq, LinesAreTyped
    <2>2. queued \in [1 .. Len(queue) -> Numbers] /\ DOMAIN queued = 1 .. Len(queue)
      BY <2>1
    <2>3. queued \in Seq(Numbers)
      BY <1>1, <2>2, SeqDef
    <2> HIDE DEF queued
    <2> QED BY <1>1, <2>2, <2>3, LenProperties
  <1>3. /\ kept \in Seq(Numbers) /\ Len(kept) = Kept /\ Kept \in {0, 1}
        /\ Kept = 1 => kept[1] = saved[Len(saved)]
    <2>1. CASE hand.stage = "saved"
      <3>1. hand.line.n \in Numbers /\ hand.line.n = saved[Len(saved)]
        BY <1>1, <2>1, LinesAreTyped DEF TypeOK, RecordInv
      <3> QED BY <2>1, <3>1 DEF Kept
    <2>2. CASE hand.stage # "saved"
      BY <2>2 DEF Kept
    <2> QED BY <2>1, <2>2
  <1>4. /\ tail \o queued \in Seq(Numbers) /\ Len(tail \o queued) = Len(tail) + Len(queue)
        /\ \A i \in 1 .. Len(tail) + Len(queue) :
             (tail \o queued)[i] = IF i <= Len(tail) THEN tail[i] ELSE queued[i - Len(tail)]
    <2> HIDE DEF queued
    <2>1. /\ tail \o queued \in Seq(Numbers) /\ Len(tail \o queued) = Len(tail) + Len(queued)
          /\ \A i \in 1 .. Len(tail) + Len(queued) :
               (tail \o queued)[i] = IF i <= Len(tail) THEN tail[i] ELSE queued[i - Len(tail)]
      BY <1>1, <1>2, ConcatProperties
    <2> QED BY <1>2, <2>1
  <1>5. /\ all \in Seq(Numbers) /\ Len(all) = Len(tail) + Len(queue) + Kept
        /\ \A i \in 1 .. Len(all) :
             all[i] = IF i <= Len(tail) + Len(queue) THEN (tail \o queued)[i]
                      ELSE kept[i - (Len(tail) + Len(queue))]
    <2> HIDE DEF queued, kept
    <2> QED BY <1>1, <1>3, <1>4, ConcatProperties
  <1>6. Len(saved) - Len(all) = Gone /\ Gone \in Nat /\ Len(all) <= Len(saved)
    <2> HIDE DEF all
    <2> QED BY <1>1, <1>3, <1>5 DEF Gone, RecordInv
  <1>7. ASSUME NEW i \in 1 .. Len(all)
        PROVE  all[i] = saved[Len(saved) - Len(all) + i]
    <2> HIDE DEF all, kept
    <2>1. CASE i <= Len(tail)
      <3>1. i \in 1 .. Len(tail) /\ i <= Len(tail) + Len(queue) /\ i \in 1 .. Len(tail) + Len(queue)
        BY <1>1, <2>1
      <3>2. tail[i] = saved[Gone + i]
        BY <3>1 DEF RecordInv
      <3>3. all[i] = tail[i]
        <4> HIDE DEF queued
        <4> QED BY <1>4, <1>5, <2>1, <3>1
      <3> QED BY <1>6, <3>2, <3>3
    <2>2. CASE i > Len(tail) /\ i <= Len(tail) + Len(queue)
      <3>1. i - Len(tail) \in 1 .. Len(queue) /\ Gone + Len(tail) + (i - Len(tail)) = Gone + i
        BY <1>1, <1>6, <2>2
      <3>2. queued[i - Len(tail)] = saved[Gone + i]
        BY <3>1 DEF RecordInv
      <3> HIDE DEF queued
      <3> QED BY <1>1, <1>4, <1>5, <1>6, <2>2, <3>2
    <2>3. CASE i > Len(tail) + Len(queue)
      <3>1. Kept = 1 /\ i = Len(all) /\ i - (Len(tail) + Len(queue)) = 1
        BY <1>1, <1>3, <1>5, <2>3
      <3>2. all[i] = kept[1]
        <4>1. ~ i <= Len(tail) + Len(queue)
          BY <1>1, <2>3
        <4> HIDE DEF queued
        <4> QED BY <1>5, <3>1, <4>1
      <3> HIDE DEF queued
      <3> QED BY <1>1, <1>3, <1>6, <3>1, <3>2
    <2> QED BY <1>1, <1>5, <2>1, <2>2, <2>3
  <1>8. IsSuffix(all, saved)
    <2> HIDE DEF all
    <2> QED BY <1>1, <1>5, <1>6, <1>7, SuffixByElements
  <1>9. view.status # "waiting" => view.n \in Range(saved)
    BY <1>1 DEF RecordInv, Recorded, Range
  <1> QED BY <1>8, <1>9 DEF ShownIsRecorded

LEMMA RecordUntouched ==
  ASSUME RecordInv, UNCHANGED <<setup, saved, tail, queue, frame, view>>,
         hand' = hand \/ (hand.stage # "saved" /\ hand'.stage # "saved")
  PROVE  RecordInv'
  <1>1. Kept' = Kept /\ Gone' = Gone /\ Recording' = Recording
    BY DEF Kept, Gone, Recording, args
  <1>2. (hand.stage = "saved")' => hand' = hand
    OBVIOUS
  <1>3. CASE ~ Recording
    BY <1>1, <1>3 DEF RecordInv
  <1>4. CASE Recording
    BY <1>1, <1>2, <1>4 DEF RecordInv, Recorded
  <1> QED BY <1>3, <1>4

\* What was in the record stays there when a line is added.
LEMMA RecordGrows ==
  ASSUME TypeOK, RecordInv, Recording, hand.stage = "read", Save,
         hand' = [hand EXCEPT !.stage = "saved"], saved' = Append(saved, hand.line.n)
  PROVE  RecordInv'
  <1>1. /\ setup \in Setups /\ saved \in Seq(Numbers) /\ Len(saved) \in Nat
        /\ Len(tail) \in Nat /\ Len(queue) \in Nat
        /\ hand \in [line : Lines, stage : {"read", "saved"}]
    BY LinesAreTyped DEF TypeOK
  <1>2. hand.line.n \in Numbers /\ hand'.stage = "saved" /\ hand'.line = hand.line
    BY <1>1, LinesAreTyped
  <1>3. /\ Len(saved') = Len(saved) + 1 /\ saved'[Len(saved')] = hand.line.n
        /\ \A i \in 1 .. Len(saved) : saved'[i] = saved[i] /\ i \in 1 .. Len(saved')
    BY <1>1, <1>2, AppendProperties
  <1>4. UNCHANGED <<setup, tail, queue, frame, view>>
    BY DEF Save, board, dashboard
  <1>5. Kept = 0 /\ Kept' = 1 /\ Gone' = Gone /\ Gone \in Nat /\ Recording'
        /\ Len(saved) = Gone + Len(tail) + Len(queue)
    BY <1>1, <1>2, <1>3, <1>4 DEF Kept, Gone, Recording, args, RecordInv
  <1>6. \A n : Recorded(n) => \E i \in 1 .. Len(saved') : saved'[i] = n
    BY <1>3 DEF Recorded
  <1>7. \A i \in 1 .. Len(tail) : tail[i] = saved'[Gone + i]
    <2> SUFFICES ASSUME NEW i \in 1 .. Len(tail) PROVE tail[i] = saved'[Gone + i]
      OBVIOUS
    <2>1. Gone + i \in 1 .. Len(saved)
      BY <1>1, <1>5
    <2> QED BY <1>3, <2>1 DEF RecordInv
  <1>8. \A i \in 1 .. Len(queue) : queue[i].n = saved'[Gone + Len(tail) + i]
    <2> SUFFICES ASSUME NEW i \in 1 .. Len(queue) PROVE queue[i].n = saved'[Gone + Len(tail) + i]
      OBVIOUS
    <2>1. Gone + Len(tail) + i \in 1 .. Len(saved)
      BY <1>1, <1>5
    <2> QED BY <1>3, <2>1 DEF RecordInv
  <1>9. /\ IsFrame(frame) => \E i \in 1 .. Len(saved') : saved'[i] = frame.n
        /\ view.status # "waiting" => \E i \in 1 .. Len(saved') : saved'[i] = view.n
    BY <1>6 DEF RecordInv
  <1> QED BY <1>2, <1>3, <1>4, <1>5, <1>7, <1>8, <1>9 DEF RecordInv, Recorded

\* The line in hand is the last of the record, and becomes the last of the queue.
LEMMA RecordAfterPut ==
  ASSUME TypeOK, RecordInv, Put
  PROVE  RecordInv'
  <1>1. /\ setup \in Setups /\ Len(saved) \in Nat /\ Len(tail) \in Nat
        /\ queue \in Seq(Lines) /\ Len(queue) \in Nat
        /\ hand.line \in Lines /\ hand.stage = "saved"
    BY LinesAreTyped DEF TypeOK, Put
  <1>2. /\ UNCHANGED <<setup, saved, tail, frame, view>> /\ Recording' = Recording
        /\ hand' = Empty /\ hand'.stage = "none"
    BY <1>1, LinesAreTyped DEF Put, board, dashboard, Recording, args
  <1>3. /\ Len(queue') = Len(queue) + 1 /\ queue'[Len(queue')] = hand.line
        /\ \A i \in 1 .. Len(queue) : queue'[i] = queue[i]
    BY <1>1, AppendProperties DEF Put
  <1>4. Kept = 1 /\ Kept' = 0 /\ Gone' = Gone /\ Len(saved) = Gone + Len(tail) + Len(queue')
    BY <1>1, <1>2, <1>3 DEF Kept, Gone
  <1>5. CASE ~ Recording
    BY <1>2, <1>5 DEF RecordInv
  <1>6. CASE Recording
    <2>1. ASSUME NEW i \in 1 .. Len(queue')
          PROVE  queue'[i].n = saved[Gone + Len(tail) + i]
      <3>1. CASE i = Len(queue')
        BY <1>1, <1>3, <1>4, <1>6, <3>1 DEF RecordInv
      <3>2. CASE i # Len(queue')
        <4>1. i \in 1 .. Len(queue)
          BY <1>1, <1>3, <3>2
        <4> QED BY <1>3, <1>6, <4>1 DEF RecordInv
      <3> QED BY <3>1, <3>2
    <2> QED BY <1>2, <1>4, <1>6, <2>1 DEF RecordInv, Recorded
  <1> QED BY <1>5, <1>6

\* The head of the queue becomes the last line of the panel, and may be the frame.
LEMMA RecordAfterTake ==
  ASSUME TypeOK, RecordInv, Take
  PROVE  RecordInv'
  <1>1. /\ setup \in Setups /\ Len(saved) \in Nat /\ tail \in Seq(Numbers) /\ Len(tail) \in Nat
        /\ queue \in Seq(Lines) /\ Len(queue) \in Nat \ {0} /\ Len(tail) <= TailLimit
    BY EmptySeq DEF TypeOK, Take
  <1>2. UNCHANGED <<setup, saved, hand, view>> /\ Recording' = Recording /\ Kept' = Kept
    BY DEF Take, board, reader, Recording, args, Kept
  <1>3. Head(queue) = queue[1] /\ queue[1] \in Lines /\ 1 \in 1 .. Len(queue)
    BY <1>1
  <1>4. /\ Len(queue') = Len(queue) - 1
        /\ \A i \in 1 .. Len(queue') : queue'[i] = queue[i + 1]
    BY <1>1, HeadTailProperties DEF Take
  <1>5. PICK cut \in {0, 1} :
          /\ Len(tail') = Len(tail) + 1 - cut
          /\ \A i \in 1 .. Len(tail') : tail'[i] = IF i = Len(tail') THEN queue[1].n ELSE tail[i + cut]
    <2>1. PushRaw(queue[1])
      BY <1>3 DEF Take
    <2> QED BY <1>1, <1>3, <2>1, PanelMoves
  <1>6. CASE ~ Recording
    BY <1>2, <1>6 DEF RecordInv
  <1>7. CASE Recording
    <2>1. /\ Gone \in Nat /\ Kept \in {0, 1} /\ Gone' = Gone + cut
          /\ Len(saved) = Gone + Len(tail) + Len(queue) + Kept
      BY <1>1, <1>2, <1>4, <1>5, <1>7 DEF Gone, Kept, RecordInv
    <2>2. queue[1].n = saved[Gone + Len(tail) + 1] /\ Gone + Len(tail) + 1 \in 1 .. Len(saved)
      BY <1>1, <1>3, <1>7, <2>1 DEF RecordInv
    <2>3. ASSUME NEW i \in 1 .. Len(tail')
          PROVE  tail'[i] = saved[Gone + cut + i]
      <3>1. CASE i = Len(tail')
        <4>1. Gone + cut + i = Gone + Len(tail) + 1
          BY <1>1, <1>5, <2>1, <3>1
        <4> QED BY <1>5, <2>2, <3>1, <4>1
      <3>2. CASE i # Len(tail')
        <4>1. i + cut \in 1 .. Len(tail) /\ Gone + (i + cut) = Gone + cut + i
          BY <1>1, <1>5, <2>1, <3>2
        <4>2. tail[i + cut] = saved[Gone + (i + cut)]
          BY <1>7, <4>1 DEF RecordInv
        <4> QED BY <1>5, <3>2, <4>1, <4>2
      <3> QED BY <3>1, <3>2
    <2>4. ASSUME NEW i \in 1 .. Len(queue')
          PROVE  queue'[i].n = saved[Gone + cut + Len(tail') + i]
      <3>1. i + 1 \in 1 .. Len(queue) /\ Gone + Len(tail) + (i + 1) = Gone + cut + Len(tail') + i
        BY <1>1, <1>4, <1>5, <2>1
      <3>2. queue[i + 1].n = saved[Gone + Len(tail) + (i + 1)]
        BY <1>7, <3>1 DEF RecordInv
      <3> QED BY <1>4, <3>1, <3>2
    <2>5. IsFrame(frame') => Recorded(frame'.n)
      <3>1. Recorded(queue[1].n)
        BY <2>2 DEF Recorded
      <3>2. frame' = queue[1] \/ frame' = frame
        BY <1>3 DEF Take, Updated
      <3> QED BY <1>7, <3>1, <3>2 DEF RecordInv
    <2>6. Gone + cut >= 0
      BY <2>1
    <2> QED BY <1>2, <1>7, <2>1, <2>3, <2>4, <2>5, <2>6 DEF RecordInv, Recorded
  <1> QED BY <1>6, <1>7

LEMMA RecordAfterRender ==
  ASSUME TypeOK, RecordInv, Render
  PROVE  RecordInv'
  <1>1. UNCHANGED <<setup, saved, tail, queue, hand, frame>>
    BY DEF Render, board, reader
  <1>2. /\ Kept' = Kept /\ Gone' = Gone /\ Recording' = Recording
    BY <1>1 DEF Kept, Gone, Recording, args
  <1>3. view' = view \/ view' = [status |-> Status, n |-> frame.n]
    BY DEF Render, Draw
  <1>4. Status # "waiting" => IsFrame(frame)
    BY StatusIsTyped DEF TypeOK
  <1>5. Recording /\ view'.status # "waiting" => Recorded(view'.n)
    BY <1>3, <1>4 DEF RecordInv
  <1> QED BY <1>1, <1>2, <1>5 DEF RecordInv, Recorded

LEMMA RecordStep == TypeOK /\ RecordInv /\ [Next]_vars => RecordInv'
  <1> SUFFICES ASSUME TypeOK, RecordInv, [Next]_vars PROVE RecordInv'
    OBVIOUS
  <1> USE DEF board, reader, dashboard
  <1>1. Empty.stage = "none"
    BY LinesAreTyped DEF TypeOK
  <1>2. CASE Board \/ Tick \/ UNCHANGED vars
    <2>1. UNCHANGED <<setup, saved, tail, queue, frame, view, hand>>
      BY <1>2 DEF Board, WriteFrame, WriteText, Unplug, Plug, Tick, vars
    <2> QED BY <2>1, RecordUntouched
  <1>3. CASE Open \/ Read \/ ReadTorn \/ ReadError \/ Simulate \/ ReplayEnd
    <2>1. /\ UNCHANGED <<setup, saved, tail, queue, frame, view>> /\ hand = Empty
          /\ hand' = hand \/ \E l : hand' = [line |-> l, stage |-> "read"]
      BY <1>3 DEF Open, Read, ReadTorn, ReadError, Simulate, ReplayEnd, Reads, InHand
    <2>2. hand' = hand \/ (hand.stage # "saved" /\ hand'.stage # "saved")
      BY <1>1, <2>1
    <2> QED BY <2>1, <2>2, RecordUntouched
  <1>4. CASE Save
    <2>1. CASE Recording /\ hand' = [hand EXCEPT !.stage = "saved"]
      <3>1. hand.stage = "read" /\ saved' = Append(saved, hand.line.n)
        <4>1. Empty # [hand EXCEPT !.stage = "saved"]
          BY <1>4, <1>1 DEF Save, TypeOK
        <4> QED BY <1>4, <2>1, <4>1 DEF Save
      <3> QED BY <1>4, <2>1, <3>1, RecordGrows
    <2>2. CASE ~ Recording
      BY <1>4, <2>2 DEF Save, RecordInv, Recording, args
    <2>3. CASE hand' = Empty /\ saved' = saved
      BY <1>1, <1>4, <2>3, RecordUntouched DEF Save
    <2> QED BY <1>4, <2>1, <2>2, <2>3 DEF Save
  <1>5. CASE Put
    BY <1>5, RecordAfterPut
  <1>6. CASE Take
    BY <1>6, RecordAfterTake
  <1>7. CASE Render
    BY <1>7, RecordAfterRender
  <1>8. CASE Once
    BY <1>8 DEF Once, RecordInv, Recording, args
  <1>9. CASE Quit
    BY <1>9, RecordUntouched DEF Quit
  <1> QED BY <1>2, <1>3, <1>4, <1>5, <1>6, <1>7, <1>8, <1>9 DEF Next, Thread, MainLoop

LEMMA InitRecord == Init => RecordInv
  <1> SUFFICES ASSUME Init PROVE RecordInv
    OBVIOUS
  <1>1. Len(saved) = 0 /\ Len(tail) = 0 /\ Len(queue) = 0 /\ hand.stage = "none"
    BY LinesAreTyped DEF Init
  <1>2. ~ IsFrame(frame) /\ view.status = "waiting"
    BY LinesAreTyped DEF Init
  <1> QED BY <1>1, <1>2 DEF RecordInv, Kept, Gone

\* What has been shown is in the record, whatever ends the program, and nothing of what
\* was taken from the source is left out of it, repeated or put in another order
\* (board_tui.py:48-53, 79-84).
THEOREM ShownIsInRecord == Spec => []ShownIsRecorded
  <1>1. Init => TypeOK /\ RecordInv
    BY InitType, InitRecord
  <1>2. (TypeOK /\ RecordInv) /\ [Next]_vars => (TypeOK /\ RecordInv)'
    BY TypeStep, RecordStep
  <1>3. TypeOK /\ RecordInv => ShownIsRecorded
    BY RecordIsSuffix
  <1> QED BY <1>1, <1>2, <1>3, PTL DEF Spec

-----------------------------------------------------------------------------
(***************************************************************************)
(* The header.  While a frame is on its way no second goes by, and since   *)
(* it has been taken both clocks count the same seconds.                   *)
(***************************************************************************)
FrameIn(s) == \E i \in 1 .. Len(s) : IsFrame(s[i])
OnTheWay == (port = "open" /\ FrameIn(wire)) \/ IsFrame(hand.line) \/ FrameIn(queue)

RecentInv ==
  ~ Fault("stall") =>
    /\ port \in {"closed", "lost"} => wire = << >>
    /\ OnTheWay => quiet = 0
    /\ IsFrame(frame) => quiet <= age
    /\ view.status = "live" => quiet <= StaleAfter + 1

LEMMA FramesOfSequences ==
  ASSUME NEW s \in Seq(Lines)
  PROVE  /\ ~ FrameIn(<< >>)
         /\ \A l \in Lines : FrameIn(Append(s, l)) => FrameIn(s) \/ IsFrame(l)
         /\ s # << >> => /\ FrameIn(Tail(s)) => FrameIn(s)
                         /\ IsFrame(Head(s)) => FrameIn(s)
                         /\ ~ IsFrame(Text) /\ Text \in Lines /\ FrameIn([s EXCEPT ![1] = Text]) => FrameIn(s)
  <1>1. ~ FrameIn(<< >>)
    BY DEF FrameIn
  <1>2. ASSUME NEW l \in Lines, FrameIn(Append(s, l)), ~ IsFrame(l)
        PROVE  FrameIn(s)
    <2>1. PICK i \in 1 .. Len(s) + 1 : IsFrame(Append(s, l)[i])
      BY <1>2, AppendProperties DEF FrameIn
    <2>2. i # Len(s) + 1 /\ i \in 1 .. Len(s)
      BY <1>2, <2>1, AppendProperties
    <2> QED BY <2>1, <2>2, AppendProperties DEF FrameIn
  <1>3. ASSUME s # << >>
        PROVE  /\ FrameIn(Tail(s)) => FrameIn(s)
               /\ IsFrame(Head(s)) => FrameIn(s)
    <2>1. Len(s) \in Nat \ {0} /\ 1 \in 1 .. Len(s) /\ Head(s) = s[1]
      BY <1>3
    <2>2. /\ Len(Tail(s)) = Len(s) - 1
          /\ \A i \in 1 .. Len(Tail(s)) : Tail(s)[i] = s[i + 1] /\ i + 1 \in 1 .. Len(s)
      BY <1>3, <2>1, HeadTailProperties
    <2> QED BY <2>1, <2>2 DEF FrameIn
  <1>4. ASSUME s # << >>, ~ IsFrame(Text), Text \in Lines, FrameIn([s EXCEPT ![1] = Text])
        PROVE  FrameIn(s)
    <2>1. 1 \in 1 .. Len(s)
      BY <1>4
    <2>2. /\ Len([s EXCEPT ![1] = Text]) = Len(s)
          /\ \A j \in 1 .. Len(s) : [s EXCEPT ![1] = Text][j] = IF j = 1 THEN Text ELSE s[j]
      BY <1>4, <2>1, ExceptSeq
    <2> QED BY <1>4, <2>2 DEF FrameIn
  <1> QED BY <1>1, <1>2, <1>3, <1>4

LEMMA InitRecent == Init => RecentInv
  <1> SUFFICES ASSUME Init PROVE RecentInv
    OBVIOUS
  <1>1. quiet = 0 /\ ~ IsFrame(frame) /\ view.status = "waiting" /\ port \in {"closed", "open"}
    BY LinesAreTyped DEF Init
  <1>2. port = "closed" => wire = << >>
    BY DEF Init, OfBoard
  <1> QED BY <1>1, <1>2 DEF RecentInv

LEMMA RecentBoard == TypeOK /\ RecentInv /\ Board => RecentInv'
  <1> SUFFICES ASSUME TypeOK, RecentInv, Board, ~ Fault("stall") PROVE RecentInv'
    BY DEF Board, WriteFrame, WriteText, Unplug, Plug, RecentInv, Fault
  <1> USE DEF reader, dashboard
  <1>1. /\ setup \in Setups /\ wire \in Seq(Lines) /\ age \in Nat /\ StaleAfter \in Nat
        /\ UNCHANGED <<setup, hand, queue, frame, age, view>>
    BY Setup DEF TypeOK, Board, WriteFrame, WriteText, Unplug, Plug
  <1>2. CASE WriteFrame
    <2>1. quiet' = 0 /\ port' = port /\ (port # "open" => wire' = wire)
      BY <1>2 DEF WriteFrame
    <2>2. 0 <= age /\ 0 <= StaleAfter + 1
      BY <1>1
    <2> QED BY <1>1, <2>1, <2>2 DEF RecentInv
  <1>3. CASE WriteText
    <2>1. quiet' = quiet /\ port' = port /\ (port # "open" => wire' = wire)
      BY <1>3 DEF WriteText
    <2>2. port = "open" => wire' = Append(wire, Text)
      BY <1>3 DEF WriteText
    <2>3. port = "open" /\ FrameIn(wire') => FrameIn(wire)
      BY <1>1, <2>2, LinesAreTyped, FramesOfSequences
    <2>4. OnTheWay' => OnTheWay
      BY <1>1, <2>1, <2>3 DEF OnTheWay, FrameIn
    <2> QED BY <1>1, <2>1, <2>4 DEF RecentInv
  <1>4. CASE Unplug
    <2>1. quiet' = quiet /\ wire' = << >>
      BY <1>4 DEF Unplug
    <2>2. OnTheWay' => OnTheWay
      BY <1>1, <2>1, FramesOfSequences DEF OnTheWay, FrameIn
    <2> QED BY <1>1, <2>1, <2>2 DEF RecentInv
  <1>5. CASE Plug
    BY <1>5 DEF Plug, RecentInv, OnTheWay, FrameIn, Fault
  <1> QED BY <1>2, <1>3, <1>4, <1>5 DEF Board

LEMMA RecentThread == TypeOK /\ RecentInv /\ Thread => RecentInv'
  <1> SUFFICES ASSUME TypeOK, RecentInv, Thread, ~ Fault("stall") PROVE RecentInv'
    BY DEF Thread, Open, Read, ReadTorn, ReadError, Simulate, ReplayEnd, Save, Put, RecentInv, Fault
  <1> USE DEF board, dashboard
  <1>1. /\ setup \in Setups /\ wire \in Seq(Lines) /\ queue \in Seq(Lines)
        /\ age \in Nat /\ StaleAfter \in Nat
        /\ UNCHANGED <<setup, frame, age, view>>
    <2>1. setup \in Setups /\ wire \in Seq(Lines) /\ queue \in Seq(Lines) /\ age \in 0 .. Cap
      BY DEF TypeOK
    <2>2. UNCHANGED <<setup, frame, age, view>>
      BY DEF Thread, Open, Read, ReadTorn, ReadError, Simulate, ReplayEnd, Save, Put
    <2> QED BY <2>1, <2>2, Setup
  <1>2. /\ port \in {"closed", "lost"} => wire = << >>
        /\ OnTheWay => quiet = 0
        /\ IsFrame(frame) => quiet <= age
        /\ view.status = "live" => quiet <= StaleAfter + 1
        /\ ~ IsFrame(Empty.line) /\ ~ IsFrame(Text) /\ Text \in Lines
    BY <1>1, LinesAreTyped DEF RecentInv
  <1>3. ASSUME quiet' = quiet, OnTheWay' => OnTheWay, port' \in {"closed", "lost"} => wire' = << >>
        PROVE  RecentInv'
    BY <1>1, <1>2, <1>3 DEF RecentInv
  <1>4. CASE Open
    <2>1. quiet' = quiet /\ wire' = wire /\ wire = << >> /\ port' = "open" /\ UNCHANGED <<hand, queue>>
      BY <1>2, <1>4 DEF Open
    <2> QED BY <1>1, <1>3, <2>1, FramesOfSequences DEF OnTheWay, FrameIn
  <1>5. CASE Read
    <2>1. /\ quiet' = quiet /\ port' = port /\ port = "open" /\ wire # << >> /\ queue' = queue
          /\ wire' = Tail(wire) /\ hand'.line = Head(wire)
      BY <1>5 DEF Read, InHand
    <2>2. FrameIn(wire') \/ IsFrame(hand'.line) => FrameIn(wire)
      BY <1>1, <2>1, FramesOfSequences
    <2> QED BY <1>3, <2>1, <2>2 DEF OnTheWay, FrameIn
  <1>6. CASE ReadTorn
    <2>1. /\ quiet' = quiet /\ port' = port /\ port = "open" /\ wire # << >> /\ queue' = queue
          /\ wire' = [wire EXCEPT ![1] = Text] /\ hand'.line = Text
      BY <1>6 DEF ReadTorn, InHand
    <2>2. FrameIn(wire') => FrameIn(wire)
      BY <1>1, <1>2, <2>1, FramesOfSequences
    <2> QED BY <1>2, <1>3, <2>1, <2>2 DEF OnTheWay, FrameIn
  <1>7. CASE ReadError
    BY <1>2, <1>3, <1>7 DEF ReadError, OnTheWay, FrameIn
  <1>8. CASE Simulate
    <2>1. quiet' = 0 /\ UNCHANGED <<port, wire>>
      BY <1>8 DEF Simulate
    <2>2. 0 <= age /\ 0 <= StaleAfter + 1
      BY <1>1
    <2> QED BY <1>1, <1>2, <2>1, <2>2 DEF RecentInv
  <1>9. CASE ReplayEnd
    BY <1>3, <1>9 DEF ReplayEnd, OnTheWay, FrameIn
  <1>10. CASE Save
    <2>1. /\ quiet' = quiet /\ UNCHANGED <<wire, queue>> /\ port' \in {port, "dead"}
          /\ hand' = [hand EXCEPT !.stage = "saved"] \/ hand' = Empty
      BY <1>10 DEF Save
    <2>2. hand'.line = hand.line \/ hand'.line = Empty.line
      BY <2>1, <1>10 DEF TypeOK, Empty
    <2> QED BY <1>2, <1>3, <2>1, <2>2 DEF OnTheWay, FrameIn
  <1>11. CASE Put
    <2>1. /\ quiet' = quiet /\ UNCHANGED <<wire, port>> /\ hand' = Empty /\ queue' = Append(queue, hand.line)
          /\ hand.line \in Lines
      BY <1>1, <1>11, LinesAreTyped DEF Put, TypeOK
    <2>2. FrameIn(queue') => FrameIn(queue) \/ IsFrame(hand.line)
      BY <1>1, <2>1, FramesOfSequences
    <2> QED BY <1>2, <1>3, <2>1, <2>2 DEF OnTheWay, FrameIn
  <1> QED BY <1>4, <1>5, <1>6, <1>7, <1>8, <1>9, <1>10, <1>11 DEF Thread

LEMMA RecentMainLoop == TypeOK /\ RecentInv /\ MainLoop => RecentInv'
  <1> SUFFICES ASSUME TypeOK, RecentInv, MainLoop, ~ Fault("stall") PROVE RecentInv'
    BY DEF MainLoop, Take, Render, Once, Quit, RecentInv, Fault
  <1> USE DEF board, reader, dashboard
  <1>1. /\ setup \in Setups /\ queue \in Seq(Lines) /\ age \in Nat /\ quiet \in Nat /\ StaleAfter \in Nat
        /\ UNCHANGED <<setup, port, wire, quiet>>
    BY Setup DEF TypeOK, MainLoop, Take, Render, Once, Quit
  <1>2. /\ port \in {"closed", "lost"} => wire = << >>
        /\ OnTheWay => quiet = 0
        /\ IsFrame(frame) => quiet <= age
        /\ view.status = "live" => quiet <= StaleAfter + 1
    BY DEF RecentInv
  <1>3. CASE Take
    <2>1. /\ Head(queue) \in Lines /\ FrameIn(queue') => FrameIn(queue)
          /\ IsFrame(Head(queue)) => FrameIn(queue)
      BY <1>1, <1>3, FramesOfSequences, HeadTailProperties DEF Take
    <2>2. OnTheWay' => OnTheWay
      BY <1>1, <1>3, <2>1 DEF Take, OnTheWay, FrameIn
    <2>3. IsFrame(frame') => quiet <= age'
      <3>1. CASE IsFrame(Head(queue))
        BY <1>1, <1>2, <1>3, <2>1, <3>1 DEF Take, Updated, OnTheWay
      <3>2. CASE ~ IsFrame(Head(queue))
        BY <1>2, <1>3, <3>2 DEF Take, Updated
      <3> QED BY <3>1, <3>2
    <2> QED BY <1>1, <1>2, <1>3, <2>2, <2>3 DEF Take, RecentInv
  <1>4. CASE Render
    <2>1. UNCHANGED <<hand, queue, frame, age>> /\ (view' = view \/ view'.status = Status)
      BY <1>4 DEF Render, Draw
    <2>2. Status = "live" => quiet <= StaleAfter
      BY <1>1, <1>2 DEF Status
    <2>3. OnTheWay' => OnTheWay
      BY <1>1, <2>1 DEF OnTheWay, FrameIn
    <2>4. view'.status = "live" => quiet <= StaleAfter + 1
      BY <1>1, <1>2, <2>1, <2>2
    <2> QED BY <1>1, <1>2, <2>1, <2>3, <2>4 DEF RecentInv
  <1>5. CASE Once
    <2>1. queue' = queue /\ (hand' = hand \/ hand' = Empty) /\ ~ IsFrame(Empty.line)
      BY <1>1, <1>5, LinesAreTyped DEF Once
    <2>2. OnTheWay' => OnTheWay
      BY <1>1, <2>1 DEF OnTheWay, FrameIn
    <2>3. CASE IsFrame(hand.line)
      <3>1. quiet = 0
        BY <1>2, <2>3 DEF OnTheWay
      <3>2. age' \in Nat
        BY <1>1, <1>5 DEF Once, Updated
      <3> QED BY <1>1, <1>2, <2>2, <3>1, <3>2 DEF RecentInv
    <2>4. CASE ~ IsFrame(hand.line)
      BY <1>1, <1>2, <1>5, <2>2, <2>4 DEF Once, RecentInv
    <2> QED BY <2>3, <2>4
  <1>6. CASE Quit
    BY <1>1, <1>2, <1>6 DEF Quit, RecentInv, OnTheWay, FrameIn
  <1> QED BY <1>3, <1>4, <1>5, <1>6 DEF MainLoop

\* A second goes by only when nothing is on its way and the screen is what it should be.
LEMMA RecentTick == TypeOK /\ RecentInv /\ Tick => RecentInv'
  <1> SUFFICES ASSUME TypeOK, RecentInv, Tick, ~ Fault("stall") PROVE RecentInv'
    BY DEF Tick, RecentInv, Fault
  <1>1. /\ setup \in Setups /\ age \in 0 .. Cap /\ quiet \in 0 .. Cap /\ StaleAfter \in Nat /\ Cap \in Nat
        /\ UNCHANGED <<setup, port, wire, hand, queue, frame, view>>
        /\ age' = Later(age) /\ quiet' = Later(quiet)
    BY Setup DEF TypeOK, Tick, reader
  <1>2. /\ hand = Empty /\ port # "lost" /\ (port = "open" => wire = << >>) /\ queue = << >>
        /\ view.status = Status
    BY DEF Tick, Pending
  <1>3. ~ OnTheWay'
    <2>1. ~ IsFrame(hand.line) /\ ~ FrameIn(<< >>)
      BY <1>1, <1>2, LinesAreTyped, FramesOfSequences DEF FrameIn
    <2> QED BY <1>1, <1>2, <2>1 DEF OnTheWay, FrameIn
  <1>4. IsFrame(frame) => quiet' <= age'
    BY <1>1, LaterIsBounded DEF RecentInv
  <1>5. view.status = "live" => quiet' <= StaleAfter + 1
    <2> SUFFICES ASSUME view.status = "live" PROVE quiet' <= StaleAfter + 1
      OBVIOUS
    <2>1. IsFrame(frame) /\ age <= StaleAfter
      BY <1>1, <1>2 DEF Status
    <2>2. quiet <= StaleAfter
      BY <1>1, <2>1 DEF RecentInv
    <2>3. quiet' <= quiet + 1 /\ quiet' \in Int
      BY <1>1, LaterIsBounded
    <2> QED BY <1>1, <2>2, <2>3
  <1> QED BY <1>1, <1>3, <1>4, <1>5 DEF RecentInv

LEMMA RecentStep == TypeOK /\ RecentInv /\ [Next]_vars => RecentInv'
  <1>1. RecentInv /\ UNCHANGED vars => RecentInv'
    BY DEF vars, RecentInv, OnTheWay, FrameIn, Fault
  <1> QED BY <1>1, RecentBoard, RecentThread, RecentMainLoop, RecentTick DEF Next

\* The header says live only of a source that had a frame in the last StaleAfter + 1
\* seconds, unless the main loop was held up (render.py:81-87).
THEOREM LiveMeansRecent == Spec => []LiveIsRecent
  <1>1. Init => TypeOK /\ RecentInv
    BY InitType, InitRecent
  <1>2. (TypeOK /\ RecentInv) /\ [Next]_vars => (TypeOK /\ RecentInv)'
    BY TypeStep, RecentStep
  <1>3. RecentInv => LiveIsRecent
    BY DEF RecentInv, LiveIsRecent
  <1> QED BY <1>1, <1>2, <1>3, PTL DEF Spec
=============================================================================
