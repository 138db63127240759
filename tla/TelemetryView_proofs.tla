------------------------ MODULE TelemetryView_proofs ------------------------
(***************************************************************************)
(* Invariance proofs for TelemetryView: for any number of viewers, any     *)
(* lengths of a listener's queue and of a connection's send buffer, and    *)
(* both boards.                                                            *)
(***************************************************************************)
EXTENDS TelemetryView, SequenceTheorems, TLAPS

-----------------------------------------------------------------------------
(***************************************************************************)
(* Streams.  What a viewer will still yield of its connection is a row of  *)
(* halves in which a last half follows its first half, and a first half    *)
(* follows a last one; where frames are numbered, one of an older frame.   *)
(***************************************************************************)
Ordered == ~ setup.wraps

Follows(ordered, a, b) ==
  IF a.part = "head" THEN b = LastHalf(a.frame)
  ELSE b.part = "head" /\ (ordered => a.frame < b.frame)

InLines(ordered, s) ==
  /\ s # << >> => s[1].part = "head"
  /\ \A i \in 1 .. Len(s) - 1 : Follows(ordered, s[i], s[i + 1])

Ended(s) == s # << >> => s[Len(s)].part = "tail"
Older(ordered, s, f) == ordered => \A i \in 1 .. Len(s) : s[i].frame < f

LEMMA HalvesAreTyped ==
  ASSUME setup.last \in Nat, NEW f \in Frames
  PROVE  /\ FirstHalf(f) \in Halves /\ LastHalf(f) \in Halves
         /\ Line(f) \in Seq(Halves) /\ Len(Line(f)) = 2
         /\ Line(f)[1] = FirstHalf(f) /\ Line(f)[2] = LastHalf(f)
         /\ FirstHalf(f).part = "head" /\ LastHalf(f).part = "tail" /\ "head" # "tail"
         /\ FirstHalf(f).frame = f /\ LastHalf(f).frame = f
         /\ \A h \in Halves : h.frame \in Frames /\ h.frame \in Int /\ h.part \in {"head", "tail"}
  <1>1. FirstHalf(f) \in Halves /\ LastHalf(f) \in Halves
    BY DEF FirstHalf, LastHalf, Halves
  <1>2. \A a, b \in Halves : <<a, b>> \in Seq(Halves) /\ Len(<<a, b>>) = 2
    OBVIOUS
  <1>3. \A h \in Halves : h.frame \in Frames /\ h.frame \in Int /\ h.part \in {"head", "tail"}
    BY DEF Halves, Frames
  <1> QED BY <1>1, <1>2, <1>3 DEF Line, FirstHalf, LastHalf

\* A frame's line, or a part of it, after lines that are ended and older.
LEMMA HalfJoins ==
  ASSUME setup.last \in Nat, NEW o \in BOOLEAN, NEW s \in Seq(Halves), NEW f \in Frames,
         InLines(o, s), Ended(s), Older(o, s, f)
  PROVE  /\ Append(s, FirstHalf(f)) \in Seq(Halves)
         /\ InLines(o, Append(s, FirstHalf(f))) /\ Older(o, Append(s, FirstHalf(f)), f + 1)
         /\ Append(s, FirstHalf(f))[1] = IF s = << >> THEN FirstHalf(f) ELSE s[1]
  <1> DEFINE h == FirstHalf(f)  t == Append(s, h)
  <1>1. /\ h \in Halves /\ h.part = "head" /\ h.frame = f /\ f \in Int
        /\ \A x \in Halves : x.frame \in Int
    BY HalvesAreTyped DEF Frames
  <1>2. /\ t \in Seq(Halves) /\ Len(t) = Len(s) + 1 /\ Len(s) \in Nat
        /\ \A i \in 1 .. Len(s) : t[i] = s[i]
        /\ t[Len(s) + 1] = h
    BY <1>1, AppendProperties
  <1>3. t[1] = IF s = << >> THEN h ELSE s[1]
    <2>1. CASE s = << >>
      BY <1>2, <2>1
    <2>2. CASE s # << >>
      BY <1>2, <2>2
    <2> QED BY <2>1, <2>2
  <1>4. ASSUME NEW i \in 1 .. Len(t) - 1
        PROVE  Follows(o, t[i], t[i + 1])
    <2>1. i \in 1 .. Len(s)
      BY <1>2
    <2>2. CASE i = Len(s)
      <3>1. t[i] = s[Len(s)] /\ t[i + 1] = h /\ s # << >>
        BY <1>2, <2>1, <2>2
      <3>2. s[Len(s)].part = "tail" /\ (o => s[Len(s)].frame < f)
        BY <2>1, <2>2, <3>1 DEF Ended, Older
      <3> QED BY <1>1, <3>1, <3>2 DEF Follows
    <2>3. CASE i # Len(s)
      <3>1. i \in 1 .. Len(s) - 1 /\ i + 1 \in 1 .. Len(s)
        BY <1>2, <2>1, <2>3
      <3> QED BY <1>2, <2>1, <3>1 DEF InLines
    <2> QED BY <2>2, <2>3
  <1>5. InLines(o, t)
    BY <1>1, <1>3, <1>4 DEF InLines
  <1>6. ASSUME o, NEW i \in 1 .. Len(t)
        PROVE  t[i].frame < f + 1
    <2>1. CASE i = Len(s) + 1
      BY <1>1, <1>2, <2>1
    <2>2. CASE i # Len(s) + 1
      <3>1. i \in 1 .. Len(s)
        BY <1>2, <2>2
      <3>2. s[i].frame < f /\ s[i].frame \in Int
        BY <1>1, <1>6, <3>1, ElementOfSeq DEF Older
      <3> QED BY <1>1, <1>2, <3>1, <3>2
    <2> QED BY <2>1, <2>2
  <1> QED BY <1>2, <1>3, <1>5, <1>6 DEF Older

LEMMA LineJoins ==
  ASSUME setup.last \in Nat, NEW o \in BOOLEAN, NEW s \in Seq(Halves), NEW f \in Frames,
         InLines(o, s), Ended(s), Older(o, s, f)
  PROVE  /\ s \o Line(f) \in Seq(Halves)
         /\ InLines(o, s \o Line(f)) /\ Ended(s \o Line(f)) /\ Older(o, s \o Line(f), f + 1)
         /\ (s \o Line(f))[1] = IF s = << >> THEN FirstHalf(f) ELSE s[1]
  <1> DEFINE t == Append(s, FirstHalf(f))  l == LastHalf(f)  u == s \o Line(f)
  <1>1. /\ FirstHalf(f) \in Halves /\ l \in Halves /\ l.part = "tail" /\ l.frame = f /\ f \in Int
        /\ Line(f) \in Seq(Halves) /\ Len(Line(f)) = 2
        /\ Line(f)[1] = FirstHalf(f) /\ Line(f)[2] = l
    BY HalvesAreTyped DEF Frames
  <1>2. /\ t \in Seq(Halves) /\ Len(t) = Len(s) + 1 /\ Len(s) \in Nat
        /\ t[Len(s) + 1] = FirstHalf(f)
        /\ \A i \in 1 .. Len(s) : t[i] = s[i]
    BY <1>1, AppendProperties
  <1>3. /\ u \in Seq(Halves) /\ Len(u) = Len(s) + 2
        /\ \A i \in 1 .. Len(s) + 2 : u[i] = IF i <= Len(s) THEN s[i] ELSE Line(f)[i - Len(s)]
    <2>1. /\ u \in Seq(Halves) /\ Len(u) = Len(s) + Len(Line(f))
          /\ \A i \in 1 .. Len(s) + Len(Line(f)) :
               u[i] = IF i <= Len(s) THEN s[i] ELSE Line(f)[i - Len(s)]
      BY <1>1, ConcatProperties
    <2> HIDE DEF u
    <2> QED BY <1>1, <2>1
  <1> HIDE DEF u
  <1>4. /\ \A i \in 1 .. Len(t) : u[i] = t[i]
        /\ u[Len(t) + 1] = l /\ Len(u) = Len(t) + 1 /\ Len(t) \in Nat \ {0}
    <2>1. ASSUME NEW i \in 1 .. Len(t) PROVE u[i] = t[i]
      <3>1. CASE i <= Len(s)
        BY <1>2, <1>3, <3>1
      <3>2. CASE i = Len(s) + 1
        <4>1. ~ i <= Len(s) /\ i - Len(s) = 1 /\ i \in 1 .. Len(s) + 2
          BY <1>2, <3>2
        <4> QED BY <1>1, <1>2, <1>3, <3>2, <4>1
      <3> QED BY <1>2, <3>1, <3>2
    <2>2. u[Len(t) + 1] = l
      <3>1. ~ Len(t) + 1 <= Len(s) /\ Len(t) + 1 - Len(s) = 2 /\ Len(t) + 1 \in 1 .. Len(s) + 2
        BY <1>2
      <3> QED BY <1>1, <1>3, <3>1
    <2> QED BY <1>2, <1>3, <2>1, <2>2
  <1>5. InLines(o, t) /\ Older(o, t, f + 1) /\ t[1] = IF s = << >> THEN FirstHalf(f) ELSE s[1]
    BY HalfJoins
  <1>6. u[1] = t[1] /\ u # << >> /\ t # << >>
    <2>1. u # << >> /\ t # << >>
      BY <1>2, <1>3, EmptySeq
    <2> QED BY <1>4, <2>1
  <1>7. ASSUME NEW i \in 1 .. Len(u) - 1
        PROVE  Follows(o, u[i], u[i + 1])
    <2>1. CASE i = Len(t)
      <3>1. u[i] = FirstHalf(f) /\ u[i + 1] = l
        BY <1>2, <1>4, <2>1
      <3> QED BY <3>1 DEF Follows, FirstHalf, LastHalf
    <2>2. CASE i # Len(t)
      <3>1. i \in 1 .. Len(t) - 1 /\ i \in 1 .. Len(t) /\ i + 1 \in 1 .. Len(t)
        BY <1>4, <2>2
      <3> QED BY <1>4, <1>5, <3>1 DEF InLines
    <2> QED BY <2>1, <2>2
  <1>8. ASSUME o, NEW i \in 1 .. Len(u)
        PROVE  u[i].frame < f + 1
    <2>1. CASE i = Len(t) + 1
      BY <1>1, <1>4, <2>1
    <2>2. CASE i # Len(t) + 1
      <3>1. i \in 1 .. Len(t)
        BY <1>4, <2>2
      <3> QED BY <1>4, <1>5, <1>8, <3>1 DEF Older
    <2> QED BY <2>1, <2>2
  <1>9. u[Len(u)].part = "tail"
    BY <1>1, <1>4
  <1>10. u[1].part = "head"
    BY <1>5, <1>6 DEF InLines
  <1>11. InLines(o, u) /\ Ended(u) /\ Older(o, u, f + 1)
    BY <1>7, <1>8, <1>9, <1>10 DEF InLines, Ended, Older
  <1> QED BY <1>3, <1>5, <1>6, <1>11 DEF u

\* What is cut off at the end leaves lines in their order.
LEMMA PrefixOfLines ==
  ASSUME NEW o \in BOOLEAN, NEW f, NEW s \in Seq(Halves), NEW t \in Seq(Halves),
         Len(t) <= Len(s), \A i \in 1 .. Len(t) : t[i] = s[i],
         InLines(o, s), Older(o, s, f)
  PROVE  InLines(o, t) /\ Older(o, t, f) /\ (t # << >> => s # << >> /\ t[1] = s[1])
  <1>1. Len(s) \in Nat /\ Len(t) \in Nat /\ (t # << >> => Len(t) > 0)
    BY EmptySeq
  <1>2. t # << >> => s # << >> /\ t[1] = s[1]
    BY <1>1
  <1>3. ASSUME NEW i \in 1 .. Len(t) - 1
        PROVE  Follows(o, t[i], t[i + 1])
    <2>1. i \in 1 .. Len(t) /\ i + 1 \in 1 .. Len(t) /\ i \in 1 .. Len(s) - 1
      BY <1>1
    <2> QED BY <2>1 DEF InLines
  <1>4. Older(o, t, f)
    BY <1>1 DEF Older
  <1> QED BY <1>2, <1>3, <1>4 DEF InLines

\* The first two halves of a stream are a line, and what follows it are newer lines.
LEMMA LineLeaves ==
  ASSUME NEW o \in BOOLEAN, NEW f, NEW s \in Seq(Halves), NEW t \in Seq(Halves), setup.last \in Nat,
         Len(s) = Len(t) + 2, \A i \in 1 .. Len(t) : t[i] = s[i + 2],
         InLines(o, s), Older(o, s, f)
  PROVE  /\ s[1].frame \in Frames /\ <<s[1], s[2]>> = Line(s[1].frame)
         /\ s[1].part = "head" /\ s[2].part = "tail"
         /\ o => s[1].frame < f
         /\ InLines(o, t) /\ Older(o, t, f) /\ (o /\ t # << >> => s[1].frame < t[1].frame)
  <1>1. /\ Len(s) \in Nat /\ Len(t) \in Nat /\ (t # << >> => Len(t) > 0)
        /\ 1 \in 1 .. Len(s) /\ 2 \in 1 .. Len(s) /\ 1 \in 1 .. Len(s) - 1
        /\ s # << >>
    BY EmptySeq
  <1>2. s[1] \in Halves /\ s[1].part = "head" /\ s[1].frame \in Frames
    <2>1. s[1] \in Halves
      BY <1>1, ElementOfSeq
    <2> QED BY <1>1, <2>1 DEF InLines, Halves
  <1>3. s[2] = LastHalf(s[1].frame)
    <2>1. Follows(o, s[1], s[1 + 1])
      BY <1>1 DEF InLines
    <2> QED BY <1>2, <2>1 DEF Follows
  <1>4. s[1] = FirstHalf(s[1].frame)
    BY <1>2 DEF Halves, FirstHalf
  <1>5. <<s[1], s[2]>> = Line(s[1].frame)
    BY <1>3, <1>4 DEF Line
  <1>6. ASSUME NEW i \in 1 .. Len(t) - 1
        PROVE  Follows(o, t[i], t[i + 1])
    <2>1. i \in 1 .. Len(t) /\ i + 1 \in 1 .. Len(t) /\ i + 2 \in 1 .. Len(s) - 1 /\ (i + 1) + 2 = (i + 2) + 1
      BY <1>1
    <2>2. Follows(o, s[i + 2], s[(i + 2) + 1])
      BY <2>1 DEF InLines
    <2> QED BY <2>1, <2>2
  <1>7. t # << >> => t[1].part = "head" /\ (o => s[1].frame < t[1].frame)
    <2> SUFFICES ASSUME t # << >> PROVE t[1].part = "head" /\ (o => s[1].frame < t[1].frame)
      OBVIOUS
    <2>1. 1 \in 1 .. Len(t) /\ t[1] = s[2 + 1] /\ 2 \in 1 .. Len(s) - 1
      BY <1>1
    <2>2. Follows(o, s[2], t[1])
      BY <2>1 DEF InLines
    <2>3. s[2].part = "tail" /\ s[2].frame = s[1].frame /\ "tail" # "head"
      BY <1>3 DEF LastHalf
    <2> QED BY <2>2, <2>3 DEF Follows
  <1>8. ASSUME o, NEW i \in 1 .. Len(t)
        PROVE  t[i].frame < f
    <2>1. i + 2 \in 1 .. Len(s)
      BY <1>1
    <2> QED BY <1>8, <2>1 DEF Older
  <1>9. s[2].part = "tail" /\ (o => s[1].frame < f)
    BY <1>1, <1>3 DEF LastHalf, Older
  <1> QED BY <1>2, <1>5, <1>6, <1>7, <1>8, <1>9 DEF InLines, Older

-----------------------------------------------------------------------------
(***************************************************************************)
(* What a viewer has before it: the connection that the board holds of it  *)
(* is open at its end, and carries whole lines; a viewer that connects     *)
(* again has nothing left of the connection before.                        *)
(***************************************************************************)
Stream(v) == buf[v] \o wire[v]

Sight(v) ==
  /\ Attached(v) => viewer[v] = "open" /\ Ended(Stream(v))
  /\ viewer[v] # "open" => buf[v] = << >> /\ wire[v] = << >>
  /\ InLines(Ordered, Stream(v)) /\ Older(Ordered, Stream(v), frame)
  /\ shown[v] # << >> =>
       /\ \E f \in Frames : shown[v] = Line(f)
       /\ Ordered => shown[v][1].frame < frame
       /\ Ordered /\ Stream(v) # << >> => shown[v][1].frame < Stream(v)[1].frame

IInv == TypeOK /\ \A v \in Viewers : Sight(v)

Connections == Viewers \cup {Gone}

LEMMA Facts ==
  ASSUME TypeOK
  PROVE  /\ setup \in Setups /\ setup.last \in Nat /\ setup.wraps \in BOOLEAN /\ Ordered \in BOOLEAN
         /\ setup.queue \in Nat \ {0} /\ setup.room \in Nat \ {0, 1} /\ setup.starts \in Nat
         /\ frame \in Nat /\ frame \in Frames
         /\ None \notin Viewers /\ Gone \notin Viewers /\ None # Gone
         /\ backlog \in Seq(Connections)
         /\ \A v \in Viewers : /\ wire[v] \in Seq(Halves) /\ buf[v] \in Seq(Halves)
                               /\ shown[v] \in Seq(Halves)
                               /\ Stream(v) \in Seq(Halves)
                               /\ Len(Stream(v)) = Len(buf[v]) + Len(wire[v])
                               /\ Len(buf[v]) \in Nat /\ Len(wire[v]) \in Nat
                               /\ \A i \in 1 .. Len(buf[v]) + Len(wire[v]) :
                                    Stream(v)[i] = IF i <= Len(buf[v]) THEN buf[v][i]
                                                   ELSE wire[v][i - Len(buf[v])]
  <1>1. /\ setup \in Setups /\ setup.last \in Nat /\ setup.wraps \in BOOLEAN
        /\ setup.queue \in Nat \ {0} /\ setup.room \in Nat \ {0, 1} /\ setup.starts \in Nat
        /\ None \notin Viewers /\ Gone \notin Viewers /\ None # Gone
    BY ViewAssumption DEF TypeOK
  <1>2. Ordered \in BOOLEAN
    BY DEF Ordered
  <1>3. frame \in Nat /\ frame \in Frames /\ backlog \in Seq(Connections)
    BY <1>1 DEF TypeOK, Frames, Connections
  <1>4. ASSUME NEW v \in Viewers
        PROVE  /\ wire[v] \in Seq(Halves) /\ buf[v] \in Seq(Halves) /\ shown[v] \in Seq(Halves)
               /\ Len(buf[v]) \in Nat /\ Len(wire[v]) \in Nat
    <2>1. wire[v] \in Seq(Halves) /\ buf[v] \in Seq(Halves) /\ shown[v] \in Seq(Halves)
      BY DEF TypeOK
    <2> QED BY <2>1
  <1>5. ASSUME NEW v \in Viewers
        PROVE  /\ Stream(v) \in Seq(Halves)
               /\ Len(Stream(v)) = Len(buf[v]) + Len(wire[v])
               /\ \A i \in 1 .. Len(buf[v]) + Len(wire[v]) :
                    Stream(v)[i] = IF i <= Len(buf[v]) THEN buf[v][i] ELSE wire[v][i - Len(buf[v])]
    BY <1>4, ConcatProperties DEF Stream
  <1> QED BY <1>1, <1>2, <1>3, <1>4, <1>5

LEMMA InitInv == Init => IInv
  <1> SUFFICES ASSUME Init PROVE IInv
    OBVIOUS
  <1>1. /\ setup \in Setups /\ setup.last \in Nat /\ setup.queue \in Nat \ {0}
        /\ setup.room \in Nat \ {0, 1} /\ setup.starts \in Nat /\ None \notin Viewers
    BY ViewAssumption DEF Init
  <1>2. << >> \in Seq(Halves) /\ << >> \in Seq(Viewers \cup {Gone}) /\ Len(<< >>) = 0
    OBVIOUS
  <1>3. TypeOK
    BY <1>1, <1>2 DEF Init, TypeOK, Frames
  <1>4. ASSUME NEW v \in Viewers
        PROVE  Sight(v)
    <2>1. buf[v] = << >> /\ wire[v] = << >> /\ shown[v] = << >> /\ Stream(v) = << >>
      BY <1>4 DEF Init, Stream
    <2>2. ~ Attached(v)
      BY <1>1 DEF Init, Attached, Range
    <2>3. InLines(Ordered, << >>) /\ Older(Ordered, << >>, frame)
      BY DEF InLines, Older
    <2> QED BY <2>1, <2>2, <2>3 DEF Sight
  <1> QED BY <1>3, <1>4 DEF IInv

-----------------------------------------------------------------------------
(***************************************************************************)
(* The connections of the board.                                           *)
(***************************************************************************)
ConnectionsOK ==
  /\ client \in Viewers \cup {None, Gone}
  /\ backlog \in Seq(Connections) /\ Len(backlog) <= setup.queue
  /\ \A i, j \in 1 .. Len(backlog) : backlog[i] = backlog[j] /\ i # j => backlog[i] = Gone
  /\ client \in Viewers => client \notin Range(backlog)

\* No viewer comes to be attached, and v does not stay so.
NoneNew == \A w \in Viewers : Attached(w)' => Attached(w)

LEMMA InRange ==
  ASSUME NEW S, NEW s \in Seq(S)
  PROVE  \A c : c \in Range(s) <=> \E i \in 1 .. Len(s) : s[i] = c
  BY DEF Range

LEMMA AbandonedMoves ==
  ASSUME TypeOK, NEW v \in Viewers, Abandoned(v), setup' = setup
  PROVE  ConnectionsOK' /\ NoneNew /\ ~ Attached(v)'
  <1>1. /\ backlog \in Seq(Connections) /\ Len(backlog) \in Nat /\ Gone \notin Viewers /\ Gone # None
        /\ client \in Viewers \cup {None, Gone} /\ Len(backlog) <= setup.queue
        /\ \A i, j \in 1 .. Len(backlog) : backlog[i] = backlog[j] /\ i # j => backlog[i] = Gone
        /\ client \in Viewers => client \notin Range(backlog)
    BY Facts DEF TypeOK
  <1>2. /\ backlog' \in Seq(Connections) /\ Len(backlog') = Len(backlog)
        /\ \A i \in 1 .. Len(backlog) : backlog'[i] = IF backlog[i] = v THEN Gone ELSE backlog[i]
    <2>1. DOMAIN backlog = 1 .. Len(backlog) /\ \A i \in 1 .. Len(backlog) : backlog[i] \in Connections
      BY <1>1, LenProperties, ElementOfSeq
    <2>2. /\ backlog' \in [1 .. Len(backlog) -> Connections] /\ DOMAIN backlog' = 1 .. Len(backlog)
          /\ \A i \in 1 .. Len(backlog) : backlog'[i] = IF backlog[i] = v THEN Gone ELSE backlog[i]
      BY <2>1 DEF Abandoned, Connections
    <2>3. backlog' \in Seq(Connections)
      BY <1>1, <2>2, SeqDef
    <2> QED BY <1>1, <2>2, <2>3, LenProperties
  <1>3. /\ \A c : c \in Range(backlog) <=> \E i \in 1 .. Len(backlog) : backlog[i] = c
        /\ \A c : c \in Range(backlog') <=> \E i \in 1 .. Len(backlog) : backlog'[i] = c
    BY <1>1, <1>2, InRange
  <1>4. client' = IF client = v THEN Gone ELSE client
    BY DEF Abandoned
  <1>5. \A w \in Viewers : w \in Range(backlog') => w \in Range(backlog) /\ w # v
    BY <1>1, <1>2, <1>3
  <1>6. \A w \in Viewers : client' = w => client = w /\ w # v
    BY <1>1, <1>4
  <1>7. client' \in Viewers => client' \notin Range(backlog')
    BY <1>1, <1>5, <1>6
  <1>8. ASSUME NEW i \in 1 .. Len(backlog), NEW j \in 1 .. Len(backlog), backlog'[i] = backlog'[j], i # j
        PROVE  backlog'[i] = Gone
    BY <1>1, <1>2, <1>8
  <1>9. NoneNew /\ ~ Attached(v)'
    BY <1>5, <1>6 DEF NoneNew, Attached
  <1>10. client' \in Viewers \cup {None, Gone}
    BY <1>1, <1>4
  <1> QED BY <1>1, <1>2, <1>7, <1>8, <1>9, <1>10 DEF ConnectionsOK

\* The listener's first connection, or none, takes the place of the client.
LEMMA AcceptMoves ==
  ASSUME TypeOK, setup' = setup, client' \in {Adopted, None},
         backlog' = IF backlog = << >> THEN << >> ELSE Tail(backlog)
  PROVE  /\ ConnectionsOK' /\ NoneNew
         /\ Adopted \in Viewers => Attached(Adopted)
         /\ client' = None => \A w \in Viewers : Adopted = w => ~ Attached(w)'
  <1>1. /\ backlog \in Seq(Connections) /\ Len(backlog) \in Nat /\ Gone \notin Viewers /\ None \notin Viewers
        /\ Gone # None /\ setup.queue \in Nat
        /\ client \in Viewers \cup {None, Gone} /\ Len(backlog) <= setup.queue
        /\ \A i, j \in 1 .. Len(backlog) : backlog[i] = backlog[j] /\ i # j => backlog[i] = Gone
        /\ client \in Viewers => client \notin Range(backlog)
    BY Facts DEF TypeOK
  <1>2. \A c : c \in Range(backlog) <=> \E i \in 1 .. Len(backlog) : backlog[i] = c
    BY <1>1, InRange
  <1>3. CASE backlog = << >>
    <2>1. Adopted = client /\ backlog' = backlog
      BY <1>3 DEF Adopted
    <2>2. ~ \E c : c \in Range(backlog)
      BY <1>1, <1>2, <1>3
    <2>3. ConnectionsOK'
      BY <1>1, <2>1, <2>2 DEF ConnectionsOK
    <2>4. NoneNew
      BY <1>1, <2>1, <2>2 DEF NoneNew, Attached
    <2>5. client' = None => \A w \in Viewers : Adopted = w => ~ Attached(w)'
      BY <1>1, <2>1, <2>2 DEF Attached
    <2> QED BY <2>1, <2>3, <2>4, <2>5 DEF Attached
  <1>4. CASE backlog # << >>
    <2>1. /\ Adopted = backlog[1] /\ Adopted \in Connections /\ 1 \in 1 .. Len(backlog)
          /\ Adopted \in Range(backlog)
      <3>1. 1 \in 1 .. Len(backlog) /\ Head(backlog) = backlog[1]
        BY <1>1, <1>4, EmptySeq
      <3> QED BY <1>1, <1>2, <1>4, <3>1, ElementOfSeq DEF Adopted
    <2>2. /\ backlog' \in Seq(Connections) /\ Len(backlog') = Len(backlog) - 1 /\ Len(backlog') <= setup.queue
          /\ \A i \in 1 .. Len(backlog') : backlog'[i] = backlog[i + 1] /\ i + 1 \in 1 .. Len(backlog)
      <3>1. /\ Tail(backlog) \in Seq(Connections) /\ Len(Tail(backlog)) = Len(backlog) - 1
            /\ \A i \in 1 .. Len(Tail(backlog)) : Tail(backlog)[i] = backlog[i + 1]
        BY <1>1, <1>4, HeadTailProperties
      <3> QED BY <1>1, <1>4, <3>1
    <2>3. \A c : c \in Range(backlog') <=> \E i \in 1 .. Len(backlog') : backlog'[i] = c
      <3>1. backlog' \in Seq(Connections)
        BY <2>2
      <3> QED BY <3>1, InRange
    <2>4. \A c : c \in Range(backlog') => c \in Range(backlog)
      BY <1>2, <2>2, <2>3
    <2>5. Adopted \in Viewers => Adopted \notin Range(backlog')
      <3> SUFFICES ASSUME Adopted \in Viewers, NEW i \in 1 .. Len(backlog'), backlog'[i] = Adopted PROVE FALSE
        BY <2>3
      <3>1. i + 1 \in 1 .. Len(backlog) /\ backlog[i + 1] = backlog[1] /\ i + 1 # 1
        BY <2>1, <2>2
      <3> QED BY <1>1, <2>1, <3>1
    <2>6. ASSUME NEW i \in 1 .. Len(backlog'), NEW j \in 1 .. Len(backlog'), backlog'[i] = backlog'[j], i # j
          PROVE  backlog'[i] = Gone
      <3>1. i + 1 # j + 1
        BY <2>6
      <3> QED BY <1>1, <2>2, <2>6, <3>1
    <2>7. Adopted \in Viewers \cup {Gone}
      BY <2>1 DEF Connections
    <2>8. ConnectionsOK'
      BY <1>1, <2>2, <2>5, <2>6, <2>7 DEF ConnectionsOK
    <2>9. NoneNew
      BY <1>1, <2>1, <2>4 DEF NoneNew, Attached
    <2>10. client' = None => \A w \in Viewers : Adopted = w => ~ Attached(w)'
      BY <1>1, <2>5 DEF Attached
    <2> QED BY <2>1, <2>8, <2>9, <2>10 DEF Attached
  <1> QED BY <1>3, <1>4

-----------------------------------------------------------------------------
(***************************************************************************)
(* What a step does to the stream of one viewer.                           *)
(***************************************************************************)
LEMMA OlderStill ==
  ASSUME setup.last \in Nat, NEW o \in BOOLEAN, NEW s \in Seq(Halves), NEW f \in Nat, NEW g \in Nat,
         o => f <= g, Older(o, s, f)
  PROVE  Older(o, s, g)
  <1> SUFFICES ASSUME o, NEW i \in 1 .. Len(s) PROVE s[i].frame < g
    BY DEF Older
  <1>1. s[i].frame \in Nat /\ s[i].frame < f
    <2>1. s[i] \in Halves
      BY ElementOfSeq
    <2> QED BY <2>1 DEF Older, Halves, Frames
  <1> QED BY <1>1

\* Nothing happens to v's stream, and perhaps the board gives v up.
LEMMA SightStays ==
  ASSUME TypeOK, NEW v \in Viewers, Sight(v), setup' = setup, frame' \in Nat, Ordered => frame <= frame',
         viewer'[v] = viewer[v], buf'[v] = buf[v], wire'[v] = wire[v], shown'[v] = shown[v],
         Attached(v)' => Attached(v)
  PROVE  Sight(v)'
  <1>1. Stream(v)' = Stream(v) /\ Ordered' = Ordered /\ Frames' = Frames
    BY DEF Stream, Ordered, Frames
  <1>2. Older(Ordered, Stream(v), frame')
    BY Facts, OlderStill DEF Sight
  <1>3. shown[v] # << >> /\ Ordered => shown[v][1].frame < frame'
    <2> SUFFICES ASSUME shown[v] # << >>, Ordered PROVE shown[v][1].frame < frame'
      OBVIOUS
    <2>1. shown[v] \in Seq(Halves) /\ 1 \in 1 .. Len(shown[v]) /\ shown[v][1] \in Halves
      <3>1. shown[v] \in Seq(Halves)
        BY Facts
      <3>2. 1 \in 1 .. Len(shown[v])
        BY <3>1, EmptySeq
      <3> QED BY <3>1, <3>2, ElementOfSeq
    <2>2. shown[v][1].frame \in Nat /\ shown[v][1].frame < frame
      BY <2>1, Facts DEF Halves, Frames, Sight
    <2> QED BY <2>2, Facts
  <1>4. (Attached(v) => viewer[v] = "open" /\ Ended(Stream(v)))' <=>
          (Attached(v)' => viewer'[v] = "open" /\ Ended(Stream(v)'))
    BY DEF Ended
  <1> QED BY <1>1, <1>2, <1>3, <1>4 DEF Sight, InLines, Follows, Older, Ended

\* v begins with nothing, or ends.
LEMMA SightEmpties ==
  ASSUME TypeOK, NEW v \in Viewers, Sight(v), UNCHANGED <<setup, frame>>,
         buf'[v] = << >>, wire'[v] = << >>, shown'[v] \in {shown[v], << >>},
         Attached(v)' => viewer'[v] = "open"
  PROVE  Sight(v)'
  <1>1. Stream(v)' = << >> /\ Ordered' = Ordered /\ Frames' = Frames
    BY DEF Stream, Ordered, Frames
  <1>2. InLines(Ordered, << >>) /\ Older(Ordered, << >>, frame) /\ Ended(<< >>)
    BY DEF InLines, Older, Ended
  <1> QED BY <1>1, <1>2 DEF Sight, InLines, Follows, Older, Ended

\* A frame's line is written to v's connection.
LEMMA SightGrows ==
  ASSUME TypeOK, NEW v \in Viewers, Sight(v), Attached(v), NumberLeft, setup' = setup,
         frame' = NextNumber, viewer'[v] = viewer[v], buf'[v] = buf[v], shown'[v] = shown[v],
         \/ wire'[v] = wire[v] \o Line(frame)
         \/ wire'[v] = Append(wire[v], FirstHalf(frame)) /\ ~ Attached(v)'
  PROVE  wire'[v] \in Seq(Halves) /\ Sight(v)'
  <1>1. /\ Ordered' = Ordered /\ Frames' = Frames /\ setup.last \in Nat /\ Ordered \in BOOLEAN
        /\ frame \in Frames /\ frame \in Nat
        /\ wire[v] \in Seq(Halves) /\ buf[v] \in Seq(Halves) /\ shown[v] \in Seq(Halves)
        /\ Stream(v) \in Seq(Halves)
    BY Facts DEF Ordered, Frames
  <1>2. viewer[v] = "open" /\ Ended(Stream(v)) /\ InLines(Ordered, Stream(v)) /\ Older(Ordered, Stream(v), frame)
    BY DEF Sight
  <1>3. frame' \in Nat /\ (Ordered => frame' = frame + 1)
    BY <1>1 DEF NumberLeft, NextNumber, Ordered
  <1>4. /\ Line(frame) \in Seq(Halves) /\ FirstHalf(frame) \in Halves /\ FirstHalf(frame).frame = frame
        /\ <<FirstHalf(frame)>> \in Seq(Halves)
    <2>1. Line(frame) \in Seq(Halves) /\ FirstHalf(frame) \in Halves /\ FirstHalf(frame).frame = frame
      BY <1>1, HalvesAreTyped
    <2> QED BY <2>1
  <1>5. /\ wire'[v] \in Seq(Halves)
        /\ \/ Stream(v)' = Stream(v) \o Line(frame)
           \/ Stream(v)' = Append(Stream(v), FirstHalf(frame)) /\ ~ Attached(v)'
    <2>0. \A s, t, u \in Seq(Halves) : (s \o t) \o u = s \o (t \o u)
      BY ConcatAssociative
    <2>1. CASE wire'[v] = wire[v] \o Line(frame)
      <3>1. wire'[v] \in Seq(Halves)
        BY <1>1, <1>4, <2>1, ConcatProperties
      <3>2. (buf[v] \o wire[v]) \o Line(frame) = buf[v] \o (wire[v] \o Line(frame))
        BY <1>1, <1>4, <2>0
      <3> QED BY <2>1, <3>1, <3>2 DEF Stream
    <2>2. CASE wire'[v] = Append(wire[v], FirstHalf(frame)) /\ ~ Attached(v)'
      <3>1. wire'[v] \in Seq(Halves)
        BY <1>1, <1>4, <2>2, AppendProperties
      <3>2. /\ Append(wire[v], FirstHalf(frame)) = wire[v] \o <<FirstHalf(frame)>>
            /\ Append(Stream(v), FirstHalf(frame)) = Stream(v) \o <<FirstHalf(frame)>>
        BY <1>1, <1>4, AppendIsConcat
      <3>3. (buf[v] \o wire[v]) \o <<FirstHalf(frame)>> = buf[v] \o (wire[v] \o <<FirstHalf(frame)>>)
        BY <1>1, <1>4, <2>0
      <3> QED BY <2>2, <3>1, <3>2, <3>3 DEF Stream
    <2> QED BY <2>1, <2>2
  <1>6. /\ InLines(Ordered, Stream(v)') /\ Older(Ordered, Stream(v)', frame + 1)
        /\ Attached(v)' => Ended(Stream(v)')
        /\ Stream(v)'[1] = IF Stream(v) = << >> THEN FirstHalf(frame) ELSE Stream(v)[1]
    <2>1. CASE Stream(v)' = Stream(v) \o Line(frame)
      <3>1. LET s == Stream(v) \o Line(frame)
            IN  /\ InLines(Ordered, s) /\ Ended(s) /\ Older(Ordered, s, frame + 1)
                /\ s[1] = IF Stream(v) = << >> THEN FirstHalf(frame) ELSE Stream(v)[1]
        BY <1>1, <1>2, LineJoins
      <3> QED BY <2>1, <3>1
    <2>2. CASE Stream(v)' = Append(Stream(v), FirstHalf(frame)) /\ ~ Attached(v)'
      BY <1>1, <1>2, <2>2, HalfJoins
    <2> QED BY <1>5, <2>1, <2>2
  <1>7. Older(Ordered, Stream(v)', frame')
    BY <1>3, <1>6 DEF Older
  <1>8. shown[v] # << >> /\ Ordered => shown[v][1].frame < frame' /\ shown[v][1].frame < Stream(v)'[1].frame
    <2> SUFFICES ASSUME shown[v] # << >>, Ordered
                 PROVE  shown[v][1].frame < frame' /\ shown[v][1].frame < Stream(v)'[1].frame
      OBVIOUS
    <2>1. 1 \in 1 .. Len(shown[v]) /\ shown[v][1] \in Halves
      <3>1. 1 \in 1 .. Len(shown[v])
        BY <1>1, EmptySeq
      <3> QED BY <1>1, <3>1, ElementOfSeq
    <2>2. shown[v][1].frame \in Nat /\ shown[v][1].frame < frame
      BY <2>1 DEF Halves, Frames, Sight
    <2>3. Stream(v) # << >> => shown[v][1].frame < Stream(v)[1].frame
      BY DEF Sight
    <2> QED BY <1>1, <1>3, <1>4, <1>6, <2>2, <2>3
  <1> QED BY <1>1, <1>2, <1>5, <1>6, <1>7, <1>8 DEF Sight, InLines, Follows, Older, Ended

-----------------------------------------------------------------------------
(***************************************************************************)
(* The steps.                                                              *)
(***************************************************************************)
TypeOfWires == wire \in [Viewers -> Seq(Halves)] /\ \A v \in Viewers : Len(wire[v]) <= setup.room

\* The types, from those of what a step may change.
LEMMA TypeParts ==
  ASSUME TypeOK, setup' = setup, ConnectionsOK', TypeOfWires',
         up' \in BOOLEAN, online' \in BOOLEAN, online' => up', frame' \in Frames,
         viewer' \in [Viewers -> {"off", "retry", "open"}], closed' \in [Viewers -> BOOLEAN],
         buf' \in [Viewers -> Seq(Halves)], shown' \in [Viewers -> Seq(Halves)],
         starts' \in 0 .. setup.starts
  PROVE  TypeOK'
  <1>1. Frames' = Frames /\ Halves' = Halves
    BY DEF Frames, Halves
  <1> QED BY <1>1 DEF TypeOK, ConnectionsOK, TypeOfWires, Connections

LEMMA PartsOfType ==
  ASSUME TypeOK
  PROVE  /\ ConnectionsOK /\ TypeOfWires /\ Frames \subseteq Nat
         /\ up \in BOOLEAN /\ online \in BOOLEAN /\ (online => up) /\ frame \in Frames
         /\ viewer \in [Viewers -> {"off", "retry", "open"}] /\ closed \in [Viewers -> BOOLEAN]
         /\ buf \in [Viewers -> Seq(Halves)] /\ shown \in [Viewers -> Seq(Halves)]
         /\ starts \in 0 .. setup.starts
  BY DEF TypeOK, ConnectionsOK, TypeOfWires, Connections, Frames

LEMMA SameSetup ==
  ASSUME setup' = setup
  PROVE  Frames' = Frames /\ Halves' = Halves /\ Ordered' = Ordered
  BY DEF Frames, Halves, Ordered

\* A frame that is written, in full or in part, or to nobody.
LEMMA FrameStep == IInv /\ SendFrame => IInv'
  <1> SUFFICES ASSUME IInv, SendFrame PROVE IInv'
    OBVIOUS
  <1>1. /\ TypeOK /\ setup' = setup /\ NumberLeft /\ frame' = NextNumber
        /\ UNCHANGED <<up, online, viewer, buf, shown, starts>>
        /\ \A v \in Viewers : Sight(v)
    BY DEF IInv, SendFrame, Tick
  <1>2. /\ client' \in {Adopted, None}
        /\ backlog' = IF backlog = << >> THEN << >> ELSE Tail(backlog)
        /\ closed' \in [Viewers -> BOOLEAN]
    BY DEF SendFrame, GardenFrame, RoverFrame, Accept
  <1>3. \/ wire' = wire
        \/ /\ Adopted \in Viewers /\ Len(wire[Adopted]) + 2 <= setup.room
           /\ wire' = [wire EXCEPT ![Adopted] = @ \o Line(frame)]
        \/ /\ Adopted \in Viewers /\ Len(wire[Adopted]) < setup.room /\ client' = None
           /\ wire' = [wire EXCEPT ![Adopted] = Append(@, FirstHalf(frame))]
    BY DEF SendFrame, GardenFrame, RoverFrame
  <1>4. /\ ConnectionsOK' /\ NoneNew
        /\ Adopted \in Viewers => Attached(Adopted)
        /\ client' = None => \A w \in Viewers : Adopted = w => ~ Attached(w)'
    BY <1>1, <1>2, AcceptMoves
  <1>5. frame' \in Frames /\ frame' \in Nat /\ (Ordered => frame <= frame')
    <2>1. setup.last \in Nat /\ frame \in Nat /\ frame <= setup.last
      BY <1>1, Facts DEF Frames
    <2> QED BY <1>1, <2>1 DEF NumberLeft, NextNumber, Ordered, Frames
  <1>6. wire \in [Viewers -> Seq(Halves)] /\ \A v \in Viewers : Len(wire[v]) <= setup.room
    BY <1>1, PartsOfType DEF TypeOfWires
  <1>7. ASSUME NEW v \in Viewers
        PROVE  wire'[v] \in Seq(Halves) /\ Len(wire'[v]) <= setup.room /\ Sight(v)'
    <2>1. CASE wire'[v] = wire[v]
      <3>1. Sight(v)'
        BY <1>1, <1>4, <1>5, <2>1, SightStays DEF NoneNew
      <3> QED BY <1>6, <2>1, <3>1
    <2>2. CASE /\ wire'[v] = wire[v] \o Line(frame) /\ v = Adopted
               /\ Len(wire[v]) + 2 <= setup.room
      <3>1. wire'[v] \in Seq(Halves) /\ Sight(v)'
        BY <1>1, <1>4, <2>2, SightGrows
      <3>2. Line(frame) \in Seq(Halves) /\ Len(Line(frame)) = 2
        BY <1>1, Facts, HalvesAreTyped
      <3>3. Len(wire'[v]) = Len(wire[v]) + Len(Line(frame))
        BY <1>6, <2>2, <3>2, ConcatProperties
      <3> QED BY <2>2, <3>1, <3>2, <3>3
    <2>3. CASE /\ wire'[v] = Append(wire[v], FirstHalf(frame)) /\ v = Adopted /\ client' = None
               /\ Len(wire[v]) < setup.room
      <3>1. wire'[v] \in Seq(Halves) /\ Sight(v)'
        BY <1>1, <1>4, <2>3, SightGrows
      <3>2. Len(wire'[v]) = Len(wire[v]) + 1 /\ Len(wire[v]) \in Nat /\ setup.room \in Nat
        <4>1. FirstHalf(frame) \in Halves
          BY <1>1, Facts, HalvesAreTyped
        <4> QED BY <1>1, <1>6, <2>3, <4>1, AppendProperties, Facts
      <3> QED BY <2>3, <3>1, <3>2
    <2> QED BY <1>3, <1>6, <2>1, <2>2, <2>3
  <1>8. TypeOfWires'
    <2>1. wire' \in [Viewers -> Seq(Halves)]
      <3>1. DOMAIN wire' = Viewers /\ wire' = [v \in Viewers |-> wire'[v]]
        BY <1>3, <1>6
      <3> QED BY <1>7, <3>1
    <2>2. setup' = setup /\ Halves' = Halves
      BY <1>1, SameSetup
    <2> QED BY <1>7, <2>1, <2>2 DEF TypeOfWires
  <1>9. TypeOK'
    BY <1>1, <1>2, <1>4, <1>5, <1>8, PartsOfType, TypeParts
  <1> QED BY <1>7, <1>9 DEF IInv

\* Steps that leave the streams alone: a frame that is too long, a reboot, the network.
LEMMA QuietStep ==
  IInv /\ (SkipFrame \/ Down \/ Boot \/ LoseWifi \/ Rejoin \/ UNCHANGED vars) => IInv'
  <1> SUFFICES ASSUME IInv, SkipFrame \/ Down \/ Boot \/ LoseWifi \/ Rejoin \/ UNCHANGED vars PROVE IInv'
    OBVIOUS
  <1>1. TypeOK /\ \A v \in Viewers : Sight(v)
    BY DEF IInv
  <1>2. UNCHANGED <<setup, viewer, wire, closed, buf, shown, starts>>
    BY DEF SkipFrame, GardenLongFrame, Tick, Down, Boot, LoseWifi, Rejoin, vars
  <1>3. up' \in BOOLEAN /\ online' \in BOOLEAN /\ (online' => up')
    <2>1. up \in BOOLEAN /\ online \in BOOLEAN /\ (online => up)
      BY <1>1, PartsOfType
    <2>2. CASE SkipFrame \/ UNCHANGED vars
      BY <2>1, <2>2 DEF SkipFrame, Tick, vars
    <2>3. CASE Down
      BY <2>3 DEF Down
    <2>4. CASE Boot
      BY <2>4 DEF Boot
    <2>5. CASE LoseWifi
      BY <2>1, <2>5 DEF LoseWifi
    <2>6. CASE Rejoin
      BY <2>1, <2>6 DEF Rejoin
    <2> QED BY <2>2, <2>3, <2>4, <2>5, <2>6
  <1>4. frame' \in Frames /\ frame' \in Nat /\ (Ordered => frame <= frame')
    <2>1. setup.last \in Nat /\ frame \in Nat /\ frame <= setup.last
      BY <1>1, Facts DEF Frames
    <2>2. frame' = frame \/ (NumberLeft /\ frame' = NextNumber)
      BY DEF SkipFrame, Tick, Down, Boot, LoseWifi, Rejoin, vars
    <2> QED BY <2>1, <2>2 DEF NumberLeft, NextNumber, Ordered, Frames
  <1>5. ConnectionsOK' /\ NoneNew
    <2>1. ConnectionsOK /\ Gone \notin Viewers /\ None \notin Viewers /\ setup.queue \in Nat
      BY <1>1, Facts, PartsOfType
    <2>2. CASE UNCHANGED <<client, backlog>>
      BY <1>2, <2>1, <2>2 DEF ConnectionsOK, NoneNew, Attached
    <2>3. CASE client' = None /\ backlog' = << >>
      <3>1. Range(backlog') = {}
        BY <2>3 DEF Range
      <3> QED BY <1>2, <2>1, <2>3, <3>1 DEF ConnectionsOK, NoneNew, Attached
    <2>4. CASE LoseWifi
      <3>1. client' \in {None, Gone}
        BY <2>1, <2>4 DEF LoseWifi, ConnectionsOK
      <3>2. /\ backlog' \in Seq(Connections) /\ Len(backlog') = Len(backlog)
            /\ \A i \in 1 .. Len(backlog) : backlog'[i] = Gone
        <4>1. DOMAIN backlog = 1 .. Len(backlog) /\ Len(backlog) \in Nat
          BY <2>1, LenProperties DEF ConnectionsOK
        <4>2. /\ backlog' \in [1 .. Len(backlog) -> Connections] /\ DOMAIN backlog' = 1 .. Len(backlog)
              /\ \A i \in 1 .. Len(backlog) : backlog'[i] = Gone
          BY <2>4, <4>1 DEF LoseWifi, Connections
        <4>3. backlog' \in Seq(Connections)
          BY <4>1, <4>2, SeqDef
        <4> QED BY <4>1, <4>2, <4>3, LenProperties
      <3>3. \A w \in Viewers : w \notin Range(backlog')
        BY <2>1, <3>2, InRange
      <3>4. NoneNew /\ ConnectionsOK'
        BY <1>2, <2>1, <3>1, <3>2, <3>3 DEF NoneNew, Attached, ConnectionsOK
      <3> QED BY <3>4
    <2> QED BY <2>2, <2>3, <2>4 DEF SkipFrame, GardenLongFrame, Tick, Down, Boot, Rejoin, vars
  <1>6. TypeOfWires'
    BY <1>1, <1>2, PartsOfType, SameSetup DEF TypeOfWires
  <1>7. TypeOK'
    BY <1>1, <1>2, <1>3, <1>4, <1>5, <1>6, PartsOfType, TypeParts
  <1>8. \A v \in Viewers : Sight(v)'
    BY <1>1, <1>2, <1>4, <1>5, SightStays DEF NoneNew
  <1> QED BY <1>7, <1>8 DEF IInv

\* A viewer is started.
LEMMA StartStep == IInv /\ (\E v \in Viewers : Start(v)) => IInv'
  <1> SUFFICES ASSUME IInv, NEW v \in Viewers, Start(v) PROVE IInv'
    OBVIOUS
  <1>1. TypeOK /\ \A w \in Viewers : Sight(w)
    BY DEF IInv
  <1>2. /\ UNCHANGED <<setup, up, online, frame, client, backlog, wire, closed, buf>>
        /\ viewer[v] = "off" /\ viewer' = [viewer EXCEPT ![v] = "retry"]
        /\ shown' = [shown EXCEPT ![v] = << >>]
        /\ starts < setup.starts /\ starts' = starts + 1
    BY DEF Start
  <1>3. ConnectionsOK' /\ TypeOfWires' /\ \A w \in Viewers : Attached(w)' <=> Attached(w)
    BY <1>1, <1>2, PartsOfType, SameSetup DEF ConnectionsOK, TypeOfWires, Attached
  <1>4. starts' \in 0 .. setup.starts
    BY <1>1, <1>2, PartsOfType, Facts
  <1>5. viewer' \in [Viewers -> {"off", "retry", "open"}] /\ shown' \in [Viewers -> Seq(Halves)]
    BY <1>1, <1>2, PartsOfType
  <1>6. TypeOK'
    BY <1>1, <1>2, <1>3, <1>4, <1>5, PartsOfType, TypeParts
  <1>7. ASSUME NEW w \in Viewers
        PROVE  Sight(w)'
    <2>1. CASE w = v
      <3>1. buf[v] = << >> /\ wire[v] = << >> /\ ~ Attached(v) /\ shown'[v] = << >>
        BY <1>1, <1>2, PartsOfType DEF Sight
      <3> QED BY <1>1, <1>2, <1>3, <2>1, <3>1, SightEmpties
    <2>2. CASE w # v
      <3>1. viewer'[w] = viewer[w] /\ shown'[w] = shown[w]
        BY <1>1, <1>2, <2>2, PartsOfType
      <3> QED BY <1>1, <1>2, <1>3, <3>1, SightStays, Facts
    <2> QED BY <2>1, <2>2
  <1> QED BY <1>6, <1>7 DEF IInv

\* A viewer is stopped, or gives its connection up: nothing of it is left.
LEMMA LeaveStep ==
  ASSUME IInv, NEW v \in Viewers, Quit(v) \/ Retry(v)
  PROVE  IInv'
  <1>1. TypeOK /\ \A w \in Viewers : Sight(w)
    BY DEF IInv
  <1>2. /\ UNCHANGED <<setup, up, online, frame, shown, starts>> /\ Abandoned(v)
        /\ viewer' = [viewer EXCEPT ![v] = "off"] \/ viewer' = [viewer EXCEPT ![v] = "retry"]
        /\ buf' = [buf EXCEPT ![v] = << >>]
        /\ wire' = [wire EXCEPT ![v] = << >>]
        /\ closed' = [closed EXCEPT ![v] = FALSE]
    BY DEF Quit, Retry
  <1>3. ConnectionsOK' /\ NoneNew /\ ~ Attached(v)'
    BY <1>1, <1>2, AbandonedMoves
  <1>4. /\ viewer' \in [Viewers -> {"off", "retry", "open"}] /\ buf' \in [Viewers -> Seq(Halves)]
        /\ closed' \in [Viewers -> BOOLEAN]
    <2>1. viewer' \in [Viewers -> {"off", "retry", "open"}]
      BY <1>1, <1>2, PartsOfType
    <2>2. << >> \in Seq(Halves)
      OBVIOUS
    <2>3. buf' \in [Viewers -> Seq(Halves)]
      BY <1>1, <1>2, <2>2, PartsOfType
    <2>4. closed' \in [Viewers -> BOOLEAN]
      BY <1>1, <1>2, PartsOfType
    <2> QED BY <2>1, <2>3, <2>4
  <1>5. TypeOfWires'
    BY <1>1, <1>2, PartsOfType, SameSetup, Facts DEF TypeOfWires
  <1>6. TypeOK'
    BY <1>1, <1>2, <1>3, <1>4, <1>5, PartsOfType, TypeParts
  <1>7. ASSUME NEW w \in Viewers
        PROVE  Sight(w)'
    <2>1. CASE w = v
      <3>1. buf'[v] = << >> /\ wire'[v] = << >>
        BY <1>1, <1>2, PartsOfType DEF TypeOfWires
      <3> QED BY <1>1, <1>2, <1>3, <2>1, <3>1, SightEmpties
    <2>2. CASE w # v
      <3>1. viewer'[w] = viewer[w] /\ buf'[w] = buf[w] /\ wire'[w] = wire[w]
        BY <1>1, <1>2, <2>2, PartsOfType DEF TypeOfWires
      <3> QED BY <1>1, <1>2, <1>3, <3>1, SightStays, Facts DEF NoneNew
    <2> QED BY <2>1, <2>2
  <1> QED BY <1>6, <1>7 DEF IInv

\* A viewer connects: what it had of the connection before is gone.
LEMMA ConnectStep == IInv /\ (\E v \in Viewers : Connect(v)) => IInv'
  <1> SUFFICES ASSUME IInv, NEW v \in Viewers, Connect(v) PROVE IInv'
    OBVIOUS
  <1>1. TypeOK /\ \A w \in Viewers : Sight(w)
    BY DEF IInv
  <1>2. /\ UNCHANGED <<setup, up, online, frame, client, wire, closed, buf, shown, starts>>
        /\ viewer[v] = "retry" /\ viewer' = [viewer EXCEPT ![v] = "open"]
        /\ Len(backlog) < setup.queue /\ backlog' = Append(backlog, v)
    BY DEF Connect
  <1>3. /\ buf[v] = << >> /\ wire[v] = << >> /\ client # v /\ v \notin Range(backlog)
    BY <1>1, <1>2 DEF Sight, Attached
  <1>4. /\ ConnectionsOK /\ backlog \in Seq(Connections) /\ Len(backlog) \in Nat /\ v \in Connections
        /\ setup.queue \in Nat
    BY <1>1, PartsOfType, Facts DEF ConnectionsOK, Connections
  <1>5. /\ backlog' \in Seq(Connections) /\ Len(backlog') = Len(backlog) + 1
        /\ \A i \in 1 .. Len(backlog) : backlog'[i] = backlog[i]
        /\ backlog'[Len(backlog) + 1] = v
    BY <1>2, <1>4, AppendProperties
  <1>6. /\ \A c : c \in Range(backlog) <=> \E i \in 1 .. Len(backlog) : backlog[i] = c
        /\ \A c : c \in Range(backlog') <=> \E i \in 1 .. Len(backlog') : backlog'[i] = c
    <2>1. backlog' \in Seq(Connections)
      BY <1>5
    <2> QED BY <1>4, <2>1, InRange
  <1>7. \A c : c \in Range(backlog') => c = v \/ c \in Range(backlog)
    <2> SUFFICES ASSUME NEW i \in 1 .. Len(backlog'), backlog'[i] # v
                 PROVE  backlog'[i] \in Range(backlog)
      BY <1>6
    <2>1. i \in 1 .. Len(backlog)
      BY <1>4, <1>5
    <2> QED BY <1>5, <1>6, <2>1
  <1>8. ASSUME NEW i \in 1 .. Len(backlog'), NEW j \in 1 .. Len(backlog'), backlog'[i] = backlog'[j], i # j
        PROVE  backlog'[i] = Gone
    <2>1. CASE i \in 1 .. Len(backlog) /\ j \in 1 .. Len(backlog)
      BY <1>4, <1>5, <1>8, <2>1 DEF ConnectionsOK
    <2>2. CASE i = Len(backlog) + 1 /\ j \in 1 .. Len(backlog)
      BY <1>3, <1>5, <1>6, <1>8, <2>2
    <2>3. CASE j = Len(backlog) + 1 /\ i \in 1 .. Len(backlog)
      BY <1>3, <1>5, <1>6, <1>8, <2>3
    <2> QED BY <1>4, <1>5, <1>8, <2>1, <2>2, <2>3
  <1>9. ConnectionsOK'
    <2>1. Len(backlog') <= setup.queue
      BY <1>2, <1>4, <1>5
    <2>2. client \in Viewers => client \notin Range(backlog')
      BY <1>3, <1>4, <1>7 DEF ConnectionsOK
    <2> QED BY <1>2, <1>4, <1>5, <1>8, <2>1, <2>2 DEF ConnectionsOK
  <1>10. TypeOK'
    <2>1. TypeOfWires' /\ viewer' \in [Viewers -> {"off", "retry", "open"}]
      BY <1>1, <1>2, PartsOfType, SameSetup DEF TypeOfWires
    <2> QED BY <1>1, <1>2, <1>9, <2>1, PartsOfType, TypeParts
  <1>11. ASSUME NEW w \in Viewers
         PROVE  Sight(w)'
    <2>1. CASE w = v
      <3>1. viewer'[v] = "open"
        BY <1>1, <1>2, PartsOfType
      <3> QED BY <1>1, <1>2, <1>3, <2>1, <3>1, SightEmpties
    <2>2. CASE w # v
      <3>1. viewer'[w] = viewer[w]
        BY <1>1, <1>2, <2>2, PartsOfType
      <3>2. Attached(w)' => Attached(w)
        BY <1>2, <1>7, <2>2 DEF Attached
      <3> QED BY <1>1, <1>2, <3>1, <3>2, SightStays, Facts
    <2> QED BY <2>1, <2>2
  <1> QED BY <1>10, <1>11 DEF IInv

\* A part of what was written is received: the stream is what it was.
LEMMA RecvStep == IInv /\ (\E v \in Viewers : Recv(v)) => IInv'
  <1> SUFFICES ASSUME IInv, NEW v \in Viewers, Recv(v) PROVE IInv'
    OBVIOUS
  <1>1. TypeOK /\ \A w \in Viewers : Sight(w)
    BY DEF IInv
  <1>2. PICK n \in 1 .. Len(wire[v]) :
          /\ buf' = [buf EXCEPT ![v] = @ \o SubSeq(wire[v], 1, n)]
          /\ wire' = [wire EXCEPT ![v] = SubSeq(@, n + 1, Len(@))]
    BY DEF Recv
  <1>3. /\ UNCHANGED <<setup, up, online, frame, client, backlog, viewer, closed, shown, starts>>
        /\ viewer[v] = "open"
    BY DEF Recv
  <1>4. /\ wire \in [Viewers -> Seq(Halves)] /\ buf \in [Viewers -> Seq(Halves)]
        /\ wire[v] \in Seq(Halves) /\ buf[v] \in Seq(Halves) /\ Len(wire[v]) \in Nat
        /\ Len(wire[v]) <= setup.room /\ setup.room \in Nat
    BY <1>1, PartsOfType, Facts DEF TypeOfWires
  <1> DEFINE came == SubSeq(wire[v], 1, n)  rest == SubSeq(wire[v], n + 1, Len(wire[v]))
  <1>5. /\ came \in Seq(Halves) /\ rest \in Seq(Halves) /\ Len(rest) <= Len(wire[v])
        /\ came \o rest = wire[v]
    <2>1. \A i \in 1 .. Len(wire[v]) : wire[v][i] \in Halves
      BY <1>4, ElementOfSeq
    <2>2. came \in Seq(Halves)
      BY <1>4, <2>1, SubSeqProperties
    <2>3. /\ rest \in Seq(Halves)
          /\ Len(rest) = IF n + 1 <= Len(wire[v]) THEN Len(wire[v]) - (n + 1) + 1 ELSE 0
      <3>1. \A i \in n + 1 .. Len(wire[v]) : wire[v][i] \in Halves
        BY <1>4, <2>1
      <3> QED BY <1>4, <3>1, SubSeqProperties
    <2>4. came \o rest = SubSeq(wire[v], 1, Len(wire[v]))
      BY <1>4, ConcatAdjacentSubSeq
    <2>5. SubSeq(wire[v], 1, Len(wire[v])) = wire[v]
      BY <1>4, SubSeqFull
    <2> HIDE DEF came, rest
    <2>6. Len(rest) <= Len(wire[v])
      BY <1>4, <2>3
    <2> QED BY <2>2, <2>3, <2>4, <2>5, <2>6
  <1>6. buf'[v] = buf[v] \o came /\ wire'[v] = rest
    BY <1>2, <1>4
  <1>7. \A w \in Viewers \ {v} : buf'[w] = buf[w] /\ wire'[w] = wire[w]
    BY <1>2, <1>4
  <1>8. buf[v] \o came \in Seq(Halves)
    <2> HIDE DEF came
    <2> QED BY <1>4, <1>5, ConcatProperties
  <1> HIDE DEF came, rest
  <1>9. Stream(v)' = Stream(v)
    <2>1. (buf[v] \o came) \o rest = buf[v] \o (came \o rest)
      <3>1. \A s, t, u \in Seq(Halves) : (s \o t) \o u = s \o (t \o u)
        BY ConcatAssociative
      <3> QED BY <1>4, <1>5, <3>1
    <2> QED BY <1>5, <1>6, <2>1 DEF Stream
  <1>10. buf' \in [Viewers -> Seq(Halves)] /\ TypeOfWires'
    <2>1. buf' = [w \in Viewers |-> buf'[w]] /\ wire' = [w \in Viewers |-> wire'[w]]
      BY <1>2, <1>4
    <2>2. \A w \in Viewers : /\ buf'[w] \in Seq(Halves) /\ wire'[w] \in Seq(Halves)
                             /\ Len(wire'[w]) <= setup.room
      <3> SUFFICES ASSUME NEW w \in Viewers
                   PROVE  /\ buf'[w] \in Seq(Halves) /\ wire'[w] \in Seq(Halves)
                          /\ Len(wire'[w]) <= setup.room
        OBVIOUS
      <3>1. CASE w = v
        <4>1. Len(rest) \in Nat
          BY <1>5
        <4>2. Len(rest) <= setup.room
          BY <1>4, <1>5, <4>1
        <4> QED BY <1>5, <1>6, <1>8, <3>1, <4>2
      <3>2. CASE w # v
        BY <1>1, <1>4, <1>7, <3>2, PartsOfType DEF TypeOfWires
      <3> QED BY <3>1, <3>2
    <2>3. setup' = setup /\ Halves' = Halves
      BY <1>3, SameSetup
    <2> QED BY <2>1, <2>2, <2>3 DEF TypeOfWires
  <1>11. ConnectionsOK' /\ \A w \in Viewers : Attached(w)' <=> Attached(w)
    BY <1>1, <1>3, PartsOfType DEF ConnectionsOK, Attached
  <1>12. TypeOK'
    BY <1>1, <1>3, <1>10, <1>11, PartsOfType, TypeParts
  <1>13. ASSUME NEW w \in Viewers
         PROVE  Sight(w)'
    <2>1. CASE w = v
      <3>1. /\ (Attached(v) => viewer[v] = "open" /\ Ended(Stream(v))) /\ viewer[v] = "open"
            /\ Ordered' = Ordered /\ Frames' = Frames
        BY <1>1, <1>3, SameSetup DEF Sight
      <3>2. /\ InLines(Ordered, Stream(v)') /\ Older(Ordered, Stream(v)', frame)
            /\ Attached(v)' => Ended(Stream(v)')
        BY <1>1, <1>9, <1>11, <3>1 DEF Sight
      <3> QED BY <1>1, <1>3, <1>9, <2>1, <3>1, <3>2 DEF Sight, InLines, Older, Ended, Follows
    <2>2. CASE w # v
      BY <1>1, <1>3, <1>7, <1>11, <2>2, SightStays, Facts
    <2> QED BY <2>1, <2>2
  <1> QED BY <1>12, <1>13 DEF IInv

\* The network cuts a connection: of the stream, a prefix is left.
LEMMA CutStep == IInv /\ (\E v \in Viewers : Cut(v)) => IInv'
  <1> SUFFICES ASSUME IInv, NEW v \in Viewers, Cut(v) PROVE IInv'
    OBVIOUS
  <1>1. TypeOK /\ \A w \in Viewers : Sight(w)
    BY DEF IInv
  <1>2. PICK n \in 0 .. Len(wire[v]) : wire' = [wire EXCEPT ![v] = SubSeq(@, 1, n)]
    BY DEF Cut
  <1>3. /\ UNCHANGED <<setup, up, online, frame, viewer, buf, shown, starts>>
        /\ Attached(v) /\ Abandoned(v)
        /\ \E told \in BOOLEAN : closed' = [closed EXCEPT ![v] = told]
    BY DEF Cut
  <1>4. /\ wire \in [Viewers -> Seq(Halves)] /\ wire[v] \in Seq(Halves) /\ buf[v] \in Seq(Halves)
        /\ Len(wire[v]) \in Nat /\ Len(buf[v]) \in Nat /\ Stream(v) \in Seq(Halves)
        /\ Len(wire[v]) <= setup.room /\ setup.room \in Nat
    BY <1>1, PartsOfType, Facts DEF TypeOfWires
  <1>5. /\ wire'[v] \in Seq(Halves) /\ Len(wire'[v]) = n /\ n \in Nat
        /\ \A i \in 1 .. n : wire'[v][i] = wire[v][i]
    <2>1. \A i \in 1 .. n : wire[v][i] \in Halves
      BY <1>4, ElementOfSeq
    <2>2. /\ SubSeq(wire[v], 1, n) \in Seq(Halves)
          /\ Len(SubSeq(wire[v], 1, n)) = IF 1 <= n THEN n - 1 + 1 ELSE 0
          /\ \A i \in 1 .. n - 1 + 1 : SubSeq(wire[v], 1, n)[i] = wire[v][1 + i - 1]
      BY <1>4, <2>1, SubSeqProperties
    <2>3. wire'[v] = SubSeq(wire[v], 1, n)
      BY <1>2, <1>4
    <2> QED BY <1>4, <2>2, <2>3
  <1>6. \A w \in Viewers \ {v} : wire'[w] = wire[w]
    BY <1>2, <1>4
  <1>7. /\ Stream(v)' \in Seq(Halves) /\ Len(Stream(v)') <= Len(Stream(v))
        /\ \A i \in 1 .. Len(Stream(v)') : Stream(v)'[i] = Stream(v)[i]
    <2>1. Stream(v)' = buf[v] \o wire'[v]
      BY <1>3 DEF Stream
    <2>2. /\ Stream(v)' \in Seq(Halves) /\ Len(Stream(v)') = Len(buf[v]) + Len(wire'[v])
          /\ \A i \in 1 .. Len(buf[v]) + Len(wire'[v]) :
               Stream(v)'[i] = IF i <= Len(buf[v]) THEN buf[v][i] ELSE wire'[v][i - Len(buf[v])]
      <3>1. \A t \in Seq(Halves) :
              /\ buf[v] \o t \in Seq(Halves) /\ Len(buf[v] \o t) = Len(buf[v]) + Len(t)
              /\ \A i \in 1 .. Len(buf[v]) + Len(t) :
                   (buf[v] \o t)[i] = IF i <= Len(buf[v]) THEN buf[v][i] ELSE t[i - Len(buf[v])]
        BY <1>4, ConcatProperties
      <3> QED BY <1>5, <2>1, <3>1
    <2>3. /\ Len(Stream(v)) = Len(buf[v]) + Len(wire[v])
          /\ \A i \in 1 .. Len(buf[v]) + Len(wire[v]) :
               Stream(v)[i] = IF i <= Len(buf[v]) THEN buf[v][i] ELSE wire[v][i - Len(buf[v])]
      BY <1>1, Facts
    <2>4. ASSUME NEW i \in 1 .. Len(Stream(v)')
          PROVE  Stream(v)'[i] = Stream(v)[i]
      <3>1. i \in 1 .. Len(buf[v]) + Len(wire'[v]) /\ i \in 1 .. Len(buf[v]) + Len(wire[v])
        BY <1>4, <1>5, <2>2
      <3>2. CASE i <= Len(buf[v])
        BY <2>2, <2>3, <3>1, <3>2
      <3>3. CASE ~ i <= Len(buf[v])
        <4>1. i - Len(buf[v]) \in 1 .. n
          BY <1>4, <1>5, <3>1, <3>3
        <4> QED BY <1>5, <2>2, <2>3, <3>1, <3>3, <4>1
      <3> QED BY <3>2, <3>3
    <2> QED BY <1>4, <1>5, <2>2, <2>3, <2>4
  <1>8. ConnectionsOK' /\ NoneNew /\ ~ Attached(v)'
    BY <1>1, <1>3, AbandonedMoves
  <1>9. TypeOK'
    <2>1. closed' \in [Viewers -> BOOLEAN]
      BY <1>1, <1>3, PartsOfType
    <2>2. \A w \in Viewers : wire'[w] \in Seq(Halves) /\ Len(wire'[w]) <= setup.room
      <3> SUFFICES ASSUME NEW w \in Viewers PROVE wire'[w] \in Seq(Halves) /\ Len(wire'[w]) <= setup.room
        OBVIOUS
      <3>1. CASE w = v
        BY <1>4, <1>5, <3>1
      <3>2. CASE w # v
        BY <1>1, <1>6, <3>2, PartsOfType DEF TypeOfWires
      <3> QED BY <3>1, <3>2
    <2>3. wire' = [w \in Viewers |-> wire'[w]]
      BY <1>2, <1>4
    <2>4. TypeOfWires'
      BY <1>3, <2>2, <2>3, SameSetup DEF TypeOfWires
    <2> QED BY <1>1, <1>3, <1>8, <2>1, <2>4, PartsOfType, TypeParts
  <1>10. ASSUME NEW w \in Viewers
         PROVE  Sight(w)'
    <2>1. CASE w = v
      <3>1. /\ Ordered' = Ordered /\ Frames' = Frames /\ Ordered \in BOOLEAN /\ viewer[v] = "open"
            /\ InLines(Ordered, Stream(v)) /\ Older(Ordered, Stream(v), frame)
        BY <1>1, <1>3, SameSetup, Facts DEF Sight
      <3>2. /\ InLines(Ordered, Stream(v)') /\ Older(Ordered, Stream(v)', frame)
            /\ Stream(v)' # << >> => Stream(v) # << >> /\ Stream(v)'[1] = Stream(v)[1]
        BY <1>4, <1>7, <3>1, PrefixOfLines
      <3> QED BY <1>1, <1>3, <1>8, <2>1, <3>1, <3>2 DEF Sight, InLines, Older, Ended, Follows
    <2>2. CASE w # v
      BY <1>1, <1>3, <1>6, <1>8, <2>2, SightStays, Facts DEF NoneNew
    <2> QED BY <2>1, <2>2
  <1> QED BY <1>9, <1>10 DEF IInv

\* The line that is yielded is the first of the stream, and the stream goes on after it.
LEMMA YieldIsFirst ==
  ASSUME IInv, NEW v \in Viewers, Yield(v)
  PROVE  /\ Stream(v) # << >> /\ Stream(v)[1].frame \in Frames
         /\ shown'[v] = Line(Stream(v)[1].frame)
         /\ buf'[v] \in Seq(Halves)
         /\ Stream(v)' \in Seq(Halves) /\ Len(Stream(v)) = Len(Stream(v)') + 2
         /\ \A i \in 1 .. Len(Stream(v)') : Stream(v)'[i] = Stream(v)[i + 2]
         /\ \A w \in Viewers \ {v} : shown'[w] = shown[w] /\ buf'[w] = buf[w]
  <1> DEFINE b == buf[v]  s == Stream(v)
  <1>1. TypeOK /\ Sight(v)
    BY DEF IInv
  <1>2. /\ buf \in [Viewers -> Seq(Halves)] /\ shown \in [Viewers -> Seq(Halves)]
        /\ b \in Seq(Halves) /\ wire[v] \in Seq(Halves) /\ Len(b) \in Nat /\ Len(wire[v]) \in Nat
        /\ s \in Seq(Halves) /\ Len(s) = Len(b) + Len(wire[v])
        /\ \A i \in 1 .. Len(b) + Len(wire[v]) : s[i] = IF i <= Len(b) THEN b[i] ELSE wire[v][i - Len(b)]
    BY <1>1, Facts, PartsOfType
  <1>3. InLines(Ordered, s)
    BY <1>1 DEF Sight
  <1> HIDE DEF s
  <1>4. /\ Len(b) >= 2 /\ b[1] = s[1] /\ b[2] = s[2] /\ s # << >>
        /\ b[1].part = "head" /\ b[2] = LastHalf(b[1].frame) /\ b[1] \in Halves
    <2>1. PICK i \in 1 .. Len(b) : b[i].part = "tail"
      BY DEF Yield, HasLine
    <2>2. /\ 1 \in 1 .. Len(b) /\ 1 \in 1 .. Len(b) + Len(wire[v])
          /\ 1 <= Len(b) /\ s # << >>
      BY <1>2, <2>1, EmptySeq
    <2>3. b[1] = s[1] /\ s[1].part = "head" /\ b[1] \in Halves
      BY <1>2, <1>3, <2>2, ElementOfSeq DEF InLines
    <2>4. i # 1 /\ Len(b) >= 2
      BY <1>2, <2>1, <2>3
    <2>5. b[2] = s[2] /\ 1 \in 1 .. Len(s) - 1
      BY <1>2, <2>4
    <2>6. Follows(Ordered, s[1], s[1 + 1])
      BY <1>3, <2>5 DEF InLines
    <2> QED BY <2>2, <2>3, <2>4, <2>5, <2>6 DEF Follows
  <1> DEFINE First(i) == b[i].part = "tail" /\ \A j \in 1 .. i - 1 : b[j].part # "tail"
             end == CHOOSE i \in 1 .. Len(b) : First(i)
  <1>5. end = 2
    <2>1. b[2].part = "tail" /\ b[1].part # "tail"
      BY <1>4 DEF LastHalf
    <2>2. 2 \in 1 .. Len(b) /\ First(2)
      BY <1>2, <1>4, <2>1
    <2>3. \A i \in 1 .. Len(b) : First(i) => i = 2
      <3> SUFFICES ASSUME NEW i \in 1 .. Len(b), First(i) PROVE i = 2
        OBVIOUS
      <3>1. i # 1
        BY <2>1
      <3>2. i > 2 => 2 \in 1 .. i - 1
        OBVIOUS
      <3> QED BY <2>1, <3>1, <3>2
    <2> HIDE DEF First
    <2> QED BY <2>2, <2>3
  <1>6. /\ shown' = [shown EXCEPT ![v] = SubSeq(b, 1, 2)]
        /\ buf' = [buf EXCEPT ![v] = SubSeq(@, 3, Len(@))]
        /\ wire' = wire
    <2>1. /\ shown' = [shown EXCEPT ![v] = SubSeq(b, 1, end)]
          /\ buf' = [buf EXCEPT ![v] = SubSeq(@, end + 1, Len(@))]
          /\ wire' = wire
      BY DEF Yield
    <2> HIDE DEF end
    <2> QED BY <1>5, <2>1
  <1>7. shown'[v] = Line(s[1].frame) /\ s[1].frame \in Frames
    <2>1. shown'[v] = SubSeq(b, 1, 2)
      BY <1>2, <1>6
    <2>2. SubSeq(b, 1, 2) = <<b[1], b[2]>>
      <3>1. \A i \in 1 .. 2 : b[i] \in Halves
        BY <1>2, <1>4, ElementOfSeq
      <3>2. /\ SubSeq(b, 1, 2) \in Seq(Halves) /\ Len(SubSeq(b, 1, 2)) = 2
            /\ \A i \in 1 .. 2 : SubSeq(b, 1, 2)[i] = b[i]
        BY <3>1, SubSeqProperties
      <3>3. /\ <<b[1], b[2]>> \in Seq(Halves) /\ Len(<<b[1], b[2]>>) = 2
            /\ <<b[1], b[2]>>[1] = b[1] /\ <<b[1], b[2]>>[2] = b[2]
        BY <3>1
      <3> HIDE DEF b
      <3>4. \A i \in 1 .. 2 : SubSeq(b, 1, 2)[i] = <<b[1], b[2]>>[i]
        BY <3>2, <3>3
      <3> QED BY <3>2, <3>3, <3>4, SeqEqual
    <2>3. b[1] = FirstHalf(b[1].frame) /\ b[1].frame \in Frames
      BY <1>4 DEF Halves, FirstHalf
    <2> QED BY <1>4, <2>1, <2>2, <2>3 DEF Line
  <1>8. /\ buf'[v] \in Seq(Halves) /\ Len(buf'[v]) = Len(b) - 2
        /\ \A i \in 1 .. Len(b) - 2 : buf'[v][i] = b[i + 2]
    <2>1. \A i \in 3 .. Len(b) : b[i] \in Halves
      BY <1>2, ElementOfSeq
    <2>2. /\ SubSeq(b, 3, Len(b)) \in Seq(Halves)
          /\ Len(SubSeq(b, 3, Len(b))) = IF 3 <= Len(b) THEN Len(b) - 3 + 1 ELSE 0
          /\ \A i \in 1 .. Len(b) - 3 + 1 : SubSeq(b, 3, Len(b))[i] = b[3 + i - 1]
      BY <1>2, <2>1, SubSeqProperties
    <2>3. buf'[v] = SubSeq(b, 3, Len(b))
      BY <1>2, <1>6
    <2>4. Len(buf'[v]) = Len(b) - 2
      <3>1. Len(b) \in Nat /\ Len(b) >= 2
        BY <1>2, <1>4
      <3>2. Len(buf'[v]) = IF 3 <= Len(b) THEN Len(b) - 3 + 1 ELSE 0
        BY <2>2, <2>3
      <3>3. \A m \in Nat : m >= 2 => (IF 3 <= m THEN m - 3 + 1 ELSE 0) = m - 2
        OBVIOUS
      <3> QED BY <3>1, <3>2, <3>3
    <2>5. ASSUME NEW i \in 1 .. Len(b) - 2
          PROVE  buf'[v][i] = b[i + 2]
      <3>1. i \in 1 .. Len(b) - 3 + 1 /\ 3 + i - 1 = i + 2
        BY <1>2
      <3> QED BY <2>2, <2>3, <3>1
    <2> QED BY <2>2, <2>3, <2>4, <2>5
  <1>9. /\ Stream(v)' \in Seq(Halves) /\ Len(Stream(v)') = Len(s) - 2
        /\ \A i \in 1 .. Len(Stream(v)') : Stream(v)'[i] = s[i + 2]
    <2>1. Stream(v)' = buf'[v] \o wire[v]
      BY <1>6 DEF Stream
    <2>2. /\ Stream(v)' \in Seq(Halves) /\ Len(Stream(v)') = Len(buf'[v]) + Len(wire[v])
          /\ \A i \in 1 .. Len(buf'[v]) + Len(wire[v]) :
               Stream(v)'[i] = IF i <= Len(buf'[v]) THEN buf'[v][i] ELSE wire[v][i - Len(buf'[v])]
      <3>1. \A c \in Seq(Halves) :
              /\ c \o wire[v] \in Seq(Halves) /\ Len(c \o wire[v]) = Len(c) + Len(wire[v])
              /\ \A i \in 1 .. Len(c) + Len(wire[v]) :
                   (c \o wire[v])[i] = IF i <= Len(c) THEN c[i] ELSE wire[v][i - Len(c)]
        BY <1>2, ConcatProperties
      <3> QED BY <1>8, <2>1, <3>1
    <2>3. ASSUME NEW i \in 1 .. Len(Stream(v)')
          PROVE  Stream(v)'[i] = s[i + 2]
      <3>1. /\ i \in 1 .. Len(buf'[v]) + Len(wire[v]) /\ i + 2 \in 1 .. Len(b) + Len(wire[v])
            /\ i + 2 - Len(b) = i - Len(buf'[v])
        BY <1>2, <1>4, <1>8, <2>2
      <3>2. CASE i <= Len(buf'[v])
        <4>1. i \in 1 .. Len(b) - 2 /\ i + 2 <= Len(b)
          BY <1>2, <1>8, <3>2
        <4> QED BY <1>2, <1>8, <2>2, <3>1, <3>2, <4>1
      <3>3. CASE ~ i <= Len(buf'[v])
        <4>1. ~ i + 2 <= Len(b)
          BY <1>2, <1>8, <3>3
        <4>2. Stream(v)'[i] = wire[v][i - Len(buf'[v])]
          BY <2>2, <3>1, <3>3
        <4>3. s[i + 2] = wire[v][i + 2 - Len(b)]
          BY <1>2, <3>1, <4>1
        <4> QED BY <3>1, <4>2, <4>3
      <3> QED BY <3>2, <3>3
    <2>4. Len(Stream(v)') = Len(s) - 2
      BY <1>2, <1>8, <2>2
    <2> QED BY <2>2, <2>3, <2>4
  <1>10. \A w \in Viewers \ {v} : shown'[w] = shown[w] /\ buf'[w] = buf[w]
    BY <1>2, <1>6
  <1>11. Len(s) = Len(Stream(v)') + 2
    BY <1>2, <1>9
  <1> QED BY <1>4, <1>7, <1>8, <1>9, <1>10, <1>11 DEF s

LEMMA YieldStep == IInv /\ (\E v \in Viewers : Yield(v)) => IInv'
  <1> SUFFICES ASSUME IInv, NEW v \in Viewers, Yield(v) PROVE IInv'
    OBVIOUS
  <1>1. TypeOK /\ \A w \in Viewers : Sight(w)
    BY DEF IInv
  <1>2. /\ UNCHANGED <<setup, up, online, frame, client, backlog, viewer, wire, closed, starts>>
        /\ DOMAIN shown' = DOMAIN shown /\ DOMAIN buf' = DOMAIN buf
        /\ shown' = [w \in DOMAIN shown |-> shown'[w]] /\ buf' = [w \in DOMAIN buf |-> buf'[w]]
    <2>1. shown \in [Viewers -> Seq(Halves)] /\ buf \in [Viewers -> Seq(Halves)]
      BY <1>1, PartsOfType
    <2>2. /\ \E e : shown' = [shown EXCEPT ![v] = e]
          /\ \E e : buf' = [buf EXCEPT ![v] = e]
          /\ UNCHANGED <<setup, up, online, frame, client, backlog, viewer, wire, closed, starts>>
      BY DEF Yield
    <2> QED BY <2>1, <2>2
  <1> DEFINE s == Stream(v)  t == Stream(v)'  f == s[1].frame
  <1>3. /\ s # << >> /\ f \in Frames /\ shown'[v] = Line(f) /\ buf'[v] \in Seq(Halves)
        /\ t \in Seq(Halves) /\ Len(s) = Len(t) + 2
        /\ \A i \in 1 .. Len(t) : t[i] = s[i + 2]
        /\ \A w \in Viewers \ {v} : shown'[w] = shown[w] /\ buf'[w] = buf[w]
    BY YieldIsFirst
  <1>4. /\ s \in Seq(Halves) /\ setup.last \in Nat /\ Ordered \in BOOLEAN
        /\ InLines(Ordered, s) /\ Older(Ordered, s, frame) /\ (Attached(v) => viewer[v] = "open" /\ Ended(s))
        /\ Ordered' = Ordered /\ Frames' = Frames /\ Halves' = Halves
    BY <1>1, <1>2, Facts, SameSetup DEF Sight
  <1> HIDE DEF s, t, f
  <1>5. /\ InLines(Ordered, t) /\ Older(Ordered, t, frame)
        /\ Ordered => f < frame
        /\ Ordered /\ t # << >> => f < t[1].frame
    BY <1>3, <1>4, LineLeaves DEF f
  <1>6. Ended(s) => Ended(t)
    <2> SUFFICES ASSUME Ended(s), t # << >> PROVE t[Len(t)].part = "tail"
      BY DEF Ended
    <2>1. Len(t) \in 1 .. Len(t) /\ Len(s) = Len(t) + 2
      BY <1>3, EmptySeq
    <2> QED BY <1>3, <2>1 DEF Ended
  <1>7. Line(f) \in Seq(Halves) /\ Line(f)[1].frame = f
    BY <1>3, <1>4, HalvesAreTyped
  <1>8. ConnectionsOK' /\ TypeOfWires' /\ \A w \in Viewers : Attached(w)' <=> Attached(w)
    BY <1>1, <1>2, <1>4, PartsOfType DEF ConnectionsOK, TypeOfWires, Attached
  <1>9. TypeOK'
    <2>1. shown' \in [Viewers -> Seq(Halves)] /\ buf' \in [Viewers -> Seq(Halves)]
      <3>1. shown \in [Viewers -> Seq(Halves)] /\ buf \in [Viewers -> Seq(Halves)]
        BY <1>1, PartsOfType
      <3> QED BY <1>2, <1>3, <1>7, <3>1
    <2> QED BY <1>1, <1>2, <1>8, <2>1, PartsOfType, TypeParts
  <1>10. ASSUME NEW w \in Viewers
         PROVE  Sight(w)'
    <2>1. CASE w = v
      <3>1. viewer[v] = "open"
        <4>1. buf[v] # << >>
          BY DEF Yield, HasLine
        <4> QED BY <1>1, <4>1 DEF Sight
      <3>2. Attached(v)' => Ended(t)
        BY <1>4, <1>6, <1>8
      <3>3. /\ \E g \in Frames : shown'[v] = Line(g)
            /\ shown'[v][1].frame = f
        BY <1>3, <1>7
      <3> QED BY <1>2, <1>4, <1>5, <2>1, <3>1, <3>2, <3>3 DEF Sight, InLines, Older, Ended, Follows, t
    <2>2. CASE w # v
      BY <1>1, <1>2, <1>3, <1>8, <2>2, SightStays, Facts
    <2> QED BY <2>1, <2>2
  <1> QED BY <1>9, <1>10 DEF IInv

LEMMA Step == IInv /\ [Next]_vars => IInv'
  <1> SUFFICES ASSUME IInv, [Next]_vars PROVE IInv'
    OBVIOUS
  <1>1. CASE SendFrame
    BY <1>1, FrameStep
  <1>2. CASE SkipFrame \/ Down \/ Boot \/ LoseWifi \/ Rejoin \/ UNCHANGED vars
    BY <1>2, QuietStep
  <1>3. ASSUME NEW v \in Viewers, Start(v) PROVE IInv'
    BY <1>3, StartStep
  <1>4. ASSUME NEW v \in Viewers, Quit(v) \/ RecvEnd(v) \/ TimeoutLost(v) \/ TimeoutWaiting(v) PROVE IInv'
    BY <1>4, LeaveStep DEF RecvEnd, TimeoutLost, TimeoutWaiting
  <1>5. ASSUME NEW v \in Viewers, Connect(v) PROVE IInv'
    BY <1>5, ConnectStep
  <1>6. ASSUME NEW v \in Viewers, Recv(v) PROVE IInv'
    BY <1>6, RecvStep
  <1>7. ASSUME NEW v \in Viewers, Yield(v) PROVE IInv'
    BY <1>7, YieldStep
  <1>8. ASSUME NEW v \in Viewers, Cut(v) PROVE IInv'
    BY <1>8, CutStep
  <1> QED BY <1>1, <1>2, <1>3, <1>4, <1>5, <1>6, <1>7, <1>8 DEF Next

LEMMA Invariance == Spec => []IInv
  BY InitInv, Step, PTL DEF Spec

-----------------------------------------------------------------------------
\* The board holds at most one connection of a viewer, in its hand or in the listener's
\* queue, and a connection holds no more than there is room for (telemetry.cpp:17-22, 84-97).
THEOREM TypeCorrect == Spec => []TypeOK
  <1>1. IInv => TypeOK
    BY DEF IInv
  <1> QED BY <1>1, Invariance, PTL

\* No line is put together from two connections, however streams are cut (sources.py:158-189).
THEOREM OnlyWholeLines == Spec => []LinesAreWhole
  <1>1. IInv => LinesAreWhole
    BY DEF IInv, Sight, LinesAreWhole
  <1> QED BY <1>1, Invariance, PTL

\* A live view never goes back to an older frame, across reconnections, take-overs by
\* other viewers and reboots (sources.py:155-189).
THEOREM NeverGoesBack == Spec => FramesInOrder
  <1> DEFINE Newer == ~ setup.wraps => \A v \in Viewers :
       shown[v] # << >> /\ shown'[v] # << >> /\ shown'[v] # shown[v] =>
         shown'[v][1].frame > shown[v][1].frame
  <1>1. IInv /\ [Next]_vars => [Newer]_vars
    <2> SUFFICES ASSUME IInv, Next, ~ setup.wraps, NEW v \in Viewers,
                        shown[v] # << >>, shown'[v] # << >>, shown'[v] # shown[v]
                 PROVE  shown'[v][1].frame > shown[v][1].frame
      OBVIOUS
    <2>1. TypeOK /\ Sight(v) /\ Ordered
      BY DEF IInv, Ordered
    <2>2. \E w \in Viewers : Start(w) \/ Yield(w)
      BY DEF Next, SendFrame, SkipFrame, Tick, Down, Boot, LoseWifi, Rejoin, Quit, Connect, Recv,
             RecvEnd, TimeoutLost, TimeoutWaiting, Retry, Cut
    <2>3. PICK w \in Viewers : Start(w) \/ Yield(w)
      BY <2>2
    <2>4. ~ Start(w)
      BY <2>1, PartsOfType DEF Start
    <2>5. Yield(w) /\ w = v
      BY <2>3, <2>4, YieldIsFirst
    <2>6. /\ Stream(v) # << >> /\ Stream(v)[1].frame \in Frames
          /\ shown'[v] = Line(Stream(v)[1].frame)
      BY <2>5, YieldIsFirst
    <2>7. shown[v][1].frame < Stream(v)[1].frame
      BY <2>1, <2>6 DEF Sight
    <2>8. shown'[v][1].frame = Stream(v)[1].frame
      BY <2>1, <2>6, Facts, HalvesAreTyped
    <2>9. shown[v][1].frame \in Nat /\ Stream(v)[1].frame \in Nat
      <3>1. PICK f \in Frames : shown[v] = Line(f)
        BY <2>1 DEF Sight
      <3>2. shown[v][1].frame = f
        BY <2>1, <3>1, Facts, HalvesAreTyped
      <3> QED BY <2>1, <2>6, <3>2, PartsOfType
    <2> QED BY <2>7, <2>8, <2>9
  <1> QED BY <1>1, Invariance, PTL DEF Spec, FramesInOrder
=============================================================================
