------------------------- MODULE ReadingPush_proofs -------------------------
(***************************************************************************)
(* Invariance proofs for ReadingPush: for every number of boards and       *)
(* simulated devices, whatever names they have and whatever goes wrong.    *)
(***************************************************************************)
EXTENDS ReadingPush, TLAPS

-----------------------------------------------------------------------------
(***************************************************************************)
(* The constants.                                                          *)
(***************************************************************************)
LEMMA Kinds ==
  /\ Nodes = Gardens \cup Rovers \cup Devices
  /\ Boards = Gardens \cup Rovers
  /\ Holders = Boards \cup {Simulator}
  /\ Gardens \cap Rovers = {}
  /\ \A n \in Boards : n \notin Devices /\ Holder(n) = n /\ n \in Holders /\ n # Simulator
  /\ \A n \in Devices : n \notin Boards /\ Holder(n) = Simulator
  /\ Simulator \notin Nodes /\ Nobody \notin Nodes
  /\ \A n \in Nodes : LabelOf[n] \in Labels
  BY NodesAssumption DEF Nodes, Boards, Holders, Holder, Labels

LEMMA Turns ==
  /\ Len(Simulated) \in Nat
  /\ 1 \in 1 .. Len(Simulated) + 1
  /\ \A t \in 1 .. Len(Simulated) + 1 : t < Len(Simulated) => t + 1 \in 1 .. Len(Simulated) + 1
  <1>1. Len(Simulated) \in Nat
    BY NodesAssumption
  <1> QED BY <1>1

-----------------------------------------------------------------------------
(***************************************************************************)
(* What one end of a publish does to the node it is of, and that it leaves *)
(* every other node as it is.                                              *)
(***************************************************************************)
PcType == [Nodes -> {"loop", "token", "post"}]
HealthType == [Nodes -> {"connecting", "ok", "error"}]
PushType == [Nodes -> {"n/a", "ok", "fail"}]
SimType == [state : {"start", "run", "ended", "died"}, turn : 1 .. Len(Simulated) + 1]
GroupType == [Labels -> [node : Nodes \cup {Nobody}, age : [Series -> Ages]]]

\* Only n's part of a function changes.
Others(n) == \A m \in Nodes \ {n} : pc'[m] = pc[m] /\ health'[m] = health[m] /\ push'[m] = push[m]

LEMMA TurnMoves ==
  ASSUME NEW n \in Nodes, sim \in SimType, NextTurn(n)
  PROVE  sim' \in SimType /\ (n \notin Devices => sim' = sim)
  <1>1. CASE n \notin Devices
    BY <1>1 DEF NextTurn
  <1>2. CASE n \in Devices /\ sim.turn < Len(Simulated)
    BY <1>2, Turns DEF NextTurn, SimType
  <1>3. CASE n \in Devices /\ ~ sim.turn < Len(Simulated)
    BY <1>3, Turns DEF NextTurn, SimType
  <1> QED BY <1>1, <1>2, <1>3

LEMMA FailEnds ==
  ASSUME NEW n \in Nodes, pc \in PcType, health \in HealthType, push \in PushType, sim \in SimType,
         Fail(n)
  PROVE  /\ pc' \in PcType /\ health' \in HealthType /\ push' \in PushType /\ sim' \in SimType
         /\ pc'[n] = "loop" /\ push'[n] = "fail"
         /\ health'[n] = IF n \in Gardens THEN "error" ELSE health[n]
         /\ Others(n)
         /\ n \notin Devices => sim' = sim
  BY TurnMoves DEF Fail, PcType, HealthType, PushType, Others

LEMMA SucceedEnds ==
  ASSUME NEW n \in Nodes, pc \in PcType, health \in HealthType, push \in PushType, sim \in SimType,
         Succeed(n)
  PROVE  /\ pc' \in PcType /\ health' \in HealthType /\ push' \in PushType /\ sim' \in SimType
         /\ pc'[n] = "loop" /\ push'[n] = "ok"
         /\ health'[n] = IF n \in Gardens THEN "ok" ELSE health[n]
         /\ Others(n)
         /\ n \notin Devices => sim' = sim
  BY TurnMoves DEF Succeed, PcType, HealthType, PushType, Others

\* A publish nobody answers is a failure of a board, and the end of the simulator.
LEMMA NoAnswerEnds ==
  ASSUME NEW n \in Nodes, pc \in PcType, health \in HealthType, push \in PushType, sim \in SimType,
         NoAnswer(n)
  PROVE  /\ pc' \in PcType /\ health' \in HealthType /\ push' \in PushType /\ sim' \in SimType
         /\ \/ n \in Boards /\ Fail(n)
            \/ n \in Devices /\ pc' = pc /\ health' = health /\ push' = push /\ sim'.turn = sim.turn
  <1>1. CASE n \in Boards
    BY <1>1, FailEnds DEF NoAnswer
  <1>2. CASE n \notin Boards
    BY <1>2, Kinds DEF NoAnswer, SimType
  <1> QED BY <1>1, <1>2

LEMMA NoGroupIsTyped == [l \in Labels |-> NoGroup] \in GroupType
  BY DEF NoGroup, Ages, GroupType

LEMMA GroupsStayTyped ==
  ASSUME group \in GroupType, NEW n \in Nodes
  PROVE  /\ Outdated(n) \in GroupType
         /\ Stored(n) \in [node : Nodes \cup {Nobody}, age : [Series -> Ages]]
         /\ [group EXCEPT ![LabelOf[n]] = Stored(n)] \in GroupType
  <1>1. Outdated(n) \in GroupType
    BY DEF Outdated, GroupType, Ages
  <1>2. Stored(n) \in [node : Nodes \cup {Nobody}, age : [Series -> Ages]]
    BY DEF Stored, Ages
  <1> QED BY <1>1, <1>2 DEF GroupType

LEMMA ReadingsAreParts ==
  ASSUME NEW n, NEW p \in ReadingsOf(n)
  PROVE  p \in SUBSET Series
  BY DEF ReadingsOf, Series

-----------------------------------------------------------------------------
(***************************************************************************)
(* Types.  What ends a publish keeps them, if the token is kept as well or *)
(* is forgotten, which only a board does.                                  *)
(***************************************************************************)
TokenKept(n) == token' = token \/ (n \in Boards /\ token' = [token EXCEPT ![n] = "none"])

LEMMA InitType == Init => TypeOK
  BY NoGroupIsTyped, Kinds, Turns DEF Init, TypeOK, TokenStates, GroupType

LEMMA TypeAfterEnd ==
  ASSUME TypeOK, NEW n \in Nodes, n \in Boards \/ pc[n] # "loop",
         Fail(n) \/ Succeed(n) \/ NoAnswer(n), faults' = faults,
         parts' \in [Nodes -> SUBSET Series], group' \in GroupType, TokenKept(n)
  PROVE  TypeOK'
  <1> USE Kinds, Turns
  <1>1. pc \in PcType /\ health \in HealthType /\ push \in PushType /\ sim \in SimType
    BY DEF TypeOK, PcType, HealthType, PushType, SimType
  <1>2. /\ pc' \in PcType /\ health' \in HealthType /\ push' \in PushType /\ sim' \in SimType
        /\ \/ /\ Others(n) /\ pc'[n] = "loop"
              /\ n \notin Gardens => health'[n] = health[n]
              /\ n \notin Devices => sim' = sim
           \/ n \in Devices /\ pc' = pc /\ health' = health /\ sim'.turn = sim.turn
    BY <1>1, FailEnds, SucceedEnds, NoAnswerEnds
  <1>3. token' \in [Holders -> TokenStates] /\ \A h \in Holders : token'[h] \in {token[h], "none"}
    BY DEF TypeOK, TokenKept, TokenStates
  <1>4. \A m \in Nodes \ {n} : m \in Holders => token'[m] = token[m]
    BY DEF TypeOK, TokenKept
  <1>5. \A m \in Nodes : pc'[m] \in {"loop", pc[m]}
    BY <1>2 DEF Others
  <1>6. \A m \in Gardens : pc'[m] = "post" => token'[m] # "none"
    <2> SUFFICES ASSUME NEW m \in Gardens, pc'[m] = "post" PROVE token'[m] # "none"
      OBVIOUS
    <2>1. pc[m] = "post" /\ m # n
      BY <1>2 DEF Others
    <2> QED BY <1>4, <2>1 DEF TypeOK
  <1>7. \A m \in Rovers : token'[m] = "none"
    BY <1>3 DEF TypeOK
  <1>8. \A m \in Rovers \cup Devices : pc'[m] # "token" /\ health'[m] = "connecting"
    BY <1>2, <1>5 DEF TypeOK, Others
  <1>9. \A m \in Devices : pc'[m] # "loop" => m = Simulated[sim'.turn]
    <2> SUFFICES ASSUME NEW m \in Devices, pc'[m] # "loop" PROVE m = Simulated[sim'.turn]
      OBVIOUS
    <2>1. pc[m] # "loop" /\ m = Simulated[sim.turn]
      BY <1>5 DEF TypeOK
    <2>2. CASE n \in Devices /\ sim'.turn = sim.turn
      BY <2>1, <2>2
    <2>3. CASE n \notin Devices
      BY <1>2, <2>1, <2>3
    <2>4. CASE n \in Devices /\ pc'[n] = "loop" /\ Others(n)
      <3>1. pc[n] # "loop" => n = Simulated[sim.turn]
        BY <2>4 DEF TypeOK
      <3>2. pc[n] # "loop"
        BY <2>4
      <3>3. m = n
        BY <2>1, <3>1, <3>2
      <3> QED BY <2>4, <3>3
    <2> QED BY <1>2, <2>2, <2>3, <2>4
  <1> QED
    BY <1>2, <1>3, <1>6, <1>7, <1>8, <1>9
       DEF TypeOK, PcType, HealthType, PushType, SimType, GroupType
\* One step of the proof for each action.
LEMMA TypeStep == TypeOK /\ [Next]_vars => TypeOK'
  <1> SUFFICES ASSUME TypeOK, [Next]_vars PROVE TypeOK'
    OBVIOUS
  <1> USE Kinds, Turns
      DEF TypeOK, PcType, HealthType, PushType, SimType, GroupType, Others, TokenStates
  <1>1. ASSUME NEW n \in Nodes, Sample(n) PROVE TypeOK'
    <2>1. parts' \in [Nodes -> SUBSET Series]
      BY <1>1, ReadingsAreParts DEF Sample
    <2>2. group' \in GroupType
      BY <1>1, GroupsStayTyped DEF Sample
    <2>3. CASE pc' = [pc EXCEPT ![n] = IF n \in Rovers \/ Believed(n) THEN "post" ELSE "token"]
               /\ UNCHANGED <<push, sim>>
      BY <1>1, <2>1, <2>2, <2>3 DEF Sample, Believed, Fail
    <2>4. CASE Fail(n)
      BY <1>1, <2>1, <2>2, <2>4, TypeAfterEnd DEF Sample, TokenKept
    <2> QED BY <1>1, <2>3, <2>4 DEF Sample
  <1>2. ASSUME NEW n \in Nodes, CheckWifi(n) PROVE TypeOK'
    BY <1>2 DEF CheckWifi
  <1>3. ASSUME NEW n \in Nodes, FetchToken(n) PROVE TypeOK'
    <2>1. n \in Gardens
      BY <1>3 DEF FetchToken
    <2>0. UNCHANGED <<faults, parts, group>> /\ n \in Boards /\ n \in Nodes
      BY <1>3, <2>1 DEF FetchToken
    <2>2. CASE Granted(n)
      BY <1>3, <2>1, <2>2 DEF FetchToken, Granted
    <2>3. CASE Fail(n) /\ UNCHANGED token
      BY <2>0, <2>3, TypeAfterEnd DEF TokenKept
    <2>4. CASE Ungranted(n)
      BY <2>0, <2>4, TypeAfterEnd DEF Ungranted, TokenKept
    <2> QED BY <1>3, <2>2, <2>3, <2>4 DEF FetchToken
  <1>4. ASSUME NEW n \in Nodes, Simulate(n) PROVE TypeOK'
    <2>1. parts' \in [Nodes -> SUBSET Series]
      BY <1>4, ReadingsAreParts DEF Simulate
    <2>2. group' \in GroupType
      BY <1>4, GroupsStayTyped DEF Simulate
    <2> QED BY <1>4, <2>1, <2>2 DEF Simulate
  <1>5. ASSUME NEW n \in Nodes, Lose(n) PROVE TypeOK'
    BY <1>5, TypeAfterEnd DEF Lose, Posting, TokenKept
  <1>6. ASSUME NEW n \in Nodes, Refuse(n) PROVE TypeOK'
    BY <1>6, TypeAfterEnd DEF Refuse, Refused, Posting, TokenKept
  <1>7. ASSUME NEW n \in Nodes, Ingest(n) PROVE TypeOK'
    <2>1. UNCHANGED <<faults, parts, token>> /\ pc[n] # "loop"
      BY <1>7 DEF Ingest, Posting
    <2>2. group' = group \/ group' = [group EXCEPT ![LabelOf[n]] = Stored(n)]
      BY <1>7 DEF Ingest, Put
    <2>3. group' \in GroupType
      <3>1. group \in GroupType
        OBVIOUS
      <3>2. [group EXCEPT ![LabelOf[n]] = Stored(n)] \in GroupType
        BY <3>1, GroupsStayTyped
      <3> QED BY <2>2, <3>1, <3>2
    <2>4. Fail(n) \/ Succeed(n) \/ NoAnswer(n)
      BY <1>7 DEF Ingest, Put
    <2> QED BY <2>1, <2>3, <2>4, TypeAfterEnd DEF TokenKept
  <1>8. ASSUME NEW n \in Nodes, MillisWrap(n) PROVE TypeOK'
    BY <1>8 DEF MillisWrap
  <1>9. ASSUME NEW n \in Nodes, Reboot(n) PROVE TypeOK'
    BY <1>9 DEF Reboot
  <1>10. ASSUME NEW h \in Holders, Age(h) \/ AgeShort(h) PROVE TypeOK'
    BY <1>10 DEF Age, AgeShort
  <1>11. CASE StartSimulator
    BY <1>11 DEF StartSimulator
  <1>12. CASE StopSimulator
    BY <1>12 DEF StopSimulator
  <1>13. CASE Revoke
    BY <1>13 DEF Revoke
  <1>14. CASE Drop
    BY <1>14, NoGroupIsTyped DEF Drop
  <1>15. CASE UNCHANGED vars
    BY <1>15 DEF vars
  <1> QED
    BY <1>1, <1>2, <1>3, <1>4, <1>5, <1>6, <1>7, <1>8, <1>9, <1>10, <1>11, <1>12, <1>13, <1>14, <1>15
       DEF Next

\* The types, with the roles of the three kinds of node, for any set of each.
THEOREM TypeCorrect == Spec => []TypeOK
  BY InitType, TypeStep, PTL DEF Spec

-----------------------------------------------------------------------------
(***************************************************************************)
(* What the Pushgateway holds for a node that has been told "ok".          *)
(***************************************************************************)
Told(n) == pc[n] = "loop" /\ (push[n] = "ok" \/ health[n] = "ok")

Held(n) ==
  LET kept == group[LabelOf[n]]
  IN  IF kept.node = n
      THEN \A s \in Series : kept.age[s] = IF s \in parts[n] THEN "current" ELSE "absent"
      ELSE kept.node \in Nodes \ {n} /\ LabelOf[kept.node] = LabelOf[n]

LEMMA StoredIsHeld == OkIsStored <=> ("drop" \notin faults => \A n \in Nodes : Told(n) => Held(n))
  BY DEF OkIsStored, Told, Held

\* A sample of n, whose old reading is out of date, takes nothing from another node.
LEMMA SampleLeavesOthers ==
  ASSUME TypeOK, NEW n \in Nodes, NEW m \in Nodes \ {n}, Held(m),
         group' = Outdated(n), parts'[m] = parts[m]
  PROVE  Held(m)'
  <1>1. LabelOf[m] \in Labels
    BY Kinds
  <1>2. group'[LabelOf[m]].node = group[LabelOf[m]].node
    BY <1>1 DEF Outdated, TypeOK
  <1>3. group[LabelOf[m]].node = m => group'[LabelOf[m]] = group[LabelOf[m]]
    BY <1>1 DEF Outdated
  <1> QED BY <1>2, <1>3 DEF Held

\* A publish of n that is stored is there for n; a node of the same name is told from it.
LEMMA PublishIsHeld ==
  ASSUME TypeOK, NEW n \in Nodes, group' = [group EXCEPT ![LabelOf[n]] = Stored(n)],
         parts' = parts
  PROVE  /\ Held(n)'
         /\ \A m \in Nodes \ {n} : Held(m) => Held(m)'
  <1>1. \A m \in Nodes : group'[LabelOf[m]] = IF LabelOf[m] = LabelOf[n] THEN Stored(n)
                                              ELSE group[LabelOf[m]]
    BY Kinds DEF TypeOK
  <1>2. Stored(n).node = n
        /\ \A s \in Series : Stored(n).age[s] = IF s \in parts[n] THEN "current" ELSE "absent"
    BY DEF Stored
  <1> QED BY <1>1, <1>2 DEF Held

\* How a publish ends says nothing of the other nodes, and a failed one is not told "ok".
LEMMA EndsAreTold ==
  ASSUME TypeOK, NEW n \in Nodes, n \in Boards \/ pc[n] # "loop"
  PROVE  /\ Fail(n) \/ NoAnswer(n) => ~ Told(n)'
         /\ Fail(n) \/ Succeed(n) \/ NoAnswer(n) => \A m \in Nodes \ {n} : Told(m)' => Told(m)
  <1>1. pc \in PcType /\ health \in HealthType /\ push \in PushType /\ sim \in SimType
    BY DEF TypeOK, PcType, HealthType, PushType, SimType
  <1>2. n \notin Gardens => health[n] = "connecting"
    BY Kinds DEF TypeOK
  <1>3. Fail(n) => ~ Told(n)' /\ Others(n)
    BY <1>1, <1>2, FailEnds DEF Told
  <1>4. NoAnswer(n) => ~ Told(n)' /\ Others(n)
    <2>1. NoAnswer(n) /\ n \in Devices /\ pc' = pc /\ health' = health /\ push' = push
            => ~ Told(n)' /\ Others(n)
      BY Kinds DEF Told, Others
    <2> QED BY <1>1, <1>3, <2>1, NoAnswerEnds
  <1>5. Succeed(n) => Others(n)
    BY <1>1, SucceedEnds
  <1> QED BY <1>3, <1>4, <1>5 DEF Others, Told

LEMMA StoredStep == TypeOK /\ OkIsStored /\ [Next]_vars => OkIsStored'
  <1> SUFFICES ASSUME TypeOK, OkIsStored, [Next]_vars, "drop" \notin faults',
                      NEW m \in Nodes, Told(m)'
               PROVE  Held(m)'
    BY StoredIsHeld DEF OkIsStored, Told, Held
  <1>0. faults' = faults
    BY DEF Next, vars, Sample, CheckWifi, FetchToken, Simulate, Lose, Refuse, Ingest, MillisWrap,
           Reboot, Age, AgeShort, StartSimulator, StopSimulator, Revoke, Drop
  <1>00. Told(m) => Held(m)
    BY <1>0, StoredIsHeld
  <1>a. group' = group /\ parts'[m] = parts[m] /\ Told(m) => Held(m)'
    BY <1>00 DEF Held
  <1>b. UNCHANGED <<pc, push, health>> => Told(m)
    BY DEF Told
  <1>1. ASSUME NEW n \in Nodes, Sample(n) PROVE Held(m)'
    <2>0. n \in Boards /\ group' = Outdated(n) /\ (m # n => parts'[m] = parts[m])
      BY <1>1 DEF Sample, TypeOK
    <2>1. CASE pc' = [pc EXCEPT ![n] = IF n \in Rovers \/ Believed(n) THEN "post" ELSE "token"]
               /\ UNCHANGED push
               /\ (UNCHANGED health \/ health' = [health EXCEPT ![n] = "error"])
      <3>1. m # n /\ Told(m)
        BY <2>1 DEF Told, TypeOK
      <3> QED BY <1>00, <2>0, <3>1, SampleLeavesOthers
    <2>2. CASE Fail(n)
      <3>1. m # n /\ Told(m)
        BY <2>0, <2>2, EndsAreTold
      <3> QED BY <1>00, <2>0, <3>1, SampleLeavesOthers
    <2> QED BY <1>1, <2>1, <2>2 DEF Sample
  <1>2. ASSUME NEW n \in Nodes, CheckWifi(n) PROVE Held(m)'
    <2>1. Told(m)
      BY <1>2 DEF CheckWifi, Told, TypeOK
    <2> QED BY <1>2, <1>a, <2>1 DEF CheckWifi
  <1>3. ASSUME NEW n \in Nodes, FetchToken(n) PROVE Held(m)'
    <2>1. n \in Boards
      BY <1>3, Kinds DEF FetchToken, TypeOK
    <2>2. CASE Granted(n)
      BY <1>3, <1>a, <2>2 DEF FetchToken, Granted, Told, TypeOK
    <2>3. CASE Fail(n)
      BY <1>3, <1>a, <2>1, <2>3, EndsAreTold DEF FetchToken
    <2> QED BY <1>3, <2>2, <2>3 DEF FetchToken, Ungranted
  <1>4. ASSUME NEW n \in Nodes, Simulate(n) PROVE Held(m)'
    <2>1. m # n /\ Told(m) /\ parts'[m] = parts[m] /\ group' = Outdated(n)
      BY <1>4 DEF Simulate, Told, TypeOK
    <2> QED BY <1>00, <2>1, SampleLeavesOthers
  <1>5. ASSUME NEW n \in Nodes, Lose(n) PROVE Held(m)'
    BY <1>5, <1>a, EndsAreTold DEF Lose, Posting
  <1>6. ASSUME NEW n \in Nodes, Refuse(n) PROVE Held(m)'
    BY <1>6, <1>a, EndsAreTold DEF Refuse, Refused, Posting
  <1>7. ASSUME NEW n \in Nodes, Ingest(n) PROVE Held(m)'
    <2>1. UNCHANGED <<parts, token>> /\ pc[n] # "loop"
      BY <1>7 DEF Ingest, Posting
    <2>2. CASE group' = group /\ Fail(n)
      BY <1>a, <2>1, <2>2, EndsAreTold
    <2>3. CASE group' = [group EXCEPT ![LabelOf[n]] = Stored(n)] /\ (Succeed(n) \/ NoAnswer(n))
      <3>1. Held(n)' /\ (m # n /\ Held(m) => Held(m)')
        BY <2>1, <2>3, PublishIsHeld
      <3>2. m # n => Told(m)
        BY <2>1, <2>3, EndsAreTold
      <3> QED BY <1>00, <3>1, <3>2
    <2> QED BY <1>7, <2>2, <2>3 DEF Ingest, Put
  <1>8. ASSUME NEW n \in Nodes, MillisWrap(n) PROVE Held(m)'
    BY <1>8, <1>a, <1>b DEF MillisWrap
  <1>9. ASSUME NEW n \in Nodes, Reboot(n) PROVE Held(m)'
    <2>1. m # n /\ Told(m) /\ parts'[m] = parts[m]
      BY <1>9 DEF Reboot, Told, TypeOK
    <2> QED BY <1>9, <1>a, <2>1 DEF Reboot
  <1>10. ASSUME NEW h \in Holders, Age(h) \/ AgeShort(h) PROVE Held(m)'
    BY <1>10, <1>a, <1>b DEF Age, AgeShort
  <1>11. CASE StartSimulator \/ StopSimulator \/ Revoke
    BY <1>11, <1>a, <1>b DEF StartSimulator, StopSimulator, Revoke
  <1>12. CASE Drop
    BY <1>0, <1>12 DEF Drop
  <1>13. CASE UNCHANGED vars
    BY <1>13, <1>a, <1>b DEF vars
  <1> QED
    BY <1>1, <1>2, <1>3, <1>4, <1>5, <1>6, <1>7, <1>8, <1>9, <1>10, <1>11, <1>12, <1>13 DEF Next

\* Whatever is lost, refused, withdrawn or restarted, whichever nodes share a name: an
\* "ok" that stands means that the Pushgateway holds the reading as it was read, or the
\* reading of another node of the name (net.cpp:133-162, main.py:53-62).
THEOREM OkMeansStored == Spec => []OkIsStored
  <1>1. Init => OkIsStored
    BY StoredIsHeld DEF Init, Told
  <1>2. TypeOK /\ OkIsStored /\ [Next]_vars => OkIsStored'
    BY StoredStep
  <1> QED BY <1>1, <1>2, TypeCorrect, PTL DEF Spec

-----------------------------------------------------------------------------
(***************************************************************************)
(* The token of a garden node.  Why it outlives a publish: one that begins *)
(* has a token that is good, not only accepted, and while it lasts a good  *)
(* token does not come of age.                                             *)
(***************************************************************************)
Lasting == faults \cap {"short", "revoke", "wrap"} = {}

TokenInv ==
  Lasting => \A n \in Gardens : token[n] # "dead" /\ (pc[n] = "post" => token[n] = "good")

LEMMA TokenStep == TypeOK /\ TokenInv /\ [Next]_vars => TokenInv'
  <1> SUFFICES ASSUME TypeOK, TokenInv, [Next]_vars, Lasting', NEW g \in Gardens
               PROVE  token'[g] # "dead" /\ (pc'[g] = "post" => token'[g] = "good")
    BY DEF TokenInv
  <1>0. faults' = faults
    BY DEF Next, vars, Sample, CheckWifi, FetchToken, Simulate, Lose, Refuse, Ingest, MillisWrap,
           Reboot, Age, AgeShort, StartSimulator, StopSimulator, Revoke, Drop
  <1>00. Lasting /\ token[g] # "dead" /\ (pc[g] = "post" => token[g] = "good")
    BY <1>0 DEF TokenInv, Lasting
  <1>g. g \in Nodes /\ g \in Boards /\ g \in Holders /\ Holder(g) = g /\ g # Simulator
    BY Kinds
  <1>e. ASSUME NEW n \in Nodes, n \in Boards \/ pc[n] # "loop", TokenKept(n),
               Fail(n) \/ Succeed(n) \/ NoAnswer(n)
        PROVE  token'[g] # "dead" /\ (pc'[g] = "post" => token'[g] = "good")
    <2>1. pc \in PcType /\ health \in HealthType /\ push \in PushType /\ sim \in SimType
      BY DEF TypeOK, PcType, HealthType, PushType, SimType
    <2>2. pc'[g] = "post" => (g # n /\ pc[g] = "post") \/ (pc' = pc /\ n \in Devices)
      <3>1. (Others(n) /\ pc'[n] = "loop") \/ (n \in Devices /\ pc' = pc)
        BY <1>e, <2>1, FailEnds, SucceedEnds, NoAnswerEnds
      <3> QED BY <1>g, <3>1 DEF Others
    <2>3. token'[g] \in {token[g], "none"} /\ (g # n => token'[g] = token[g])
      BY <1>g, <1>e DEF TokenKept, TypeOK
    <2>4. g = n => n \notin Devices
      BY <1>g, Kinds
    <2> QED BY <1>00, <2>2, <2>3, <2>4
  <1>1. ASSUME NEW n \in Nodes, Sample(n)
        PROVE  token'[g] # "dead" /\ (pc'[g] = "post" => token'[g] = "good")
    <2>1. CASE pc' = [pc EXCEPT ![n] = IF n \in Rovers \/ Believed(n) THEN "post" ELSE "token"]
      <3>1. n = g => n \notin Rovers
        BY Kinds
      <3> QED BY <1>00, <1>g, <1>1, <2>1, <3>1 DEF Sample, Believed, TypeOK
    <2>2. CASE Fail(n)
      BY <1>1, <1>e, <2>2 DEF Sample, TokenKept
    <2> QED BY <1>1, <2>1, <2>2 DEF Sample
  <1>2. ASSUME NEW n \in Nodes, FetchToken(n)
        PROVE  token'[g] # "dead" /\ (pc'[g] = "post" => token'[g] = "good")
    <2>1. n \in Boards
      BY <1>2, Kinds DEF FetchToken, TypeOK
    <2>2. CASE Granted(n)
      BY <1>00, <1>g, <2>2 DEF Granted, TypeOK
    <2>3. CASE Fail(n) /\ TokenKept(n)
      BY <1>e, <2>1, <2>3
    <2> QED BY <1>2, <2>1, <2>2, <2>3 DEF FetchToken, Ungranted, TokenKept
  <1>3. ASSUME NEW n \in Nodes, Simulate(n)
        PROVE  token'[g] # "dead" /\ (pc'[g] = "post" => token'[g] = "good")
    BY <1>00, <1>g, <1>3, Kinds DEF Simulate, TypeOK
  <1>4. ASSUME NEW n \in Nodes, Lose(n) \/ Refuse(n) \/ Ingest(n)
        PROVE  token'[g] # "dead" /\ (pc'[g] = "post" => token'[g] = "good")
    <2>1. TokenKept(n) /\ pc[n] # "loop"
      BY <1>4, Kinds DEF Lose, Refuse, Refused, Ingest, Posting, TokenKept
    <2>2. Fail(n) \/ Succeed(n) \/ NoAnswer(n)
      BY <1>4 DEF Lose, Refuse, Refused, Ingest, Put
    <2> QED BY <1>e, <2>1, <2>2
  <1>5. ASSUME NEW n \in Nodes, CheckWifi(n) \/ MillisWrap(n)
        PROVE  token'[g] # "dead" /\ (pc'[g] = "post" => token'[g] = "good")
    BY <1>00, <1>5 DEF CheckWifi, MillisWrap, Lasting
  <1>6. ASSUME NEW n \in Nodes, Reboot(n)
        PROVE  token'[g] # "dead" /\ (pc'[g] = "post" => token'[g] = "good")
    BY <1>00, <1>g, <1>6 DEF Reboot, TypeOK
  <1>7. ASSUME NEW h \in Holders, Age(h) \/ AgeShort(h)
        PROVE  token'[g] # "dead" /\ (pc'[g] = "post" => token'[g] = "good")
    BY <1>00, <1>g, <1>7 DEF Age, AgeShort, Lasting, TypeOK
  <1>8. CASE StartSimulator
    BY <1>00, <1>g, <1>8 DEF StartSimulator, TypeOK
  <1>9. CASE StopSimulator \/ Revoke \/ Drop \/ UNCHANGED vars
    BY <1>00, <1>9 DEF StopSimulator, Revoke, Drop, vars, Lasting
  <1> QED BY <1>1, <1>2, <1>3, <1>4, <1>5, <1>6, <1>7, <1>8, <1>9 DEF Next

\* No garden node sends a token that the edge refuses, unless it was withdrawn, wrapped
\* or short-lived: ensureToken's margin is longer than a publish (net.cpp:63-64, 101).
THEOREM MarginIsEnough == Spec => []TokenOutlivesPublish
  <1>1. Init => TokenInv
    BY Kinds DEF Init, TokenInv
  <1>2. TypeOK /\ TokenInv /\ [Next]_vars => TokenInv'
    BY TokenStep
  <1>3. TokenInv => TokenOutlivesPublish
    BY Kinds DEF TokenInv, TokenOutlivesPublish, Lasting, Accepted
  <1> QED BY <1>1, <1>2, <1>3, TypeCorrect, PTL DEF Spec
=============================================================================
