----------------------------- MODULE ReadingPush -----------------------------
(***************************************************************************)
(* A reading's way into the Pushgateway: netPublish of the garden node,    *)
(* cloud::push of the rover, scripts/simulate.py with its simulated        *)
(* devices, the token that the edge asks for, and the /ingest handler with *)
(* its mapping.                                                            *)
(*                                                                         *)
(* A node makes one request at a time and waits for it; other nodes, the   *)
(* token's age and the Pushgateway move meanwhile.  Time is no number: a   *)
(* token passes from good to due (within the 60 s before its end) to       *)
(* expired.  A reading is the series it has; in the Pushgateway a series   *)
(* is current while its node has sampled nothing since, else old.          *)
(***************************************************************************)
EXTENDS Integers, Sequences, Functions

CONSTANTS
  Gardens,    \* garden nodes
  Rovers,     \* rovers built with ENABLE_UPLOAD
  Simulated,  \* the devices of simulate.py, in the order of its rounds
  Simulator,  \* the program itself, which has their token
  LabelOf,    \* [nodes -> what _clean_label makes of their device_id]
  Nobody,
  FaultSets   \* what may go wrong: one of these sets does in a behaviour

(***************************************************************************)
(* "wifi"     the network cannot be joined at once                         *)
(* "token"    a token request fails                                        *)
(* "lost"     a publish, or its answer, does not arrive                    *)
(* "put"      the Pushgateway does not take a group                        *)
(* "short"    a token's life is 60 s or less                               *)
(* "revoke"   tokens are withdrawn before their end                        *)
(* "wrap"     a token is not replaced for 2^31 ms                          *)
(* "drop"     the Pushgateway restarts                                     *)
(* "reboot"   a node restarts, the simulator is stopped                    *)
(* "open"     no token is asked for, as in the local stack                 *)
(* "simulate" simulate.py runs, with --cloud unless "open"                 *)
(* "once"     simulate.py --once                                           *)
(***************************************************************************)
FaultKinds == {"wifi", "token", "lost", "put", "short", "revoke", "wrap", "drop", "reboot",
               "open", "simulate", "once"}

Boards == Gardens \cup Rovers
Devices == Range(Simulated)
Nodes == Boards \cup Devices
Holders == Boards \cup {Simulator}
Holder(n) == IF n \in Devices THEN Simulator ELSE n
Labels == {LabelOf[n] : n \in Nodes}

ASSUME NodesAssumption ==
  /\ Gardens \cap Rovers = {}
  /\ Boards \cap Devices = {}
  /\ Simulated \in Seq(Devices) /\ IsInjective(Simulated)
  /\ Simulator \notin Nodes /\ Nobody \notin Nodes
  /\ DOMAIN LabelOf = Nodes
  /\ FaultSets \subseteq SUBSET FaultKinds

VARIABLES
  faults,   \* one of FaultSets, for ever
  pc,       \* [Nodes -> "loop", "token" or "post"]
  parts,    \* [Nodes -> SUBSET Series]: the reading in hand
  token,    \* [Holders -> TokenStates]
  health,   \* [Nodes -> "connecting", "ok" or "error"]: the LED matrix
  push,     \* [Nodes -> "n/a", "ok" or "fail"]: net.push of the telemetry
  group,    \* [Labels -> [node, age]]: the Pushgateway's group of an instance
  sim       \* [state, turn]: simulate.py, and the device whose turn it is

vars == <<faults, pc, parts, token, health, push, group, sim>>

\* What the mapping knows: soil is always read, the DHT may fail.  A rover has
\* neither, and the mapping knows nothing of what it sends.  A simulated device has both.
Series == {"soil", "air"}
ReadingsOf(n) ==
  IF n \in Gardens THEN {{"soil"}, {"soil", "air"}} ELSE IF n \in Rovers THEN {{}} ELSE {Series}

\* "dead" is a token that its node believes in and the edge refuses.
TokenStates == {"none", "good", "due", "expired", "dead"}
NoGroup == [node |-> Nobody, age |-> [s \in Series |-> "absent"]]

Init ==
  /\ faults \in FaultSets
  /\ pc = [n \in Nodes |-> "loop"]
  /\ parts = [n \in Nodes |-> {}]
  /\ token = [h \in Holders |-> "none"]
  /\ health = [n \in Nodes |-> "connecting"]
  /\ push = [n \in Nodes |-> "n/a"]
  /\ group = [l \in Labels |-> NoGroup]
  /\ sim = [state |-> IF "simulate" \in faults THEN "start" ELSE "ended", turn |-> 1]

-----------------------------------------------------------------------------
(***************************************************************************)
(* What a publish ends with.                                               *)
(***************************************************************************)

\* Mutant of NextTurn: a device that could not push ends the program.
NextTurnIfPushed(n) ==
  IF n \notin Devices THEN UNCHANGED sim
  ELSE sim' = IF push'[n] = "fail" THEN [sim EXCEPT !.state = "ended"]
              ELSE [sim EXCEPT !.turn = IF @ = Len(Simulated) THEN 1 ELSE @ + 1]

\* simulate.py's loop goes on to the next device, or after a round starts over.
NextTurn(n) ==
  IF n \notin Devices THEN UNCHANGED sim
  ELSE IF sim.turn < Len(Simulated) THEN sim' = [sim EXCEPT !.turn = @ + 1]
  ELSE sim' = [state |-> IF "once" \in faults THEN "ended" ELSE "run", turn |-> 1]

Fail(n) ==
  /\ pc' = [pc EXCEPT ![n] = "loop"]
  /\ push' = [push EXCEPT ![n] = "fail"]
  /\ health' = IF n \in Gardens THEN [health EXCEPT ![n] = "error"] ELSE health
  /\ NextTurn(n)

Succeed(n) ==
  /\ pc' = [pc EXCEPT ![n] = "loop"]
  /\ push' = [push EXCEPT ![n] = "ok"]
  /\ health' = IF n \in Gardens THEN [health EXCEPT ![n] = "ok"] ELSE health
  /\ NextTurn(n)

\* Nothing comes back.  post catches an HTTP status, but not this: the program dies.
NoAnswer(n) ==
  IF n \in Boards THEN Fail(n)
  ELSE sim' = [sim EXCEPT !.state = "died"] /\ UNCHANGED <<pc, push, health>>

-----------------------------------------------------------------------------
(***************************************************************************)
(* The node's loop.                                                        *)
(***************************************************************************)

\* Mutant of Believed: no margin.
BelievedToTheEnd(n) == token[Holder(n)] \in {"good", "due", "dead"}

\* ensureToken's test of the token it has.
Believed(n) == token[Holder(n)] \in {"good", "dead"}

\* What was current is so no more.
Outdated(n) ==
  [l \in Labels |->
     IF group[l].node # n THEN group[l]
     ELSE [group[l] EXCEPT !.age =
             [s \in Series |-> IF @[s] = "current" THEN "old" ELSE @[s]]]]

\* sensorsRead, netEnsureWifi, which marks the display when it has to reconnect, and
\* the choice of ensureToken.  A rover goes without a token.
Sample(n) ==
  /\ n \in Boards
  /\ pc[n] = "loop"
  /\ \E p \in ReadingsOf(n) : parts' = [parts EXCEPT ![n] = p]
  /\ group' = Outdated(n)
  /\ UNCHANGED <<faults, token>>
  /\ \/ /\ pc' = [pc EXCEPT ![n] = IF n \in Rovers \/ Believed(n) THEN "post" ELSE "token"]
        /\ \/ UNCHANGED health
           \/ n \in Gardens /\ "wifi" \in faults /\ health' = [health EXCEPT ![n] = "error"]
        /\ UNCHANGED <<push, sim>>
     \/ "wifi" \in faults /\ Fail(n)

\* The OTA check between two samples looks at the network, too.
CheckWifi(n) ==
  /\ n \in Gardens
  /\ pc[n] = "loop"
  /\ "wifi" \in faults
  /\ health' = [health EXCEPT ![n] = "error"]
  /\ UNCHANGED <<faults, pc, parts, token, push, group, sim>>

\* get_cloud_token, once: its failure ends the program.
StartSimulator ==
  /\ sim.state = "start"
  /\ \/ /\ sim' = [sim EXCEPT !.state = "run"]
        /\ token' = IF "open" \in faults THEN token ELSE [token EXCEPT ![Simulator] = "good"]
     \/ /\ "token" \in faults /\ "open" \notin faults
        /\ sim' = [sim EXCEPT !.state = "died"]
        /\ UNCHANGED token
  /\ UNCHANGED <<faults, pc, parts, health, push, group>>

\* Node.reading of the device whose turn it is.
Simulate(n) ==
  /\ n \in Devices
  /\ sim.state = "run" /\ n = Simulated[sim.turn]
  /\ pc[n] = "loop"
  /\ pc' = [pc EXCEPT ![n] = "post"]
  /\ \E p \in ReadingsOf(n) : parts' = [parts EXCEPT ![n] = p]
  /\ group' = Outdated(n)
  /\ UNCHANGED <<faults, token, health, push, sim>>

Granted(n) ==
  /\ token' = [token EXCEPT ![n] = "good"]
  /\ pc' = [pc EXCEPT ![n] = "post"]
  /\ UNCHANGED <<health, push, sim>>

\* Mutant of Ungranted: ensureToken returns true without a token.
UngrantedUnchecked(n) ==
  /\ token' = [token EXCEPT ![n] = "none"]
  /\ pc' = [pc EXCEPT ![n] = "post"]
  /\ UNCHANGED <<health, push, sim>>

\* A reply without a token in it overwrites the one there was.
Ungranted(n) == Fail(n) /\ token' = [token EXCEPT ![n] = "none"]

\* ensureToken: a token is granted, the request fails, or the reply has no token.
FetchToken(n) ==
  /\ pc[n] = "token"
  /\ \/ Granted(n)
     \/ "token" \in faults /\ Fail(n) /\ UNCHANGED token
     \/ "token" \in faults /\ Ungranted(n)
  /\ UNCHANGED <<faults, parts, group>>

\* What the edge makes of the token.
Accepted(n) == "open" \in faults \/ token[Holder(n)] \in {"good", "due"}

\* Mutant of Refused: a refused token is kept.
RefusedKept(n) == Fail(n) /\ UNCHANGED token

\* 401 or 403: the node forgets its token, the simulator does not.
Refused(n) ==
  /\ Fail(n)
  /\ token' = IF n \in Devices THEN token ELSE [token EXCEPT ![n] = "none"]

Posting(n) == pc[n] = "post" /\ (n \in Devices => sim.state = "run")

\* The request does not arrive, or the answer to a refused one does not.
Lose(n) ==
  /\ Posting(n)
  /\ "lost" \in faults
  /\ NoAnswer(n)
  /\ UNCHANGED <<faults, parts, token, group>>

\* The edge refuses the token.
Refuse(n) ==
  /\ Posting(n)
  /\ ~ Accepted(n)
  /\ Refused(n)
  /\ UNCHANGED <<faults, parts, group>>

\* Mutant of Stored: POST instead of PUT keeps what the reading does not have.
StoredMerged(n) ==
  [node |-> n, age |-> [s \in Series |-> IF s \in parts[n] THEN "current"
                                         ELSE group[LabelOf[n]].age[s]]]

\* PUT of the samples of to_samples: they replace the group.
Stored(n) == [node |-> n, age |-> [s \in Series |-> IF s \in parts[n] THEN "current" ELSE "absent"]]

\* Mutant of Put: the Pushgateway's status is not looked at.
PutUnchecked(n) ==
  /\ \/ group' = [group EXCEPT ![LabelOf[n]] = Stored(n)]
     \/ "put" \in faults /\ UNCHANGED group
  /\ Succeed(n)

\* The Pushgateway takes the group and the answer is 204, which may be lost; or it
\* does not, and the answer is 502.
Put(n) ==
  \/ /\ group' = [group EXCEPT ![LabelOf[n]] = Stored(n)]
     /\ \/ Succeed(n)
        \/ "lost" \in faults /\ NoAnswer(n)
  \/ "put" \in faults /\ UNCHANGED group /\ Fail(n)

\* /ingest: a payload without a known reading is answered with 422.
Ingest(n) ==
  /\ Posting(n)
  /\ Accepted(n)
  /\ UNCHANGED <<faults, parts, token>>
  /\ IF parts[n] = {} THEN Fail(n) /\ UNCHANGED group ELSE Put(n)

-----------------------------------------------------------------------------
(***************************************************************************)
(* Time and the services.                                                  *)
(***************************************************************************)

\* A publish takes less than the 60 s for which a token is due: one that was good when
\* it began does not expire in it, and counts as good to its end.  The simulator does
\* not look at its token again.
Age(h) ==
  /\ \/ /\ token[h] = "good" /\ (h \in Boards => pc[h] = "loop")
        /\ token' = [token EXCEPT ![h] = "due"]
     \/ token[h] = "due" /\ token' = [token EXCEPT ![h] = "expired"]
  /\ UNCHANGED <<faults, pc, parts, health, push, group, sim>>

\* A token that lives for 60 s or less has no such margin.
AgeShort(h) ==
  /\ "short" \in faults
  /\ token[h] = "good"
  /\ token' = [token EXCEPT ![h] = "expired"]
  /\ UNCHANGED <<faults, pc, parts, health, push, group, sim>>

\* The signing key or the client's grant is withdrawn.
Revoke ==
  /\ "revoke" \in faults
  /\ token' = [h \in Holders |-> IF token[h] = "good" THEN "dead" ELSE token[h]]
  /\ UNCHANGED <<faults, pc, parts, health, push, group, sim>>

\* 2^31 ms after the end of a token no request replaced, the difference of two
\* millis() is positive again.
MillisWrap(n) ==
  /\ "wrap" \in faults
  /\ n \in Gardens
  /\ token[n] = "expired"
  /\ token' = [token EXCEPT ![n] = "dead"]
  /\ UNCHANGED <<faults, pc, parts, health, push, group, sim>>

\* A node loses its power and starts anew; its last request may have arrived.
Reboot(n) ==
  /\ "reboot" \in faults
  /\ n \in Boards
  /\ pc' = [pc EXCEPT ![n] = "loop"]
  /\ parts' = [parts EXCEPT ![n] = {}]
  /\ token' = [token EXCEPT ![n] = "none"]
  /\ health' = [health EXCEPT ![n] = "connecting"]
  /\ push' = [push EXCEPT ![n] = "n/a"]
  /\ UNCHANGED <<faults, group, sim>>

\* Ctrl-C.
StopSimulator ==
  /\ "reboot" \in faults
  /\ sim.state \in {"start", "run"}
  /\ sim' = [sim EXCEPT !.state = "ended"]
  /\ UNCHANGED <<faults, pc, parts, token, health, push, group>>

\* The Pushgateway restarts.
Drop ==
  /\ "drop" \in faults
  /\ group' = [l \in Labels |-> NoGroup]
  /\ UNCHANGED <<faults, pc, parts, token, health, push, sim>>

Next ==
  \/ \E n \in Nodes :
       \/ Sample(n) \/ CheckWifi(n) \/ FetchToken(n) \/ Simulate(n)
       \/ Lose(n) \/ Refuse(n) \/ Ingest(n)
       \/ MillisWrap(n) \/ Reboot(n)
  \/ \E h \in Holders : Age(h) \/ AgeShort(h)
  \/ StartSimulator \/ StopSimulator
  \/ Revoke \/ Drop

Spec == Init /\ [][Next]_vars

\* A node's loop samples and finishes its publish: every request in it has a timeout.
Fairness ==
  WF_vars(StartSimulator) /\
  \A n \in Nodes :
    /\ WF_vars(Sample(n)) /\ WF_vars(FetchToken(n)) /\ WF_vars(Simulate(n))
    /\ WF_vars(Lose(n) \/ Refuse(n) \/ Ingest(n))

LiveSpec == Spec /\ Fairness

-----------------------------------------------------------------------------
(***************************************************************************)
(* Properties.                                                             *)
(***************************************************************************)

Ages == {"absent", "current", "old"}

\* Types; only a garden node has a display and asks for a token of its own, and it never
\* posts without one (net.cpp:103, 135; cloud.rs:23-41); one simulated device at most is
\* in the middle of its push (simulate.py:128-130).
TypeOK ==
  /\ faults \in FaultSets
  /\ pc \in [Nodes -> {"loop", "token", "post"}]
  /\ parts \in [Nodes -> SUBSET Series]
  /\ token \in [Holders -> TokenStates]
  /\ health \in [Nodes -> {"connecting", "ok", "error"}]
  /\ push \in [Nodes -> {"n/a", "ok", "fail"}]
  /\ group \in [Labels -> [node : Nodes \cup {Nobody}, age : [Series -> Ages]]]
  /\ sim \in [state : {"start", "run", "ended", "died"}, turn : 1 .. Len(Simulated) + 1]
  /\ \A n \in Gardens : pc[n] = "post" => token[n] # "none"
  /\ \A n \in Rovers : token[n] = "none"
  /\ \A n \in Rovers \cup Devices : pc[n] # "token" /\ health[n] = "connecting"
  /\ \A n \in Devices : pc[n] # "loop" => n = Simulated[sim.turn]

\* Between two publishes, a plant on the display, an "ok" in the telemetry or on the
\* simulator's screen means that the Pushgateway holds that reading as it was read, all
\* of it and nothing of an earlier one (net.cpp:133-162, main.py:53-62, simulate.py:130),
\* unless it restarted, or another node of the same name has pushed since.
OkIsStored ==
  "drop" \notin faults =>
  \A n \in Nodes :
    pc[n] = "loop" /\ (push[n] = "ok" \/ health[n] = "ok") =>
      LET kept == group[LabelOf[n]]
      IN  IF kept.node = n
          THEN \A s \in Series : kept.age[s] = IF s \in parts[n] THEN "current" ELSE "absent"
          ELSE kept.node \in Nodes \ {n} /\ LabelOf[kept.node] = LabelOf[n]

\* The margin serves its purpose: no node sends a token that the edge refuses, unless
\* it was withdrawn, wrapped or short-lived (net.cpp:63-64, 101).
TokenOutlivesPublish ==
  faults \cap {"short", "revoke", "wrap"} = {} => \A n \in Gardens : pc[n] = "post" => Accepted(n)

\* What disturbs a publish from outside.
Disturbed ==
  \/ Revoke \/ Drop
  \/ \E h \in Holders : AgeShort(h)
  \/ \E n \in Nodes :
       \/ CheckWifi(n) \/ MillisWrap(n) \/ Reboot(n)
       \/ (Sample(n) \/ FetchToken(n)) /\ push'[n] = "fail" /\ pc'[n] = "loop"
       \/ Lose(n)
       \/ Ingest(n) /\ parts[n] # {} /\ push'[n] # "ok"

\* The simulators that keep on: their token does not run out, as none is asked for, and
\* nothing stops them.
Steady == IF "open" \in faults /\ "simulate" \in faults /\ faults \cap {"lost", "reboot", "once"} = {}
          THEN Devices ELSE {}

\* Once nothing disturbs any more, every garden node's readings arrive again and again,
\* also when its token was refused, or had run out long ago (net.cpp:64, 153-157); and
\* so do those of every device simulated in the local stack, whatever the answers were
\* before (simulate.py:101-102, 127-137).
ReadingsArrive ==
  <>[][~ Disturbed]_vars =>
    \A n \in Nodes : n \in Gardens \cup Steady => []<>(push[n] = "ok" /\ pc[n] = "loop")
=============================================================================
