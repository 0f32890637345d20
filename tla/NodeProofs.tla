----------------------------- MODULE NodeProofs -----------------------------
(***************************************************************************)
(* The safety properties of Node, for any presets and notes, any number of *)
(* runs, any holdoff, and channels of any length.                          *)
(***************************************************************************)
EXTENDS Node, SequenceTheorems, TLAPS

-----------------------------------------------------------------------------
(* The steps of main *)

Steps ==
  {"failed", "stopped", "connected", "linked", "handling", "subscribed", "gateway", "relay"}

\* Where each step stands in main.
LEMMA StepNumbers ==
  /\ StepOf("failed") = 1
  /\ StepOf("stopped") = 2
  /\ StepOf("connected") = 3
  /\ StepOf("linked") = 4
  /\ StepOf("handling") = 5
  /\ StepOf("subscribed") = 6
  /\ StepOf("gateway") = 7
  /\ StepOf("relay") = 8
<1>1. /\ DOMAIN Order = 1 .. 8
      /\ Order[1] = "failed" /\ Order[2] = "stopped" /\ Order[3] = "connected"
      /\ Order[4] = "linked" /\ Order[5] = "handling" /\ Order[6] = "subscribed"
      /\ Order[7] = "gateway" /\ Order[8] = "relay"
  BY DEF Order
<1>2. \A i \in 1 .. 8 : i \in {1, 2, 3, 4, 5, 6, 7, 8}
  OBVIOUS
<1>3. \A i, j \in 1 .. 8 : Order[i] = Order[j] => i = j
  BY <1>1, <1>2
<1>4. \A k \in 1 .. 8 : (CHOOSE i \in DOMAIN Order : Order[i] = Order[k]) = k
  BY <1>1, <1>3
<1>5. \A k \in 1 .. 8 : StepOf(Order[k]) = k
  BY <1>4 DEF StepOf
<1> QED
  BY <1>1, <1>5

\* What the guards on main say of it.
LEMMA StepsDone ==
  ASSUME main \in Steps
  PROVE  /\ Done("connected") <=> main \notin {"failed", "stopped"}
         /\ Done("linked") <=> main \notin {"failed", "stopped", "connected"}
BY StepNumbers DEF Done, Steps

LEMMA StepsGo ==
  ASSUME main \in Steps
  PROVE  /\ Goes("connected") => main = "stopped" /\ main' = "connected"
         /\ Goes("handling") => main = "linked" /\ main' = "handling"
         /\ Goes("subscribed") => main = "handling" /\ main' = "subscribed"
         /\ Goes("gateway") => main = "subscribed" /\ main' = "gateway"
         /\ Goes("relay") => main = "gateway" /\ main' = "relay"
BY StepNumbers DEF Goes, Steps

-----------------------------------------------------------------------------
(* What every reachable state satisfies *)

Packet ==
  [type : {"MyInfo", "Stale", "OtherPort"}]
    \cup [type : {"Config"}, preset : Preset \cup Unusable]
    \cup [type : {"ConfigCompleteId"}, id : Nat]
    \cup [type : {"Fresh"}, note : MeshNote]

Message == Packet \cup {Info, Ready}

Shape ==
  /\ main \in Steps
  /\ run \in Nat
  /\ setting \in Preset \cup Unusable
  /\ answer \in Seq(Packet)
  /\ wire \in Seq(Packet)
  /\ linkOut \in Seq(Message)
  /\ declared \in BOOLEAN
  /\ announcing \in BOOLEAN
  /\ isLinkReady \in BOOLEAN

\* A dump is for the setting the radio has, and for a run that has begun.
Current(packet) ==
  /\ packet.type = "Config" => packet.preset = setting
  /\ packet.type = "ConfigCompleteId" => packet.id <= run

AllCurrent ==
  /\ \A i \in DOMAIN answer : Current(answer[i])
  /\ \A i \in DOMAIN wire : Current(wire[i])
  /\ config \subseteq {setting}

NothingWhenStopped == main = "stopped" => wire = <<>> /\ config = {}

\* The end of our dump comes after a configuration: one the node has seen, one
\* before it on the wire, or one before it in what a connected radio will still send.
ConfigFirst ==
  main = "connected" /\ config = {} =>
    /\ \A i \in DOMAIN wire : IsComplete(wire[i]) =>
         \E j \in DOMAIN wire : j < i /\ wire[j].type = "Config"
    /\ \A i \in DOMAIN answer : IsComplete(answer[i]) =>
         \/ hungUp
         \/ \E j \in DOMAIN wire : wire[j].type = "Config"
         \/ \E j \in DOMAIN answer : j < i /\ answer[j].type = "Config"

\* Ready is sent once: not before it was declared, nor after Sync has it; and until
\* its report is sent it is the last message, if Sync does not have it.
OneReady ==
  /\ \A i \in DOMAIN linkOut : linkOut[i].type = "Ready" => linkOut[i] = Ready
  /\ ~declared =>
       /\ ~isLinkReady /\ ~announcing
       /\ \A i \in DOMAIN linkOut : linkOut[i] # Ready
  /\ announcing /\ ~isLinkReady =>
       Len(linkOut) \in DOMAIN linkOut /\ linkOut[Len(linkOut)] = Ready

ConfigInv == AllCurrent /\ NothingWhenStopped /\ ConfigFirst /\ ConfigIsOurs
ReadyInv == OneReady /\ ReadyThenInfo

IInv == Shape /\ ConfigInv /\ ReadyInv

LEMMA InitInv == Init => IInv
<1> SUFFICES ASSUME Init
             PROVE  IInv
  OBVIOUS
<1> USE DEF Init
<1>1. /\ <<>> \in Seq(Packet) /\ <<>> \in Seq(Message) /\ DOMAIN <<>> = {}
  OBVIOUS
<1>2. Shape
  BY <1>1 DEF Shape, Steps
<1>3. ConfigInv
  <2>1. ~Done("linked")
    BY <1>2, StepsDone DEF Shape
  <2> QED
    BY <1>1, <2>1 DEF ConfigInv, AllCurrent, NothingWhenStopped, ConfigFirst, ConfigIsOurs
<1>4. ReadyInv
  BY <1>1 DEF ReadyInv, OneReady, ReadyThenInfo
<1> QED
  BY <1>2, <1>3, <1>4 DEF IInv

\* What is known of a configuration concerns these variables only, and what is
\* known of readiness those.
configVars == <<main, run, setting, answer, hungUp, wire, config>>
readyVars == <<linkOut, declared, announcing, isLinkReady>>

LEMMA ConfigKept ==
  ASSUME ConfigInv, UNCHANGED configVars
  PROVE  ConfigInv'
BY DEF configVars, ConfigInv, AllCurrent, Current, NothingWhenStopped, ConfigFirst,
   IsComplete, ConfigIsOurs, Done

LEMMA ReadyKept ==
  ASSUME ReadyInv, UNCHANGED readyVars
  PROVE  ReadyInv'
BY DEF readyVars, ReadyInv, OneReady, ReadyThenInfo

-----------------------------------------------------------------------------
(* main and the radio *)

LEMMA ConnectInv ==
  ASSUME IInv, Connect
  PROVE  IInv'
<1> DEFINE dump == <<[type |-> "MyInfo"], [type |-> "Config", preset |-> setting],
                     [type |-> "ConfigCompleteId", id |-> run + 1]>>
           k == Len(answer)
<1>s. Shape
  BY DEF IInv
<1>1. /\ main = "stopped" /\ main' = "connected"
      /\ run' = run + 1 /\ setting' = setting /\ answer' = answer \o dump
      /\ wire' = wire /\ config' = config
  BY <1>s, StepsGo DEF Connect, Shape
<1>2. wire = <<>> /\ config = {} /\ DOMAIN wire = {}
  BY <1>1 DEF IInv, ConfigInv, NothingWhenStopped
<1>3. dump \in Seq(Packet) /\ Len(dump) = 3
  BY <1>s DEF Shape, Packet
<1>4. /\ k \in Nat /\ DOMAIN answer = 1 .. k /\ DOMAIN answer' = 1 .. k + 3
      /\ answer' \in Seq(Packet)
      /\ \A i \in 1 .. k : answer'[i] = answer[i]
      /\ answer'[k + 1] = [type |-> "MyInfo"]
      /\ answer'[k + 2] = [type |-> "Config", preset |-> setting]
      /\ answer'[k + 3] = [type |-> "ConfigCompleteId", id |-> run + 1]
  <2>1. /\ answer' \in Seq(Packet) /\ Len(answer') = k + 3
        /\ k \in Nat /\ DOMAIN answer = 1 .. k /\ DOMAIN answer' = 1 .. k + 3
    BY <1>1, <1>3, <1>s, ConcatProperties, LenProperties DEF Shape
  <2>2. /\ \A i \in 1 .. k : answer'[i] = answer[i]
        /\ \A i \in 1 .. 3 : answer'[k + i] = dump[i]
    BY <1>1, <1>3, <1>s, <2>1, ConcatProperties DEF Shape
  <2>3. 1 \in 1 .. 3 /\ 2 \in 1 .. 3 /\ 3 \in 1 .. 3
    OBVIOUS
  <2> QED
    BY <2>1, <2>2, <2>3
<1> HIDE DEF dump, k
<1>5. \A i \in 1 .. k + 3 : i \in 1 .. k \/ i = k + 1 \/ i = k + 2 \/ i = k + 3
  BY <1>4
<1>6. AllCurrent'
  <2> SUFFICES ASSUME NEW i \in 1 .. k + 3
               PROVE  Current(answer[i])'
    BY <1>1, <1>2, <1>4 DEF AllCurrent
  <2>1. CASE i \in 1 .. k
    <3>1. Current(answer[i])
      BY <1>4, <2>1 DEF IInv, ConfigInv, AllCurrent
    <3>2. answer[i] \in Packet
      BY <1>s, <1>4, <2>1, ElementOfSeq, LenProperties DEF Shape
    <3>3. answer[i].type = "ConfigCompleteId" => answer[i].id \in Nat
      BY <3>2 DEF Packet
    <3> QED
      BY <1>1, <1>4, <1>s, <2>1, <3>1, <3>3 DEF Current, Shape
  <2>2. CASE i \in {k + 1, k + 2, k + 3}
    <3>1. run + 1 <= run + 1
      BY <1>s DEF Shape
    <3> QED
      BY <1>1, <1>4, <2>2, <3>1 DEF Current
  <2> QED
    BY <1>5, <2>1, <2>2
<1>7. ConfigFirst'
  <2> SUFFICES ASSUME NEW i \in 1 .. k + 3, IsComplete(answer[i])'
               PROVE  \E j \in 1 .. k + 3 : j < i /\ answer'[j].type = "Config"
    BY <1>1, <1>2, <1>4 DEF ConfigFirst
  <2>1. i \notin 1 .. k
    <3> SUFFICES ASSUME i \in 1 .. k
                 PROVE  FALSE
      OBVIOUS
    <3>1. answer[i].type = "ConfigCompleteId" /\ answer[i].id = run + 1
      BY <1>1, <1>4 DEF IsComplete
    <3>2. answer[i].id <= run
      BY <1>4, <3>1 DEF IInv, ConfigInv, AllCurrent, Current
    <3> QED
      BY <1>s, <3>1, <3>2 DEF Shape
  <2>2. i = k + 3
    BY <1>4, <1>5, <2>1 DEF IsComplete
  <2>3. k + 2 \in 1 .. k + 3 /\ k + 2 < k + 3
    BY <1>4
  <2> QED
    BY <1>4, <2>2, <2>3
<1>8. Shape'
  BY <1>s, <1>1, <1>4 DEF Shape, Steps, Connect, link, sync
<1>9. ConfigIsOurs' /\ NothingWhenStopped'
  BY <1>1, <1>8, StepNumbers DEF ConfigIsOurs, NothingWhenStopped, Done
<1>10. ReadyInv'
  BY ReadyKept DEF Connect, IInv, readyVars, link, sync
<1> QED
  BY <1>6, <1>7, <1>8, <1>9, <1>10 DEF IInv, ConfigInv

\* A packet that leaves the wire for the node.
LEMMA WaitForConfigInv ==
  ASSUME IInv, WaitForConfig
  PROVE  IInv'
<1> DEFINE packet == Head(wire)
<1>s. Shape
  BY DEF IInv
<1>1. /\ main = "connected" /\ wire # <<>> /\ wire' = Tail(wire)
      /\ config' = IF packet.type = "Config" THEN {packet.preset} ELSE config
      /\ main' = IF config' \cap Unusable # {} \/ (IsComplete(packet) /\ config = {})
                   THEN "failed"
                 ELSE IF IsComplete(packet) THEN "linked" ELSE main
      /\ run' = run /\ setting' = setting /\ answer' = answer /\ hungUp' = hungUp
  <2>1. /\ main = "connected" /\ wire # <<>> /\ wire' = Tail(wire)
        /\ run' = run /\ setting' = setting /\ answer' = answer /\ hungUp' = hungUp
    BY DEF WaitForConfig, radio
  <2>2. config' = IF packet.type = "Config" THEN {packet.preset} ELSE config
    BY DEF WaitForConfig
  <2>3. main' = IF config' \cap Unusable # {} \/ (IsComplete(packet) /\ config = {})
                  THEN "failed"
                ELSE IF IsComplete(packet) THEN "linked" ELSE main
    BY DEF WaitForConfig
  <2> QED
    BY <2>1, <2>2, <2>3
<1>2. /\ Len(wire) \in Nat /\ Len(wire) >= 1 /\ DOMAIN wire = 1 .. Len(wire)
      /\ packet = wire[1] /\ 1 \in DOMAIN wire
      /\ wire' \in Seq(Packet) /\ DOMAIN wire' = 1 .. Len(wire) - 1
      /\ \A i \in 1 .. Len(wire) - 1 : wire'[i] = wire[i + 1]
  BY <1>s, <1>1, HeadTailProperties, LenProperties, EmptySeq DEF Shape
<1> HIDE DEF packet
<1>3. config' \subseteq {setting}
  BY <1>1, <1>2 DEF IInv, ConfigInv, AllCurrent, Current
<1>4. AllCurrent'
  <2>1. \A i \in 1 .. Len(wire) - 1 : Current(wire[i + 1])
    BY <1>2 DEF IInv, ConfigInv, AllCurrent
  <2> QED
    BY <1>1, <1>2, <1>3, <2>1 DEF IInv, ConfigInv, AllCurrent, Current
<1>5. ~(IsComplete(packet) /\ config = {})
  BY <1>1, <1>2 DEF IInv, ConfigInv, ConfigFirst
<1>6. ConfigIsOurs'
  <2>1. main' = "failed" => setting \in Unusable
    BY <1>1, <1>3, <1>5
  <2>2. main' = "linked" => config' = {setting} /\ setting \in Preset
    <3> SUFFICES ASSUME main' = "linked"
                 PROVE  config' = {setting} /\ setting \in Preset
      OBVIOUS
    <3>1. IsComplete(packet) /\ config' \cap Unusable = {}
      BY <1>1
    <3>2. config' = config /\ config # {}
      BY <1>1, <1>5, <3>1 DEF IsComplete
    <3>3. config' = {setting}
      BY <1>3, <3>2
    <3> QED
      BY <1>s, <3>1, <3>3 DEF Shape
  <2>3. main' \in {"failed", "linked", "connected"}
    BY <1>1
  <2>4. setting' = setting /\ (Done("linked")' => main' = "linked")
    BY <1>1, <2>3, StepNumbers DEF Done
  <2> QED
    BY <2>1, <2>2, <2>4 DEF ConfigIsOurs
<1>7. ConfigFirst'
  <2> SUFFICES ASSUME main' = "connected", config' = {}
               PROVE  ConfigFirst'
    BY DEF ConfigFirst
  <2>1. packet.type # "Config" /\ config = {}
    BY <1>1
  <2>2. ASSUME NEW j \in DOMAIN wire, wire[j].type = "Config"
        PROVE  j - 1 \in 1 .. Len(wire) - 1 /\ wire'[j - 1].type = "Config"
    <3>1. j # 1
      BY <1>2, <2>1, <2>2
    <3>2. j - 1 \in 1 .. Len(wire) - 1 /\ (j - 1) + 1 = j
      BY <1>2, <3>1
    <3> QED
      BY <1>2, <2>2, <3>2
  <2>3. ASSUME NEW i \in DOMAIN wire', IsComplete(wire[i])'
        PROVE  \E j \in DOMAIN wire' : j < i /\ wire'[j].type = "Config"
    <3>1. i + 1 \in DOMAIN wire /\ IsComplete(wire[i + 1])
      BY <1>1, <1>2, <2>3 DEF IsComplete
    <3>2. PICK j \in DOMAIN wire : j < i + 1 /\ wire[j].type = "Config"
      BY <1>1, <2>1, <3>1 DEF IInv, ConfigInv, ConfigFirst
    <3>3. j - 1 < i
      BY <1>2, <3>2
    <3> QED
      BY <1>2, <2>2, <3>2, <3>3
  <2>4. ASSUME NEW i \in DOMAIN answer, IsComplete(answer[i])'
        PROVE  \/ hungUp
               \/ \E j \in DOMAIN wire' : wire'[j].type = "Config"
               \/ \E j \in DOMAIN answer : j < i /\ answer[j].type = "Config"
    <3>1. IsComplete(answer[i])
      BY <1>1, <2>4 DEF IsComplete
    <3> QED
      BY <1>1, <1>2, <2>1, <2>2, <3>1 DEF IInv, ConfigInv, ConfigFirst
  <2> QED
    BY <1>1, <2>3, <2>4 DEF ConfigFirst
<1>8. Shape' /\ NothingWhenStopped'
  BY <1>s, <1>1, <1>2 DEF Shape, Steps, WaitForConfig, link, sync, NothingWhenStopped
<1>9. ReadyInv'
  BY ReadyKept DEF WaitForConfig, IInv, readyVars, link, sync
<1> QED
  BY <1>4, <1>6, <1>7, <1>8, <1>9 DEF IInv, ConfigInv

\* The wait ends without a configuration: only when the radio has hung up.
LEMMA WaitIsOverInv ==
  ASSUME IInv, WaitIsOver
  PROVE  IInv'
<1>s. Shape
  BY DEF IInv
<1>1. /\ main = "connected" /\ main' = "failed" /\ hungUp /\ hungUp' = hungUp
      /\ UNCHANGED <<run, setting, answer, wire, config>> /\ UNCHANGED readyVars
  BY DEF WaitIsOver, radio, link, sync, readyVars
<1>2. Shape'
  BY <1>s, <1>1 DEF Shape, Steps, readyVars
<1>3. ~Done("linked")'
  BY <1>1, StepNumbers DEF Done
<1>4. ConfigInv'
  BY <1>1, <1>3 DEF IInv, ConfigInv, AllCurrent, Current, NothingWhenStopped, ConfigFirst,
     ConfigIsOurs
<1> QED
  BY <1>1, <1>2, <1>4, ReadyKept DEF IInv

\* The later steps of main only come when the configuration is there.
LEMMA LaterStepsInv ==
  ASSUME IInv, SyncNew \/ SyncSubscribe \/ GatewayStart \/ RelayStart
  PROVE  IInv'
<1>s. Shape
  BY DEF IInv
<1>1. /\ main \in {"linked", "handling", "subscribed", "gateway"}
      /\ main' \in {"handling", "subscribed", "gateway", "relay"}
  BY <1>s, StepsGo DEF Shape, SyncNew, SyncSubscribe, GatewayStart, RelayStart
<1>2. /\ UNCHANGED <<run, setting, answer, hungUp, wire, config>>
      /\ UNCHANGED readyVars
  BY DEF SyncNew, SyncSubscribe, GatewayStart, RelayStart, radio, link, sync, readyVars
<1>3. Shape'
  BY <1>s, <1>1, <1>2 DEF Shape, Steps, readyVars
<1>4. Done("linked")
  BY <1>s, <1>1, StepsDone DEF Shape
<1>5. ConfigInv'
  BY <1>1, <1>2, <1>4 DEF IInv, ConfigInv, AllCurrent, Current, NothingWhenStopped,
     ConfigFirst, ConfigIsOurs
<1>6. ReadyInv'
  BY <1>2, ReadyKept DEF IInv
<1> QED
  BY <1>3, <1>5, <1>6 DEF IInv

LEMMA StopInv ==
  ASSUME IInv, Stop
  PROVE  IInv'
<1>s. Shape
  BY DEF IInv
<1>1. /\ main' = "stopped" /\ wire' = <<>> /\ config' = {} /\ declared' = FALSE
      /\ hungUp' = FALSE /\ announcing' = FALSE
      /\ linkOut' = <<>> /\ isLinkReady' = FALSE
      /\ UNCHANGED <<run, setting, answer>>
  BY DEF Stop, radio
<1>2. /\ <<>> \in Seq(Packet) /\ <<>> \in Seq(Message) /\ DOMAIN <<>> = {}
  OBVIOUS
<1>3. Shape'
  BY <1>s, <1>1, <1>2 DEF Shape, Steps
<1>4. AllCurrent'
  BY <1>1, <1>2 DEF IInv, ConfigInv, AllCurrent, Current
<1>5. ConfigIsOurs'
  BY <1>1, StepNumbers DEF ConfigIsOurs, Done
<1>6. ReadyInv'
  BY <1>1, <1>2 DEF ReadyInv, OneReady, ReadyThenInfo
<1> QED
  BY <1>1, <1>3, <1>4, <1>5, <1>6 DEF IInv, ConfigInv, NothingWhenStopped, ConfigFirst

LEMMA ChangeSettingInv ==
  ASSUME IInv, ChangeSetting
  PROVE  IInv'
<1>s. Shape
  BY DEF IInv
<1>1. /\ main = "stopped" /\ main' = "stopped" /\ wire' = wire /\ config' = config
      /\ answer' = <<>> /\ setting' \in Preset \cup Unusable
      /\ UNCHANGED <<run, hungUp, linkOut, declared, announcing, isLinkReady>>
  BY DEF ChangeSetting, link, sync
<1>2. wire = <<>> /\ config = {} /\ DOMAIN wire = {}
  BY <1>1 DEF IInv, ConfigInv, NothingWhenStopped
<1>3. <<>> \in Seq(Packet) /\ DOMAIN <<>> = {}
  OBVIOUS
<1>4. Shape'
  BY <1>s, <1>1, <1>3 DEF Shape
<1>5. ConfigInv'
  BY <1>1, <1>2, <1>3, StepNumbers DEF ConfigInv, AllCurrent, NothingWhenStopped,
     ConfigFirst, ConfigIsOurs, Done
<1>6. ReadyInv'
  BY <1>1, ReadyKept DEF IInv, readyVars
<1> QED
  BY <1>4, <1>5, <1>6 DEF IInv

\* A packet is put on the wire and keeps what is known if it is no end of a
\* dump, or if the rule that holds of dumps holds of it.
LEMMA OntoWire ==
  ASSUME IInv, NEW packet \in Packet, Current(packet),
         wire' = Append(wire, packet), Done("connected"),
         UNCHANGED <<main, run, setting, config>>,
         main = "connected" /\ config = {} /\ IsComplete(packet) =>
           \E j \in DOMAIN wire : wire[j].type = "Config"
  PROVE  /\ wire' \in Seq(Packet)
         /\ \A i \in DOMAIN wire : i \in DOMAIN wire' /\ wire'[i] = wire[i]
         /\ Len(wire) + 1 \in DOMAIN wire' /\ wire'[Len(wire) + 1] = packet
         /\ \A i \in DOMAIN wire' : Current(wire[i])'
         /\ NothingWhenStopped'
         /\ main' = "connected" /\ config' = {} =>
              \A i \in DOMAIN wire' : IsComplete(wire[i])' =>
                \E j \in DOMAIN wire' : j < i /\ wire'[j].type = "Config"
<1> DEFINE k == Len(wire)
<1>s. Shape
  BY DEF IInv
<1>1. /\ wire' \in Seq(Packet) /\ k \in Nat
      /\ DOMAIN wire = 1 .. k /\ DOMAIN wire' = 1 .. k + 1
      /\ \A i \in 1 .. k : wire'[i] = wire[i]
      /\ wire'[k + 1] = packet
  BY <1>s, AppendProperties, LenProperties DEF Shape
<1> HIDE DEF k
<1>2. \A i \in 1 .. k + 1 : i \in 1 .. k \/ i = k + 1
  BY <1>1
<1>3. \A i \in DOMAIN wire : i \in DOMAIN wire' /\ i < k + 1
  BY <1>1
<1>4. \A i \in DOMAIN wire' : Current(wire[i])'
  BY <1>1, <1>2 DEF IInv, ConfigInv, AllCurrent, Current
<1>5. NothingWhenStopped'
  BY <1>s, StepsDone DEF Shape, NothingWhenStopped
<1>6. ASSUME main' = "connected", config' = {}, NEW i \in DOMAIN wire', IsComplete(wire[i])'
      PROVE  \E j \in DOMAIN wire' : j < i /\ wire'[j].type = "Config"
  <2>1. CASE i \in 1 .. k
    <3>1. IsComplete(wire[i])
      BY <1>1, <1>6, <2>1 DEF IsComplete
    <3>2. PICK j \in DOMAIN wire : j < i /\ wire[j].type = "Config"
      BY <1>1, <1>6, <2>1, <3>1 DEF IInv, ConfigInv, ConfigFirst
    <3> QED
      BY <1>1, <1>3, <3>2
  <2>2. CASE i = k + 1
    <3>1. IsComplete(packet)
      BY <1>1, <1>6, <2>2 DEF IsComplete
    <3>2. PICK j \in DOMAIN wire : wire[j].type = "Config"
      BY <1>6, <3>1
    <3> QED
      BY <1>1, <1>3, <2>2, <3>2
  <2> QED
    BY <1>1, <1>2, <2>1, <2>2
<1>7. k + 1 \in DOMAIN wire'
  BY <1>1
<1> QED
  BY <1>1, <1>3, <1>4, <1>5, <1>6, <1>7 DEF k

LEMMA RadioAnswersInv ==
  ASSUME IInv, RadioAnswers
  PROVE  IInv'
<1> DEFINE packet == Head(answer)
           m == Len(answer)
<1>s. Shape
  BY DEF IInv
<1>1. /\ answer # <<>> /\ answer' = Tail(answer)
      /\ wire' = IF Done("connected") /\ ~hungUp THEN Append(wire, packet) ELSE wire
      /\ UNCHANGED <<main, run, setting, hungUp, config>>
      /\ UNCHANGED <<linkOut, declared, announcing, isLinkReady>>
  BY DEF RadioAnswers, link, sync
<1>2. /\ m \in Nat /\ m >= 1 /\ DOMAIN answer = 1 .. m
      /\ packet = answer[1] /\ packet \in Packet /\ 1 \in DOMAIN answer
      /\ answer' \in Seq(Packet) /\ DOMAIN answer' = 1 .. m - 1
      /\ \A i \in 1 .. m - 1 : answer'[i] = answer[i + 1]
  BY <1>s, <1>1, HeadTailProperties, LenProperties, EmptySeq DEF Shape
<1> HIDE DEF packet, m
<1>3. \A i \in DOMAIN answer' : Current(answer[i])'
  <2>1. \A i \in 1 .. m - 1 : Current(answer[i + 1])
    BY <1>2 DEF IInv, ConfigInv, AllCurrent
  <2> QED
    BY <1>1, <1>2, <2>1 DEF Current
<1>4. Current(packet)
  BY <1>2 DEF IInv, ConfigInv, AllCurrent
<1>5. ConfigIsOurs'
  BY <1>1 DEF IInv, ConfigInv, ConfigIsOurs, Done
<1>6. ReadyInv'
  BY <1>1, ReadyKept DEF IInv, readyVars
<1>7. CASE ~(Done("connected") /\ ~hungUp)
  <2>1. wire' = wire /\ (main = "connected" => hungUp)
    BY <1>1, <1>7, <1>s, StepsDone DEF Shape
  <2>2. Shape'
    BY <1>s, <1>1, <1>2, <2>1 DEF Shape
  <2>3. AllCurrent' /\ NothingWhenStopped' /\ ConfigFirst'
    BY <1>1, <1>3, <2>1 DEF IInv, ConfigInv, AllCurrent, Current, NothingWhenStopped,
       ConfigFirst, IsComplete
  <2> QED
    BY <1>5, <1>6, <2>2, <2>3 DEF IInv, ConfigInv
<1>8. CASE Done("connected") /\ ~hungUp
  <2>1. main = "connected" /\ config = {} /\ IsComplete(packet) =>
          \E j \in DOMAIN wire : wire[j].type = "Config"
    BY <1>2, <1>8 DEF IInv, ConfigInv, ConfigFirst
  <2>2. /\ wire' \in Seq(Packet)
        /\ \A i \in DOMAIN wire : i \in DOMAIN wire' /\ wire'[i] = wire[i]
        /\ Len(wire) + 1 \in DOMAIN wire' /\ wire'[Len(wire) + 1] = packet
        /\ \A i \in DOMAIN wire' : Current(wire[i])'
        /\ NothingWhenStopped'
        /\ main' = "connected" /\ config' = {} =>
             \A i \in DOMAIN wire' : IsComplete(wire[i])' =>
               \E j \in DOMAIN wire' : j < i /\ wire'[j].type = "Config"
    BY <1>1, <1>2, <1>4, <1>8, <2>1, OntoWire
  <2>3. Shape'
    BY <1>s, <1>1, <1>2, <2>2 DEF Shape
  <2>4. AllCurrent'
    BY <1>1, <1>3, <2>2 DEF IInv, ConfigInv, AllCurrent
  <2>5. ASSUME main' = "connected", config' = {}, NEW i \in DOMAIN answer',
               IsComplete(answer[i])'
        PROVE  \/ \E j \in DOMAIN wire' : wire'[j].type = "Config"
               \/ \E j \in DOMAIN answer' : j < i /\ answer'[j].type = "Config"
    <3>1. i + 1 \in DOMAIN answer /\ IsComplete(answer[i + 1])
      BY <1>1, <1>2, <2>5 DEF IsComplete
    <3>2. \/ \E j \in DOMAIN wire : wire[j].type = "Config"
          \/ \E j \in DOMAIN answer : j < i + 1 /\ answer[j].type = "Config"
      BY <1>1, <1>8, <2>5, <3>1 DEF IInv, ConfigInv, ConfigFirst
    <3>3. CASE \E j \in DOMAIN wire : wire[j].type = "Config"
      BY <2>2, <3>3
    <3>4. ASSUME NEW j \in DOMAIN answer, j < i + 1, answer[j].type = "Config"
          PROVE  \/ \E l \in DOMAIN wire' : wire'[l].type = "Config"
                 \/ \E l \in DOMAIN answer' : l < i /\ answer'[l].type = "Config"
      <4>1. CASE j = 1
        BY <1>2, <2>2, <3>4, <4>1
      <4>2. CASE j # 1
        <5>1. j - 1 \in 1 .. m - 1 /\ (j - 1) + 1 = j /\ j - 1 < i
          BY <1>2, <2>5, <3>4, <4>2
        <5> QED
          BY <1>2, <3>4, <5>1
      <4> QED
        BY <4>1, <4>2
    <3> QED
      BY <3>2, <3>3, <3>4
  <2>6. ConfigFirst'
    BY <2>2, <2>5 DEF ConfigFirst
  <2> QED
    BY <1>5, <1>6, <2>2, <2>3, <2>4, <2>6 DEF IInv, ConfigInv
<1> QED
  BY <1>7, <1>8

LEMMA MeshPacketInv ==
  ASSUME IInv, NEW packet \in {Stale, OtherPort} \cup {Fresh(n) : n \in MeshNote},
         MeshPacket(packet)
  PROVE  IInv'
<1>s. Shape
  BY DEF IInv
<1>1. /\ Done("connected") /\ wire' = Append(wire, packet)
      /\ UNCHANGED <<main, run, setting, answer, hungUp, config>>
      /\ UNCHANGED <<linkOut, declared, announcing, isLinkReady>>
  BY DEF MeshPacket, radio, link, sync
<1>2. packet \in Packet /\ packet.type \in {"Stale", "OtherPort", "Fresh"}
  BY DEF Packet, Stale, OtherPort, Fresh
<1>3. Current(packet) /\ ~IsComplete(packet)
  BY <1>2 DEF Current, IsComplete
<1>4. /\ wire' \in Seq(Packet)
      /\ \A i \in DOMAIN wire : i \in DOMAIN wire' /\ wire'[i] = wire[i]
      /\ \A i \in DOMAIN wire' : Current(wire[i])'
      /\ NothingWhenStopped'
      /\ main' = "connected" /\ config' = {} =>
           \A i \in DOMAIN wire' : IsComplete(wire[i])' =>
             \E j \in DOMAIN wire' : j < i /\ wire'[j].type = "Config"
  BY <1>1, <1>2, <1>3, OntoWire
<1>5. Shape'
  BY <1>s, <1>1, <1>4 DEF Shape
<1>6. AllCurrent' /\ ConfigIsOurs'
  BY <1>1, <1>4 DEF IInv, ConfigInv, AllCurrent, Current, ConfigIsOurs, Done
<1>7. ConfigFirst'
  BY <1>1, <1>4 DEF IInv, ConfigInv, ConfigFirst, IsComplete
<1>8. ReadyInv'
  BY <1>1, ReadyKept DEF IInv, readyVars
<1> QED
  BY <1>4, <1>5, <1>6, <1>7, <1>8 DEF IInv, ConfigInv

LEMMA RadioHangsUpInv ==
  ASSUME IInv, RadioHangsUp
  PROVE  IInv'
<1>s. Shape
  BY DEF IInv
<1>1. /\ main = "connected" /\ hungUp' = TRUE
      /\ UNCHANGED <<main, run, setting, answer, wire, config>> /\ UNCHANGED readyVars
  BY DEF RadioHangsUp, link, sync, readyVars
<1>2. Shape'
  BY <1>s, <1>1 DEF Shape, readyVars
<1>3. ConfigInv'
  BY <1>1 DEF IInv, ConfigInv, AllCurrent, Current, NothingWhenStopped, ConfigFirst,
     IsComplete, ConfigIsOurs, Done
<1> QED
  BY <1>1, <1>2, <1>3, ReadyKept DEF IInv

-----------------------------------------------------------------------------
(* Link and Sync *)

\* A message that is no Ready joins the queue; between Ready and its report only
\* the report does.
LEMMA AppendKeepsReady ==
  ASSUME Shape, ReadyInv, NEW msg \in Message, msg.type # "Ready", msg # Ready,
         linkOut' = Append(linkOut, msg), UNCHANGED <<declared, isLinkReady>>,
         announcing => msg = Info, announcing' = FALSE
  PROVE  linkOut' \in Seq(Message) /\ ReadyInv'
<1> DEFINE k == Len(linkOut)
<1>1. /\ linkOut' \in Seq(Message) /\ k \in Nat /\ Len(linkOut') = k + 1
      /\ DOMAIN linkOut = 1 .. k /\ DOMAIN linkOut' = 1 .. k + 1
      /\ \A i \in 1 .. k : linkOut'[i] = linkOut[i]
      /\ linkOut'[k + 1] = msg
  BY AppendProperties, LenProperties DEF Shape
<1> HIDE DEF k
<1>2. \A i \in 1 .. k + 1 : i \in 1 .. k \/ i = k + 1
  BY <1>1
<1>3. OneReady'
  BY <1>1, <1>2 DEF ReadyInv, OneReady
<1>4. ReadyThenInfo'
  <2> SUFFICES ASSUME NEW i \in 1 .. k + 1, linkOut'[i] = Ready
               PROVE  /\ ~isLinkReady'
                      /\ i # k + 1 /\ linkOut'[i + 1] = Info
                      /\ \A j \in 1 .. k + 1 : linkOut'[j] = Ready => j = i
    BY <1>1 DEF ReadyThenInfo
  <2>1. i \in 1 .. k /\ linkOut[i] = Ready
    BY <1>1, <1>2
  <2>2. /\ ~isLinkReady
        /\ IF i = k THEN announcing ELSE linkOut[i + 1] = Info
        /\ \A j \in 1 .. k : linkOut[j] = Ready => j = i
    BY <1>1, <2>1 DEF ReadyInv, ReadyThenInfo, k
  <2>3. i # k + 1 /\ (i # k => i + 1 \in 1 .. k)
    BY <1>1, <2>1
  <2>4. linkOut'[i + 1] = Info
    BY <1>1, <2>2, <2>3
  <2>5. \A j \in 1 .. k + 1 : linkOut'[j] = Ready => j = i
    BY <1>1, <1>2, <2>2
  <2> QED
    BY <2>2, <2>3, <2>4, <2>5
<1> QED
  BY <1>1, <1>3, <1>4 DEF ReadyInv

LEMMA HandlePacketInv ==
  ASSUME IInv, HandlePacket
  PROVE  IInv'
<1> DEFINE packet == Head(wire)
<1>s. Shape
  BY DEF IInv
<1>1. /\ Done("linked") /\ wire # <<>> /\ wire' = Tail(wire)
      /\ UNCHANGED <<main, run, setting, answer, hungUp, config>>
      /\ UNCHANGED <<declared, announcing, isLinkReady>>
  BY DEF HandlePacket, radio, sync
<1>2. /\ linkOut' = IF packet.type = "Fresh" THEN Append(linkOut, packet) ELSE linkOut
      /\ packet.type = "Fresh" => ~announcing
  BY DEF HandlePacket, NeedsLock
<1>3. /\ Len(wire) \in Nat /\ Len(wire) >= 1 /\ DOMAIN wire = 1 .. Len(wire)
      /\ packet \in Packet
      /\ wire' \in Seq(Packet) /\ DOMAIN wire' = 1 .. Len(wire) - 1
      /\ \A i \in 1 .. Len(wire) - 1 : wire'[i] = wire[i + 1]
  BY <1>s, <1>1, HeadTailProperties, LenProperties, EmptySeq DEF Shape
<1> HIDE DEF packet
<1>4. linkOut' \in Seq(Message) /\ ReadyInv'
  <2>1. CASE packet.type = "Fresh"
    <3>1. packet \in Message /\ packet.type # "Ready" /\ packet # Ready
      BY <1>3, <2>1 DEF Message, Ready
    <3>2. announcing' = FALSE
      BY <1>s, <1>1, <1>2, <2>1 DEF Shape
    <3> QED
      BY <1>s, <1>1, <1>2, <2>1, <3>1, <3>2, AppendKeepsReady DEF IInv
  <2>2. CASE packet.type # "Fresh"
    BY <1>s, <1>1, <1>2, <2>2, ReadyKept DEF IInv, Shape, readyVars
  <2> QED
    BY <2>1, <2>2
<1>5. Shape'
  BY <1>s, <1>1, <1>3, <1>4 DEF Shape
<1>6. AllCurrent'
  <2>1. \A i \in 1 .. Len(wire) - 1 : Current(wire[i + 1])
    BY <1>3 DEF IInv, ConfigInv, AllCurrent
  <2> QED
    BY <1>1, <1>3, <2>1 DEF IInv, ConfigInv, AllCurrent, Current
<1>7. main \notin {"failed", "stopped", "connected"}
  BY <1>s, <1>1, StepsDone DEF Shape
<1>8. NothingWhenStopped' /\ ConfigFirst' /\ ConfigIsOurs'
  BY <1>1, <1>7 DEF IInv, ConfigInv, NothingWhenStopped, ConfigFirst, ConfigIsOurs, Done
<1> QED
  BY <1>4, <1>5, <1>6, <1>8 DEF IInv, ConfigInv

LEMMA DeclareReadyInv ==
  ASSUME IInv, DeclareReady
  PROVE  IInv'
<1> DEFINE k == Len(linkOut)
<1>s. Shape
  BY DEF IInv
<1>1. /\ ~declared /\ declared' = TRUE /\ announcing' = TRUE
      /\ linkOut' = Append(linkOut, Ready)
      /\ UNCHANGED configVars /\ UNCHANGED isLinkReady
  BY DEF DeclareReady, configVars, radio, sync
<1>2. Ready \in Message
  BY DEF Message
<1>3. /\ linkOut' \in Seq(Message) /\ k \in Nat /\ Len(linkOut') = k + 1
      /\ DOMAIN linkOut = 1 .. k /\ DOMAIN linkOut' = 1 .. k + 1
      /\ \A i \in 1 .. k : linkOut'[i] = linkOut[i]
      /\ linkOut'[k + 1] = Ready
  BY <1>s, <1>1, <1>2, AppendProperties, LenProperties DEF Shape
<1> HIDE DEF k
<1>4. \A i \in 1 .. k + 1 : i \in 1 .. k \/ i = k + 1
  BY <1>3
<1>5. ~isLinkReady /\ \A i \in 1 .. k : linkOut[i] # Ready
  BY <1>1, <1>3 DEF IInv, ReadyInv, OneReady
<1>6. OneReady'
  <2>1. \A i \in 1 .. k : linkOut[i].type = "Ready" => linkOut[i] = Ready
    BY <1>3 DEF IInv, ReadyInv, OneReady
  <2>2. \A i \in 1 .. k + 1 : linkOut'[i].type = "Ready" => linkOut'[i] = Ready
    BY <1>3, <1>4, <2>1
  <2>3. k + 1 \in 1 .. k + 1
    BY <1>3
  <2> QED
    BY <1>1, <1>3, <2>2, <2>3 DEF OneReady
<1>7. ReadyThenInfo'
  <2>1. \A i \in 1 .. k + 1 : linkOut'[i] = Ready => i = k + 1
    BY <1>3, <1>4, <1>5
  <2> QED
    BY <1>1, <1>3, <1>5, <2>1 DEF ReadyThenInfo
<1>8. Shape'
  BY <1>s, <1>1, <1>3 DEF Shape, configVars
<1> QED
  BY <1>1, <1>6, <1>7, <1>8, ConfigKept DEF IInv, ReadyInv

\* The report that follows Ready, and the one of the other task.
LEMMA InfoInv ==
  ASSUME IInv, FollowWithInfo \/ ReportInfo
  PROVE  IInv'
<1>1. /\ linkOut' = Append(linkOut, Info) /\ announcing' = FALSE
      /\ UNCHANGED configVars /\ UNCHANGED <<declared, isLinkReady>>
  <2>1. CASE FollowWithInfo
    BY <2>1 DEF FollowWithInfo, configVars, radio, sync
  <2>2. CASE ReportInfo
    BY <2>2 DEF ReportInfo, configVars, radio, link, sync, IInv, Shape
  <2> QED
    BY <2>1, <2>2
<1>2. Info \in Message /\ Info # Ready /\ Info.type # "Ready"
  BY DEF Info, Ready, Message
<1>3. linkOut' \in Seq(Message) /\ ReadyInv'
  BY <1>1, <1>2, AppendKeepsReady DEF IInv
<1>4. Shape'
  BY <1>1, <1>3 DEF IInv, Shape, configVars
<1> QED
  BY <1>1, <1>3, <1>4, ConfigKept DEF IInv

LEMMA HandleLinkMessageInv ==
  ASSUME IInv, HandleLinkMessage
  PROVE  IInv'
<1> DEFINE k == Len(linkOut)
           msg == Head(linkOut)
<1>s. Shape
  BY DEF IInv
<1>1. /\ linkOut # <<>> /\ linkOut' = Tail(linkOut)
      /\ UNCHANGED configVars /\ UNCHANGED <<declared, announcing>>
  BY DEF HandleLinkMessage, configVars, radio, link
<1>2. isLinkReady' = (isLinkReady \/ msg.type = "Ready")
  BY DEF HandleLinkMessage
<1>3. /\ k \in Nat /\ k >= 1 /\ DOMAIN linkOut = 1 .. k
      /\ msg = linkOut[1] /\ 1 \in 1 .. k
      /\ linkOut' \in Seq(Message) /\ Len(linkOut') = k - 1
      /\ DOMAIN linkOut' = 1 .. k - 1
      /\ \A i \in 1 .. k - 1 : linkOut'[i] = linkOut[i + 1]
  BY <1>s, <1>1, HeadTailProperties, LenProperties, EmptySeq DEF Shape
<1> HIDE DEF msg
<1>4. msg.type = "Ready" => msg = Ready
  BY <1>3 DEF IInv, ReadyInv, OneReady
<1>5. \A i \in 1 .. k - 1 : i + 1 \in 1 .. k
  BY <1>3
<1>6. Ready.type = "Ready"
  BY DEF Ready
<1>7. ASSUME announcing, ~isLinkReady
      PROVE  k \in 1 .. k /\ linkOut[k] = Ready
  BY <1>3, <1>7 DEF IInv, ReadyInv, OneReady
<1>8. OneReady'
  <2>1. \A i \in 1 .. k - 1 : linkOut'[i].type = "Ready" => linkOut'[i] = Ready
    BY <1>3, <1>5 DEF IInv, ReadyInv, OneReady
  <2>2. ASSUME ~declared
        PROVE  ~isLinkReady' /\ ~announcing /\ \A i \in 1 .. k - 1 : linkOut'[i] # Ready
    <3>1. ~isLinkReady /\ ~announcing /\ \A i \in 1 .. k : linkOut[i] # Ready
      BY <1>3, <2>2 DEF IInv, ReadyInv, OneReady
    <3> QED
      BY <1>2, <1>3, <1>4, <1>5, <3>1
  <2>3. ASSUME announcing, ~isLinkReady'
        PROVE  k - 1 \in 1 .. k - 1 /\ linkOut'[k - 1] = Ready
    <3>1. linkOut[k] = Ready /\ msg.type # "Ready"
      BY <1>2, <1>7, <2>3
    <3>2. k # 1
      BY <1>3, <1>6, <3>1
    <3>3. k - 1 \in 1 .. k - 1 /\ (k - 1) + 1 = k
      BY <1>3, <3>2
    <3> QED
      BY <1>3, <3>1, <3>3
  <2> QED
    BY <1>1, <1>3, <2>1, <2>2, <2>3 DEF OneReady
<1>9. ReadyThenInfo'
  <2>1. ASSUME NEW i \in 1 .. k - 1, linkOut'[i] = Ready
        PROVE  /\ ~isLinkReady'
               /\ IF i = k - 1 THEN announcing ELSE linkOut'[i + 1] = Info
               /\ \A j \in 1 .. k - 1 : linkOut'[j] = Ready => j = i
    <3>1. i + 1 \in 1 .. k /\ linkOut[i + 1] = Ready
      BY <1>3, <1>5, <2>1
    <3>2. /\ ~isLinkReady
          /\ IF i + 1 = k THEN announcing ELSE linkOut[(i + 1) + 1] = Info
          /\ \A j \in 1 .. k : linkOut[j] = Ready => j = i + 1
      BY <1>3, <3>1 DEF IInv, ReadyInv, ReadyThenInfo
    <3>3. msg.type # "Ready"
      BY <1>3, <1>4, <3>2
    <3>4. i \in Nat /\ k \in Nat
      BY <1>3, <2>1
    <3>5. /\ i = k - 1 => i + 1 = k
          /\ i # k - 1 => i + 1 # k /\ i + 1 \in 1 .. k - 1
      <4> HIDE DEF k
      <4> QED
        BY <2>1, <3>4
    <3>6. ASSUME NEW j \in 1 .. k - 1, linkOut'[j] = Ready
          PROVE  j = i
      <4>1. j + 1 = i + 1
        BY <1>3, <1>5, <3>2, <3>6
      <4> QED
        BY <4>1
    <3> QED
      BY <1>2, <1>3, <3>2, <3>3, <3>5, <3>6
  <2>2. ASSUME announcing, isLinkReady'
        PROVE  linkOut' = <<>>
    <3>1. ~isLinkReady
      BY <1>1, <2>2 DEF IInv, ReadyInv, ReadyThenInfo
    <3>2. msg = Ready /\ linkOut[k] = Ready
      BY <1>2, <1>4, <1>7, <2>2, <3>1
    <3>3. \A i, j \in 1 .. k : linkOut[i] = Ready /\ linkOut[j] = Ready => i = j
      BY <1>3 DEF IInv, ReadyInv, ReadyThenInfo
    <3>4. k = 1
      BY <1>3, <1>7, <2>2, <3>1, <3>2, <3>3
    <3> QED
      BY <1>3, <3>4, EmptySeq
  <2> QED
    BY <1>1, <1>3, <2>1, <2>2 DEF ReadyThenInfo
<1>10. Shape'
  <2>1. isLinkReady' \in BOOLEAN
    BY <1>2
  <2> QED
    BY <1>s, <1>1, <1>3, <2>1 DEF Shape, configVars
<1> QED
  BY <1>1, <1>8, <1>9, <1>10, ConfigKept DEF IInv, ReadyInv

-----------------------------------------------------------------------------

LEMMA NextInv ==
  ASSUME IInv, [Next]_vars
  PROVE  IInv'
<1>1. ASSUME UNCHANGED configVars, UNCHANGED readyVars
      PROVE  IInv'
  <2>1. Shape'
    BY <1>1 DEF IInv, Shape, configVars, readyVars
  <2> QED
    BY <1>1, <2>1, ConfigKept, ReadyKept DEF IInv
<1>2. CASE Main
  BY <1>2, ConnectInv, WaitForConfigInv, WaitIsOverInv, LaterStepsInv DEF Main
<1>3. CASE Stop
  BY <1>3, StopInv
<1>4. CASE Radio
  BY <1>4, RadioAnswersInv, ChangeSettingInv, RadioHangsUpInv, MeshPacketInv DEF Radio
<1>5. CASE \/ HandlePacket \/ DeclareReady \/ FollowWithInfo \/ ReportInfo
           \/ HandleLinkMessage
  BY <1>5, HandlePacketInv, DeclareReadyInv, InfoInv, HandleLinkMessageInv
<1>6. CASE PostponeReady \/ Tick
  BY <1>1, <1>6 DEF PostponeReady, Tick, configVars, readyVars, radio, sync
<1>7. CASE \/ RelayNote \/ NotifyClients \/ GatewayListen \/ GatewayLagged
           \/ \E n \in LocalNote : GatewayEvent(n) \/ Publish(n)
           \/ \E n \in MeshNote \cup LocalNote : Ingest(n)
  BY <1>1, <1>7 DEF RelayNote, NotifyClients, GatewayListen, GatewayLagged,
     GatewayEvent, Publish, Ingest, configVars, readyVars, radio, link, sync
<1>8. CASE UNCHANGED vars
  BY <1>1, <1>8 DEF vars, configVars, readyVars, radio, link, sync
<1> QED
  BY <1>2, <1>3, <1>4, <1>5, <1>6, <1>7, <1>8 DEF Next, Link

LEMMA AlwaysInv == Spec => []IInv
BY InitInv, NextInv, PTL DEF Spec

\* A node past create_link works with the preset its radio is set to, and only a
\* setting the code cannot use or a radio that hangs up fails it, however many runs
\* were interrupted in the middle of a configuration dump (lib.rs:236-320).
THEOREM ConfigIsTheRadios == Spec => []ConfigIsOurs
<1>1. IInv => ConfigIsOurs
  BY DEF IInv, ConfigInv
<1> QED
  BY <1>1, AlwaysInv, PTL

\* Sync gets one Ready a run and a report of the queues as the next message: no
\* message of the listener and no report of the other task comes in between the two
\* sends of maybe_declare_ready (link.rs:146-196,326-431, sync.rs:161-164).
THEOREM ReadyBringsInfo == Spec => []ReadyThenInfo
<1>1. IInv => ReadyThenInfo
  BY DEF IInv, ReadyInv
<1> QED
  BY <1>1, AlwaysInv, PTL
=============================================================================
