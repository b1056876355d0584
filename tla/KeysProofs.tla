----------------------------- MODULE KeysProofs -----------------------------
(* Publishing the keys implements the abstract ports, for every length of  *)
(* a report and all keys.                                                  *)
EXTENDS Keys, TLAPS

(* The four key ports, in the order of the fields of KeyOf and in that of  *)
(* the writes.                                                             *)
LEMMA KeyPorts == /\ KeyPort = {"s", "w", "down", "up"}
                  /\ \A n \in 1..4 : ClearOrder[n] \in KeyPort
                  /\ \A k \in KeyPort : \E n \in 1..4 : ClearOrder[n] = k
                  /\ \A m, n \in 1..4 : ClearOrder[m] = ClearOrder[n] => m = n
  <1>1. KeyPort = {"s", "w", "down", "up"}
    BY DEF KeyPort, KeyOf
  <1>2. ClearOrder[1] = "s" /\ ClearOrder[2] = "w" /\ ClearOrder[3] = "up" /\ ClearOrder[4] = "down"
    BY DEF ClearOrder
  <1>3. \A n \in 1..4 : n = 1 \/ n = 2 \/ n = 3 \/ n = 4
    OBVIOUS
  <1> QED
    BY <1>1, <1>2, <1>3

LEMMA PortsAndKeycode == KeyPort \subseteq Port /\ "keycode" \in Port /\ "keycode" \notin KeyPort
  BY KeyPorts DEF Port

(* A report holds key codes only.                                          *)
LEMMA ReportsAreCodes ==
  ASSUME NEW h \in SUBSET HidCodes, NEW r \in Reports(h)
  PROVE  r \in [Slots -> 0..255]
  <1>1. CASE Fits(h)
    <2>1. r \in [Slots -> h \cup {0}]
      BY <1>1 DEF Reports
    <2>2. h \cup {0} \subseteq 0..255
      BY KeysAssumption
    <2> QED
      BY <2>1, <2>2
  <1>2. CASE ~Fits(h)
    <2>1. r = [n \in Slots |-> TooManyKeys]
      BY <1>2 DEF Reports
    <2> QED
      BY <2>1 DEF TooManyKeys
  <1> QED
    BY <1>1, <1>2

(* Every variable keeps its type; nothing is read past the report.         *)
THEOREM KeysTypeCorrect == KeysSpec => []KeysTypeOK
  <1>1. KeysInit => KeysTypeOK
    <2> SUFFICES ASSUME KeysInit PROVE KeysTypeOK
      OBVIOUS
    <2>1. pc = "poll" /\ i \in 1..4
      BY DEF KeysInit
    <2>2. keycodes \in [Slots -> 0..255] /\ keySet \in [KeyPort -> BOOLEAN]
      BY DEF KeysInit, NoKeys
    <2>3. port \in [Port -> 0..255]
      BY DEF KeysInit
    <2> QED
      BY <2>1, <2>2, <2>3 DEF KeysInit, KeysTypeOK
  <1>2. KeysTypeOK /\ [KeysNext]_keysVars => KeysTypeOK'
    <2> SUFFICES ASSUME KeysTypeOK, [KeysNext]_keysVars PROVE KeysTypeOK'
      OBVIOUS
    <2> USE KeysAssumption, PortsAndKeycode
    <2>1. CASE ChangeKeys \/ PlugKeyboard \/ UnplugKeyboard
      <3>1. UNCHANGED programVars
        BY <2>1 DEF ChangeKeys, PlugKeyboard, UnplugKeyboard
      <3>2. polled' \in BOOLEAN /\ held' \in SUBSET HidCodes /\ changed' \in BOOLEAN
        BY <2>1 DEF KeysTypeOK, ChangeKeys, PlugKeyboard, UnplugKeyboard
      <3> QED
        BY <3>1, <3>2 DEF KeysTypeOK, programVars
    <2>2. CASE Poll
      <3>1. keycodes' \in [Slots -> 0..255]
        BY <2>2, ReportsAreCodes DEF KeysTypeOK, Poll
      <3>2. i' \in Slots
        BY <2>2 DEF Poll, Slots
      <3> QED
        BY <2>2, <3>1, <3>2 DEF KeysTypeOK, Poll
    <2>3. CASE Scan
      <3>1. pc' \in {"scan", "clear"} /\ i' \in IF pc' = "scan" THEN Slots ELSE 1..4
        BY <2>3 DEF KeysTypeOK, Scan, Slots
      <3>2. port' \in [Port -> 0..255] /\ keySet' \in [KeyPort -> BOOLEAN]
        BY <2>3 DEF KeysTypeOK, Scan
      <3> QED
        BY <2>3, <3>1, <3>2 DEF KeysTypeOK, Scan, keyboardVars
    <2>4. CASE Clear
      <3>1. pc' \in {"clear", "code"} /\ i' \in 1..4
        BY <2>4 DEF KeysTypeOK, Clear
      <3>2. port' \in [Port -> 0..255]
        <4>1. port' = port \/ port' = [port EXCEPT ![ClearOrder[i]] = 0]
          BY <2>4 DEF Clear
        <4> QED
          BY <4>1 DEF KeysTypeOK
      <3>3. keySet' \in [KeyPort -> BOOLEAN]
        BY <2>4 DEF KeysTypeOK, Clear
      <3> QED
        BY <2>4, <3>1, <3>2, <3>3 DEF KeysTypeOK, Clear, keyboardVars
    <2>5. CASE SetKeycode
      BY <2>5, SMTT(30) DEF KeysTypeOK, SetKeycode, keyboardVars, Slots
    <2>6. CASE UNCHANGED keysVars
      BY <2>6 DEF KeysTypeOK, keysVars, programVars, keyboardVars
    <2> QED
      BY <2>1, <2>2, <2>3, <2>4, <2>5, <2>6 DEF KeysNext, Publish
  <1> QED
    BY <1>1, <1>2, PTL DEF KeysSpec

LEMMA TargetUnchanged ==
  ASSUME UNCHANGED keycodes PROVE Target' = Target
  BY DEF Target, Pressed

(* At the start no key is pressed, and the ports say so.                   *)
LEMMA NothingPressed ==
  ASSUME KeysInit PROVE port = Target
  <1>1. \A n \in Slots : keycodes[n] = 0
    BY DEF KeysInit, NoKeys
  <1>2. \A k \in KeyPort : KeyOf[k] # 0
    BY KeyPorts DEF KeyOf
  <1>3. \A k \in KeyPort : ~Pressed(k)
    BY <1>1, <1>2 DEF Pressed
  <1>4. 1 \in Slots
    BY KeysAssumption DEF Slots
  <1>5. \A p \in Port : Target[p] = 0
    BY <1>1, <1>3, <1>4 DEF Target, Port
  <1> QED
    BY <1>5 DEF KeysInit, Target

(* The flags and the ports follow the report step by step.                 *)
THEOREM PublishedCorrect == KeysSpec => []Published
  <1>1. KeysInit => Published
    BY NothingPressed DEF KeysInit, Published
  <1>2. KeysTypeOK /\ Published /\ [KeysNext]_keysVars => Published'
    <2> SUFFICES ASSUME KeysTypeOK, Published, [KeysNext]_keysVars PROVE Published'
      OBVIOUS
    <2> USE KeysAssumption
    <2>1. CASE ChangeKeys \/ PlugKeyboard \/ UnplugKeyboard \/ UNCHANGED keysVars
      <3>1. UNCHANGED programVars
        BY <2>1 DEF ChangeKeys, PlugKeyboard, UnplugKeyboard, keysVars
      <3> QED
        BY <3>1, TargetUnchanged DEF Published, programVars, KeyIsSet, Pressed
    <2>2. CASE Poll
      <3>1. pc' = "scan" /\ i' = 1 /\ \A k \in KeyPort : ~keySet'[k]
        BY <2>2 DEF Poll, Published
      <3> QED
        BY <3>1 DEF Published
    <2>3. CASE Scan
      <3>1. UNCHANGED keycodes /\ pc = "scan" /\ i \in 1..Rollover
        BY <2>3 DEF Scan, KeysTypeOK, Slots
      <3>2. ASSUME NEW k \in KeyPort
            PROVE  IF \E n \in 1..i : keycodes[n] = KeyOf[k] THEN KeyIsSet(k)' ELSE ~keySet'[k]
        <4>1. (\E n \in 1..i : keycodes[n] = KeyOf[k])
                <=> (\E n \in 1..(i - 1) : keycodes[n] = KeyOf[k]) \/ keycodes[i] = KeyOf[k]
          BY <3>1
        <4>2. /\ keySet'[k] = (keycodes[i] = KeyOf[k] \/ keySet[k])
              /\ port'[k] = IF keycodes[i] = KeyOf[k] THEN 1 ELSE port[k]
          BY <2>3, PortsAndKeycode DEF Scan
        <4>3. IF \E n \in 1..(i - 1) : keycodes[n] = KeyOf[k] THEN KeyIsSet(k) ELSE ~keySet[k]
          BY <3>1 DEF Published
        <4> QED
          BY <4>1, <4>2, <4>3 DEF KeyIsSet
      <3>3. CASE i < Rollover
        <4>1. pc' = "scan" /\ i' - 1 = i
          BY <2>3, <3>3, <3>1 DEF Scan
        <4> QED
          BY <3>1, <3>2, <4>1 DEF Published
      <3>4. CASE i = Rollover
        <4>1. pc' = "clear" /\ i' = 1
          BY <2>3, <3>4 DEF Scan
        <4>2. \A k \in KeyPort : IF Pressed(k)' THEN KeyIsSet(k)' ELSE ~keySet'[k]
          BY <3>1, <3>2, <3>4 DEF Pressed, Slots
        <4> QED
          BY <4>1, <4>2, KeyPorts DEF Published
      <3> QED
        BY <3>1, <3>3, <3>4
    <2>4. CASE Clear
      <3> DEFINE c == ClearOrder[i]
      <3>1. UNCHANGED keycodes /\ pc = "clear" /\ i \in 1..4 /\ c \in KeyPort
        BY <2>4, KeyPorts DEF Clear, KeysTypeOK
      <3>2. port'[c] = Target'[c] /\ ~keySet'[c]
        <4>1. IF Pressed(c) THEN KeyIsSet(c) ELSE ~keySet[c]
          BY <3>1 DEF Published
        <4>2. Target'[c] = IF Pressed(c) THEN 1 ELSE 0
          BY <3>1, PortsAndKeycode DEF Target, Pressed
        <4>3. port'[c] = (IF keySet[c] THEN port[c] ELSE 0) /\ ~keySet'[c]
          BY <2>4, <3>1, PortsAndKeycode DEF Clear, KeysTypeOK
        <4> QED
          BY <4>1, <4>2, <4>3 DEF KeyIsSet
      <3>3. ASSUME NEW k \in KeyPort, k # c
            PROVE  port'[k] = port[k] /\ keySet'[k] = keySet[k]
        BY <2>4, <3>1, <3>3, PortsAndKeycode DEF Clear, KeysTypeOK
      <3>4. \A n \in 1..4 :
              LET k == ClearOrder[n]
              IN  IF n < i + 1 THEN port'[k] = Target'[k] /\ ~keySet'[k]
                  ELSE IF Pressed(k)' THEN KeyIsSet(k)' ELSE ~keySet'[k]
        <4> TAKE n \in 1..4
        <4> DEFINE k == ClearOrder[n]
        <4>1. CASE n = i
          BY <4>1, <3>1, <3>2
        <4>2. CASE n # i
          <5>1. k \in KeyPort /\ k # c
            BY <4>2, <3>1, KeyPorts
          <5>2. IF n < i THEN port[k] = Target[k] /\ ~keySet[k]
                ELSE IF Pressed(k) THEN KeyIsSet(k) ELSE ~keySet[k]
            BY <3>1 DEF Published
          <5>3. Target' = Target /\ Pressed(k)' = Pressed(k)
            BY <3>1, TargetUnchanged DEF Pressed
          <5>4. port'[k] = port[k] /\ keySet'[k] = keySet[k]
            BY <5>1, <3>3
          <5>5. n < i + 1 <=> n < i
            BY <4>2, <3>1
          <5> QED
            BY <5>2, <5>3, <5>4, <5>5 DEF KeyIsSet
        <4> QED
          BY <4>1, <4>2
      <3>5. CASE i < 4
        <4>1. pc' = "clear" /\ i' = i + 1
          BY <2>4, <3>5 DEF Clear
        <4> QED
          BY <3>4, <4>1 DEF Published
      <3>6. CASE i = 4
        <4>1. pc' = "code"
          BY <2>4, <3>6 DEF Clear
        <4>2. \A k \in KeyPort : port'[k] = Target'[k] /\ ~keySet'[k]
          BY <3>4, <3>6, KeyPorts
        <4> QED
          BY <4>1, <4>2 DEF Published
      <3> QED
        BY <3>1, <3>5, <3>6
    <2>5. CASE SetKeycode
      <3>1. /\ pc' = "poll" /\ UNCHANGED <<keycodes, keySet>>
            /\ port' = [port EXCEPT !["keycode"] = keycodes[1]]
        BY <2>5 DEF SetKeycode
      <3>2. \A k \in KeyPort : port[k] = Target[k] /\ ~keySet[k]
        BY <2>5 DEF SetKeycode, Published
      <3>3. \A p \in Port : port'[p] = Target[p]
        BY <3>1, <3>2, PortsAndKeycode DEF KeysTypeOK, Target, Port
      <3>4. port' = Target'
        <4>1. port' = [p \in Port |-> port'[p]]
          BY <3>1 DEF KeysTypeOK
        <4>2. Target = [p \in Port |-> Target[p]]
          BY DEF Target
        <4> QED
          BY <3>1, <3>3, <4>1, <4>2, TargetUnchanged
      <3> QED
        BY <3>1, <3>2, <3>4 DEF Published
    <2> QED
      BY <2>1, <2>2, <2>3, <2>4, <2>5 DEF KeysNext, Publish
  <1> QED
    BY <1>1, <1>2, KeysTypeCorrect, PTL DEF KeysSpec

(* The writes of a report are seen one port at a time, each straight from  *)
(* its value for the last report to that for the next (main.c:196-232).    *)
THEOREM KeysImplementPorts == KeysSpec => ImplementsKeyPorts
  <1>1. KeysInit => Ports!PortsInit
    BY NothingPressed DEF KeysInit, Ports!PortsInit
  <1>2. KeysTypeOK /\ KeysTypeOK' /\ Published /\ [KeysNext]_keysVars
          => [Ports!PortsNext]_(Ports!portVars)
    <2> SUFFICES ASSUME KeysTypeOK, KeysTypeOK', Published, [KeysNext]_keysVars
                 PROVE  [Ports!PortsNext]_(Ports!portVars)
      OBVIOUS
    <2>1. CASE ChangeKeys \/ PlugKeyboard \/ UnplugKeyboard \/ UNCHANGED keysVars
      <3>1. UNCHANGED programVars
        BY <2>1 DEF ChangeKeys, PlugKeyboard, UnplugKeyboard, keysVars
      <3> QED
        BY <3>1, TargetUnchanged DEF programVars, Ports!portVars
    <2>2. CASE Poll
      <3>1. port = Target /\ UNCHANGED port
        BY <2>2 DEF Poll, Published
      <3>2. Target' \in [Port -> 0..255]
        <4>1. 1 \in Slots
          BY KeysAssumption DEF Slots
        <4>2. keycodes'[1] \in 0..255
          BY <4>1 DEF KeysTypeOK
        <4> QED
          BY <4>2 DEF Target
      <3> QED
        BY <3>1, <3>2 DEF Ports!PortsNext, Ports!NewReport
    <2>3. CASE Scan
      <3>1. Target' = Target /\ i \in Slots
        BY <2>3, TargetUnchanged DEF Scan, KeysTypeOK
      <3>2. CASE \E k \in KeyPort : keycodes[i] = KeyOf[k]
        <4>1. PICK k \in KeyPort : keycodes[i] = KeyOf[k]
          BY <3>2
        <4>2. \A j \in KeyPort : keycodes[i] = KeyOf[j] => j = k
          BY <4>1, KeyPorts DEF KeyOf
        <4>3. port' = [p \in Port |-> IF p = k THEN 1 ELSE port[p]]
          <5>1. {j \in KeyPort : keycodes[i] = KeyOf[j]} = {k}
            BY <4>1, <4>2
          <5> QED
            BY <2>3, <5>1 DEF Scan
        <4>4. k \in Port /\ Target[k] = 1
          BY <3>1, <4>1, PortsAndKeycode DEF Target, Pressed
        <4>5. port' = [port EXCEPT ![k] = Target[k]]
          BY <4>3, <4>4 DEF KeysTypeOK
        <4> QED
          BY <3>1, <4>4, <4>5 DEF Ports!PortsNext, Ports!Show
      <3>3. CASE ~\E k \in KeyPort : keycodes[i] = KeyOf[k]
        <4>1. port' = [p \in Port |-> port[p]]
          BY <2>3, <3>3 DEF Scan
        <4>2. port' = port
          BY <4>1 DEF KeysTypeOK
        <4> QED
          BY <3>1, <4>2 DEF Ports!portVars
      <3> QED
        BY <3>2, <3>3
    <2>4. CASE Clear
      <3> DEFINE c == ClearOrder[i]
      <3>1. Target' = Target /\ i \in 1..4 /\ pc = "clear" /\ c \in KeyPort
        BY <2>4, TargetUnchanged, KeyPorts DEF Clear, KeysTypeOK
      <3>2. CASE keySet[c]
        BY <2>4, <3>1, <3>2 DEF Clear, Ports!portVars
      <3>3. CASE ~keySet[c]
        <4>1. ~Pressed(c)
          BY <3>1, <3>3 DEF Published, KeyIsSet
        <4>2. c \in Port /\ Target[c] = 0
          BY <3>1, <4>1, PortsAndKeycode DEF Target
        <4>3. port' = [port EXCEPT ![c] = 0]
          BY <2>4, <3>3 DEF Clear
        <4> HIDE DEF c
        <4>4. port' = [port EXCEPT ![c] = Target[c]]
          BY <4>2, <4>3
        <4> QED
          BY <3>1, <4>2, <4>4 DEF Ports!PortsNext, Ports!Show
      <3> QED
        BY <3>2, <3>3
    <2>5. CASE SetKeycode
      <3>1. Target' = Target /\ "keycode" \in Port
        BY <2>5, TargetUnchanged, PortsAndKeycode DEF SetKeycode
      <3>2. port' = [port EXCEPT !["keycode"] = Target["keycode"]]
        BY <2>5, <3>1 DEF SetKeycode, Target
      <3> QED
        BY <3>1, <3>2 DEF Ports!PortsNext, Ports!Show
    <2> QED
      BY <2>1, <2>2, <2>3, <2>4, <2>5 DEF KeysNext, Publish
  <1> QED
    BY <1>1, <1>2, KeysTypeCorrect, PublishedCorrect, PTL
    DEF KeysSpec, ImplementsKeyPorts, Ports!PortsSpec

=============================================================================
