------------------------- MODULE MqttClientProofs ---------------------------
(***************************************************************************)
(* The MQTT client's connection invariants, for all time-outs, queue and   *)
(* DNS table sizes, and however often the environment fails.               *)
(***************************************************************************)
EXTENDS MqttClient, TLAPS

(* The budgets the invariants look at are numbers.                         *)
LEMMA LeftFacts ==
  ASSUME NEW l \in Left
  PROVE  l["late"] \in Nat /\ l["memory"] \in Nat
BY DEF Left

(* What spending does to them.                                             *)
LEMMA SpendKeeps ==
  ASSUME left \in Left, NEW what \in {"drops", "faults", "memory", "late", "work"},
         Spend(what)
  PROVE  /\ left' \in Left
         /\ left'["late"] <= left["late"]
         /\ left'["memory"] <= left["memory"]
         /\ what = "memory" => left'["memory"] < left["memory"]
         /\ what = "late" => left'["late"] < left["late"]
BY DEF Spend, Left

LEMMA InitIInv == Init => IInv
<1> SUFFICES ASSUME Init PROVE IInv
  OBVIOUS
<1> USE ConstantsAssumption DEF Init, ConnState, Online
<1>1. Budget["late"] \in Nat /\ Budget["memory"] \in Nat
  BY LeftFacts
<1>2. TypeOK
  <2>1. {pCon, timerOn, posted, wifi, inflight, refused} \subseteq BOOLEAN
    OBVIOUS
  <2>2. /\ connState \in ConnState /\ host \in Hosts /\ left \in Left
        /\ link \in {"none", "syn", "open", "closing"}
        /\ broker \in {"none", "asked", "up"}
    OBVIOUS
  <2>3. /\ reconnectTick \in 0 .. ReconnectTimeout
        /\ keepAliveTick \in 0 .. (KeepAliveHalf + 1)
        /\ sendTimeout \in 0 .. SendTimout
        /\ queue \in 0 .. QueueRoom
        /\ dns \in 0 .. 1 /\ stale \in 0 .. DnsTable
    OBVIOUS
  <2> QED
    BY <2>1, <2>2, <2>3 DEF TypeOK
<1>3. OnlineHasSession /\ NeverStranded /\ NoStall
  BY DEF OnlineHasSession, NeverStranded, NoStall
<1>4. Bookkeeping /\ SendTimed
  BY <1>1 DEF Bookkeeping, SendTimed
<1> QED
  BY <1>2, <1>3, <1>4 DEF IInv

LEMMA TaskIdleKeeps ==
  ASSUME IInv, TaskIdle
  PROVE  IInv'
<1> USE ConstantsAssumption DEF TaskIdle, tcp, ticks, requests
<1>1. TypeOK /\ OnlineHasSession /\ NeverStranded /\ NoStall /\ Bookkeeping /\ SendTimed
  BY DEF IInv
<1>2. left \in Left
  BY <1>1 DEF TypeOK
<1>3. left' \in Left /\ left'["late"] <= left["late"] /\ left'["memory"] <= left["memory"]
  BY <1>2, SpendKeeps, LeftFacts
<1>4. /\ left["late"] \in Nat /\ left["memory"] \in Nat
      /\ left'["late"] \in Nat /\ left'["memory"] \in Nat
      /\ Budget["late"] \in Nat /\ Budget["memory"] \in Nat
  BY <1>2, <1>3, LeftFacts
<1>5. TypeOK'
  <2>1. /\ pCon' \in BOOLEAN /\ timerOn' \in BOOLEAN /\ posted' \in BOOLEAN
        /\ wifi' \in BOOLEAN /\ inflight' \in BOOLEAN /\ refused' \in BOOLEAN
    BY <1>1 DEF TypeOK
  <2>2. /\ connState' \in ConnState /\ host' \in Hosts /\ left' \in Left
        /\ link' \in {"none", "syn", "open", "closing"}
        /\ broker' \in {"none", "asked", "up"}
    BY <1>1, <1>3 DEF TypeOK, ConnState
  <2>3. /\ reconnectTick' \in 0 .. ReconnectTimeout
        /\ keepAliveTick' \in 0 .. (KeepAliveHalf + 1)
        /\ sendTimeout' \in 0 .. SendTimout
        /\ queue' \in 0 .. QueueRoom
        /\ dns' \in 0 .. 1 /\ stale' \in 0 .. DnsTable
    BY <1>1 DEF TypeOK, Bookkeeping
  <2> QED
    BY <2>1, <2>2, <2>3 DEF TypeOK
<1>6. OnlineHasSession'
  BY <1>1, <1>2, <1>3, <1>4 DEF OnlineHasSession, Bookkeeping, NeverStranded, TypeOK, ConnState, Online
<1>7. NeverStranded'
  BY <1>1, <1>2, <1>3, <1>4 DEF NeverStranded, Bookkeeping, OnlineHasSession, TypeOK, ConnState, Online
<1>8. NoStall'
  BY <1>1, <1>2, <1>3, <1>4 DEF NoStall, Bookkeeping, SendTimed, OnlineHasSession, TypeOK, ConnState, Online
<1>9. Bookkeeping'
  BY <1>1, <1>2, <1>3, <1>4 DEF Bookkeeping, NeverStranded, OnlineHasSession, TypeOK, ConnState, Online
<1>10. SendTimed'
  BY <1>1, <1>2, <1>3, <1>4 DEF SendTimed, Bookkeeping, NeverStranded, OnlineHasSession, TypeOK, ConnState, Online
<1> QED
  BY <1>5, <1>6, <1>7, <1>8, <1>9, <1>10 DEF IInv

LEMMA TaskReconnectKeeps ==
  ASSUME IInv, TaskReconnect
  PROVE  IInv'
<1> USE ConstantsAssumption DEF TaskReconnect, MQTT_Connect, tcp, ticks, requests
<1>1. TypeOK /\ OnlineHasSession /\ NeverStranded /\ NoStall /\ Bookkeeping /\ SendTimed
  BY DEF IInv
<1>2. left \in Left
  BY <1>1 DEF TypeOK
<1>3. left' \in Left /\ left'["late"] <= left["late"] /\ left'["memory"] <= left["memory"]
  BY <1>2, SpendKeeps, LeftFacts
<1>4. /\ left["late"] \in Nat /\ left["memory"] \in Nat
      /\ left'["late"] \in Nat /\ left'["memory"] \in Nat
      /\ Budget["late"] \in Nat /\ Budget["memory"] \in Nat
  BY <1>2, <1>3, LeftFacts
<1>5. TypeOK'
  <2>1. /\ pCon' \in BOOLEAN /\ timerOn' \in BOOLEAN /\ posted' \in BOOLEAN
        /\ wifi' \in BOOLEAN /\ inflight' \in BOOLEAN /\ refused' \in BOOLEAN
    BY <1>1 DEF TypeOK
  <2>2. /\ connState' \in ConnState /\ host' \in Hosts /\ left' \in Left
        /\ link' \in {"none", "syn", "open", "closing"}
        /\ broker' \in {"none", "asked", "up"}
    BY <1>1, <1>3 DEF TypeOK, ConnState
  <2>3. /\ reconnectTick' \in 0 .. ReconnectTimeout
        /\ keepAliveTick' \in 0 .. (KeepAliveHalf + 1)
        /\ sendTimeout' \in 0 .. SendTimout
        /\ queue' \in 0 .. QueueRoom
        /\ dns' \in 0 .. 1 /\ stale' \in 0 .. DnsTable
    BY <1>1 DEF TypeOK, Bookkeeping
  <2> QED
    BY <2>1, <2>2, <2>3 DEF TypeOK
<1>6. OnlineHasSession'
  BY <1>1, <1>2, <1>3, <1>4 DEF OnlineHasSession, Bookkeeping, NeverStranded, TypeOK, ConnState, Online
<1>7. NeverStranded'
  BY <1>1, <1>2, <1>3, <1>4 DEF NeverStranded, Bookkeeping, OnlineHasSession, TypeOK, ConnState, Online
<1>8. NoStall'
  BY <1>1, <1>2, <1>3, <1>4 DEF NoStall, Bookkeeping, SendTimed, OnlineHasSession, TypeOK, ConnState, Online
<1>9. Bookkeeping'
  BY <1>1, <1>2, <1>3, <1>4 DEF Bookkeeping, NeverStranded, OnlineHasSession, TypeOK, ConnState, Online
<1>10. SendTimed'
  BY <1>1, <1>2, <1>3, <1>4 DEF SendTimed, Bookkeeping, NeverStranded, OnlineHasSession, TypeOK, ConnState, Online
<1> QED
  BY <1>5, <1>6, <1>7, <1>8, <1>9, <1>10 DEF IInv

LEMMA TaskDisconnectKeeps ==
  ASSUME IInv, TaskDisconnect
  PROVE  IInv'
<1> USE ConstantsAssumption DEF TaskDisconnect, espconn_disconnect, LinkGone, tcp, ticks, requests
<1>1. TypeOK /\ OnlineHasSession /\ NeverStranded /\ NoStall /\ Bookkeeping /\ SendTimed
  BY DEF IInv
<1>2. left \in Left
  BY <1>1 DEF TypeOK
<1>3. left' \in Left /\ left'["late"] <= left["late"] /\ left'["memory"] <= left["memory"]
  BY <1>2, SpendKeeps, LeftFacts
<1>4. /\ left["late"] \in Nat /\ left["memory"] \in Nat
      /\ left'["late"] \in Nat /\ left'["memory"] \in Nat
      /\ Budget["late"] \in Nat /\ Budget["memory"] \in Nat
  BY <1>2, <1>3, LeftFacts
<1>5. TypeOK'
  <2>1. /\ pCon' \in BOOLEAN /\ timerOn' \in BOOLEAN /\ posted' \in BOOLEAN
        /\ wifi' \in BOOLEAN /\ inflight' \in BOOLEAN /\ refused' \in BOOLEAN
    BY <1>1 DEF TypeOK
  <2>2. /\ connState' \in ConnState /\ host' \in Hosts /\ left' \in Left
        /\ link' \in {"none", "syn", "open", "closing"}
        /\ broker' \in {"none", "asked", "up"}
    BY <1>1, <1>3 DEF TypeOK, ConnState
  <2>3. /\ reconnectTick' \in 0 .. ReconnectTimeout
        /\ keepAliveTick' \in 0 .. (KeepAliveHalf + 1)
        /\ sendTimeout' \in 0 .. SendTimout
        /\ queue' \in 0 .. QueueRoom
        /\ dns' \in 0 .. 1 /\ stale' \in 0 .. DnsTable
    BY <1>1 DEF TypeOK, Bookkeeping
  <2> QED
    BY <2>1, <2>2, <2>3 DEF TypeOK
<1>6. OnlineHasSession'
  BY <1>1, <1>2, <1>3, <1>4 DEF OnlineHasSession, Bookkeeping, NeverStranded, TypeOK, ConnState, Online
<1>7. NeverStranded'
  BY <1>1, <1>2, <1>3, <1>4 DEF NeverStranded, Bookkeeping, OnlineHasSession, TypeOK, ConnState, Online
<1>8. NoStall'
  BY <1>1, <1>2, <1>3, <1>4 DEF NoStall, Bookkeeping, SendTimed, OnlineHasSession, TypeOK, ConnState, Online
<1>9. Bookkeeping'
  BY <1>1, <1>2, <1>3, <1>4 DEF Bookkeeping, NeverStranded, OnlineHasSession, TypeOK, ConnState, Online
<1>10. SendTimed'
  BY <1>1, <1>2, <1>3, <1>4 DEF SendTimed, Bookkeeping, NeverStranded, OnlineHasSession, TypeOK, ConnState, Online
<1> QED
  BY <1>5, <1>6, <1>7, <1>8, <1>9, <1>10 DEF IInv

LEMMA TaskDeleteKeeps ==
  ASSUME IInv, TaskDelete
  PROVE  IInv'
<1> USE ConstantsAssumption DEF TaskDelete, mqtt_tcpclient_delete, LinkGone, tcp, ticks, requests
<1>1. TypeOK /\ OnlineHasSession /\ NeverStranded /\ NoStall /\ Bookkeeping /\ SendTimed
  BY DEF IInv
<1>2. left \in Left
  BY <1>1 DEF TypeOK
<1>3. left' \in Left /\ left'["late"] <= left["late"] /\ left'["memory"] <= left["memory"]
  BY <1>2, SpendKeeps, LeftFacts
<1>4. /\ left["late"] \in Nat /\ left["memory"] \in Nat
      /\ left'["late"] \in Nat /\ left'["memory"] \in Nat
      /\ Budget["late"] \in Nat /\ Budget["memory"] \in Nat
  BY <1>2, <1>3, LeftFacts
<1>5. TypeOK'
  <2>1. /\ pCon' \in BOOLEAN /\ timerOn' \in BOOLEAN /\ posted' \in BOOLEAN
        /\ wifi' \in BOOLEAN /\ inflight' \in BOOLEAN /\ refused' \in BOOLEAN
    BY <1>1 DEF TypeOK
  <2>2. /\ connState' \in ConnState /\ host' \in Hosts /\ left' \in Left
        /\ link' \in {"none", "syn", "open", "closing"}
        /\ broker' \in {"none", "asked", "up"}
    BY <1>1, <1>3 DEF TypeOK, ConnState
  <2>3. /\ reconnectTick' \in 0 .. ReconnectTimeout
        /\ keepAliveTick' \in 0 .. (KeepAliveHalf + 1)
        /\ sendTimeout' \in 0 .. SendTimout
        /\ queue' \in 0 .. QueueRoom
        /\ dns' \in 0 .. 1 /\ stale' \in 0 .. DnsTable
    BY <1>1 DEF TypeOK, Bookkeeping
  <2> QED
    BY <2>1, <2>2, <2>3 DEF TypeOK
<1>6. OnlineHasSession'
  BY <1>1, <1>2, <1>3, <1>4 DEF OnlineHasSession, Bookkeeping, NeverStranded, TypeOK, ConnState, Online
<1>7. NeverStranded'
  BY <1>1, <1>2, <1>3, <1>4 DEF NeverStranded, Bookkeeping, OnlineHasSession, TypeOK, ConnState, Online
<1>8. NoStall'
  BY <1>1, <1>2, <1>3, <1>4 DEF NoStall, Bookkeeping, SendTimed, OnlineHasSession, TypeOK, ConnState, Online
<1>9. Bookkeeping'
  BY <1>1, <1>2, <1>3, <1>4 DEF Bookkeeping, NeverStranded, OnlineHasSession, TypeOK, ConnState, Online
<1>10. SendTimed'
  BY <1>1, <1>2, <1>3, <1>4 DEF SendTimed, Bookkeeping, NeverStranded, OnlineHasSession, TypeOK, ConnState, Online
<1> QED
  BY <1>5, <1>6, <1>7, <1>8, <1>9, <1>10 DEF IInv

LEMMA TaskKeepAliveKeeps ==
  ASSUME IInv, TaskKeepAlive
  PROVE  IInv'
<1> USE ConstantsAssumption DEF TaskKeepAlive, Post, SendTaken, tcp, ticks, requests
<1>1. TypeOK /\ OnlineHasSession /\ NeverStranded /\ NoStall /\ Bookkeeping /\ SendTimed
  BY DEF IInv
<1>2. left \in Left
  BY <1>1 DEF TypeOK
<1>3. left' \in Left /\ left'["late"] <= left["late"] /\ left'["memory"] <= left["memory"]
  BY <1>2, SpendKeeps, LeftFacts
<1>4. /\ left["late"] \in Nat /\ left["memory"] \in Nat
      /\ left'["late"] \in Nat /\ left'["memory"] \in Nat
      /\ Budget["late"] \in Nat /\ Budget["memory"] \in Nat
  BY <1>2, <1>3, LeftFacts
<1>5. TypeOK'
  <2>1. /\ pCon' \in BOOLEAN /\ timerOn' \in BOOLEAN /\ posted' \in BOOLEAN
        /\ wifi' \in BOOLEAN /\ inflight' \in BOOLEAN /\ refused' \in BOOLEAN
    BY <1>1 DEF TypeOK
  <2>2. /\ connState' \in ConnState /\ host' \in Hosts /\ left' \in Left
        /\ link' \in {"none", "syn", "open", "closing"}
        /\ broker' \in {"none", "asked", "up"}
    BY <1>1, <1>3 DEF TypeOK, ConnState
  <2>3. /\ reconnectTick' \in 0 .. ReconnectTimeout
        /\ keepAliveTick' \in 0 .. (KeepAliveHalf + 1)
        /\ sendTimeout' \in 0 .. SendTimout
        /\ queue' \in 0 .. QueueRoom
        /\ dns' \in 0 .. 1 /\ stale' \in 0 .. DnsTable
    BY <1>1 DEF TypeOK, Bookkeeping
  <2> QED
    BY <2>1, <2>2, <2>3 DEF TypeOK
<1>6. OnlineHasSession'
  BY <1>1, <1>2, <1>3, <1>4 DEF OnlineHasSession, Bookkeeping, NeverStranded, TypeOK, ConnState, Online
<1>7. NeverStranded'
  BY <1>1, <1>2, <1>3, <1>4 DEF NeverStranded, Bookkeeping, OnlineHasSession, TypeOK, ConnState, Online
<1>8. NoStall'
  BY <1>1, <1>2, <1>3, <1>4, SpendKeeps DEF NoStall, Bookkeeping, SendTimed, OnlineHasSession, TypeOK, ConnState, Online
<1>9. Bookkeeping'
  BY <1>1, <1>2, <1>3, <1>4, SpendKeeps DEF Bookkeeping, NeverStranded, OnlineHasSession, TypeOK, ConnState, Online
<1>10. SendTimed'
  BY <1>1, <1>2, <1>3, <1>4, SpendKeeps DEF SendTimed, Bookkeeping, NeverStranded, OnlineHasSession, TypeOK, ConnState, Online
<1> QED
  BY <1>5, <1>6, <1>7, <1>8, <1>9, <1>10 DEF IInv

LEMMA TaskSendKeeps ==
  ASSUME IInv, TaskSend
  PROVE  IInv'
<1> USE ConstantsAssumption DEF TaskSend, SendTaken, tcp, ticks, requests
<1>1. TypeOK /\ OnlineHasSession /\ NeverStranded /\ NoStall /\ Bookkeeping /\ SendTimed
  BY DEF IInv
<1>2. left \in Left
  BY <1>1 DEF TypeOK
<1>3. left' \in Left /\ left'["late"] <= left["late"] /\ left'["memory"] <= left["memory"]
  BY <1>2, SpendKeeps, LeftFacts
<1>4. /\ left["late"] \in Nat /\ left["memory"] \in Nat
      /\ left'["late"] \in Nat /\ left'["memory"] \in Nat
      /\ Budget["late"] \in Nat /\ Budget["memory"] \in Nat
  BY <1>2, <1>3, LeftFacts
<1>5. TypeOK'
  <2>1. /\ pCon' \in BOOLEAN /\ timerOn' \in BOOLEAN /\ posted' \in BOOLEAN
        /\ wifi' \in BOOLEAN /\ inflight' \in BOOLEAN /\ refused' \in BOOLEAN
    BY <1>1 DEF TypeOK
  <2>2. /\ connState' \in ConnState /\ host' \in Hosts /\ left' \in Left
        /\ link' \in {"none", "syn", "open", "closing"}
        /\ broker' \in {"none", "asked", "up"}
    BY <1>1, <1>3 DEF TypeOK, ConnState
  <2>3. /\ reconnectTick' \in 0 .. ReconnectTimeout
        /\ keepAliveTick' \in 0 .. (KeepAliveHalf + 1)
        /\ sendTimeout' \in 0 .. SendTimout
        /\ queue' \in 0 .. QueueRoom
        /\ dns' \in 0 .. 1 /\ stale' \in 0 .. DnsTable
    BY <1>1 DEF TypeOK, Bookkeeping
  <2> QED
    BY <2>1, <2>2, <2>3 DEF TypeOK
<1>6. OnlineHasSession'
  BY <1>1, <1>2, <1>3, <1>4 DEF OnlineHasSession, Bookkeeping, NeverStranded, TypeOK, ConnState, Online
<1>7. NeverStranded'
  BY <1>1, <1>2, <1>3, <1>4 DEF NeverStranded, Bookkeeping, OnlineHasSession, TypeOK, ConnState, Online
<1>8. NoStall'
  BY <1>1, <1>2, <1>3, <1>4, SpendKeeps DEF NoStall, Bookkeeping, SendTimed, OnlineHasSession, TypeOK, ConnState, Online
<1>9. Bookkeeping'
  BY <1>1, <1>2, <1>3, <1>4, SpendKeeps DEF Bookkeeping, NeverStranded, OnlineHasSession, TypeOK, ConnState, Online
<1>10. SendTimed'
  BY <1>1, <1>2, <1>3, <1>4, SpendKeeps DEF SendTimed, Bookkeeping, NeverStranded, OnlineHasSession, TypeOK, ConnState, Online
<1> QED
  BY <1>5, <1>6, <1>7, <1>8, <1>9, <1>10 DEF IInv

LEMMA mqtt_timerKeeps ==
  ASSUME IInv, mqtt_timer
  PROVE  IInv'
<1> USE ConstantsAssumption DEF mqtt_timer, TickDown, Post, tcp, ticks, requests
<1>1. TypeOK /\ OnlineHasSession /\ NeverStranded /\ NoStall /\ Bookkeeping /\ SendTimed
  BY DEF IInv
<1>2. left \in Left
  BY <1>1 DEF TypeOK
<1>3. left' \in Left /\ left'["late"] <= left["late"] /\ left'["memory"] <= left["memory"]
  BY <1>2, SpendKeeps, LeftFacts
<1>4. /\ left["late"] \in Nat /\ left["memory"] \in Nat
      /\ left'["late"] \in Nat /\ left'["memory"] \in Nat
      /\ Budget["late"] \in Nat /\ Budget["memory"] \in Nat
  BY <1>2, <1>3, LeftFacts
<1>5. TypeOK'
  <2>1. /\ pCon' \in BOOLEAN /\ timerOn' \in BOOLEAN /\ posted' \in BOOLEAN
        /\ wifi' \in BOOLEAN /\ inflight' \in BOOLEAN /\ refused' \in BOOLEAN
    BY <1>1 DEF TypeOK
  <2>2. /\ connState' \in ConnState /\ host' \in Hosts /\ left' \in Left
        /\ link' \in {"none", "syn", "open", "closing"}
        /\ broker' \in {"none", "asked", "up"}
    BY <1>1, <1>3 DEF TypeOK, ConnState
  <2>3. /\ reconnectTick' \in 0 .. ReconnectTimeout
        /\ keepAliveTick' \in 0 .. (KeepAliveHalf + 1)
        /\ sendTimeout' \in 0 .. SendTimout
        /\ queue' \in 0 .. QueueRoom
        /\ dns' \in 0 .. 1 /\ stale' \in 0 .. DnsTable
    BY <1>1 DEF TypeOK, Bookkeeping
  <2> QED
    BY <2>1, <2>2, <2>3 DEF TypeOK
<1>6. OnlineHasSession'
  BY <1>1, <1>2, <1>3, <1>4 DEF OnlineHasSession, Bookkeeping, NeverStranded, TypeOK, ConnState, Online
<1>7. NeverStranded'
  BY <1>1, <1>2, <1>3, <1>4 DEF NeverStranded, Bookkeeping, OnlineHasSession, TypeOK, ConnState, Online
<1>8. NoStall'
  BY <1>1, <1>2, <1>3, <1>4, SpendKeeps DEF NoStall, Bookkeeping, SendTimed, OnlineHasSession, TypeOK, ConnState, Online
<1>9. Bookkeeping'
  BY <1>1, <1>2, <1>3, <1>4, SpendKeeps DEF Bookkeeping, NeverStranded, OnlineHasSession, TypeOK, ConnState, Online
<1>10. SendTimed'
  BY <1>1, <1>2, <1>3, <1>4, SpendKeeps DEF SendTimed, Bookkeeping, NeverStranded, OnlineHasSession, TypeOK, ConnState, Online
<1> QED
  BY <1>5, <1>6, <1>7, <1>8, <1>9, <1>10 DEF IInv

LEMMA MQTT_PublishKeeps ==
  ASSUME IInv, MQTT_Publish
  PROVE  IInv'
<1> USE ConstantsAssumption DEF MQTT_Publish, Puts, Post, tcp, ticks, requests
<1>1. TypeOK /\ OnlineHasSession /\ NeverStranded /\ NoStall /\ Bookkeeping /\ SendTimed
  BY DEF IInv
<1>2. left \in Left
  BY <1>1 DEF TypeOK
<1>3. left' \in Left /\ left'["late"] <= left["late"] /\ left'["memory"] <= left["memory"]
  BY <1>2, SpendKeeps, LeftFacts
<1>4. /\ left["late"] \in Nat /\ left["memory"] \in Nat
      /\ left'["late"] \in Nat /\ left'["memory"] \in Nat
      /\ Budget["late"] \in Nat /\ Budget["memory"] \in Nat
  BY <1>2, <1>3, LeftFacts
<1>5. TypeOK'
  <2>1. /\ pCon' \in BOOLEAN /\ timerOn' \in BOOLEAN /\ posted' \in BOOLEAN
        /\ wifi' \in BOOLEAN /\ inflight' \in BOOLEAN /\ refused' \in BOOLEAN
    BY <1>1 DEF TypeOK
  <2>2. /\ connState' \in ConnState /\ host' \in Hosts /\ left' \in Left
        /\ link' \in {"none", "syn", "open", "closing"}
        /\ broker' \in {"none", "asked", "up"}
    BY <1>1, <1>3 DEF TypeOK, ConnState
  <2>3. /\ reconnectTick' \in 0 .. ReconnectTimeout
        /\ keepAliveTick' \in 0 .. (KeepAliveHalf + 1)
        /\ sendTimeout' \in 0 .. SendTimout
        /\ queue' \in 0 .. QueueRoom
        /\ dns' \in 0 .. 1 /\ stale' \in 0 .. DnsTable
    BY <1>1 DEF TypeOK, Bookkeeping
  <2> QED
    BY <2>1, <2>2, <2>3 DEF TypeOK
<1>6. OnlineHasSession'
  BY <1>1, <1>2, <1>3, <1>4 DEF OnlineHasSession, Bookkeeping, NeverStranded, TypeOK, ConnState, Online
<1>7. NeverStranded'
  BY <1>1, <1>2, <1>3, <1>4 DEF NeverStranded, Bookkeeping, OnlineHasSession, TypeOK, ConnState, Online
<1>8. NoStall'
  BY <1>1, <1>2, <1>3, <1>4 DEF NoStall, Bookkeeping, SendTimed, OnlineHasSession, TypeOK, ConnState, Online
<1>9. Bookkeeping'
  BY <1>1, <1>2, <1>3, <1>4 DEF Bookkeeping, NeverStranded, OnlineHasSession, TypeOK, ConnState, Online
<1>10. SendTimed'
  BY <1>1, <1>2, <1>3, <1>4 DEF SendTimed, Bookkeeping, NeverStranded, OnlineHasSession, TypeOK, ConnState, Online
<1> QED
  BY <1>5, <1>6, <1>7, <1>8, <1>9, <1>10 DEF IInv

LEMMA WifiGotIpKeeps ==
  ASSUME IInv, WifiGotIp
  PROVE  IInv'
<1> USE ConstantsAssumption DEF WifiGotIp, MQTT_Connect, tcp, ticks, requests
<1>1. TypeOK /\ OnlineHasSession /\ NeverStranded /\ NoStall /\ Bookkeeping /\ SendTimed
  BY DEF IInv
<1>2. left \in Left
  BY <1>1 DEF TypeOK
<1>3. left' \in Left /\ left'["late"] <= left["late"] /\ left'["memory"] <= left["memory"]
  BY <1>2, SpendKeeps, LeftFacts
<1>4. /\ left["late"] \in Nat /\ left["memory"] \in Nat
      /\ left'["late"] \in Nat /\ left'["memory"] \in Nat
      /\ Budget["late"] \in Nat /\ Budget["memory"] \in Nat
  BY <1>2, <1>3, LeftFacts
<1>5. TypeOK'
  <2>1. /\ pCon' \in BOOLEAN /\ timerOn' \in BOOLEAN /\ posted' \in BOOLEAN
        /\ wifi' \in BOOLEAN /\ inflight' \in BOOLEAN /\ refused' \in BOOLEAN
    BY <1>1 DEF TypeOK
  <2>2. /\ connState' \in ConnState /\ host' \in Hosts /\ left' \in Left
        /\ link' \in {"none", "syn", "open", "closing"}
        /\ broker' \in {"none", "asked", "up"}
    BY <1>1, <1>3 DEF TypeOK, ConnState
  <2>3. /\ reconnectTick' \in 0 .. ReconnectTimeout
        /\ keepAliveTick' \in 0 .. (KeepAliveHalf + 1)
        /\ sendTimeout' \in 0 .. SendTimout
        /\ queue' \in 0 .. QueueRoom
        /\ dns' \in 0 .. 1 /\ stale' \in 0 .. DnsTable
    BY <1>1 DEF TypeOK, Bookkeeping
  <2> QED
    BY <2>1, <2>2, <2>3 DEF TypeOK
<1>6. OnlineHasSession'
  BY <1>1, <1>2, <1>3, <1>4 DEF OnlineHasSession, Bookkeeping, NeverStranded, TypeOK, ConnState, Online
<1>7. NeverStranded'
  BY <1>1, <1>2, <1>3, <1>4 DEF NeverStranded, Bookkeeping, OnlineHasSession, TypeOK, ConnState, Online
<1>8. NoStall'
  BY <1>1, <1>2, <1>3, <1>4 DEF NoStall, Bookkeeping, SendTimed, OnlineHasSession, TypeOK, ConnState, Online
<1>9. Bookkeeping'
  BY <1>1, <1>2, <1>3, <1>4 DEF Bookkeeping, NeverStranded, OnlineHasSession, TypeOK, ConnState, Online
<1>10. SendTimed'
  BY <1>1, <1>2, <1>3, <1>4 DEF SendTimed, Bookkeeping, NeverStranded, OnlineHasSession, TypeOK, ConnState, Online
<1> QED
  BY <1>5, <1>6, <1>7, <1>8, <1>9, <1>10 DEF IInv

LEMMA WifiDisconnectedKeeps ==
  ASSUME IInv, WifiDisconnected
  PROVE  IInv'
<1> USE ConstantsAssumption DEF WifiDisconnected, MQTT_Disconnect, Post, tcp, ticks, requests
<1>1. TypeOK /\ OnlineHasSession /\ NeverStranded /\ NoStall /\ Bookkeeping /\ SendTimed
  BY DEF IInv
<1>2. left \in Left
  BY <1>1 DEF TypeOK
<1>3. left' \in Left /\ left'["late"] <= left["late"] /\ left'["memory"] <= left["memory"]
  BY <1>2, SpendKeeps, LeftFacts
<1>4. /\ left["late"] \in Nat /\ left["memory"] \in Nat
      /\ left'["late"] \in Nat /\ left'["memory"] \in Nat
      /\ Budget["late"] \in Nat /\ Budget["memory"] \in Nat
  BY <1>2, <1>3, LeftFacts
<1>5. TypeOK'
  <2>1. /\ pCon' \in BOOLEAN /\ timerOn' \in BOOLEAN /\ posted' \in BOOLEAN
        /\ wifi' \in BOOLEAN /\ inflight' \in BOOLEAN /\ refused' \in BOOLEAN
    BY <1>1 DEF TypeOK
  <2>2. /\ connState' \in ConnState /\ host' \in Hosts /\ left' \in Left
        /\ link' \in {"none", "syn", "open", "closing"}
        /\ broker' \in {"none", "asked", "up"}
    BY <1>1, <1>3 DEF TypeOK, ConnState
  <2>3. /\ reconnectTick' \in 0 .. ReconnectTimeout
        /\ keepAliveTick' \in 0 .. (KeepAliveHalf + 1)
        /\ sendTimeout' \in 0 .. SendTimout
        /\ queue' \in 0 .. QueueRoom
        /\ dns' \in 0 .. 1 /\ stale' \in 0 .. DnsTable
    BY <1>1 DEF TypeOK, Bookkeeping
  <2> QED
    BY <2>1, <2>2, <2>3 DEF TypeOK
<1>6. OnlineHasSession'
  BY <1>1, <1>2, <1>3, <1>4 DEF OnlineHasSession, Bookkeeping, NeverStranded, TypeOK, ConnState, Online
<1>7. NeverStranded'
  BY <1>1, <1>2, <1>3, <1>4 DEF NeverStranded, Bookkeeping, OnlineHasSession, TypeOK, ConnState, Online
<1>8. NoStall'
  BY <1>1, <1>2, <1>3, <1>4 DEF NoStall, Bookkeeping, SendTimed, OnlineHasSession, TypeOK, ConnState, Online
<1>9. Bookkeeping'
  BY <1>1, <1>2, <1>3, <1>4 DEF Bookkeeping, NeverStranded, OnlineHasSession, TypeOK, ConnState, Online
<1>10. SendTimed'
  BY <1>1, <1>2, <1>3, <1>4 DEF SendTimed, Bookkeeping, NeverStranded, OnlineHasSession, TypeOK, ConnState, Online
<1> QED
  BY <1>5, <1>6, <1>7, <1>8, <1>9, <1>10 DEF IInv

LEMMA DnsFoundKeeps ==
  ASSUME IInv, DnsFound
  PROVE  IInv'
<1> USE ConstantsAssumption DEF DnsFound, DnsDone, Post, tcp, ticks, requests
<1>1. TypeOK /\ OnlineHasSession /\ NeverStranded /\ NoStall /\ Bookkeeping /\ SendTimed
  BY DEF IInv
<1>2. left \in Left
  BY <1>1 DEF TypeOK
<1>3. left' \in Left /\ left'["late"] <= left["late"] /\ left'["memory"] <= left["memory"]
  BY <1>2, SpendKeeps, LeftFacts
<1>4. /\ left["late"] \in Nat /\ left["memory"] \in Nat
      /\ left'["late"] \in Nat /\ left'["memory"] \in Nat
      /\ Budget["late"] \in Nat /\ Budget["memory"] \in Nat
  BY <1>2, <1>3, LeftFacts
<1>5. TypeOK'
  <2>1. /\ pCon' \in BOOLEAN /\ timerOn' \in BOOLEAN /\ posted' \in BOOLEAN
        /\ wifi' \in BOOLEAN /\ inflight' \in BOOLEAN /\ refused' \in BOOLEAN
    BY <1>1 DEF TypeOK
  <2>2. /\ connState' \in ConnState /\ host' \in Hosts /\ left' \in Left
        /\ link' \in {"none", "syn", "open", "closing"}
        /\ broker' \in {"none", "asked", "up"}
    BY <1>1, <1>3 DEF TypeOK, ConnState
  <2>3. /\ reconnectTick' \in 0 .. ReconnectTimeout
        /\ keepAliveTick' \in 0 .. (KeepAliveHalf + 1)
        /\ sendTimeout' \in 0 .. SendTimout
        /\ queue' \in 0 .. QueueRoom
        /\ dns' \in 0 .. 1 /\ stale' \in 0 .. DnsTable
    BY <1>1 DEF TypeOK, Bookkeeping
  <2> QED
    BY <2>1, <2>2, <2>3 DEF TypeOK
<1>6. OnlineHasSession'
  BY <1>1, <1>2, <1>3, <1>4 DEF OnlineHasSession, Bookkeeping, NeverStranded, TypeOK, ConnState, Online
<1>7. NeverStranded'
  BY <1>1, <1>2, <1>3, <1>4 DEF NeverStranded, Bookkeeping, OnlineHasSession, TypeOK, ConnState, Online
<1>8. NoStall'
  BY <1>1, <1>2, <1>3, <1>4 DEF NoStall, Bookkeeping, SendTimed, OnlineHasSession, TypeOK, ConnState, Online
<1>9. Bookkeeping'
  BY <1>1, <1>2, <1>3, <1>4 DEF Bookkeeping, NeverStranded, OnlineHasSession, TypeOK, ConnState, Online
<1>10. SendTimed'
  BY <1>1, <1>2, <1>3, <1>4 DEF SendTimed, Bookkeeping, NeverStranded, OnlineHasSession, TypeOK, ConnState, Online
<1> QED
  BY <1>5, <1>6, <1>7, <1>8, <1>9, <1>10 DEF IInv

LEMMA DnsFailedKeeps ==
  ASSUME IInv, DnsFailed
  PROVE  IInv'
<1> USE ConstantsAssumption DEF DnsFailed, DnsDone, tcp, ticks, requests
<1>1. TypeOK /\ OnlineHasSession /\ NeverStranded /\ NoStall /\ Bookkeeping /\ SendTimed
  BY DEF IInv
<1>2. left \in Left
  BY <1>1 DEF TypeOK
<1>3. left' \in Left /\ left'["late"] <= left["late"] /\ left'["memory"] <= left["memory"]
  BY <1>2, SpendKeeps, LeftFacts
<1>4. /\ left["late"] \in Nat /\ left["memory"] \in Nat
      /\ left'["late"] \in Nat /\ left'["memory"] \in Nat
      /\ Budget["late"] \in Nat /\ Budget["memory"] \in Nat
  BY <1>2, <1>3, LeftFacts
<1>5. TypeOK'
  <2>1. /\ pCon' \in BOOLEAN /\ timerOn' \in BOOLEAN /\ posted' \in BOOLEAN
        /\ wifi' \in BOOLEAN /\ inflight' \in BOOLEAN /\ refused' \in BOOLEAN
    BY <1>1 DEF TypeOK
  <2>2. /\ connState' \in ConnState /\ host' \in Hosts /\ left' \in Left
        /\ link' \in {"none", "syn", "open", "closing"}
        /\ broker' \in {"none", "asked", "up"}
    BY <1>1, <1>3 DEF TypeOK, ConnState
  <2>3. /\ reconnectTick' \in 0 .. ReconnectTimeout
        /\ keepAliveTick' \in 0 .. (KeepAliveHalf + 1)
        /\ sendTimeout' \in 0 .. SendTimout
        /\ queue' \in 0 .. QueueRoom
        /\ dns' \in 0 .. 1 /\ stale' \in 0 .. DnsTable
    BY <1>1 DEF TypeOK, Bookkeeping
  <2> QED
    BY <2>1, <2>2, <2>3 DEF TypeOK
<1>6. OnlineHasSession'
  BY <1>1, <1>2, <1>3, <1>4 DEF OnlineHasSession, Bookkeeping, NeverStranded, TypeOK, ConnState, Online
<1>7. NeverStranded'
  BY <1>1, <1>2, <1>3, <1>4 DEF NeverStranded, Bookkeeping, OnlineHasSession, TypeOK, ConnState, Online
<1>8. NoStall'
  BY <1>1, <1>2, <1>3, <1>4 DEF NoStall, Bookkeeping, SendTimed, OnlineHasSession, TypeOK, ConnState, Online
<1>9. Bookkeeping'
  BY <1>1, <1>2, <1>3, <1>4 DEF Bookkeeping, NeverStranded, OnlineHasSession, TypeOK, ConnState, Online
<1>10. SendTimed'
  BY <1>1, <1>2, <1>3, <1>4 DEF SendTimed, Bookkeeping, NeverStranded, OnlineHasSession, TypeOK, ConnState, Online
<1> QED
  BY <1>5, <1>6, <1>7, <1>8, <1>9, <1>10 DEF IInv

LEMMA mqtt_tcpclient_connect_cbKeeps ==
  ASSUME IInv, mqtt_tcpclient_connect_cb
  PROVE  IInv'
<1> USE ConstantsAssumption DEF mqtt_tcpclient_connect_cb, Post, tcp, ticks, requests
<1>1. TypeOK /\ OnlineHasSession /\ NeverStranded /\ NoStall /\ Bookkeeping /\ SendTimed
  BY DEF IInv
<1>2. left \in Left
  BY <1>1 DEF TypeOK
<1>3. left' \in Left /\ left'["late"] <= left["late"] /\ left'["memory"] <= left["memory"]
  BY <1>2, SpendKeeps, LeftFacts
<1>4. /\ left["late"] \in Nat /\ left["memory"] \in Nat
      /\ left'["late"] \in Nat /\ left'["memory"] \in Nat
      /\ Budget["late"] \in Nat /\ Budget["memory"] \in Nat
  BY <1>2, <1>3, LeftFacts
<1>5. TypeOK'
  <2>1. /\ pCon' \in BOOLEAN /\ timerOn' \in BOOLEAN /\ posted' \in BOOLEAN
        /\ wifi' \in BOOLEAN /\ inflight' \in BOOLEAN /\ refused' \in BOOLEAN
    BY <1>1 DEF TypeOK
  <2>2. /\ connState' \in ConnState /\ host' \in Hosts /\ left' \in Left
        /\ link' \in {"none", "syn", "open", "closing"}
        /\ broker' \in {"none", "asked", "up"}
    BY <1>1, <1>3 DEF TypeOK, ConnState
  <2>3. /\ reconnectTick' \in 0 .. ReconnectTimeout
        /\ keepAliveTick' \in 0 .. (KeepAliveHalf + 1)
        /\ sendTimeout' \in 0 .. SendTimout
        /\ queue' \in 0 .. QueueRoom
        /\ dns' \in 0 .. 1 /\ stale' \in 0 .. DnsTable
    BY <1>1 DEF TypeOK, Bookkeeping
  <2> QED
    BY <2>1, <2>2, <2>3 DEF TypeOK
<1>6. OnlineHasSession'
  BY <1>1, <1>2, <1>3, <1>4 DEF OnlineHasSession, Bookkeeping, NeverStranded, TypeOK, ConnState, Online
<1>7. NeverStranded'
  BY <1>1, <1>2, <1>3, <1>4 DEF NeverStranded, Bookkeeping, OnlineHasSession, TypeOK, ConnState, Online
<1>8. NoStall'
  BY <1>1, <1>2, <1>3, <1>4, SpendKeeps DEF NoStall, Bookkeeping, SendTimed, OnlineHasSession, TypeOK, ConnState, Online
<1>9. Bookkeeping'
  BY <1>1, <1>2, <1>3, <1>4, SpendKeeps DEF Bookkeeping, NeverStranded, OnlineHasSession, TypeOK, ConnState, Online
<1>10. SendTimed'
  BY <1>1, <1>2, <1>3, <1>4, SpendKeeps DEF SendTimed, Bookkeeping, NeverStranded, OnlineHasSession, TypeOK, ConnState, Online
<1> QED
  BY <1>5, <1>6, <1>7, <1>8, <1>9, <1>10 DEF IInv

LEMMA mqtt_tcpclient_recon_cbKeeps ==
  ASSUME IInv, mqtt_tcpclient_recon_cb
  PROVE  IInv'
<1> USE ConstantsAssumption DEF mqtt_tcpclient_recon_cb, LinkGone, Post, tcp, ticks, requests
<1>1. TypeOK /\ OnlineHasSession /\ NeverStranded /\ NoStall /\ Bookkeeping /\ SendTimed
  BY DEF IInv
<1>2. left \in Left
  BY <1>1 DEF TypeOK
<1>3. left' \in Left /\ left'["late"] <= left["late"] /\ left'["memory"] <= left["memory"]
  BY <1>2, SpendKeeps, LeftFacts
<1>4. /\ left["late"] \in Nat /\ left["memory"] \in Nat
      /\ left'["late"] \in Nat /\ left'["memory"] \in Nat
      /\ Budget["late"] \in Nat /\ Budget["memory"] \in Nat
  BY <1>2, <1>3, LeftFacts
<1>5. TypeOK'
  <2>1. /\ pCon' \in BOOLEAN /\ timerOn' \in BOOLEAN /\ posted' \in BOOLEAN
        /\ wifi' \in BOOLEAN /\ inflight' \in BOOLEAN /\ refused' \in BOOLEAN
    BY <1>1 DEF TypeOK
  <2>2. /\ connState' \in ConnState /\ host' \in Hosts /\ left' \in Left
        /\ link' \in {"none", "syn", "open", "closing"}
        /\ broker' \in {"none", "asked", "up"}
    BY <1>1, <1>3 DEF TypeOK, ConnState
  <2>3. /\ reconnectTick' \in 0 .. ReconnectTimeout
        /\ keepAliveTick' \in 0 .. (KeepAliveHalf + 1)
        /\ sendTimeout' \in 0 .. SendTimout
        /\ queue' \in 0 .. QueueRoom
        /\ dns' \in 0 .. 1 /\ stale' \in 0 .. DnsTable
    BY <1>1 DEF TypeOK, Bookkeeping
  <2> QED
    BY <2>1, <2>2, <2>3 DEF TypeOK
<1>6. OnlineHasSession'
  BY <1>1, <1>2, <1>3, <1>4 DEF OnlineHasSession, Bookkeeping, NeverStranded, TypeOK, ConnState, Online
<1>7. NeverStranded'
  BY <1>1, <1>2, <1>3, <1>4 DEF NeverStranded, Bookkeeping, OnlineHasSession, TypeOK, ConnState, Online
<1>8. NoStall'
  BY <1>1, <1>2, <1>3, <1>4 DEF NoStall, Bookkeeping, SendTimed, OnlineHasSession, TypeOK, ConnState, Online
<1>9. Bookkeeping'
  BY <1>1, <1>2, <1>3, <1>4 DEF Bookkeeping, NeverStranded, OnlineHasSession, TypeOK, ConnState, Online
<1>10. SendTimed'
  BY <1>1, <1>2, <1>3, <1>4 DEF SendTimed, Bookkeeping, NeverStranded, OnlineHasSession, TypeOK, ConnState, Online
<1> QED
  BY <1>5, <1>6, <1>7, <1>8, <1>9, <1>10 DEF IInv

LEMMA mqtt_tcpclient_discon_cbKeeps ==
  ASSUME IInv, mqtt_tcpclient_discon_cb
  PROVE  IInv'
<1> USE ConstantsAssumption DEF mqtt_tcpclient_discon_cb, Disconnected, LinkGone, Post, tcp, ticks, requests
<1>1. TypeOK /\ OnlineHasSession /\ NeverStranded /\ NoStall /\ Bookkeeping /\ SendTimed
  BY DEF IInv
<1>2. left \in Left
  BY <1>1 DEF TypeOK
<1>3. left' \in Left /\ left'["late"] <= left["late"] /\ left'["memory"] <= left["memory"]
  BY <1>2, SpendKeeps, LeftFacts
<1>4. /\ left["late"] \in Nat /\ left["memory"] \in Nat
      /\ left'["late"] \in Nat /\ left'["memory"] \in Nat
      /\ Budget["late"] \in Nat /\ Budget["memory"] \in Nat
  BY <1>2, <1>3, LeftFacts
<1>5. TypeOK'
  <2>1. /\ pCon' \in BOOLEAN /\ timerOn' \in BOOLEAN /\ posted' \in BOOLEAN
        /\ wifi' \in BOOLEAN /\ inflight' \in BOOLEAN /\ refused' \in BOOLEAN
    BY <1>1 DEF TypeOK
  <2>2. /\ connState' \in ConnState /\ host' \in Hosts /\ left' \in Left
        /\ link' \in {"none", "syn", "open", "closing"}
        /\ broker' \in {"none", "asked", "up"}
    BY <1>1, <1>3 DEF TypeOK, ConnState
  <2>3. /\ reconnectTick' \in 0 .. ReconnectTimeout
        /\ keepAliveTick' \in 0 .. (KeepAliveHalf + 1)
        /\ sendTimeout' \in 0 .. SendTimout
        /\ queue' \in 0 .. QueueRoom
        /\ dns' \in 0 .. 1 /\ stale' \in 0 .. DnsTable
    BY <1>1 DEF TypeOK, Bookkeeping
  <2> QED
    BY <2>1, <2>2, <2>3 DEF TypeOK
<1>6. OnlineHasSession'
  BY <1>1, <1>2, <1>3, <1>4 DEF OnlineHasSession, Bookkeeping, NeverStranded, TypeOK, ConnState, Online
<1>7. NeverStranded'
  BY <1>1, <1>2, <1>3, <1>4 DEF NeverStranded, Bookkeeping, OnlineHasSession, TypeOK, ConnState, Online
<1>8. NoStall'
  BY <1>1, <1>2, <1>3, <1>4 DEF NoStall, Bookkeeping, SendTimed, OnlineHasSession, TypeOK, ConnState, Online
<1>9. Bookkeeping'
  BY <1>1, <1>2, <1>3, <1>4 DEF Bookkeeping, NeverStranded, OnlineHasSession, TypeOK, ConnState, Online
<1>10. SendTimed'
  BY <1>1, <1>2, <1>3, <1>4 DEF SendTimed, Bookkeeping, NeverStranded, OnlineHasSession, TypeOK, ConnState, Online
<1> QED
  BY <1>5, <1>6, <1>7, <1>8, <1>9, <1>10 DEF IInv

LEMMA BrokerClosesKeeps ==
  ASSUME IInv, BrokerCloses
  PROVE  IInv'
<1> USE ConstantsAssumption DEF BrokerCloses, Disconnected, LinkGone, Post, tcp, ticks, requests
<1>1. TypeOK /\ OnlineHasSession /\ NeverStranded /\ NoStall /\ Bookkeeping /\ SendTimed
  BY DEF IInv
<1>2. left \in Left
  BY <1>1 DEF TypeOK
<1>3. left' \in Left /\ left'["late"] <= left["late"] /\ left'["memory"] <= left["memory"]
  BY <1>2, SpendKeeps, LeftFacts
<1>4. /\ left["late"] \in Nat /\ left["memory"] \in Nat
      /\ left'["late"] \in Nat /\ left'["memory"] \in Nat
      /\ Budget["late"] \in Nat /\ Budget["memory"] \in Nat
  BY <1>2, <1>3, LeftFacts
<1>5. TypeOK'
  <2>1. /\ pCon' \in BOOLEAN /\ timerOn' \in BOOLEAN /\ posted' \in BOOLEAN
        /\ wifi' \in BOOLEAN /\ inflight' \in BOOLEAN /\ refused' \in BOOLEAN
    BY <1>1 DEF TypeOK
  <2>2. /\ connState' \in ConnState /\ host' \in Hosts /\ left' \in Left
        /\ link' \in {"none", "syn", "open", "closing"}
        /\ broker' \in {"none", "asked", "up"}
    BY <1>1, <1>3 DEF TypeOK, ConnState
  <2>3. /\ reconnectTick' \in 0 .. ReconnectTimeout
        /\ keepAliveTick' \in 0 .. (KeepAliveHalf + 1)
        /\ sendTimeout' \in 0 .. SendTimout
        /\ queue' \in 0 .. QueueRoom
        /\ dns' \in 0 .. 1 /\ stale' \in 0 .. DnsTable
    BY <1>1 DEF TypeOK, Bookkeeping
  <2> QED
    BY <2>1, <2>2, <2>3 DEF TypeOK
<1>6. OnlineHasSession'
  BY <1>1, <1>2, <1>3, <1>4 DEF OnlineHasSession, Bookkeeping, NeverStranded, TypeOK, ConnState, Online
<1>7. NeverStranded'
  BY <1>1, <1>2, <1>3, <1>4 DEF NeverStranded, Bookkeeping, OnlineHasSession, TypeOK, ConnState, Online
<1>8. NoStall'
  BY <1>1, <1>2, <1>3, <1>4 DEF NoStall, Bookkeeping, SendTimed, OnlineHasSession, TypeOK, ConnState, Online
<1>9. Bookkeeping'
  BY <1>1, <1>2, <1>3, <1>4 DEF Bookkeeping, NeverStranded, OnlineHasSession, TypeOK, ConnState, Online
<1>10. SendTimed'
  BY <1>1, <1>2, <1>3, <1>4 DEF SendTimed, Bookkeeping, NeverStranded, OnlineHasSession, TypeOK, ConnState, Online
<1> QED
  BY <1>5, <1>6, <1>7, <1>8, <1>9, <1>10 DEF IInv

LEMMA mqtt_tcpclient_sent_cbKeeps ==
  ASSUME IInv, mqtt_tcpclient_sent_cb
  PROVE  IInv'
<1> USE ConstantsAssumption DEF mqtt_tcpclient_sent_cb, Post, tcp, ticks, requests
<1>1. TypeOK /\ OnlineHasSession /\ NeverStranded /\ NoStall /\ Bookkeeping /\ SendTimed
  BY DEF IInv
<1>2. left \in Left
  BY <1>1 DEF TypeOK
<1>3. left' \in Left /\ left'["late"] <= left["late"] /\ left'["memory"] <= left["memory"]
  BY <1>2, SpendKeeps, LeftFacts
<1>4. /\ left["late"] \in Nat /\ left["memory"] \in Nat
      /\ left'["late"] \in Nat /\ left'["memory"] \in Nat
      /\ Budget["late"] \in Nat /\ Budget["memory"] \in Nat
  BY <1>2, <1>3, LeftFacts
<1>5. TypeOK'
  <2>1. /\ pCon' \in BOOLEAN /\ timerOn' \in BOOLEAN /\ posted' \in BOOLEAN
        /\ wifi' \in BOOLEAN /\ inflight' \in BOOLEAN /\ refused' \in BOOLEAN
    BY <1>1 DEF TypeOK
  <2>2. /\ connState' \in ConnState /\ host' \in Hosts /\ left' \in Left
        /\ link' \in {"none", "syn", "open", "closing"}
        /\ broker' \in {"none", "asked", "up"}
    BY <1>1, <1>3 DEF TypeOK, ConnState
  <2>3. /\ reconnectTick' \in 0 .. ReconnectTimeout
        /\ keepAliveTick' \in 0 .. (KeepAliveHalf + 1)
        /\ sendTimeout' \in 0 .. SendTimout
        /\ queue' \in 0 .. QueueRoom
        /\ dns' \in 0 .. 1 /\ stale' \in 0 .. DnsTable
    BY <1>1 DEF TypeOK, Bookkeeping
  <2> QED
    BY <2>1, <2>2, <2>3 DEF TypeOK
<1>6. OnlineHasSession'
  BY <1>1, <1>2, <1>3, <1>4 DEF OnlineHasSession, Bookkeeping, NeverStranded, TypeOK, ConnState, Online
<1>7. NeverStranded'
  BY <1>1, <1>2, <1>3, <1>4 DEF NeverStranded, Bookkeeping, OnlineHasSession, TypeOK, ConnState, Online
<1>8. NoStall'
  BY <1>1, <1>2, <1>3, <1>4 DEF NoStall, Bookkeeping, SendTimed, OnlineHasSession, TypeOK, ConnState, Online
<1>9. Bookkeeping'
  BY <1>1, <1>2, <1>3, <1>4 DEF Bookkeeping, NeverStranded, OnlineHasSession, TypeOK, ConnState, Online
<1>10. SendTimed'
  BY <1>1, <1>2, <1>3, <1>4 DEF SendTimed, Bookkeeping, NeverStranded, OnlineHasSession, TypeOK, ConnState, Online
<1> QED
  BY <1>5, <1>6, <1>7, <1>8, <1>9, <1>10 DEF IInv

LEMMA RecvConnackKeeps ==
  ASSUME IInv, RecvConnack
  PROVE  IInv'
<1> USE ConstantsAssumption DEF RecvConnack, Puts, Post, tcp, ticks, requests
<1>1. TypeOK /\ OnlineHasSession /\ NeverStranded /\ NoStall /\ Bookkeeping /\ SendTimed
  BY DEF IInv
<1>2. left \in Left
  BY <1>1 DEF TypeOK
<1>3. left' \in Left /\ left'["late"] <= left["late"] /\ left'["memory"] <= left["memory"]
  BY <1>2, SpendKeeps, LeftFacts
<1>4. /\ left["late"] \in Nat /\ left["memory"] \in Nat
      /\ left'["late"] \in Nat /\ left'["memory"] \in Nat
      /\ Budget["late"] \in Nat /\ Budget["memory"] \in Nat
  BY <1>2, <1>3, LeftFacts
<1>5. TypeOK'
  <2>1. /\ pCon' \in BOOLEAN /\ timerOn' \in BOOLEAN /\ posted' \in BOOLEAN
        /\ wifi' \in BOOLEAN /\ inflight' \in BOOLEAN /\ refused' \in BOOLEAN
    BY <1>1 DEF TypeOK
  <2>2. /\ connState' \in ConnState /\ host' \in Hosts /\ left' \in Left
        /\ link' \in {"none", "syn", "open", "closing"}
        /\ broker' \in {"none", "asked", "up"}
    BY <1>1, <1>3 DEF TypeOK, ConnState
  <2>3. /\ reconnectTick' \in 0 .. ReconnectTimeout
        /\ keepAliveTick' \in 0 .. (KeepAliveHalf + 1)
        /\ sendTimeout' \in 0 .. SendTimout
        /\ queue' \in 0 .. QueueRoom
        /\ dns' \in 0 .. 1 /\ stale' \in 0 .. DnsTable
    BY <1>1 DEF TypeOK, Bookkeeping
  <2> QED
    BY <2>1, <2>2, <2>3 DEF TypeOK
<1>6. OnlineHasSession'
  BY <1>1, <1>2, <1>3, <1>4 DEF OnlineHasSession, Bookkeeping, NeverStranded, TypeOK, ConnState, Online
<1>7. NeverStranded'
  BY <1>1, <1>2, <1>3, <1>4 DEF NeverStranded, Bookkeeping, OnlineHasSession, TypeOK, ConnState, Online
<1>8. NoStall'
  BY <1>1, <1>2, <1>3, <1>4 DEF NoStall, Bookkeeping, SendTimed, OnlineHasSession, TypeOK, ConnState, Online
<1>9. Bookkeeping'
  BY <1>1, <1>2, <1>3, <1>4 DEF Bookkeeping, NeverStranded, OnlineHasSession, TypeOK, ConnState, Online
<1>10. SendTimed'
  BY <1>1, <1>2, <1>3, <1>4 DEF SendTimed, Bookkeeping, NeverStranded, OnlineHasSession, TypeOK, ConnState, Online
<1> QED
  BY <1>5, <1>6, <1>7, <1>8, <1>9, <1>10 DEF IInv

LEMMA RecvMessageKeeps ==
  ASSUME IInv, RecvMessage
  PROVE  IInv'
<1> USE ConstantsAssumption DEF RecvMessage, Puts, Post, tcp, ticks, requests
<1>1. TypeOK /\ OnlineHasSession /\ NeverStranded /\ NoStall /\ Bookkeeping /\ SendTimed
  BY DEF IInv
<1>2. left \in Left
  BY <1>1 DEF TypeOK
<1>3. left' \in Left /\ left'["late"] <= left["late"] /\ left'["memory"] <= left["memory"]
  BY <1>2, SpendKeeps, LeftFacts
<1>4. /\ left["late"] \in Nat /\ left["memory"] \in Nat
      /\ left'["late"] \in Nat /\ left'["memory"] \in Nat
      /\ Budget["late"] \in Nat /\ Budget["memory"] \in Nat
  BY <1>2, <1>3, LeftFacts
<1>5. TypeOK'
  <2>1. /\ pCon' \in BOOLEAN /\ timerOn' \in BOOLEAN /\ posted' \in BOOLEAN
        /\ wifi' \in BOOLEAN /\ inflight' \in BOOLEAN /\ refused' \in BOOLEAN
    BY <1>1 DEF TypeOK
  <2>2. /\ connState' \in ConnState /\ host' \in Hosts /\ left' \in Left
        /\ link' \in {"none", "syn", "open", "closing"}
        /\ broker' \in {"none", "asked", "up"}
    BY <1>1, <1>3 DEF TypeOK, ConnState
  <2>3. /\ reconnectTick' \in 0 .. ReconnectTimeout
        /\ keepAliveTick' \in 0 .. (KeepAliveHalf + 1)
        /\ sendTimeout' \in 0 .. SendTimout
        /\ queue' \in 0 .. QueueRoom
        /\ dns' \in 0 .. 1 /\ stale' \in 0 .. DnsTable
    BY <1>1 DEF TypeOK, Bookkeeping
  <2> QED
    BY <2>1, <2>2, <2>3 DEF TypeOK
<1>6. OnlineHasSession'
  BY <1>1, <1>2, <1>3, <1>4 DEF OnlineHasSession, Bookkeeping, NeverStranded, TypeOK, ConnState, Online
<1>7. NeverStranded'
  BY <1>1, <1>2, <1>3, <1>4 DEF NeverStranded, Bookkeeping, OnlineHasSession, TypeOK, ConnState, Online
<1>8. NoStall'
  BY <1>1, <1>2, <1>3, <1>4 DEF NoStall, Bookkeeping, SendTimed, OnlineHasSession, TypeOK, ConnState, Online
<1>9. Bookkeeping'
  BY <1>1, <1>2, <1>3, <1>4 DEF Bookkeeping, NeverStranded, OnlineHasSession, TypeOK, ConnState, Online
<1>10. SendTimed'
  BY <1>1, <1>2, <1>3, <1>4 DEF SendTimed, Bookkeeping, NeverStranded, OnlineHasSession, TypeOK, ConnState, Online
<1> QED
  BY <1>5, <1>6, <1>7, <1>8, <1>9, <1>10 DEF IInv

(* A step that changes nothing keeps it too.                               *)
LEMMA StutterKeeps ==
  ASSUME IInv, UNCHANGED vars
  PROVE  IInv'
<1> USE DEF vars, tcp, ticks, requests, Online
<1>1. TypeOK'
  BY DEF IInv, TypeOK
<1>2. OnlineHasSession' /\ NeverStranded'
  BY DEF IInv, OnlineHasSession, NeverStranded
<1>3. NoStall' /\ Bookkeeping' /\ SendTimed'
  BY DEF IInv, NoStall, Bookkeeping, SendTimed
<1> QED
  BY <1>1, <1>2, <1>3 DEF IInv

(* The strengthened invariant holds in every behaviour of the client.      *)
THEOREM ClientInvariant == Spec => []IInv
<1>1. Init => IInv
  BY InitIInv
<1>2. IInv /\ [Next]_vars => IInv'
  <2> SUFFICES ASSUME IInv, [Next]_vars PROVE IInv'
    OBVIOUS
  <2>1. CASE MQTT_Task
    BY <2>1, TaskIdleKeeps, TaskReconnectKeeps, TaskDisconnectKeeps,
       TaskDeleteKeeps, TaskKeepAliveKeeps, TaskSendKeeps
       DEF MQTT_Task
  <2>2. CASE mqtt_timer
    BY <2>2, mqtt_timerKeeps
  <2>3. CASE MQTT_Publish
    BY <2>3, MQTT_PublishKeeps
  <2>4. CASE WifiGotIp
    BY <2>4, WifiGotIpKeeps
  <2>5. CASE WifiDisconnected
    BY <2>5, WifiDisconnectedKeeps
  <2>6. CASE DnsFound
    BY <2>6, DnsFoundKeeps
  <2>7. CASE DnsFailed
    BY <2>7, DnsFailedKeeps
  <2>8. CASE mqtt_tcpclient_connect_cb
    BY <2>8, mqtt_tcpclient_connect_cbKeeps
  <2>9. CASE mqtt_tcpclient_recon_cb
    BY <2>9, mqtt_tcpclient_recon_cbKeeps
  <2>10. CASE mqtt_tcpclient_discon_cb
    BY <2>10, mqtt_tcpclient_discon_cbKeeps
  <2>11. CASE BrokerCloses
    BY <2>11, BrokerClosesKeeps
  <2>12. CASE mqtt_tcpclient_sent_cb
    BY <2>12, mqtt_tcpclient_sent_cbKeeps
  <2>13. CASE RecvConnack
    BY <2>13, RecvConnackKeeps
  <2>14. CASE RecvMessage
    BY <2>14, RecvMessageKeeps
  <2>15. CASE UNCHANGED vars
    BY <2>15, StutterKeeps
  <2> QED
    BY <2>1, <2>2, <2>3, <2>4, <2>5, <2>6, <2>7, <2>8, <2>9, <2>10,
       <2>11, <2>12, <2>13, <2>14, <2>15 DEF Next
<1> QED
  BY <1>1, <1>2, PTL DEF Spec

(* Every variable keeps its range, whatever the constants (mqtt.c lines    *)
(* 460-483 for the ticks).                                                 *)
THEOREM ClientTypes == Spec => []TypeOK
<1>1. IInv => TypeOK
  BY DEF IInv
<1> QED
  BY <1>1, ClientInvariant, PTL

(* The client is online only over an open, accepted session with its timer *)
(* running.                                                                *)
THEOREM ClientOnlineHasSession == Spec => []OnlineHasSession
<1>1. IInv => OnlineHasSession
  BY DEF IInv
<1> QED
  BY <1>1, ClientInvariant, PTL

(* While Wi-Fi is up, what moves the client on is always pending, unless   *)
(* espconn refused the connection it was asked for.                        *)
THEOREM ClientNeverStranded == Spec => []NeverStranded
<1>1. IInv => NeverStranded
  BY DEF IInv
<1> QED
  BY <1>1, ClientInvariant, PTL

(* A DNS answer with an address finds an espconn.                          *)
THEOREM ClientAnswerFindsConnection == Spec => []AnswerFindsConnection
<1>1. IInv => AnswerFindsConnection
  BY DEF IInv, Bookkeeping, AnswerFindsConnection
<1> QED
  BY <1>1, ClientInvariant, PTL

(* No wake-up of a queued message is lost.                                 *)
THEOREM ClientNeverStalls == Spec => []NoStall
<1>1. IInv => NoStall
  BY DEF IInv
<1> QED
  BY <1>1, ClientInvariant, PTL

(* While the network keeps time and memory lasts, TCP takes every message  *)
(* that leaves the queue.                                                  *)
THEOREM ClientSendsTaken == Spec => SendsTaken
<1> DEFINE Taken == TaskSend /\ left'["late"] = Budget["late"]
                             /\ left'["memory"] = Budget["memory"]
                      => inflight' /\ ~inflight
<1>1. IInv /\ [Next]_vars => [Taken]_vars
  <2> SUFFICES ASSUME IInv, TaskSend, left'["late"] = Budget["late"],
                      left'["memory"] = Budget["memory"]
               PROVE  inflight' /\ ~inflight
    BY DEF Taken
  <2> USE ConstantsAssumption
  <2>1. left \in Left /\ inflight \in BOOLEAN
    BY DEF IInv, TypeOK
  <2>2. left' \in Left /\ left'["late"] <= left["late"]
        /\ left'["memory"] <= left["memory"]
    BY <2>1, SpendKeeps, LeftFacts DEF TaskSend
  <2>3. /\ left["late"] \in Nat /\ left["memory"] \in Nat
        /\ Budget["late"] \in Nat /\ Budget["memory"] \in Nat
    BY <2>1, LeftFacts
  <2>4. left["late"] = Budget["late"] /\ left["memory"] = Budget["memory"]
    BY <2>2, <2>3 DEF IInv, Bookkeeping
  <2>5. ~inflight
    BY <2>4 DEF IInv, SendTimed, TaskSend
  <2>6. SendTaken
    BY <2>5 DEF IInv, OnlineHasSession, Online, TaskSend, SendTaken
  <2>7. ~Spend("memory")
    BY <2>1, <2>3, <2>4, SpendKeeps
  <2> QED
    BY <2>5, <2>6, <2>7 DEF TaskSend
<1> QED
  BY <1>1, ClientInvariant, PTL DEF Spec, SendsTaken, Taken

=============================================================================
