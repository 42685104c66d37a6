----------------------------- MODULE MqttClient -----------------------------
(***************************************************************************)
(* The connection state machine of the MQTT client (esp/src/mqtt/mqtt.c)   *)
(* with everything that calls it: the Wi-Fi event handler of user_main.c,  *)
(* the espconn and DNS callbacks, the one-second timer, and the system     *)
(* task MQTT_Task, whose queue holds one event.                            *)
(*                                                                         *)
(* Handlers run to completion, one at a time; what interleaves is their    *)
(* order.  TCP and DNS (espconn, external) are modelled from how mqtt.c    *)
(* uses them: a link opens, carries one unacknowledged send at a time, is  *)
(* closed by either side or fails; a DNS request is answered or fails once *)
(* and cannot be withdrawn.  The outbound queue is a number of messages    *)
(* here (FrameQueue has its bytes).                                        *)
(***************************************************************************)
EXTENDS Integers

CONSTANTS
  Hosts,             (* the kinds of MQTT_HOST: "ip", "domain" or both     *)
  KeepAliveHalf,     (* keepalive / 2, in seconds                          *)
  SendTimout,        (* MQTT_SEND_TIMOUT                                   *)
  ReconnectTimeout,  (* MQTT_RECONNECT_TIMEOUT                             *)
  Subscriptions,     (* messages queued by mqttConnectedCb                 *)
  Answers,           (* most messages queued on a received one             *)
  QueueRoom,         (* messages the outbound queue has room for           *)
  DnsTable,          (* DNS requests that can be pending at once           *)
  Budget             (* how often the environment may do what it may not   *)
                     (* do for ever: see Left                              *)

(* What the environment does only so often: lose the access point or give   *)
(* the station another address; fail, in the network or the broker; refuse  *)
(* an espconn_send for lack of memory; let a second end on an               *)
(* unacknowledged send or an event still posted; and bring a message, from  *)
(* the program or the broker.                                               *)
Left == [{"drops", "faults", "memory", "late", "work"} -> Nat]

ASSUME ConstantsAssumption ==
  /\ Hosts \subseteq {"ip", "domain"} /\ Hosts # {}
  /\ KeepAliveHalf \in Nat /\ KeepAliveHalf >= 1
  /\ SendTimout \in Nat /\ SendTimout >= 1
  /\ ReconnectTimeout \in Nat
  /\ Subscriptions \in Nat /\ Answers \in Nat
  /\ QueueRoom \in Nat /\ QueueRoom >= 1
  /\ DnsTable \in Nat /\ DnsTable >= 1
  /\ Budget \in Left

VARIABLES
  connState,      (* client->connState                                     *)
  pCon,           (* client->pCon # NULL                                   *)
  reconnectTick, keepAliveTick, sendTimeout,
  timerOn,        (* mqttTimer is armed                                    *)
  posted,         (* the task queue holds an event                         *)
  queue,          (* number of messages in client->msgQueue                *)
  host,           (* the kind of MQTT_HOST                                 *)
  wifi,           (* the station has an address                            *)
  link,           (* espconn: the TCP connection of pCon                   *)
  inflight,       (* espconn: a send is not acknowledged yet               *)
  broker,         (* what the broker knows of the connection               *)
  dns,            (* pending DNS requests made for pCon: 0 or 1            *)
  stale,          (* pending DNS requests made for a freed espconn         *)
  refused,        (* history: espconn refused to connect or to look up when *)
                  (* it was last asked to, though its DNS table had room   *)
  left

tcp == <<pCon, link, inflight, broker>>
requests == <<dns, stale, refused>>
ticks == <<reconnectTick, keepAliveTick, sendTimeout>>
vars == <<connState, tcp, ticks, timerOn, posted, queue, host, wifi,
          requests, left>>

ConnState == {"WIFI_INIT", "TCP_DISCONNECTED", "TCP_DISCONNECTING",
              "TCP_RECONNECT_DISCONNECTING", "TCP_RECONNECT_REQ",
              "TCP_RECONNECT", "TCP_CONNECTING", "MQTT_CONNECT_SENDING",
              "MQTT_KEEPALIVE_SEND", "MQTT_DATA"}

Online == connState \in {"MQTT_DATA", "MQTT_KEEPALIVE_SEND"}

-----------------------------------------------------------------------------
(* Pieces of the handlers.                                                 *)

Spend(what) == left[what] > 0 /\ left' = [left EXCEPT ![what] = @ - 1]

(* Slips the checks must notice stand before what they are slips of.  Here *)
(* an event that is lost though the queue is empty.                        *)
PostLost == UNCHANGED posted

(* system_os_post: an event posted while one is queued is dropped, which   *)
(* is as good, for the task reads the state when it runs.                  *)
Post == posted' = TRUE

(* QUEUE_Puts of n messages.  What a full queue loses is FrameQueue's.     *)
Puts(n) == \/ queue + n <= QueueRoom /\ queue' = queue + n
           \/ queue + n > QueueRoom /\ queue' \in 0 .. QueueRoom

(* espconn_send takes one message at a time.                               *)
SendTaken == link = "open" /\ ~inflight

(* The connection of pCon is gone: closed, failed or aborted.              *)
LinkGone == link' = "none" /\ inflight' = FALSE /\ broker' = "none"

(* mqtt_tcpclient_delete.  A request made for the espconn stays pending.   *)
mqtt_tcpclient_delete == /\ pCon' = FALSE
                         /\ LinkGone
                         /\ stale' = stale + dns
                         /\ dns' = 0
                         /\ UNCHANGED refused

(* espconn_disconnect: nothing to do unless the link is open; one that is  *)
(* still opening is closed without a callback.                             *)
espconn_disconnect ==
  \/ /\ link = "open"
     /\ link' = "closing" /\ inflight' = FALSE /\ broker' = "none"
     /\ UNCHANGED pCon
  \/ link = "syn" /\ LinkGone /\ UNCHANGED pCon
  \/ link \in {"none", "closing"} /\ UNCHANGED tcp

(* MQTT_Connect: a new espconn in place of the old one, which is deleted.  *)
(* A domain name is looked up, unless the DNS table is full.  espconn may  *)
(* refuse either request, for lack of memory or of a route; what it answers *)
(* is not looked at.                                                       *)
MQTT_Connect ==
  /\ connState' = "TCP_CONNECTING"
  /\ pCon' = TRUE
  /\ inflight' = FALSE
  /\ broker' = "none"
  /\ stale' = stale + dns
  /\ \/ /\ host = "ip"
        /\ link' = "syn" /\ dns' = 0 /\ refused' = FALSE
     \/ /\ host = "domain"
        /\ link' = "none" /\ refused' = FALSE
        /\ dns' = IF stale + dns < DnsTable THEN 1 ELSE 0
     \/ link' = "none" /\ dns' = 0 /\ refused' = TRUE
  /\ keepAliveTick' = 0
  /\ reconnectTick' = 0
  /\ timerOn' = TRUE
  /\ UNCHANGED sendTimeout

MQTT_Disconnect == /\ connState' = "TCP_DISCONNECTING"
                   /\ timerOn' = FALSE
                   /\ Post

-----------------------------------------------------------------------------
(* MQTT_Task, one action per case.  A state without a case does nothing.   *)

TaskIdle ==
  /\ posted /\ posted' = FALSE
  /\ \/ connState \in {"WIFI_INIT", "TCP_RECONNECT_REQ", "TCP_CONNECTING",
                       "MQTT_CONNECT_SENDING"}
     \/ connState = "MQTT_DATA" /\ (queue = 0 \/ sendTimeout # 0)
  /\ UNCHANGED <<connState, tcp, ticks, timerOn, queue, host, wifi,
                 requests, left>>

TaskReconnect ==
  /\ posted /\ posted' = FALSE
  /\ connState = "TCP_RECONNECT"
  /\ MQTT_Connect
  /\ UNCHANGED <<queue, host, wifi, left>>

TaskDisconnect ==
  /\ posted /\ posted' = FALSE
  /\ connState \in {"TCP_DISCONNECTING", "TCP_RECONNECT_DISCONNECTING"}
  /\ espconn_disconnect
  /\ UNCHANGED <<connState, ticks, timerOn, queue, host, wifi, requests, left>>

TaskDelete ==
  /\ posted /\ posted' = FALSE
  /\ connState = "TCP_DISCONNECTED"
  /\ mqtt_tcpclient_delete
  /\ UNCHANGED <<connState, ticks, timerOn, queue, host, wifi, left>>

(* A slip: the ping does not start the send time-out.                      *)
KeepAliveUntimed ==
  /\ posted /\ Post
  /\ connState = "MQTT_KEEPALIVE_SEND"
  /\ SendTaken
  /\ inflight' = TRUE
  /\ keepAliveTick' = 0
  /\ connState' = "MQTT_DATA"
  /\ UNCHANGED <<pCon, link, broker, reconnectTick, sendTimeout, timerOn, queue,
                 host, wifi, requests, left>>

(* mqtt_send_keepalive                                                     *)
TaskKeepAlive ==
  /\ posted /\ Post
  /\ connState = "MQTT_KEEPALIVE_SEND"
  /\ sendTimeout' = SendTimout
  /\ \/ /\ SendTaken
        /\ inflight' = TRUE
        /\ keepAliveTick' = 0
        /\ connState' = "MQTT_DATA"
        /\ UNCHANGED left
     \/ /\ \/ ~SendTaken /\ UNCHANGED left
           \/ SendTaken /\ Spend("memory")
        /\ connState' = "TCP_RECONNECT_DISCONNECTING"
        /\ UNCHANGED <<inflight, keepAliveTick>>
  /\ UNCHANGED <<pCon, link, broker, reconnectTick, timerOn, queue, host,
                 wifi, requests>>

(* The MQTT_DATA case.  What espconn_send answers is not looked at.        *)
TaskSend ==
  /\ posted /\ posted' = FALSE
  /\ connState = "MQTT_DATA" /\ queue > 0 /\ sendTimeout = 0
  /\ queue' = queue - 1
  /\ sendTimeout' = SendTimout
  /\ \/ SendTaken /\ inflight' = TRUE /\ UNCHANGED left
     \/ ~SendTaken /\ UNCHANGED <<inflight, left>>
     \/ SendTaken /\ Spend("memory") /\ UNCHANGED inflight
  /\ UNCHANGED <<connState, pCon, link, broker, reconnectTick, keepAliveTick,
                 timerOn, host, wifi, requests>>

MQTT_Task == \/ TaskIdle \/ TaskReconnect \/ TaskDisconnect
             \/ TaskDelete \/ TaskKeepAlive \/ TaskSend

-----------------------------------------------------------------------------
(* mqtt_timer, once a second.  A send is acknowledged and a posted event   *)
(* handled before the next second, but Budget["late"] times.               *)
TickDown == sendTimeout' = IF sendTimeout > 0 THEN sendTimeout - 1 ELSE 0

mqtt_timer ==
  /\ timerOn
  /\ IF inflight \/ posted THEN Spend("late") ELSE UNCHANGED left
  /\ TickDown
  /\ \/ /\ connState = "MQTT_DATA"
        /\ keepAliveTick' = keepAliveTick + 1
        /\ IF keepAliveTick' > KeepAliveHalf
           THEN connState' = "MQTT_KEEPALIVE_SEND" /\ Post
           ELSE UNCHANGED <<connState, posted>>
        /\ UNCHANGED reconnectTick
     \/ /\ connState = "TCP_RECONNECT_REQ"
        /\ IF reconnectTick + 1 > ReconnectTimeout
           THEN reconnectTick' = 0 /\ connState' = "TCP_RECONNECT" /\ Post
           ELSE /\ reconnectTick' = reconnectTick + 1
                /\ UNCHANGED <<connState, posted>>
        /\ UNCHANGED keepAliveTick
     \/ /\ connState \notin {"MQTT_DATA", "TCP_RECONNECT_REQ"}
        /\ UNCHANGED <<connState, posted, reconnectTick, keepAliveTick>>
  /\ UNCHANGED <<tcp, timerOn, queue, host, wifi, requests>>

(* MQTT_Publish and its like, called by the program at any time.           *)
MQTT_Publish ==
  /\ Spend("work")
  /\ Puts(1)
  /\ Post
  /\ UNCHANGED <<connState, tcp, ticks, timerOn, host, wifi, requests>>

-----------------------------------------------------------------------------
(* wifi_status_handler.  The station reports every failed attempt to       *)
(* associate as one more disconnection, and an address that is renewed as  *)
(* one more that was got.                                                  *)
WifiGotIp ==
  /\ IF wifi THEN Spend("drops") ELSE UNCHANGED left
  /\ wifi' = TRUE
  /\ MQTT_Connect
  /\ UNCHANGED <<posted, queue, host>>

WifiDisconnected ==
  /\ IF wifi THEN Spend("drops") ELSE UNCHANGED left
  /\ wifi' = FALSE
  /\ MQTT_Disconnect
  /\ UNCHANGED <<tcp, ticks, queue, host, requests>>

(* A request leaves the DNS table: one made for pCon or for a freed one.   *)
DnsDone == \/ dns > 0 /\ dns' = dns - 1 /\ UNCHANGED stale
           \/ stale > 0 /\ stale' = stale - 1 /\ UNCHANGED dns

(* mqtt_dns_found with an address.  espconn_connect refuses an espconn     *)
(* that is connected already, and may refuse one that is not; connState is *)
(* set whatever it answers.                                                *)
DnsFound ==
  /\ wifi /\ pCon
  /\ DnsDone
  /\ \/ link = "none" /\ link' = "syn" /\ refused' = FALSE
     \/ link = "none" /\ link' = "none" /\ refused' = TRUE
     \/ link # "none" /\ UNCHANGED <<link, refused>>
  /\ connState' = "TCP_CONNECTING"
  /\ Post
  /\ UNCHANGED <<pCon, inflight, broker, ticks, timerOn, queue, host, wifi,
                 left>>

(* mqtt_dns_found without one: no answer, or no such name.                 *)
DnsFailed ==
  /\ IF wifi THEN Spend("faults") ELSE UNCHANGED left
  /\ DnsDone
  /\ connState' = "TCP_RECONNECT_REQ"
  /\ UNCHANGED <<tcp, ticks, timerOn, posted, queue, host, wifi, refused>>

(* mqtt_tcpclient_connect_cb sends CONNECT.                                *)
mqtt_tcpclient_connect_cb ==
  /\ wifi /\ link = "syn"
  /\ link' = "open"
  /\ \/ inflight' = TRUE /\ broker' = "asked" /\ UNCHANGED left
     \/ Spend("memory") /\ UNCHANGED <<inflight, broker>>
  /\ sendTimeout' = SendTimout
  /\ connState' = "MQTT_CONNECT_SENDING"
  /\ Post
  /\ UNCHANGED <<pCon, reconnectTick, keepAliveTick, timerOn, queue, host,
                 wifi, requests>>

(* A slip: an error is not followed by a reconnection.                     *)
ReconIgnored ==
  /\ link \in {"syn", "open"}
  /\ IF wifi THEN Spend("faults") ELSE UNCHANGED left
  /\ LinkGone
  /\ Post
  /\ UNCHANGED <<connState, pCon, ticks, timerOn, queue, host, wifi, requests>>

(* mqtt_tcpclient_recon_cb: the link fails, opening or open.               *)
mqtt_tcpclient_recon_cb ==
  /\ link \in {"syn", "open"}
  /\ IF wifi THEN Spend("faults") ELSE UNCHANGED left
  /\ LinkGone
  /\ connState' = "TCP_RECONNECT_REQ"
  /\ Post
  /\ UNCHANGED <<pCon, ticks, timerOn, queue, host, wifi, requests>>

(* Slips: a close is not noticed, or always taken for one we asked for.    *)
DisconnectedUnseen ==
  /\ LinkGone
  /\ Post
  /\ UNCHANGED <<connState, pCon, ticks, timerOn, queue, host, wifi, requests>>

DisconnectedForGood ==
  /\ LinkGone
  /\ connState' = "TCP_DISCONNECTED"
  /\ Post
  /\ UNCHANGED <<pCon, ticks, timerOn, queue, host, wifi, requests>>

(* mqtt_tcpclient_discon_cb: the link is closed, by us or by the broker.   *)
Disconnected ==
  /\ LinkGone
  /\ connState' = IF connState = "TCP_DISCONNECTING"
                  THEN "TCP_DISCONNECTED" ELSE "TCP_RECONNECT_REQ"
  /\ Post
  /\ UNCHANGED <<pCon, ticks, timerOn, queue, host, wifi, requests>>

mqtt_tcpclient_discon_cb == link = "closing" /\ Disconnected /\ UNCHANGED left

(* The broker closes the connection of a client it has not heard from.     *)
BrokerHearsNothing == /\ link = "open"
                      /\ ~Online
                      /\ ~(connState = "MQTT_CONNECT_SENDING" /\ broker = "asked")

BrokerCloses == /\ wifi /\ link = "open"
                /\ IF BrokerHearsNothing THEN UNCHANGED left ELSE Spend("faults")
                /\ Disconnected

(* A slip: the acknowledgement does not wake the task.                     *)
SentUnposted ==
  /\ wifi /\ link = "open" /\ inflight
  /\ inflight' = FALSE
  /\ sendTimeout' = 0
  /\ keepAliveTick' = 0
  /\ UNCHANGED <<connState, pCon, link, broker, reconnectTick, timerOn, posted,
                 queue, host, wifi, requests, left>>

(* mqtt_tcpclient_sent_cb                                                  *)
mqtt_tcpclient_sent_cb ==
  /\ wifi /\ link = "open" /\ inflight
  /\ inflight' = FALSE
  /\ sendTimeout' = 0
  /\ keepAliveTick' = 0
  /\ Post
  /\ UNCHANGED <<connState, pCon, link, broker, reconnectTick, timerOn, queue,
                 host, wifi, requests, left>>

(* mqtt_tcpclient_recv of a CONNACK: looked at only in the state that      *)
(* waits for it.                                                           *)
RecvConnack ==
  /\ wifi /\ link = "open" /\ broker = "asked"
  /\ keepAliveTick' = 0
  /\ Post
  /\ \/ /\ connState = "MQTT_CONNECT_SENDING"
        /\ connState' = "MQTT_DATA"
        /\ broker' = "up"
        /\ Puts(Subscriptions)
        /\ UNCHANGED <<link, inflight, left>>
     \/ /\ connState = "MQTT_CONNECT_SENDING"
        /\ Spend("faults")
        /\ link' = "closing" /\ inflight' = FALSE /\ broker' = "none"
        /\ UNCHANGED <<connState, queue>>
     \/ /\ connState # "MQTT_CONNECT_SENDING"
        /\ broker' = "up"
        /\ UNCHANGED <<connState, queue, link, inflight, left>>
  /\ UNCHANGED <<pCon, reconnectTick, sendTimeout, timerOn, host, wifi,
                 requests>>

(* mqtt_tcpclient_recv of anything else.  In the online states it may      *)
(* queue an answer, and the handler that dataCb calls messages of its own. *)
RecvMessage ==
  /\ wifi /\ link = "open" /\ broker = "up"
  /\ Spend("work")
  /\ keepAliveTick' = 0
  /\ Post
  /\ \/ Online /\ \E n \in 0 .. Answers : Puts(n)
     \/ ~Online /\ UNCHANGED queue
  /\ UNCHANGED <<connState, tcp, reconnectTick, sendTimeout, timerOn, host,
                 wifi, requests>>

-----------------------------------------------------------------------------
(* After mqttStart (MQTT_InitConnection, MQTT_InitClient), before Wi-Fi.   *)
Init ==
  /\ connState = "WIFI_INIT"
  /\ pCon = FALSE
  /\ reconnectTick = 0 /\ keepAliveTick = 0 /\ sendTimeout = 0
  /\ timerOn = FALSE
  /\ posted = TRUE
  /\ queue = 0
  /\ host \in Hosts
  /\ wifi = FALSE
  /\ link = "none" /\ inflight = FALSE /\ broker = "none"
  /\ dns = 0 /\ stale = 0 /\ refused = FALSE
  /\ left = Budget

Next == \/ MQTT_Task
        \/ mqtt_timer
        \/ MQTT_Publish
        \/ WifiGotIp \/ WifiDisconnected
        \/ DnsFound \/ DnsFailed
        \/ mqtt_tcpclient_connect_cb
        \/ mqtt_tcpclient_recon_cb
        \/ mqtt_tcpclient_discon_cb
        \/ BrokerCloses
        \/ mqtt_tcpclient_sent_cb
        \/ RecvConnack \/ RecvMessage

Spec == Init /\ [][Next]_vars

(* The system task runs, the timer ticks, the access point comes back, the *)
(* resolver and TCP answer, and the broker drops a silent client.          *)
FairSpec ==
  /\ Spec
  /\ WF_vars(MQTT_Task)
  /\ WF_vars(mqtt_timer)
  /\ WF_vars(~wifi /\ WifiGotIp)
  /\ WF_vars(DnsFound \/ (~wifi /\ DnsFailed))
  /\ WF_vars(mqtt_tcpclient_connect_cb)
  /\ WF_vars(mqtt_tcpclient_discon_cb)
  /\ WF_vars(BrokerHearsNothing /\ BrokerCloses)
  /\ WF_vars(mqtt_tcpclient_sent_cb)
  /\ WF_vars(RecvConnack)

-----------------------------------------------------------------------------
(* Every variable keeps its range; in particular the ticks stop at their   *)
(* thresholds and at most one DNS request is pending for pCon.             *)
TypeOK ==
  /\ connState \in ConnState
  /\ pCon \in BOOLEAN
  /\ reconnectTick \in 0 .. ReconnectTimeout
  /\ keepAliveTick \in 0 .. (KeepAliveHalf + 1)
  /\ sendTimeout \in 0 .. SendTimout
  /\ timerOn \in BOOLEAN /\ posted \in BOOLEAN /\ wifi \in BOOLEAN
  /\ queue \in 0 .. QueueRoom
  /\ host \in Hosts
  /\ link \in {"none", "syn", "open", "closing"}
  /\ inflight \in BOOLEAN
  /\ broker \in {"none", "asked", "up"}
  /\ dns \in 0 .. 1 /\ stale \in 0 .. DnsTable /\ refused \in BOOLEAN
  /\ left \in Left

(* The client believes itself online only while it is: on an open link     *)
(* over which the broker accepted its CONNECT, with the timer that keeps   *)
(* the session alive running (mqtt.c lines 300-340, 460-483, 908-914).     *)
OnlineHasSession ==
  Online => /\ wifi /\ pCon /\ timerOn
            /\ link = "open"
            /\ broker = "up"

(* With Wi-Fi up, no state waits for an event that nobody will bring, but  *)
(* the one in which espconn refused to connect: although the timer looks   *)
(* at two states only and posts may be dropped, something is always pending *)
(* that moves the client on (mqtt.c lines 460-483, 685-755).               *)
NeverStranded ==
  wifi =>
    /\ connState \notin {"WIFI_INIT", "TCP_DISCONNECTED", "TCP_DISCONNECTING"}
    /\ connState = "TCP_CONNECTING" =>
         dns + stale > 0 \/ link # "none" \/ refused
    /\ connState = "MQTT_CONNECT_SENDING" => link \in {"open", "closing"}
    /\ connState = "TCP_RECONNECT_REQ" => timerOn
    /\ connState \in {"TCP_RECONNECT", "MQTT_KEEPALIVE_SEND"} => posted
    /\ connState = "TCP_RECONNECT_DISCONNECTING" =>
         link = "closing" \/ (posted /\ link = "open")

(* An address is found for a client that has an espconn to put it in:      *)
(* mqtt_dns_found writes through client->pCon unchecked (mqtt.c line 81).  *)
AnswerFindsConnection == wifi /\ dns + stale > 0 => pCon

(* A message waits in the queue of an online client only for a send that   *)
(* is under way or timing out: while memory lasts, no order of             *)
(* acknowledgement, time-out and post loses the wake-up (mqtt.c lines      *)
(* 443-458, 480-482, 729).                                                 *)
NoStall ==
  /\ Online /\ queue > 0
  /\ left["memory"] = Budget["memory"]
  /\ ~inflight /\ sendTimeout = 0
  => posted

(* While the network keeps time and memory lasts, every message taken from *)
(* the queue is taken by TCP: the send time-out and the keep-alive, which  *)
(* does not look at it, never meet a send still under way (mqtt.c lines    *)
(* 121-155, 728-752).                                                      *)
SendsTaken ==
  [][TaskSend /\ left'["late"] = Budget["late"] /\ left'["memory"] = Budget["memory"]
       => inflight' /\ ~inflight]_vars

(* What the invariants above rest on.                                      *)
Bookkeeping ==
  /\ wifi => pCon
  /\ timerOn <=> wifi
  /\ ~pCon => link = "none" /\ dns = 0
  /\ link # "open" => ~inflight /\ broker = "none"
  /\ connState = "TCP_RECONNECT" => wifi
  /\ connState = "MQTT_DATA" => keepAliveTick <= KeepAliveHalf
  /\ dns + stale <= DnsTable
  /\ left["late"] <= Budget["late"] /\ left["memory"] <= Budget["memory"]

(* A running time-out means a send under way, and while the network keeps  *)
(* time a send under way a full time-out.                                  *)
SendTimed ==
  /\ /\ left["memory"] = Budget["memory"]
     /\ link = "open" /\ sendTimeout > 0
     /\ Online \/ connState = "MQTT_CONNECT_SENDING"
     => inflight
  /\ left["late"] = Budget["late"] /\ inflight => sendTimeout = SendTimout

IInv == /\ TypeOK /\ OnlineHasSession /\ NeverStranded /\ NoStall
        /\ Bookkeeping /\ SendTimed

(* Once the failures stop, the client gets online, stays online and sends  *)
(* all it has queued, unless the last of them was a refused connection     *)
(* (mqtt.c lines 94, 898 and 903).                                         *)
EventuallyServing == []<>~refused => <>[](Online /\ queue = 0)

(* A client that says it is connecting (mqtt.c line 98) has begun to, as   *)
(* the brief of MQTT_Connect has it (line 854): a link is opening or a     *)
(* name being looked up.                                                   *)
ConnectingHasBegun ==
  wifi /\ connState = "TCP_CONNECTING" => dns + stale > 0 \/ link # "none"

(* No DNS answer is delivered to a freed espconn: mqtt.c line 158 deletes  *)
(* the TCP client and frees all memory, 862-864 clean up the old           *)
(* connection forcefully.                                                  *)
OldConnectionIsGone == stale = 0

=============================================================================
