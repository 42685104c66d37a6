------------------------------- MODULE Clock -------------------------------
(***************************************************************************)
(* The clock's way to the time (esp/src/user/ntp.c): five seconds after    *)
(* Wi-Fi got an address a connection is created and asks the time server,  *)
(* and a timer repeats the question every two seconds until an answer      *)
(* comes.  One timer, ntp_timer, serves both waits.  The calendar that is  *)
(* computed from unixSeconds is ScheduleSearch's.                          *)
(***************************************************************************)
EXTENDS Naturals

CONSTANTS
  MaxUnderWay,   (* bound: answers under way at a time                     *)
  MaxLost        (* bound: questions or answers the network loses          *)

ASSUME ClockAssumption == MaxUnderWay \in Nat \ {0} /\ MaxLost \in Nat

VARIABLES
  wifi,          (* there is an address                                    *)
  ntp_timer,     (* what it will call: "connect" (ntp_connect, once),      *)
                 (* "retry" (ntp_timeout_handler, again and again), "off"  *)
  esp_conn,      (* the UDP connection is created                          *)
  refused,       (* history: espconn_create refused ntp_connect's last one *)
  unixSeconds,   (* what it counts from: the start of the device ("boot"), *)
                 (* an answer since ("ntp") or before ("old") Wi-Fi came   *)
  underWay,      (* answers, or questions still to be answered             *)
  lost

clock == <<wifi, ntp_timer, esp_conn, refused, unixSeconds, underWay, lost>>

(* espconn_sendto; without a connection or an address nothing leaves.      *)
Asked(connection) ==
  IF connection /\ wifi /\ underWay < MaxUnderWay THEN underWay + 1 ELSE underWay

ntp_init ==
  /\ ntp_timer' = "connect"
  /\ unixSeconds' = IF unixSeconds = "ntp" THEN "old" ELSE unixSeconds
  /\ UNCHANGED <<esp_conn, refused, underWay, lost>>

(* A slip: the question is repeated only once.                             *)
TimeoutOnce ==
  /\ ntp_timer = "retry"
  /\ underWay' = Asked(esp_conn) /\ ntp_timer' = "off"
  /\ UNCHANGED <<wifi, esp_conn, refused, unixSeconds, lost>>

ntp_timeout_handler ==
  /\ ntp_timer = "retry"
  /\ underWay' = Asked(esp_conn)
  /\ UNCHANGED <<wifi, ntp_timer, esp_conn, refused, unixSeconds, lost>>

(* The connection may exist already: then the timer is all that is new.    *)
(* One that does not may be refused, and the timer is armed all the same.  *)
ntp_connect ==
  /\ ntp_timer = "connect" /\ ntp_timer' = "retry"
  /\ \/ esp_conn' = TRUE /\ refused' = FALSE
     \/ ~esp_conn /\ esp_conn' = FALSE /\ refused' = TRUE
  /\ underWay' = Asked(esp_conn')
  /\ UNCHANGED <<wifi, unixSeconds, lost>>

(* A slip: the timer goes on with the deleted connection.                  *)
ReceiveTimed ==
  /\ wifi /\ esp_conn /\ underWay > 0
  /\ esp_conn' = FALSE
  /\ unixSeconds' = "ntp" /\ underWay' = underWay - 1
  /\ UNCHANGED <<wifi, ntp_timer, refused, lost>>

(* The answer may be one to a question asked before Wi-Fi was lost; it     *)
(* stops the timer whatever that waits for.                                *)
ntp_receive ==
  /\ wifi /\ esp_conn /\ underWay > 0
  /\ ntp_timer' = "off" /\ esp_conn' = FALSE
  /\ unixSeconds' = "ntp" /\ underWay' = underWay - 1
  /\ UNCHANGED <<wifi, refused, lost>>

(* An answer nobody takes, and one the network loses.                      *)
Unheard ==
  /\ underWay > 0 /\ ~(wifi /\ esp_conn)
  /\ underWay' = underWay - 1
  /\ UNCHANGED <<wifi, ntp_timer, esp_conn, refused, unixSeconds, lost>>

Lose ==
  /\ underWay > 0 /\ lost < MaxLost
  /\ underWay' = underWay - 1 /\ lost' = lost + 1
  /\ UNCHANGED <<wifi, ntp_timer, esp_conn, refused, unixSeconds>>

ClockStarts ==
  /\ wifi' = FALSE /\ ntp_timer' = "off" /\ esp_conn' = FALSE
  /\ refused' = FALSE /\ unixSeconds' = "boot"
  /\ UNCHANGED <<underWay, lost>>

ClockInit ==
  /\ wifi = FALSE /\ ntp_timer = "off" /\ esp_conn = FALSE
  /\ refused = FALSE /\ unixSeconds = "boot" /\ underWay = 0 /\ lost = 0

ClockNext ==
  ntp_timeout_handler \/ ntp_connect \/ ntp_receive \/ Unheard \/ Lose

-----------------------------------------------------------------------------
ClockTypeOK ==
  /\ wifi \in BOOLEAN /\ esp_conn \in BOOLEAN /\ refused \in BOOLEAN
  /\ ntp_timer \in {"off", "connect", "retry"}
  /\ unixSeconds \in {"boot", "old", "ntp"}
  /\ underWay \in 0 .. MaxUnderWay /\ lost \in 0 .. MaxLost

=============================================================================
