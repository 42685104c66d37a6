------------------------------ MODULE Upgrade ------------------------------
(***************************************************************************)
(* Firmware upgrades (esp/src/user/fota.c and handleUpgradeMessage).  Each *)
(* command takes memory for an update before it knows whether the SDK will *)
(* start it; the SDK runs one at a time.                                   *)
(***************************************************************************)
CONSTANTS
  Updates,       (* blocks of memory: upgrade_server_info, espconn and url *)
  NoUpdate

ASSUME UpgradeAssumption == NoUpdate \notin Updates

VARIABLES
  upgrading,     (* the update the SDK works on                            *)
  held,          (* the blocks that are allocated                          *)
  upgradeShown   (* drawingState.upgrade                                   *)

upgrade == <<upgrading, held, upgradeShown>>

(* A slip: a refused update is not freed.                                  *)
RefusedKept(update) == held \cup {update}

Refused(update) == (held \cup {update}) \ {update}

(* system_upgrade_start refuses while an upgrade runs, and may otherwise;  *)
(* the screen announces the upgrade in any case.                           *)
handleUpgradeMessage ==
  /\ \E update \in Updates \ held :
       \/ /\ upgrading = NoUpdate
          /\ upgrading' = update /\ held' = held \cup {update}
       \/ held' = Refused(update) /\ UNCHANGED upgrading
  /\ upgradeShown' = TRUE

(* After a success the device starts anew: Device's Restart.               *)
ota_finished_callback ==
  /\ upgrading # NoUpdate
  /\ held' = held \ {upgrading} /\ upgrading' = NoUpdate
  /\ UNCHANGED upgradeShown

UpgradeStarts == upgrading' = NoUpdate /\ held' = {} /\ upgradeShown' = FALSE

UpgradeInit == upgrading = NoUpdate /\ held = {} /\ upgradeShown = FALSE

UpgradeTypeOK ==
  /\ upgrading \in Updates \cup {NoUpdate}
  /\ held \subseteq Updates
  /\ upgradeShown \in BOOLEAN

=============================================================================
