---------------------------- MODULE BootPromise ----------------------------
(***************************************************************************)
(* What wifi_init_sta promises its caller, as its comment puts it: it      *)
(* returns once the station is connected, or once the connection failed    *)
(* for the maximum number of retries, and in that case alone it opens the  *)
(* configuration portal.  Tasks, events and the driver are left out.       *)
(***************************************************************************)
EXTENDS Naturals

CONSTANT EXAMPLE_ESP_MAXIMUM_RETRY  \* reconnect attempts before giving up

VARIABLES failures,     \* connection losses in a row, as the handler saw them
          established,  \* an address was obtained at least once since reset
          exhausted,    \* the retries ran out at least once since reset
          verdict       \* what wifi_init_sta returned with

vars == <<failures, established, exhausted, verdict>>

Init == /\ failures = 0
        /\ established = FALSE
        /\ exhausted = FALSE
        /\ verdict = "none"

(* One more loss.  The first try and every retry have been used up exactly *)
(* when the number of losses in a row exceeds the number of retries.       *)
Lose == /\ failures' = failures + 1
        /\ exhausted' = (exhausted \/ failures' > EXAMPLE_ESP_MAXIMUM_RETRY)
        /\ UNCHANGED <<established, verdict>>

(* An address is obtained: the count of losses starts again.               *)
Establish == /\ failures' = 0
             /\ established' = TRUE
             /\ UNCHANGED <<exhausted, verdict>>

(* The verdict is given once, and only on its evidence.                    *)
Decide == /\ verdict = "none"
          /\ \/ established /\ verdict' = "station"
             \/ exhausted /\ verdict' = "portal"
          /\ UNCHANGED <<failures, established, exhausted>>

(* A reset takes everything back.                                          *)
Reboot == /\ failures' = 0 /\ verdict' = "none"
          /\ established' = FALSE /\ exhausted' = FALSE

Next == Lose \/ Establish \/ Decide \/ Reboot

Spec == Init /\ [][Next]_vars
=============================================================================
