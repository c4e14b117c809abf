--------------------------- MODULE MCProvisioning ---------------------------
(* Instances of Provisioning: the array sizes are those of WiFi.h.         *)
EXTENDS Provisioning

Pair(ssid, l1, password, l2) == [ssid |-> [text |-> ssid, len |-> l1],
                                 password |-> [text |-> password, len |-> l2]]

WifiHSizes == [ssid |-> 32, password |-> 64]
Compiled == Pair("wifissid", 8, "wifipassword", 12)

(* The longest pair that fits; one that is cut and, its password typed     *)
(* without end, does not fit the handler's array; one without a password,  *)
(* and one with a number for it; what two bodies are taken for.            *)
Fits == Pair("home", 31, "secret", 63)
Endless == Pair("other", 32, "endless", 1000)
NoPassword == [Fits EXCEPT !.password = Absent]
NumberPassword == [Fits EXCEPT !.password = NotString]
Posts == {Fits, Endless, NoPassword, NumberPassword}
Mixed == {[text |-> "mixed", len |-> 40]}
=============================================================================
