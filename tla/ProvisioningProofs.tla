------------------------- MODULE ProvisioningProofs -------------------------
(***************************************************************************)
(* Proofs about Provisioning for any strings, array sizes, posts and       *)
(* number of faults.                                                       *)
(***************************************************************************)
EXTENDS Provisioning, TLAPS

-----------------------------------------------------------------------------
(* The inductive invariant.                                                *)

Shapes == /\ wifi_creds = [k \in Keys |-> wifi_creds[k]]
          /\ sta_config = [k \in Keys |-> sta_config[k]]
          /\ flash = [k \in Keys |-> flash[k]]

(* From the copy on the handler holds a whole pair, and so does RAM.       *)
Writing == {"nvs_open", "set_ssid", "set_password", "commit", "reply", "restart"}
HandlerHoldsPair == step \in Writing => body \in Whole /\ wifi_creds = CutPair(body)

(* How far nvs_write has got: a key that was set waits or is in flash.     *)
IsSet(k) == k \in pending \/ flash[k] = wifi_creds[k]
WriteOrder ==
  /\ pending # {} => /\ step \in {"set_password", "commit", "reply", "restart"}
                     /\ body \in tried
  /\ step \in {"set_password", "commit"} => IsSet("ssid") /\ body \in tried
  /\ step = "commit" => IsSet("password")

SavedInFlash == Durable => flash = CutPair(saved)
KnownInFlash == \A k \in Keys : flash[k] \in Known(k)

(* How far a boot has got: with whatever it could read of flash, and with  *)
(* a saved pair that it could read.                                        *)
Seeking == {"connect", "online", "portal", "parse"}
BootHalves == \A k \in Keys :
  /\ step \in BootSteps => wifi_creds[k] \in Known(k) \cup {Default[k]}
  /\ step \in Seeking => sta_config[k] \in Known(k) \cup {Default[k]}

BootReads == clean /\ Durable =>
  /\ step = "get_password" => wifi_creds["ssid"] = Cut(saved["ssid"], Size["ssid"])
  /\ step = "configure" => wifi_creds = CutPair(saved)
  /\ step \in Seeking => sta_config = CutPair(saved)

IInv == /\ TypeOK /\ Shapes
        /\ HandlerHoldsPair /\ WriteOrder /\ SavedInFlash /\ KnownInFlash
        /\ BootHalves /\ BootReads

-----------------------------------------------------------------------------
(* Cut strings.                                                            *)

USE SizeAssumption, FaultAssumption

(* A string that fits is stored as it is; one that was cut fits.           *)
LEMMA CutFits ==
  ASSUME NEW s \in Strings, NEW k \in Keys
  PROVE  /\ Cut(s, Size[k]) \in Stored(k) /\ Cut(s, Size[k]) # Absent
         /\ Cut(s, Size[k]).len < Size[k]
         /\ Cut(Cut(s, Size[k]), Size[k]) = Cut(s, Size[k])
         /\ s.len < Size[k] => Cut(s, Size[k]) = s
<1>1. s = [text |-> s.text, len |-> s.len] /\ s.len \in Nat
      /\ Cut(s, Size[k]) # Absent
  BY StringAssumption
<1>2. Size[k] \in Nat /\ Size[k] > 0
  OBVIOUS
<1>3. Cut(s, Size[k]) = [text |-> s.text,
                         len |-> IF s.len < Size[k] THEN s.len ELSE Size[k] - 1]
  BY <1>1 DEF Cut
<1>4. Cut(s, Size[k]).len < Size[k]
  BY <1>1, <1>2, <1>3
<1>5. Cut(Cut(s, Size[k]), Size[k]) = Cut(s, Size[k])
  BY <1>3, <1>4 DEF Cut
<1>6. s.len < Size[k] => Cut(s, Size[k]) = s
  BY <1>1, <1>3
<1>7. Cut(s, Size[k]) \in Stored(k)
  BY DEF Stored
<1>8. QED
  BY <1>1, <1>4, <1>5, <1>6, <1>7

(* What is stored under a key is no longer than its array, and is there.   *)
LEMMA StoredFits ==
  ASSUME NEW k \in Keys, NEW s \in Stored(k)
  PROVE  s # Absent /\ s.len < Size[k] /\ Cut(s, Size[k]) = s
<1>1. PICK r \in Strings : s = Cut(r, Size[k])
  BY DEF Stored
<1>2. QED
  BY <1>1, CutFits

(* A whole pair is stored, once cut, and cutting it again changes nothing. *)
LEMMA WholeCut ==
  ASSUME NEW p \in Whole
  PROVE  /\ \A k \in Keys : CutPair(p)[k] \in Stored(k)
         /\ CutPair(p) = [k \in Keys |-> CutPair(p)[k]]
         /\ CutPair(CutPair(p)) = CutPair(p)
<1>1. \A k \in Keys : p[k] \in Strings
  BY DEF Whole
<1>2. QED
  BY <1>1, CutFits DEF CutPair

LEMMA DefaultStored == \A k \in Keys : Default[k] \in Stored(k)
<1> SUFFICES ASSUME NEW k \in Keys PROVE Default[k] \in Stored(k)
  OBVIOUS
<1>1. Default[k] \in Strings /\ Default[k].len < Size[k]
  BY PairAssumption
<1>2. QED
  BY <1>1, CutFits

-----------------------------------------------------------------------------
(* The invariant is inductive.                                             *)

LEMMA InitIInv == Init => IInv
<1> SUFFICES ASSUME Init PROVE IInv
  OBVIOUS
<1>1. TypeOK
  <2>1. \A k \in Keys : wifi_creds[k] \in Stored(k)
    BY DefaultStored DEF Init
  <2>2. \A k \in Keys : sta_config[k] = Absent /\ flash[k] = Absent
    BY DEF Init, NotFound
  <2>3. step \in Steps /\ faults \in 0..MaxFaults
    BY DEF Init, Steps, BootSteps
  <2>4. QED
    BY <2>1, <2>2, <2>3 DEF Init, TypeOK
<1>2. Shapes
  BY PairAssumption DEF Init, Shapes, NotFound
<1>3. KnownInFlash
  BY DEF Init, KnownInFlash, Known, NotFound
<1>4. BootHalves
  BY DEF Init, BootHalves, Seeking
<1>5. QED
  BY <1>1, <1>2, <1>3, <1>4
     DEF Init, IInv, HandlerHoldsPair, Writing, WriteOrder, SavedInFlash, Durable,
         BootReads, Seeking

LEMMA Faults ==
  ASSUME IInv, Fault \/ NoFault
  PROVE  faults' \in 0..MaxFaults
BY DEF IInv, TypeOK, Fault, NoFault

LEMMA ResetStep == ASSUME IInv, Reset, Fault \/ NoFault PROVE IInv'
<1> USE DEF IInv
<1>1. /\ step' = "init" /\ wifi_creds' = Default /\ sta_config' = NotFound
      /\ pending' = {} /\ request' = None /\ body' = None /\ clean' = TRUE
      /\ content' = {} /\ overrun' = FALSE
      /\ page' \in {"idle", "waiting", "success", "error"}
      /\ UNCHANGED <<flash, saved, tried>>
  BY DEF Reset, Go, TypeOK
<1>2. TypeOK'
  BY <1>1, Faults, DefaultStored DEF TypeOK, Steps, BootSteps, NotFound
<1>3. Shapes'
  BY <1>1, PairAssumption DEF Shapes, NotFound
<1>4. HandlerHoldsPair' /\ WriteOrder' /\ SavedInFlash' /\ BootReads'
  BY <1>1 DEF HandlerHoldsPair, Writing, WriteOrder, SavedInFlash, Durable,
              BootReads, Seeking
<1>5. KnownInFlash' /\ BootHalves'
  BY <1>1 DEF KnownInFlash, BootHalves, Known, Seeking
<1>6. QED
  BY <1>2, <1>3, <1>4, <1>5

(* What a step of a boot, and of the page, keeps: it leaves flash, the NVS *)
(* history and the handler's body alone, and goes nowhere in the handler.  *)
LEMMA OutsideHandler ==
  ASSUME IInv, UNCHANGED <<nvsVars, body>>,
         step \notin HandlerSteps, step' \notin HandlerSteps
  PROVE  HandlerHoldsPair' /\ WriteOrder' /\ SavedInFlash' /\ KnownInFlash'
<1> USE DEF IInv, nvsVars, HandlerSteps
<1>1. HandlerHoldsPair'
  BY DEF HandlerHoldsPair, Writing
<1>2. WriteOrder'
  BY DEF WriteOrder
<1>3. SavedInFlash' /\ KnownInFlash'
  BY DEF SavedInFlash, Durable, KnownInFlash, Known
<1>4. QED
  BY <1>1, <1>2, <1>3

LEMMA WifiInitStep == IInv /\ WifiInit => IInv'
<1> SUFFICES ASSUME IInv, WifiInit PROVE IInv'
  OBVIOUS
<1>1. CASE Fault /\ Reset
  BY <1>1, ResetStep
<1>2. CASE ~(Fault /\ Reset)
  <2>1. /\ step = "init" /\ step' = "nvs_open_read"
        /\ UNCHANGED <<ramVars, nvsVars, pageVars, clean, faults>>
    BY <1>2 DEF WifiInit, Step, Go, NoFault
  <2>2. TypeOK' /\ Shapes'
    BY <2>1 DEF IInv, TypeOK, Shapes, Steps, BootSteps, ramVars, bodyVars, nvsVars, pageVars
  <2>3. BootReads' /\ BootHalves'
    BY <2>1 DEF IInv, BootReads, BootHalves, Known, Seeking, BootSteps, ramVars, nvsVars
  <2>4. QED
    BY <2>1, <2>2, <2>3, OutsideHandler DEF IInv, HandlerSteps, ramVars, bodyVars
<1>3. QED
  BY <1>1, <1>2

LEMMA OpenToReadStep == IInv /\ OpenToRead => IInv'
<1> SUFFICES ASSUME IInv, OpenToRead PROVE IInv'
  OBVIOUS
<1>1. /\ step = "nvs_open_read" /\ step' \in {"get_ssid", "configure"}
      /\ step' = "configure" => clean' = FALSE
      /\ clean' \in BOOLEAN /\ (Fault \/ NoFault)
      /\ UNCHANGED <<ramVars, nvsVars, pageVars>>
  BY DEF IInv, TypeOK, OpenToRead, Step, Go
<1>2. TypeOK' /\ Shapes'
  BY <1>1, Faults DEF IInv, TypeOK, Shapes, Steps, BootSteps, ramVars, bodyVars, nvsVars, pageVars
<1>3. BootReads' /\ BootHalves'
  BY <1>1 DEF IInv, BootReads, BootHalves, Known, Durable, Seeking, BootSteps, ramVars, nvsVars
<1>4. QED
  BY <1>1, <1>2, <1>3, OutsideHandler DEF IInv, HandlerSteps, ramVars, bodyVars

(* One string is read, or not.                                             *)
LEMMA GetStrKeeps ==
  ASSUME IInv, NEW k \in Keys, NEW here \in BootSteps, NEW next \in BootSteps,
         GetStr(k, here, next)
  PROVE  /\ TypeOK' /\ Shapes' /\ (Fault \/ NoFault)
         /\ step = here /\ step' = next /\ UNCHANGED <<sta_config, body, nvsVars>>
         /\ \A j \in Keys \ {k} : wifi_creds'[j] = wifi_creds[j]
         /\ wifi_creds'[k] \in {wifi_creds[k], flash[k]}
         /\ clean' => clean
         /\ clean' /\ Durable => wifi_creds'[k] = Cut(saved[k], Size[k])
<1> USE DEF IInv
<1>1. /\ step = here /\ step' = next /\ (Fault \/ NoFault)
      /\ UNCHANGED <<sta_config, bodyVars, nvsVars, pageVars>>
      /\ clean' \in BOOLEAN
  BY DEF GetStr, Step, Go, TypeOK
<1>2. CASE Readable(k) /\ NoFault /\ UNCHANGED clean
           /\ wifi_creds' = [wifi_creds EXCEPT ![k] = flash[k]]
  <2>1. flash[k] \in Stored(k)
    BY <1>2 DEF Readable, TypeOK
  <2>2. wifi_creds' = [j \in Keys |-> IF j = k THEN flash[k] ELSE wifi_creds[j]]
    BY <1>2 DEF Shapes
  <2>3. TypeOK' /\ Shapes'
    BY <1>1, <2>1, <2>2, Faults DEF TypeOK, Shapes, Steps, bodyVars, nvsVars, pageVars
  <2>4. Durable => flash[k] = Cut(saved[k], Size[k])
    BY DEF SavedInFlash, CutPair
  <2>5. QED
    BY <1>1, <1>2, <2>2, <2>3, <2>4 DEF bodyVars, nvsVars
<1>3. CASE ~Readable(k) /\ NoFault /\ UNCHANGED <<clean, wifi_creds>>
  <2>1. TypeOK' /\ Shapes'
    BY <1>1, <1>3, Faults DEF TypeOK, Shapes, Steps, bodyVars, nvsVars, pageVars
  <2>2. ~Durable
    <3>1. ASSUME Durable PROVE FALSE
      <4>1. flash[k] \in Stored(k)
        BY <3>1, WholeCut DEF SavedInFlash, Durable, TypeOK
      <4>2. QED
        BY <1>3, <4>1, StoredFits DEF Readable
    <3>2. QED
      BY <3>1
  <2>3. QED
    BY <1>1, <1>3, <2>1, <2>2 DEF bodyVars, nvsVars
<1>4. CASE Fault /\ clean' = FALSE /\ UNCHANGED wifi_creds
  <2>1. TypeOK' /\ Shapes'
    BY <1>1, <1>4, Faults DEF TypeOK, Shapes, Steps, bodyVars, nvsVars, pageVars
  <2>2. QED
    BY <1>1, <1>4, <2>1 DEF bodyVars
<1>5. QED
  BY <1>2, <1>3, <1>4 DEF GetStr

LEMMA GetStrHalves ==
  ASSUME IInv, NEW k \in Keys, NEW here \in BootSteps \ {"connect"},
         NEW next \in BootSteps \ {"connect"}, GetStr(k, here, next)
  PROVE  BootHalves'
<1>1. /\ step \in BootSteps /\ step' \notin Seeking
      /\ UNCHANGED nvsVars
      /\ \A j \in Keys : wifi_creds'[j] \in {wifi_creds[j], flash[j]}
  BY GetStrKeeps DEF BootSteps, Seeking
<1>2. \A j \in Keys : wifi_creds'[j] \in Known(j) \cup {Default[j]}
  BY <1>1 DEF IInv, KnownInFlash, BootHalves
<1>3. \A j \in Keys : Known(j)' = Known(j)
  BY <1>1 DEF Known, nvsVars
<1>4. QED
  BY <1>1, <1>2, <1>3 DEF BootHalves

LEMMA GetStrStep ==
  IInv /\ (GetStr("ssid", "get_ssid", "get_password")
           \/ GetStr("password", "get_password", "configure")) => IInv'
<1>1. ASSUME IInv, GetStr("ssid", "get_ssid", "get_password") PROVE IInv'
  <2>1. /\ TypeOK' /\ Shapes' /\ (Fault \/ NoFault)
        /\ step = "get_ssid" /\ step' = "get_password"
        /\ UNCHANGED <<body, nvsVars>>
        /\ clean' /\ Durable
             => wifi_creds'["ssid"] = Cut(saved["ssid"], Size["ssid"])
    BY <1>1, GetStrKeeps DEF Keys, BootSteps
  <2>2. BootReads'
    BY <2>1 DEF BootReads, Durable, Seeking, nvsVars
  <2>3. BootHalves'
    BY <1>1, GetStrHalves DEF Keys, BootSteps
  <2>4. QED
    BY <1>1, <2>1, <2>2, <2>3, OutsideHandler DEF IInv, HandlerSteps
<1>2. ASSUME IInv, GetStr("password", "get_password", "configure") PROVE IInv'
  <2>1. /\ TypeOK' /\ Shapes' /\ (Fault \/ NoFault)
        /\ step = "get_password" /\ step' = "configure"
        /\ UNCHANGED <<body, nvsVars>>
        /\ clean' => clean /\ wifi_creds'["ssid"] = wifi_creds["ssid"]
        /\ clean' /\ Durable
             => wifi_creds'["password"] = Cut(saved["password"], Size["password"])
    BY <1>2, GetStrKeeps DEF Keys, BootSteps
  <2>2. BootReads'
    <3>1. ASSUME clean', Durable PROVE wifi_creds' = CutPair(saved)
      <4>1. \A k \in Keys : wifi_creds'[k] = Cut(saved[k], Size[k])
        BY <1>2, <2>1, <3>1 DEF IInv, BootReads, Keys
      <4>2. QED
        BY <2>1, <4>1 DEF Shapes, CutPair
    <3>2. QED
      BY <2>1, <3>1 DEF BootReads, Durable, Seeking, nvsVars
  <2>3. BootHalves'
    BY <1>2, GetStrHalves DEF Keys, BootSteps
  <2>4. QED
    BY <1>2, <2>1, <2>2, <2>3, OutsideHandler DEF IInv, HandlerSteps
<1>3. QED
  BY <1>1, <1>2

LEMMA ConfigureStep == IInv /\ Configure => IInv'
<1> SUFFICES ASSUME IInv, Configure PROVE IInv'
  OBVIOUS
<1>1. /\ step = "configure" /\ step' = "connect" /\ NoFault
      /\ sta_config' = CutPair(wifi_creds)
      /\ UNCHANGED <<wifi_creds, bodyVars, nvsVars, pageVars, clean>>
  BY DEF Configure, Configured, Step, Go
<1>2. sta_config' = wifi_creds
  <2>1. \A k \in Keys : Cut(wifi_creds[k], Size[k]) = wifi_creds[k]
    BY StoredFits DEF IInv, TypeOK
  <2>2. QED
    BY <1>1, <2>1 DEF CutPair, IInv, Shapes
<1>3. TypeOK' /\ Shapes'
  BY <1>1, <1>2 DEF IInv, TypeOK, Shapes, Steps, BootSteps, NoFault, bodyVars, nvsVars, pageVars
<1>4. BootReads' /\ BootHalves'
  BY <1>1, <1>2 DEF IInv, BootReads, BootHalves, Known, Durable, Seeking, BootSteps, nvsVars
<1>5. QED
  BY <1>1, <1>3, <1>4, OutsideHandler DEF IInv, HandlerSteps, bodyVars

(* Joining, giving up, and a POST on its way.                              *)
LEMMA WaitStep ==
  IInv /\ (Join \/ OpenPortal \/ \E p \in Submissions : Submit(p)) => IInv'
<1>1. ASSUME IInv, Join \/ OpenPortal PROVE IInv'
  <2>1. /\ step = "connect" /\ step' \in {"online", "portal"} /\ NoFault
        /\ UNCHANGED <<ramVars, nvsVars, pageVars, clean>>
    BY <1>1 DEF Join, OpenPortal, Step, Go
  <2>2. TypeOK' /\ Shapes'
    BY <1>1, <2>1 DEF IInv, TypeOK, Shapes, Steps, NoFault, ramVars, bodyVars, nvsVars, pageVars
  <2>3. BootReads' /\ BootHalves'
    BY <1>1, <2>1
       DEF IInv, BootReads, BootHalves, Known, Durable, Seeking, BootSteps, ramVars, nvsVars
  <2>4. QED
    BY <1>1, <2>1, <2>2, <2>3, OutsideHandler DEF IInv, HandlerSteps, ramVars, bodyVars
<1>2. ASSUME IInv, NEW p \in Submissions, Submit(p) PROVE IInv'
  <2>1. /\ request' = p /\ page' = "waiting"
        /\ UNCHANGED <<step, ramVars, nvsVars, clean, faults>>
    BY <1>2 DEF Submit, NoFault
  <2>2. TypeOK' /\ Shapes'
    BY <1>2, <2>1 DEF IInv, TypeOK, Shapes, ramVars, bodyVars, nvsVars
  <2>3. QED
    BY <1>2, <2>1, <2>2 DEF IInv, HandlerHoldsPair, WriteOrder, IsSet, SavedInFlash,
       Durable, KnownInFlash, Known, BootHalves, BootReads, ramVars, bodyVars, nvsVars
<1>3. QED
  BY <1>1, <1>2

(* The handler up to its copy into RAM.                                    *)
LEMMA ReceiveStep == IInv /\ Receive => IInv'
<1> SUFFICES ASSUME IInv, Receive PROVE IInv'
  OBVIOUS
<1> USE DEF IInv
<1>1. /\ step = "portal" /\ step' = "parse" /\ request' = None /\ (Fault \/ NoFault)
      /\ request \in Submissions /\ content' = content \cup {request}
      /\ body' \in Misread \cup {request}
      /\ overrun' \in {FALSE, Overlong(request)}
      /\ UNCHANGED <<wifi_creds, sta_config, nvsVars, page, clean>>
  BY DEF Receive, Step, Go, TypeOK
<1>2. TypeOK'
  <2>1. Submissions \subseteq [Keys -> Items]
    BY PairAssumption DEF Items
  <2>2. Misread \subseteq [Keys -> Items] \cup {Partial}
    BY DEF Misread
  <2>3. body' \in [Keys -> Items] \cup {None, Partial}
    BY <1>1, <2>1, <2>2
  <2>4. content' \in SUBSET Submissions /\ overrun' \in BOOLEAN
    <3>1. Overlong(request) \in BOOLEAN
      BY DEF Overlong
    <3>2. QED
      BY <1>1, <3>1 DEF TypeOK
  <2>5. QED
    BY <1>1, <2>3, <2>4, Faults DEF TypeOK, Steps, HandlerSteps, nvsVars
<1>3. Shapes' /\ HandlerHoldsPair' /\ WriteOrder' /\ SavedInFlash' /\ KnownInFlash'
  BY <1>1 DEF Shapes, HandlerHoldsPair, Writing, WriteOrder, SavedInFlash, Durable,
              KnownInFlash, Known, nvsVars
<1>4. BootHalves' /\ BootReads'
  BY <1>1 DEF BootHalves, BootReads, Durable, Known, Seeking, BootSteps, nvsVars
<1>5. QED
  BY <1>2, <1>3, <1>4

LEMMA ParseStep == IInv /\ (Reject \/ Copy) => IInv'
<1>1. ASSUME IInv, Reject PROVE IInv'
  <2>1. /\ step = "parse" /\ step' = "portal" /\ body' = None /\ page' = "error"
        /\ UNCHANGED <<wifi_creds, sta_config, content, overrun, nvsVars, request,
                       clean, faults>>
    BY <1>1 DEF Reject, Step, Go, NoFault
  <2>2. TypeOK' /\ Shapes'
    BY <1>1, <2>1 DEF IInv, TypeOK, Shapes, Steps, nvsVars
  <2>3. HandlerHoldsPair' /\ WriteOrder' /\ SavedInFlash' /\ KnownInFlash'
    BY <1>1, <2>1 DEF IInv, HandlerHoldsPair, Writing, WriteOrder, SavedInFlash,
       Durable, KnownInFlash, Known, nvsVars
  <2>4. BootHalves' /\ BootReads'
    BY <1>1, <2>1 DEF IInv, BootHalves, BootReads, Durable, Known, Seeking, BootSteps,
       nvsVars
  <2>5. QED
    BY <2>2, <2>3, <2>4 DEF IInv
<1>2. ASSUME IInv, Copy PROVE IInv'
  <2>1. /\ step = "parse" /\ step' = "nvs_open" /\ wifi_creds' = CutPair(body)
        /\ body \in Whole
        /\ UNCHANGED <<sta_config, bodyVars, nvsVars, pageVars, clean, faults>>
    BY <1>2 DEF Copy, Copied, Step, Go, NoFault
  <2>2. TypeOK' /\ Shapes'
    BY <1>2, <2>1, WholeCut
       DEF IInv, TypeOK, Shapes, Steps, HandlerSteps, bodyVars, nvsVars, pageVars
  <2>3. HandlerHoldsPair' /\ WriteOrder' /\ SavedInFlash' /\ KnownInFlash'
    BY <1>2, <2>1 DEF IInv, HandlerHoldsPair, WriteOrder, SavedInFlash, Durable,
       KnownInFlash, Known, bodyVars, nvsVars
  <2>4. BootHalves' /\ BootReads'
    BY <2>1 DEF BootHalves, BootReads, Seeking, BootSteps
  <2>5. QED
    BY <2>2, <2>3, <2>4 DEF IInv
<1>3. QED
  BY <1>1, <1>2

(* nvs_write.  What its steps share: RAM and the page are left alone, and  *)
(* the boot has its pair no longer to read.                                *)
LEMMA WriteKeeps ==
  ASSUME IInv, UNCHANGED <<ramVars, pageVars, clean>>, Fault \/ NoFault,
         step \in Writing, step' \in Writing
  PROVE  /\ HandlerHoldsPair' /\ BootHalves' /\ BootReads'
         /\ (/\ \A k \in Keys : flash'[k] \in Stored(k) \cup {Absent}
             /\ pending' \in SUBSET Keys
             /\ saved' \in Whole \cup {None} /\ tried' \in SUBSET Whole) => TypeOK'
<1>1. HandlerHoldsPair'
  BY DEF IInv, HandlerHoldsPair, Writing, ramVars, bodyVars
<1>2. BootHalves' /\ BootReads'
  BY DEF BootHalves, BootReads, Writing, Seeking, BootSteps
<1>3. step' \in Steps /\ faults' \in 0..MaxFaults
  BY Faults DEF Steps, HandlerSteps, Writing
<1>4. (/\ \A k \in Keys : flash'[k] \in Stored(k) \cup {Absent}
       /\ pending' \in SUBSET Keys
       /\ saved' \in Whole \cup {None} /\ tried' \in SUBSET Whole) => TypeOK'
  BY <1>3 DEF IInv, TypeOK, ramVars, bodyVars, pageVars
<1>5. QED
  BY <1>1, <1>2, <1>4

LEMMA OpenToWriteStep == IInv /\ OpenToWrite => IInv'
<1> SUFFICES ASSUME IInv, OpenToWrite PROVE IInv'
  OBVIOUS
<1> USE DEF IInv, nvsVars
<1>1. /\ step = "nvs_open" /\ step' \in {"set_ssid", "reply"}
      /\ Fault \/ NoFault
      /\ UNCHANGED <<ramVars, nvsVars, pageVars, clean>>
  BY DEF OpenToWrite, Step, Go
<1>2. TypeOK' /\ HandlerHoldsPair' /\ BootHalves' /\ BootReads'
  BY <1>1, WriteKeeps DEF TypeOK, Writing
<1>3. Shapes' /\ WriteOrder' /\ SavedInFlash' /\ KnownInFlash'
  BY <1>1 DEF Shapes, WriteOrder, SavedInFlash, Durable, KnownInFlash, Known, ramVars
<1>4. QED
  BY <1>2, <1>3

LEMMA SetStrStep ==
  ASSUME IInv, NEW k \in Keys,
         \/ k = "ssid" /\ SetStr(k, "set_ssid", "set_password")
         \/ k = "password" /\ SetStr(k, "set_password", "commit")
  PROVE  IInv'
<1> USE DEF IInv
<1>1. /\ step \in {"set_ssid", "set_password"} /\ (Fault \/ NoFault)
      /\ step = "set_ssid" => k = "ssid"
      /\ step = "set_password" => k = "password"
      /\ UNCHANGED <<ramVars, flash, saved, pageVars, clean>>
  BY DEF SetStr, Step, Go
<1>2. CASE /\ pending' = pending \cup {k} /\ tried' = tried \cup {body}
           /\ step' = IF k = "ssid" THEN "set_password" ELSE "commit"
  <2>1. body \in Whole
    BY <1>1 DEF HandlerHoldsPair, Writing
  <2>2. TypeOK' /\ HandlerHoldsPair' /\ BootHalves' /\ BootReads'
    BY <1>1, <1>2, <2>1, WriteKeeps DEF TypeOK, Writing, Keys
  <2>3. Shapes' /\ SavedInFlash' /\ KnownInFlash'
    BY <1>1, <1>2 DEF Shapes, SavedInFlash, Durable, KnownInFlash, Known, ramVars
  <2>4. WriteOrder'
    BY <1>1, <1>2 DEF WriteOrder, IsSet, ramVars, bodyVars
  <2>5. QED
    BY <2>2, <2>3, <2>4
<1>3. CASE step' = "reply" /\ UNCHANGED <<pending, tried>>
  <2>1. TypeOK' /\ HandlerHoldsPair' /\ BootHalves' /\ BootReads'
    BY <1>1, <1>3, WriteKeeps DEF TypeOK, Writing
  <2>2. Shapes' /\ WriteOrder' /\ SavedInFlash' /\ KnownInFlash'
    BY <1>1, <1>3 DEF Shapes, WriteOrder, SavedInFlash, Durable, KnownInFlash, Known,
       ramVars, bodyVars
  <2>3. QED
    BY <2>1, <2>2
<1>4. QED
  BY <1>2, <1>3 DEF SetStr, Step, Go

LEMMA WriteBackStep == ASSUME IInv, NEW k \in Keys, WriteBack(k) PROVE IInv'
<1> USE DEF IInv
<1>1. /\ k \in pending /\ pending' = pending \ {k}
      /\ flash' = [flash EXCEPT ![k] = wifi_creds[k]]
      /\ UNCHANGED <<step, ramVars, saved, tried, pageVars, clean, faults>>
  BY DEF WriteBack, NoFault
<1>2. flash' = [j \in Keys |-> IF j = k THEN wifi_creds[k] ELSE flash[j]]
  BY <1>1 DEF Shapes
<1>3. /\ step \in Writing /\ step \notin {"nvs_open", "set_ssid"}
      /\ body \in tried /\ wifi_creds[k] = Cut(body[k], Size[k])
  BY <1>1 DEF WriteOrder, HandlerHoldsPair, Writing, CutPair
<1>4. TypeOK' /\ HandlerHoldsPair' /\ BootHalves' /\ BootReads'
  <2>1. \A j \in Keys : flash'[j] \in Stored(j) \cup {Absent}
    BY <1>2 DEF TypeOK
  <2>2. /\ NoFault /\ pending' \in SUBSET Keys
        /\ saved' \in Whole \cup {None} /\ tried' \in SUBSET Whole
    BY <1>1 DEF NoFault, TypeOK
  <2>3. QED
    BY <1>1, <1>3, <2>1, <2>2, WriteKeeps
<1>5. Shapes' /\ SavedInFlash'
  BY <1>1, <1>2, <1>3 DEF Shapes, SavedInFlash, Durable, ramVars
<1>6. KnownInFlash'
  BY <1>1, <1>2, <1>3 DEF KnownInFlash, Known
<1>7. WriteOrder'
  <2>1. \A j \in Keys : IsSet(j) => IsSet(j)'
    BY <1>1, <1>2 DEF IsSet, ramVars
  <2>2. QED
    BY <1>1, <2>1 DEF WriteOrder, Keys, ramVars, bodyVars
<1>8. QED
  BY <1>4, <1>5, <1>6, <1>7

LEMMA CommitStep == IInv /\ Commit => IInv'
<1> SUFFICES ASSUME IInv, Commit PROVE IInv'
  OBVIOUS
<1> USE DEF IInv
<1>1. /\ step = "commit" /\ step' = "reply" /\ (Fault \/ NoFault)
      /\ UNCHANGED <<ramVars, pageVars, clean>>
  BY DEF Commit, Step, Go
<1>2. HandlerHoldsPair' /\ BootHalves' /\ BootReads'
  BY <1>1, WriteKeeps DEF Writing
<1>3. CASE NoFault /\ flash' = Committed /\ pending' = {} /\ saved' = body /\ tried' = {}
  <2>1. body \in Whole /\ wifi_creds = CutPair(body)
    BY <1>1 DEF HandlerHoldsPair, Writing
  <2>2. \A k \in Keys : IsSet(k)
    BY <1>1 DEF WriteOrder, Keys
  <2>3. flash' = wifi_creds
    BY <1>3, <2>2 DEF Committed, IsSet, Shapes
  <2>4. TypeOK'
    BY <1>1, <1>3, <2>1, <2>3, WriteKeeps DEF TypeOK, Writing
  <2>5. Shapes' /\ WriteOrder' /\ SavedInFlash'
    BY <1>1, <1>3, <2>1, <2>3 DEF Shapes, WriteOrder, SavedInFlash, ramVars
  <2>6. KnownInFlash'
    <3>1. saved' # None
      BY <1>3, <2>1, PairAssumption
    <3>2. QED
      BY <1>3, <2>1, <2>3, <3>1 DEF KnownInFlash, Known, CutPair
  <2>7. QED
    BY <1>2, <2>4, <2>5, <2>6
<1>4. CASE Fault /\ UNCHANGED nvsVars
  <2>1. TypeOK' /\ Shapes'
    BY <1>1, <1>4, WriteKeeps DEF TypeOK, Shapes, Writing, nvsVars, ramVars
  <2>2. WriteOrder' /\ SavedInFlash' /\ KnownInFlash'
    BY <1>1, <1>4 DEF WriteOrder, SavedInFlash, Durable, KnownInFlash, Known, nvsVars,
       ramVars, bodyVars
  <2>3. QED
    BY <1>2, <2>1, <2>2
<1>5. QED
  BY <1>3, <1>4 DEF Commit

LEMMA ReplyStep == IInv /\ Reply => IInv'
<1> SUFFICES ASSUME IInv, Reply PROVE IInv'
  OBVIOUS
<1> USE DEF IInv
<1>1. /\ step = "reply" /\ step' = "restart" /\ (Fault \/ NoFault)
      /\ page' \in {"success", "error"}
      /\ UNCHANGED <<ramVars, nvsVars, request, clean>>
  BY DEF Reply, Step, Go
<1>2. TypeOK' /\ Shapes'
  BY <1>1, Faults DEF TypeOK, Shapes, Steps, HandlerSteps, ramVars, bodyVars, nvsVars
<1>3. HandlerHoldsPair' /\ WriteOrder' /\ SavedInFlash' /\ KnownInFlash'
  BY <1>1 DEF HandlerHoldsPair, Writing, WriteOrder, SavedInFlash, Durable,
     KnownInFlash, Known, ramVars, bodyVars, nvsVars
<1>4. BootHalves' /\ BootReads'
  BY <1>1 DEF BootHalves, BootReads, Seeking, BootSteps
<1>5. QED
  BY <1>2, <1>3, <1>4

-----------------------------------------------------------------------------
(* The theorems.                                                           *)

(* The inductive invariant of the boot and of wifi_config_post_handler.    *)
THEOREM Invariance == Spec => []IInv
<1>1. IInv /\ [Next]_vars => IInv'
  <2> SUFFICES ASSUME IInv, [Next]_vars PROVE IInv'
    OBVIOUS
  <2>1. CASE Boot
    BY <2>1, WifiInitStep, OpenToReadStep, GetStrStep, ConfigureStep, WaitStep DEF Boot
  <2>2. CASE PostHandler
    <3>1. CASE Restart \/ CopyNothing \/ Overrun
      BY <3>1, ResetStep DEF Restart, esp_restart, CopyNothing, Overrun
    <3>2. QED
      BY <2>2, <3>1, ReceiveStep, ParseStep, OpenToWriteStep, SetStrStep, CommitStep,
         ReplyStep DEF PostHandler, Keys
  <2>3. CASE PowerCut
    BY <2>3, ResetStep DEF PowerCut
  <2>4. CASE \E p \in Submissions : Submit(p)
    BY <2>4, WaitStep
  <2>5. CASE \E k \in Keys : WriteBack(k)
    BY <2>5, WriteBackStep
  <2>6. CASE UNCHANGED vars
    BY <2>6 DEF vars, IInv, TypeOK, Shapes, HandlerHoldsPair, WriteOrder, IsSet,
       SavedInFlash, Durable, KnownInFlash, Known, BootHalves, BootReads, bodyVars
  <2>7. QED
    BY <2>1, <2>2, <2>3, <2>4, <2>5, <2>6 DEF Next
<1>2. QED
  BY InitIInv, <1>1, PTL DEF Spec

(* Every variable keeps its type: what is stored, in RAM and in flash, fits*)
(* the arrays of WiFi.h with its NUL, also when the handler got a body     *)
(* longer than its array and has not panicked, or a mixture of bodies.     *)
THEOREM TypeCorrect == Spec => []TypeOK
<1>1. IInv => TypeOK
  BY DEF IInv
<1>2. QED
  BY Invariance, <1>1, PTL

(* What nvs_write has committed is what nvs_read finds, until a later POST *)
(* sets a key.                                                             *)
THEOREM SaveIsDurable == Spec => []FinishedSaveIsDurable
<1>1. IInv => FinishedSaveIsDurable
  BY DEF IInv, SavedInFlash, FinishedSaveIsDurable
<1>2. QED
  BY Invariance, <1>1, PTL

(* wifi_init_sta configures the pair that was committed, if every read of  *)
(* the boot succeeded.                                                     *)
THEOREM BootUsesSaved == Spec => []BootSeeksSaved
<1>1. IInv => BootSeeksSaved
  BY DEF IInv, BootReads, Seeking, BootSeeksSaved
<1>2. QED
  BY Invariance, <1>1, PTL

(* However often nvs_write was cut short: no half in flash is older than   *)
(* the last finished save, and none of it was in RAM by default only.      *)
THEOREM HalvesHaveSource == Spec => []HalvesAreKnown
<1>1. IInv => HalvesAreKnown
  BY DEF IInv, KnownInFlash, BootHalves, Seeking, HalvesAreKnown
<1>2. QED
  BY Invariance, <1>1, PTL
=============================================================================
