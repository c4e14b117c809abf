---------------------------- MODULE Provisioning ----------------------------
(***************************************************************************)
(* The way of the Wi-Fi credentials: from the portal page through the POST *)
(* handler into RAM, from RAM into NVS, and after a restart from NVS into  *)
(* RAM and the station's configuration; with power cuts at any step, and   *)
(* with NVS calls, requests and replies that fail.                         *)
(*                                                                         *)
(* How the station connects is StaBoot's subject; here an attempt ends     *)
(* online or in the portal.  A C string is its text and its length.  What  *)
(* the handler does with bytes it never got, or that did not fit, is any   *)
(* of the outcomes the build allows.                                       *)
(***************************************************************************)
EXTENDS Naturals

CONSTANTS
  Size,         \* sizes of the ssid and password arrays
  ContentSize,  \* size of the array content
  Default,      \* the pair compiled into the firmware
  Home,         \* the pair of the network the gateway should join
  Submissions,  \* the pairs that may be posted, with Absent for a missing item
  Garbled,      \* strings that begin in one body and end in another
  Absent,       \* no such item, no such key
  NotString,    \* an item, but no string
  None,         \* no POST, no commit
  Partial,      \* a body of which httpd_req_recv returned a part only
  MaxFaults     \* bound on failures and power cuts in one behavior

Keys == {"ssid", "password"}

Items == Garbled \cup {Absent, NotString}
           \cup UNION {{p[k] : k \in Keys} : p \in Submissions \cup {Default, Home}}
Strings == Items \ {Absent, NotString}
Whole == [Keys -> Strings]

(* strncpy to size - 1 bytes, and a NUL in the last one.                   *)
Cut(s, size) == [s EXCEPT !.len = IF @ < size THEN @ ELSE size - 1]
CutPair(p) == [k \in Keys |-> Cut(p[k], Size[k])]

ASSUME SizeAssumption == Size \in [Keys -> Nat \ {0}] /\ ContentSize \in Nat
ASSUME FaultAssumption == MaxFaults \in Nat
ASSUME StringAssumption ==
  \A s \in Strings : /\ s = [text |-> s.text, len |-> s.len]
                     /\ s.len \in Nat
                     /\ \A k \in Keys : Cut(s, Size[k]) # Absent
ASSUME PairAssumption ==
  /\ \A p \in Submissions \cup {Default} : p = [k \in Keys |-> p[k]]
  /\ \A k \in Keys : Default[k] \in Strings /\ Default[k].len < Size[k]
  /\ None \notin Whole \cup [Keys -> Items] \cup {Partial}
  /\ Partial \notin Whole

VARIABLES
  step,        \* where the gateway stands
  wifi_creds,  \* the pair in RAM
  sta_config,  \* the pair the station was configured with
  flash,       \* what a boot would find in the NVS namespace "wifi_config"
  pending,     \* keys set, not yet in flash
  request,     \* a POST on its way to the handler
  body,        \* what the handler read of it
  content,     \* the bodies whose bytes may be in its array since the boot
  overrun,     \* more was read than the array holds
  page,        \* what the page says about the last POST
  faults,      \* failures and power cuts so far
  saved,       \* history: the pair of the last commit
  tried,       \* history: the pairs of which a key was set since
  clean        \* history: every read of this boot succeeded

vars == <<step, wifi_creds, sta_config, flash, pending, request, body, content,
          overrun, page, faults, saved, tried, clean>>
bodyVars == <<body, content, overrun>>
ramVars == <<wifi_creds, sta_config, bodyVars>>
nvsVars == <<flash, pending, saved, tried>>
pageVars == <<request, page>>

BootSteps == {"init", "nvs_open_read", "get_ssid", "get_password", "configure",
              "connect"}
HandlerSteps == {"parse", "nvs_open", "set_ssid", "set_password", "commit",
                 "reply", "restart"}
Steps == BootSteps \cup {"online", "portal"} \cup HandlerSteps
Serving == {"portal"} \cup HandlerSteps

NotFound == [k \in Keys |-> Absent]

Init == /\ step = "init" /\ wifi_creds = Default /\ sta_config = NotFound
        /\ flash = NotFound /\ pending = {}
        /\ request = None /\ body = None /\ content = {} /\ overrun = FALSE
        /\ page = "idle" /\ faults = 0
        /\ saved = None /\ tried = {} /\ clean = TRUE

Fault == faults < MaxFaults /\ faults' = faults + 1
NoFault == UNCHANGED faults
Go(next) == step' = next
Step(here, next) == step = here /\ Go(next)

-----------------------------------------------------------------------------
(* Resets: a restart, a failed ESP_ERROR_CHECK, a panic, a power cut.  RAM *)
(* and what was not committed are gone, and the page's POST is answered no *)
(* more.                                                                   *)

Reset == /\ Go("init")
         /\ wifi_creds' = Default /\ sta_config' = NotFound
         /\ pending' = {}
         /\ request' = None
         /\ body' = None /\ content' = {} /\ overrun' = FALSE
         /\ page' = IF page = "waiting" THEN "error" ELSE page
         /\ clean' = TRUE
         /\ UNCHANGED <<flash, saved, tried>>

PowerCut == Fault /\ Reset

-----------------------------------------------------------------------------
(* Boot: wifi_init, nvs_read, wifi_init_sta.                               *)

(* ESP_ERROR_CHECK(nvs_flash_init()) and the checks after it.              *)
WifiInit == \/ step = "init" /\ Fault /\ Reset
            \/ /\ Step("init", "nvs_open_read") /\ NoFault
               /\ UNCHANGED <<ramVars, nvsVars, pageVars, clean>>

OpenToRead == /\ \/ Step("nvs_open_read", "get_ssid") /\ NoFault /\ UNCHANGED clean
                 \/ Step("nvs_open_read", "configure") /\ Fault /\ clean' = FALSE
              /\ UNCHANGED <<ramVars, nvsVars, pageVars>>

(* nvs_get_str fails on a string longer than the array, NUL included; a    *)
(* failure leaves the default of that key in place, and is passed over.    *)
Readable(k) == flash[k] # Absent /\ flash[k].len < Size[k]

GetStr(k, here, next) ==
  /\ Step(here, next)
  /\ \/ /\ NoFault /\ UNCHANGED clean
        /\ wifi_creds' = IF Readable(k) THEN [wifi_creds EXCEPT ![k] = flash[k]]
                                        ELSE wifi_creds
     \/ Fault /\ clean' = FALSE /\ UNCHANGED wifi_creds
  /\ UNCHANGED <<sta_config, bodyVars, nvsVars, pageVars>>

(* Slip: the initializer of wifi_config alone, which takes one character.  *)
FirstChars == [k \in Keys |-> Cut(wifi_creds[k], 2)]

Configured == CutPair(wifi_creds)

Configure == /\ Step("configure", "connect") /\ NoFault
             /\ sta_config' = Configured
             /\ UNCHANGED <<wifi_creds, bodyVars, nvsVars, pageVars, clean>>

(* The network takes the station in only with its own pair, and not always.*)
Join == /\ Step("connect", "online") /\ NoFault
        /\ sta_config = Home
        /\ UNCHANGED <<ramVars, nvsVars, pageVars, clean>>

OpenPortal == /\ Step("connect", "portal") /\ NoFault
              /\ UNCHANGED <<ramVars, nvsVars, pageVars, clean>>

-----------------------------------------------------------------------------
(* The page: posts a pair, again too while it waits, since its button is   *)
(* enabled again after a second.  One POST at a time is on its way.        *)

Submit(p) == /\ step \in Serving /\ NoFault
             /\ request = None /\ request' = p
             /\ page' = "waiting"
             /\ UNCHANGED <<step, ramVars, nvsVars, clean>>

-----------------------------------------------------------------------------
(* wifi_config_post_handler.                                               *)

(* A body is {"ssid":"","password":""} with the strings in it.             *)
Overlong(p) == LET len(item) == IF item \in Strings THEN item.len ELSE 0
               IN 25 + len(p["ssid"]) + len(p["password"]) > ContentSize

(* What the parser finds when a part of the body is missing: no object; or *)
(* one that what earlier bodies left in the array completes, its items     *)
(* from any of them, or from two.                                          *)
Pieces(k) == Garbled \cup {p[k] : p \in content \cup {request}}
Misread == {Partial} \cup IF content = {} THEN {}
                         ELSE {p \in [Keys -> Items] : \A k \in Keys : p[k] \in Pieces(k)}

(* httpd_req_recv fills the array with all or a part of the body, as long  *)
(* as that is; its result is not looked at.                                *)
Receive == /\ Step("portal", "parse")
           /\ request # None /\ request' = None
           /\ content' = content \cup {request}
           /\ \/ NoFault /\ body' = request /\ overrun' = Overlong(request)
              \/ Fault /\ body' \in Misread /\ overrun' \in {FALSE, Overlong(request)}
           /\ UNCHANGED <<wifi_creds, sta_config, nvsVars, page, clean>>

(* The stack above the array is overwritten: the handler may panic at any  *)
(* point, and will when it returns.                                        *)
Overrun == /\ step \in HandlerSteps /\ NoFault
           /\ overrun
           /\ Reset

Complete == body # Partial /\ \A k \in Keys : body[k] # Absent

(* 500 on a body that does not parse, 400 on a missing item.               *)
Reject == /\ Step("parse", "portal") /\ NoFault
          /\ ~Complete /\ ~overrun
          /\ page' = "error" /\ body' = None
          /\ UNCHANGED <<wifi_creds, sta_config, content, overrun, nvsVars, request, clean>>

(* strncpy from the valuestring of an item that has none.                  *)
CopyNothing == /\ step = "parse" /\ NoFault
               /\ Complete /\ body \notin Whole
               /\ Reset

(* Slips: the whole array is filled and keeps no room for the NUL; only    *)
(* the SSID is copied.                                                     *)
CopiedUnterminated == [k \in Keys |-> Cut(body[k], Size[k] + 1)]
CopiedSsidOnly == [wifi_creds EXCEPT !["ssid"] = Cut(body["ssid"], Size["ssid"])]

Copied == CutPair(body)

Copy == /\ Step("parse", "nvs_open") /\ NoFault
        /\ body \in Whole
        /\ wifi_creds' = Copied
        /\ UNCHANGED <<sta_config, bodyVars, nvsVars, pageVars, clean>>

(* nvs_write: a failing call ends it, and the handler goes on as if it had *)
(* not.                                                                    *)
OpenToWrite == /\ \/ Step("nvs_open", "set_ssid") /\ NoFault
                  \/ Step("nvs_open", "reply") /\ Fault
               /\ UNCHANGED <<ramVars, nvsVars, pageVars, clean>>

SetStr(k, here, next) ==
  /\ \/ Step(here, next) /\ NoFault /\ pending' = pending \cup {k} /\ tried' = tried \cup {body}
     \/ Step(here, "reply") /\ Fault /\ UNCHANGED <<pending, tried>>
  /\ UNCHANGED <<ramVars, flash, saved, pageVars, clean>>

(* NVS may write what was set to flash before it is told to commit.        *)
WriteBack(k) == /\ k \in pending /\ NoFault
                /\ flash' = [flash EXCEPT ![k] = wifi_creds[k]]
                /\ pending' = pending \ {k}
                /\ UNCHANGED <<step, ramVars, saved, tried, pageVars, clean>>

(* Slip: nvs_write without nvs_commit.                                     *)
Uncommitted == flash

Committed == [k \in Keys |-> IF k \in pending THEN wifi_creds[k] ELSE flash[k]]

Commit == /\ Step("commit", "reply")
          /\ \/ /\ NoFault /\ flash' = Committed /\ pending' = {}
                /\ saved' = body /\ tried' = {}
             \/ Fault /\ UNCHANGED nvsVars
          /\ UNCHANGED <<ramVars, pageVars, clean>>

(* The reply says success whatever nvs_write met; it may not arrive.       *)
Reply == /\ Step("reply", "restart")
         /\ \/ NoFault /\ page' = "success"
            \/ Fault /\ page' = "error"
         /\ UNCHANGED <<ramVars, nvsVars, request, clean>>

(* Slip: the handler returns without esp_restart.                          *)
ReturnToPortal == /\ Go("portal")
                  /\ UNCHANGED <<ramVars, nvsVars, pageVars, clean>>

esp_restart == Reset

Restart == step = "restart" /\ NoFault /\ esp_restart

-----------------------------------------------------------------------------
Boot == \/ WifiInit
        \/ OpenToRead
        \/ GetStr("ssid", "get_ssid", "get_password")
        \/ GetStr("password", "get_password", "configure")
        \/ Configure
        \/ Join
        \/ OpenPortal

PostHandler == \/ Receive \/ Reject \/ Copy \/ CopyNothing \/ Overrun
               \/ OpenToWrite
               \/ SetStr("ssid", "set_ssid", "set_password")
               \/ SetStr("password", "set_password", "commit")
               \/ Commit
               \/ Reply
               \/ Restart

Next == \/ Boot
        \/ PostHandler
        \/ PowerCut
        \/ \E p \in Submissions : Submit(p)
        \/ \E k \in Keys : WriteBack(k)

Spec == Init /\ [][Next]_vars

(* The gateway runs; the user of the page posts the pair of his network    *)
(* again and again at a portal that is idle; the network takes the station *)
(* in when it keeps trying with the right pair.                            *)
FairSpec == /\ Spec
            /\ WF_vars(Boot)
            /\ WF_vars(PostHandler)
            /\ SF_vars(step = "portal" /\ Submit(Home))
            /\ SF_vars(Join)

-----------------------------------------------------------------------------
(* Properties.                                                             *)

Stored(k) == {Cut(s, Size[k]) : s \in Strings}

TypeOK == /\ step \in Steps
          /\ \A k \in Keys : wifi_creds[k] \in Stored(k)
          /\ \A k \in Keys : sta_config[k] \in Stored(k) \cup {Absent}
          /\ \A k \in Keys : flash[k] \in Stored(k) \cup {Absent}
          /\ pending \in SUBSET Keys
          /\ request \in Submissions \cup {None}
          /\ body \in [Keys -> Items] \cup {None, Partial}
          /\ content \in SUBSET Submissions /\ overrun \in BOOLEAN
          /\ page \in {"idle", "waiting", "success", "error"}
          /\ faults \in 0..MaxFaults
          /\ saved \in Whole \cup {None}
          /\ tried \in SUBSET Whole
          /\ clean \in BOOLEAN

(* Once nvs_commit has returned ESP_OK, the pair of that POST is what a    *)
(* boot finds, through power cuts and failed calls, until a later POST     *)
(* gets as far as setting a key.                                           *)
Durable == saved # None /\ tried = {}
FinishedSaveIsDurable == Durable => flash = CutPair(saved)

(* A boot whose reads succeed configures the station with that pair: what  *)
(* was typed into the page survives both copies, NVS and nvs_get_str's     *)
(* length check.                                                           *)
BootSeeksSaved == clean /\ Durable /\ step \in {"connect", "online", "portal"}
                    => sta_config = CutPair(saved)

(* However a save was cut short, by a power cut between the two keys, a    *)
(* call that failed or a panic, and however often: each half in flash is   *)
(* of the last save that was finished or of one tried since, never of one  *)
(* before, and never what RAM held by default.  Each half the station      *)
(* seeks is one of these, or the compiled-in one where the read failed.    *)
Known(k) == {IF saved = None THEN Absent ELSE Cut(saved[k], Size[k])}
              \cup {Cut(p[k], Size[k]) : p \in tried}
HalvesAreKnown ==
  \A k \in Keys : /\ flash[k] \in Known(k)
                  /\ step \in {"connect", "online", "portal"}
                       => sta_config[k] \in Known(k) \cup {Default[k]}

(* The portal is a way out of every stored pair: from the time on that     *)
(* only the pair of the user's network is posted, and nothing fails, the   *)
(* gateway gets online for good, whatever was stored, torn or lost before. *)
OnlyHomePosted == [][request' \in {request, None, Home}]_request
Provisioned == <>OnlyHomePosted => <>[](step = "online")

(* What the page's alert says: the Wi-Fi connection has succeeded.         *)
SuccessAlertIsTrue == page = "success" => step = "online"
=============================================================================
