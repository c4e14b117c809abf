------------------------------ MODULE ScanList ------------------------------
(***************************************************************************)
(* The table of access points: wifi_scan_task rewrites it for ever, and    *)
(* the HTTP server's task reads it row by row for GET /api/wifi_list.      *)
(* Nothing excludes the two from each other; a row is read in two steps,   *)
(* and so is the table cleared and filled, one row at a time.              *)
(***************************************************************************)
EXTENDS Naturals, Sequences, SequencesExt

CONSTANTS
  MAX_WIFI_LIST_SIZE,  \* rows of g_ap_info
  AccessPoints,        \* what a scan may find
  MaxFound,            \* bound on what one scan finds
  Zero,                \* a row after memset
  Wild                 \* what lies beyond the table

ASSUME SizeAssumption == MAX_WIFI_LIST_SIZE \in Nat \ {0} /\ MaxFound \in Nat

VARIABLES
  task,        \* where wifi_scan_task stands
  row,         \* the row memset or the driver writes next
  g_ap_info,   \* the table
  g_ap_count,  \* its count, a global both tasks use
  found,       \* the driver's list from the last scan
  httpd,       \* where get_wifi_list_json stands
  i,           \* its loop counter
  item,        \* the first field of the row it reads
  json,        \* the rows it has listed so far
  undisturbed  \* history: the scan task has rested since the request began

scanVars == <<task, row, g_ap_info, g_ap_count, found>>
listVars == <<httpd, i, item, json>>
vars == <<scanVars, listVars, undisturbed>>

Rows == 0..(MAX_WIFI_LIST_SIZE - 1)
Records == AccessPoints \cup {Zero}
ScanSteps == {"memset", "zero", "scan", "get_num", "clamp", "get_records", "delay"}

Init == /\ task = "memset" /\ row = 0
        /\ g_ap_info = [r \in Rows |-> Zero] /\ g_ap_count = 0
        /\ found = <<>>
        /\ httpd = "idle" /\ i = 0 /\ item = Zero /\ json = <<>>
        /\ undisturbed = TRUE

-----------------------------------------------------------------------------
(* wifi_scan_task.                                                         *)

Step(here, next) == task = here /\ task' = next

Write(record) == g_ap_info' = [r \in Rows |-> IF r = row THEN record
                                                         ELSE g_ap_info[r]]

(* Slip: sizeof of the first record in place of sizeof of the table.       *)
FirstRow == 0

LastRow == MAX_WIFI_LIST_SIZE - 1

Memset == /\ Write(Zero)
          /\ \/ row < LastRow /\ Step("memset", "memset") /\ row' = row + 1
             \/ row >= LastRow /\ Step("memset", "zero") /\ row' = 0
          /\ UNCHANGED <<g_ap_count, found>>

ZeroCount == /\ Step("zero", "scan")
             /\ g_ap_count' = 0
             /\ UNCHANGED <<row, g_ap_info, found>>

(* esp_wifi_scan_start(NULL, true): its result is not looked at; a scan    *)
(* that fails, for one while the station is connecting, finds nothing.     *)
Scan == /\ Step("scan", "get_num")
        /\ found' \in SeqOf(AccessPoints, MaxFound)
        /\ UNCHANGED <<row, g_ap_info, g_ap_count>>

(* The driver writes all it found straight into the global.                *)
GetApNum == /\ Step("get_num", "clamp")
            /\ g_ap_count' = Len(found)
            /\ UNCHANGED <<row, g_ap_info, found>>

(* Slip: the count is taken as the driver gives it.                        *)
Unclamped(n) == n

Clamped(n) == IF n > MAX_WIFI_LIST_SIZE THEN MAX_WIFI_LIST_SIZE ELSE n

Clamp == /\ Step("clamp", "get_records")
         /\ g_ap_count' = Clamped(g_ap_count)
         /\ UNCHANGED <<row, g_ap_info, found>>

(* The driver copies as many records as the count says and it has, returns *)
(* their number in the count, and drops its list.                          *)
Copying == row < g_ap_count /\ row < Len(found)

GetApRecords == /\ \/ /\ Copying /\ Step("get_records", "get_records")
                      /\ Write(found[row + 1]) /\ row' = row + 1
                      /\ UNCHANGED g_ap_count
                   \/ /\ ~Copying /\ Step("get_records", "delay")
                      /\ g_ap_count' = row /\ row' = 0
                      /\ UNCHANGED g_ap_info
                /\ UNCHANGED found

(* vTaskDelay of 10 s; requests may come and go, or still be running.      *)
Delay == /\ Step("delay", "memset")
         /\ UNCHANGED <<row, g_ap_info, g_ap_count, found>>

ScanTask == /\ \/ Memset \/ ZeroCount \/ Scan \/ GetApNum
               \/ Clamp \/ GetApRecords \/ Delay
            /\ undisturbed' = FALSE /\ UNCHANGED listVars

-----------------------------------------------------------------------------
(* wifi_list_get_handler and get_wifi_list_json.                           *)

RowAt(r) == IF r \in Rows THEN g_ap_info[r] ELSE Wild

Request == /\ httpd = "idle" /\ httpd' = "check"
           /\ i' = 0 /\ item' = Zero /\ json' = <<>>
           /\ undisturbed' = (task = "delay")

(* Slip: the loop goes on to the count itself.                             *)
MoreInclusive == i <= g_ap_count

More == i < g_ap_count

CheckRow == /\ httpd = "check"
            /\ httpd' = IF More THEN "ssid" ELSE "print"
            /\ UNCHANGED <<i, item, json, undisturbed>>

ReadSsid == /\ httpd = "ssid" /\ httpd' = "rest"
            /\ item' = RowAt(i)
            /\ UNCHANGED <<i, json, undisturbed>>

(* Slip: the loop does not move on.                                        *)
ReadRestAgain == /\ httpd = "rest" /\ httpd' = "check"
                 /\ UNCHANGED <<i, item, json, undisturbed>>

ReadRest == /\ httpd = "rest" /\ httpd' = "check"
            /\ json' = Append(json, [ssid |-> item, rest |-> RowAt(i)])
            /\ i' = i + 1 /\ item' = Zero
            /\ UNCHANGED undisturbed

(* cJSON_Print, which may find no memory for the text.                     *)
PrintList == /\ httpd = "print" /\ httpd' \in {"answer", "no_memory"}
             /\ UNCHANGED <<i, item, json, undisturbed>>

(* The list, or 500 for want of it.                                        *)
Answer == /\ httpd \in {"answer", "no_memory"} /\ httpd' = "idle"
          /\ UNCHANGED <<i, item, json, undisturbed>>

ListHandler == CheckRow \/ ReadSsid \/ ReadRest \/ PrintList \/ Answer

Next == \/ ScanTask
        \/ (Request \/ ListHandler) /\ UNCHANGED scanVars

Spec == Init /\ [][Next]_vars

(* Both tasks have priority 5 and share the processor by time slices; the  *)
(* driver ends every scan.  Nobody need ask for the list.                  *)
FairSpec == /\ Spec
            /\ WF_vars(ScanTask)
            /\ WF_vars(ListHandler /\ UNCHANGED scanVars)

-----------------------------------------------------------------------------
(* Properties.                                                             *)

TypeOK == /\ task \in ScanSteps
          /\ row \in 0..MAX_WIFI_LIST_SIZE
          /\ g_ap_info \in [Rows -> Records]
          /\ g_ap_count \in 0..MaxFound
          /\ found \in Seq(AccessPoints)
          /\ httpd \in {"idle", "check", "ssid", "rest", "print", "answer", "no_memory"}
          /\ i \in 0..MaxFound
          /\ item \in Records \cup {Wild}
          /\ json \in Seq([ssid : Records \cup {Wild}, rest : Records \cup {Wild}])
          /\ undisturbed \in BOOLEAN

(* esp_wifi_scan_get_ap_records writes within the table, however many      *)
(* access points the scan found.                                           *)
RecordsFit == task = "get_records" /\ Copying => row \in Rows

(* Between two scans the table holds the last scan's first rows and        *)
(* nothing of an earlier one.                                              *)
Kept == SubSeq(found, 1, IF Len(found) < MAX_WIFI_LIST_SIZE
                         THEN Len(found) ELSE MAX_WIFI_LIST_SIZE)
SettledTable ==
  task = "delay" => /\ g_ap_count = Len(Kept)
                    /\ \A r \in Rows : g_ap_info[r] = IF r < g_ap_count
                                                      THEN Kept[r + 1] ELSE Zero

(* A list request the scan task leaves alone answers with every access     *)
(* point the last scan kept, in its order, each once.                      *)
UndisturbedListIsScan ==
  httpd = "answer" /\ undisturbed
    => json = [r \in 1..Len(Kept) |-> [ssid |-> Kept[r], rest |-> Kept[r]]]

(* A list request ends, whatever the scan task does to the count meanwhile.*)
RequestsEnd == httpd # "idle" ~> httpd = "idle"

(* The list stays within the maximum size its comment defines.             *)
ListWithinMaximum == httpd \in {"ssid", "rest"} => i < MAX_WIFI_LIST_SIZE
=============================================================================
