--------------------------- MODULE ScanListProofs ---------------------------
(***************************************************************************)
(* Proofs about ScanList for every table size and every number of access   *)
(* points: the driver stays within the table, the settled table is the     *)
(* last scan, and an undisturbed request lists it.                         *)
(***************************************************************************)
EXTENDS ScanList, TLAPS

-----------------------------------------------------------------------------
(* The inductive invariant: how far the table is cleared or filled, and    *)
(* what an undisturbed request has listed of it.                           *)

BlankTo(n) == \A r \in Rows : r < n => g_ap_info[r] = Zero
FilledTo(n) == \A r \in Rows :
                 g_ap_info[r] = IF r < n THEN found[r + 1] ELSE Zero

TableInv == /\ Len(found) <= MaxFound
            /\ task = "memset" => row \in Rows /\ BlankTo(row)
            /\ task \notin {"memset", "get_records"} => row = 0
            /\ task \in {"zero", "scan", "get_num", "clamp"}
                 => BlankTo(MAX_WIFI_LIST_SIZE)
            /\ task = "clamp" => g_ap_count = Len(found)
            /\ task \in {"get_records", "delay"}
                 => g_ap_count = Clamped(Len(found))
            /\ task = "get_records" => row <= g_ap_count /\ FilledTo(row)
            /\ task = "delay" => FilledTo(g_ap_count)

Entry(r) == [ssid |-> g_ap_info[r - 1], rest |-> g_ap_info[r - 1]]

ListInv == /\ httpd \in {"ssid", "rest"} => i < MaxFound
           /\ undisturbed /\ httpd # "idle" =>
                /\ task = "delay" /\ i <= g_ap_count
                /\ Len(json) = i /\ \A r \in 1..i : json[r] = Entry(r)
                /\ httpd \in {"ssid", "rest"} => i < g_ap_count
                /\ httpd = "rest" => item = g_ap_info[i]
                /\ httpd \in {"print", "answer"} => i = g_ap_count

IInv == TypeOK /\ TableInv /\ ListInv

-----------------------------------------------------------------------------
(* The invariant is inductive: one lemma per task.                         *)

USE SizeAssumption

LEMMA InitIInv == Init => IInv
<1> SUFFICES ASSUME Init PROVE IInv
  OBVIOUS
<1>1. found = <<>> /\ json = <<>> /\ Len(found) = 0 /\ Len(json) = 0
  BY DEF Init
<1>2. found \in Seq(AccessPoints)
      /\ json \in Seq([ssid : Records \cup {Wild}, rest : Records \cup {Wild}])
  BY <1>1
<1>3. TypeOK
  BY <1>2 DEF Init, TypeOK, ScanSteps, Records
<1>4. TableInv /\ ListInv
  BY <1>1 DEF Init, TableInv, ListInv, BlankTo, Rows
<1>5. QED
  BY <1>3, <1>4 DEF IInv

(* What the driver finds is a sequence of at most MaxFound access points.  *)
LEMMA ScanFinds ==
  ASSUME NEW s \in SeqOf(AccessPoints, MaxFound)
  PROVE  s \in Seq(AccessPoints) /\ Len(s) \in 0..MaxFound
<1>1. PICK m \in 0..MaxFound : s \in [1..m -> AccessPoints]
  BY DEF SeqOf
<1>2. QED
  BY <1>1

(* A row written is the record, and the other rows stay.                   *)
LEMMA WriteRow ==
  ASSUME NEW record \in Records, Write(record), row \in Rows,
         g_ap_info \in [Rows -> Records]
  PROVE  /\ g_ap_info' \in [Rows -> Records]
         /\ g_ap_info'[row] = record
         /\ \A r \in Rows : r # row => g_ap_info'[r] = g_ap_info[r]
BY DEF Write

LEMMA ScanTaskStep == IInv /\ ScanTask => IInv'
<1> SUFFICES ASSUME IInv, ScanTask PROVE IInv'
  OBVIOUS
<1> USE DEF IInv
<1>1. /\ undisturbed' = FALSE /\ UNCHANGED <<httpd, i, item, json>>
      /\ ListInv'
  <2>1. undisturbed' = FALSE /\ UNCHANGED <<httpd, i, item, json>>
    BY DEF ScanTask, listVars
  <2>2. QED
    BY <2>1 DEF ListInv
<1>2. SUFFICES TypeOK' /\ TableInv'
  BY <1>1
<1>3. ASSUME task' \in ScanSteps, row' \in 0..MAX_WIFI_LIST_SIZE,
             g_ap_info' \in [Rows -> Records], g_ap_count' \in 0..MaxFound,
             found' \in Seq(AccessPoints)
      PROVE  TypeOK'
  BY <1>1, <1>3 DEF TypeOK
<1>4. CASE Memset
  <2>1. /\ row \in Rows /\ task = "memset" /\ Zero \in Records
        /\ g_ap_info \in [Rows -> Records] /\ Write(Zero)
        /\ UNCHANGED <<g_ap_count, found>>
    BY <1>4 DEF Memset, Step, TableInv, TypeOK, Records
  <2>2. /\ g_ap_info' \in [Rows -> Records]
        /\ g_ap_info'[row] = Zero
        /\ \A r \in Rows : r # row => g_ap_info'[r] = g_ap_info[r]
    BY <2>1, WriteRow
  <2>3. CASE row < LastRow /\ task' = "memset" /\ row' = row + 1
    <3>1. row' \in Rows /\ BlankTo(row)'
      BY <2>1, <2>2, <2>3 DEF LastRow, Rows, BlankTo, TableInv
    <3>2. TypeOK'
      BY <1>3, <2>1, <2>2, <2>3, <3>1 DEF TypeOK, ScanSteps, Rows
    <3>3. QED
      BY <2>1, <2>3, <3>1, <3>2 DEF TableInv
  <2>4. CASE row >= LastRow /\ task' = "zero" /\ row' = 0
    <3>1. BlankTo(MAX_WIFI_LIST_SIZE)'
      BY <2>1, <2>2, <2>4 DEF LastRow, Rows, BlankTo, TableInv
    <3>2. TypeOK'
      BY <1>3, <2>1, <2>2, <2>4 DEF TypeOK, ScanSteps
    <3>3. QED
      BY <2>1, <2>4, <3>1, <3>2 DEF TableInv
  <2>5. QED
    BY <1>4, <2>3, <2>4 DEF Memset, Step
<1>5. CASE ZeroCount
  <2>1. TypeOK'
    BY <1>3, <1>5 DEF ZeroCount, Step, TypeOK, ScanSteps
  <2>2. TableInv'
    BY <1>5 DEF ZeroCount, Step, TableInv, BlankTo
  <2>3. QED
    BY <2>1, <2>2
<1>6. CASE Scan
  <2>1. found' \in Seq(AccessPoints) /\ Len(found') \in 0..MaxFound
    BY <1>6, ScanFinds DEF Scan
  <2>2. TypeOK'
    BY <1>3, <1>6, <2>1 DEF Scan, Step, TypeOK, ScanSteps
  <2>3. TableInv'
    BY <1>6, <2>1 DEF Scan, Step, TableInv, BlankTo
  <2>4. QED
    BY <2>2, <2>3
<1>7. CASE GetApNum
  <2>1. Len(found) \in 0..MaxFound
    BY DEF TypeOK, TableInv
  <2>2. TypeOK'
    BY <1>3, <1>7, <2>1 DEF GetApNum, Step, TypeOK, ScanSteps
  <2>3. TableInv'
    BY <1>7 DEF GetApNum, Step, TableInv, BlankTo
  <2>4. QED
    BY <2>2, <2>3
<1>8. CASE Clamp
  <2>1. Len(found) \in 0..MaxFound /\ g_ap_count = Len(found) /\ row = 0
    BY <1>8 DEF Clamp, Step, TypeOK, TableInv
  <2>2. TypeOK'
    BY <1>3, <1>8, <2>1 DEF Clamp, Clamped, Step, TypeOK, ScanSteps
  <2>3. row' <= g_ap_count' /\ FilledTo(row)'
    BY <1>8, <2>1 DEF Clamp, Clamped, Step, TableInv, BlankTo, FilledTo, Rows
  <2>4. TableInv'
    BY <1>8, <2>1, <2>3 DEF Clamp, Clamped, Step, TableInv
  <2>5. QED
    BY <2>2, <2>4
<1>9. CASE GetApRecords
  <2>1. /\ row \in Nat /\ row <= g_ap_count /\ FilledTo(row)
        /\ task = "get_records" /\ g_ap_count = Clamped(Len(found))
        /\ found \in Seq(AccessPoints) /\ Len(found) \in 0..MaxFound
        /\ UNCHANGED found
    BY <1>9 DEF GetApRecords, Step, TypeOK, TableInv
  <2>2. CASE Copying /\ task' = "get_records" /\ Write(found[row + 1])
             /\ row' = row + 1 /\ UNCHANGED g_ap_count
    <3>1. row \in Rows /\ row + 1 \in 1..Len(found) /\ row' <= g_ap_count
      BY <2>1, <2>2 DEF Copying, Clamped, Rows
    <3>2. found[row + 1] \in Records
      BY <2>1, <3>1 DEF Records
    <3>3. /\ g_ap_info' \in [Rows -> Records]
          /\ g_ap_info'[row] = found[row + 1]
          /\ \A r \in Rows : r # row => g_ap_info'[r] = g_ap_info[r]
      BY <2>2, <3>1, <3>2, WriteRow DEF TypeOK
    <3>4. FilledTo(row)'
      <4> SUFFICES ASSUME NEW r \in Rows
                   PROVE  g_ap_info'[r] = IF r < row + 1 THEN found[r + 1] ELSE Zero
        BY <2>1, <2>2 DEF FilledTo
      <4>1. CASE r = row
        BY <3>1, <3>3, <4>1 DEF Rows
      <4>2. CASE r # row
        <5>1. g_ap_info'[r] = IF r < row THEN found[r + 1] ELSE Zero
          BY <2>1, <3>3, <4>2 DEF FilledTo
        <5>2. r < row <=> r < row + 1
          BY <3>1, <4>2 DEF Rows
        <5>3. QED
          BY <5>1, <5>2
      <4>3. QED
        BY <4>1, <4>2
    <3>5. TypeOK'
      BY <1>3, <2>1, <2>2, <3>1, <3>3 DEF TypeOK, ScanSteps, Rows
    <3>6. QED
      BY <2>1, <2>2, <3>1, <3>4, <3>5 DEF TableInv
  <2>3. CASE ~Copying /\ task' = "delay" /\ g_ap_count' = row /\ row' = 0
             /\ UNCHANGED g_ap_info
    <3>1. row = Clamped(Len(found))
      BY <2>1, <2>3 DEF Copying, Clamped
    <3>2. FilledTo(g_ap_count)'
      BY <2>1, <2>3 DEF FilledTo
    <3>3. TypeOK'
      BY <1>3, <2>1, <2>3, <3>1 DEF Clamped, TypeOK, ScanSteps
    <3>4. QED
      BY <2>1, <2>3, <3>1, <3>2, <3>3 DEF TableInv
  <2>4. QED
    BY <1>9, <2>2, <2>3 DEF GetApRecords, Step
<1>10. CASE Delay
  <2>1. TypeOK'
    BY <1>3, <1>10 DEF Delay, Step, TypeOK, ScanSteps
  <2>2. TableInv'
    BY <1>10 DEF Delay, Step, TableInv, BlankTo, Rows
  <2>3. QED
    BY <2>1, <2>2
<1>11. QED
  BY <1>4, <1>5, <1>6, <1>7, <1>8, <1>9, <1>10 DEF ScanTask

LEMMA ListStep == IInv /\ (Request \/ ListHandler) /\ UNCHANGED scanVars => IInv'
<1> SUFFICES ASSUME IInv, Request \/ ListHandler, UNCHANGED scanVars PROVE IInv'
  OBVIOUS
<1> USE DEF IInv
<1>1. TableInv' /\ UNCHANGED <<task, row, g_ap_info, g_ap_count, found>>
  BY DEF scanVars, TableInv, BlankTo, FilledTo
<1>2. RowAt(i) \in Records \cup {Wild}
  BY DEF TypeOK, RowAt
<1>3. undisturbed /\ httpd # "idle" => g_ap_count <= MAX_WIFI_LIST_SIZE
  BY DEF ListInv, TableInv, Clamped, TypeOK
<1>4. CASE Request
  <2>1. json' = <<>> /\ Len(json') = 0
        /\ json' \in Seq([ssid : Records \cup {Wild}, rest : Records \cup {Wild}])
    BY <1>4 DEF Request
  <2>2. TypeOK'
    BY <1>1, <1>4, <2>1 DEF Request, TypeOK, Records
  <2>3. undisturbed' => task = "delay"
    BY <1>4 DEF Request
  <2>4. i' = 0 /\ httpd' = "check" /\ g_ap_count \in 0..MaxFound
    BY <1>4 DEF Request, TypeOK
  <2>5. /\ httpd' \notin {"ssid", "rest", "print", "answer"}
        /\ i' <= g_ap_count' /\ Len(json') = i'
    BY <1>1, <2>1, <2>4
  <2>6. \A r \in 1..i' : json'[r] = Entry(r)'
    <3>1. 1..i' = {}
      BY <2>4
    <3>2. QED
      BY <3>1
  <2>7. httpd' \notin {"rest", "print", "answer"} /\ task' = task
    BY <1>1, <2>4
  <2>8. ListInv'
    BY <2>3, <2>5, <2>6, <2>7 DEF ListInv
  <2>9. QED
    BY <1>1, <2>2, <2>8
<1>5. CASE CheckRow
  <2>1. TypeOK'
    BY <1>1, <1>5 DEF CheckRow, TypeOK
  <2>2. ListInv'
    BY <1>1, <1>5 DEF CheckRow, More, ListInv, TypeOK, Entry
  <2>3. QED
    BY <1>1, <2>1, <2>2
<1>6. CASE ReadSsid
  <2>1. TypeOK'
    BY <1>1, <1>2, <1>6 DEF ReadSsid, TypeOK
  <2>2. undisturbed => RowAt(i) = g_ap_info[i]
    BY <1>3, <1>6 DEF ReadSsid, RowAt, Rows, ListInv, TypeOK
  <2>3. ListInv'
    BY <1>1, <1>6, <2>2 DEF ReadSsid, ListInv, Entry
  <2>4. QED
    BY <1>1, <2>1, <2>3
<1>7. CASE ReadRest
  <2> DEFINE new == [ssid |-> item, rest |-> RowAt(i)]
  <2>1. /\ new \in [ssid : Records \cup {Wild}, rest : Records \cup {Wild}]
        /\ json \in Seq([ssid : Records \cup {Wild}, rest : Records \cup {Wild}])
        /\ json' = Append(json, new) /\ i' = i + 1 /\ i < MaxFound
        /\ httpd = "rest" /\ httpd' = "check" /\ UNCHANGED undisturbed
    BY <1>2, <1>7 DEF ReadRest, TypeOK, ListInv
  <2>2. /\ json' \in Seq([ssid : Records \cup {Wild}, rest : Records \cup {Wild}])
        /\ Len(json') = Len(json) + 1 /\ json'[Len(json) + 1] = new
        /\ \A r \in 1..Len(json) : json'[r] = json[r]
    BY <2>1
  <2>3. TypeOK'
    BY <1>1, <1>7, <2>1, <2>2 DEF ReadRest, TypeOK, Records
  <2>4. ASSUME undisturbed
        PROVE  Len(json') = i' /\ i < g_ap_count /\ \A r \in 1..i' : json'[r] = Entry(r)'
    <3>1. i < g_ap_count /\ Len(json) = i /\ item = g_ap_info[i] /\ i \in Nat
      BY <2>1, <2>4 DEF ListInv, TypeOK
    <3>2. RowAt(i) = g_ap_info[i]
      BY <1>3, <2>1, <2>4, <3>1 DEF RowAt, Rows, TypeOK
    <3>3. new = Entry(i + 1)
      BY <3>1, <3>2 DEF Entry
    <3>4. \A r \in 1..i : json[r] = Entry(r)
      BY <2>1, <2>4 DEF ListInv
    <3>5. \A r \in 1..i' : Entry(r)' = Entry(r)
      BY <1>1 DEF Entry
    <3>6. QED
      BY <2>1, <2>2, <3>1, <3>3, <3>4, <3>5
  <2>5. ListInv'
    BY <1>1, <2>1, <2>4 DEF ListInv, TypeOK
  <2>6. QED
    BY <1>1, <2>3, <2>5
<1>8. CASE PrintList \/ Answer
  <2>1. TypeOK'
    BY <1>1, <1>8 DEF PrintList, Answer, TypeOK
  <2>2. ListInv'
    BY <1>1, <1>8 DEF PrintList, Answer, ListInv, Entry
  <2>3. QED
    BY <1>1, <2>1, <2>2
<1>9. QED
  BY <1>4, <1>5, <1>6, <1>7, <1>8 DEF ListHandler

LEMMA StutterStep == IInv /\ UNCHANGED vars => IInv'
BY DEF IInv, vars, scanVars, listVars, TypeOK, TableInv, ListInv, BlankTo,
       FilledTo, Entry

(* The last scan's rows that fit the table.                                *)
LEMMA KeptRows ==
  ASSUME found \in Seq(AccessPoints)
  PROVE  /\ Len(Kept) = Clamped(Len(found))
         /\ \A r \in 1..Len(Kept) : Kept[r] = found[r]
BY DEF Kept, Clamped

-----------------------------------------------------------------------------
(* The theorems.                                                           *)

(* The inductive invariant of wifi_scan_task and get_wifi_list_json.       *)
THEOREM Invariance == Spec => []IInv
<1>1. IInv /\ [Next]_vars => IInv'
  BY ScanTaskStep, ListStep, StutterStep DEF Next
<1>2. QED
  BY InitIInv, <1>1, PTL DEF Spec

(* Every variable keeps its type; the count and the loop counter stay      *)
(* within what one scan may find.                                          *)
THEOREM TypeCorrect == Spec => []TypeOK
<1>1. IInv => TypeOK
  BY DEF IInv
<1>2. QED
  BY Invariance, <1>1, PTL

(* esp_wifi_scan_get_ap_records writes within g_ap_info, whatever the scan *)
(* found.                                                                  *)
THEOREM RecordsStayInTable == Spec => []RecordsFit
<1>1. IInv => RecordsFit
  BY DEF IInv, TypeOK, TableInv, RecordsFit, Copying, Clamped, Rows
<1>2. QED
  BY Invariance, <1>1, PTL

(* While wifi_scan_task rests, the table is the last scan's and nothing of *)
(* an earlier one.                                                         *)
THEOREM TableIsLastScan == Spec => []SettledTable
<1>1. IInv => SettledTable
  <2> SUFFICES ASSUME IInv, task = "delay"
               PROVE  /\ g_ap_count = Len(Kept)
                      /\ \A r \in Rows : g_ap_info[r] = IF r < g_ap_count
                                                        THEN Kept[r + 1] ELSE Zero
    BY DEF SettledTable
  <2>1. /\ g_ap_count = Len(Kept) /\ FilledTo(g_ap_count)
        /\ \A r \in 1..Len(Kept) : Kept[r] = found[r]
    BY KeptRows DEF IInv, TypeOK, TableInv
  <2>2. g_ap_count \in Nat
    BY DEF IInv, TypeOK
  <2>3. QED
    BY <2>1, <2>2 DEF FilledTo, Rows
<1>2. QED
  BY Invariance, <1>1, PTL

(* get_wifi_list_json, when wifi_scan_task rests all the while, lists what *)
(* the last scan kept, in its order, each once.                            *)
THEOREM UndisturbedListComplete == Spec => []UndisturbedListIsScan
<1>1. IInv => UndisturbedListIsScan
  <2> SUFFICES ASSUME IInv, httpd = "answer", undisturbed
               PROVE  json = [r \in 1..Len(Kept) |->
                                [ssid |-> Kept[r], rest |-> Kept[r]]]
    BY DEF UndisturbedListIsScan
  <2>1. /\ task = "delay" /\ i = g_ap_count /\ Len(json) = i
        /\ \A r \in 1..i : json[r] = Entry(r)
        /\ g_ap_count = Clamped(Len(found)) /\ FilledTo(g_ap_count)
        /\ found \in Seq(AccessPoints) /\ i \in Nat
        /\ json \in Seq([ssid : Records \cup {Wild}, rest : Records \cup {Wild}])
    BY DEF IInv, TypeOK, ListInv, TableInv
  <2>2. Len(Kept) = i /\ \A r \in 1..i : Kept[r] = found[r]
    BY <2>1, KeptRows
  <2>3. \A r \in 1..i : r - 1 \in Rows /\ r - 1 < g_ap_count
    BY <2>1 DEF Rows, Clamped
  <2>4. \A r \in 1..i : g_ap_info[r - 1] = Kept[r]
    BY <2>1, <2>2, <2>3 DEF FilledTo
  <2>5. \A r \in 1..i : json[r] = [ssid |-> Kept[r], rest |-> Kept[r]]
    BY <2>1, <2>4 DEF Entry
  <2>6. json = [r \in 1..i |-> json[r]]
    BY <2>1
  <2>7. QED
    BY <2>2, <2>5, <2>6
<1>2. QED
  BY Invariance, <1>1, PTL
=============================================================================
