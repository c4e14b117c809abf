-------------------------- MODULE PortalPageProofs --------------------------
(***************************************************************************)
(* Proofs about PortalPage for any lists, names, requests and posts.       *)
(***************************************************************************)
EXTENDS PortalPage, TLAPS

-----------------------------------------------------------------------------
(* The inductive invariant: the shapes of rows, requests and posts; one    *)
(* refresh at a time, unless they overlapped; and a network chosen in the  *)
(* list is its only active row.                                            *)

Row == [ssid : Ssids, active : BOOLEAN]
Answers == SeqOf(Ssids, MaxItems)
Get == [n : Nat, by : {"load", "refresh"}, answer : Answers \cup {NoAnswer}]
Post == [ssid : Ssids \cup Names, choice : Choice]

Shapes == items \in Seq(Row) /\ gets \in SUBSET Get /\ posts \in Seq(Post)

OneRefresh == ~overlapped =>
  \A g, h \in gets : g.by = "refresh" /\ h.by = "refresh" => g = h

FromList == choice # NoChoice /\ choice.from = "list"

ChosenActive == /\ \A j, k \in DOMAIN items : items[j].active /\ items[k].active => j = k
                /\ FromList => \E k \in DOMAIN items :
                                 items[k].active /\ items[k].ssid = choice.ssid

IInv == /\ TypeOK /\ Shapes
        /\ OneRefresh /\ ButtonTellsRefresh
        /\ ChosenActive /\ ListChoicePosted

-----------------------------------------------------------------------------
(* The invariant is inductive.                                             *)

USE BoundsAssumption

LEMMA InitIInv == Init => IInv
<1> SUFFICES ASSUME Init PROVE IInv
  OBVIOUS
<1>1. /\ items = <<>> /\ DOMAIN items = {} /\ Len(items) = 0 /\ items \in Seq(Row)
      /\ posts = <<>> /\ posts \in Seq(Post) /\ ToSet(posts) = {}
  BY DEF Init, ToSet
<1>2. gets = {Request(1, "load")} /\ Request(1, "load") \in Get
      /\ Request(1, "load").n = 1 /\ Request(1, "load").by = "load"
  BY DEF Init, Request, Get
<1>3. TypeOK
  <2>1. 0 <= MaxItems /\ 1 \in 1..MaxGets
    BY BoundsAssumption
  <2>2. \A g \in gets : g.n \in 1..asked /\ g.by \in {"load", "refresh"}
    BY <1>2 DEF Init
  <2>3. QED
    BY <1>1, <2>1, <2>2 DEF Init, TypeOK, Choice
<1>4. Shapes /\ OneRefresh
  BY <1>1, <1>2 DEF Init, Shapes, OneRefresh
<1>5. ButtonTellsRefresh /\ ChosenActive /\ ListChoicePosted
  BY <1>1, <1>2 DEF Init, ButtonTellsRefresh, ChosenActive, FromList,
                    ListChoicePosted
<1>6. QED
  BY <1>3, <1>4, <1>5 DEF IInv

(* The bounds of TypeOK that speak of rows, requests and posts follow from *)
(* their shapes.                                                           *)
LEMMA ShapesTyped ==
  ASSUME Shapes
  PROVE  /\ \A k \in DOMAIN items : items[k].ssid \in Ssids /\ items[k].active \in BOOLEAN
         /\ \A g \in gets : g.n \in Nat /\ g.by \in {"load", "refresh"}
         /\ \A p \in ToSet(posts) : p.ssid \in Ssids \cup Names /\ p.choice \in Choice
<1>1. DOMAIN items = 1..Len(items) /\ \A k \in 1..Len(items) : items[k] \in Row
  BY DEF Shapes
<1>2. \A p \in ToSet(posts) : p \in Post
  BY DEF Shapes, ToSet
<1>3. QED
  BY <1>1, <1>2 DEF Shapes, Row, Get, Post

(* A step that leaves the rows, the choice and the posts alone keeps what  *)
(* is said of them.                                                        *)
LEMMA FormStill ==
  ASSUME IInv, UNCHANGED <<items, choice, posts>>
  PROVE  ChosenActive' /\ ListChoicePosted'
BY DEF IInv, ChosenActive, FromList, ListChoicePosted

(* A step that leaves the requests and the button alone keeps what is said *)
(* of them.                                                                *)
LEMMA NetStill ==
  ASSUME IInv, UNCHANGED netVars
  PROVE  OneRefresh' /\ ButtonTellsRefresh'
BY DEF IInv, netVars, OneRefresh, ButtonTellsRefresh

LEMMA RefreshStep == IInv /\ ClickRefresh => IInv'
<1> SUFFICES ASSUME IInv, ClickRefresh PROVE IInv'
  OBVIOUS
<1> USE DEF IInv
<1> DEFINE new == Request(asked + 1, "refresh")
<1>1. /\ UNCHANGED <<items, choice, posts>>
      /\ UNCHANGED <<manual, typed, password, disabled>>
      /\ gets' = gets \cup {new} /\ asked' = asked + 1 /\ asked' \in 1..MaxGets
      /\ loading' = TRUE
      /\ overlapped' = (overlapped \/ \E g \in gets : g.by = "refresh")
  BY DEF ClickRefresh, formVars, TypeOK
<1>2. new \in Get /\ new.n = asked' /\ new.by = "refresh"
  BY <1>1 DEF Request, Get
<1>3. Shapes' /\ ChosenActive' /\ ListChoicePosted'
  BY <1>1, <1>2, FormStill DEF Shapes
<1>4. TypeOK'
  <2>1. overlapped' \in BOOLEAN
    BY <1>1
  <2>2. \A g \in gets' : g.n \in 1..asked' /\ g.by \in {"load", "refresh"}
    BY <1>1, <1>2 DEF TypeOK
  <2>3. QED
    BY <1>1, <2>1, <2>2 DEF TypeOK
<1>5. OneRefresh'
  BY <1>1, <1>2 DEF OneRefresh
<1>6. ButtonTellsRefresh'
  BY <1>1, <1>2 DEF ButtonTellsRefresh
<1>7. QED
  BY <1>3, <1>4, <1>5, <1>6

LEMMA ServeStep ==
  ASSUME IInv, NEW g \in gets, NEW list \in Answers, Serve(g, list)
  PROVE  IInv'
<1> USE DEF IInv
<1> DEFINE new == [g EXCEPT !.answer = list]
<1>1. /\ UNCHANGED <<items, choice, posts, asked, loading, overlapped>>
      /\ UNCHANGED <<manual, typed, password, disabled>>
      /\ gets' = (gets \ {g}) \cup {new}
  BY DEF Serve, formVars, TypeOK
<1>2. g \in Get
  BY DEF Shapes
<1>3. new \in Get /\ new.n = g.n /\ new.by = g.by
  BY <1>1, <1>2 DEF Get
<1>4. Shapes' /\ ChosenActive' /\ ListChoicePosted'
  BY <1>1, <1>3, FormStill DEF Shapes
<1>5. TypeOK'
  <2>1. \A h \in gets' : h.n \in 1..asked' /\ h.by \in {"load", "refresh"}
    BY <1>1, <1>3 DEF TypeOK
  <2>2. QED
    BY <1>1, <2>1 DEF TypeOK
<1>6. OneRefresh'
  <2>1. ASSUME ~overlapped, NEW h \in gets', NEW j \in gets',
               h.by = "refresh", j.by = "refresh"
        PROVE  h = j
    <3>1. ~overlapped /\ (h = new \/ h \in gets \ {g}) /\ (j = new \/ j \in gets \ {g})
      BY <1>1, <2>1
    <3>2. QED
      BY <1>3, <2>1, <3>1 DEF OneRefresh
  <2>2. QED
    BY <1>1, <2>1 DEF OneRefresh
<1>7. ButtonTellsRefresh'
  <2>1. ASSUME loading PROVE \E h \in gets' : h.by = "refresh" /\ h.n = asked
    <3>1. PICK h \in gets : h.by = "refresh" /\ h.n = asked
      BY <2>1 DEF ButtonTellsRefresh
    <3>2. CASE h = g
      BY <1>1, <1>3, <3>1, <3>2
    <3>3. CASE h # g
      BY <1>1, <3>1, <3>3
    <3>4. QED
      BY <3>2, <3>3
  <2>2. ASSUME ~overlapped, NEW h \in gets', h.by = "refresh" PROVE loading
    <3>1. \E j \in gets : j.by = "refresh"
      BY <1>1, <1>3, <2>2
    <3>2. QED
      BY <2>2, <3>1 DEF ButtonTellsRefresh
  <2>3. QED
    BY <1>1, <2>1, <2>2 DEF ButtonTellsRefresh
<1>8. QED
  BY <1>4, <1>5, <1>6, <1>7

(* Taking a request out: if that was a refresh, the button is no more      *)
(* blank, and if refreshes never overlapped, none is under way any more.   *)
LEMMA SettleButton ==
  ASSUME IInv, NEW g \in gets, Settle(g)
  PROVE  OneRefresh' /\ ButtonTellsRefresh' /\ loading' \in BOOLEAN
<1> USE DEF IInv
<1>1. /\ gets' = gets \ {g} /\ UNCHANGED <<asked, overlapped>>
      /\ loading' = (loading /\ g.by # "refresh")
  BY DEF Settle
<1>2. OneRefresh'
  BY <1>1 DEF OneRefresh
<1>3. ASSUME loading, g.by # "refresh"
      PROVE  \E h \in gets' : h.by = "refresh" /\ h.n = asked
  BY <1>1, <1>3 DEF ButtonTellsRefresh
<1>4. ASSUME ~overlapped, NEW h \in gets', h.by = "refresh"
      PROVE  loading /\ g.by # "refresh"
  BY <1>1, <1>4 DEF ButtonTellsRefresh, OneRefresh
<1>5. loading' => loading /\ g.by # "refresh"
  BY <1>1
<1>6. loading /\ g.by # "refresh" => loading'
  BY <1>1
<1>7. ButtonTellsRefresh'
  BY <1>1, <1>3, <1>4, <1>5, <1>6 DEF ButtonTellsRefresh
<1>8. QED
  BY <1>1, <1>2, <1>7

(* A list is rendered, or emptied.                                         *)
LEMMA ReplaceStep ==
  ASSUME IInv, NEW g \in gets, Settle(g), LoseRow,
         items' \in Seq(Row), Len(items') <= MaxItems,
         \A k \in DOMAIN items' : ~items'[k].active
  PROVE  IInv'
<1> USE DEF IInv
<1>1. /\ choice' = IF FromList THEN NoChoice ELSE choice
      /\ gets' = gets \ {g}
      /\ UNCHANGED <<posts, asked, overlapped>>
      /\ UNCHANGED <<manual, typed, password, disabled>>
  BY DEF LoseRow, Settle, formVars, FromList
<1>2. Shapes'
  BY <1>1 DEF Shapes
<1>3. TypeOK'
  <2>1. choice' \in Choice /\ loading' \in BOOLEAN
    BY <1>1, SettleButton DEF TypeOK, Choice
  <2>2. \A k \in DOMAIN items' : items'[k].ssid \in Ssids /\ items'[k].active \in BOOLEAN
    <3>1. \A k \in DOMAIN items' : items'[k] \in Row
      OBVIOUS
    <3>2. QED
      BY <3>1 DEF Row
  <2>3. QED
    BY <1>1, <2>1, <2>2 DEF TypeOK
<1>4. OneRefresh' /\ ButtonTellsRefresh'
  BY SettleButton
<1>5. ChosenActive' /\ ListChoicePosted'
  <2>1. ~FromList'
    BY <1>1 DEF FromList
  <2>2. ChosenActive'
    BY <2>1 DEF ChosenActive
  <2>3. QED
    BY <1>1, <2>2 DEF ListChoicePosted
<1>6. QED
  BY <1>2, <1>3, <1>4, <1>5

LEMMA LoadedStep == ASSUME IInv, NEW g \in gets, Loaded(g) PROVE IInv'
<1>1. g.answer # NoAnswer /\ items' = Rows(g) /\ LoseRow /\ Settle(g)
  BY DEF Loaded, updateWiFiList
<1>2. g.answer \in Seq(Ssids) /\ Len(g.answer) <= MaxItems
  <2>1. g.answer \in Answers
    BY <1>1 DEF IInv, Shapes, Get
  <2>2. PICK m \in 0..MaxItems : g.answer \in [1..m -> Ssids]
    BY <2>1 DEF Answers, SeqOf
  <2>3. QED
    BY <2>2
<1>3. /\ items' = [k \in 1..Len(g.answer) |-> [ssid |-> g.answer[k], active |-> FALSE]]
      /\ \A k \in 1..Len(g.answer) : g.answer[k] \in Ssids
      /\ Len(g.answer) \in Nat
  BY <1>1, <1>2 DEF Rows
<1>4. /\ items' \in Seq(Row) /\ Len(items') <= MaxItems
      /\ \A k \in DOMAIN items' : ~items'[k].active
  BY <1>2, <1>3 DEF Row
<1>5. QED
  BY <1>1, <1>4, ReplaceStep

LEMMA ListMissingStep == ASSUME IInv, NEW g \in gets, ListMissing(g) PROVE IInv'
<1>1. items' = <<>> /\ LoseRow /\ Settle(g)
  BY DEF ListMissing
<1>2. /\ items' \in Seq(Row) /\ Len(items') <= MaxItems
      /\ \A k \in DOMAIN items' : ~items'[k].active
  <2>1. Len(items') = 0 /\ DOMAIN items' = {} /\ 0 <= MaxItems
    BY <1>1
  <2>2. QED
    BY <1>1, <2>1
<1>3. QED
  BY <1>1, <1>2, ReplaceStep

LEMMA LoadFailsStep == ASSUME IInv, NEW g \in gets, LoadFails(g) PROVE IInv'
<1> USE DEF IInv
<1>1. /\ Settle(g) /\ gets' = gets \ {g}
      /\ UNCHANGED <<items, choice, posts, asked, overlapped>>
      /\ UNCHANGED <<manual, typed, password, disabled>>
  BY DEF LoadFails, Settle, formVars
<1>2. Shapes'
  BY <1>1 DEF Shapes
<1>3. OneRefresh' /\ ButtonTellsRefresh' /\ loading' \in BOOLEAN
  BY <1>1, SettleButton
<1>4. TypeOK'
  BY <1>1, <1>3 DEF TypeOK
<1>5. QED
  BY <1>1, <1>2, <1>3, <1>4, FormStill

LEMMA ClickItemStep == ASSUME IInv, NEW k \in DOMAIN items, ClickItem(k) PROVE IInv'
<1> USE DEF IInv
<1>1. /\ items' = [j \in DOMAIN items |-> [items[j] EXCEPT !.active = (j = k)]]
      /\ choice' = [from |-> "list", ssid |-> items[k].ssid]
      /\ manual' = FALSE /\ typed' = NoName
      /\ UNCHANGED <<password, disabled, posts, netVars>>
  BY DEF ClickItem, Pick
<1>2. /\ DOMAIN items = 1..Len(items) /\ Len(items) \in Nat
      /\ \A j \in DOMAIN items : items[j] \in Row
  BY DEF Shapes
<1>3. \A j \in DOMAIN items : /\ items'[j] \in Row
                              /\ items'[j].ssid = items[j].ssid
                              /\ items'[j].active = (j = k)
  BY <1>1, <1>2 DEF Row
<1>4. items' \in Seq(Row) /\ DOMAIN items' = DOMAIN items /\ Len(items') = Len(items)
  BY <1>1, <1>2, <1>3
<1>5. items[k].ssid \in Ssids
  BY <1>2 DEF Row
<1>6. Shapes'
  BY <1>1, <1>4 DEF Shapes, netVars
<1>7. TypeOK'
  <2>1. choice' \in Choice
    BY <1>1, <1>5 DEF Choice
  <2>2. \A j \in DOMAIN items' : items'[j].ssid \in Ssids /\ items'[j].active \in BOOLEAN
    BY <1>3, <1>4 DEF Row
  <2>3. QED
    BY <1>1, <1>4, <2>1, <2>2 DEF TypeOK, netVars
<1>8. OneRefresh' /\ ButtonTellsRefresh'
  BY <1>1, NetStill
<1>9. ChosenActive'
  <2>1. k \in DOMAIN items' /\ items'[k].active /\ items'[k].ssid = choice'.ssid
    BY <1>1, <1>3, <1>4
  <2>2. \A j \in DOMAIN items' : items'[j].active => j = k
    BY <1>3, <1>4
  <2>3. QED
    BY <2>1, <2>2 DEF ChosenActive
<1>10. ListChoicePosted'
  BY <1>1 DEF ListChoicePosted
<1>11. QED
  BY <1>6, <1>7, <1>8, <1>9, <1>10

LEMMA ToggleStep == IInv /\ ToggleManual => IInv'
<1> SUFFICES ASSUME IInv, ToggleManual PROVE IInv'
  OBVIOUS
<1> USE DEF IInv
<1>1. /\ DOMAIN items = 1..Len(items) /\ Len(items) \in Nat
      /\ \A j \in DOMAIN items : items[j] \in Row
      /\ items = [j \in DOMAIN items |-> items[j]]
  BY DEF Shapes
<1>2. \A j \in DOMAIN items :
        [items[j] EXCEPT !.active = items[j].active /\ j \notin networkItems] = items[j]
  BY <1>1 DEF Row, networkItems
<1>3. /\ UNCHANGED items /\ choice' = NoChoice /\ manual' = ~manual
      /\ UNCHANGED <<typed, password, disabled, posts, netVars>>
  BY <1>1, <1>2 DEF ToggleManual
<1>4. Shapes' /\ TypeOK'
  BY <1>3 DEF Shapes, TypeOK, Choice, netVars
<1>5. OneRefresh' /\ ButtonTellsRefresh'
  BY <1>3, NetStill
<1>6. ChosenActive' /\ ListChoicePosted'
  BY <1>3 DEF ChosenActive, FromList, ListChoicePosted
<1>7. QED
  BY <1>4, <1>5, <1>6

LEMMA TypeNameStep ==
  ASSUME IInv, NEW name \in Names \cup {NoName}, TypeName(name) PROVE IInv'
<1> USE DEF IInv
<1>1. /\ typed' = name /\ UNCHANGED <<manual, password, disabled, posts, netVars, items>>
      /\ choice' = IF name = NoName THEN NoChoice
                   ELSE [from |-> "manual", ssid |-> name]
  BY DEF TypeName
<1>2. choice' \in Choice /\ ~FromList'
  BY <1>1 DEF Choice, FromList
<1>3. Shapes' /\ TypeOK'
  BY <1>1, <1>2 DEF Shapes, TypeOK, netVars
<1>4. OneRefresh' /\ ButtonTellsRefresh'
  BY <1>1, NetStill
<1>5. ChosenActive' /\ ListChoicePosted'
  BY <1>1, <1>2 DEF ChosenActive, ListChoicePosted
<1>6. QED
  BY <1>3, <1>4, <1>5

(* The form posts the only active row, if there is one.                    *)
LEMMA SubmitStep == IInv /\ Submit => IInv'
<1> SUFFICES ASSUME IInv, Submit PROVE IInv'
  OBVIOUS
<1> USE DEF IInv
<1> DEFINE new == [ssid |-> Chosen, choice |-> choice]
<1>1. /\ posts' = Append(posts, new) /\ disabled' = TRUE /\ Chosen # NoName
      /\ UNCHANGED <<manual, typed, password, netVars, items, choice>>
  BY DEF Submit
<1>2. \A k \in Active : k \in DOMAIN items /\ First = k
  <2>1. \A k \in Active : k \in Nat /\ k <= k /\ Active = {k}
    BY DEF Active, Shapes, ChosenActive
  <2>2. QED
    BY <2>1 DEF First, Active
<1>3. Chosen \in Ssids \cup Names
  <2>1. CASE Active # {}
    BY <1>2, <2>1 DEF Chosen, TypeOK
  <2>2. CASE Active = {}
    BY <1>1, <2>2 DEF Chosen, TypeOK
  <2>3. QED
    BY <2>1, <2>2
<1>4. new \in Post
  BY <1>3 DEF Post, TypeOK
<1>5. posts' \in Seq(Post) /\ ToSet(posts') = ToSet(posts) \cup {new}
  BY <1>1, <1>4 DEF Shapes, ToSet
<1>6. Shapes'
  BY <1>1, <1>5 DEF Shapes, netVars
<1>7. TypeOK'
  BY <1>1, <1>4, <1>5 DEF TypeOK, Post, netVars
<1>8. FromList => Chosen = choice.ssid
  <2> SUFFICES ASSUME FromList PROVE Chosen = choice.ssid
    OBVIOUS
  <2>1. PICK k \in DOMAIN items : items[k].active /\ items[k].ssid = choice.ssid
    BY DEF ChosenActive
  <2>2. k \in Active /\ First = k
    BY <1>2, <2>1 DEF Active
  <2>3. QED
    BY <2>1, <2>2 DEF Chosen
<1>9. ListChoicePosted'
  BY <1>5, <1>8 DEF ListChoicePosted, FromList
<1>10. OneRefresh' /\ ButtonTellsRefresh'
  BY <1>1, NetStill
<1>11. ChosenActive'
  BY <1>1 DEF ChosenActive, FromList
<1>12. QED
  BY <1>6, <1>7, <1>9, <1>10, <1>11

LEMMA OtherStep == IInv /\ (TypePassword \/ Timeout \/ UNCHANGED vars) => IInv'
<1> SUFFICES ASSUME IInv, TypePassword \/ Timeout \/ UNCHANGED vars PROVE IInv'
  OBVIOUS
<1>1. /\ UNCHANGED <<manual, typed, posts, netVars, items, choice>>
      /\ password' \in BOOLEAN /\ disabled' \in BOOLEAN
  BY DEF IInv, TypeOK, TypePassword, Timeout, vars, formVars, netVars
<1>2. Shapes' /\ TypeOK'
  BY <1>1 DEF IInv, Shapes, TypeOK, netVars
<1>3. OneRefresh' /\ ButtonTellsRefresh'
  BY <1>1, NetStill DEF IInv
<1>4. QED
  BY <1>1, <1>2, <1>3, FormStill DEF IInv

-----------------------------------------------------------------------------
(* The theorems.                                                           *)

(* The inductive invariant of the page's script.                           *)
THEOREM Invariance == Spec => []IInv
<1>1. IInv /\ [Next]_vars => IInv'
  <2> SUFFICES ASSUME IInv, [Next]_vars PROVE IInv'
    OBVIOUS
  <2>1. CASE \E g \in gets : \E list \in SeqOf(Ssids, MaxItems) : Serve(g, list)
    BY <2>1, ServeStep DEF Answers
  <2>2. CASE \E g \in gets : Loaded(g) \/ LoadFails(g) \/ ListMissing(g)
    BY <2>2, LoadedStep, LoadFailsStep, ListMissingStep
  <2>3. CASE \E k \in DOMAIN items : ClickItem(k)
    BY <2>3, ClickItemStep
  <2>4. CASE \E name \in Names \cup {NoName} : TypeName(name)
    BY <2>4, TypeNameStep
  <2>5. QED
    BY <2>1, <2>2, <2>3, <2>4, RefreshStep, ToggleStep, SubmitStep, OtherStep
       DEF Next
<1>2. QED
  BY InitIInv, <1>1, PTL DEF Spec

(* Every variable keeps its type; the list is never longer than one answer.*)
THEOREM TypeCorrect == Spec => []TypeOK
<1>1. IInv => TypeOK
  BY DEF IInv
<1>2. QED
  BY Invariance, <1>1, PTL

(* The submit listener posts the network clicked last, while it is listed, *)
(* whatever was clicked, typed or reloaded before.                         *)
THEOREM ClickedNetworkPosted == Spec => []ListChoicePosted
<1>1. IInv => ListChoicePosted
  BY DEF IInv
<1>2. QED
  BY Invariance, <1>1, PTL

(* The refresh listener's button is blank for the last refresh only, as    *)
(* long as that is under way; and it is blank as long as any is, unless    *)
(* two refreshes overlapped.                                               *)
THEOREM ButtonIsTrue == Spec => []ButtonTellsRefresh
<1>1. IInv => ButtonTellsRefresh
  BY DEF IInv
<1>2. QED
  BY Invariance, <1>1, PTL
=============================================================================
