----------------------------- MODULE PortalPage -----------------------------
(***************************************************************************)
(* The script of the portal's page: a list of networks that is loaded and  *)
(* reloaded by requests whose answers may come in any order, a field for a *)
(* name typed by hand, and the form that posts one of the two.  Handlers   *)
(* run one at a time; the answers and the timer come in between.           *)
(***************************************************************************)
EXTENDS Naturals, Sequences, SequencesExt

CONSTANTS
  Ssids,     \* names of networks in the air
  Names,     \* names typed by hand
  MaxItems,  \* bound on the networks of one list
  MaxGets,   \* bound on the list requests of one behavior
  MaxPosts,  \* bound on the posts of one behavior
  NoName,    \* the empty field
  NoAnswer,  \* a request not yet answered
  NoChoice   \* the user's choice, when there is none

ASSUME BoundsAssumption == /\ MaxItems \in Nat /\ MaxGets \in Nat \ {0}
                           /\ MaxPosts \in Nat
                           /\ NoName \notin Ssids \cup Names

VARIABLES
  items,        \* the rows of #network-list, with their class 'active'
  manual,       \* #manual-input has the class 'show'
  typed,        \* #manual-wifi-name
  password,     \* #wifi-password is not empty
  gets,         \* list requests under way
  asked,        \* how many there were
  loading,      \* #refresh-btn is blank; its icon went with its text
  disabled,     \* the submit button
  choice,       \* history: what the user chose last, as far as still shown
  posts,        \* history: the posts, each with the choice it was made for
  overlapped    \* history: a refresh was sent while another was under way

formVars == <<manual, typed, password, disabled, posts>>
netVars == <<gets, asked, loading, overlapped>>
vars == <<formVars, netVars, items, choice>>

Request(n, by) == [n |-> n, by |-> by, answer |-> NoAnswer]

(* The listener of DOMContentLoaded: the list is asked for, and the rows   *)
(* for the static NodeList networkItems are looked up right after.         *)
Init == /\ items = <<>>
        /\ manual = FALSE /\ typed = NoName /\ password = FALSE
        /\ gets = {Request(1, "load")} /\ asked = 1
        /\ loading = FALSE /\ disabled = FALSE
        /\ choice = NoChoice /\ posts = <<>> /\ overlapped = FALSE

(* The rows the document held then: there were none.                       *)
networkItems == {}

-----------------------------------------------------------------------------
(* Loading the list.                                                       *)

ClickRefresh == /\ asked < MaxGets
                /\ asked' = asked + 1
                /\ gets' = gets \cup {Request(asked + 1, "refresh")}
                /\ loading' = TRUE
                /\ overlapped' = (overlapped \/ \E g \in gets : g.by = "refresh")
                /\ UNCHANGED <<formVars, items, choice>>

(* The HTTP server lists the table as it is by now.                        *)
Serve(g, list) == /\ g.answer = NoAnswer
                  /\ gets' = (gets \ {g}) \cup {[g EXCEPT !.answer = list]}
                  /\ UNCHANGED <<formVars, asked, loading, overlapped, items, choice>>

Rows(g) == [k \in 1..Len(g.answer) |-> [ssid |-> g.answer[k], active |-> FALSE]]

(* The list is replaced; a row that was chosen goes with it.               *)
LoseRow == choice' = IF choice # NoChoice /\ choice.from = "list" THEN NoChoice ELSE choice

(* Slip: the rows are added to those of the answer before.                 *)
UpdateAdding(g) == items' = items \o Rows(g) /\ LoseRow
updateWiFiList(g) == items' = Rows(g) /\ LoseRow

(* .finally of a refresh restores the button, resolved or rejected.        *)
Settle(g) == /\ gets' = gets \ {g}
             /\ loading' = (loading /\ g.by # "refresh")
             /\ UNCHANGED <<formVars, asked, overlapped>>

Loaded(g) == g.answer # NoAnswer /\ updateWiFiList(g) /\ Settle(g)

(* Slip: the button is left to .then, and a rejection does not restore it. *)
LoadFailsBlank(g) == /\ gets' = gets \ {g}
                     /\ UNCHANGED <<formVars, asked, loading, overlapped, items, choice>>
(* A status, a body or a connection that is not as it should be.           *)
LoadFails(g) == Settle(g) /\ UNCHANGED <<items, choice>>

(* A body without wifi_list, as the server sends it short of memory: the   *)
(* list is emptied before forEach throws.                                  *)
ListMissing(g) == items' = <<>> /\ LoseRow /\ Settle(g)

-----------------------------------------------------------------------------
(* The form.                                                               *)

Pick(k) == /\ choice' = [from |-> "list", ssid |-> items[k].ssid]
           /\ manual' = FALSE /\ typed' = NoName
           /\ UNCHANGED <<password, disabled, posts, netVars>>

(* Slip: a row's listener clears networkItems, as the static one does.     *)
ClickStatic(k) == /\ items' = [items EXCEPT ![k].active = TRUE]
                  /\ Pick(k)
ClickItem(k) == /\ items' = [j \in DOMAIN items |-> [items[j] EXCEPT !.active = (j = k)]]
                /\ Pick(k)

(* The rows of networkItems lose 'active'.                                 *)
ToggleManual == /\ manual' = ~manual
                /\ items' = [j \in DOMAIN items |->
                              [items[j] EXCEPT !.active = @ /\ j \notin networkItems]]
                /\ choice' = NoChoice
                /\ UNCHANGED <<typed, password, disabled, posts, netVars>>

TypeName(name) == /\ manual
                  /\ typed' = name
                  /\ choice' = IF name = NoName THEN NoChoice
                               ELSE [from |-> "manual", ssid |-> name]
                  /\ UNCHANGED <<manual, password, disabled, posts, netVars, items>>

TypePassword == /\ password' = ~password
                /\ UNCHANGED <<manual, typed, disabled, posts, netVars, items, choice>>

(* document.querySelector takes the first active row of the document.      *)
Active == {k \in DOMAIN items : items[k].active}
First == CHOOSE k \in Active : \A j \in Active : k <= j
Chosen == IF Active # {} THEN items[First].ssid ELSE typed

Submit == /\ ~disabled
          /\ Len(posts) < MaxPosts
          /\ Chosen # NoName
          /\ password
          /\ disabled' = TRUE
          /\ posts' = Append(posts, [ssid |-> Chosen, choice |-> choice])
          /\ UNCHANGED <<manual, typed, password, netVars, items, choice>>

(* After one second, whether the post was answered or not.                 *)
Timeout == /\ disabled
           /\ disabled' = FALSE
           /\ UNCHANGED <<manual, typed, password, posts, netVars, items, choice>>

Finish(n) == \E g \in gets : g.n = n /\ (Loaded(g) \/ LoadFails(g) \/ ListMissing(g))

Next == \/ ClickRefresh \/ ToggleManual \/ TypePassword \/ Submit \/ Timeout
        \/ \E g \in gets : \/ \E list \in SeqOf(Ssids, MaxItems) : Serve(g, list)
                           \/ Loaded(g) \/ LoadFails(g) \/ ListMissing(g)
        \/ \E k \in DOMAIN items : ClickItem(k)
        \/ \E name \in Names \cup {NoName} : TypeName(name)

Spec == Init /\ [][Next]_vars

(* Every request is answered or fails in the end: the HTTP server's task   *)
(* answers each it takes, and the browser gives a lost connection up.      *)
FairSpec == Spec /\ \A n \in 1..MaxGets : WF_vars(Finish(n))

-----------------------------------------------------------------------------
(* Properties.                                                             *)

Choice == {NoChoice} \cup [from : {"list", "manual"}, ssid : Ssids \cup Names]
TypeOK == /\ \A k \in DOMAIN items : items[k].ssid \in Ssids /\ items[k].active \in BOOLEAN
          /\ Len(items) <= MaxItems
          /\ manual \in BOOLEAN /\ password \in BOOLEAN /\ disabled \in BOOLEAN
          /\ typed \in Names \cup {NoName}
          /\ \A g \in gets : g.n \in 1..asked /\ g.by \in {"load", "refresh"}
          /\ asked \in 1..MaxGets
          /\ loading \in BOOLEAN /\ overlapped \in BOOLEAN
          /\ choice \in Choice
          /\ \A p \in ToSet(posts) : p.ssid \in Ssids \cup Names /\ p.choice \in Choice

(* A network the user clicked in the list, and that is still listed, is    *)
(* the one posted, whatever was clicked, typed or reloaded before.         *)
ListChoicePosted ==
  \A p \in ToSet(posts) : p.choice # NoChoice /\ p.choice.from = "list"
                            => p.ssid = p.choice.ssid

(* A blank button stands for the last refresh, still under way, however   *)
(* answers overtake each other; and a refresh under way blanks the button, *)
(* unless one was sent while another was: the first to settle shows it.    *)
ButtonTellsRefresh ==
  /\ loading => \E g \in gets : g.by = "refresh" /\ g.n = asked
  /\ ~overlapped => \A g \in gets : g.by = "refresh" => loading

(* The button comes back after every refresh, failed ones included.        *)
ButtonComesBack == loading ~> ~loading

(* A name typed by hand, and still shown, is the one posted.               *)
TypedNamePosted ==
  \A p \in ToSet(posts) : p.choice # NoChoice /\ p.choice.from = "manual"
                            => p.ssid = p.choice.ssid
=============================================================================
