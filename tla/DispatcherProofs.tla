------------------------- MODULE DispatcherProofs -------------------------
(***************************************************************************)
(* Proofs about Dispatcher, for any browsers, sessions and contents, and   *)
(* any number of restarts.                                                 *)
(*                                                                         *)
(* The argument: a page learns the context of a server only from an update *)
(* of that server when it is ready, so while a server starts every context *)
(* that is anywhere is older than its own.  Callbacks of those are not     *)
(* routed, and so the constructor alone shows and hides pages; later a     *)
(* page is hidden only on the way to showing the other one.                *)
(***************************************************************************)
EXTENDS Dispatcher, FiniteSetTheorems, TLAPS

\* No context is newer than the server, and none is that of a server that is
\* starting.
ContextInv ==
  /\ \A b \in Browsers : tab[b].context <= instance
  /\ \A r \in requests : r.context <= instance
  /\ phase \in {"creating", "created"} =>
       /\ \A b \in Browsers : tab[b].context < instance
       /\ \A r \in requests : r.context < instance

\* Contents are complete when the constructor is done.
StartInv ==
  /\ phase = "down" => requests = {} /\ registered = {}
  /\ phase # "down" => instance > 0
  /\ phase \in {"created", "ready"} => registered = Contents

\* Only a callback of this server changes the page.
ChangeInv == \A r \in requests : r.step \in {"hide", "show"} => r.context = instance

\* The first page is shown when it is created, and a page is hidden only when
\* the other one is going to be shown.
ShownInv ==
  /\ phase = "creating" /\ Page1 \in registered => IsShown(Page1)
  /\ registered = Contents =>
       \/ \E page \in Pages : IsShown(page)
       \/ \E r \in requests : r.step = "show"

IInv == TypeOK /\ ContextInv /\ StartInv /\ ChangeInv /\ ShownInv

-----------------------------------------------------------------------------
\* The pages are contents, and the other page is a page.
LEMMA PageFacts ==
  /\ Page1 \in Contents /\ Page2 \in Contents /\ Page1 # Page2
  /\ Page1 \in Visible /\ Contents # {}
  /\ \A page \in Pages : Other(page) \in Pages
BY ConstantsAssumption DEF Pages, Other

\* As long as a content is missing there is a creator to come.
LEMMA NextCreator ==
  ASSUME NEW set \in SUBSET Contents, set # Contents
  PROVE  Cardinality(set) + 1 \in DOMAIN Creators
<1> DEFINE n == Len(Creators)
<1>1. n \in Nat /\ DOMAIN Creators = 1..n
  BY ConstantsAssumption
<1> HIDE DEF n
<1>2. IsFiniteSet(1..n) /\ Cardinality(1..n) = n
  <2>1. IsFiniteSet(1..n) /\ Cardinality(1..n) = IF 1 > n THEN 0 ELSE n - 1 + 1
    BY <1>1, FS_Interval
  <2> QED
    BY <1>1, <2>1
<1>3. Creators \in Surjection(1..n, Contents)
  BY <1>1, ConstantsAssumption DEF Surjection, Contents
<1>4. IsFiniteSet(Contents) /\ Cardinality(Contents) <= n
  BY <1>2, <1>3, FS_Surjection
<1>5. Cardinality(set) <= Cardinality(Contents) /\ Cardinality(set) # Cardinality(Contents)
  BY <1>4, FS_Subset
<1>6. Cardinality(set) \in Nat /\ Cardinality(Contents) \in Nat
  BY <1>4, FS_Subset, FS_CardinalityType
<1> QED
  BY <1>1, <1>4, <1>5, <1>6

LEMMA InitInv == Init => IInv
<1> SUFFICES ASSUME Init PROVE IInv
  OBVIOUS
<1>1. TypeOK
  BY ConstantsAssumption DEF Init, TypeOK
<1>2. ContextInv /\ StartInv /\ ChangeInv /\ ShownInv
  BY PageFacts DEF Init, ContextInv, StartInv, ChangeInv, ShownInv
<1> QED
  BY <1>1, <1>2 DEF IInv

-----------------------------------------------------------------------------
(* Start and end of the server.                                            *)

LEMMA StartStep == ASSUME IInv, Start PROVE IInv'
<1>1. TypeOK'
  BY ConstantsAssumption DEF IInv, TypeOK, Start, history
<1>2. ContextInv'
  BY DEF IInv, TypeOK, ContextInv, StartInv, Start
<1>3. StartInv' /\ ChangeInv' /\ ShownInv'
  BY PageFacts DEF IInv, TypeOK, StartInv, ShownInv, Start, ChangeInv, IsShown
<1> QED
  BY <1>1, <1>2, <1>3 DEF IInv

LEMMA CreateContentStep == ASSUME IInv, CreateContent PROVE IInv'
<1> DEFINE next == Creators[Cardinality(registered) + 1]
<1>1. next \in Contents
  <2>1. Cardinality(registered) + 1 \in DOMAIN Creators
    BY NextCreator DEF CreateContent, IInv, TypeOK
  <2> QED
    BY <2>1 DEF Contents
<1> HIDE DEF next
<1>2. /\ phase = "creating" /\ phase' = phase /\ registered' = registered \cup {next}
      /\ hidden' = [hidden EXCEPT ![next] = next \notin Visible]
      /\ UNCHANGED <<instance, authorized, requests, tab, nrEvents, overlaps>>
  BY DEF CreateContent, next, history
<1>3. registered \subseteq Contents /\ hidden \in [Contents -> BOOLEAN]
  BY DEF IInv, TypeOK
<1>4. TypeOK'
  BY <1>1, <1>2, <1>3 DEF IInv, TypeOK
<1>5. ContextInv' /\ ChangeInv'
  BY <1>2 DEF IInv, ContextInv, ChangeInv
<1>6. StartInv'
  BY <1>2 DEF IInv, StartInv
<1>7. ShownInv'
  <2>1. Page1 \in registered' => ~hidden'[Page1]
    BY <1>1, <1>2, <1>3, PageFacts DEF IInv, ShownInv, IsShown
  <2> QED
    BY <1>2, <2>1, PageFacts DEF ShownInv, IsShown, Pages
<1> QED
  BY <1>4, <1>5, <1>6, <1>7 DEF IInv

LEMMA AssignTopStep == ASSUME IInv, AssignTop PROVE IInv'
<1>1. TypeOK' /\ ChangeInv'
  BY DEF IInv, TypeOK, ChangeInv, AssignTop, history
<1>2. ContextInv' /\ StartInv' /\ ShownInv'
  BY DEF IInv, ContextInv, StartInv, ShownInv, AssignTop, IsShown
<1> QED
  BY <1>1, <1>2 DEF IInv

LEMMA DiesStep == ASSUME IInv, Dies PROVE IInv'
<1>1. \A b \in Browsers : tab'[b].context = tab[b].context
  BY DEF Dies, IInv, TypeOK
<1>2. tab' \in [Browsers -> [shows : {"nothing", "login", "contents"},
                            context : 0..MaxInstances, waits : BOOLEAN]]
  BY ZenonT(30) DEF Dies, IInv, TypeOK
<1>3. TypeOK'
  BY <1>2 DEF Dies, IInv, TypeOK, history
<1>4. ContextInv' /\ StartInv' /\ ChangeInv' /\ ShownInv'
  BY <1>1, PageFacts DEF Dies, IInv, ContextInv, StartInv, ChangeInv, ShownInv
<1> QED
  BY <1>3, <1>4 DEF IInv

-----------------------------------------------------------------------------
(* Browsers.                                                               *)

\* The types of requests and of what browsers show
Requests == [browser : Browsers, kind : {"page", "login", "refresh", "change", "logout"},
             page : Pages, nr : 0..MaxEvents, context : 0..MaxInstances,
             step : {"authorize", "serve", "hide", "show"}]

Tabs == [shows : {"nothing", "login", "contents"},
         context : 0..MaxInstances, waits : BOOLEAN]

\* A new request carries the context of its page, and is to be authorized.
LEMMA NewRequest ==
  ASSUME IInv, NEW b \in Browsers, NEW kind \in {"page", "login", "refresh", "change", "logout"},
         NEW page \in Pages, NEW nr \in 0..MaxEvents
  PROVE  /\ Request(b, kind, page, nr) \in Requests
         /\ Request(b, kind, page, nr).context = tab[b].context
         /\ Request(b, kind, page, nr).step = "authorize"
<1>1. tab[b].context \in 0..MaxInstances
  BY DEF IInv, TypeOK
<1> QED
  BY <1>1 DEF Request, Requests

\* A request that is sent by a page keeps the invariant.
LEMMA SentInv ==
  ASSUME IInv, NEW b \in Browsers, NEW r \in Requests,
         r.context = tab[b].context, r.step = "authorize", phase # "down",
         requests' = requests \cup {r},
         UNCHANGED <<server, authorized>>,
         tab' \in [Browsers -> Tabs], \A d \in Browsers : tab'[d].context = tab[d].context,
         nrEvents' \in 0..MaxEvents, overlaps' = overlaps
  PROVE  IInv'
<1>1. TypeOK'
  BY DEF IInv, TypeOK, Requests, Tabs, server
<1>2. ContextInv'
  BY DEF IInv, ContextInv, server
<1>3. StartInv' /\ ChangeInv'
  BY DEF IInv, StartInv, ChangeInv, server
<1>4. ShownInv'
  BY DEF IInv, ShownInv, server, IsShown
<1> QED
  BY <1>1, <1>2, <1>3, <1>4 DEF IInv

LEMMA SendStep ==
  ASSUME IInv, NEW b \in Browsers, NEW kind \in {"page", "login", "refresh"}, Send(b, kind)
  PROVE  IInv'
<1> DEFINE r == Request(b, kind, Page1, 0)
<1>1. r \in Requests /\ r.context = tab[b].context /\ r.step = "authorize"
  BY NewRequest, ConstantsAssumption DEF Pages
<1> HIDE DEF r
<1>2. /\ phase # "down" /\ requests' = requests \cup {r}
      /\ tab' = [tab EXCEPT ![b].waits = TRUE]
      /\ UNCHANGED <<server, authorized>> /\ UNCHANGED <<nrEvents, overlaps>>
  BY DEF Send, r, history
<1>3. tab \in [Browsers -> Tabs] /\ nrEvents \in 0..MaxEvents
  BY DEF IInv, TypeOK, Tabs
<1>4. tab' \in [Browsers -> Tabs] /\ \A d \in Browsers : tab'[d].context = tab[d].context
  BY <1>2, <1>3 DEF Tabs
<1> QED
  BY <1>1, <1>2, <1>3, <1>4, SentInv

LEMMA PressStep == ASSUME IInv, NEW b \in Browsers, Press(b) PROVE IInv'
<1>1. PICK kind \in {"change", "logout"}, page \in Pages :
        requests' = requests \cup {Request(b, kind, page, nrEvents + 1)}
  BY DEF Press
<1> DEFINE r == Request(b, kind, page, nrEvents + 1)
<1>2. nrEvents + 1 \in 0..MaxEvents
  BY ConstantsAssumption DEF Press, IInv, TypeOK
<1>3. r \in Requests /\ r.context = tab[b].context /\ r.step = "authorize"
  BY <1>2, NewRequest
<1> HIDE DEF r
<1>4. /\ phase # "down" /\ requests' = requests \cup {r}
      /\ nrEvents' \in 0..MaxEvents
      /\ UNCHANGED <<server, authorized>> /\ UNCHANGED <<tab, overlaps>>
  BY <1>1, <1>2 DEF Press, r
<1>5. tab \in [Browsers -> Tabs]
  BY DEF IInv, TypeOK, Tabs
<1> QED
  BY <1>3, <1>4, <1>5, SentInv

LEMMA ElsewhereStep == ASSUME IInv, NEW b \in Browsers, Elsewhere(b) PROVE IInv'
<1>1. TypeOK'
  <2>1. authorized' \subseteq Sessions
    BY DEF IInv, TypeOK, Elsewhere, Sessions
  <2> QED
    BY <2>1, ConstantsAssumption DEF IInv, TypeOK, Elsewhere, server
<1>2. ContextInv' /\ StartInv' /\ ChangeInv' /\ ShownInv'
  BY DEF IInv, ContextInv, StartInv, ChangeInv, ShownInv, Elsewhere, server, IsShown
<1> QED
  BY <1>1, <1>2 DEF IInv

-----------------------------------------------------------------------------
(* processWeb.                                                             *)

\* A request that goes on keeps all but its step.
LEMMA Moved ==
  ASSUME IInv, NEW r \in requests, NEW step \in {"serve", "hide", "show"}, Becomes(r, step)
  PROVE  /\ requests' \subseteq Requests
         /\ \A q \in requests' : q \in requests \/ (q.context = r.context /\ q.step = step)
         /\ \E q \in requests' : q.step = step
         /\ \A q \in requests : q # r => q \in requests'
<1>1. requests \subseteq Requests
  BY DEF IInv, TypeOK, Requests
<1>2. [r EXCEPT !.step = step] \in Requests
  BY <1>1 DEF Requests
<1>3. [r EXCEPT !.step = step].context = r.context /\ [r EXCEPT !.step = step].step = step
  BY <1>1 DEF Requests
<1> QED
  BY <1>1, <1>2, <1>3 DEF Becomes

\* A request that is answered, or goes on to be served, leaves the pages as
\* they are; a browser learns the context of a server that is ready, or loses
\* the context it had.
LEMMA ServedInv ==
  ASSUME IInv, NEW r \in requests, r.step \in {"authorize", "serve"},
         \/ Ends(r)
         \/ Becomes(r, "serve")
         \/ Becomes(r, "hide") /\ r.context = instance,
         UNCHANGED server, authorized' \subseteq Sessions,
         tab' \in [Browsers -> Tabs],
         \A b \in Browsers : \/ tab'[b].context \in {0, tab[b].context}
                             \/ tab'[b].context = instance /\ phase = "ready",
         nrEvents' = nrEvents, overlaps' \in Nat
  PROVE  IInv'
<1>1. /\ requests' \subseteq Requests
      /\ \A q \in requests' : \/ q \in requests
                              \/ q.context = r.context /\ q.step = "serve"
                              \/ q.context = r.context /\ r.context = instance
      /\ \A q \in requests : q # r => q \in requests'
  <2>1. CASE Ends(r)
    BY <2>1 DEF Ends, IInv, TypeOK, Requests
  <2>2. CASE Becomes(r, "serve")
    BY <2>2, Moved
  <2>3. CASE Becomes(r, "hide") /\ r.context = instance
    BY <2>3, Moved
  <2> QED
    BY <2>1, <2>2, <2>3
<1>2. TypeOK'
  BY <1>1 DEF IInv, TypeOK, Requests, Tabs, server
<1>3. phase # "down" /\ instance > 0 /\ instance \in Nat /\ r.context <= instance
  BY DEF IInv, TypeOK, StartInv, ContextInv
<1>4. ContextInv'
  <2>1. \A b \in Browsers : tab'[b].context <= instance
    BY <1>3 DEF IInv, ContextInv
  <2>2. \A q \in requests' : q.context <= instance
    BY <1>1, <1>3 DEF IInv, ContextInv
  <2>3. ASSUME phase \in {"creating", "created"}
        PROVE  /\ \A b \in Browsers : tab'[b].context < instance
               /\ \A q \in requests' : q.context < instance
    BY <1>1, <1>3, <2>3 DEF IInv, ContextInv
  <2> QED
    BY <2>1, <2>2, <2>3 DEF ContextInv, server
<1>5. StartInv'
  BY <1>3 DEF IInv, StartInv, server
<1>6. ChangeInv'
  BY <1>1 DEF IInv, ChangeInv, server
<1>7. ShownInv'
  <2>1. \A q \in requests : q.step = "show" => q \in requests'
    BY <1>1
  <2> QED
    BY <2>1 DEF IInv, ShownInv, server, IsShown
<1> QED
  BY <1>2, <1>4, <1>5, <1>6, <1>7 DEF IInv

\* What browsers show stays in its type.
LEMMA TabTypes ==
  ASSUME IInv, NEW r \in requests
  PROVE  /\ tab \in [Browsers -> Tabs]
         /\ r.browser \in Browsers
         /\ \A what \in {"nothing", "login", "contents"} : Shows(r, what) =>
              /\ tab' \in [Browsers -> Tabs]
              /\ \A b \in Browsers : tab'[b].context \in {0, tab[b].context}
         /\ Updates(r) =>
              /\ tab' \in [Browsers -> Tabs]
              /\ \A b \in Browsers : tab'[b].context \in {instance, tab[b].context}
<1>1. tab \in [Browsers -> Tabs] /\ r.browser \in Browsers /\ instance \in 0..MaxInstances
  BY DEF IInv, TypeOK, Tabs
<1>2. ASSUME NEW what \in {"nothing", "login", "contents"}, Shows(r, what)
      PROVE  /\ tab' \in [Browsers -> Tabs]
             /\ \A b \in Browsers : tab'[b].context \in {0, tab[b].context}
  BY <1>1, <1>2, ConstantsAssumption DEF Shows, Tabs
<1>3. ASSUME Updates(r)
      PROVE  /\ tab' \in [Browsers -> Tabs]
             /\ \A b \in Browsers : tab'[b].context \in {instance, tab[b].context}
  <2> DEFINE t == [tab[r.browser] EXCEPT !.context = instance, !.waits = FALSE]
  <2>1. tab' = [tab EXCEPT ![r.browser] = t]
    BY <1>1, <1>3 DEF Updates, Tabs
  <2>2. t \in Tabs /\ t.context = instance
    BY <1>1 DEF Tabs
  <2> HIDE DEF t
  <2> QED
    BY <1>1, <2>1, <2>2
<1> QED
  BY <1>1, <1>2, <1>3

LEMMA AuthorizeStep == ASSUME IInv, NEW r \in requests, Authorize(r) PROVE IInv'
<1>1. r.browser \in Browsers /\ tab \in [Browsers -> Tabs] /\ authorized \subseteq Sessions
  BY TabTypes DEF IInv, TypeOK
<1>2. authorized' \subseteq Sessions
  BY <1>1 DEF Authorize, Sessions
<1>3. tab' \in [Browsers -> Tabs] /\ \A b \in Browsers : tab'[b].context \in {0, tab[b].context}
  <2>1. CASE tab' = tab
    BY <1>1, <2>1
  <2>2. CASE Refused(r)
    BY <1>1, <2>2, TabTypes DEF Refused
  <2> QED
    BY <2>1, <2>2 DEF Authorize
<1>4. /\ r.step = "authorize"
      /\ Ends(r) \/ Becomes(r, "serve")
      /\ UNCHANGED server /\ UNCHANGED <<nrEvents, overlaps>>
  BY DEF Authorize, history
<1>5. overlaps \in Nat
  BY DEF IInv, TypeOK
<1> QED
  BY <1>2, <1>3, <1>4, <1>5, ServedInv

LEMMA ServePageStep == ASSUME IInv, NEW r \in requests, ServePage(r) PROVE IInv'
<1>1. /\ r.step = "serve" /\ phase = "ready" /\ Ends(r)
      /\ UNCHANGED server /\ UNCHANGED <<authorized, nrEvents, overlaps>>
      /\ Updates(r) \/ Shows(r, "contents")
  BY DEF ServePage, history
<1>2. /\ tab' \in [Browsers -> Tabs]
      /\ \A b \in Browsers : tab'[b].context \in {0, instance, tab[b].context}
  BY <1>1, TabTypes
<1>3. overlaps \in Nat /\ authorized \subseteq Sessions
  BY DEF IInv, TypeOK
<1> QED
  BY <1>1, <1>2, <1>3, ServedInv

LEMMA NotRoutedStep == ASSUME IInv, NEW r \in requests, NotRouted(r) PROVE IInv'
<1>1. overlaps \in Nat /\ authorized \subseteq Sessions /\ tab \in [Browsers -> Tabs]
  BY DEF IInv, TypeOK, Tabs
<1> QED
  BY <1>1, ServedInv DEF NotRouted, history

LEMMA ChangeStep == ASSUME IInv, NEW r \in requests, Change(r) PROVE IInv'
<1>1. overlaps \in Nat /\ authorized \subseteq Sessions /\ tab \in [Browsers -> Tabs]
  BY DEF IInv, TypeOK, Tabs
<1>2. /\ r.step = "serve" /\ r.context = instance
      /\ Ends(r) \/ Becomes(r, "hide")
      /\ overlaps' \in Nat
      /\ UNCHANGED server /\ UNCHANGED <<authorized, tab, nrEvents>>
  BY <1>1 DEF Change, IsRouted, IsOurs
<1> QED
  BY <1>1, <1>2, ServedInv

LEMMA LogOutStep == ASSUME IInv, NEW r \in requests, LogOut(r) PROVE IInv'
<1>1. /\ overlaps \in Nat /\ authorized \subseteq Sessions /\ tab \in [Browsers -> Tabs]
  BY DEF IInv, TypeOK, Tabs
<1>2. /\ r.step = "serve" /\ Ends(r) /\ authorized' \subseteq Sessions
      /\ UNCHANGED server /\ UNCHANGED <<tab, nrEvents, overlaps>>
  BY <1>1 DEF LogOut, IsRouted, history
<1> QED
  BY <1>1, <1>2, ServedInv

-----------------------------------------------------------------------------
(* The change of the page.                                                 *)

\* A change is under way only in a server that is ready.
LEMMA ChangesWhenReady ==
  ASSUME IInv, NEW r \in requests, r.context = instance
  PROVE  phase = "ready" /\ registered = Contents
<1>1. instance \in Nat /\ phase \in {"down", "creating", "created", "ready"}
  BY DEF IInv, TypeOK
<1>2. phase # "down"
  BY DEF IInv, StartInv
<1>3. phase \notin {"creating", "created"}
  BY <1>1 DEF IInv, ContextInv
<1> QED
  BY <1>1, <1>2, <1>3 DEF IInv, StartInv

LEMMA HideStep == ASSUME IInv, NEW r \in requests, Hide(r) PROVE IInv'
<1>1. r.context = instance /\ phase = "ready"
  BY ChangesWhenReady DEF Hide, IInv, ChangeInv
<1>2. /\ hidden' = [hidden EXCEPT ![r.page] = TRUE] /\ Becomes(r, "show")
      /\ UNCHANGED <<instance, phase, registered, authorized, tab, nrEvents, overlaps>>
  BY DEF Hide, history
<1>3. /\ requests' \subseteq Requests
      /\ \A q \in requests' : q \in requests \/ q.context = instance
      /\ \E q \in requests' : q.step = "show"
  BY <1>1, <1>2, Moved
<1>4. TypeOK'
  BY <1>2, <1>3 DEF IInv, TypeOK, Requests
<1>5. instance \in Nat
  BY DEF IInv, TypeOK
<1>6. ContextInv'
  BY <1>1, <1>2, <1>3, <1>5 DEF IInv, ContextInv
<1>7. StartInv' /\ ChangeInv'
  BY <1>1, <1>2, <1>3 DEF IInv, StartInv, ChangeInv
<1>8. ShownInv'
  BY <1>1, <1>2, <1>3 DEF ShownInv
<1> QED
  BY <1>4, <1>6, <1>7, <1>8 DEF IInv

LEMMA ShowStep == ASSUME IInv, NEW r \in requests, Show(r) PROVE IInv'
<1>1. r.context = instance /\ phase = "ready"
  BY ChangesWhenReady DEF Show, IInv, ChangeInv
<1>2. /\ hidden' = [hidden EXCEPT ![Other(r.page)] = FALSE] /\ requests' \subseteq requests
      /\ UNCHANGED <<instance, phase, registered, authorized, tab, nrEvents, overlaps>>
  BY DEF Show, Ends, history
<1>3. Other(r.page) \in Pages /\ Other(r.page) \in Contents
  BY PageFacts, ConstantsAssumption DEF IInv, TypeOK
<1>4. TypeOK'
  BY <1>2 DEF IInv, TypeOK
<1>5. ContextInv' /\ ChangeInv'
  BY <1>2 DEF IInv, ContextInv, ChangeInv
<1>6. StartInv'
  BY <1>1, <1>2 DEF IInv, StartInv
<1>7. ~hidden'[Other(r.page)]
  BY <1>2, <1>3 DEF IInv, TypeOK
<1>8. ShownInv'
  BY <1>1, <1>2, <1>3, <1>7 DEF ShownInv, IsShown
<1> QED
  BY <1>4, <1>5, <1>6, <1>8 DEF IInv

LEMMA HandleStep == ASSUME IInv, NEW b \in Browsers, Handle(b) PROVE IInv'
<1>1. PICK r \in requests :
        \/ Authorize(r) \/ ServePage(r) \/ UsedTooEarly(r) \/ NotRouted(r)
        \/ Change(r) \/ Hide(r) \/ Show(r) \/ LogOut(r)
  BY DEF Handle
<1>2. CASE Authorize(r)
  BY <1>2, AuthorizeStep
<1>3. CASE ServePage(r)
  BY <1>3, ServePageStep
<1>4. CASE UsedTooEarly(r)
  BY <1>4, DiesStep DEF UsedTooEarly
<1>5. CASE NotRouted(r)
  BY <1>5, NotRoutedStep
<1>6. CASE Change(r)
  BY <1>6, ChangeStep
<1>7. CASE Hide(r)
  BY <1>7, HideStep
<1>8. CASE Show(r)
  BY <1>8, ShowStep
<1>9. CASE LogOut(r)
  BY <1>9, LogOutStep
<1> QED
  BY <1>1, <1>2, <1>3, <1>4, <1>5, <1>6, <1>7, <1>8, <1>9

-----------------------------------------------------------------------------
\* Every step keeps the invariant.
LEMMA NextInv == ASSUME IInv, [Next]_vars PROVE IInv'
<1>1. CASE Start
  BY <1>1, StartStep
<1>2. CASE CreateContent
  BY <1>2, CreateContentStep
<1>3. CASE AssignTop
  BY <1>3, AssignTopStep
<1>4. CASE Stop
  BY <1>4, DiesStep DEF Stop
<1>5. ASSUME NEW b \in Browsers, Load(b) \/ LogIn(b) \/ Refresh(b)
      PROVE  IInv'
  BY <1>5, SendStep DEF Load, LogIn, Refresh
<1>6. ASSUME NEW b \in Browsers, Press(b) PROVE IInv'
  BY <1>6, PressStep
<1>7. ASSUME NEW b \in Browsers, Elsewhere(b) PROVE IInv'
  BY <1>7, ElsewhereStep
<1>8. ASSUME NEW b \in Browsers, Handle(b) PROVE IInv'
  BY <1>8, HandleStep
<1>9. CASE UNCHANGED vars
  <2>1. /\ UNCHANGED <<instance, phase, registered, hidden, authorized>>
        /\ UNCHANGED <<requests, tab, nrEvents, overlaps>>
    BY <1>9 DEF vars, server, history
  <2>2. TypeOK'
    BY <2>1 DEF IInv, TypeOK
  <2>3. ContextInv' /\ StartInv' /\ ChangeInv' /\ ShownInv'
    BY <2>1 DEF IInv, ContextInv, StartInv, ChangeInv, ShownInv, IsShown
  <2> QED
    BY <2>2, <2>3 DEF IInv
<1> QED
  BY <1>1, <1>2, <1>3, <1>4, <1>5, <1>6, <1>7, <1>8, <1>9 DEF Next

LEMMA Invariance == Spec => []IInv
<1>1. IInv /\ [Next]_vars => IInv'
  BY NextInv
<1> QED
  BY <1>1, InitInv, PTL DEF Spec

\* The state of the dispatcher, of its contents and of the browsers has its type.
THEOREM TypeCorrect == Spec => []TypeOK
<1>1. IInv => TypeOK
  BY DEF IInv
<1> QED
  BY <1>1, Invariance, PTL

\* Callbacks run only when every content is there: dispatchCallback needs no
\* lock of _map, and getContent never throws.
THEOREM CallbacksAreSafe == Spec => []CallbacksFindContents
<1>1. ASSUME IInv PROVE CallbacksFindContents
  <2> SUFFICES ASSUME NEW r \in requests, IsRouted(r) \/ r.step \in {"hide", "show"}
               PROVE  phase = "ready" /\ registered = Contents
    BY DEF CallbacksFindContents
  <2>1. r.context = instance
    BY <1>1 DEF IsRouted, IsOurs, IInv, ChangeInv
  <2> QED
    BY <1>1, <2>1, ChangesWhenReady
<1>2. IInv => CallbacksFindContents
  BY <1>1
<1> QED
  BY <1>2, Invariance, PTL

\* When no callback is between BrewingPage's or FermentingPage's hide() and the
\* show() that follows, one of the two pages is shown.
THEOREM OnePageRemains == Spec => []SomePageShown
<1>1. IInv => SomePageShown
  BY DEF IInv, ShownInv, SomePageShown, Changing
<1> QED
  BY <1>1, Invariance, PTL

-----------------------------------------------------------------------------
(* Two pages that exclude each other.                                      *)

\* Before the server is ready the second page is hidden.  As long as changes
\* have overlapped at most once, those under way leave the same page, which the
\* first of them has found shown and the other one hidden.
PagesInv ==
  /\ phase # "ready" => hidden[Page2]
  /\ overlaps <= 1 =>
       /\ hidden[Page1] \/ hidden[Page2]
       /\ \A r, q \in Changing : r.page = q.page
       /\ \A r \in Changing : r.step = "show" => hidden[r.page]
       /\ overlaps = 0 => \A r, q \in Changing : r = q /\ hidden[Other(r.page)]

\* No change is under way before.
LEMMA NoEarlyChange ==
  ASSUME IInv, phase # "ready"
  PROVE  Changing = {}
BY ChangesWhenReady DEF IInv, ChangeInv, Changing

LEMMA PagesStay ==
  ASSUME IInv, PagesInv, UNCHANGED <<hidden, overlaps>>, Changing' \subseteq Changing,
         phase = "ready" => phase' = "ready"
  PROVE  PagesInv'
BY DEF PagesInv

\* What a request that goes on has besides its step
LEMMA Goes ==
  ASSUME IInv, NEW r \in requests, NEW step \in {"serve", "hide", "show"}, Becomes(r, step)
  PROVE  \A q \in Changing' : q \in Changing \ {r} \/ (q.page = r.page /\ q.step = step)
<1>1. r \in Requests
  BY DEF IInv, TypeOK, Requests
<1>2. [r EXCEPT !.step = step].page = r.page /\ [r EXCEPT !.step = step].step = step
  BY <1>1 DEF Requests
<1> QED
  BY <1>2 DEF Becomes, Changing

LEMMA PagesServer ==
  ASSUME IInv, PagesInv, Start \/ CreateContent \/ AssignTop \/ Dies
  PROVE  PagesInv'
<1>1. CASE Start \/ AssignTop
  <2>1. UNCHANGED <<hidden, overlaps, requests>> /\ phase # "ready"
    BY <1>1 DEF Start, AssignTop, history
  <2>2. Changing' = Changing
    BY <2>1 DEF Changing
  <2> QED
    BY <2>1, <2>2, PagesStay
<1>2. CASE CreateContent
  <2> DEFINE next == Creators[Cardinality(registered) + 1]
  <2>1. next \in Contents
    <3>1. Cardinality(registered) + 1 \in DOMAIN Creators
      BY <1>2, NextCreator DEF CreateContent, IInv, TypeOK
    <3> QED
      BY <3>1 DEF Contents
  <2>2. Page2 \notin Visible
    BY ConstantsAssumption DEF Pages
  <2>3. /\ hidden' = [hidden EXCEPT ![next] = next \notin Visible]
        /\ UNCHANGED <<requests, overlaps>> /\ phase # "ready"
    BY <1>2 DEF CreateContent, history
  <2> HIDE DEF next
  <2>4. hidden'[Page2]
    BY <2>1, <2>2, <2>3, PageFacts DEF IInv, TypeOK, PagesInv
  <2>5. Changing' = {}
    BY <2>3, NoEarlyChange DEF Changing
  <2> QED
    BY <2>4, <2>5 DEF PagesInv
<1>3. CASE Dies
  <2>1. hidden'[Page2] /\ Changing' = {}
    BY <1>3, PageFacts DEF Dies, Changing
  <2> QED
    BY <2>1 DEF PagesInv
<1> QED
  BY <1>1, <1>2, <1>3

\* Requests that are sent, authorized or answered
LEMMA PagesRequests ==
  ASSUME IInv, PagesInv, NEW b \in Browsers,
         \/ Load(b) \/ LogIn(b) \/ Refresh(b) \/ Press(b) \/ Elsewhere(b)
         \/ \E r \in requests : Authorize(r) \/ ServePage(r) \/ NotRouted(r) \/ LogOut(r)
  PROVE  PagesInv'
<1>1. UNCHANGED <<hidden, overlaps, phase>>
  BY DEF Load, LogIn, Refresh, Send, Press, Elsewhere, Authorize, ServePage, NotRouted,
         LogOut, server, history
<1>2. Changing' \subseteq Changing
  <2>1. CASE \E k, page, nr : requests' = requests \cup {Request(b, k, page, nr)}
    BY <2>1 DEF Changing, Request
  <2>2. CASE requests' \subseteq requests
    BY <2>2 DEF Changing
  <2>3. CASE \E r \in requests : Becomes(r, "serve")
    <3>1. PICK r \in requests : Becomes(r, "serve")
      BY <2>3
    <3>2. \A q \in Changing' : q \in Changing \ {r} \/ (q.page = r.page /\ q.step = "serve")
      BY <3>1, Goes
    <3>3. \A q \in Changing' : q.step # "serve"
      BY DEF Changing
    <3> QED
      BY <3>2, <3>3
  <2> QED
    BY <2>1, <2>2, <2>3
       DEF Load, LogIn, Refresh, Send, Press, Elsewhere, Authorize, ServePage, NotRouted,
           LogOut, Ends
<1> QED
  BY <1>1, <1>2, PagesStay

\* A change begins: its page is shown, so that the other is not.
LEMMA PagesChange ==
  ASSUME IInv, PagesInv, NEW r \in requests, Change(r)
  PROVE  PagesInv'
<1>1. UNCHANGED <<hidden, phase>> /\ overlaps \in Nat /\ r.page \in Pages /\ phase = "ready"
  BY ChangesWhenReady DEF Change, server, IInv, TypeOK, IsRouted, IsOurs
<1>2. CASE ~IsShown(r.page)
  <2>1. Changing' \subseteq Changing /\ overlaps' = overlaps
    BY <1>2 DEF Change, Ends, Changing
  <2> QED
    BY <1>1, <2>1, PagesStay
<1>3. CASE IsShown(r.page)
  <2>1. /\ Becomes(r, "hide") /\ ~hidden[r.page]
        /\ overlaps' = overlaps + (IF Changing = {} THEN 0 ELSE 1)
    BY <1>3 DEF Change, IsShown
  <2>2. \A q \in Changing' : q \in Changing \/ (q.page = r.page /\ q.step = "hide")
    BY <2>1, Goes
  <2>3. CASE Changing = {}
    <3>1. \A q \in Changing' : q = [r EXCEPT !.step = "hide"]
      BY <2>1, <2>3 DEF Becomes, Changing
    <3>2. overlaps' <= 1 => hidden[Other(r.page)]
      BY <1>1, <2>1, <2>3, PageFacts DEF PagesInv, Pages, Other
    <3> QED
      BY <1>1, <2>1, <2>2, <2>3, <3>1, <3>2 DEF PagesInv
  <2>4. CASE Changing # {}
    <3>1. overlaps' = overlaps + 1 /\ overlaps' # 0
      BY <1>1, <2>1, <2>4
    <3>2. overlaps' <= 1 => \A q \in Changing : hidden[Other(q.page)] /\ q.page = r.page
      <4>1. SUFFICES ASSUME overlaps' <= 1, NEW q \in Changing
                     PROVE  hidden[Other(q.page)] /\ q.page = r.page
        OBVIOUS
      <4>2. overlaps = 0
        BY <1>1, <3>1, <4>1
      <4>3. q.page \in Pages
        BY DEF Changing, IInv, TypeOK
      <4> QED
        BY <1>1, <2>1, <4>2, <4>3, PageFacts DEF PagesInv, Pages, Other
    <3> QED
      BY <1>1, <2>2, <3>1, <3>2 DEF PagesInv
  <2> QED
    BY <2>3, <2>4
<1> QED
  BY <1>2, <1>3

LEMMA PagesHide ==
  ASSUME IInv, PagesInv, NEW r \in requests, Hide(r)
  PROVE  PagesInv'
<1>1. /\ hidden' = [hidden EXCEPT ![r.page] = TRUE] /\ Becomes(r, "show")
      /\ UNCHANGED <<phase, overlaps>> /\ r \in Changing
  BY DEF Hide, history, Changing
<1>2. /\ \A q \in Changing' : q \in Changing \ {r} \/ (q.page = r.page /\ q.step = "show")
      /\ \A q \in Changing' : q \in Changing \ {r} \/ q = [r EXCEPT !.step = "show"]
  BY <1>1, Goes DEF Becomes, Changing
<1>3. r.page \in Contents /\ hidden \in [Contents -> BOOLEAN]
  BY ConstantsAssumption DEF IInv, TypeOK
<1>4. \A c \in Contents : hidden[c] => hidden'[c]
  BY <1>1, <1>3
<1>5. hidden'[r.page] /\ \A q \in Changing : Other(q.page) \in Contents /\ q.page \in Contents
  BY <1>1, <1>3, PageFacts, ConstantsAssumption DEF Changing, IInv, TypeOK
<1> QED
  BY <1>1, <1>2, <1>4, <1>5, PageFacts DEF PagesInv

LEMMA PagesShow ==
  ASSUME IInv, PagesInv, NEW r \in requests, Show(r)
  PROVE  PagesInv'
<1>1. /\ hidden' = [hidden EXCEPT ![Other(r.page)] = FALSE] /\ Ends(r)
      /\ UNCHANGED <<phase, overlaps>> /\ r \in Changing /\ r.step = "show" /\ phase = "ready"
  BY ChangesWhenReady DEF Show, history, Changing, IInv, ChangeInv
<1>2. Changing' = Changing \ {r}
  BY <1>1 DEF Changing, Ends
<1>3. r.page \in Pages /\ r.page # Other(r.page) /\ hidden \in [Contents -> BOOLEAN]
  BY PageFacts DEF IInv, TypeOK, Pages, Other
<1>4. SUFFICES ASSUME overlaps <= 1
               PROVE  PagesInv'
  BY <1>1 DEF PagesInv
<1>5. hidden'[r.page]
  BY <1>1, <1>3, <1>4 DEF PagesInv
<1>6. \A q \in Changing : q.page = r.page
  BY <1>1, <1>4 DEF PagesInv
<1>7. overlaps = 0 => Changing' = {}
  BY <1>1, <1>2, <1>4 DEF PagesInv
<1> QED
  BY <1>1, <1>2, <1>3, <1>5, <1>6, <1>7 DEF PagesInv, Pages

LEMMA PagesStep == ASSUME IInv, PagesInv, [Next]_vars PROVE PagesInv'
<1>1. CASE Start \/ CreateContent \/ AssignTop \/ Stop
  BY <1>1, PagesServer DEF Stop
<1>2. ASSUME NEW b \in Browsers, Handle(b)
      PROVE  PagesInv'
  <2>1. PICK r \in requests :
          \/ Authorize(r) \/ ServePage(r) \/ UsedTooEarly(r) \/ NotRouted(r)
          \/ Change(r) \/ Hide(r) \/ Show(r) \/ LogOut(r)
    BY <1>2 DEF Handle
  <2> QED
    BY <2>1, PagesRequests, PagesServer, PagesChange, PagesHide, PagesShow DEF UsedTooEarly
<1>3. ASSUME NEW b \in Browsers,
             Load(b) \/ LogIn(b) \/ Refresh(b) \/ Press(b) \/ Elsewhere(b)
      PROVE  PagesInv'
  BY <1>3, PagesRequests
<1>4. CASE UNCHANGED vars
  BY <1>4, PagesStay DEF vars, server, history, Changing
<1> QED
  BY <1>1, <1>2, <1>3, <1>4 DEF Next

\* As long as changes of the page have overlapped at most once, the two pages
\* are never shown together.
THEOREM PagesExclude == Spec => []OnePageShown
<1>1. Init => PagesInv
  BY PageFacts DEF Init, PagesInv, Changing
<1>2. IInv /\ PagesInv /\ [Next]_vars => PagesInv'
  BY PagesStep
<1>3. PagesInv => OnePageShown
  BY DEF PagesInv, OnePageShown, IsShown
<1> QED
  BY <1>1, <1>2, <1>3, Invariance, PTL DEF Spec
=============================================================================
