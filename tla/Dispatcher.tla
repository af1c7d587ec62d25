---------------------------- MODULE Dispatcher ----------------------------
(***************************************************************************)
(* The Dispatcher (engine/dispatcher.cpp) apart from updates: its start    *)
(* and end with the contents it owns (webtop.cpp), the sessions, the       *)
(* routing of requests to contents, and two pages of brewApp that hide     *)
(* each other.  Browsers run dispatcher.js; the server may be stopped and  *)
(* started again, and then is another instance with another context.       *)
(*                                                                         *)
(* Requests are in `requests' from when a browser sends them until they    *)
(* are answered; the queue and the threads are in SharedQueue and          *)
(* ServerPool, what an answer shows and answers that are late in LivePage: *)
(* here an answer arrives when it is written.  One that is lost with the   *)
(* server is a request that is lost just before.                           *)
(***************************************************************************)
EXTENDS Integers, Sequences, FiniteSets

CONSTANTS Browsers, SessionOf,   \* the session in the cookie of a browser
          Creators,              \* contentCreators, in the order of registration
          Visible,               \* the contents registered as visible
          Page1, Page2,          \* BREWINGPAGE, FERMENTINGPAGE
          Password,              \* whether there is one
          MaxInstances, MaxEvents   \* bounds

Contents == {Creators[k] : k \in DOMAIN Creators}
Pages    == {Page1, Page2}
Sessions == {SessionOf[b] : b \in Browsers}

ASSUME ConstantsAssumption ==
  /\ Page1 # Page2 /\ Pages \subseteq Contents /\ Pages \cap Visible = {Page1}
  /\ Creators \in Seq(Contents)
  /\ Password \in BOOLEAN
  /\ MaxInstances \in Nat /\ MaxEvents \in Nat

Other(page) == IF page = Page1 THEN Page2 ELSE Page1

VARIABLES
  instance,     \* _contextId: 0 before the first start, then another with each
  phase,        \* of mainLoop: "down", "creating", "created", "ready"
  registered,   \* _map
  hidden,       \* _hidden of the contents registered
  authorized,   \* _authorizedSessions
  requests,     \* under way
  tab,          \* what a browser shows, its contextId (0: its own random
                \* number), and whether it waits for an answer
  nrEvents,     \* buttons pressed, and logins and logouts elsewhere, so far
  overlaps      \* history: page changes that began during others

server  == <<instance, phase, registered, hidden>>
history == <<nrEvents, overlaps>>
vars == <<server, authorized, requests, tab, history>>

\* A request: kind is "page", "login" (the page, with the password),
\* "refresh", "change" or "logout"; step is what is done next; nr tells
\* callbacks apart.
Request(b, kind, page, nr) ==
  [browser |-> b, kind |-> kind, page |-> page, nr |-> nr,
   context |-> tab[b].context, step |-> "authorize"]

Init ==
  /\ instance = 0
  /\ phase = "down"
  /\ registered = {}
  /\ hidden = [c \in Contents |-> TRUE]
  /\ authorized = {}
  /\ requests = {}
  /\ tab = [b \in Browsers |-> [shows |-> "nothing", context |-> 0, waits |-> FALSE]]
  /\ nrEvents = 0
  /\ overlaps = 0

-----------------------------------------------------------------------------
(* Start and end of the server.                                            *)

\* A new process: rand() gives another context, the sessions are forgotten.
Start ==
  /\ phase = "down" /\ instance < MaxInstances
  /\ instance' = instance + 1
  /\ phase' = "creating"
  /\ UNCHANGED <<registered, hidden, authorized, requests, tab, history>>

\* The constructor of WebTop: the next content is attached and shown or hidden.
CreateContent ==
  /\ phase = "creating" /\ registered # Contents
  /\ LET next == Creators[Cardinality(registered) + 1]
     IN /\ registered' = registered \cup {next}
        /\ hidden' = [hidden EXCEPT ![next] = next \notin Visible]
  /\ UNCHANGED <<instance, phase, authorized, requests, tab, history>>

\* _webTop is assigned when its constructor is done, then _renderingTop.
AssignTop ==
  /\ \/ phase = "creating" /\ registered = Contents /\ phase' = "created"
     \/ phase = "created" /\ phase' = "ready"
  /\ UNCHANGED <<instance, registered, hidden, authorized, requests, tab, history>>

\* The end of the process: what has not been answered is lost.  The browser
\* shows an error instead of a page; a refresh will be sent again.
Dies ==
  /\ phase' = "down"
  /\ registered' = {}
  /\ hidden' = [c \in Contents |-> TRUE]
  /\ authorized' = {}
  /\ requests' = {}
  /\ LET Loses(b) == \E r \in requests : r.browser = b /\ r.kind \in {"page", "login"}
     IN tab' = [b \in Browsers |->
                  [tab[b] EXCEPT !.shows = IF Loses(b) THEN "nothing" ELSE @,
                                 !.waits = FALSE]]
  /\ UNCHANGED <<instance, history>>

Stop == phase # "down" /\ Dies

-----------------------------------------------------------------------------
(* Browsers.                                                               *)

Send(b, kind) ==
  /\ phase # "down"
  /\ ~tab[b].waits
  /\ requests' = requests \cup {Request(b, kind, Page1, 0)}
  /\ tab' = [tab EXCEPT ![b].waits = TRUE]
  /\ UNCHANGED <<server, authorized, history>>

\* The user opens the page, or tries a wrong password.
Load(b) == tab[b].shows \in {"nothing", "login"} /\ Send(b, "page")

LogIn(b) == tab[b].shows = "login" /\ Send(b, "login")

\* updateFromDispatcher, by its timers
Refresh(b) == tab[b].shows = "contents" /\ Send(b, "refresh")

\* A button of either page: the one shown when the browser was last updated,
\* which may be long ago.  Buttons come with the first update.
Press(b) ==
  /\ phase # "down"
  /\ tab[b].shows = "contents" /\ tab[b].context # 0
  /\ nrEvents < MaxEvents
  /\ nrEvents' = nrEvents + 1
  /\ \E kind \in {"change", "logout"}, page \in Pages :
       requests' = requests \cup {Request(b, kind, page, nrEvents + 1)}
  /\ UNCHANGED <<server, authorized, tab, overlaps>>

\* Another window with the same cookie logs in or out: any request may bring
\* the password, also one that is served long after, when all is ready.
Elsewhere(b) ==
  /\ phase # "down"
  /\ nrEvents < MaxEvents
  /\ nrEvents' = nrEvents + 1
  /\ authorized' \in {authorized \cup {SessionOf[b]}, authorized \ {SessionOf[b]}}
  /\ UNCHANGED <<server, requests, tab, overlaps>>

-----------------------------------------------------------------------------
(* processWeb.                                                             *)

Becomes(r, step) == requests' = (requests \ {r}) \cup {[r EXCEPT !.step = step]}
Ends(r) == requests' = requests \ {r}

\* The answer to r is a new page, or an update of the page.
Shows(r, what) ==
  tab' = [tab EXCEPT ![r.browser] = [shows |-> what, context |-> 0, waits |-> FALSE]]

\* mutants: another context is told, or none
Updates_NextContext(r) ==
  tab' = [tab EXCEPT ![r.browser].context = instance + 1, ![r.browser].waits = FALSE]
Updates_NoContext(r) == tab' = [tab EXCEPT ![r.browser].waits = FALSE]

\* It tells the context of the server.
Updates(r) ==
  tab' = [tab EXCEPT ![r.browser].context = instance, ![r.browser].waits = FALSE]

\* mutant: the form is the answer to a refresh too, and does nothing
Refused_Form(r) ==
  \/ r.kind = "page" /\ Shows(r, "login")
  \/ r.kind = "refresh" /\ tab' = [tab EXCEPT ![r.browser].waits = FALSE]
  \/ r.kind \in {"change", "logout"} /\ UNCHANGED tab

\* A session that is not authorized gets the form, or a script that leads
\* there.  As the answer to a callback the form does nothing.
Refused(r) ==
  \/ r.kind = "page" /\ Shows(r, "login")
  \/ r.kind = "refresh" /\ Shows(r, "nothing")
  \/ r.kind \in {"change", "logout"} /\ UNCHANGED tab

\* The authorization, with the lock of _authorizedSessions, of which a
\* session becomes a member when it brings the password.
Authorize(r) ==
  LET session == SessionOf[r.browser]
      allowed == ~Password \/ session \in authorized
  IN /\ r.step = "authorize"
     /\ \/ allowed /\ Becomes(r, "serve") /\ UNCHANGED <<authorized, tab>>
        \/ /\ ~allowed /\ r.kind = "login"
           /\ authorized' = authorized \cup {session}
           /\ Becomes(r, "serve") /\ UNCHANGED tab
        \/ ~allowed /\ r.kind # "login" /\ Refused(r) /\ Ends(r) /\ UNCHANGED authorized
     /\ UNCHANGED <<server, history>>

\* "/" and dispatch_refresh.js use _renderingTop and _webTop.
ServePage(r) ==
  /\ r.step = "serve" /\ r.kind \in {"page", "login", "refresh"}
  /\ phase = "ready"
  /\ IF r.kind = "refresh" THEN Updates(r) ELSE Shows(r, "contents")
  /\ Ends(r)
  /\ UNCHANGED <<server, authorized, history>>

\* Before these are assigned, they are NULL.
UsedTooEarly(r) ==
  /\ r.step = "serve" /\ r.kind \in {"page", "login", "refresh"}
  /\ phase # "ready"
  /\ Dies

\* mutant: callbacks of any context
IsOurs_Any(r) == TRUE

\* dispatch_callback.js: "otherwise the callback comes from different server
\* instance"
IsOurs(r) == r.context = instance

\* dispatchCallback looks for the owner.
IsRouted(r) == /\ r.step = "serve" /\ r.kind \in {"change", "logout"}
               /\ IsOurs(r) /\ r.page \in registered

NotRouted(r) ==
  /\ r.step = "serve" /\ r.kind \in {"change", "logout"} /\ ~IsRouted(r)
  /\ Ends(r)
  /\ UNCHANGED <<server, authorized, tab, history>>

-----------------------------------------------------------------------------
(* BrewingPage::callback and FermentingPage::callback.                     *)

Changing == {r \in requests : r.step \in {"hide", "show"}}

\* "protect against delayed callbacks"
IsShown(page) == ~hidden[page]

\* mutant: also when the page is hidden
Change_Delayed(r) ==
  /\ IsRouted(r) /\ r.kind = "change"
  /\ Becomes(r, "hide") /\ overlaps' = overlaps + (IF Changing = {} THEN 0 ELSE 1)
  /\ UNCHANGED <<server, authorized, tab, nrEvents>>

Change(r) ==
  /\ IsRouted(r) /\ r.kind = "change"
  /\ IF IsShown(r.page)
     THEN Becomes(r, "hide") /\ overlaps' = overlaps + (IF Changing = {} THEN 0 ELSE 1)
     ELSE Ends(r) /\ UNCHANGED overlaps
  /\ UNCHANGED <<server, authorized, tab, nrEvents>>

Hide(r) ==
  /\ r.step = "hide"
  /\ hidden' = [hidden EXCEPT ![r.page] = TRUE]
  /\ Becomes(r, "show")
  /\ UNCHANGED <<instance, phase, registered, authorized, tab, history>>

\* mutant: what was hidden is shown, what was shown is hidden
Show_Toggle(r) ==
  /\ r.step = "show"
  /\ hidden' = [hidden EXCEPT ![Other(r.page)] = ~@]
  /\ Ends(r)
  /\ UNCHANGED <<instance, phase, registered, authorized, tab, history>>

Show(r) ==
  /\ r.step = "show"
  /\ hidden' = [hidden EXCEPT ![Other(r.page)] = FALSE]
  /\ Ends(r)
  /\ UNCHANGED <<instance, phase, registered, authorized, tab, history>>

\* Dispatcher::logout
LogOut(r) ==
  /\ IsRouted(r) /\ r.kind = "logout"
  /\ authorized' = authorized \ {SessionOf[r.browser]}
  /\ Ends(r)
  /\ UNCHANGED <<server, tab, history>>

Handle(b) ==
  \E r \in {q \in requests : q.browser = b} :
     \/ Authorize(r) \/ ServePage(r) \/ UsedTooEarly(r) \/ NotRouted(r)
     \/ Change(r) \/ Hide(r) \/ Show(r) \/ LogOut(r)

Next == \/ Start \/ CreateContent \/ AssignTop \/ Stop
        \/ \E b \in Browsers : Load(b) \/ LogIn(b) \/ Refresh(b) \/ Press(b)
                              \/ Elsewhere(b) \/ Handle(b)

Spec == Init /\ [][Next]_vars

\* Threads run, and a page that has been opened lives on by its timers.  A user
\* opens the page again and logs in again (and, sooner or later, with the right
\* password).  Nothing makes the server stop or start, or users press buttons.
FairSpec ==
  /\ Spec
  /\ WF_vars(CreateContent) /\ WF_vars(AssignTop)
  /\ \A b \in Browsers : /\ WF_vars(Handle(b))
                        /\ WF_vars(Refresh(b))
                        /\ WF_vars(Load(b))
                        /\ SF_vars(LogIn(b))

-----------------------------------------------------------------------------
(* Properties.                                                             *)

TypeOK ==
  /\ instance \in 0..MaxInstances
  /\ phase \in {"down", "creating", "created", "ready"}
  /\ registered \subseteq Contents
  /\ hidden \in [Contents -> BOOLEAN]
  /\ authorized \subseteq Sessions
  /\ requests \subseteq [browser : Browsers,
                        kind : {"page", "login", "refresh", "change", "logout"},
                        page : Pages, nr : 0..MaxEvents,
                        context : 0..MaxInstances, step : {"authorize", "serve", "hide", "show"}]
  /\ tab \in [Browsers -> [shows : {"nothing", "login", "contents"},
                           context : 0..MaxInstances, waits : BOOLEAN]]
  /\ nrEvents \in 0..MaxEvents /\ overlaps \in Nat

\* A callback runs only when all contents are there to be found
\* (dispatcher()->getContent throws otherwise), although it is looked up in
\* _map without a lock while mainLoop may be filling it: a page learns the
\* context of a server from an update, which needs a server that is complete.
CallbacksFindContents ==
  \A r \in requests : IsRouted(r) \/ r.step \in {"hide", "show"} =>
                      phase = "ready" /\ registered = Contents

\* However the callbacks of many users overlap, the two pages never stay hidden
\* both, with no button left to get out of it.
SomePageShown ==
  registered = Contents /\ Changing = {} => \E page \in Pages : IsShown(page)

\* The pages exclude each other, even when two changes of the page overlap: the
\* second finds its page hidden, or does the same again.  (With three, one
\* that is late may show a page the others have left: both are shown, until
\* somebody changes the page again.)
OnePageShown ==
  registered = Contents /\ Changing = {} /\ overlaps <= 1 =>
    ~(IsShown(Page1) /\ IsShown(Page2))

\* The pages of a session that has logged out (in another window, or because
\* the server was started again) disappear: their next refresh is answered
\* with the way to the form.
LoggedOutPagesLeave ==
  \A b \in Browsers :
    LET allowed == ~Password \/ SessionOf[b] \in authorized
    IN (phase = "ready" /\ tab[b].shows = "contents" /\ ~allowed)
         ~> (phase # "ready" \/ tab[b].shows # "contents" \/ allowed)

\* When the server stays up, every browser comes back to its contents and learns
\* the server's context, so that its buttons work: whatever it showed before,
\* and whatever was lost with the server before.
ComesBack ==
  \A b \in Browsers :
    <>[](phase = "ready") =>
      []<>(tab[b].shows = "contents" /\ tab[b].context = instance)
=============================================================================
