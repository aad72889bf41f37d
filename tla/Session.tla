-------------------------------- MODULE Session --------------------------------
(***************************************************************************)
(* The session of the browser: the guard before every page, the login by a *)
(* ticket of the central authentication service, the switch of event and   *)
(* the event bar.  The tabs of a browser share localStorage: the token and *)
(* the action to do after the login.                                       *)
(***************************************************************************)
EXTENDS Naturals, FiniteSets

CONSTANTS
  Tabs,
  Events,
  CurrentEvents,  \* what the event of a new session may be
  Retries,        \* retry(5)
  MaxChanges,     \* bound: logins, switches, expiries
  MaxFaults       \* bound: requests that fail by themselves

VARIABLES
  token,       \* id_token
  nextAction,  \* _post_login_action
  tab,         \* of each tab, what its page shows and has under way
  switches,    \* requests of a switch under way
  changes, faults,
  foreign,     \* history: another tab has replaced the token since this
               \* one last asked for the event
  refused      \* history: a request for the event was refused since the
               \* pipeline that asked was created

sessionVars == <<token, nextAction, tab, switches, changes, faults, foreign, refused>>

NoEvent == "no event"
Nothing == "nothing"
Idle == "idle"
Denied == "denied"

\* A token is its event; one that has expired is as good as none.
NoToken == "no token"
Live == Events \cup {NoEvent}

ASSUME SessionAssumption ==
  /\ Events \cap {Idle, Denied, Nothing, NoToken} = {}
  /\ CurrentEvents \subseteq Live
  /\ Retries \in Nat /\ MaxChanges \in Nat /\ MaxFaults \in Nat

\* Addresses: any page, or "/?ticket=..." with a ticket that is still good or
\* was used.
Urls == {"page", "ticket", "used ticket"}
HasTicket(url) == url # "page"

\* view:     outside of the application, waiting for a login's answer, a
\*           page, or login-failed
\* pipeline: currentEvent$ has a source; failures: of it; ask: its request;
\*           last: what it replays
\* bar:      the event bar is not there, follows the pipeline and shows what
\*           it replays, or was left by one that ended
Tab == [view : {"away", "login", "page", "failed"}, url : Urls,
        pipeline : BOOLEAN, failures : 0 .. Retries,
        ask : Events \cup {Idle, Denied}, last : Events \cup {Nothing},
        bar : {"absent", "following", "left"}]

SessionTypeOK ==
  /\ token \in Live \cup {NoToken}
  /\ nextAction \in {"page", "ticket", Nothing}
  /\ tab \in [Tabs -> Tab]
  /\ switches \subseteq [tab : Tabs, to : Live]
  /\ changes \in 0 .. MaxChanges /\ faults \in 0 .. MaxFaults
  /\ foreign \in [Tabs -> BOOLEAN] /\ refused \in [Tabs -> BOOLEAN]

\* A tab without anything of the page before.
Blank(view, url) ==
  [view |-> view, url |-> url, pipeline |-> FALSE, failures |-> 0, ask |-> Idle,
   last |-> Nothing, bar |-> "absent"]

\* localStorage may hold the token of an earlier visit.
SessionInit ==
  /\ token \in CurrentEvents \cup {NoToken}
  /\ nextAction = Nothing
  /\ tab = [t \in Tabs |-> Blank("away", "page")]
  /\ switches = {}
  /\ changes = 0 /\ faults = 0
  /\ foreign = [t \in Tabs |-> FALSE] /\ refused = [t \in Tabs |-> FALSE]

OfTab(t) == {s \in switches : s.tab = t}

----------------------------------------------------------------------------
\* GET /events/current, with the token of this moment: there is no current
\* event in a session without one, 404, and none without a session.
AskWith(tk) == IF tk \in Events THEN tk ELSE Denied

Asking(page, tk) == [page EXCEPT !.ask = AskWith(tk)]

\* Someone subscribes to currentEvent$.
Start(page, tk) ==
  IF page.pipeline THEN page
  ELSE Asking([page EXCEPT !.pipeline = TRUE, !.failures = 0, !.last = Nothing], tk)

\* *ngIf="isLoggedIn": the bar subscribes, and shows what is replayed.
WithBar(page, tk) == [Start(page, tk) EXCEPT !.bar = "following"]

----------------------------------------------------------------------------
\* The guard and the login.

storeNextAction(url) == nextAction' = IF HasTicket(url) THEN "ticket" ELSE "page"

loadNextAction == nextAction' = Nothing

\* The histories of a tab whose page is unloaded, and its requests.
Forget(t) ==
  /\ switches' = switches \ OfTab(t)
  /\ foreign' = [foreign EXCEPT ![t] = FALSE]
  /\ refused' = [refused EXCEPT ![t] = FALSE]

\* canActivate, for a page that is loaded: with no session, an address with a
\* ticket asks for a login, and any other leaves for the central service.
Load(t, url) ==
  /\ Forget(t)
  /\ IF token \in Live
     THEN /\ tab' = [tab EXCEPT ![t] = WithBar(Blank("page", url), token)]
          /\ UNCHANGED nextAction
     ELSE /\ storeNextAction(url)
          /\ tab' = [tab EXCEPT ![t] = Blank(IF HasTicket(url) THEN "login" ELSE "away", url)]
  /\ UNCHANGED <<token, changes, faults>>

\* The user opens an address, or reloads the one of the tab.
Open(t) == Load(t, "page")
Reload(t) == tab[t].view # "away" /\ Load(t, tab[t].url)

\* The central service comes back to the origin with a ticket, whatever page
\* was asked for.
ReturnWithTicket(t) ==
  /\ tab[t].view = "away" /\ changes < MaxChanges
  /\ Load(t, "ticket")

\* require-login and logout leave the application.
Unload(t) ==
  /\ Forget(t)
  /\ tab' = [tab EXCEPT ![t] = Blank("away", "page")]

\* A link of the page: the same guard, in the same page.
Navigate(t) ==
  /\ tab[t].view = "page"
  /\ IF token \in Live
     THEN /\ tab' = [tab EXCEPT ![t].url = "page"]
          /\ UNCHANGED <<nextAction, switches, foreign, refused>>
     ELSE /\ storeNextAction("page")
          /\ Unload(t)
  /\ UNCHANGED <<token, changes, faults>>

\* t has replaced the token: the other tabs are not told.
Replaced(t) == [o \in Tabs |-> (o # t /\ tab[o].pipeline) \/ foreign[o]]

\* login: a next action that is none or a ticket's address goes home and
\* reloads; the address that is loaded again may still be the ticket's.
LoggedIn(t) ==
  /\ tab[t].view = "login" /\ tab[t].url = "ticket" /\ changes < MaxChanges
  /\ changes' = changes + 1
  /\ token' \in CurrentEvents
  /\ loadNextAction
  /\ \E url \in {"page", "used ticket"} :
       tab' = [tab EXCEPT ![t] = IF nextAction = "page" THEN [@ EXCEPT !.view = "page", !.url = "page"]
                                 ELSE WithBar(Blank("page", url), token')]
  /\ foreign' = Replaced(t)
  /\ UNCHANGED <<switches, faults, refused>>

\* The ticket was used already, or the request or its answer is lost.
LoginFailed(t) ==
  /\ tab[t].view = "login"
  /\ \/ tab[t].url = "used ticket" /\ UNCHANGED faults
     \/ faults < MaxFaults /\ faults' = faults + 1
  /\ \E url \in {tab[t].url, "used ticket"} :
       tab' = [tab EXCEPT ![t].view = "failed", ![t].url = url]
  /\ UNCHANGED <<token, nextAction, switches, changes, foreign, refused>>

Logout(t) ==
  /\ tab[t].view = "page" /\ token \in Live
  /\ token' = NoToken
  /\ Unload(t)
  /\ UNCHANGED <<nextAction, changes, faults>>

Expire ==
  /\ token \in Live /\ changes < MaxChanges
  /\ changes' = changes + 1
  /\ token' = NoToken
  /\ UNCHANGED <<nextAction, tab, switches, faults, foreign, refused>>

----------------------------------------------------------------------------
\* The current event.

\* A new pipeline is the only thing that asks here.
Started(t) ==
  /\ foreign' = IF tab[t].pipeline THEN foreign ELSE [foreign EXCEPT ![t] = FALSE]
  /\ refused' = IF tab[t].pipeline THEN refused ELSE [refused EXCEPT ![t] = FALSE]

\* Another tab, or this one without a reload, has logged in.
BarAppears(t) ==
  /\ tab[t].view = "page" /\ tab[t].bar = "absent" /\ token \in Live
  /\ tab' = [tab EXCEPT ![t] = WithBar(@, token)]
  /\ Started(t)
  /\ UNCHANGED <<token, nextAction, switches, changes, faults>>

BarGoes(t) ==
  /\ tab[t].bar # "absent" /\ token = NoToken
  /\ tab' = [tab EXCEPT ![t].bar = "absent"]
  /\ UNCHANGED <<token, nextAction, switches, changes, faults, foreign, refused>>

\* A page or a dialog that needs the event starts an ended pipeline again;
\* the bar does not follow that one.
PageSubscribes(t) ==
  /\ tab[t].view = "page" /\ ~tab[t].pipeline
  /\ tab' = [tab EXCEPT ![t] = Start(@, token)]
  /\ Started(t)
  /\ UNCHANGED <<token, nextAction, switches, changes, faults>>

\* Mutant: no interval.
NoTick(t) == FALSE

\* interval, refreshAll.
TickDue(t) == tab[t].pipeline /\ tab[t].ask = Idle

Tick(t) ==
  /\ TickDue(t)
  /\ tab' = [tab EXCEPT ![t] = Asking(@, token)]
  /\ foreign' = [foreign EXCEPT ![t] = FALSE]
  /\ UNCHANGED <<token, nextAction, switches, changes, faults, refused>>

Answered(t) ==
  /\ tab[t].ask \in Events
  /\ tab' = [tab EXCEPT ![t].ask = Idle, ![t].last = tab[t].ask]
  /\ UNCHANGED <<token, nextAction, switches, changes, faults, foreign, refused>>

\* Mutant: the first error ends the pipeline.
NotAgain(page) == FALSE

\* Mutant: one retry too many.
OnceMore(page) == page.failures <= Retries

\* retry: as many times in all, not in a row.
Again(page) == page.failures < Retries

\* The request is refused, or fails by itself: it is sent again with the
\* token of now, or the error ends the pipeline.
Failed(t) ==
  /\ tab[t].ask # Idle
  /\ \/ tab[t].ask = Denied /\ UNCHANGED faults /\ refused' = [refused EXCEPT ![t] = TRUE]
     \/ faults < MaxFaults /\ faults' = faults + 1 /\ UNCHANGED refused
  /\ IF Again(tab[t])
     THEN /\ tab' = [tab EXCEPT ![t] =
                       Asking([tab[t] EXCEPT !.failures = tab[t].failures + 1], token)]
          /\ foreign' = [foreign EXCEPT ![t] = FALSE]
     ELSE /\ tab' = [tab EXCEPT ![t] =
                       [Blank(@.view, @.url) EXCEPT
                          !.bar = IF tab[t].bar = "absent" THEN "absent" ELSE "left"]]
          /\ foreign' = [foreign EXCEPT ![t] = FALSE]
  /\ UNCHANGED <<token, nextAction, switches, changes>>

----------------------------------------------------------------------------
\* The switch of event.

Switch(t) ==
  /\ tab[t].bar # "absent" /\ token \in Live
  /\ changes < MaxChanges /\ changes' = changes + 1
  /\ \E event \in Live :
       switches' = switches \cup {[tab |-> t, to |-> event]}
  /\ UNCHANGED <<token, nextAction, tab, faults, foreign, refused>>

\* Mutant: the current event is not asked for again.
NotAskedAgain(page, tk) == page

\* refreshCurrent$: nobody hears it when there is no pipeline.
AskedAgain(page, tk) == IF page.pipeline THEN Asking(page, tk) ELSE page

\* changeToken, then refreshCurrent$.  Switches may be answered in any order,
\* and after the session was left: the token they bring is stored all the same.
Switched(s) ==
  /\ s \in switches /\ switches' = switches \ {s}
  /\ token' = s.to
  /\ tab' = [tab EXCEPT ![s.tab] = AskedAgain(@, token')]
  /\ foreign' = [Replaced(s.tab) EXCEPT ![s.tab] = FALSE]
  /\ UNCHANGED <<nextAction, changes, faults, refused>>

SwitchFails(s) ==
  /\ s \in switches /\ faults < MaxFaults
  /\ switches' = switches \ {s} /\ faults' = faults + 1
  /\ UNCHANGED <<token, nextAction, tab, changes, foreign, refused>>

----------------------------------------------------------------------------

OfATab(t) ==
  \/ Open(t) \/ Reload(t) \/ ReturnWithTicket(t) \/ Navigate(t)
  \/ LoggedIn(t) \/ LoginFailed(t) \/ Logout(t)
  \/ BarAppears(t) \/ BarGoes(t) \/ PageSubscribes(t)
  \/ Tick(t) \/ Answered(t) \/ Failed(t) \/ Switch(t)

SessionNext ==
  \/ \E t \in Tabs : OfATab(t)
  \/ Expire
  \/ \E s \in switches : Switched(s) \/ SwitchFails(s)

\* The timer fires and requests are answered.
SessionFairness ==
  \A t \in Tabs : WF_sessionVars(Tick(t)) /\ WF_sessionVars(Answered(t) \/ Failed(t))

SessionSpec == SessionInit /\ [][SessionNext]_sessionVars /\ SessionFairness

----------------------------------------------------------------------------
\* Properties.

Following(t) == tab[t].bar = "following" /\ token \in Live

\* The bar shows the event the requests of the tab are made for, unless it
\* was switched in another tab since, or nothing tells the bar any more.
ShownIsSession ==
  \A t \in Tabs :
     Following(t) /\ tab[t].ask = Idle /\ ~foreign[t] => tab[t].last = token

\* No more failures of the network than there are retries leave the bar
\* behind: what does is a request that is refused, as every request is in a
\* session out of any event, which the menu of the bar offers.
FaultsEndNothing == \A t \in Tabs : tab[t].bar = "left" => refused[t] \/ tab[t].pipeline

\* Whichever tab switched to an event, a bar that follows comes to show it.
ShownAgain ==
  \A t \in Tabs : []<>(Following(t) /\ token \in Events => tab[t].last = token)
=============================================================================
