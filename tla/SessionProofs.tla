---------------------------- MODULE SessionProofs ----------------------------
(***************************************************************************)
(* Theorems about Session, for every set of tabs and events, every number  *)
(* of retries and every bound: what the event bar shows is the event of    *)
(* the session, and failures of the network alone do not leave it behind.  *)
(***************************************************************************)
EXTENDS Session, TLAPS

Views == {"away", "login", "page", "failed"}

\* What is true of one tab, whose histories are f and r, when the token is tk
\* and n faults have happened.
PageOK(page, tk, f, r, n) ==
  /\ page.bar = "following" => page.pipeline
  /\ page.view # "page" => ~page.pipeline /\ page.bar = "absent"
  /\ page.pipeline /\ tk \in Live /\ ~f =>
       IF page.ask = Idle THEN page.last = tk ELSE page.ask = AskWith(tk)
  /\ page.pipeline /\ ~r => page.failures <= n
  /\ MaxFaults <= Retries /\ page.bar = "left" => r \/ page.pipeline

PageInv == \A t \in Tabs : PageOK(tab[t], token, foreign[t], refused[t], faults)

----------------------------------------------------------------------------
\* The operators that make the page of a tab.

LEMMA AskWithFacts ==
  ASSUME NEW tk
  PROVE  /\ AskWith(tk) \in Events \cup {Denied} /\ AskWith(tk) # Idle
         /\ AskWith(tk) \in Events => tk = AskWith(tk)
BY SessionAssumption DEF AskWith, Idle, Denied

LEMMA BlankPage ==
  ASSUME NEW view \in Views, NEW url \in Urls
  PROVE  /\ Blank(view, url) \in Tab
         /\ Blank(view, url).view = view /\ Blank(view, url).url = url
         /\ Blank(view, url).bar = "absent" /\ Blank(view, url).pipeline = FALSE
BY SessionAssumption DEF Blank, Tab, Views

LEMMA AskingPage ==
  ASSUME NEW page \in Tab, NEW tk
  PROVE  /\ Asking(page, tk) \in Tab
         /\ Asking(page, tk).ask = AskWith(tk)
         /\ Asking(page, tk).view = page.view /\ Asking(page, tk).bar = page.bar
         /\ Asking(page, tk).pipeline = page.pipeline
         /\ Asking(page, tk).failures = page.failures
BY AskWithFacts DEF Asking, Tab

LEMMA StartPage ==
  ASSUME NEW page \in Tab, NEW tk
  PROVE  /\ Start(page, tk) \in Tab
         /\ Start(page, tk).pipeline
         /\ Start(page, tk).view = page.view /\ Start(page, tk).bar = page.bar
         /\ page.pipeline => Start(page, tk) = page
         /\ ~page.pipeline => Start(page, tk).failures = 0 /\ Start(page, tk).ask = AskWith(tk)
<1>1. CASE page.pipeline
  BY <1>1 DEF Start
<1>2. CASE ~page.pipeline
  <2> DEFINE fresh == [page EXCEPT !.pipeline = TRUE, !.failures = 0, !.last = Nothing]
  <2>1. /\ fresh \in Tab /\ fresh.pipeline /\ fresh.failures = 0
        /\ fresh.view = page.view /\ fresh.bar = page.bar
    <3>1. 0 \in 0 .. Retries
      BY SessionAssumption
    <3>2. fresh \in Tab
      BY <3>1 DEF Tab
    <3> QED
      BY <3>2 DEF Tab
  <2>2. Start(page, tk) = Asking(fresh, tk)
    BY <1>2 DEF Start
  <2> HIDE DEF fresh
  <2> QED
    BY <1>2, <2>1, <2>2, AskingPage
<1> QED
  BY <1>1, <1>2

LEMMA WithBarPage ==
  ASSUME NEW page \in Tab, NEW tk
  PROVE  /\ WithBar(page, tk) \in Tab
         /\ WithBar(page, tk).bar = "following"
         /\ WithBar(page, tk).view = page.view
         /\ WithBar(page, tk).pipeline
         /\ WithBar(page, tk).ask = Start(page, tk).ask
         /\ WithBar(page, tk).last = Start(page, tk).last
         /\ WithBar(page, tk).failures = Start(page, tk).failures
<1>1. Start(page, tk) \in Tab /\ Start(page, tk).pipeline /\ Start(page, tk).view = page.view
  BY StartPage
<1> QED
  BY <1>1 DEF WithBar, Tab

----------------------------------------------------------------------------
\* What they keep true of it.

LEMMA BlankOK ==
  ASSUME NEW view \in Views, NEW url \in Urls, NEW tk, NEW f, NEW r, NEW n
  PROVE  PageOK(Blank(view, url), tk, f, r, n)
BY BlankPage DEF PageOK

LEMMA AskingOK ==
  ASSUME NEW page \in Tab, NEW tk, NEW f, NEW r, NEW n, PageOK(page, tk, f, r, n),
         NEW tk2, NEW f2
  PROVE  PageOK(Asking(page, tk2), tk2, f2, r, n)
BY AskingPage, AskWithFacts DEF PageOK

LEMMA StartOK ==
  ASSUME NEW page \in Tab, NEW tk, NEW f, NEW r, NEW n \in Nat, PageOK(page, tk, f, r, n),
         page.view = "page", NEW f2, NEW r2,
         page.pipeline => f2 = f /\ r2 = r
  PROVE  /\ PageOK(Start(page, tk), tk, f2, r2, n)
         /\ PageOK(WithBar(page, tk), tk, f2, r2, n)
<1>1. CASE page.pipeline
  <2>1. Start(page, tk) = page
    BY <1>1, StartPage
  <2> QED
    BY <1>1, <2>1, WithBarPage DEF PageOK
<1>2. CASE ~page.pipeline
  BY <1>2, StartPage, WithBarPage, AskWithFacts DEF PageOK
<1> QED
  BY <1>1, <1>2

\* A tab that nothing happens to, when another has the token replaced.
LEMMA OtherOK ==
  ASSUME NEW page \in Tab, NEW tk, NEW f, NEW r, NEW n \in Nat, PageOK(page, tk, f, r, n),
         NEW tk2, NEW f2, NEW n2 \in Nat, n <= n2,
         (tk2 = tk /\ f2 = f) \/ tk2 \notin Live \/ (page.pipeline => f2)
  PROVE  PageOK(page, tk2, f2, r, n2)
<1>1. page.failures \in Nat
  BY SessionAssumption DEF Tab
<1> QED
  BY <1>1 DEF PageOK

----------------------------------------------------------------------------
\* The steps.

\* Something happens to the tab t, and the others may lose the token.
LEMMA OneTab ==
  ASSUME SessionTypeOK, PageInv, NEW t \in Tabs, NEW page \in Tab,
         tab' = [tab EXCEPT ![t] = page],
         PageOK(page, token', foreign'[t], refused'[t], faults'),
         \A o \in Tabs : o # t =>
           /\ refused'[o] = refused[o]
           /\ \/ token' = token /\ foreign'[o] = foreign[o]
              \/ token' \notin Live
              \/ tab[o].pipeline => foreign'[o],
         faults' \in {faults, faults + 1}
  PROVE  PageInv' /\ tab' \in [Tabs -> Tab]
<1>1. tab' \in [Tabs -> Tab]
  BY DEF SessionTypeOK
<1>2. faults \in Nat /\ faults' \in Nat /\ faults <= faults'
  BY DEF SessionTypeOK
<1>3. ASSUME NEW o \in Tabs
      PROVE  PageOK(tab'[o], token', foreign'[o], refused'[o], faults')
  <2>1. CASE o = t
    <3>1. tab'[o] = page
      BY <2>1 DEF SessionTypeOK
    <3> QED
      BY <2>1, <3>1
  <2>2. CASE o # t
    <3>1. tab'[o] = tab[o] /\ tab[o] \in Tab
      BY <2>2 DEF SessionTypeOK
    <3>2. PageOK(tab[o], token, foreign[o], refused[o], faults)
      BY DEF PageInv
    <3>3. refused'[o] = refused[o]
      BY <2>2
    <3>4. PageOK(tab[o], token', foreign'[o], refused[o], faults')
      BY <1>2, <2>2, <3>1, <3>2, OtherOK
    <3> QED
      BY <3>1, <3>3, <3>4
  <2> QED
    BY <2>1, <2>2
<1> QED
  BY <1>1, <1>3 DEF PageInv

LEMMA ForgetHistories ==
  ASSUME SessionTypeOK, NEW t \in Tabs, Forget(t)
  PROVE  /\ foreign' \in [Tabs -> BOOLEAN] /\ refused' \in [Tabs -> BOOLEAN]
         /\ switches' \subseteq [tab : Tabs, to : Live]
         /\ \A o \in Tabs : o # t => foreign'[o] = foreign[o] /\ refused'[o] = refused[o]
BY DEF SessionTypeOK, Forget, OfTab

LEMMA LoadStep ==
  ASSUME SessionTypeOK, PageInv, NEW t \in Tabs, NEW url \in Urls, Load(t, url)
  PROVE  SessionTypeOK' /\ PageInv'
<1>1. "page" \in Views /\ "login" \in Views /\ "away" \in Views /\ faults \in Nat
  BY DEF Views, SessionTypeOK
<1>2. PICK page \in Tab :
        /\ tab' = [tab EXCEPT ![t] = page]
        /\ PageOK(page, token, foreign'[t], refused'[t], faults)
  <2>1. CASE token \in Live
    <3> DEFINE blank == Blank("page", url)
    <3>1. blank \in Tab /\ blank.view = "page" /\ ~blank.pipeline
      BY <1>1, BlankPage
    <3>2. PageOK(blank, token, foreign'[t], refused'[t], faults)
      BY <1>1, BlankOK
    <3>3. PageOK(WithBar(blank, token), token, foreign'[t], refused'[t], faults)
      BY <1>1, <3>1, <3>2, StartOK
    <3>4. WithBar(blank, token) \in Tab
      BY <3>1, WithBarPage
    <3>5. tab' = [tab EXCEPT ![t] = WithBar(blank, token)]
      BY <2>1 DEF Load
    <3> HIDE DEF blank
    <3> QED
      BY <3>3, <3>4, <3>5
  <2>2. CASE token \notin Live
    <3>1. PICK view \in Views : tab' = [tab EXCEPT ![t] = Blank(view, url)]
      BY <1>1, <2>2 DEF Load
    <3>2. Blank(view, url) \in Tab
      BY BlankPage
    <3>3. PageOK(Blank(view, url), token, foreign'[t], refused'[t], faults)
      BY BlankOK
    <3> QED
      BY <3>1, <3>2, <3>3
  <2> QED
    BY <2>1, <2>2
<1>3. Forget(t) /\ UNCHANGED <<token, changes, faults>>
  BY DEF Load
<1>4. PageInv' /\ tab' \in [Tabs -> Tab]
  BY <1>2, <1>3, ForgetHistories, OneTab
<1>5. nextAction' \in {"page", "ticket", Nothing}
  BY DEF Load, storeNextAction, HasTicket, SessionTypeOK
<1> QED
  BY <1>3, <1>4, <1>5, ForgetHistories DEF SessionTypeOK

\* The page is left; whatever is stored is stored.
LEMMA UnloadStep ==
  ASSUME SessionTypeOK, PageInv, NEW t \in Tabs, Unload(t),
         token' = token \/ token' = NoToken,
         UNCHANGED <<changes, faults>>,
         nextAction' \in {"page", "ticket", Nothing}
  PROVE  SessionTypeOK' /\ PageInv'
<1>1. "away" \in Views /\ "page" \in Urls
  BY DEF Views, Urls
<1>2. Blank("away", "page") \in Tab
  BY <1>1, BlankPage
<1>3. PageOK(Blank("away", "page"), token', foreign'[t], refused'[t], faults')
  BY <1>1, BlankOK
<1>4. Forget(t) /\ tab' = [tab EXCEPT ![t] = Blank("away", "page")]
  BY DEF Unload
<1>5. NoToken \notin Live
  BY SessionAssumption DEF Live, NoToken, NoEvent
<1>6. PageInv' /\ tab' \in [Tabs -> Tab]
  BY <1>2, <1>3, <1>4, <1>5, ForgetHistories, OneTab
<1> QED
  BY <1>4, <1>6, ForgetHistories DEF SessionTypeOK

LEMMA NavigateStep ==
  ASSUME SessionTypeOK, PageInv, NEW t \in Tabs, Navigate(t)
  PROVE  SessionTypeOK' /\ PageInv'
<1>1. CASE token \in Live
  <2>1. tab' = [tab EXCEPT ![t] = [tab[t] EXCEPT !.url = "page"]] /\ tab[t].view = "page"
    BY <1>1 DEF Navigate
  <2>2. UNCHANGED <<token, nextAction, switches, changes, faults, foreign, refused>>
    BY <1>1 DEF Navigate
  <2> DEFINE page == [tab[t] EXCEPT !.url = "page"]
  <2>3. tab[t] \in Tab
    BY DEF SessionTypeOK
  <2>4. /\ page \in Tab /\ page.view = tab[t].view /\ page.bar = tab[t].bar
        /\ page.pipeline = tab[t].pipeline /\ page.failures = tab[t].failures
        /\ page.ask = tab[t].ask /\ page.last = tab[t].last
    BY <2>3 DEF Tab, Urls
  <2>5. PageOK(page, token, foreign[t], refused[t], faults)
    <3>1. PageOK(tab[t], token, foreign[t], refused[t], faults)
      BY DEF PageInv
    <3> HIDE DEF page
    <3> QED
      BY <2>4, <3>1 DEF PageOK
  <2> HIDE DEF page
  <2>6. PageInv' /\ tab' \in [Tabs -> Tab]
    BY <2>1, <2>2, <2>4, <2>5, OneTab DEF page
  <2> QED
    BY <2>2, <2>6 DEF SessionTypeOK
<1>2. CASE token \notin Live
  BY <1>2, UnloadStep DEF Navigate, storeNextAction, HasTicket
<1> QED
  BY <1>1, <1>2

\* The token is replaced for every tab that has a pipeline, but for one.
LEMMA ReplacedFacts ==
  ASSUME SessionTypeOK, NEW t \in Tabs
  PROVE  /\ Replaced(t) \in [Tabs -> BOOLEAN]
         /\ \A o \in Tabs : o # t => (tab[o].pipeline => Replaced(t)[o])
<1>1. \A o \in Tabs : tab[o].pipeline \in BOOLEAN /\ foreign[o] \in BOOLEAN
  BY DEF SessionTypeOK, Tab
<1> QED
  BY <1>1 DEF Replaced

LEMMA LoggedInStep ==
  ASSUME SessionTypeOK, PageInv, NEW t \in Tabs, LoggedIn(t)
  PROVE  SessionTypeOK' /\ PageInv'
<1>1. PICK tk \in CurrentEvents : token' = tk
  BY DEF LoggedIn
<1>2. tk \in Live /\ faults \in Nat
  BY SessionAssumption DEF SessionTypeOK
<1>3. tab[t] \in Tab /\ tab[t].view = "login"
  BY DEF LoggedIn, SessionTypeOK
<1>4. ~tab[t].pipeline /\ tab[t].bar = "absent"
  BY <1>3 DEF PageInv, PageOK
<1>5. PICK page \in Tab :
        /\ tab' = [tab EXCEPT ![t] = page]
        /\ PageOK(page, tk, foreign'[t], refused'[t], faults)
  <2>1. CASE nextAction = "page"
    <3> DEFINE page == [tab[t] EXCEPT !.view = "page", !.url = "page"]
    <3>1. page \in Tab /\ ~page.pipeline /\ page.bar = "absent" /\ page.view = "page"
      BY <1>3, <1>4 DEF Tab, Urls
    <3>2. PageOK(page, tk, foreign'[t], refused'[t], faults)
      BY <3>1 DEF PageOK
    <3>3. tab' = [tab EXCEPT ![t] = page]
      BY <2>1 DEF LoggedIn
    <3> HIDE DEF page
    <3> QED
      BY <3>1, <3>2, <3>3
  <2>2. CASE nextAction # "page"
    <3>1. PICK url \in {"page", "used ticket"} :
            tab' = [tab EXCEPT ![t] = WithBar(Blank("page", url), token')]
      BY <2>2 DEF LoggedIn
    <3> DEFINE blank == Blank("page", url)
    <3>2. url \in Urls /\ "page" \in Views
      BY <3>1 DEF Urls, Views
    <3>3. blank \in Tab /\ blank.view = "page" /\ ~blank.pipeline
      BY <3>2, BlankPage
    <3>4. PageOK(blank, tk, foreign'[t], refused'[t], faults)
      BY <3>2, BlankOK
    <3>5. PageOK(WithBar(blank, tk), tk, foreign'[t], refused'[t], faults)
      BY <1>2, <3>3, <3>4, StartOK
    <3>6. WithBar(blank, tk) \in Tab
      BY <3>3, WithBarPage
    <3>7. tab' = [tab EXCEPT ![t] = WithBar(blank, tk)]
      BY <1>1, <3>1
    <3> HIDE DEF blank
    <3> QED
      BY <3>5, <3>6, <3>7
  <2> QED
    BY <2>1, <2>2
<1>6. foreign' = Replaced(t) /\ UNCHANGED <<switches, faults, refused>>
  BY DEF LoggedIn
<1>7. \A o \in Tabs : o # t => refused'[o] = refused[o] /\ (tab[o].pipeline => foreign'[o])
  BY <1>6, ReplacedFacts
<1>8. PageInv' /\ tab' \in [Tabs -> Tab]
  BY <1>1, <1>5, <1>6, <1>7, OneTab
<1>9. changes' \in 0 .. MaxChanges
  <2>1. changes < MaxChanges /\ changes' = changes + 1
    BY DEF LoggedIn
  <2>2. changes \in 0 .. MaxChanges
    BY DEF SessionTypeOK
  <2> QED
    BY <2>1, <2>2, SessionAssumption
<1> QED
  <2>1. foreign' \in [Tabs -> BOOLEAN] /\ UNCHANGED <<switches, faults, refused>>
    BY <1>6, ReplacedFacts
  <2>2. nextAction' \in {"page", "ticket", Nothing}
    BY DEF LoggedIn, loadNextAction, SessionTypeOK
  <2>3. token' \in Live \cup {NoToken}
    BY <1>1, <1>2 DEF Live
  <2> QED
    BY <1>8, <1>9, <2>1, <2>2, <2>3 DEF SessionTypeOK

LEMMA LoginFailedStep ==
  ASSUME SessionTypeOK, PageInv, NEW t \in Tabs, LoginFailed(t)
  PROVE  SessionTypeOK' /\ PageInv'
<1>0. faults' \in {faults, faults + 1} /\ faults' \in 0 .. MaxFaults
  <2>1. faults' = faults \/ (faults < MaxFaults /\ faults' = faults + 1)
    BY DEF LoginFailed
  <2>2. faults \in 0 .. MaxFaults /\ MaxFaults \in Nat
    BY SessionAssumption DEF SessionTypeOK
  <2> QED
    BY <2>1, <2>2
<1>1. tab[t] \in Tab /\ tab[t].view = "login"
  BY DEF LoginFailed, SessionTypeOK
<1>2. ~tab[t].pipeline /\ tab[t].bar = "absent"
  BY <1>1 DEF PageInv, PageOK
<1>3. PICK url \in {tab[t].url, "used ticket"} :
        tab' = [tab EXCEPT ![t].view = "failed", ![t].url = url]
  BY DEF LoginFailed
<1>4. url \in Urls
  BY <1>1, <1>3 DEF Tab, Urls
<1> DEFINE page == [tab[t] EXCEPT !.view = "failed", !.url = url]
<1>5. page \in Tab /\ ~page.pipeline /\ page.bar = "absent"
  BY <1>1, <1>2, <1>4 DEF Tab
<1>6. tab' = [tab EXCEPT ![t] = page]
  BY <1>3 DEF SessionTypeOK
<1>7. PageOK(page, token', foreign'[t], refused'[t], faults')
  BY <1>5 DEF PageOK
<1> HIDE DEF page
<1>8. UNCHANGED <<token, nextAction, switches, changes, foreign, refused>>
        /\ faults' \in {faults, faults + 1} /\ faults' \in 0 .. MaxFaults
  <2>1. /\ UNCHANGED <<token, nextAction, switches, changes, foreign, refused>>
        /\ faults' = faults \/ (faults < MaxFaults /\ faults' = faults + 1)
    BY DEF LoginFailed
  <2> QED
    BY <1>0, <2>1
<1>9. PageInv' /\ tab' \in [Tabs -> Tab]
  BY <1>5, <1>6, <1>7, <1>8, OneTab
<1> QED
  BY <1>8, <1>9 DEF SessionTypeOK

\* The token expires.
LEMMA ExpireStep ==
  ASSUME SessionTypeOK, PageInv, Expire
  PROVE  SessionTypeOK' /\ PageInv'
<1>1. NoToken \notin Live
  BY SessionAssumption DEF Live, NoToken, NoEvent
<1>2. PageInv'
  <2> SUFFICES ASSUME NEW o \in Tabs
               PROVE  PageOK(tab[o], token', foreign[o], refused[o], faults)
    BY DEF Expire, PageInv
  <2>1. PageOK(tab[o], token, foreign[o], refused[o], faults) /\ tab[o] \in Tab /\ faults \in Nat
    BY DEF PageInv, SessionTypeOK
  <2>2. token' \notin Live
    BY <1>1 DEF Expire
  <2> QED
    BY <2>1, <2>2, OtherOK
<1>3. changes' \in 0 .. MaxChanges
  BY SessionAssumption DEF Expire, SessionTypeOK
<1> QED
  BY <1>2, <1>3 DEF Expire, SessionTypeOK

\* What a subscription does to the histories of its tab.
LEMMA StartedHistories ==
  ASSUME SessionTypeOK, NEW t \in Tabs, Started(t)
  PROVE  /\ foreign' \in [Tabs -> BOOLEAN] /\ refused' \in [Tabs -> BOOLEAN]
         /\ \A o \in Tabs : o # t => foreign'[o] = foreign[o] /\ refused'[o] = refused[o]
         /\ tab[t].pipeline => foreign'[t] = foreign[t] /\ refused'[t] = refused[t]
<1>1. foreign' \in {foreign, [foreign EXCEPT ![t] = FALSE]}
        /\ refused' \in {refused, [refused EXCEPT ![t] = FALSE]}
  BY DEF Started
<1>2. tab[t].pipeline => foreign' = foreign /\ refused' = refused
  BY DEF Started
<1> QED
  BY <1>1, <1>2 DEF SessionTypeOK

LEMMA SubscribeStep ==
  ASSUME SessionTypeOK, PageInv, NEW t \in Tabs, BarAppears(t) \/ PageSubscribes(t)
  PROVE  SessionTypeOK' /\ PageInv'
<1>1. tab[t] \in Tab /\ tab[t].view = "page" /\ faults \in Nat
  BY DEF BarAppears, PageSubscribes, SessionTypeOK
<1>2. Started(t) /\ UNCHANGED <<token, nextAction, switches, changes, faults>>
  BY DEF BarAppears, PageSubscribes
<1>3. PageOK(tab[t], token, foreign[t], refused[t], faults)
  BY DEF PageInv
<1>4. PICK f, r : f = foreign'[t] /\ r = refused'[t]
  OBVIOUS
<1>5. tab[t].pipeline => f = foreign[t] /\ r = refused[t]
  BY <1>2, <1>4, StartedHistories
<1>6. /\ PageOK(Start(tab[t], token), token, f, r, faults)
      /\ PageOK(WithBar(tab[t], token), token, f, r, faults)
  BY <1>1, <1>3, <1>5, StartOK
<1>7. PICK page \in Tab : tab' = [tab EXCEPT ![t] = page] /\ PageOK(page, token, f, r, faults)
  <2>1. Start(tab[t], token) \in Tab /\ WithBar(tab[t], token) \in Tab
    BY <1>1, StartPage, WithBarPage
  <2> QED
    BY <1>6, <2>1 DEF BarAppears, PageSubscribes
<1>8. PageInv' /\ tab' \in [Tabs -> Tab]
  BY <1>2, <1>4, <1>7, StartedHistories, OneTab
<1> QED
  BY <1>2, <1>8, StartedHistories DEF SessionTypeOK

LEMMA BarGoesStep ==
  ASSUME SessionTypeOK, PageInv, NEW t \in Tabs, BarGoes(t)
  PROVE  SessionTypeOK' /\ PageInv'
<1>1. tab[t] \in Tab
  BY DEF SessionTypeOK
<1>2. PageOK(tab[t], token, foreign[t], refused[t], faults)
  BY DEF PageInv
<1> DEFINE page == [tab[t] EXCEPT !.bar = "absent"]
<1>3. /\ page \in Tab /\ page.bar = "absent" /\ page.view = tab[t].view
      /\ page.pipeline = tab[t].pipeline /\ page.failures = tab[t].failures
      /\ page.ask = tab[t].ask /\ page.last = tab[t].last
  BY <1>1 DEF Tab
<1>4. tab' = [tab EXCEPT ![t] = page]
  BY DEF BarGoes
<1> HIDE DEF page
<1>5. PageOK(page, token, foreign[t], refused[t], faults)
  BY <1>2, <1>3 DEF PageOK
<1>6. UNCHANGED <<token, nextAction, switches, changes, faults, foreign, refused>>
  BY DEF BarGoes
<1>7. PageInv' /\ tab' \in [Tabs -> Tab]
  BY <1>3, <1>4, <1>5, <1>6, OneTab
<1> QED
  BY <1>6, <1>7 DEF SessionTypeOK

LEMMA TickStep ==
  ASSUME SessionTypeOK, PageInv, NEW t \in Tabs, Tick(t)
  PROVE  SessionTypeOK' /\ PageInv'
<1>1. tab[t] \in Tab /\ PageOK(tab[t], token, foreign[t], refused[t], faults)
  BY DEF SessionTypeOK, PageInv
<1>2. PageOK(Asking(tab[t], token), token, FALSE, refused[t], faults)
  BY <1>1, AskingOK
<1>3. Asking(tab[t], token) \in Tab
  BY <1>1, AskingPage
<1>4. /\ tab' = [tab EXCEPT ![t] = Asking(tab[t], token)]
      /\ foreign' = [foreign EXCEPT ![t] = FALSE]
      /\ UNCHANGED <<token, nextAction, switches, changes, faults, refused>>
  BY DEF Tick
<1>5. foreign' \in [Tabs -> BOOLEAN] /\ foreign'[t] = FALSE
        /\ \A o \in Tabs : o # t => foreign'[o] = foreign[o]
  BY <1>4 DEF SessionTypeOK
<1>6. PageOK(Asking(tab[t], token), token', foreign'[t], refused'[t], faults')
  BY <1>2, <1>4, <1>5
<1>7. PageInv' /\ tab' \in [Tabs -> Tab]
  BY <1>3, <1>4, <1>5, <1>6, OneTab
<1> QED
  BY <1>4, <1>5, <1>7 DEF SessionTypeOK

LEMMA AnsweredStep ==
  ASSUME SessionTypeOK, PageInv, NEW t \in Tabs, Answered(t)
  PROVE  SessionTypeOK' /\ PageInv'
<1>1. tab[t] \in Tab /\ PageOK(tab[t], token, foreign[t], refused[t], faults)
  BY DEF SessionTypeOK, PageInv
<1> DEFINE event == tab[t].ask
           page == [tab[t] EXCEPT !.ask = Idle, !.last = event]
<1>2. event \in Events /\ event # Idle
  BY SessionAssumption DEF Answered
<1>3. /\ page \in Tab /\ page.ask = Idle /\ page.last = event
      /\ page.bar = tab[t].bar /\ page.view = tab[t].view
      /\ page.pipeline = tab[t].pipeline /\ page.failures = tab[t].failures
  BY <1>1, <1>2 DEF Tab
<1>4. tab' = [tab EXCEPT ![t] = page]
  BY DEF Answered, SessionTypeOK
<1> HIDE DEF page
<1>5. PageOK(page, token, foreign[t], refused[t], faults)
  <2>1. page.pipeline /\ token \in Live /\ ~foreign[t] => page.last = token
    BY <1>1, <1>2, <1>3, AskWithFacts DEF PageOK
  <2> QED
    BY <1>1, <1>3, <2>1 DEF PageOK
<1>6. UNCHANGED <<token, nextAction, switches, changes, faults, foreign, refused>>
  BY DEF Answered
<1>7. PageInv' /\ tab' \in [Tabs -> Tab]
  BY <1>3, <1>4, <1>5, <1>6, OneTab
<1> QED
  BY <1>6, <1>7 DEF SessionTypeOK

\* This is where the number of faults counts: with no more of them than
\* retries, only a refusal ends a pipeline.
LEMMA FailedStep ==
  ASSUME SessionTypeOK, PageInv, NEW t \in Tabs, Failed(t)
  PROVE  SessionTypeOK' /\ PageInv'
<1>1. tab[t] \in Tab /\ PageOK(tab[t], token, foreign[t], refused[t], faults)
  BY DEF SessionTypeOK, PageInv
<1>2. UNCHANGED <<token, nextAction, switches, changes>>
        /\ foreign' = [foreign EXCEPT ![t] = FALSE]
  BY DEF Failed
<1>3. \/ faults' = faults /\ refused' = [refused EXCEPT ![t] = TRUE]
      \/ faults < MaxFaults /\ faults' = faults + 1 /\ refused' = refused
  BY DEF Failed
<1>4. faults' \in {faults, faults + 1} /\ faults' \in 0 .. MaxFaults /\ faults \in Nat
  BY <1>3, SessionAssumption DEF SessionTypeOK
<1>5. /\ foreign' \in [Tabs -> BOOLEAN] /\ foreign'[t] = FALSE
      /\ refused' \in [Tabs -> BOOLEAN]
      /\ \A o \in Tabs : o # t => foreign'[o] = foreign[o] /\ refused'[o] = refused[o]
  BY <1>2, <1>3 DEF SessionTypeOK
<1>6. \/ refused'[t]
      \/ ~refused'[t] /\ ~refused[t] /\ faults < MaxFaults /\ faults' = faults + 1
  BY <1>3, <1>5 DEF SessionTypeOK
<1>7. PICK page \in Tab :
        /\ tab' = [tab EXCEPT ![t] = page]
        /\ PageOK(page, token', foreign'[t], refused'[t], faults')
  <2>1. CASE Again(tab[t])
    <3> DEFINE more == [tab[t] EXCEPT !.failures = @ + 1]
    <3>1. tab[t].failures + 1 \in 0 .. Retries
      BY <1>1, <2>1, SessionAssumption DEF Again, Tab
    <3>2. /\ more \in Tab /\ more.failures = tab[t].failures + 1
          /\ more.view = tab[t].view /\ more.bar = tab[t].bar
          /\ more.pipeline = tab[t].pipeline
      BY <1>1, <3>1 DEF Tab
    <3>3. tab' = [tab EXCEPT ![t] = Asking(more, token)]
      <4>1. tab' = [tab EXCEPT ![t] =
                      Asking([tab[t] EXCEPT !.failures = tab[t].failures + 1], token)]
        BY <2>1 DEF Failed
      <4> QED
        BY <4>1
    <3> HIDE DEF more
    <3>4. /\ Asking(more, token) \in Tab
          /\ Asking(more, token).ask = AskWith(token) /\ AskWith(token) # Idle
          /\ Asking(more, token).failures = tab[t].failures + 1
          /\ Asking(more, token).view = tab[t].view /\ Asking(more, token).bar = tab[t].bar
          /\ Asking(more, token).pipeline = tab[t].pipeline
      BY <3>2, AskingPage, AskWithFacts
    <3>5. tab[t].pipeline /\ ~refused'[t] => tab[t].failures + 1 <= faults'
      BY <1>1, <1>4, <1>6, SessionAssumption DEF PageOK, Tab
    <3>6. MaxFaults <= Retries /\ tab[t].bar = "left" => refused'[t] \/ tab[t].pipeline
      BY <1>1, <1>6 DEF PageOK
    <3>7. PageOK(Asking(more, token), token', foreign'[t], refused'[t], faults')
      BY <1>1, <1>2, <3>4, <3>5, <3>6 DEF PageOK
    <3> QED
      BY <3>3, <3>4, <3>7
  <2>2. CASE ~Again(tab[t])
    <3>1. PICK bar \in {"absent", "left"} :
            /\ tab' = [tab EXCEPT ![t] = [Blank(tab[t].view, tab[t].url) EXCEPT !.bar = bar]]
            /\ tab[t].bar = "absent" => bar = "absent"
      BY <2>2 DEF Failed
    <3>2. tab[t].view \in Views /\ tab[t].url \in Urls
      BY <1>1 DEF Tab, Views
    <3> DEFINE blank == Blank(tab[t].view, tab[t].url)
               page == [blank EXCEPT !.bar = bar]
    <3>3. /\ blank \in Tab /\ blank.view = tab[t].view /\ ~blank.pipeline
      <4>1. PICK w \in Views, u \in Urls : w = tab[t].view /\ u = tab[t].url
        BY <3>2
      <4>2. Blank(w, u) \in Tab /\ Blank(w, u).view = w /\ Blank(w, u).pipeline = FALSE
        BY ONLY BlankPage, w \in Views, u \in Urls
      <4>3. blank = Blank(w, u)
        BY <4>1
      <4> QED
        BY <4>1, <4>2, <4>3
    <3> HIDE DEF blank
    <3>4. page \in Tab /\ page.bar = bar /\ page.view = tab[t].view /\ ~page.pipeline
      BY <3>1, <3>3 DEF Tab
    <3> HIDE DEF page
    <3>5. tab[t].view # "page" => bar = "absent"
      BY <1>1, <3>1 DEF PageOK
    <3>6. MaxFaults <= Retries /\ bar = "left" => refused'[t]
      <4> SUFFICES ASSUME MaxFaults <= Retries, bar = "left", ~refused'[t]
                   PROVE  FALSE
        OBVIOUS
      <4>1. tab[t].bar # "absent"
        BY <3>1
      <4>2. tab[t].bar \in {"following", "left"}
        BY <1>1, <4>1 DEF Tab
      <4>3. tab[t].pipeline
        BY <1>1, <1>6, <4>2 DEF PageOK
      <4>4. tab[t].failures <= faults /\ faults < MaxFaults
        BY <1>1, <1>6, <4>3 DEF PageOK
      <4>5. tab[t].failures \in Nat /\ ~(tab[t].failures < Retries)
        BY <1>1, <2>2, SessionAssumption DEF Again, Tab
      <4> QED
        BY <1>4, <4>4, <4>5, SessionAssumption
    <3>7. PageOK(page, token', foreign'[t], refused'[t], faults')
      BY <3>4, <3>5, <3>6 DEF PageOK
    <3> QED
      BY <3>1, <3>4, <3>7 DEF page, blank
  <2> QED
    BY <2>1, <2>2
<1>8. PageInv' /\ tab' \in [Tabs -> Tab]
  BY <1>2, <1>4, <1>5, <1>7, OneTab
<1> QED
  BY <1>2, <1>4, <1>5, <1>8 DEF SessionTypeOK

LEMMA SwitchStep ==
  ASSUME SessionTypeOK, PageInv, NEW t \in Tabs, Switch(t)
  PROVE  SessionTypeOK' /\ PageInv'
<1>1. switches' \subseteq [tab : Tabs, to : Live]
  BY DEF Switch, SessionTypeOK
<1>2. changes' \in 0 .. MaxChanges
  BY SessionAssumption DEF Switch, SessionTypeOK
<1> QED
  BY <1>1, <1>2 DEF Switch, SessionTypeOK, PageInv

LEMMA SwitchedStep ==
  ASSUME SessionTypeOK, PageInv, NEW s \in switches, Switched(s)
  PROVE  SessionTypeOK' /\ PageInv'
<1>1. s.tab \in Tabs /\ s.to \in Live
  BY DEF SessionTypeOK
<1>2. PICK t \in Tabs : t = s.tab
  BY <1>1
<1>3. PICK tk \in Live : token' = tk
  BY <1>1 DEF Switched
<1>4. tab[t] \in Tab /\ PageOK(tab[t], token, foreign[t], refused[t], faults) /\ faults \in Nat
  BY DEF SessionTypeOK, PageInv
<1>5. tab' = [tab EXCEPT ![t] = AskedAgain(tab[t], tk)]
  BY <1>2, <1>3 DEF Switched
<1>6. foreign' = [Replaced(t) EXCEPT ![t] = FALSE]
        /\ UNCHANGED <<nextAction, changes, faults, refused>>
        /\ switches' \subseteq switches
  BY <1>2 DEF Switched
<1>7. /\ foreign' \in [Tabs -> BOOLEAN]
      /\ \A o \in Tabs : o # t => (tab[o].pipeline => foreign'[o])
  BY <1>6, ReplacedFacts
<1>8. AskedAgain(tab[t], tk) \in Tab
  BY <1>4, AskingPage DEF AskedAgain
<1>9. ASSUME NEW f PROVE PageOK(AskedAgain(tab[t], tk), tk, f, refused[t], faults)
  <2>1. CASE tab[t].pipeline
    BY <1>4, <2>1, AskingOK DEF AskedAgain
  <2>2. CASE ~tab[t].pipeline
    BY <1>4, <2>2 DEF AskedAgain, PageOK
  <2> QED
    BY <2>1, <2>2
<1>10. PageOK(AskedAgain(tab[t], tk), token', foreign'[t], refused'[t], faults')
  BY <1>3, <1>6, <1>9
<1>11. PageInv' /\ tab' \in [Tabs -> Tab]
  BY <1>5, <1>6, <1>7, <1>8, <1>10, OneTab
<1> QED
  BY <1>3, <1>6, <1>7, <1>11 DEF SessionTypeOK

LEMMA SwitchFailsStep ==
  ASSUME SessionTypeOK, PageInv, NEW s \in switches, SwitchFails(s)
  PROVE  SessionTypeOK' /\ PageInv'
<1>1. faults \in Nat /\ faults' = faults + 1 /\ faults' \in 0 .. MaxFaults
  BY SessionAssumption DEF SwitchFails, SessionTypeOK
<1>2. PageInv'
  <2> SUFFICES ASSUME NEW o \in Tabs
               PROVE  PageOK(tab[o], token, foreign[o], refused[o], faults')
    BY DEF SwitchFails, PageInv
  <2>1. PageOK(tab[o], token, foreign[o], refused[o], faults) /\ tab[o] \in Tab
    BY DEF PageInv, SessionTypeOK
  <2>2. PICK n \in Nat : n = faults' /\ faults <= n
    BY <1>1
  <2>3. PageOK(tab[o], token, foreign[o], refused[o], n)
    BY <1>1, <2>1, <2>2, OtherOK
  <2> QED
    BY <2>2, <2>3
<1> QED
  BY <1>1, <1>2 DEF SwitchFails, SessionTypeOK

----------------------------------------------------------------------------
\* The invariant, and what follows from it.

LEMMA SessionInvInit ==
  ASSUME SessionInit
  PROVE  SessionTypeOK /\ PageInv
<1>1. "away" \in Views /\ "page" \in Urls
  BY DEF Views, Urls
<1>2. Blank("away", "page") \in Tab
  BY <1>1, BlankPage
<1>3. tab \in [Tabs -> Tab] /\ \A t \in Tabs : tab[t] = Blank("away", "page")
  BY <1>2 DEF SessionInit
<1>4. \A t \in Tabs : PageOK(tab[t], token, foreign[t], refused[t], faults)
  BY <1>1, <1>3, BlankOK
<1>5. token \in Live \cup {NoToken} /\ changes \in 0 .. MaxChanges /\ faults \in 0 .. MaxFaults
  BY SessionAssumption DEF SessionInit
<1> QED
  BY <1>3, <1>4, <1>5 DEF SessionInit, SessionTypeOK, PageInv

LEMMA SessionInvStep ==
  ASSUME SessionTypeOK, PageInv, [SessionNext]_sessionVars
  PROVE  SessionTypeOK' /\ PageInv'
<1>1. ASSUME NEW t \in Tabs, OfATab(t)
      PROVE  SessionTypeOK' /\ PageInv'
  <2>1. CASE Open(t) \/ Reload(t) \/ ReturnWithTicket(t)
    <3>1. PICK url \in Urls : Load(t, url)
      BY <2>1 DEF Open, Reload, ReturnWithTicket, Urls, SessionTypeOK, Tab
    <3> QED
      BY <3>1, LoadStep
  <2>2. CASE Logout(t)
    BY <2>2, UnloadStep DEF Logout, SessionTypeOK
  <2>3. CASE Navigate(t) \/ LoggedIn(t) \/ LoginFailed(t)
    BY <2>3, NavigateStep, LoggedInStep, LoginFailedStep
  <2>4. CASE BarAppears(t) \/ BarGoes(t) \/ PageSubscribes(t)
    BY <2>4, SubscribeStep, BarGoesStep
  <2>5. CASE Tick(t) \/ Answered(t) \/ Failed(t) \/ Switch(t)
    BY <2>5, TickStep, AnsweredStep, FailedStep, SwitchStep
  <2> QED
    BY <1>1, <2>1, <2>2, <2>3, <2>4, <2>5 DEF OfATab
<1>2. CASE UNCHANGED sessionVars
  BY <1>2 DEF sessionVars, SessionTypeOK, PageInv
<1> QED
  BY <1>1, <1>2, ExpireStep, SwitchedStep, SwitchFailsStep DEF SessionNext

LEMMA SessionInvAlways == SessionSpec => [](SessionTypeOK /\ PageInv)
BY SessionInvInit, SessionInvStep, PTL DEF SessionSpec

\* Every variable keeps its type.
THEOREM SessionTypeCorrect == SessionSpec => []SessionTypeOK
BY SessionInvAlways, PTL

\* The event bar, where it follows a pipeline at rest, shows the event of the
\* session, unless another tab has replaced the token since.
THEOREM ShownIsSessionAlways == SessionSpec => []ShownIsSession
<1>1. SessionTypeOK /\ PageInv => ShownIsSession
  BY DEF PageInv, PageOK, ShownIsSession, Following
<1> QED
  BY <1>1, SessionInvAlways, PTL

\* No more failures of the network than there are retries leave the bar
\* behind: a request must have been refused.
THEOREM FaultsEndNothingAlways ==
  ASSUME MaxFaults <= Retries
  PROVE  SessionSpec => []FaultsEndNothing
<1>1. MaxFaults <= Retries /\ SessionTypeOK /\ PageInv => FaultsEndNothing
  BY DEF PageInv, PageOK, FaultsEndNothing
<1> QED
  BY <1>1, SessionInvAlways, PTL
=============================================================================
