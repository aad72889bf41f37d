------------------------------ MODULE StateDesk ------------------------------
(***************************************************************************)
(* The boxes that change the state of objects:                             *)
(*                                                                         *)
(*   "quickLoan"  HomepageComponent: a list of asset tags typed by hand,   *)
(*                all changed at once, one request per object;             *)
(*   "quickChangeState"  QuickChangestateComponent on the home page: one   *)
(*                object chosen in a search field, one request;            *)
(*   "object"     the same component on the page of an object.             *)
(*                                                                         *)
(* A click may ask for a signature, asks for a confirmation, sends the     *)
(* requests and reports on their answers.  Objects are meanwhile changed   *)
(* by other desks, and heard of with a delay.  The list is sent as it was  *)
(* at the click; the one object is the one the page gives the box when the *)
(* confirmation is given.                                                  *)
(***************************************************************************)
EXTENDS Naturals, Sequences, FiniteSets

CONSTANTS
  Objects,
  NeedsSignature,   \* the objects whose requiresSignature is set
  Users,
  MaxTags,          \* bound: length of the list of tags
  Lists,            \* bound: the lists of tags that are typed
  MaxClicks,        \* bound: clicks on a button
  ElsewhereTo,      \* the states other desks put objects in
  MaxElsewhere,     \* bound: changes made by other desks
  MaxLostAnswers    \* bound: requests served whose answer is lost

VARIABLES
  box,        \* which of the boxes is used
  status,     \* the server's objects.status
  seen,       \* the status each object has in the browser's list
  tags,       \* quickLoanMultiTags, a tag of no object being NoObject
  found,      \* quickLoanFoundObjects; the object of the other boxes
  followed,   \* the objects the search field has a subscription to
  user,       \* quickLoanMultiUser, lendTo
  sending,    \* quickLoanMultiSending, sending
  threw,      \* history: the box's callback threw before it freed the flag
  flow,       \* what the click under way is about
  heard,      \* history: the objects heard of since the click
  report,     \* the last report shown
  applied,    \* history: requests of the flow the server has applied
  clicks, elsewhere, lost   \* how much of each bound is used

serverVars == <<status, elsewhere, lost>>
fieldVars == <<tags, found, followed, user>>
clickVars == <<sending, threw, flow, report, applied>>
deskVars == <<box, serverVars, seen, fieldVars, clickVars, heard, clicks>>

Boxes == {"quickLoan", "quickChangeState", "object"}
Status == {"InStock", "Out", "Resting", "Lost", "Deleted"}

NoObject == "no object"
NoUser == "no user"
NoList == <<>>   \* undefined: an empty list is never emitted, see FoundAfter

Tag == Objects \cup {NoObject}
TagList == UNION {[1 .. n -> Tag] : n \in 0 .. MaxTags}

ASSUME DeskAssumption ==
  /\ NeedsSignature \subseteq Objects /\ ElsewhereTo \subseteq Status
  /\ MaxTags \in Nat \ {0} /\ Lists \subseteq TagList

\* What a line of the list holds: the object as it was when read.
Line == [obj : Tag, status : Status]
LineList == UNION {[1 .. n -> Line] : n \in 0 .. MaxTags}

Stages == {"idle", "signature", "confirm", "requests"}
Outcome == {"pending", "ok", "failed"}

\* clicked is what the page showed at the click, lines is what is sent.
NoFlow == [stage |-> "idle", clicked |-> <<>>, lines |-> <<>>,
           target |-> "InStock", signed |-> FALSE, answers |-> <<>>]
NoReport == [ok |-> {}, failed |-> {}]

DeskTypeOK ==
  /\ box \in Boxes
  /\ status \in [Objects -> Status] /\ seen \in [Objects -> Status]
  /\ tags \in TagList /\ found \in LineList /\ followed \subseteq Objects
  /\ user \in Users \cup {NoUser}
  /\ sending \in BOOLEAN /\ threw \in BOOLEAN
  /\ flow \in [stage : Stages, clicked : LineList, lines : LineList, target : Status,
               signed : BOOLEAN, answers : UNION {[1 .. n -> Outcome] : n \in 0 .. MaxTags}]
  /\ heard \subseteq Objects /\ applied \subseteq 1 .. MaxTags
  /\ report \in [ok : SUBSET (1 .. MaxTags), failed : SUBSET (1 .. MaxTags)]

----------------------------------------------------------------------------
\* The list, the object and the user.

\* getObjectByTag, for every line of the list.
Found(list, view) ==
  [i \in DOMAIN list |->
     [obj |-> list[i],
      status |-> IF list[i] = NoObject THEN "Deleted" ELSE view[list[i]]]]

DeskInit ==
  /\ box \in Boxes
  /\ status \in [Objects -> {"InStock", "Lost"}]
  /\ seen = status /\ tags = <<>>
  /\ \/ box # "object" /\ found = NoList /\ followed = {}
     \/ \E o \in Objects : box = "object" /\ found = Found(<<o>>, seen) /\ followed = {o}
  /\ user = NoUser /\ sending = FALSE /\ threw = FALSE
  /\ flow = NoFlow /\ heard = {} /\ report = NoReport /\ applied = {}
  /\ clicks = 0 /\ elsewhere = 0 /\ lost = 0

\* Mutant: the page behind the signature can be used.
NoConfirmation == flow.stage # "confirm"

\* The dialogs are modal: fields are edited only when none is open.
NoDialog == flow.stage \notin {"signature", "confirm"}

\* An emptied list is a combineLatest of nothing, which completes without a
\* value: what had been found stays, and is not followed any more.
FoundAfter(list, view) == IF list = <<>> THEN found ELSE Found(list, view)

TypeTags(list) ==
  /\ box = "quickLoan" /\ NoDialog
  /\ user # NoUser          \* the field is shown with a user only
  /\ tags' = list
  /\ found' = FoundAfter(list, seen)
  /\ UNCHANGED <<box, serverVars, seen, followed, user, clickVars, heard, clicks>>

\* The search field of the home page: the object chosen is followed from now
\* on, and given to the box that is there, if there is one.
Choose(o) ==
  /\ box = "quickChangeState" /\ NoDialog
  /\ found' = Found(<<o>>, seen) /\ followed' = followed \cup {o}
  /\ UNCHANGED <<box, serverVars, seen, tags, user, clickVars, heard, clicks>>

\* Any other text in the search field removes the box; the page of an object
\* is left and opened again.  The next box is another instance.  One left while
\* its request is under way shares no state with the next: it is not left here.
LeaveBox ==
  /\ box # "quickLoan" /\ found # NoList /\ flow.stage = "idle"
  /\ found' = IF box = "object" THEN found ELSE NoList
  /\ user' = NoUser /\ sending' = FALSE /\ threw' = FALSE
  /\ UNCHANGED <<box, serverVars, seen, tags, followed, flow, report, applied, heard, clicks>>

\* The user's field is there, unless the one object is shown as deleted.
UserShown == box = "quickLoan" \/ (found # NoList /\ found[1].status # "Deleted")

PickUser(u) ==
  /\ NoDialog /\ UserShown /\ u # user
  /\ user' = u
  /\ UNCHANGED <<box, serverVars, seen, tags, found, followed, clickVars, heard, clicks>>

\* An emptied user field.  It tells the other box undefined, but [(userId)]
\* lets no undefined through: the list keeps the user it had.
UserAfterReset == IF box = "quickLoan" THEN user ELSE NoUser

ClearUser ==
  /\ NoDialog /\ UserShown /\ user # NoUser
  /\ user' = UserAfterReset
  /\ UNCHANGED <<box, serverVars, seen, tags, found, followed, clickVars, heard, clicks>>

\* Another desk changes an object; a deleted one stays deleted.
ChangedElsewhere(o, s) ==
  /\ elsewhere < MaxElsewhere
  /\ status[o] \notin {"Deleted", s}
  /\ status' = [status EXCEPT ![o] = s]
  /\ elsewhere' = elsewhere + 1
  /\ UNCHANGED <<box, seen, fieldVars, clickVars, heard, clicks, lost>>

\* What the page holds once it has heard of o: the list reads all its objects
\* again, and the object heard of takes the place of the one the box is about
\* whenever it was chosen before, open dialogs or not.
FoundOnHearing(o, view) ==
  CASE box = "quickLoan" -> FoundAfter(tags, view)
    [] box # "quickLoan" /\ o \in followed -> Found(<<o>>, view)
    [] OTHER -> found

\* objects$ has an object's current status.
HearOf(o) ==
  /\ seen[o] # status[o]
  /\ seen' = [seen EXCEPT ![o] = status[o]]
  /\ found' = FoundOnHearing(o, seen')
  /\ heard' = heard \cup {o}
  /\ UNCHANGED <<box, serverVars, tags, followed, user, clickVars, clicks>>

----------------------------------------------------------------------------
\* The click.

currentError ==
  found = NoList \/ \E i \in DOMAIN found : found[i].obj = NoObject

\* In stock when out of it, out when in stock; several states: none.
Opposite(s) == IF s # "InStock" THEN "InStock" ELSE "Out"
targetState == {Opposite(found[i].status) : i \in DOMAIN found}

requiresSignature ==
  targetState = {"Out"} /\ \E i \in DOMAIN found : found[i].obj \in NeedsSignature

\* A click that may be made, and what it takes a snapshot of.
StartFlow(target, stage) ==
  /\ clicks < MaxClicks /\ NoDialog
  /\ user # NoUser /\ ~sending
  /\ clicks' = clicks + 1
  /\ sending' = TRUE
  /\ flow' = [stage |-> stage, clicked |-> found, lines |-> <<>>,
              target |-> target, signed |-> FALSE, answers |-> <<>>]
  /\ heard' = {} /\ report' = NoReport /\ applied' = {}
  /\ UNCHANGED <<box, serverVars, seen, fieldVars, threw>>

quickLoan(target) ==
  /\ box = "quickLoan" /\ ~currentError /\ targetState = {target}
  /\ StartFlow(target, IF requiresSignature THEN "signature" ELSE "confirm")

\* The buttons of the other boxes, by the status of the object: declareLoaned,
\* declareInStock, declareResting, declareLost.
Buttons(s) ==
  CASE s = "InStock" -> {"Out"}
    [] s \in {"Lost", "Resting"} -> {"Out", "InStock"}
    [] s = "Out" -> {"InStock", "Out", "Resting", "Lost"}
    [] s = "Deleted" -> {}

changeState(target) ==
  /\ box # "quickLoan" /\ found # NoList /\ target \in Buttons(found[1].status)
  /\ StartFlow(target, IF /\ found[1].obj \in NeedsSignature /\ target = "Out"
                          /\ found[1].status \in {"InStock", "Out"}
                       THEN "signature" ELSE "confirm")

\* requestSignature: validate closes the dialog only once something is drawn.
Sign ==
  /\ flow.stage = "signature"
  /\ flow' = [flow EXCEPT !.stage = "confirm", !.signed = TRUE]
  /\ UNCHANGED <<box, serverVars, seen, fieldVars, sending, threw, report, applied,
                 heard, clicks>>

\* Mutant: the failure callback of requestSignature forgets the flag.
RefuseToSignKeepsFlag ==
  /\ flow.stage = "signature"
  /\ flow' = NoFlow
  /\ UNCHANGED <<box, serverVars, seen, fieldVars, sending, threw, report, applied,
                 heard, clicks>>

RefuseToSign ==
  /\ flow.stage = "signature"
  /\ flow' = NoFlow /\ sending' = FALSE
  /\ UNCHANGED <<box, serverVars, seen, fieldVars, threw, report, applied, heard, clicks>>

\* The list's requests are those of the click.  The box reads this.object now:
\* what the page gives it may have changed while the dialogs were open.
ToSend == IF box = "quickLoan" THEN flow.clicked ELSE found

\* The confirmation is given: one request per line leaves.
Confirm ==
  /\ flow.stage = "confirm"
  /\ flow' = [flow EXCEPT !.stage = "requests", !.lines = ToSend,
                          !.answers = [i \in DOMAIN ToSend |-> "pending"]]
  /\ UNCHANGED <<box, serverVars, seen, fieldVars, sending, threw, report, applied,
                 heard, clicks>>

Cancel ==
  /\ flow.stage = "confirm"
  /\ flow' = NoFlow /\ sending' = FALSE
  /\ UNCHANGED <<box, serverVars, seen, fieldVars, threw, report, applied, heard, clicks>>

----------------------------------------------------------------------------
\* The requests and the report.

Pending(i) == flow.stage = "requests" /\ flow.answers[i] = "pending"

\* Mutant: only the first of the objects carries the signature.
OnlyFirstIsSigned(i) == flow.signed /\ i = 1

\* The list sends the signature with the objects that require it, the box with
\* whatever object it is about.
CarriesSignature(i) ==
  flow.signed /\ (box = "quickLoan" => flow.lines[i].obj \in NeedsSignature)

\* The server's rule: see ObjectLedger!RequiresSignature.
ServerWantsSignature(o) ==
  o \in NeedsSignature /\ status[o] \in {"InStock", "Out"} /\ flow.target = "Out"

Answered(i, answer) == flow' = [flow EXCEPT !.answers[i] = answer]

LacksSignature(i) ==
  Pending(i) /\ ServerWantsSignature(flow.lines[i].obj) /\ ~CarriesSignature(i)

ServeUnsigned(i) ==
  /\ LacksSignature(i)
  /\ Answered(i, "failed")
  /\ UNCHANGED <<box, serverVars, seen, fieldVars, sending, threw, report, applied,
                 heard, clicks>>

ServeDeleted(i) ==
  /\ Pending(i) /\ status[flow.lines[i].obj] = "Deleted"
  /\ Answered(i, "failed")
  /\ UNCHANGED <<box, serverVars, seen, fieldVars, sending, threw, report, applied,
                 heard, clicks>>

\* The change is made; its answer may be lost on the way back.
Serve(i) ==
  /\ Pending(i)
  /\ LET o == flow.lines[i].obj IN
     /\ ServerWantsSignature(o) => CarriesSignature(i)
     /\ status[o] # "Deleted"
     /\ status' = [status EXCEPT ![o] = flow.target]
  /\ applied' = applied \cup {i}
  /\ \/ Answered(i, "ok") /\ lost' = lost
     \/ Answered(i, "failed") /\ lost < MaxLostAnswers /\ lost' = lost + 1
  /\ UNCHANGED <<box, seen, fieldVars, sending, threw, report, heard, clicks, elsewhere>>

AllAnswered ==
  flow.stage = "requests" /\ \A i \in DOMAIN flow.answers : flow.answers[i] # "pending"

Reported(answer) == {i \in DOMAIN flow.answers : flow.answers[i] = answer}

\* Mutant: catchError hands the failure on as if it had been an answer.
EveryAnswerIsSuccess ==
  [ok |-> Reported("ok") \cup Reported("failed"), failed |-> {}]

Report == [ok |-> Reported("ok"), failed |-> Reported("failed")]

\* forkJoin has every answer; after a full success the fields are reset.
ReportList ==
  /\ box = "quickLoan" /\ AllAnswered
  /\ report' = Report
  /\ tags' = IF Report.failed = {} THEN <<>> ELSE tags
  /\ found' = found     \* FoundAfter(<<>>, seen): nothing is emitted
  /\ user' = IF Report.failed = {} THEN UserAfterReset ELSE user
  /\ flow' = NoFlow /\ sending' = FALSE
  /\ UNCHANGED <<box, serverVars, seen, followed, threw, applied, heard, clicks>>

\* The callback of a success reads what the page may have taken away: its
\* message names lendTo, and the user's field is then reset.
CallbackThrows == Report.ok # {} /\ (user = NoUser \/ ~UserShown)

\* After a success the field the object was chosen in is reset too.
ReportOne ==
  /\ box # "quickLoan" /\ AllAnswered /\ ~CallbackThrows
  /\ report' = Report
  /\ user' = IF Report.ok # {} THEN NoUser ELSE user
  /\ found' = IF Report.ok # {} /\ box = "quickChangeState" THEN NoList ELSE found
  /\ flow' = NoFlow /\ sending' = FALSE
  /\ UNCHANGED <<box, serverVars, seen, tags, followed, threw, applied, heard, clicks>>

\* The callback throws before it frees the box: an emptied lendTo leaves no
\* message either; without its field the message is already shown.
ReportThrows ==
  /\ box # "quickLoan" /\ AllAnswered /\ CallbackThrows
  /\ report' = IF user = NoUser THEN report ELSE Report
  /\ flow' = NoFlow /\ threw' = TRUE
  /\ UNCHANGED <<box, serverVars, seen, fieldVars, sending, applied, heard, clicks>>

----------------------------------------------------------------------------

Dialogs == Sign \/ RefuseToSign \/ Confirm \/ Cancel
Requests == \E i \in DOMAIN flow.lines : Serve(i) \/ ServeUnsigned(i) \/ ServeDeleted(i)
Reports == ReportList \/ ReportOne \/ ReportThrows

DeskNext ==
  \/ \E list \in Lists : TypeTags(list)
  \/ \E o \in Objects : Choose(o) \/ HearOf(o)
  \/ LeaveBox
  \/ \E u \in Users : PickUser(u)
  \/ ClearUser
  \/ \E o \in Objects, s \in ElsewhereTo : ChangedElsewhere(o, s)
  \/ \E target \in Status : quickLoan(target) \/ changeState(target)
  \/ Dialogs
  \/ Requests
  \/ Reports

DeskSpec == DeskInit /\ [][DeskNext]_deskVars

\* A modal dialog is answered, a request ends, a callback runs.
DeskFairness ==
  WF_deskVars(Dialogs) /\ WF_deskVars(Requests) /\ WF_deskVars(Reports)

----------------------------------------------------------------------------
\* Properties.

\* The dialogs name the object the page showed at the click.  Another one is
\* changed in its place only if it was chosen on the page earlier and was heard
\* of while the dialogs were open: nothing else replaces what is sent.
SentAsNamed ==
  flow.stage = "requests" =>
    \A i \in DOMAIN flow.lines :
       \/ i \in DOMAIN flow.clicked /\ flow.lines[i].obj = flow.clicked[i].obj
       \/ box = "quickChangeState" /\ flow.lines[i].obj \in followed \cap heard

\* A report never calls done what the server has not applied, and calls
\* failed what it has applied only when an answer was lost.
ReportIsTrue ==
  /\ report.ok \subseteq applied
  /\ report.failed \cap applied # {} => lost > 0

\* The page and the server agree on when a signature is needed: a request is
\* refused for want of one only if it is about another object than the one
\* clicked, or if that one's status is not the one the page showed at the click.
UnsignedRefusalIsStale ==
  \A i \in DOMAIN flow.lines :
     LacksSignature(i) =>
       \/ flow.lines[i].obj # flow.clicked[i].obj
       \/ status[flow.lines[i].obj] # flow.clicked[i].status

\* The flag refuses clicks exactly while a flow is open, or for good once the
\* callback of a change that was made has thrown: no way out of the dialogs
\* leaves it set, and none clears it before the report.
SendingIsFlow ==
  /\ sending <=> flow.stage # "idle" \/ threw
  /\ threw => flow.stage = "idle" /\ applied # {}

\* Every click ends: its box is freed, or is the one whose callback threw.
Freed == sending ~> (~sending \/ threw)
=============================================================================
