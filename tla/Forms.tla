-------------------------------- MODULE Forms --------------------------------
(***************************************************************************)
(* The forms and the destructive buttons of the browser.  Each sends one   *)
(* request per click, and differs from the others in three ways:           *)
(*                                                                         *)
(*   asks   a confirmation is asked first;                                 *)
(*   flag   when the flag that refuses a second request is tested and set: *)
(*          "click", "confirmed" (after the confirmation), or "never";     *)
(*   done   what success does: "renew" empties the form, "toastRenew" does *)
(*          so once the message is closed, "leave" closes the page,        *)
(*          "leaveHeld" closes it with the flag set, "toastLeave" once the *)
(*          message is closed.  A form that offers two buttons has two.    *)
(*                                                                         *)
(* Failure tells the user, clears the flag and keeps the content.  A form   *)
(* is sent with nothing typed in it too, unless its page refuses to.       *)
(***************************************************************************)
EXTENDS Naturals, Sequences

CONSTANTS
  MaxDrafts,   \* bound: contents typed in the form
  MaxSent,     \* bound: requests sent
  MaxLosses    \* bound: answers lost, the request being accepted

ASSUME FormsAssumption == MaxDrafts \in Nat \ {0} /\ MaxSent \in Nat /\ MaxLosses \in Nat

QuickMove ==
  [name |-> "move", asks |-> FALSE, flag |-> "click", done |-> {"renew", "leave"}]
CreateStorage ==
  [name |-> "storage", asks |-> FALSE, flag |-> "click", done |-> {"leaveHeld"}]
CreateType ==
  [name |-> "type", asks |-> FALSE, flag |-> "click", done |-> {"toastRenew", "leave"}]
CreateLoan ==
  [name |-> "loan", asks |-> FALSE, flag |-> "click", done |-> {"leaveHeld", "renew"}]
LoanState ==
  [name |-> "loan state", asks |-> TRUE, flag |-> "click", done |-> {"renew"}]
TypeOfLoan ==
  [name |-> "type of loan", asks |-> FALSE, flag |-> "click", done |-> {"toastRenew"}]
UpdateObject ==
  [name |-> "object", asks |-> FALSE, flag |-> "click", done |-> {"toastLeave"}]
CreateGuest ==
  [name |-> "guest", asks |-> FALSE, flag |-> "click", done |-> {"leaveHeld"}]
SendComment ==
  [name |-> "comment", asks |-> FALSE, flag |-> "click", done |-> {"renew"}]
DeleteObject ==
  [name |-> "delete object", asks |-> TRUE, flag |-> "never", done |-> {"leave"}]
DeleteStorage ==
  [name |-> "delete storage", asks |-> TRUE, flag |-> "never", done |-> {"leave"}]
DeleteType ==
  [name |-> "delete type", asks |-> TRUE, flag |-> "confirmed", done |-> {"leaveHeld"}]

Kinds == {QuickMove, CreateStorage, CreateType, CreateLoan, LoanState,
          TypeOfLoan, UpdateObject, CreateGuest, SendComment,
          DeleteObject, DeleteStorage, DeleteType}
Deletions == {DeleteObject, DeleteStorage, DeleteType}
Required == {CreateLoan, CreateGuest}   \* never sent empty: isValid, form.valid

VARIABLES
  form,      \* which of them is used
  draft,     \* its content: 0 when it is as it was opened or emptied,
             \* otherwise a number of its own
  drafts,    \* how many contents there have been
  flag,      \* sending, creating, changingState, deleting
  clickThrew, \* history: the click threw after it had set the flag
  asking,    \* the confirmation is open
  toast,     \* what closing the message of success will do
  present,   \* the page is still there
  sent,      \* its requests: what they carry, what their success does
  accepted,  \* history: how often the server has accepted a content
  losses

formVars == <<form, draft, drafts, flag, clickThrew, asking, toast, present, sent,
              accepted, losses>>

Draft == 1 .. MaxDrafts
Toasts == {"toastRenew", "toastLeave"}
Done == {"renew", "leave", "leaveHeld"} \cup Toasts
Answers == {"pending", "ok", "failed", "told"}
Request == [draft : {0} \cup Draft, done : Done, answer : Answers]

FormTypeOK ==
  /\ form \in Kinds
  /\ draft \in 0 .. MaxDrafts /\ drafts \in 0 .. MaxDrafts
  /\ flag \in BOOLEAN /\ clickThrew \in BOOLEAN /\ asking \in BOOLEAN /\ present \in BOOLEAN
  /\ toast \in Toasts \cup {"none"}
  /\ sent \in Seq(Request)
  /\ accepted \in [Draft -> Nat]
  /\ losses \in 0 .. MaxLosses

\* What a deletion is about is there from the start.
FormInit ==
  /\ form \in Kinds
  /\ draft = (IF form \in Deletions THEN 1 ELSE 0) /\ drafts = draft
  /\ flag = FALSE /\ clickThrew = FALSE /\ asking = FALSE /\ toast = "none" /\ present = TRUE
  /\ sent = <<>>
  /\ accepted = [d \in Draft |-> 0]
  /\ losses = 0

----------------------------------------------------------------------------

\* Confirmations and messages are modal.
Usable == present /\ ~asking /\ toast = "none"

\* The user types, or takes a decision: while a request is under way too.
Edit ==
  /\ Usable /\ form \notin Deletions /\ drafts < MaxDrafts
  /\ drafts' = drafts + 1 /\ draft' = drafts'
  /\ UNCHANGED <<form, flag, asking, toast, present, sent, accepted, losses, clickThrew>>

\* The object page follows the list: a new version of the object replaces
\* the one that is being edited.
Overwrite ==
  /\ form = UpdateObject /\ present /\ draft # 0
  /\ draft' = 0
  /\ UNCHANGED <<form, drafts, flag, asking, toast, present, sent, accepted,
                 losses, clickThrew>>

Send ==
  /\ Len(sent) < MaxSent
  /\ \E done \in form.done :
       sent' = Append(sent, [draft |-> draft, done |-> done, answer |-> "pending"])

\* quickMoveArea is undefined until something is typed.
Untouched == form = QuickMove /\ drafts = 0

Submit ==
  /\ Usable /\ ~form.asks /\ ~Untouched
  /\ form \in Required => draft # 0
  /\ ~flag
  /\ flag' = TRUE
  /\ Send
  /\ UNCHANGED <<form, draft, drafts, asking, toast, present, accepted, losses, clickThrew>>

\* The flag is set, and undefined has no lines: nothing is sent.
SubmitThrows ==
  /\ Usable /\ Untouched /\ ~flag
  /\ flag' = TRUE /\ clickThrew' = TRUE
  /\ UNCHANGED <<form, draft, drafts, asking, toast, present, sent, accepted, losses>>

\* Mutant: the flag is set at the click, but not tested.
AskWithoutTest ==
  /\ Usable /\ draft # 0 /\ form.asks
  /\ flag' = (flag \/ form.flag = "click")
  /\ asking' = TRUE
  /\ UNCHANGED <<form, draft, drafts, toast, present, sent, accepted, losses, clickThrew>>

Ask ==
  /\ Usable /\ draft # 0 /\ form.asks
  /\ form.flag = "click" => ~flag
  /\ flag' = (flag \/ form.flag = "click")
  /\ asking' = TRUE
  /\ UNCHANGED <<form, draft, drafts, toast, present, sent, accepted, losses, clickThrew>>

ConfirmForm ==
  /\ asking /\ asking' = FALSE
  /\ form.flag = "confirmed" => ~flag
  /\ flag' = (flag \/ form.flag = "confirmed")
  /\ Send
  /\ UNCHANGED <<form, draft, drafts, toast, present, accepted, losses, clickThrew>>

\* Confirmed a second time with the flag set: nothing is sent.
ConfirmAgain ==
  /\ asking /\ asking' = FALSE
  /\ form.flag = "confirmed" /\ flag
  /\ UNCHANGED <<form, draft, drafts, flag, toast, present, sent, accepted, losses, clickThrew>>

\* Mutant: the way out of the dialog leaves the flag as it is.
FlagKeptOnCancel == flag

\* A cancelled click gives back the flag it has set.
FlagAfterCancel == IF form.flag = "click" THEN FALSE ELSE flag

CancelForm ==
  /\ asking /\ asking' = FALSE
  /\ flag' = FlagAfterCancel
  /\ UNCHANGED <<form, draft, drafts, toast, present, sent, accepted, losses, clickThrew>>

\* The user goes elsewhere; requests and their callbacks go on.
Leave ==
  /\ Usable /\ present' = FALSE
  /\ UNCHANGED <<form, draft, drafts, flag, asking, toast, sent, accepted, losses, clickThrew>>

----------------------------------------------------------------------------
\* The server.

Unserved(i) == sent[i].answer = "pending"
SetAnswer(i, answer) == sent' = [sent EXCEPT ![i].answer = answer]

\* A deleted object does not change any more, see ObjectLedger!Changeable; a
\* list with nothing to move is a bad request.
Acceptable(i) ==
  /\ form = DeleteObject => accepted[sent[i].draft] = 0
  /\ form = QuickMove => sent[i].draft # 0

Accept(i) ==
  /\ Unserved(i) /\ Acceptable(i)
  /\ accepted' = [d \in Draft |-> accepted[d] + (IF d = sent[i].draft THEN 1 ELSE 0)]
  /\ \/ SetAnswer(i, "ok") /\ losses' = losses
     \/ SetAnswer(i, "failed") /\ losses < MaxLosses /\ losses' = losses + 1
  /\ UNCHANGED <<form, draft, drafts, flag, asking, toast, present, clickThrew>>

Refuse(i) ==
  /\ Unserved(i) /\ SetAnswer(i, "failed")
  /\ UNCHANGED <<form, draft, drafts, flag, asking, toast, present, accepted,
                 losses, clickThrew>>

----------------------------------------------------------------------------
\* The callbacks.  Those of a page that was left change nothing that is seen.

\* Mutant: the flag is cleared and the content is not.
ContentKept == draft

Emptied == 0

RenewNow(i) ==
  /\ present /\ sent[i].answer = "ok" /\ sent[i].done = "renew"
  /\ SetAnswer(i, "told")
  /\ draft' = Emptied /\ flag' = FALSE
  /\ UNCHANGED <<form, drafts, asking, toast, present, accepted, losses, clickThrew>>

LeaveNow(i) ==
  /\ present /\ sent[i].answer = "ok" /\ sent[i].done \in {"leave", "leaveHeld"}
  /\ SetAnswer(i, "told")
  /\ present' = FALSE /\ flag' = (flag /\ sent[i].done = "leaveHeld")
  /\ UNCHANGED <<form, draft, drafts, asking, toast, accepted, losses, clickThrew>>

ShowToast(i) ==
  /\ present /\ sent[i].answer = "ok" /\ sent[i].done \in Toasts
  /\ SetAnswer(i, "told")
  /\ toast' = sent[i].done
  /\ UNCHANGED <<form, draft, drafts, flag, asking, present, accepted, losses, clickThrew>>

\* The message is closed, by the user or by its timer.
CloseToast ==
  /\ toast # "none" /\ toast' = "none"
  /\ IF toast = "toastRenew"
     THEN draft' = Emptied /\ flag' = FALSE /\ present' = present
     ELSE draft' = draft /\ flag' = flag /\ present' = FALSE
  /\ UNCHANGED <<form, drafts, asking, sent, accepted, losses, clickThrew>>

\* Mutant: the error callback empties the form as success does.
FailEmpties(i) ==
  /\ present /\ sent[i].answer = "failed" /\ SetAnswer(i, "told")
  /\ flag' = FALSE /\ draft' = 0
  /\ UNCHANGED <<form, drafts, asking, toast, present, accepted, losses, clickThrew>>

Fail(i) ==
  /\ present /\ sent[i].answer = "failed" /\ SetAnswer(i, "told")
  /\ flag' = FALSE
  /\ UNCHANGED <<form, draft, drafts, asking, toast, present, accepted, losses, clickThrew>>

----------------------------------------------------------------------------

Asked == ConfirmForm \/ ConfirmAgain \/ CancelForm
Served == \E i \in DOMAIN sent : Accept(i) \/ Refuse(i)
CalledBack ==
  CloseToast \/ \E i \in DOMAIN sent : RenewNow(i) \/ LeaveNow(i) \/ ShowToast(i) \/ Fail(i)

FormNext ==
  Edit \/ Overwrite \/ Submit \/ SubmitThrows \/ Ask \/ Leave \/ Asked \/ Served \/ CalledBack

FormSpec == FormInit /\ [][FormNext]_formVars

\* Dialogs are answered, requests end, callbacks run, timers fire.
FormFairness == WF_formVars(Asked) /\ WF_formVars(Served) /\ WF_formVars(CalledBack)

----------------------------------------------------------------------------
\* Properties.

Unanswered == {i \in DOMAIN sent : sent[i].answer # "told"}

\* A form with a flag never has two requests under way, nor one while it
\* asks whether to send another.
OneRequest ==
  form.flag # "never" =>
    /\ \A i, j \in Unanswered : i = j
    /\ form.flag = "click" /\ asking => Unanswered = {}

\* A content that was typed is accepted twice only if the user was told that it
\* had failed: no double click, no answer and no closed message sends it again.
AcceptedOnce ==
  form.flag # "never" => \A d \in Draft : accepted[d] > 1 => losses > 0

\* What was typed leaves the form by a success only; the page of an object
\* is the exception, which the list overwrites.
KeptUntilAccepted ==
  [][draft # 0 /\ draft' = 0 =>
       \/ form = UpdateObject \/ toast # "none"
       \/ \E i \in DOMAIN sent : sent[i].answer = "ok"]_formVars

\* Every click comes to an end that gives the form back or closes it, but for
\* the click on a list of moves that was never touched, which throws.
FormFreed == flag ~> (~flag \/ ~present \/ clickThrew)
=============================================================================
