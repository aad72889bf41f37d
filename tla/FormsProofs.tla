----------------------------- MODULE FormsProofs -----------------------------
(***************************************************************************)
(* Theorems about Forms, for every number of contents, requests and lost   *)
(* answers: a form with a flag has one request at a time, and no content   *)
(* is accepted twice unless an answer was lost.                            *)
(***************************************************************************)
EXTENDS Forms, TLAPS

\* What the proofs need of the twelve kinds.
LEMMA KindFacts ==
  ASSUME NEW k \in Kinds
  PROVE  /\ k.done \subseteq Done
         /\ k.asks => k.done \cap Toasts = {}
         /\ k.flag = "never" => k.done = {"leave"}
         /\ k.flag = "confirmed" => k.done = {"leaveHeld"}
         /\ k.flag \in {"click", "confirmed", "never"}
         /\ ~k.asks => k.flag = "click"
<1>1. CASE k \in {QuickMove, CreateStorage, CreateType, CreateLoan}
  BY <1>1 DEF QuickMove, CreateStorage, CreateType, CreateLoan, Done, Toasts
<1>2. CASE k = TypeOfLoan
  BY <1>2 DEF TypeOfLoan, Done, Toasts
<1>3. CASE k = UpdateObject
  BY <1>3 DEF UpdateObject, Done, Toasts
<1>4. CASE k = CreateGuest
  BY <1>4 DEF CreateGuest, Done, Toasts
<1>5. CASE k = SendComment
  BY <1>5 DEF SendComment, Done, Toasts
<1>6. CASE k = LoanState
  BY <1>6 DEF LoanState, Done, Toasts
<1>7. CASE k = DeleteObject
  BY <1>7 DEF DeleteObject, Done, Toasts
<1>8. CASE k = DeleteStorage
  BY <1>8 DEF DeleteStorage, Done, Toasts
<1>9. CASE k = DeleteType
  BY <1>9 DEF DeleteType, Done, Toasts
<1> QED
  BY <1>1, <1>2, <1>3, <1>4, <1>5, <1>6, <1>7, <1>8, <1>9 DEF Kinds

LEMMA SendType ==
  ASSUME FormTypeOK, Send
  PROVE  /\ sent' \in Seq(Request)
         /\ Len(sent') = Len(sent) + 1
         /\ \A i \in DOMAIN sent : sent'[i] = sent[i] /\ i # Len(sent')
         /\ DOMAIN sent' = DOMAIN sent \cup {Len(sent')}
         /\ \E done \in form.done :
              sent'[Len(sent')] = [draft |-> draft, done |-> done, answer |-> "pending"]
<1>1. PICK done \in form.done :
        sent' = Append(sent, [draft |-> draft, done |-> done, answer |-> "pending"])
  BY DEF Send
<1>2. done \in Done /\ draft \in {0} \cup Draft
  BY <1>1, KindFacts DEF FormTypeOK, Draft
<1>3. [draft |-> draft, done |-> done, answer |-> "pending"] \in Request
  BY <1>2 DEF Request, Answers
<1> QED
  BY <1>1, <1>3 DEF FormTypeOK

LEMMA AnswerType ==
  ASSUME FormTypeOK, NEW i \in DOMAIN sent, NEW answer \in Answers, SetAnswer(i, answer)
  PROVE  /\ sent' \in Seq(Request)
         /\ DOMAIN sent' = DOMAIN sent
         /\ sent'[i].answer = answer
         /\ sent'[i].done = sent[i].done /\ sent'[i].draft = sent[i].draft
         /\ \A j \in DOMAIN sent : j # i => sent'[j] = sent[j]
<1>1. sent[i] \in Request /\ sent \in Seq(Request)
  BY DEF FormTypeOK
<1>2. [sent[i] EXCEPT !.answer = answer] \in Request
  BY <1>1 DEF Request
<1>3. sent'[i] = [sent[i] EXCEPT !.answer = answer]
  BY <1>1 DEF SetAnswer
<1>4. /\ sent'[i].answer = answer
      /\ sent'[i].done = sent[i].done /\ sent'[i].draft = sent[i].draft
  BY <1>1, <1>3 DEF Request
<1> QED
  BY <1>1, <1>2, <1>4 DEF SetAnswer

\* A request that is sent is one more without an answer.
LEMMA UnansweredAfterSend ==
  ASSUME FormTypeOK, Send
  PROVE  Unanswered' = Unanswered \cup {Len(sent')}
<1>1. sent'[Len(sent')].answer = "pending"
  <2>1. PICK done \in form.done :
          sent'[Len(sent')] = [draft |-> draft, done |-> done, answer |-> "pending"]
    BY SendType
  <2> QED
    BY <2>1
<1>2. \A i \in DOMAIN sent : sent'[i] = sent[i]
  BY SendType
<1>3. DOMAIN sent' = DOMAIN sent \cup {Len(sent')}
  BY SendType
<1> QED
  BY <1>1, <1>2, <1>3 DEF Unanswered

\* An answer that the page was told is one less; any other changes nothing.
LEMMA UnansweredAfterAnswer ==
  ASSUME FormTypeOK, NEW i \in Unanswered, NEW answer \in Answers, SetAnswer(i, answer)
  PROVE  Unanswered' = IF answer = "told" THEN Unanswered \ {i} ELSE Unanswered
<1>1. i \in DOMAIN sent /\ sent[i] \in Request
  BY DEF Unanswered, FormTypeOK
<1>2. /\ DOMAIN sent' = DOMAIN sent
      /\ \A j \in DOMAIN sent : j # i => sent'[j] = sent[j]
      /\ sent'[i].answer = answer
  BY <1>1, AnswerType
<1> QED
  BY <1>1, <1>2 DEF Unanswered

----------------------------------------------------------------------------
(* The invariant.  Types are part of it: that a confirmed request has a    *)
(* content takes that none is emptied while the confirmation is open.      *)

DoneOfForm == \A i \in DOMAIN sent : sent[i].done \in form.done

\* A message of success is shown when nothing is under way, and never by a
\* form that asks.
ToastAlone == toast # "none" => ~form.asks /\ Unanswered = {}

\* An open confirmation has a content; a flag set at the click is still set,
\* and nothing has been under way since.
AskingHolds ==
  asking =>
    /\ form.asks /\ draft # 0
    /\ form.flag = "click" => flag /\ present /\ Unanswered = {}
    /\ form.flag = "confirmed" /\ ~present => flag

\* The flag is set as long as a request is under way.
FlagHolds ==
  form.flag # "never" =>
    /\ \A i, j \in Unanswered : i = j
    /\ Unanswered # {} => flag

FlagInv == FormTypeOK /\ DoneOfForm /\ ToastAlone /\ AskingHolds /\ FlagHolds

LEMMA FlagInvInit ==
  ASSUME FormInit
  PROVE  FlagInv
<1>1. FormTypeOK
  <2>1. draft \in 0 .. MaxDrafts /\ drafts \in 0 .. MaxDrafts /\ losses \in 0 .. MaxLosses
    BY FormsAssumption DEF FormInit
  <2>2. sent \in Seq(Request) /\ accepted \in [Draft -> Nat]
    BY DEF FormInit
  <2> QED
    BY <2>1, <2>2 DEF FormInit, FormTypeOK
<1>2. Unanswered = {}
  BY DEF FormInit, Unanswered
<1> QED
  BY <1>1, <1>2 DEF FormInit, FlagInv, DoneOfForm, ToastAlone, AskingHolds, FlagHolds

\* Every kind with its flag "click" or "confirmed", as the steps need it.
LEMMA SendKeepsFlagInv ==
  ASSUME FlagInv, Send, toast = "none",
         form.flag # "never" => Unanswered = {} /\ flag',
         asking' = FALSE, flag' \in BOOLEAN,
         UNCHANGED <<form, draft, drafts, toast, present, accepted, losses, clickThrew>>
  PROVE  FlagInv'
<1>1. FormTypeOK'
  <2>1. sent' \in Seq(Request)
    BY SendType DEF FlagInv
  <2> QED
    BY <2>1 DEF FlagInv, FormTypeOK
<1>2. DoneOfForm'
  <2>1. PICK done \in form.done :
          sent'[Len(sent')] = [draft |-> draft, done |-> done, answer |-> "pending"]
    BY SendType DEF FlagInv
  <2>2. sent'[Len(sent')].done \in form.done
    BY <2>1
  <2> QED
    <3>1. /\ \A i \in DOMAIN sent : sent'[i] = sent[i]
          /\ DOMAIN sent' = DOMAIN sent \cup {Len(sent')}
      BY SendType DEF FlagInv
    <3> QED
      BY <2>2, <3>1 DEF FlagInv, DoneOfForm
<1>3. ToastAlone' /\ AskingHolds'
  BY DEF ToastAlone, AskingHolds
<1>4. FlagHolds'
  BY UnansweredAfterSend DEF FlagInv, FlagHolds
<1> QED
  BY <1>1, <1>2, <1>3, <1>4 DEF FlagInv

\* The requests themselves are as they were.
LEMMA SameSent ==
  ASSUME sent' = sent
  PROVE  Unanswered' = Unanswered
BY DEF Unanswered

LEMMA FlagInvStep ==
  ASSUME FlagInv, [FormNext]_formVars
  PROVE  FlagInv'
<1> USE FormsAssumption
<1>0. form \in Kinds
  BY DEF FlagInv, FormTypeOK
<1>1. CASE Edit
  BY <1>1, SameSent DEF Edit, Usable, FlagInv, FormTypeOK, Draft, DoneOfForm, ToastAlone,
     AskingHolds, FlagHolds
<1>2. CASE Overwrite
  <2>1. ~asking
    BY <1>2 DEF Overwrite, UpdateObject, FlagInv, AskingHolds
  <2> QED
    BY <1>2, <2>1, SameSent DEF Overwrite, FlagInv, FormTypeOK, DoneOfForm, ToastAlone,
       AskingHolds, FlagHolds
<1>3. CASE Submit
  <2>1. Unanswered = {}
    BY <1>0, <1>3, KindFacts DEF Submit, FlagInv, FlagHolds
  <2> QED
    BY <1>3, <2>1, SendKeepsFlagInv DEF Submit, Usable, FlagInv, FormTypeOK
<1>11. CASE SubmitThrows
  <2>1. form.flag # "never" => flag'
    BY <1>11 DEF SubmitThrows
  <2>2. FormTypeOK'
    BY <1>11 DEF SubmitThrows, FlagInv, FormTypeOK
  <2> QED
    BY <1>11, <2>1, <2>2, SameSent DEF SubmitThrows, Usable, FlagInv, DoneOfForm, ToastAlone,
       AskingHolds, FlagHolds
<1>4. CASE Ask
  <2>1. FormTypeOK'
    BY <1>4 DEF Ask, FlagInv, FormTypeOK
  <2>2. AskingHolds'
    BY <1>4, SameSent DEF Ask, Usable, FlagInv, AskingHolds, FlagHolds
  <2> QED
    BY <1>4, <2>1, <2>2, SameSent DEF Ask, FlagInv, DoneOfForm, ToastAlone, FlagHolds
<1>5. CASE Leave
  BY <1>5, SameSent DEF Leave, Usable, FlagInv, FormTypeOK, DoneOfForm, ToastAlone,
     AskingHolds, FlagHolds
<1>6. CASE Asked
  <2>1. CASE ConfirmForm
    <3>1. toast = "none"
      BY <2>1 DEF ConfirmForm, FlagInv, AskingHolds, ToastAlone
    <3>2. form.flag # "never" => Unanswered = {} /\ flag'
      BY <1>0, <2>1, KindFacts DEF ConfirmForm, FlagInv, AskingHolds, FlagHolds
    <3>3. flag' \in BOOLEAN
      BY <2>1 DEF ConfirmForm, FlagInv, FormTypeOK
    <3> QED
      BY <2>1, <3>1, <3>2, <3>3, SendKeepsFlagInv DEF ConfirmForm
  <2>2. CASE ConfirmAgain
    BY <2>2, SameSent DEF ConfirmAgain, FlagInv, FormTypeOK, DoneOfForm, ToastAlone,
       AskingHolds, FlagHolds
  <2>3. CASE CancelForm
    <3>1. form.flag # "never" => (Unanswered # {} => flag')
      BY <2>3 DEF CancelForm, FlagAfterCancel, FlagInv, AskingHolds, FlagHolds
    <3>2. FormTypeOK'
      BY <2>3 DEF CancelForm, FlagAfterCancel, FlagInv, FormTypeOK
    <3> QED
      BY <2>3, <3>1, <3>2, SameSent DEF CancelForm, FlagInv, DoneOfForm, ToastAlone,
         AskingHolds, FlagHolds
  <2> QED
    BY <1>6, <2>1, <2>2, <2>3 DEF Asked
<1>7. CASE Served
  <2>1. PICK i \in DOMAIN sent : Accept(i) \/ Refuse(i)
    BY <1>7 DEF Served
  <2>2. PICK answer \in {"ok", "failed"} : SetAnswer(i, answer)
    BY <2>1 DEF Accept, Refuse
  <2>3. i \in Unanswered /\ answer \in Answers
    BY <2>1, <2>2 DEF Accept, Refuse, Unserved, Unanswered, Answers
  <2>4. Unanswered' = Unanswered
    BY <2>2, <2>3, UnansweredAfterAnswer DEF FlagInv
  <2>5. UNCHANGED <<form, draft, drafts, flag, asking, toast, present, clickThrew>>
    BY <2>1 DEF Accept, Refuse
  <2>6. sent' \in Seq(Request) /\ DoneOfForm'
    <3>1. /\ sent' \in Seq(Request) /\ DOMAIN sent' = DOMAIN sent
          /\ sent'[i].done = sent[i].done
          /\ \A j \in DOMAIN sent : j # i => sent'[j] = sent[j]
      BY <2>2, <2>3, AnswerType DEF FlagInv
    <3> QED
      BY <2>5, <3>1 DEF FlagInv, DoneOfForm
  <2>7. accepted' \in [Draft -> Nat] /\ losses' \in 0 .. MaxLosses
    <3>1. CASE Accept(i)
      <4>2. accepted' \in [Draft -> Nat]
        BY <3>1 DEF Accept, FlagInv, FormTypeOK
      <4>3. losses' \in 0 .. MaxLosses
        BY <3>1 DEF Accept, FlagInv, FormTypeOK
      <4> QED
        BY <4>2, <4>3
    <3>2. CASE Refuse(i)
      BY <3>2 DEF Refuse, FlagInv, FormTypeOK
    <3> QED
      BY <2>1, <3>1, <3>2
  <2> QED
    BY <2>4, <2>5, <2>6, <2>7 DEF FlagInv, FormTypeOK, ToastAlone, AskingHolds, FlagHolds
<1>8. CASE CloseToast
  <2>1. ~asking /\ Unanswered = {}
    BY <1>8 DEF CloseToast, FlagInv, ToastAlone, AskingHolds
  <2>2. FormTypeOK'
    <3>1. draft' \in 0 .. MaxDrafts
      BY <1>8 DEF CloseToast, Emptied, FlagInv, FormTypeOK
    <3>2. flag' \in BOOLEAN /\ present' \in BOOLEAN
      BY <1>8 DEF CloseToast, FlagInv, FormTypeOK
    <3> QED
      BY <1>8, <3>1, <3>2 DEF CloseToast, FlagInv, FormTypeOK
  <2> QED
    BY <1>8, <2>1, <2>2, SameSent DEF CloseToast, FlagInv, DoneOfForm, ToastAlone, AskingHolds,
       FlagHolds
<1>9. CASE \E i \in DOMAIN sent : RenewNow(i) \/ LeaveNow(i) \/ ShowToast(i) \/ Fail(i)
  <2>1. PICK i \in DOMAIN sent : RenewNow(i) \/ LeaveNow(i) \/ ShowToast(i) \/ Fail(i)
    BY <1>9
  <2>2. SetAnswer(i, "told") /\ i \in Unanswered /\ "told" \in Answers
    BY <2>1 DEF RenewNow, LeaveNow, ShowToast, Fail, Unanswered, Answers
  <2>3. Unanswered' = Unanswered \ {i}
    BY <2>2, UnansweredAfterAnswer DEF FlagInv
  <2>4. form' = form /\ asking' = asking
    BY <2>1 DEF RenewNow, LeaveNow, ShowToast, Fail
  <2>5. sent' \in Seq(Request) /\ DoneOfForm'
    <3>1. /\ sent' \in Seq(Request) /\ DOMAIN sent' = DOMAIN sent
          /\ sent'[i].done = sent[i].done
          /\ \A j \in DOMAIN sent : j # i => sent'[j] = sent[j]
      BY <2>2, AnswerType DEF FlagInv
    <3> QED
      BY <2>4, <3>1 DEF FlagInv, DoneOfForm
  <2>6. FormTypeOK'
    <3>1. draft' \in 0 .. MaxDrafts
      BY <2>1 DEF RenewNow, LeaveNow, ShowToast, Fail, Emptied, FlagInv, FormTypeOK
    <3>2. flag' \in BOOLEAN /\ present' \in BOOLEAN
      BY <2>1 DEF RenewNow, LeaveNow, ShowToast, Fail, FlagInv, FormTypeOK
    <3>3. toast' \in Toasts \cup {"none"}
      BY <2>1 DEF RenewNow, LeaveNow, ShowToast, Fail, FlagInv, FormTypeOK
    <3>4. UNCHANGED <<form, drafts, asking, accepted, losses, clickThrew>>
      BY <2>1 DEF RenewNow, LeaveNow, ShowToast, Fail
    <3> QED
      BY <2>5, <3>1, <3>2, <3>3, <3>4 DEF FlagInv, FormTypeOK
  <2>7. form.flag # "never" => Unanswered' = {} /\ flag
    BY <2>2, <2>3 DEF FlagInv, FlagHolds
  <2>8. FlagHolds'
    BY <2>4, <2>7 DEF FlagHolds
  <2>9. asking => form.flag # "click"
    BY <2>2 DEF FlagInv, AskingHolds
  <2>10. asking => form.asks /\ form.done \in {{"leave"}, {"leaveHeld"}}
    BY <1>0, <2>9, KindFacts DEF FlagInv, AskingHolds
  <2>11. sent[i].done \in form.done
    BY DEF FlagInv, DoneOfForm
  <2>12. AskingHolds'
    <3> SUFFICES ASSUME asking
                 PROVE  AskingHolds'
      BY <2>4 DEF AskingHolds
    <3>1. sent[i].done \in {"leave", "leaveHeld"}
      BY <2>10, <2>11
    <3>2. draft' = draft
      BY <2>1, <3>1 DEF RenewNow, LeaveNow, ShowToast, Fail
    <3>3. form.flag = "confirmed" => sent[i].done = "leaveHeld"
      BY <1>0, <2>11, KindFacts
    <3>4. form.flag = "confirmed" /\ ~present' => flag'
      <4> SUFFICES ASSUME form.flag = "confirmed", ~present'
                   PROVE  flag'
        OBVIOUS
      <4>1. LeaveNow(i)
        <5>1. RenewNow(i) \/ ShowToast(i) \/ Fail(i) => present /\ present' = present
          BY DEF RenewNow, ShowToast, Fail
        <5> QED
          BY <2>1, <5>1
      <4>2. flag
        BY <2>7
      <4> QED
        BY <3>3, <4>1, <4>2 DEF LeaveNow
    <3> QED
      BY <2>4, <2>9, <3>2, <3>4 DEF FlagInv, AskingHolds
  <2>13. ToastAlone'
    <3>1. CASE ShowToast(i)
      <4>1. ~form.asks
        BY <1>0, <2>11, <3>1, KindFacts DEF ShowToast
      <4> QED
        BY <1>0, <2>4, <2>7, <4>1, KindFacts DEF ToastAlone
    <3>2. CASE RenewNow(i) \/ LeaveNow(i) \/ Fail(i)
      BY <2>2, <3>2 DEF RenewNow, LeaveNow, Fail, FlagInv, ToastAlone
    <3> QED
      BY <2>1, <3>1, <3>2
  <2> QED
    BY <2>5, <2>6, <2>8, <2>12, <2>13 DEF FlagInv
<1>10. CASE UNCHANGED formVars
  BY <1>10, SameSent DEF formVars, FlagInv, FormTypeOK, DoneOfForm, ToastAlone, AskingHolds,
     FlagHolds
<1> QED
  BY <1>1, <1>2, <1>3, <1>4, <1>5, <1>6, <1>7, <1>8, <1>9, <1>10, <1>11
  DEF FormNext, CalledBack

\* The invariant holds of every behaviour of a form.
LEMMA FlagInvAlways == FormSpec => []FlagInv
BY FlagInvInit, FlagInvStep, PTL DEF FormSpec

\* Every variable of a form keeps its type: in particular, what success will do
\* is something its form does, and no more answers are lost than there may be.
THEOREM FormTypeCorrect == FormSpec => []FormTypeOK
<1>1. FlagInv => FormTypeOK
  BY DEF FlagInv
<1> QED
  BY <1>1, FlagInvAlways, PTL

\* A form with a flag never has two requests under way, nor one while it
\* asks whether to send another.
THEOREM OneRequestAlways == FormSpec => []OneRequest
<1>1. FlagInv => OneRequest
  BY DEF FlagInv, AskingHolds, FlagHolds, OneRequest
<1> QED
  BY <1>1, FlagInvAlways, PTL

----------------------------------------------------------------------------
(* No content is accepted twice.  While no answer has been lost, a content *)
(* that was accepted is not in a form that can still send it: its success  *)
(* is under way, its message is shown, or the page is closed.              *)

DraftsNumbered ==
  /\ draft <= drafts
  /\ \A i \in DOMAIN sent : sent[i].draft <= drafts
  /\ \A d \in Draft : accepted[d] # 0 => d <= drafts

OnceAccepted == \A d \in Draft : accepted[d] <= 1

PendingIsNew ==
  \A i \in DOMAIN sent : sent[i].answer = "pending" /\ sent[i].draft # 0 =>
    accepted[sent[i].draft] = 0

SuccessUnderWay ==
  \/ \E i \in DOMAIN sent : sent[i].answer = "ok"
  \/ toast # "none" \/ ~present

ShownIsNew == draft # 0 /\ ~SuccessUnderWay => accepted[draft] = 0

AcceptInv ==
  /\ FlagInv /\ DraftsNumbered
  /\ form.flag # "never" /\ losses = 0 => OnceAccepted /\ PendingIsNew /\ ShownIsNew

LEMMA AcceptInvInit ==
  ASSUME FormInit
  PROVE  AcceptInv
<1>1. DraftsNumbered
  BY FormsAssumption DEF FormInit, DraftsNumbered
<1>2. OnceAccepted /\ PendingIsNew
  BY DEF FormInit, OnceAccepted, PendingIsNew, Draft
<1>3. ShownIsNew
  <2>1. draft # 0 => draft \in Draft
    BY FormsAssumption DEF FormInit, Draft
  <2> QED
    BY <2>1 DEF FormInit, ShownIsNew
<1> QED
  BY <1>1, <1>2, <1>3, FlagInvInit DEF AcceptInv

\* A content is sent only when nothing is known, or can be, of its success.
LEMMA SendKeepsAcceptInv ==
  ASSUME AcceptInv, FlagInv', Send, toast = "none",
         form.flag # "never" => Unanswered = {} /\ present,
         UNCHANGED <<form, draft, drafts, toast, present, accepted, losses>>
  PROVE  AcceptInv'
<1>1. PICK done \in form.done :
        /\ sent'[Len(sent')] = [draft |-> draft, done |-> done, answer |-> "pending"]
        /\ \A i \in DOMAIN sent : sent'[i] = sent[i]
        /\ DOMAIN sent' = DOMAIN sent \cup {Len(sent')}
  BY SendType DEF AcceptInv, FlagInv
<1>2. sent'[Len(sent')].draft = draft /\ sent'[Len(sent')].answer = "pending"
  BY <1>1
<1>3. DraftsNumbered'
  BY <1>1, <1>2 DEF AcceptInv, DraftsNumbered
<1>4. ASSUME form.flag # "never", losses = 0
      PROVE  OnceAccepted' /\ PendingIsNew' /\ ShownIsNew'
  <2>1. OnceAccepted /\ PendingIsNew /\ ShownIsNew
    BY <1>4 DEF AcceptInv
  <2>2. ~SuccessUnderWay
    BY <1>4 DEF SuccessUnderWay, Unanswered
  <2>3. draft # 0 => accepted[draft] = 0
    BY <2>1, <2>2 DEF ShownIsNew
  <2>4. OnceAccepted' /\ ShownIsNew'
    BY <2>1, <2>3 DEF OnceAccepted, ShownIsNew
  <2>5. PendingIsNew'
    BY <1>1, <1>2, <2>1, <2>3 DEF PendingIsNew
  <2> QED
    BY <2>4, <2>5
<1> QED
  BY <1>3, <1>4 DEF AcceptInv

\* A step that neither sends, answers nor accepts, and leaves the content
\* and every success as they were.
LEMMA QuietKeepsAcceptInv ==
  ASSUME AcceptInv, FlagInv',
         UNCHANGED <<form, sent, accepted, losses, drafts>>,
         draft' \in {0, draft},
         draft' # 0 /\ SuccessUnderWay => SuccessUnderWay'
  PROVE  AcceptInv'
<1>1. DraftsNumbered'
  BY DEF AcceptInv, DraftsNumbered, FlagInv, FormTypeOK
<1>2. ASSUME form.flag # "never", losses = 0
      PROVE  OnceAccepted' /\ PendingIsNew' /\ ShownIsNew'
  <2>1. OnceAccepted /\ PendingIsNew /\ ShownIsNew
    BY <1>2 DEF AcceptInv
  <2>2. OnceAccepted' /\ PendingIsNew'
    BY <2>1 DEF OnceAccepted, PendingIsNew
  <2>3. ShownIsNew'
    BY <2>1 DEF ShownIsNew
  <2> QED
    BY <2>2, <2>3
<1> QED
  BY <1>1, <1>2 DEF AcceptInv

LEMMA AcceptInvStep ==
  ASSUME AcceptInv, [FormNext]_formVars
  PROVE  AcceptInv'
<1> USE FormsAssumption
<1>0. FlagInv /\ FlagInv' /\ form \in Kinds
  BY FlagInvStep DEF AcceptInv, FlagInv, FormTypeOK
<1>1. CASE Edit
  <2>1. draft' = drafts + 1 /\ drafts' = drafts + 1 /\ draft' \in Draft
    BY <1>1 DEF Edit, AcceptInv, FlagInv, FormTypeOK, Draft
  <2>2. DraftsNumbered'
    <3>1. \A i \in DOMAIN sent : sent[i].draft \in Nat
      <4>1. \A i \in DOMAIN sent : sent[i] \in Request
        BY <1>0 DEF FlagInv, FormTypeOK
      <4> QED
        BY <4>1 DEF Request, Draft
    <3>2. drafts \in Nat /\ Draft \subseteq Nat
      BY <1>0 DEF FlagInv, FormTypeOK, Draft
    <3> QED
      BY <1>1, <2>1, <3>1, <3>2 DEF Edit, AcceptInv, DraftsNumbered
  <2>3. accepted[draft'] = 0
    BY <1>0, <2>1 DEF AcceptInv, DraftsNumbered, FlagInv, FormTypeOK
  <2>4. ASSUME form.flag # "never", losses = 0
        PROVE  OnceAccepted' /\ PendingIsNew' /\ ShownIsNew'
    <3>1. OnceAccepted /\ PendingIsNew
      BY <2>4 DEF AcceptInv
    <3>2. OnceAccepted' /\ PendingIsNew'
      BY <1>1, <3>1 DEF Edit, OnceAccepted, PendingIsNew
    <3>3. ShownIsNew'
      BY <1>1, <2>3 DEF Edit, ShownIsNew
    <3> QED
      BY <3>2, <3>3
  <2>5. UNCHANGED <<form, losses>>
    BY <1>1 DEF Edit
  <2> QED
    BY <1>0, <2>2, <2>4, <2>5 DEF AcceptInv
<1>2. CASE Overwrite \/ SubmitThrows \/ Ask \/ Leave \/ ConfirmAgain \/ CancelForm \/ CloseToast
           \/ UNCHANGED formVars
  <2>1. UNCHANGED <<form, sent, accepted, losses, drafts>> /\ draft' \in {0, draft}
    BY <1>2 DEF Overwrite, SubmitThrows, Ask, Leave, ConfirmAgain, CancelForm, CloseToast, Emptied,
       formVars
  <2>2. draft' # 0 /\ SuccessUnderWay => SuccessUnderWay'
    BY <1>2 DEF Overwrite, SubmitThrows, Ask, Leave, ConfirmAgain, CancelForm, CloseToast, Emptied,
       formVars,
       SuccessUnderWay
  <2> QED
    BY <1>0, <2>1, <2>2, QuietKeepsAcceptInv
<1>3. CASE Submit
  <2>1. form.flag # "never" => Unanswered = {} /\ present
    BY <1>0, <1>3, KindFacts DEF Submit, Usable, FlagInv, FlagHolds
  <2> QED
    BY <1>0, <1>3, <2>1, SendKeepsAcceptInv DEF Submit, Usable
<1>4. CASE ConfirmForm
  <2>1. toast = "none"
    BY <1>0, <1>4 DEF ConfirmForm, FlagInv, AskingHolds, ToastAlone
  <2>2. form.flag # "never" => Unanswered = {} /\ present
    BY <1>0, <1>4, KindFacts DEF ConfirmForm, FlagInv, AskingHolds, FlagHolds
  <2> QED
    BY <1>0, <1>4, <2>1, <2>2, SendKeepsAcceptInv DEF ConfirmForm
<1>5. CASE Served
  <2>1. PICK i \in DOMAIN sent : Accept(i) \/ Refuse(i)
    BY <1>5 DEF Served
  <2>2. PICK answer \in {"ok", "failed"} : SetAnswer(i, answer) /\ (answer = "failed" /\ losses' = 0 => Refuse(i))
    BY <1>0, <2>1 DEF Accept, Refuse, FlagInv, FormTypeOK
  <2>3. i \in Unanswered /\ answer \in Answers /\ sent[i].answer = "pending"
    BY <2>1, <2>2 DEF Accept, Refuse, Unserved, Unanswered, Answers
  <2>4. /\ DOMAIN sent' = DOMAIN sent
        /\ sent'[i].answer = answer /\ sent'[i].draft = sent[i].draft
        /\ \A j \in DOMAIN sent : j # i => sent'[j] = sent[j]
    BY <1>0, <2>2, <2>3, AnswerType DEF FlagInv
  <2>5. UNCHANGED <<form, draft, drafts, toast, present>>
    BY <2>1 DEF Accept, Refuse
  <2>6. /\ accepted \in [Draft -> Nat]
        /\ \/ accepted' = accepted
           \/ accepted' = [d \in Draft |-> accepted[d] + (IF d = sent[i].draft THEN 1 ELSE 0)]
    BY <1>0, <2>1 DEF Accept, Refuse, FlagInv, FormTypeOK
  <2>7. \A d \in Draft :
          /\ accepted[d] \in Nat
          /\ accepted'[d] = accepted[d] \/ (d = sent[i].draft /\ accepted'[d] = accepted[d] + 1)
    BY <2>6
  <2>8. DraftsNumbered'
    <3>1. \A d \in Draft : accepted'[d] # 0 => d <= drafts
      BY <2>7 DEF AcceptInv, DraftsNumbered
    <3> QED
      BY <2>4, <2>5, <3>1 DEF AcceptInv, DraftsNumbered
  <2>9. ASSUME form.flag # "never", losses' = 0
        PROVE  OnceAccepted' /\ PendingIsNew' /\ ShownIsNew'
    <3>1. losses = 0
      BY <1>0, <2>1, <2>9 DEF Accept, Refuse, FlagInv, FormTypeOK
    <3>2. OnceAccepted /\ PendingIsNew /\ ShownIsNew
      BY <2>9, <3>1 DEF AcceptInv
    <3>3. sent[i].draft # 0 => accepted[sent[i].draft] = 0
      BY <2>3, <3>2 DEF PendingIsNew
    <3>4. OnceAccepted'
      <4>1. \A d \in Draft : d # 0
        BY DEF Draft
      <4> QED
        BY <2>7, <3>2, <3>3, <4>1 DEF OnceAccepted
    <3>5. \A j \in DOMAIN sent : sent[j].answer = "pending" => j = i
      BY <1>0, <2>3, <2>9 DEF FlagInv, FlagHolds, Unanswered
    <3>6. PendingIsNew'
      BY <2>2, <2>4, <3>5 DEF PendingIsNew
    <3>7. ShownIsNew'
      <4>1. CASE answer = "ok"
        BY <2>4, <4>1 DEF ShownIsNew, SuccessUnderWay
      <4>2. CASE answer = "failed"
        <5>1. accepted' = accepted
          BY <2>2, <2>9, <4>2 DEF Refuse
        <5>2. SuccessUnderWay => SuccessUnderWay'
          BY <2>3, <2>4, <2>5 DEF SuccessUnderWay
        <5> QED
          BY <2>5, <3>2, <5>1, <5>2 DEF ShownIsNew
      <4> QED
        BY <4>1, <4>2
    <3> QED
      BY <3>4, <3>6, <3>7
  <2> QED
    BY <1>0, <2>5, <2>8, <2>9 DEF AcceptInv
<1>6. CASE \E i \in DOMAIN sent : RenewNow(i) \/ LeaveNow(i) \/ ShowToast(i) \/ Fail(i)
  <2>1. PICK i \in DOMAIN sent : RenewNow(i) \/ LeaveNow(i) \/ ShowToast(i) \/ Fail(i)
    BY <1>6
  <2>2. SetAnswer(i, "told") /\ i \in Unanswered /\ "told" \in Answers
    BY <2>1 DEF RenewNow, LeaveNow, ShowToast, Fail, Unanswered, Answers
  <2>3. /\ DOMAIN sent' = DOMAIN sent
        /\ sent'[i].answer = "told" /\ sent'[i].draft = sent[i].draft
        /\ \A j \in DOMAIN sent : j # i => sent'[j] = sent[j]
    BY <1>0, <2>2, AnswerType DEF FlagInv
  <2>4. UNCHANGED <<form, drafts, accepted, losses>> /\ draft' \in {0, draft}
    BY <2>1 DEF RenewNow, LeaveNow, ShowToast, Fail, Emptied
  <2>5. DraftsNumbered'
    BY <1>0, <2>3, <2>4 DEF AcceptInv, DraftsNumbered, FlagInv, FormTypeOK
  <2>6. ASSUME form.flag # "never", losses = 0
        PROVE  OnceAccepted' /\ PendingIsNew' /\ ShownIsNew'
    <3>1. OnceAccepted /\ PendingIsNew /\ ShownIsNew
      BY <2>6 DEF AcceptInv
    <3>2. OnceAccepted' /\ PendingIsNew'
      BY <2>3, <2>4, <3>1 DEF OnceAccepted, PendingIsNew
    <3>3. ShownIsNew'
      <4>1. CASE Fail(i)
        <5>1. \A j \in DOMAIN sent : sent[j].answer = "ok" => FALSE
          BY <1>0, <2>2, <2>6, <4>1 DEF Fail, FlagInv, FlagHolds, Unanswered
        <5>2. toast = "none" /\ present
          BY <1>0, <2>2, <4>1 DEF Fail, FlagInv, ToastAlone
        <5> QED
          BY <3>1, <4>1, <5>1, <5>2 DEF Fail, ShownIsNew, SuccessUnderWay
      <4>2. CASE RenewNow(i)
        BY <4>2 DEF RenewNow, Emptied, ShownIsNew
      <4>3. CASE LeaveNow(i)
        BY <4>3 DEF LeaveNow, ShownIsNew, SuccessUnderWay
      <4>4. CASE ShowToast(i)
        BY <4>4 DEF ShowToast, ShownIsNew, SuccessUnderWay, Toasts
      <4> QED
        BY <2>1, <4>1, <4>2, <4>3, <4>4
    <3> QED
      BY <3>2, <3>3
  <2> QED
    BY <1>0, <2>4, <2>5, <2>6 DEF AcceptInv
<1> QED
  BY <1>1, <1>2, <1>3, <1>4, <1>5, <1>6 DEF FormNext, Asked, CalledBack

\* A content is accepted twice only if the user was told that it had failed.
THEOREM AcceptedOnceAlways == FormSpec => []AcceptedOnce
<1>1. AcceptInv => AcceptedOnce
  <2> SUFFICES ASSUME AcceptInv, form.flag # "never", NEW d \in Draft, accepted[d] > 1
               PROVE  losses > 0
    BY DEF AcceptedOnce
  <2>1. losses # 0
    BY DEF AcceptInv, OnceAccepted, FlagInv, FormTypeOK
  <2> QED
    BY <2>1, FormsAssumption DEF AcceptInv, FlagInv, FormTypeOK
<1> QED
  BY <1>1, AcceptInvInit, AcceptInvStep, PTL DEF FormSpec

\* What was typed leaves the form by a success only, but for the page of an
\* object, which the list overwrites.
THEOREM KeptUntilAcceptedAlways == FormSpec => KeptUntilAccepted
<1> DEFINE Kept == draft # 0 /\ draft' = 0 =>
                     \/ form = UpdateObject \/ toast # "none"
                     \/ \E i \in DOMAIN sent : sent[i].answer = "ok"
<1>1. ASSUME FlagInv, [FormNext]_formVars
      PROVE  [Kept]_formVars
  <2>1. CASE Edit \/ Overwrite \/ Submit \/ SubmitThrows \/ Ask \/ Leave
    BY <1>1, <2>1 DEF Edit, Overwrite, Submit, SubmitThrows, Ask, Leave, FlagInv, FormTypeOK
  <2>2. CASE Asked
    BY <2>2 DEF Asked, ConfirmForm, ConfirmAgain, CancelForm
  <2>3. CASE Served
    BY <2>3 DEF Served, Accept, Refuse
  <2>4. CASE CalledBack
    BY <2>4 DEF CalledBack, CloseToast, RenewNow, LeaveNow, ShowToast, Fail
  <2> QED
    BY <1>1, <2>1, <2>2, <2>3, <2>4 DEF FormNext
<1> QED
  BY <1>1, FlagInvAlways, PTL DEF FormSpec, KeptUntilAccepted
=============================================================================
