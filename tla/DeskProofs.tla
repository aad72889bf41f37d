------------------------------ MODULE DeskProofs ------------------------------
(***************************************************************************)
(* Theorems about the quick boxes and about what a user does on any of the *)
(* pages, for every value of the constants: what is sent is about what the *)
(* dialogs named, or about what replaced it on the page; the report says   *)
(* what the server did; the page knows when a signature is needed; its     *)
(* flag is set exactly while a click is under way or once a callback has   *)
(* thrown; and no suffix is given twice without an excuse.                 *)
(***************************************************************************)
EXTENDS MCDesk, FormsProofs, SelectorProofs, WellFoundedInduction, TLAPS

----------------------------------------------------------------------------
\* The boxes that change states.

Flow == [stage : Stages, clicked : LineList, lines : LineList, target : Status,
         signed : BOOLEAN, answers : UNION {[1 .. n -> Outcome] : n \in 0 .. MaxTags}]

(* The parts of the invariant. *)

DeskTypes == DeskTypeOK /\ lost \in Nat

\* A box is about one object; the page of an object, about that one only.
OneObject ==
  box # "quickLoan" =>
    /\ found # NoList => DOMAIN found = {1}
    /\ box = "object" => DOMAIN found = {1} /\ followed = {found[1].obj}

\* While the dialogs are open the box is about the object they name, or about
\* one that was chosen earlier and heard of since.
NamedInDialogs ==
  flow.stage \in {"signature", "confirm"} /\ box # "quickLoan" =>
    /\ DOMAIN found = {1} /\ DOMAIN flow.clicked = {1}
    /\ \/ found[1].obj = flow.clicked[1].obj
       \/ box = "quickChangeState" /\ found[1].obj \in followed \cap heard

\* The requests are as many as the objects of the click.
LinesOfClick == flow.stage = "requests" => DOMAIN flow.lines = DOMAIN flow.clicked

\* Answers are those of the lines, and there are some only once they were sent.
AnswersOfLines ==
  IF flow.stage = "requests" THEN DOMAIN flow.answers = DOMAIN flow.lines
  ELSE flow.answers = <<>>

\* The history of the flow agrees with the answers it has.
AnswersAreTrue ==
  flow.stage = "requests" => \A i \in DOMAIN flow.answers :
    /\ flow.answers[i] = "ok" => i \in applied
    /\ flow.answers[i] = "pending" => i \notin applied
    /\ flow.answers[i] = "failed" /\ i \in applied => lost > 0

\* Nothing is reported before the end, nor applied before the confirmation.
NothingYet ==
  /\ flow.stage # "idle" => report = NoReport
  /\ flow.stage \in {"signature", "confirm"} => applied = {}

\* What was clicked as going out without a signature needed none then.
SignedEnough ==
  flow.stage \in {"confirm", "requests"} /\ ~flow.signed /\ flow.target = "Out" =>
    \A i \in DOMAIN flow.clicked :
      flow.clicked[i].obj \in NeedsSignature => flow.clicked[i].status \notin {"InStock", "Out"}

FlowInv ==
  /\ SendingIsFlow /\ LinesOfClick /\ AnswersOfLines /\ AnswersAreTrue
  /\ NothingYet /\ SignedEnough /\ ReportIsTrue

NamedInv == OneObject /\ NamedInDialogs /\ SentAsNamed

DeskInv == DeskTypes /\ NamedInv /\ FlowInv

----------------------------------------------------------------------------

LEMMA FoundType ==
  ASSUME NEW given \in TagList, NEW view \in [Objects -> Status]
  PROVE  Found(given, view) \in LineList /\ DOMAIN Found(given, view) = DOMAIN given
<1>1. PICK n \in 0 .. MaxTags : given \in [1 .. n -> Tag]
  BY DEF TagList
<1>2. \A i \in 1 .. n : given[i] \in Tag /\ (given[i] # NoObject => view[given[i]] \in Status)
  BY <1>1 DEF Tag
<1>3. \A i \in 1 .. n :
        [obj |-> given[i],
         status |-> IF given[i] = NoObject THEN "Deleted" ELSE view[given[i]]] \in Line
  BY <1>2 DEF Line, Status
<1>4. Found(given, view) \in [1 .. n -> Line]
  BY <1>1, <1>3 DEF Found
<1> QED
  BY <1>1, <1>4 DEF LineList

LEMMA FoundAfterType ==
  ASSUME DeskTypes, NEW given \in TagList, NEW view \in [Objects -> Status]
  PROVE  FoundAfter(given, view) \in LineList
BY FoundType DEF FoundAfter, DeskTypes, DeskTypeOK

\* The object of a box, read from the list.
LEMMA FoundOne ==
  ASSUME NEW o \in Objects, NEW view \in [Objects -> Status]
  PROVE  /\ Found(<<o>>, view) \in LineList
         /\ DOMAIN Found(<<o>>, view) = {1} /\ Found(<<o>>, view)[1].obj = o
<1>1. <<o>> \in [1 .. 1 -> Tag] /\ 1 \in 0 .. MaxTags /\ DOMAIN <<o>> = {1}
  BY DeskAssumption DEF Tag
<1>2. <<o>> \in TagList
  BY <1>1 DEF TagList
<1>3. Found(<<o>>, view)[1].obj = o
  BY <1>1 DEF Found
<1> QED
  BY <1>1, <1>2, <1>3, FoundType

LEMMA NoLists == NoList \in LineList /\ <<>> \in TagList /\ DOMAIN NoList = {}
<1>1. 0 \in 0 .. MaxTags /\ <<>> \in [1 .. 0 -> Line] /\ <<>> \in [1 .. 0 -> Tag]
  BY DeskAssumption
<1> QED
  BY <1>1 DEF NoList, LineList, TagList

LEMMA NoFlowType == NoFlow \in Flow
<1>1. <<>> \in LineList /\ <<>> \in UNION {[1 .. n -> Outcome] : n \in 0 .. MaxTags}
  <2>1. 0 \in 0 .. MaxTags
    BY DeskAssumption
  <2>2. <<>> \in [1 .. 0 -> Line] /\ <<>> \in [1 .. 0 -> Outcome]
    OBVIOUS
  <2> QED
    BY <2>1, <2>2 DEF LineList
<1> QED
  BY <1>1 DEF NoFlow, Flow, Stages, Status

LEMMA DeskInvInit ==
  ASSUME DeskInit
  PROVE  DeskInv
<1>1. status \in [Objects -> Status] /\ seen \in [Objects -> Status] /\ box \in Boxes
  BY DEF DeskInit, Status
<1>2. found \in LineList /\ followed \subseteq Objects /\ OneObject
  <2>1. CASE box # "object" /\ found = NoList /\ followed = {}
    BY <2>1, NoLists DEF OneObject
  <2>2. CASE \E o \in Objects : box = "object" /\ found = Found(<<o>>, seen) /\ followed = {o}
    <3>1. PICK o \in Objects : box = "object" /\ found = Found(<<o>>, seen) /\ followed = {o}
      BY <2>2
    <3> QED
      BY <1>1, <3>1, FoundOne DEF OneObject
  <2> QED
    BY <2>1, <2>2 DEF DeskInit
<1>3. DeskTypes
  BY <1>1, <1>2, NoLists, NoFlowType DEF DeskInit, DeskTypes, DeskTypeOK, NoReport, Flow
<1>4. FlowInv /\ NamedInDialogs /\ SentAsNamed
  BY DEF DeskInit, NoFlow, NoReport, FlowInv, SendingIsFlow, LinesOfClick, AnswersOfLines,
     AnswersAreTrue, NothingYet, SignedEnough, ReportIsTrue, NamedInDialogs, SentAsNamed
<1> QED
  BY <1>2, <1>3, <1>4 DEF DeskInv, NamedInv

----------------------------------------------------------------------------
\* The steps.

\* Steps that are not about the click.
LEMMA FlowUntouched ==
  ASSUME FlowInv, UNCHANGED <<flow, sending, threw, report, applied, lost>>
  PROVE  FlowInv'
BY DEF FlowInv, SendingIsFlow, LinesOfClick, AnswersOfLines, AnswersAreTrue, NothingYet,
       SignedEnough, ReportIsTrue

\* More that is followed or heard of excuses no less.
LEMMA SentUntouched ==
  ASSUME SentAsNamed, UNCHANGED <<box, flow>>, followed \subseteq followed', heard \subseteq heard'
  PROVE  SentAsNamed'
BY DEF SentAsNamed

LEMMA FieldsStep ==
  ASSUME DeskInv,
         \/ \E given \in Lists : TypeTags(given)
         \/ \E u \in Users : PickUser(u)
         \/ ClearUser
         \/ \E o \in Objects, s \in Status : ChangedElsewhere(o, s)
         \/ UNCHANGED deskVars
  PROVE  DeskInv'
<1>1. UNCHANGED <<box, clickVars, lost, followed, heard, seen>>
  BY DEF TypeTags, PickUser, ClearUser, ChangedElsewhere, deskVars, serverVars, fieldVars
<1>2. tags' \in TagList /\ found' \in LineList /\ (found' = found \/ box = "quickLoan")
  <2>1. CASE \E given \in Lists : TypeTags(given)
    BY <2>1, DeskAssumption, FoundAfterType DEF TypeTags, DeskInv, DeskTypes, DeskTypeOK
  <2>2. CASE UNCHANGED <<tags, found>>
    BY <2>2 DEF DeskInv, DeskTypes, DeskTypeOK
  <2> QED
    BY <2>1, <2>2 DEF PickUser, ClearUser, ChangedElsewhere, deskVars, fieldVars
<1>3. status' \in [Objects -> Status] /\ user' \in Users \cup {NoUser}
  BY DEF TypeTags, PickUser, ClearUser, UserAfterReset, ChangedElsewhere, deskVars, serverVars,
     fieldVars, DeskInv, DeskTypes, DeskTypeOK
<1>4. DeskTypes'
  BY <1>1, <1>2, <1>3 DEF clickVars, DeskInv, DeskTypes, DeskTypeOK
<1>5. NamedInv'
  BY <1>1, <1>2, SentUntouched DEF clickVars, DeskInv, NamedInv, OneObject, NamedInDialogs
<1> QED
  BY <1>1, <1>4, <1>5, FlowUntouched DEF clickVars, DeskInv

LEMMA HearStep ==
  ASSUME DeskInv, NEW o \in Objects, HearOf(o)
  PROVE  DeskInv'
<1>1. /\ UNCHANGED <<box, status, tags, followed, user, clickVars, lost>>
      /\ heard' = heard \cup {o}
  BY DEF HearOf, serverVars
<1>2. PICK view \in [Objects -> Status] : seen' = view /\ found' = FoundOnHearing(o, view)
  BY DEF HearOf, DeskInv, DeskTypes, DeskTypeOK
<1>3. /\ box = "quickLoan" => found' = FoundAfter(tags, view)
      /\ box # "quickLoan" /\ o \in followed => found' = Found(<<o>>, view)
      /\ box # "quickLoan" /\ o \notin followed => found' = found
  BY <1>2 DEF FoundOnHearing
<1>4. found' \in LineList
  BY <1>3, FoundOne, FoundAfterType DEF DeskInv, DeskTypes, DeskTypeOK
<1>5. DeskTypes'
  BY <1>1, <1>2, <1>4 DEF clickVars, DeskInv, DeskTypes, DeskTypeOK
<1>6. box # "quickLoan" /\ o \in followed =>
        /\ DOMAIN found' = {1} /\ found'[1].obj = o
        /\ box = "object" => found[1].obj = o
  BY <1>3, FoundOne DEF DeskInv, NamedInv, OneObject
<1>7. OneObject' /\ NamedInDialogs'
  BY <1>1, <1>3, <1>6 DEF clickVars, DeskInv, NamedInv, OneObject, NamedInDialogs,
     DeskTypes, DeskTypeOK, Boxes
<1>8. SentAsNamed'
  BY <1>1, SentUntouched DEF clickVars, DeskInv, NamedInv
<1> QED
  BY <1>1, <1>5, <1>7, <1>8, FlowUntouched DEF clickVars, DeskInv, NamedInv

LEMMA ChooseStep ==
  ASSUME DeskInv, NEW o \in Objects, Choose(o)
  PROVE  DeskInv'
<1>1. /\ UNCHANGED <<box, status, seen, tags, user, clickVars, heard, lost>>
      /\ followed' = followed \cup {o} /\ found' = Found(<<o>>, seen)
      /\ box = "quickChangeState" /\ NoDialog
  BY DEF Choose, serverVars
<1>2. found' \in LineList /\ DOMAIN found' = {1}
  BY <1>1, FoundOne DEF DeskInv, DeskTypes, DeskTypeOK
<1>3. DeskTypes'
  BY <1>1, <1>2 DEF clickVars, DeskInv, DeskTypes, DeskTypeOK
<1>4. OneObject' /\ NamedInDialogs'
  BY <1>1, <1>2 DEF clickVars, NoDialog, OneObject, NamedInDialogs
<1>5. SentAsNamed'
  BY <1>1, SentUntouched DEF clickVars, DeskInv, NamedInv
<1> QED
  BY <1>1, <1>3, <1>4, <1>5, FlowUntouched DEF clickVars, DeskInv, NamedInv

LEMMA LeaveStep ==
  ASSUME DeskInv, LeaveBox
  PROVE  DeskInv'
<1>1. /\ UNCHANGED <<box, status, seen, tags, followed, flow, report, applied, heard, lost>>
      /\ found' = (IF box = "object" THEN found ELSE NoList)
      /\ user' = NoUser /\ sending' = FALSE /\ threw' = FALSE
      /\ box # "quickLoan" /\ flow.stage = "idle"
  BY DEF LeaveBox, serverVars
<1>2. DeskTypes'
  BY <1>1, NoLists DEF DeskInv, DeskTypes, DeskTypeOK
<1>3. NamedInv'
  BY <1>1 DEF DeskInv, NamedInv, OneObject, NamedInDialogs, SentAsNamed
<1>4. FlowInv'
  BY <1>1 DEF DeskInv, FlowInv, SendingIsFlow, LinesOfClick, AnswersOfLines, AnswersAreTrue,
     NothingYet, SignedEnough, ReportIsTrue
<1> QED
  BY <1>2, <1>3, <1>4 DEF DeskInv

\* A flow that needs no signature at the click is one that the server lets
\* through, as long as the objects are as clicked.
LEMMA StartFlowStep ==
  ASSUME DeskInv, NEW target \in Status, NEW stage \in {"signature", "confirm"},
         StartFlow(target, stage),
         box # "quickLoan" => DOMAIN found = {1},
         stage = "confirm" /\ target = "Out" =>
           \A i \in DOMAIN found :
             found[i].obj \in NeedsSignature => found[i].status \notin {"InStock", "Out"}
  PROVE  DeskInv'
<1>1. flow' = [stage |-> stage, clicked |-> found, lines |-> <<>>,
               target |-> target, signed |-> FALSE, answers |-> <<>>]
  BY DEF StartFlow
<1>2. flow' \in Flow
  <2>1. <<>> \in UNION {[1 .. n -> Outcome] : n \in 0 .. MaxTags}
    BY NoFlowType DEF NoFlow, Flow
  <2> QED
    BY <1>1, <2>1, NoLists DEF Flow, Stages, NoList, DeskInv, DeskTypes, DeskTypeOK
<1>3. DeskTypes'
  BY <1>2 DEF StartFlow, NoReport, serverVars, fieldVars, Flow, DeskInv, DeskTypes, DeskTypeOK
<1>4. /\ flow'.stage = stage /\ flow'.clicked = found /\ flow'.target = target
      /\ flow'.answers = <<>>
  BY <1>1
<1>5. NamedInv'
  BY <1>4 DEF StartFlow, fieldVars, DeskInv, NamedInv, OneObject, NamedInDialogs, SentAsNamed
<1>6. ~threw /\ threw' = threw
  BY DEF StartFlow, DeskInv, FlowInv, SendingIsFlow
<1>7. SendingIsFlow' /\ LinesOfClick' /\ AnswersOfLines' /\ AnswersAreTrue' /\ NothingYet'
        /\ SignedEnough' /\ ReportIsTrue'
  BY <1>4, <1>6 DEF StartFlow, NoReport, SendingIsFlow, LinesOfClick, AnswersOfLines,
     AnswersAreTrue, NothingYet, SignedEnough, ReportIsTrue
<1> QED
  BY <1>3, <1>5, <1>7 DEF DeskInv, FlowInv

LEMMA ClickStep ==
  ASSUME DeskInv, NEW target \in Status, quickLoan(target) \/ changeState(target)
  PROVE  DeskInv'
<1>1. CASE quickLoan(target)
  <2>1. PICK stage \in {"signature", "confirm"} :
          StartFlow(target, stage) /\ (stage = "confirm" => ~requiresSignature)
    BY <1>1 DEF quickLoan
  <2>2. stage = "confirm" /\ target = "Out" =>
          \A i \in DOMAIN found : found[i].obj \notin NeedsSignature
    BY <1>1, <2>1 DEF quickLoan, requiresSignature
  <2> QED
    BY <1>1, <2>1, <2>2, StartFlowStep DEF quickLoan
<1>2. CASE changeState(target)
  <2>1. PICK stage \in {"signature", "confirm"} :
          /\ StartFlow(target, stage)
          /\ stage = "confirm" => ~(/\ found[1].obj \in NeedsSignature /\ target = "Out"
                                    /\ found[1].status \in {"InStock", "Out"})
    BY <1>2 DEF changeState
  <2>2. DOMAIN found = {1}
    BY <1>2 DEF changeState, DeskInv, NamedInv, OneObject
  <2> QED
    BY <2>1, <2>2, StartFlowStep
<1> QED
  BY <1>1, <1>2

\* The ways a click ends.
LEMMA EndFlowStep ==
  ASSUME DeskInv, flow' = NoFlow, sending' \in BOOLEAN, threw' \in BOOLEAN,
         SendingIsFlow', ReportIsTrue',
         UNCHANGED <<box, status, seen, followed, applied, heard, lost>>,
         tags' \in TagList, user' \in Users \cup {NoUser},
         found' = found \/ (found' = NoList /\ box # "object"),
         report' \in [ok : SUBSET (1 .. MaxTags), failed : SUBSET (1 .. MaxTags)]
  PROVE  DeskInv'
<1>1. DeskTypes'
  BY NoFlowType, NoLists DEF Flow, DeskInv, DeskTypes, DeskTypeOK
<1>2. NamedInv'
  BY DEF NoFlow, DeskInv, NamedInv, OneObject, NamedInDialogs, SentAsNamed
<1>3. LinesOfClick' /\ AnswersOfLines' /\ AnswersAreTrue' /\ NothingYet' /\ SignedEnough'
  BY DEF NoFlow, LinesOfClick, AnswersOfLines, AnswersAreTrue, NothingYet, SignedEnough
<1> QED
  BY <1>1, <1>2, <1>3 DEF DeskInv, FlowInv

LEMMA DialogStep ==
  ASSUME DeskInv, Dialogs
  PROVE  DeskInv'
<1>0. flow \in Flow
  BY DEF Flow, DeskInv, DeskTypes, DeskTypeOK
<1>1. CASE Sign
  <2>1. flow' = [flow EXCEPT !.stage = "confirm", !.signed = TRUE]
          /\ flow.stage = "signature"
          /\ UNCHANGED <<box, status, elsewhere, lost, seen, tags, found, followed, user,
                         sending, threw, report, applied, heard>>
    BY <1>1 DEF Sign, serverVars, fieldVars
  <2>2. flow' \in Flow /\ flow'.signed
    BY <1>0, <2>1 DEF Flow, Stages
  <2>3. /\ flow'.stage = "confirm" /\ flow'.answers = flow.answers
        /\ flow'.clicked = flow.clicked
    BY <1>0, <2>1 DEF Flow
  <2>4. DeskTypes'
    BY <2>1, <2>2 DEF Flow, DeskInv, DeskTypes, DeskTypeOK
  <2>5. NamedInv'
    BY <2>1, <2>3 DEF DeskInv, NamedInv, OneObject, NamedInDialogs, SentAsNamed
  <2>6. FlowInv'
    BY <2>1, <2>2, <2>3 DEF DeskInv, FlowInv, SendingIsFlow, LinesOfClick, AnswersOfLines,
       AnswersAreTrue, NothingYet, SignedEnough, ReportIsTrue
  <2> QED
    BY <2>4, <2>5, <2>6 DEF DeskInv
<1>2. CASE RefuseToSign \/ Cancel
  <2>1. /\ flow' = NoFlow /\ sending' = FALSE /\ flow.stage # "idle"
        /\ UNCHANGED <<box, status, lost, seen, tags, found, followed, user, threw, report,
                       applied, heard>>
    BY <1>2 DEF RefuseToSign, Cancel, serverVars, fieldVars
  <2>2. SendingIsFlow' /\ ReportIsTrue'
    BY <2>1 DEF NoFlow, DeskInv, FlowInv, SendingIsFlow, ReportIsTrue
  <2> QED
    BY <2>1, <2>2, EndFlowStep DEF DeskInv, DeskTypes, DeskTypeOK
<1>3. CASE Confirm
  <2>0. ToSend \in LineList
    BY <1>0 DEF ToSend, Flow, DeskInv, DeskTypes, DeskTypeOK
  <2>1. /\ flow' = [flow EXCEPT !.stage = "requests", !.lines = ToSend,
                                !.answers = [i \in DOMAIN ToSend |-> "pending"]]
        /\ flow.stage = "confirm"
        /\ UNCHANGED <<box, status, elsewhere, lost, seen, tags, found, followed, user,
                       sending, threw, report, applied, heard>>
    BY <1>3 DEF Confirm, serverVars, fieldVars
  <2>2. flow' \in Flow
    <3>1. PICK n \in 0 .. MaxTags : ToSend \in [1 .. n -> Line]
      BY <2>0 DEF LineList
    <3>2. [i \in DOMAIN ToSend |-> "pending"] \in [1 .. n -> Outcome]
      BY <3>1 DEF Outcome
    <3>3. [i \in DOMAIN ToSend |-> "pending"] \in UNION {[1 .. m -> Outcome] : m \in 0 .. MaxTags}
      BY <3>2
    <3> QED
      BY <1>0, <2>0, <2>1, <3>3 DEF Flow, Stages
  <2>3. /\ flow'.stage = "requests" /\ flow'.lines = ToSend /\ flow'.clicked = flow.clicked
        /\ flow'.target = flow.target /\ flow'.signed = flow.signed
        /\ flow'.answers = [i \in DOMAIN ToSend |-> "pending"]
    BY <1>0, <2>1 DEF Flow
  <2>4. DeskTypes'
    BY <2>1, <2>2 DEF Flow, DeskInv, DeskTypes, DeskTypeOK
  <2>5. DOMAIN ToSend = DOMAIN flow.clicked
    BY <2>1 DEF ToSend, DeskInv, NamedInv, NamedInDialogs
  <2>6. NamedInv'
    <3>1. CASE box = "quickLoan"
      BY <2>1, <2>3, <3>1 DEF ToSend, DeskInv, NamedInv, OneObject, NamedInDialogs, SentAsNamed
    <3>2. CASE box # "quickLoan"
      <4>1. ToSend = found /\ DOMAIN found = {1}
        BY <2>1, <3>2 DEF ToSend, DeskInv, NamedInv, NamedInDialogs
      <4> QED
        BY <2>1, <2>3, <3>2, <4>1 DEF DeskInv, NamedInv, OneObject, NamedInDialogs, SentAsNamed
    <3> QED
      BY <3>1, <3>2
  <2>7. applied = {} /\ report = NoReport
    BY <2>1 DEF DeskInv, FlowInv, NothingYet
  <2>8. FlowInv'
    BY <2>1, <2>3, <2>5, <2>7 DEF NoReport, DeskInv, FlowInv, SendingIsFlow, LinesOfClick,
       AnswersOfLines, AnswersAreTrue, NothingYet, SignedEnough, ReportIsTrue
  <2> QED
    BY <2>4, <2>6, <2>8 DEF DeskInv
<1> QED
  BY <1>1, <1>2, <1>3 DEF Dialogs

LEMMA RequestStep ==
  ASSUME DeskInv, NEW i \in DOMAIN flow.lines, Serve(i) \/ ServeUnsigned(i) \/ ServeDeleted(i)
  PROVE  DeskInv'
<1>0. flow \in Flow /\ flow.stage = "requests" /\ flow.answers[i] = "pending"
  BY DEF Flow, DeskInv, DeskTypes, DeskTypeOK, Serve, ServeUnsigned, ServeDeleted, LacksSignature,
     Pending
<1>1. i \in DOMAIN flow.answers
  BY <1>0 DEF DeskInv, FlowInv, AnswersOfLines
<1>2. PICK answer \in {"ok", "failed"} :
        /\ Answered(i, answer)
        /\ Serve(i) => answer = "ok" \/ lost' = lost + 1
        /\ ~Serve(i) => answer = "failed"
  BY DEF Serve, ServeUnsigned, ServeDeleted
<1>3. PICK n \in 0 .. MaxTags : flow.answers \in [1 .. n -> Outcome]
  BY <1>0 DEF Flow
<1>4. flow' = [flow EXCEPT !.answers = [flow.answers EXCEPT ![i] = answer]]
  BY <1>0, <1>2 DEF Answered, Flow
<1>5. [flow.answers EXCEPT ![i] = answer] \in [1 .. n -> Outcome]
  BY <1>2, <1>3 DEF Outcome
<1>6. flow' \in Flow
  <2>1. [flow.answers EXCEPT ![i] = answer] \in UNION {[1 .. m -> Outcome] : m \in 0 .. MaxTags}
    BY <1>5
  <2> QED
    BY <1>0, <1>4, <2>1 DEF Flow
<1>7. /\ flow'.stage = "requests" /\ flow'.lines = flow.lines /\ flow'.clicked = flow.clicked
      /\ flow'.target = flow.target /\ flow'.signed = flow.signed
      /\ flow'.answers = [flow.answers EXCEPT ![i] = answer]
  BY <1>0, <1>4 DEF Flow
<1>8. UNCHANGED <<box, seen, tags, found, followed, user, sending, threw, report, heard>>
  BY DEF Serve, ServeUnsigned, ServeDeleted, fieldVars, serverVars
<1>9. status' \in [Objects -> Status]
  <2>1. CASE Serve(i)
    <3>1. flow.target \in Status
      BY <1>0 DEF Flow
    <3> QED
      BY <2>1, <3>1 DEF Serve, DeskInv, DeskTypes, DeskTypeOK
  <2> QED
    BY <2>1 DEF ServeUnsigned, ServeDeleted, serverVars, DeskInv, DeskTypes, DeskTypeOK
<1>10. lost' \in Nat /\ lost <= lost' /\ applied' \subseteq 1 .. MaxTags
  <2>1. i \in 1 .. MaxTags
    BY <1>1, <1>3, DeskAssumption
  <2>2. lost \in Nat /\ applied \subseteq 1 .. MaxTags
    BY DEF DeskInv, DeskTypes, DeskTypeOK
  <2>3. applied' \in {applied, applied \cup {i}} /\ lost' \in {lost, lost + 1}
    BY DEF Serve, ServeUnsigned, ServeDeleted, serverVars
  <2> QED
    BY <2>1, <2>2, <2>3
<1>11. DeskTypes'
  BY <1>6, <1>8, <1>9, <1>10 DEF Flow, DeskInv, DeskTypes, DeskTypeOK
<1>12. AnswersAreTrue'
  <2> SUFFICES ASSUME NEW j \in DOMAIN flow.answers
               PROVE  /\ flow'.answers[j] = "ok" => j \in applied'
                      /\ flow'.answers[j] = "pending" => j \notin applied'
                      /\ flow'.answers[j] = "failed" /\ j \in applied' => lost' > 0
    BY <1>7 DEF AnswersAreTrue
  <2>0. /\ flow.answers[j] = "ok" => j \in applied
        /\ flow.answers[j] = "pending" => j \notin applied
        /\ flow.answers[j] = "failed" /\ j \in applied => lost > 0
    BY <1>0 DEF DeskInv, FlowInv, AnswersAreTrue
  <2>1. lost \in Nat
    BY DEF DeskInv, DeskTypes
  <2>2. CASE j # i
    <3>1. flow'.answers[j] = flow.answers[j]
      BY <1>3, <1>7, <2>2
    <3>2. j \in applied' <=> j \in applied
      BY <2>2 DEF Serve, ServeUnsigned, ServeDeleted
    <3> QED
      BY <1>10, <2>0, <2>1, <3>1, <3>2
  <2>3. CASE j = i
    <3>1. flow'.answers[i] = answer
      BY <1>1, <1>3, <1>7
    <3>2. i \notin applied
      BY <1>0, <2>0, <2>3
    <3>3. Serve(i) => i \in applied'
      BY DEF Serve
    <3>4. ~Serve(i) => applied' = applied
      BY DEF ServeUnsigned, ServeDeleted
    <3> QED
      BY <1>2, <2>1, <2>3, <3>1, <3>2, <3>3, <3>4
  <2> QED
    BY <2>2, <2>3
<1>13. report = NoReport /\ applied \subseteq applied'
  BY <1>0 DEF DeskInv, FlowInv, NothingYet, Serve, ServeUnsigned, ServeDeleted
<1>14. SendingIsFlow' /\ LinesOfClick' /\ AnswersOfLines' /\ NothingYet' /\ SignedEnough'
         /\ ReportIsTrue'
  <2>1. DOMAIN flow'.answers = DOMAIN flow'.lines
    BY <1>0, <1>3, <1>7 DEF DeskInv, FlowInv, AnswersOfLines
  <2>2. SignedEnough' /\ LinesOfClick'
    BY <1>0, <1>7 DEF DeskInv, FlowInv, SignedEnough, LinesOfClick
  <2> QED
    BY <1>0, <1>7, <1>8, <1>13, <2>1, <2>2 DEF NoReport, DeskInv, FlowInv, SendingIsFlow,
       AnswersOfLines, NothingYet, ReportIsTrue
<1>15. NamedInv'
  BY <1>0, <1>7, <1>8 DEF DeskInv, NamedInv, OneObject, NamedInDialogs, SentAsNamed
<1> QED
  BY <1>11, <1>12, <1>14, <1>15 DEF DeskInv, FlowInv

LEMMA ReportStep ==
  ASSUME DeskInv, Reports
  PROVE  DeskInv'
<1>0. flow \in Flow /\ flow.stage = "requests"
  BY DEF Reports, ReportList, ReportOne, ReportThrows, AllAnswered, Flow, DeskInv, DeskTypes,
     DeskTypeOK
<1>1. Report \in [ok : SUBSET (1 .. MaxTags), failed : SUBSET (1 .. MaxTags)]
  <2>1. PICK n \in 0 .. MaxTags : flow.answers \in [1 .. n -> Outcome]
    BY <1>0 DEF Flow
  <2>2. Report.ok \subseteq 1 .. MaxTags /\ Report.failed \subseteq 1 .. MaxTags
    BY <2>1, DeskAssumption DEF Report, Reported
  <2> QED
    BY <2>2 DEF Report
<1>2. Report.ok \subseteq applied /\ (Report.failed \cap applied # {} => lost > 0)
  BY <1>0 DEF Report, Reported, DeskInv, FlowInv, AnswersAreTrue
<1>3. /\ flow' = NoFlow /\ report' \in {report, Report}
      /\ UNCHANGED <<box, status, seen, followed, applied, heard, lost>>
  BY DEF Reports, ReportList, ReportOne, ReportThrows, serverVars, fieldVars
<1>4. report' \in [ok : SUBSET (1 .. MaxTags), failed : SUBSET (1 .. MaxTags)]
  BY <1>1, <1>3 DEF DeskInv, DeskTypes, DeskTypeOK
<1>5. ReportIsTrue'
  BY <1>2, <1>3 DEF DeskInv, FlowInv, ReportIsTrue
<1>6. SendingIsFlow' /\ sending' \in BOOLEAN /\ threw' \in BOOLEAN
  <2>1. CASE ReportList \/ ReportOne
    <3>1. sending' = FALSE /\ threw' = threw /\ flow'.stage = "idle"
      BY <1>3, <2>1 DEF ReportList, ReportOne, NoFlow
    <3>2. threw = FALSE
      BY <1>0 DEF DeskInv, FlowInv, SendingIsFlow, DeskTypes, DeskTypeOK
    <3> QED
      BY <3>1, <3>2 DEF SendingIsFlow
  <2>2. CASE ReportThrows
    BY <1>0, <1>2, <1>3, <2>2 DEF ReportThrows, CallbackThrows, NoFlow, DeskInv, FlowInv,
       SendingIsFlow, DeskTypes, DeskTypeOK
  <2> QED
    BY <2>1, <2>2 DEF Reports
<1>7. /\ tags' \in TagList /\ user' \in Users \cup {NoUser}
      /\ found' = found \/ (found' = NoList /\ box # "object")
  BY NoLists DEF Reports, ReportList, ReportOne, ReportThrows, UserAfterReset, fieldVars,
     DeskInv, DeskTypes, DeskTypeOK
<1> QED
  BY <1>3, <1>4, <1>5, <1>6, <1>7, EndFlowStep

LEMMA DeskInvStep ==
  ASSUME DeskInv, [DeskNext]_deskVars
  PROVE  DeskInv'
<1>1. CASE Requests
  BY <1>1, RequestStep DEF Requests
<1>2. CASE \E target \in Status : quickLoan(target) \/ changeState(target)
  BY <1>2, ClickStep
<1>3. CASE Dialogs \/ Reports
  BY <1>3, DialogStep, ReportStep
<1>4. CASE LeaveBox \/ \E o \in Objects : Choose(o) \/ HearOf(o)
  BY <1>4, LeaveStep, ChooseStep, HearStep
<1> QED
  BY <1>1, <1>2, <1>3, <1>4, FieldsStep, DeskAssumption DEF DeskNext

----------------------------------------------------------------------------
\* The theorems.

LEMMA DeskInvAlways == DeskSpec => []DeskInv
BY DeskInvInit, DeskInvStep, PTL DEF DeskSpec

\* Every variable keeps its type.
THEOREM DeskTypeCorrect == DeskSpec => []DeskTypeOK
<1>1. DeskInv => DeskTypeOK
  BY DEF DeskInv, DeskTypes
<1> QED
  BY <1>1, DeskInvAlways, PTL

\* The flag that refuses clicks is set exactly while a flow is open, and for
\* good once the callback of a change that was made has thrown.
THEOREM SendingIsFlowAlways == DeskSpec => []SendingIsFlow
<1>1. DeskInv => SendingIsFlow
  BY DEF DeskInv, FlowInv
<1> QED
  BY <1>1, DeskInvAlways, PTL

\* What is sent is about the object the dialogs named, or about one that was
\* chosen on the page earlier and was heard of while they were open.
THEOREM SentAsNamedAlways == DeskSpec => []SentAsNamed
<1>1. DeskInv => SentAsNamed
  BY DEF DeskInv, NamedInv
<1> QED
  BY <1>1, DeskInvAlways, PTL

\* A report calls done only what the server has applied, and calls failed
\* what it has applied only when an answer was lost.
THEOREM ReportIsTrueAlways == DeskSpec => []ReportIsTrue
<1>1. DeskInv => ReportIsTrue
  BY DEF DeskInv, FlowInv
<1> QED
  BY <1>1, DeskInvAlways, PTL

\* The page and the server agree on when a signature is needed: a request is
\* refused for want of one only if it is about another object than the one
\* clicked, or if that one's status is not the one the page showed.
THEOREM UnsignedRefusalIsStaleAlways == DeskSpec => []UnsignedRefusalIsStale
<1>1. ASSUME DeskInv
      PROVE  UnsignedRefusalIsStale
  <2> SUFFICES ASSUME NEW i \in DOMAIN flow.lines, LacksSignature(i),
                      flow.lines[i].obj = flow.clicked[i].obj
               PROVE  status[flow.lines[i].obj] # flow.clicked[i].status
    BY DEF UnsignedRefusalIsStale
  <2> DEFINE o == flow.lines[i].obj
  <2>1. /\ flow.stage = "requests" /\ o \in NeedsSignature
        /\ status[o] \in {"InStock", "Out"} /\ flow.target = "Out" /\ ~flow.signed
    BY DEF LacksSignature, Pending, ServerWantsSignature, CarriesSignature
  <2>2. i \in DOMAIN flow.clicked
    BY <1>1, <2>1 DEF DeskInv, FlowInv, LinesOfClick
  <2>3. flow.clicked[i].status \notin {"InStock", "Out"}
    BY <1>1, <2>1, <2>2 DEF DeskInv, FlowInv, SignedEnough
  <2> QED
    BY <2>1, <2>3
<1> QED
  BY <1>1, DeskInvAlways, PTL

----------------------------------------------------------------------------
\* The box that creates objects.

(* The server looks for the greatest number: there is one, because the     *)
(* bounds of a bounded set of numbers have a least one.                    *)
LEMMA GreatestNumber ==
  ASSUME NEW S \in SUBSET Nat, S # {}, NEW top \in Nat, \A x \in S : x <= top
  PROVE  Max(S) \in S /\ \A x \in S : x <= Max(S)
<1> DEFINE Bounds == {m \in Nat : \A x \in S : x <= m}
           Less == {ss \in Nat \X Nat : ss[1] < ss[2]}
<1>1. Bounds \subseteq Nat /\ Bounds # {}
  OBVIOUS
<1>2. IsWellFoundedOn(Less, Nat)
  BY NatLessThanWellFounded DEF OpToRel
<1>3. PICK m \in Bounds : \A y \in Bounds : ~(<<y, m>> \in Less)
  <2> HIDE DEF Bounds, Less
  <2> QED
    BY <1>1, <1>2, WFMin
<1>4. \A y \in Bounds : m <= y
  <2> SUFFICES ASSUME NEW y \in Bounds PROVE m <= y
    OBVIOUS
  <2>1. y \in Nat /\ m \in Nat
    OBVIOUS
  <2>2. y < m => <<y, m>> \in Less
    <3>1. <<y, m>> \in Nat \X Nat /\ <<y, m>>[1] = y /\ <<y, m>>[2] = m
      BY <2>1
    <3> QED
      BY <3>1
  <2>3. ~(y < m)
    BY <1>3, <2>2
  <2> QED
    BY <2>1, <2>3
<1>5. m \in S
  <2> SUFFICES ASSUME m \notin S PROVE FALSE
    OBVIOUS
  <2>0. PICK some \in S : some \in Nat
    OBVIOUS
  <2>1. m \in Nat /\ m # 0
    <3>1. m \in Nat /\ some <= m /\ some # m
      OBVIOUS
    <3> QED
      BY <2>0, <3>1
  <2>2. m - 1 \in Nat /\ \A x \in S : x <= m - 1
    BY <2>1
  <2> QED
    BY <1>4, <2>1, <2>2
<1>6. \E x \in S : \A y \in S : x >= y
  BY <1>5
<1>7. Max(S) \in S /\ \A y \in S : Max(S) >= y
  BY <1>6 DEF Max
<1> QED
  BY <1>7

----------------------------------------------------------------------------
(* The invariant: what every number that the page has, or will have, is    *)
(* known to be beyond.                                                     *)

\* Every item with the prefix p has a smaller number than n.
Free(p, n) == \A m \in Numbers(p) : m < n

\* An answer that is not out of date is free.
LookupsFree == \A l \in lookups : ~l.old /\ l.for # "" => Free(l.for, l.answer)

\* So is the number shown; once its batch is in, the next one.
StartFree ==
  startFor # "" /\ ~byHand /\ ~outdated =>
    Free(startFor, IF batch.stage = "inserted" THEN suffixStart + BatchSize ELSE suffixStart)

\* So is the first number of a batch without an excuse, until it is in.
BatchFree == batch.stage = "sent" /\ ~batch.excused => Free(batch.for, batch.from)

\* A batch stays within the bounds.
BatchBounded ==
  batch.stage = "sent" => batch.from \in Number /\ batch.from + BatchSize <= MaxNumber

ItemInv ==
  /\ ItemTypeOK /\ NoSuffixTwice
  /\ LookupsFree /\ StartFree /\ BatchFree /\ BatchBounded

\* What the steps need of the assumption.
LEMMA ItemBounds == MaxNumber \in Nat \ {0} /\ BatchSize \in Nat
BY Zenon, ItemAssumption

\* Numbers, apart from what they are the numbers of.
LEMMA Beyond ==
  ASSUME NEW S \in SUBSET Nat, NEW n \in Nat, NEW k \in Nat, \A m \in S : m < n
  PROVE  \A m \in S : m < n + k
OBVIOUS

LEMMA WithinBound ==
  ASSUME NEW top \in Nat \ {0}
  PROVE  1 \in 0 .. top /\ 1 \in 1 .. top /\ \A n \in Nat : n <= top => n \in 0 .. top
OBVIOUS

LEMMA NextIsFree ==
  ASSUME ItemTypeOK, NEW p
  PROVE  NextSuffix(p) \in Nat \ {0} /\ (p # "" => Free(p, NextSuffix(p)))
<1>1. CASE p = ""
  <2>1. NextSuffix(p) = 1
    BY <1>1 DEF NextSuffix
  <2>2. NextSuffix(p) \in Nat \ {0}
    BY <2>1
  <2> QED
    BY <1>1, <2>2
<1>2. CASE p # ""
  <2> DEFINE S == Numbers(p) \cup {0}
  <2>1. S \in SUBSET Nat /\ S # {} /\ MaxNumber \in Nat
    BY ItemBounds DEF Numbers, Number
  <2>2. \A x \in S : x <= MaxNumber
    BY ItemBounds DEF Numbers, Number
  <2> HIDE DEF S
  <2>3. Max(S) \in S /\ \A x \in S : x <= Max(S)
    BY <2>1, <2>2, GreatestNumber
  <2>4. PICK m \in S : m = Max(S)
    BY <2>3
  <2>5. m \in Nat /\ \A x \in S : x \in Nat /\ x < m + 1
    BY <2>1, <2>3, <2>4
  <2>6. NextSuffix(p) = m + 1
    BY <1>2, <2>4 DEF NextSuffix, S
  <2>7. Numbers(p) \subseteq S
    BY DEF S
  <2>8. Free(p, m + 1)
    BY <2>5, <2>7 DEF Free
  <2>9. m + 1 \in Nat \ {0}
    BY <2>5
  <2> QED
    BY <2>6, <2>8, <2>9
<1> QED
  BY <1>1, <1>2

\* What is inserted comes after what is free.
LEMMA InsertedNumbers ==
  ASSUME taken \subseteq AnyPrefix \X Number,
         NEW p, NEW from \in Nat, taken' = taken \cup Inserted(p, from)
  PROVE  /\ \A q : q # p => Numbers(q)' = Numbers(q)
         /\ Free(p, from) => Free(p, from + BatchSize)'
         /\ Free(p, from) => taken \cap Inserted(p, from) = {}
<1>1. BatchSize \in Nat /\ Number \subseteq Nat
  BY ItemBounds DEF Number
<1>2. \A q : q # p => Numbers(q)' = Numbers(q)
  BY DEF Numbers, Inserted
<1>3. ASSUME Free(p, from), NEW m \in Number, <<p, m>> \in taken'
      PROVE  m < from + BatchSize
  <2>1. CASE <<p, m>> \in taken
    BY <1>1, <1>3, <2>1 DEF Free, Numbers
  <2>2. CASE <<p, m>> \in Inserted(p, from)
    BY <1>1, <2>2 DEF Inserted
  <2> QED
    BY <1>3, <2>1, <2>2
<1>4. ASSUME Free(p, from), NEW x \in taken \cap Inserted(p, from)
      PROVE  FALSE
  <2>1. PICK n \in from .. (from + BatchSize - 1) : x = <<p, n>>
    BY <1>4 DEF Inserted
  <2>2. n \in Number /\ <<p, n>> \in taken /\ n >= from
    BY <1>1, <1>4, <2>1
  <2>3. n < from
    BY <1>4, <2>2 DEF Free, Numbers
  <2> QED
    BY <1>1, <2>2, <2>3
<1> QED
  BY <1>2, <1>3, <1>4 DEF Free, Numbers

LEMMA ItemInvInit ==
  ASSUME ItemInit
  PROVE  ItemInv
<1>1. 1 \in Number /\ Number \subseteq Nat
  BY ItemBounds DEF Number
<1>2. taken \subseteq AnyPrefix \X Number
  <2>1. taken \subseteq {<<"", 1>>} \cup {<<p, 1>> : p \in ItemPrefixes}
    BY DEF ItemInit
  <2>2. <<"", 1>> \in AnyPrefix \X Number /\ \A p \in ItemPrefixes : <<p, 1>> \in AnyPrefix \X Number
    BY <1>1 DEF AnyPrefix
  <2> QED
    BY <2>1, <2>2
<1>3. NoBatch \in Batch
  BY ItemBounds DEF NoBatch, Batch, AnyPrefix
<1>4. ItemTypeOK
  <2>1. suffixStart \in 0 .. MaxNumber
    BY ItemBounds, WithinBound DEF ItemInit
  <2> QED
    BY <1>2, <1>3, <2>1 DEF ItemInit, ItemTypeOK, AnyPrefix
<1>5. LookupsFree /\ StartFree /\ BatchFree /\ BatchBounded
  BY DEF ItemInit, NoBatch, LookupsFree, StartFree, BatchFree, BatchBounded
<1> QED
  BY <1>4, <1>5 DEF ItemInit, ItemInv, NoSuffixTwice

\* Nothing that exists changes: what is free stays free.
LEMMA SameTaken ==
  ASSUME taken' = taken
  PROVE  \A p, n : Free(p, n)' <=> Free(p, n)
BY DEF Free, Numbers

LEMMA LookupStep ==
  ASSUME ItemInv, (\E p \in AnyPrefix : UpdatePrefix(p)) \/ LookupAnswered \/ LookupFails
  PROVE  ItemInv'
<1>1. CASE \E p \in AnyPrefix : UpdatePrefix(p)
  <2>1. PICK p \in AnyPrefix : UpdatePrefix(p)
    BY <1>1
  <2>0. PICK q \in AnyPrefix : q = ReceivedAs[p]
    BY ItemAssumption DEF AnyPrefix
  <2>2. PICK n \in Nat : n = NextSuffix(q) /\ n <= MaxNumber /\ (q # "" => Free(q, n))
    BY <2>0, <2>1, NextIsFree DEF UpdatePrefix, ItemInv
  <2>3. lookups' = lookups \cup {[for |-> q, answer |-> n, old |-> FALSE]}
    BY <2>0, <2>1, <2>2 DEF UpdatePrefix
  <2>4. [for |-> q, answer |-> n, old |-> FALSE] \in Lookup
    <3>1. n \in 0 .. MaxNumber
      BY <2>2, ItemBounds, WithinBound
    <3> QED
      BY <3>1 DEF Lookup
  <2>5. /\ UNCHANGED <<suffixStart, batch, taken, startFor, byHand, outdated, twice>>
        /\ prefix' = p
    BY <2>1 DEF UpdatePrefix
  <2>6. ItemTypeOK'
    BY <2>3, <2>4, <2>5 DEF ItemInv, ItemTypeOK
  <2>7. LookupsFree'
    <3>1. \A l \in lookups : ~l.old /\ l.for # "" => Free(l.for, l.answer)'
      BY <2>5 DEF ItemInv, LookupsFree, Free, Numbers
    <3>2. q # "" => Free(q, n)'
      BY <2>2, <2>5 DEF Free, Numbers
    <3>3. ASSUME NEW l \in lookups', ~l.old, l.for # ""
          PROVE  Free(l.for, l.answer)'
      <4>1. CASE l \in lookups
        BY <3>1, <3>3, <4>1
      <4>2. CASE l = [for |-> q, answer |-> n, old |-> FALSE]
        <5>1. l.for = q /\ l.answer = n
          BY <4>2
        <5> QED
          BY <3>2, <3>3, <5>1
      <4> QED
        BY <2>3, <3>3, <4>1, <4>2
    <3> QED
      BY <3>3 DEF LookupsFree
  <2>8. StartFree' /\ BatchFree' /\ BatchBounded'
    BY <2>5 DEF ItemInv, StartFree, BatchFree, BatchBounded, Free, Numbers
  <2> QED
    BY <2>5, <2>6, <2>7, <2>8 DEF ItemInv, NoSuffixTwice
<1>2. CASE LookupAnswered
  <2>1. PICK l \in lookups :
          /\ lookups' = lookups \ {l}
          /\ suffixStart' = l.answer /\ startFor' = l.for
          /\ byHand' = FALSE /\ outdated' = l.old
          /\ UNCHANGED <<prefix, batch, taken, twice>>
    BY <1>2 DEF LookupAnswered
  <2>2. l.answer \in 0 .. MaxNumber /\ l.for \in AnyPrefix /\ l.old \in BOOLEAN
    BY DEF ItemInv, ItemTypeOK, Lookup
  <2>3. ItemTypeOK'
    BY <2>1, <2>2 DEF ItemInv, ItemTypeOK
  <2>4. LookupsFree' /\ BatchFree' /\ BatchBounded'
    BY <2>1 DEF ItemInv, LookupsFree, BatchFree, BatchBounded, Free, Numbers
  <2>5. StartFree'
    <3>1. l.for # "" /\ ~l.old => \A m \in Numbers(l.for) : m < l.answer
      BY DEF ItemInv, LookupsFree, Free
    <3>2. \A m \in Numbers(l.for) : m \in Nat
      BY DEF Numbers, Number
    <3>3. BatchSize \in Nat /\ l.answer \in Nat
      BY <2>2, ItemBounds
    <3>4. l.for # "" /\ ~l.old => \A m \in Numbers(l.for) : m < l.answer + BatchSize
      <4> SUFFICES ASSUME \A m \in Numbers(l.for) : m < l.answer
                   PROVE  \A m \in Numbers(l.for) : m < l.answer + BatchSize
        BY <3>1
      <4>1. Numbers(l.for) \in SUBSET Nat
        BY <3>2
      <4> QED
        BY <3>3, <4>1, Beyond
    <3> QED
      BY <2>1, <3>1, <3>4 DEF StartFree, Free, Numbers
  <2> QED
    BY <2>1, <2>3, <2>4, <2>5 DEF ItemInv, NoSuffixTwice
<1>3. CASE LookupFails
  <2>1. PICK l \in lookups : /\ lookups' = lookups \ {l}
                             /\ UNCHANGED <<prefix, suffixStart, batch, taken, startFor, byHand,
                                            outdated, twice>>
    BY <1>3 DEF LookupFails
  <2> QED
    BY <2>1 DEF ItemInv, ItemTypeOK, NoSuffixTwice, LookupsFree, StartFree, BatchFree,
       BatchBounded, Free, Numbers
<1> QED
  BY <1>1, <1>2, <1>3

\* A number typed by hand is promised nothing.
LEMMA TypeStartStep ==
  ASSUME ItemInv, NEW n \in 0 .. MaxNumber, TypeStart(n)
  PROVE  ItemInv'
<1>1. /\ suffixStart' = n /\ byHand' = TRUE
      /\ UNCHANGED <<prefix, lookups, batch, taken, startFor, outdated, twice>>
  BY DEF TypeStart
<1>2. ItemTypeOK'
  BY <1>1 DEF ItemInv, ItemTypeOK
<1> QED
  BY <1>1, <1>2 DEF ItemInv, NoSuffixTwice, LookupsFree, StartFree, BatchFree, BatchBounded,
     Free, Numbers

LEMMA BatchStep ==
  ASSUME ItemInv, PostObjects \/ RefuseBatch \/ BatchTold \/ BatchFailed
  PROVE  ItemInv'
<1>0. UNCHANGED <<prefix, lookups, taken, startFor, byHand, outdated, twice>>
  BY DEF PostObjects, RefuseBatch, BatchTold, BatchFailed
<1>1. LookupsFree' /\ NoSuffixTwice'
  BY <1>0 DEF ItemInv, LookupsFree, NoSuffixTwice, Free, Numbers
<1>2. CASE PostObjects
  <2>1. PICK excused \in BOOLEAN :
          /\ batch' = [stage |-> "sent", for |-> prefix, from |-> suffixStart, excused |-> excused]
          /\ excused <=> (prefix = "" \/ startFor # prefix \/ byHand \/ outdated)
    <3>1. Excused \in BOOLEAN /\ (Excused <=> (prefix = "" \/ startFor # prefix \/ byHand \/ outdated))
      BY DEF Excused, ItemInv, ItemTypeOK
    <3> QED
      BY <1>2, <3>1 DEF PostObjects
  <2>2. /\ batch'.stage = "sent" /\ batch'.for = prefix /\ batch'.from = suffixStart
        /\ batch'.excused = excused
    BY <2>1
  <2>3. batch' \in Batch
    BY <2>1 DEF Batch, ItemInv, ItemTypeOK
  <2>4. batch.stage = "none" /\ suffixStart' = suffixStart
    BY <1>2 DEF PostObjects
  <2>5. StartFree'
    BY <1>0, <2>2, <2>4 DEF ItemInv, StartFree, Free, Numbers
  <2>6. BatchFree'
    BY <1>0, <2>1, <2>2, <2>4 DEF ItemInv, StartFree, BatchFree, Free, Numbers
  <2>7. BatchBounded'
    <3>1. suffixStart \in 1 .. MaxNumber
      <4>1. suffixStart \in 0 .. MaxNumber /\ suffixStart # 0
        BY <1>2 DEF PostObjects, ItemInv, ItemTypeOK
      <4> QED
        BY <4>1, ItemBounds
    <3>2. suffixStart + BatchSize <= MaxNumber
      BY <1>2 DEF PostObjects
    <3> QED
      BY <2>2, <3>1, <3>2 DEF BatchBounded, Number
  <2> QED
    BY <1>0, <1>1, <2>3, <2>4, <2>5, <2>6, <2>7 DEF ItemInv, ItemTypeOK
<1>3. CASE RefuseBatch
  <2>1. batch' = [batch EXCEPT !.stage = "failed"] /\ suffixStart' = suffixStart
          /\ batch.stage = "sent"
    BY <1>3 DEF RefuseBatch
  <2>2. batch' \in Batch /\ batch'.stage = "failed"
    BY <2>1 DEF Batch, ItemInv, ItemTypeOK
  <2>3. StartFree' /\ BatchFree' /\ BatchBounded'
    BY <1>0, <2>1, <2>2 DEF ItemInv, StartFree, BatchFree, BatchBounded, Free, Numbers
  <2> QED
    BY <1>0, <1>1, <2>1, <2>2, <2>3 DEF ItemInv, ItemTypeOK
<1>4. CASE BatchTold \/ BatchFailed
  <2>1. batch' = NoBatch /\ NoBatch \in Batch /\ NoBatch.stage = "none"
    <3>1. NoBatch \in Batch
      BY ItemBounds DEF NoBatch, Batch, AnyPrefix
    <3>2. NoBatch.stage = "none"
      BY DEF NoBatch
    <3> QED
      BY <1>4, <3>1, <3>2 DEF BatchTold, BatchFailed
  <2>2. suffixStart' =
          IF batch.stage = "inserted" THEN suffixStart + BatchSize ELSE suffixStart
    BY <1>4 DEF BatchTold, BatchFailed, StartAfterBatch
  <2>3. suffixStart' \in 0 .. MaxNumber
    <3>1. CASE BatchTold
      <4>1. suffixStart + BatchSize <= MaxNumber /\ suffixStart' = suffixStart + BatchSize
        BY <3>1 DEF BatchTold, StartAfterBatch
      <4>2. suffixStart \in 0 .. MaxNumber
        BY DEF ItemInv, ItemTypeOK
      <4> QED
        BY <4>1, <4>2, ItemBounds
    <3>2. CASE BatchFailed
      BY <3>2 DEF BatchFailed, ItemInv, ItemTypeOK
    <3> QED
      BY <1>4, <3>1, <3>2
  <2>4. StartFree'
    BY <1>0, <2>1, <2>2 DEF ItemInv, StartFree, Free, Numbers
  <2>5. BatchFree' /\ BatchBounded'
    BY <2>1 DEF BatchFree, BatchBounded
  <2> QED
    BY <1>0, <1>1, <2>1, <2>3, <2>4, <2>5 DEF ItemInv, ItemTypeOK
<1> QED
  BY <1>2, <1>3, <1>4

\* Whatever is inserted, the answers computed before are out of date.
LEMMA OldLookups ==
  ASSUME ItemTypeOK, lookups' = AllOld
  PROVE  lookups' \subseteq Lookup /\ LookupsFree'
<1>1. \A l \in lookups : [l EXCEPT !.old = TRUE] \in Lookup /\ [l EXCEPT !.old = TRUE].old
  BY DEF ItemTypeOK, Lookup
<1> QED
  BY <1>1 DEF AllOld, LookupsFree

LEMMA InsertedType ==
  ASSUME NEW p \in AnyPrefix, NEW from \in Number, from + BatchSize <= MaxNumber
  PROVE  Inserted(p, from) \subseteq AnyPrefix \X Number
<1>1. \A n \in from .. (from + BatchSize - 1) : n \in Number
  BY ItemBounds DEF Number
<1> QED
  BY <1>1 DEF Inserted

LEMMA InsertStep ==
  ASSUME ItemInv, Insert
  PROVE  ItemInv'
<1>0. /\ batch.stage = "sent" /\ batch \in Batch
      /\ taken' = taken \cup Inserted(batch.for, batch.from) /\ lookups' = AllOld
      /\ UNCHANGED <<prefix, suffixStart, startFor, byHand>>
  BY DEF Insert, ItemInv, ItemTypeOK
<1>1. PICK p \in AnyPrefix, from \in Number :
        p = batch.for /\ from = batch.from /\ from + BatchSize <= MaxNumber
  BY <1>0 DEF ItemInv, BatchBounded, Batch
<1>2. from \in Nat /\ taken' = taken \cup Inserted(p, from)
        /\ taken \subseteq AnyPrefix \X Number
  BY <1>0, <1>1 DEF Number, ItemInv, ItemTypeOK
<1>3. /\ \A q : q # p => Numbers(q)' = Numbers(q)
      /\ Free(p, from) => Free(p, from + BatchSize)'
      /\ Free(p, from) => taken \cap Inserted(p, from) = {}
  BY <1>2, InsertedNumbers
<1>4. NoSuffixTwice'
  <2>1. ~batch.excused => Free(p, from)
    BY <1>0, <1>1 DEF ItemInv, BatchFree
  <2>2. twice' = (twice \/ (~batch.excused /\ taken \cap Inserted(p, from) # {}))
    BY <1>1 DEF Insert
  <2> QED
    BY <1>3, <2>1, <2>2 DEF ItemInv, NoSuffixTwice
<1>5. PICK stage \in {"inserted", "failed"} :
        /\ batch' = [batch EXCEPT !.stage = stage]
        /\ stage = "inserted" => outdated' = (outdated \/ ~Continues)
        /\ stage = "failed" => outdated' = TRUE
  BY DEF Insert
<1>6. batch' \in Batch /\ batch'.stage = stage
  BY <1>0, <1>5 DEF Batch
<1>7. outdated' \in BOOLEAN /\ twice' = FALSE
  BY <1>4, <1>5 DEF ItemInv, ItemTypeOK, Continues, NoSuffixTwice, Insert
<1>8. ItemTypeOK'
  <2>1. taken' \subseteq AnyPrefix \X Number
    BY <1>1, <1>2, InsertedType
  <2>2. lookups' \subseteq Lookup
    BY <1>0, OldLookups DEF ItemInv
  <2> QED
    BY <1>0, <1>6, <1>7, <2>1, <2>2 DEF ItemInv, ItemTypeOK
<1>9. StartFree'
  <2> SUFFICES ASSUME startFor # "", ~byHand, ~outdated'
               PROVE  stage = "inserted" /\ Free(startFor, suffixStart + BatchSize)'
    BY <1>0, <1>6 DEF StartFree, Free, Numbers
  <2>1. stage = "inserted" /\ ~outdated /\ Continues
    BY <1>5
  <2>2. p = startFor /\ from = suffixStart
    BY <1>1, <2>1 DEF Continues
  <2>3. Free(startFor, suffixStart)
    BY <1>0, <2>1 DEF ItemInv, StartFree
  <2>4. Free(p, from + BatchSize)'
    BY <1>3, <2>2, <2>3
  <2> QED
    BY <1>0, <2>1, <2>2, <2>4 DEF Free, Numbers
<1>10. LookupsFree' /\ BatchFree' /\ BatchBounded'
  BY <1>0, <1>6, OldLookups DEF ItemInv, BatchFree, BatchBounded
<1> QED
  BY <1>4, <1>8, <1>9, <1>10 DEF ItemInv

LEMMA ElsewhereStep ==
  ASSUME ItemInv, NEW p \in ItemPrefixes, InsertElsewhere(p)
  PROVE  ItemInv'
<1>0. /\ outdated' = TRUE /\ batch' = [batch EXCEPT !.excused = TRUE] /\ lookups' = AllOld
      /\ batch \in Batch
      /\ UNCHANGED <<prefix, suffixStart, startFor, byHand, twice>>
  BY DEF InsertElsewhere, ItemInv, ItemTypeOK
<1>1. PICK n \in Nat \ {0} : n = NextSuffix(p)
  BY NextIsFree DEF ItemInv
<1>2. n + BatchSize <= MaxNumber /\ taken' = taken \cup Inserted(p, n) /\ p \in AnyPrefix
  BY <1>1 DEF InsertElsewhere, AnyPrefix
<1>3. n \in Number
  BY <1>1, <1>2, ItemBounds DEF Number
<1>4. taken' \subseteq AnyPrefix \X Number
  BY <1>2, <1>3, InsertedType DEF ItemInv, ItemTypeOK
<1>5. /\ batch' \in Batch /\ batch'.excused /\ batch'.stage = batch.stage
      /\ batch'.from = batch.from
  BY <1>0 DEF Batch
<1>6. ItemTypeOK' /\ LookupsFree'
  BY <1>0, <1>4, <1>5, OldLookups DEF ItemInv, ItemTypeOK
<1>7. NoSuffixTwice' /\ StartFree' /\ BatchFree' /\ BatchBounded'
  BY <1>0, <1>5 DEF ItemInv, NoSuffixTwice, StartFree, BatchFree, BatchBounded
<1> QED
  BY <1>6, <1>7 DEF ItemInv

LEMMA ItemInvStep ==
  ASSUME ItemInv, [ItemNext]_itemVars
  PROVE  ItemInv'
<1>1. CASE UNCHANGED itemVars
  BY <1>1 DEF itemVars, ItemInv, ItemTypeOK, NoSuffixTwice, LookupsFree, StartFree, BatchFree,
     BatchBounded, Free, Numbers
<1> QED
  BY <1>1, LookupStep, TypeStartStep, BatchStep, InsertStep, ElsewhereStep DEF ItemNext

LEMMA ItemInvAlways == ItemSpec => []ItemInv
BY ItemInvInit, ItemInvStep, PTL DEF ItemSpec

\* Every variable keeps its type: no suffix leaves the bounds.
THEOREM ItemTypeCorrect == ItemSpec => []ItemTypeOK
<1>1. ItemInv => ItemTypeOK
  BY DEF ItemInv
<1> QED
  BY <1>1, ItemInvAlways, PTL

\* A suffix is given twice only for no prefix, from a number of another prefix,
\* from one typed by hand, or with items the number does not know of.
THEOREM NoSuffixTwiceAlways == ItemSpec => []NoSuffixTwice
<1>1. ItemInv => NoSuffixTwice
  BY DEF ItemInv
<1> QED
  BY <1>1, ItemInvAlways, PTL

\* A number that was looked up for the prefix shown, not typed over, and that no
\* unknown item can have outdated is beyond every item that exists, once the
\* page knows what became of its batch.
THEOREM StartIsFreeAlways == ItemSpec => []StartIsFree
<1>1. ItemInv => StartIsFree
  BY DEF ItemInv, StartFree, StartIsFree, Excused, Free
<1> QED
  BY <1>1, ItemInvAlways, PTL

----------------------------------------------------------------------------
\* The pages together.

\* What is done on one page is nothing to the others: each keeps the promises
\* proved of it alone.
THEOREM PagesApart == Spec => DeskSpec /\ ItemSpec /\ FormSpec /\ SelectorSpec
<1> DEFINE vars == <<page, deskVars, itemVars, formVars, selectorVars>>
<1>1. Init => DeskInit /\ ItemInit /\ FormInit /\ SelectorInit
  BY DEF Init
<1>2. [Next]_vars => [DeskNext]_deskVars /\ [ItemNext]_itemVars
                       /\ [FormNext]_formVars /\ [SelectorNext]_selectorVars
  BY DEF Next
<1> QED
  BY <1>1, <1>2, PTL DEF Spec, DeskSpec, ItemSpec, FormSpec, SelectorSpec

\* Every value of every page is of its kind.
THEOREM PagesTypeCorrect == Spec => []TypeOK
<1>1. DeskTypeOK /\ ItemTypeOK /\ FormTypeOK /\ SelectorTypeOK => TypeOK
  BY DEF TypeOK
<1> QED
  BY <1>1, PagesApart, DeskTypeCorrect, ItemTypeCorrect, FormTypeCorrect, SelectorTypeCorrect, PTL
=============================================================================
