------------------------------- MODULE Selector -------------------------------
(***************************************************************************)
(* The search field with which everything is chosen                        *)
(* (AbstractSelectorComponent), between the list it chooses from and the   *)
(* component that holds it:                                                *)
(*                                                                         *)
(*   bound     [(selected)]: what the field tells its parent comes back to *)
(*             it as an input; otherwise nothing comes back;               *)
(*   keeps     the identifier is told by userIdChange, which lets no       *)
(*             undefined through;                                          *)
(*   follows   the object told is followed: every version of it is told in *)
(*             turn.                                                       *)
(*                                                                         *)
(* An event runs its callbacks to the end, then Angular detects changes of *)
(* inputs: Detect comes before any other event.                            *)
(***************************************************************************)
EXTENDS Naturals, Sequences, FiniteSets

CONSTANTS
  Ids,         \* entries of the list
  MaxEvents,   \* bound: events of the user and of the parent
  MaxVersions  \* bound: changes of the list

VARIABLES
  kind,
  list,        \* the list's current entries: their version, 0 for none
  values,      \* possibleValues
  shown,       \* what the field shows: an entry, another text, or nothing
  input,       \* the last @Input selected
  selected,    \* the parent's identifier
  object,      \* the parent's object, in the version it was told
  follows,     \* entries whose versions are told, in the order of the choices
  detect,      \* changes of inputs remain to be detected
  events, versions

selectorVars == <<kind, list, values, shown, input, selected, object, follows,
                  detect, events, versions>>

\* How each field is used: a user is also chosen in a bound field.
SelectStorage == [bound |-> TRUE, keeps |-> FALSE, follows |-> FALSE]
SelectObjectType == [bound |-> TRUE, keeps |-> FALSE, follows |-> FALSE]
SelectLoan == [bound |-> TRUE, keeps |-> FALSE, follows |-> FALSE]
SelectUser == [bound |-> FALSE, keeps |-> TRUE, follows |-> FALSE]
SelectObject == [bound |-> FALSE, keeps |-> FALSE, follows |-> TRUE]

SelectorKinds ==
  {SelectStorage, SelectObjectType, SelectLoan, SelectUser, SelectObject}
None == "none"
OtherText == "other text"
NoVersion == [id |-> None, version |-> 0]
Version == 1 .. (MaxVersions + 1)

ASSUME SelectorAssumption ==
  MaxEvents \in Nat /\ MaxVersions \in Nat /\ {None, OtherText} \cap Ids = {}

EntryVersion == [id : Ids, version : Version] \cup {NoVersion}

SelectorTypeOK ==
  /\ kind \in SelectorKinds
  /\ list \in [Ids -> {0} \cup Version] /\ values \in [Ids -> {0} \cup Version]
  /\ shown \in Ids \cup {None, OtherText}
  /\ input \in Ids \cup {None} /\ selected \in Ids \cup {None}
  /\ object \in EntryVersion
  /\ follows \in Seq(Ids)
  /\ detect \in BOOLEAN
  /\ events \in 0 .. MaxEvents /\ versions \in 0 .. MaxVersions

Known(id) == values[id] # 0

\* The parent may have a selection before the list comes.
SelectorInit ==
  /\ kind \in SelectorKinds
  /\ list = [i \in Ids |-> 1] /\ values = [i \in Ids |-> 0]
  /\ shown = None
  /\ input \in (IF kind.bound THEN Ids \cup {None} ELSE {None})
  /\ selected = input /\ object = NoVersion
  /\ follows = <<>> /\ detect = FALSE
  /\ events = 0 /\ versions = 0

----------------------------------------------------------------------------
\* What the field tells its parent.

\* userIdChange: undefined is not smaller than the discriminant.
SelectedAfter(id) == IF kind.keeps /\ id = None THEN selected ELSE id

\* Mutant: choosing again follows nothing new.
FollowsFirst(id) ==
  IF kind.follows /\ follows = <<>> THEN <<id>> ELSE follows

\* refreshValue: one more subscription, which nothing ends.
FollowsAfter(id) == IF kind.follows THEN Append(follows, id) ELSE follows

\* Mutant: an entry that has gone is told all the same.
EvenWhenGone(id, view) == [id |-> id, version |-> view[id]]

ObjectOf(id, view) ==
  IF view[id] = 0 THEN NoVersion ELSE [id |-> id, version |-> view[id]]

\* emit: the identifier, and the object; a followed one in its latest version.
Emit(id) ==
  /\ selected' = SelectedAfter(id)
  /\ object' = ObjectOf(id, IF kind.follows THEN list ELSE values)
  /\ follows' = FollowsAfter(id)

\* Mutant: the object is forgotten in the branch of an empty field.
EmitNoIdentifier ==
  /\ selected' = SelectedAfter(None)
  /\ UNCHANGED <<object, follows>>

EmitNothing ==
  /\ selected' = SelectedAfter(None)
  /\ object' = NoVersion
  /\ follows' = follows

\* onValueChange, for what the field shows now.
ValueChanges(what) ==
  /\ shown' = what
  /\ IF what \in Ids THEN Emit(what) ELSE EmitNothing

UserEvent == ~detect /\ events < MaxEvents /\ events' = events + 1

\* Typing: the text of an entry chooses it, any other text chooses nothing.
\* Choosing an option of the list goes the same way.
Type(what) ==
  /\ UserEvent
  /\ what \in Ids => Known(what)
  /\ ValueChanges(what)
  /\ detect' = TRUE
  /\ UNCHANGED <<kind, list, values, input, versions>>

\* reset, called by the parent after a success.
ResetField ==
  /\ UserEvent /\ ~kind.bound
  /\ ValueChanges(None)
  /\ detect' = TRUE
  /\ UNCHANGED <<kind, list, values, input, versions>>

\* The parent sets its selection by itself.
ParentSelects(id) ==
  /\ UserEvent /\ kind.bound
  /\ id # None => list[id] # 0
  /\ selected' = id
  /\ object' = IF id = None THEN NoVersion ELSE object
  /\ detect' = TRUE
  /\ UNCHANGED <<kind, list, values, shown, input, follows, versions>>

\* ngOnChanges and externalChanges.  Nothing is done before there is a list;
\* an identifier the list has not throws, and the field stays as it is.
Detect ==
  /\ detect /\ detect' = FALSE
  /\ input' = IF kind.bound THEN selected ELSE input
  /\ IF input' = input \/ \A i \in Ids : ~Known(i) \/ (input' # None /\ ~Known(input'))
     THEN UNCHANGED <<shown, selected, object, follows>>
     ELSE ValueChanges(input')
  /\ UNCHANGED <<kind, list, values, events, versions>>

----------------------------------------------------------------------------
\* The list changes.

\* Mutant: a new list does not set the field again.
KeptOnRefresh == FALSE

\* this.getId(this.selectedObject) ?? this.selected
SetOnRefresh == input # None

\* refresh: the list's values are taken; a bound field is set again, to
\* nothing when its entry has gone.
ListArrives ==
  /\ ~detect /\ values # list
  /\ values' = list
  /\ IF SetOnRefresh
     THEN IF list[input] # 0
          THEN /\ shown' = input /\ selected' = SelectedAfter(input)
               /\ object' = [id |-> input, version |-> list[input]]
               /\ follows' = FollowsAfter(input)
          ELSE ValueChanges(None)
     ELSE UNCHANGED <<shown, selected, object, follows>>
  /\ detect' = TRUE
  /\ UNCHANGED <<kind, list, input, events, versions>>

\* Mutant: no distinctUntilChanged, any change is told to every follower.
ToldOfAnyChange(changed) == DOMAIN follows

\* getObjectById, distinctUntilChanged: the places of those that tell.
Told(changed) == {k \in DOMAIN follows : follows[k] \in changed}

\* A new version of some entries, or their end, and what the followed ones
\* tell: in the order they were followed, so the last one stays.
ListChanges(changed, gone) ==
  /\ ~detect /\ versions < MaxVersions
  /\ changed # {} /\ \A i \in changed : list[i] # 0
  /\ versions' = versions + 1
  /\ list' = [i \in Ids |-> IF i \notin changed THEN list[i]
                            ELSE IF gone THEN 0 ELSE versions + 2]
  /\ \/ Told(changed) = {} /\ object' = object
     \/ \E k \in Told(changed) : /\ \A l \in Told(changed) : l <= k
                                 /\ object' = ObjectOf(follows[k], list')
  /\ detect' = TRUE
  /\ UNCHANGED <<kind, values, shown, input, selected, follows, events>>

SelectorNext ==
  \/ \E what \in Ids \cup {None, OtherText} : Type(what)
  \/ ResetField
  \/ \E id \in Ids \cup {None} : ParentSelects(id)
  \/ Detect
  \/ ListArrives
  \/ \E changed \in SUBSET Ids, gone \in BOOLEAN : ListChanges(changed, gone)

SelectorSpec == SelectorInit /\ [][SelectorNext]_selectorVars

----------------------------------------------------------------------------
\* Properties.

Settled == ~detect /\ values = list

\* The identifier and the object a parent holds are of the same entry; only
\* a user's identifier outlives its object.
HalvesAgree ==
  Settled /\ (\E i \in Ids : Known(i)) =>
    CASE kind.bound -> object.id = selected
      [] kind.keeps -> object.id \in {None, selected}
      [] kind.follows -> TRUE

\* A bound field shows the entry that is selected, and none when none is,
\* after any typing, parent's choice and change of the list.
ShowsSelected ==
  kind.bound /\ Settled /\ (\E i \in Ids : Known(i)) =>
    IF selected = None THEN shown \notin Ids ELSE shown = selected

\* The object a parent holds is the current version of the entry.
SelectedIsCurrent ==
  ~kind.keeps /\ Settled /\ object # NoVersion => object.version = list[object.id]

\* The object a parent holds becomes another entry than the one shown only
\* when that entry changes.  It does then: whatever was chosen once is still
\* followed, and takes the place of what is chosen now, or of nothing.
JumpsOnlyOnChange ==
  [][object'.id \notin {object.id, None, shown'}
       => list'[object'.id] # list[object'.id]]_selectorVars
=============================================================================
