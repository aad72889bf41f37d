---------------------------- MODULE SelectorProofs ----------------------------
(***************************************************************************)
(* Theorems about Selector, for every list of entries and every bound.     *)
(***************************************************************************)
EXTENDS Selector, TLAPS

(* The parts of the invariant. *)

Empty(view) == \A i \in Ids : view[i] = 0

\* A version is numbered when it is made.
VersionsMade == \A i \in Ids : list[i] <= versions + 1

\* Entries only go: before the first list nothing is known, and later every
\* entry of the list is.
NothingComesBack == Empty(values) \/ \A i \in Ids : list[i] # 0 => values[i] # 0

\* A bound field and its parent agree once the parent's selection is detected.
BoundAgrees ==
  /\ follows = <<>>
  /\ ~detect => input = selected
  /\ selected = None => object = NoVersion
  /\ Empty(values) => shown \notin Ids
  /\ selected # None => Empty(values) \/ Known(selected)
  /\ input = selected /\ selected = None => shown \notin Ids
  /\ input = selected /\ selected # None =>
        Empty(values) \/ (shown = selected /\ object.id = selected)
  /\ object # NoVersion => object.version = values[object.id]

\* What a user's field tells keeps its two halves together.
UserAgrees == input = None /\ follows = <<>> /\ object.id \in {None, selected}

\* The object told is followed, in the version of the list.
ObjectFollowed ==
  /\ input = None
  /\ object # NoVersion =>
       /\ object.version = list[object.id]
       /\ \E k \in DOMAIN follows : follows[k] = object.id

SelectorInv ==
  /\ SelectorTypeOK /\ VersionsMade /\ NothingComesBack
  /\ kind.bound => BoundAgrees
  /\ kind.keeps => UserAgrees
  /\ kind.follows => ObjectFollowed

----------------------------------------------------------------------------
\* A field is bound, or keeps its identifier, or follows.
LEMMA FieldKinds ==
  ASSUME kind \in SelectorKinds
  PROVE  /\ kind.bound \in BOOLEAN /\ kind.keeps \in BOOLEAN /\ kind.follows \in BOOLEAN
         /\ kind.bound => ~kind.keeps /\ ~kind.follows
         /\ kind.keeps => ~kind.follows
         /\ kind.bound \/ kind.keeps \/ kind.follows
<1>1. CASE kind = SelectStorage \/ kind = SelectObjectType \/ kind = SelectLoan
  <2>1. kind = [bound |-> TRUE, keeps |-> FALSE, follows |-> FALSE]
    BY <1>1 DEF SelectStorage, SelectObjectType, SelectLoan
  <2> QED
    BY <2>1
<1>2. CASE kind = SelectUser
  BY <1>2 DEF SelectUser
<1>3. CASE kind = SelectObject
  BY <1>3 DEF SelectObject
<1> QED
  BY <1>1, <1>2, <1>3 DEF SelectorKinds

\* None stands for no entry.
LEMMA NoneFacts ==
  /\ None \notin Ids /\ OtherText \notin Ids
  /\ NoVersion \in EntryVersion /\ NoVersion.id = None
  /\ \A v \in EntryVersion : v # NoVersion => v.id \in Ids /\ v.version \in Version
  BY SelectorAssumption DEF NoVersion, EntryVersion

\* What is told of an entry, in a view of the list.
LEMMA ObjectOfFacts ==
  ASSUME NEW id \in Ids, NEW view \in [Ids -> {0} \cup Version]
  PROVE  /\ ObjectOf(id, view) \in EntryVersion
         /\ ObjectOf(id, view).id = IF view[id] = 0 THEN None ELSE id
         /\ view[id] = 0 => ObjectOf(id, view) = NoVersion
         /\ ObjectOf(id, view) # NoVersion =>
              ObjectOf(id, view).id = id /\ ObjectOf(id, view).version = view[id]
<1>1. 0 \notin Version
  BY SelectorAssumption DEF Version
<1>2. CASE view[id] = 0
  BY <1>2, NoneFacts DEF ObjectOf
<1>3. CASE view[id] # 0
  BY <1>1, <1>3, NoneFacts DEF ObjectOf, EntryVersion
<1> QED
  BY <1>2, <1>3

LEMMA SelectorInvInit == SelectorInit => SelectorInv
<1> SUFFICES ASSUME SelectorInit PROVE SelectorInv
  OBVIOUS
<1> USE DEF SelectorInit
<1>1. 1 \in Version /\ 0 \in 0 .. MaxEvents /\ 0 \in 0 .. MaxVersions
  BY SelectorAssumption DEF Version
<1>2. input \in Ids \cup {None} /\ (~kind.bound => input = None)
  OBVIOUS
<1>3. SelectorTypeOK
  <2>1. list \in [Ids -> {0} \cup Version] /\ values \in [Ids -> {0} \cup Version]
    BY <1>1
  <2>2. shown = None /\ object \in EntryVersion /\ detect \in BOOLEAN
    BY NoneFacts
  <2>5. follows \in Seq(Ids)
    OBVIOUS
  <2>3. selected = input /\ events = 0 /\ versions = 0
    OBVIOUS
  <2> HIDE DEF SelectorInit
  <2>4. kind \in SelectorKinds
    BY DEF SelectorInit
  <2> QED
    BY <1>1, <1>2, <2>1, <2>2, <2>3, <2>4, <2>5 DEF SelectorTypeOK
<1>4. VersionsMade /\ NothingComesBack
  BY DEF VersionsMade, NothingComesBack, Empty
<1>5. kind.bound => BoundAgrees
  BY NoneFacts DEF BoundAgrees, Empty
<1>6. kind.keeps => UserAgrees
  BY FieldKinds, <1>2, NoneFacts DEF UserAgrees
<1>7. kind.follows => ObjectFollowed
  BY FieldKinds, <1>2 DEF ObjectFollowed
<1> QED
  BY <1>3, <1>4, <1>5, <1>6, <1>7 DEF SelectorInv

\* Whatever changes a field's value keeps the types.
LEMMA ValueChangesType ==
  ASSUME SelectorTypeOK, NEW what \in Ids \cup {None, OtherText}, ValueChanges(what)
  PROVE  /\ shown' \in Ids \cup {None, OtherText} /\ selected' \in Ids \cup {None}
         /\ object' \in EntryVersion /\ follows' \in Seq(Ids)
<1> USE DEF ValueChanges, SelectorTypeOK
<1>1. CASE what \in Ids
  <2>1. object' \in EntryVersion
    BY <1>1, ObjectOfFacts DEF Emit
  <2>2. follows' \in Seq(Ids)
    BY <1>1 DEF Emit, FollowsAfter
  <2> QED
    BY <1>1, <2>1, <2>2 DEF Emit, SelectedAfter
<1>2. CASE what \notin Ids
  BY <1>2, NoneFacts DEF EmitNothing, SelectedAfter
<1> QED
  BY <1>1, <1>2

\* A bound field tells what it shows, when it knows it.
LEMMA BoundTells ==
  ASSUME SelectorTypeOK, kind.bound, follows = <<>>,
         NEW what \in Ids \cup {None, OtherText}, ValueChanges(what),
         what \in Ids => Known(what)
  PROVE  /\ shown' = what /\ follows' = <<>>
         /\ what \in Ids => /\ selected' = what /\ object'.id = what
                            /\ object'.version = values[what]
         /\ what \notin Ids => selected' = None /\ object' = NoVersion
<1>1. ~kind.keeps /\ ~kind.follows
  BY FieldKinds DEF SelectorTypeOK
<1>2. CASE what \in Ids
  <2>1. object' = ObjectOf(what, values) /\ values[what] # 0
    BY <1>1, <1>2 DEF ValueChanges, Emit, Known
  <2>2. object' # NoVersion
    BY <1>2, <2>1, NoneFacts DEF ObjectOf
  <2>3. object'.id = what /\ object'.version = values[what]
    BY <1>2, <2>1, <2>2, ObjectOfFacts DEF SelectorTypeOK
  <2> QED
    BY <1>1, <1>2, <2>3 DEF ValueChanges, Emit, SelectedAfter, FollowsAfter
<1>3. CASE what \notin Ids
  BY <1>1, <1>3 DEF ValueChanges, EmitNothing, SelectedAfter
<1> QED
  BY <1>2, <1>3

\* Of a user's field, the object told is of the identifier told.
LEMMA UserTells ==
  ASSUME SelectorTypeOK, kind.keeps, UserAgrees,
         NEW what \in Ids \cup {None, OtherText}, ValueChanges(what), input' = input
  PROVE  UserAgrees'
<1>1. ~kind.follows
  BY FieldKinds DEF SelectorTypeOK
<1>2. CASE what \in Ids
  <2>1. selected' = what /\ follows' = <<>> /\ object' = ObjectOf(what, values)
    BY <1>1, <1>2, NoneFacts DEF ValueChanges, Emit, SelectedAfter, FollowsAfter, UserAgrees
  <2>2. object'.id \in {None, what}
    BY <1>2, <2>1, ObjectOfFacts DEF SelectorTypeOK
  <2> QED
    BY <2>1, <2>2 DEF UserAgrees
<1>3. CASE what \notin Ids
  BY <1>3, NoneFacts DEF ValueChanges, EmitNothing, UserAgrees
<1> QED
  BY <1>2, <1>3

\* An object's field tells the version of the list, and follows it.
LEMMA ObjectTells ==
  ASSUME SelectorTypeOK, kind.follows, ObjectFollowed,
         NEW what \in Ids \cup {None, OtherText}, ValueChanges(what),
         input' = input, list' = list
  PROVE  ObjectFollowed'
<1>1. CASE what \in Ids
  <2>1. object' = ObjectOf(what, list) /\ follows' = Append(follows, what)
    BY <1>1 DEF ValueChanges, Emit, FollowsAfter
  <2>2. \E k \in DOMAIN follows' : follows'[k] = what
    <3>1. follows \in Seq(Ids) /\ what \in Ids
      BY <1>1 DEF SelectorTypeOK
    <3> QED
      BY <2>1, <3>1
  <2>3. object' # NoVersion => object'.id = what /\ object'.version = list[what]
    BY <1>1, <2>1, ObjectOfFacts DEF SelectorTypeOK
  <2> QED
    BY <2>2, <2>3 DEF ObjectFollowed
<1>2. CASE what \notin Ids
  BY <1>2 DEF ValueChanges, EmitNothing, ObjectFollowed
<1> QED
  BY <1>1, <1>2

----------------------------------------------------------------------------
\* The actions.

\* The user chooses, types or is given an empty field.
LEMMA FieldStep ==
  ASSUME SelectorInv, NEW what \in Ids \cup {None, OtherText}, UserEvent,
         what \in Ids => Known(what), ValueChanges(what), detect' = TRUE,
         UNCHANGED <<kind, list, values, input, versions>>
  PROVE  SelectorInv'
<1> USE DEF SelectorInv
<1>1. SelectorTypeOK'
  <2>1. events' \in 0 .. MaxEvents
    BY SelectorAssumption DEF UserEvent, SelectorTypeOK
  <2> QED
    BY <2>1, ValueChangesType DEF SelectorTypeOK, EntryVersion, Version
<1>2. VersionsMade' /\ NothingComesBack'
  BY DEF VersionsMade, NothingComesBack, Empty
<1>3. ASSUME kind.bound PROVE BoundAgrees'
  <2>1. input = selected /\ follows = <<>>
    BY <1>3 DEF UserEvent, BoundAgrees
  <2>2. CASE what \in Ids
    <3>1. /\ shown' = what /\ follows' = <<>> /\ selected' = what
          /\ object'.id = what /\ object'.version = values[what]
      BY <1>3, <2>1, <2>2, BoundTells
    <3>2. values[what] # 0 /\ what # None
      BY <2>2, NoneFacts DEF Known
    <3>3. Known(selected)' /\ ~Empty(values')
      BY <2>2, <3>1, <3>2 DEF Known, Empty
    <3> QED
      BY <3>1, <3>2, <3>3 DEF BoundAgrees
  <2>3. CASE what \notin Ids
    <3>1. /\ shown' = what /\ follows' = <<>> /\ selected' = None /\ object' = NoVersion
      BY <1>3, <2>1, <2>3, BoundTells
    <3> QED
      BY <2>3, <3>1 DEF BoundAgrees
  <2> QED
    BY <2>2, <2>3
<1>4. kind.keeps => UserAgrees'
  BY UserTells
<1>5. kind.follows => ObjectFollowed'
  BY ObjectTells
<1> QED
  BY <1>1, <1>2, <1>3, <1>4, <1>5

\* The parent selects an entry of the list, or none.
LEMMA ParentStep ==
  ASSUME SelectorInv, NEW id \in Ids \cup {None}, ParentSelects(id)
  PROVE  SelectorInv'
<1> USE DEF SelectorInv, ParentSelects
<1>1. SelectorTypeOK'
  <2>1. events' \in 0 .. MaxEvents
    BY SelectorAssumption DEF UserEvent, SelectorTypeOK
  <2>2. object' \in EntryVersion
    BY NoneFacts DEF SelectorTypeOK
  <2> QED
    BY <2>1, <2>2 DEF SelectorTypeOK, EntryVersion, Version
<1>2. VersionsMade' /\ NothingComesBack'
  BY DEF VersionsMade, NothingComesBack, Empty
<1>3. BoundAgrees'
  <2> USE DEF BoundAgrees
  <2>1. input = selected /\ follows = <<>>
    BY DEF UserEvent
  <2>2. follows' = <<>> /\ detect' = TRUE /\ values' = values /\ shown' = shown /\ input' = input
    BY <2>1
  <2>3. Empty(values) => shown \notin Ids
    OBVIOUS
  <2>4. CASE id = None
    BY <2>1, <2>2, <2>3, <2>4 DEF Empty
  <2>5. CASE id # None
    <3>1. Empty(values) \/ values[id] # 0
      BY <2>5 DEF NothingComesBack
    <3>2. selected' = id /\ object' = object
      BY <2>5
    <3> QED
      BY <2>1, <2>2, <2>5, <3>1, <3>2 DEF Empty, Known
  <2> QED
    BY <2>4, <2>5
<1> QED
  BY <1>1, <1>2, <1>3, FieldKinds DEF SelectorTypeOK

LEMMA DetectStep ==
  ASSUME SelectorInv, Detect
  PROVE  SelectorInv'
<1> USE DEF SelectorInv
<1>0. /\ detect' = FALSE /\ UNCHANGED <<kind, list, values, events, versions>>
      /\ input' = IF kind.bound THEN selected ELSE input
  BY DEF Detect
<1>1. input' \in Ids \cup {None}
  BY <1>0 DEF SelectorTypeOK
<1>2. VersionsMade' /\ NothingComesBack'
  BY <1>0 DEF VersionsMade, NothingComesBack, Empty
<1>3. CASE UNCHANGED <<shown, selected, object, follows>>
      /\ (input' = input \/ \A i \in Ids : ~Known(i) \/ (input' # None /\ ~Known(input')))
  <2>1. SelectorTypeOK'
    BY <1>0, <1>1, <1>3 DEF SelectorTypeOK, EntryVersion, Version
  <2>2. ASSUME kind.bound PROVE BoundAgrees'
    <3> USE DEF BoundAgrees
    <3>1. input' = selected'
      BY <1>0, <1>3, <2>2
    <3>2. CASE input' = input
      BY <1>0, <1>3, <2>2, <3>1, <3>2 DEF Empty, Known
    <3>3. CASE input' # input
      <4>1. Empty(values)
        BY <1>0, <1>3, <2>2, <3>1, <3>3 DEF Empty, Known
      <4> QED
        BY <1>0, <1>3, <2>2, <3>1, <4>1 DEF Empty, Known
    <3> QED
      BY <3>2, <3>3
  <2>3. kind.keeps => UserAgrees'
    BY <1>0, <1>3, FieldKinds DEF UserAgrees, SelectorTypeOK
  <2>4. kind.follows => ObjectFollowed'
    BY <1>0, <1>3, FieldKinds DEF ObjectFollowed, SelectorTypeOK
  <2> QED
    BY <1>0, <1>2, <2>1, <2>2, <2>3, <2>4
<1>4. CASE /\ ValueChanges(input') /\ input' # input
           /\ ~\A i \in Ids : ~Known(i) \/ (input' # None /\ ~Known(input'))
  <2>1. SelectorTypeOK'
    BY <1>0, <1>1, <1>4, ValueChangesType DEF SelectorTypeOK, EntryVersion, Version
  <2>2. kind.bound /\ input' = selected
    BY <1>0, <1>4
  <2>3. input' \in Ids => Known(input')
    BY <1>4, NoneFacts
  <2>4. BoundAgrees'
    <3>1. follows = <<>>
      BY <2>2 DEF BoundAgrees
    <3>2. CASE input' \in Ids
      <4>1. /\ shown' = input' /\ follows' = <<>> /\ selected' = input'
            /\ object'.id = input' /\ object'.version = values[input']
        BY <1>1, <1>4, <2>2, <2>3, <3>1, <3>2, BoundTells
      <4>2. values[input'] # 0 /\ input' # None
        BY <2>3, <3>2, NoneFacts DEF Known
      <4>3. Known(selected)' /\ ~Empty(values')
        BY <1>0, <3>2, <4>1, <4>2 DEF Known, Empty
      <4> QED
        BY <1>0, <4>1, <4>2, <4>3 DEF BoundAgrees
    <3>3. CASE input' \notin Ids
      <4>1. shown' = input' /\ follows' = <<>> /\ selected' = None /\ object' = NoVersion
        BY <1>1, <1>4, <2>2, <2>3, <3>1, <3>3, BoundTells
      <4>2. input' = None
        BY <1>1, <3>3
      <4> QED
        BY <3>3, <4>1, <4>2 DEF BoundAgrees
    <3> QED
      BY <3>2, <3>3
  <2> QED
    BY <1>0, <1>2, <2>1, <2>2, <2>4, FieldKinds DEF SelectorTypeOK
<1> QED
  BY <1>3, <1>4 DEF Detect

\* A new list: a bound field is set again, or emptied when its entry has gone.
LEMMA ListArrivesStep ==
  ASSUME SelectorInv, ListArrives
  PROVE  SelectorInv'
<1> USE DEF SelectorInv
<1>0. /\ detect = FALSE /\ detect' = TRUE /\ values' = list
      /\ UNCHANGED <<kind, list, input, events, versions>>
  BY DEF ListArrives, SelectorTypeOK
<1>1. VersionsMade' /\ NothingComesBack'
  BY <1>0 DEF VersionsMade, NothingComesBack, Empty
<1>2. CASE input = None
  <2>1. UNCHANGED <<shown, selected, object, follows>>
    BY <1>2 DEF ListArrives, SetOnRefresh
  <2>2. SelectorTypeOK'
    BY <1>0, <2>1 DEF SelectorTypeOK, EntryVersion, Version
  <2>3. kind.bound => BoundAgrees'
    BY <1>0, <1>2, <2>1 DEF BoundAgrees, Empty
  <2>4. kind.keeps => UserAgrees'
    BY <1>0, <2>1 DEF UserAgrees
  <2>5. kind.follows => ObjectFollowed'
    BY <1>0, <2>1 DEF ObjectFollowed
  <2> QED
    BY <1>0, <1>1, <2>2, <2>3, <2>4, <2>5
<1>3. CASE input # None
  <2>1. kind.bound /\ ~kind.keeps /\ ~kind.follows /\ input \in Ids /\ SetOnRefresh
    BY <1>3, FieldKinds DEF SelectorTypeOK, UserAgrees, ObjectFollowed, SetOnRefresh
  <2>2. follows = <<>> /\ input = selected
    BY <1>0, <2>1 DEF BoundAgrees
  <2>3. CASE list[input] # 0
    <3>1. /\ shown' = input /\ selected' = input /\ follows' = <<>>
          /\ object' = [id |-> input, version |-> list[input]]
      BY <2>1, <2>2, <2>3 DEF ListArrives, SelectedAfter, FollowsAfter
    <3>2. object' \in EntryVersion
      BY <2>1, <2>3, <3>1 DEF SelectorTypeOK, EntryVersion
    <3>3. SelectorTypeOK'
      BY <1>0, <2>1, <2>2, <3>1, <3>2 DEF SelectorTypeOK, EntryVersion, Version
    <3>4. ~Empty(values') /\ Known(selected)' /\ input # None
      BY <1>0, <1>3, <2>1, <2>3, <3>1 DEF Empty, Known
    <3>5. BoundAgrees'
      BY <1>0, <3>1, <3>4 DEF BoundAgrees
    <3> QED
      BY <1>0, <1>1, <2>1, <3>3, <3>5
  <2>4. CASE list[input] = 0
    <3>1. ValueChanges(None)
      BY <2>1, <2>4 DEF ListArrives
    <3>2. shown' = None /\ follows' = <<>> /\ selected' = None /\ object' = NoVersion
      BY <2>1, <2>2, <3>1, NoneFacts, BoundTells
    <3>3. SelectorTypeOK'
      BY <1>0, <3>1, ValueChangesType DEF SelectorTypeOK, EntryVersion, Version
    <3>4. BoundAgrees'
      BY <1>0, <1>3, <3>2, NoneFacts DEF BoundAgrees
    <3> QED
      BY <1>0, <1>1, <2>1, <3>3, <3>4
  <2> QED
    BY <2>3, <2>4
<1> QED
  BY <1>2, <1>3

\* What changes in the list is what the followed entries tell.
LEMMA ToldOfChanged ==
  ASSUME SelectorInv, NEW changed \in SUBSET Ids, NEW gone \in BOOLEAN,
         ListChanges(changed, gone)
  PROVE  /\ list' \in [Ids -> {0} \cup Version]
         /\ \A i \in changed : list[i] # 0 /\ list'[i] # list[i]
         /\ \A i \in Ids \ changed : list'[i] = list[i]
         /\ object' \in EntryVersion
         /\ \/ Told(changed) = {} /\ object' = object
            \/ \E k \in Told(changed) : object' = ObjectOf(follows[k], list')
<1> USE DEF SelectorInv, ListChanges
<1>1. versions + 2 \in Version
  BY SelectorAssumption DEF SelectorTypeOK, Version
<1>2. list' \in [Ids -> {0} \cup Version]
  BY <1>1 DEF SelectorTypeOK
<1>3. ASSUME NEW i \in changed PROVE list[i] # 0 /\ list'[i] # list[i]
  <2>1. list[i] # 0 /\ list[i] <= versions + 1
    BY DEF VersionsMade
  <2>2. list'[i] = IF gone THEN 0 ELSE versions + 2
    BY <1>3
  <2>3. list[i] \in Nat /\ versions \in Nat
    BY SelectorAssumption DEF SelectorTypeOK, Version
  <2> QED
    BY <2>1, <2>2, <2>3
<1>4. \A i \in Ids \ changed : list'[i] = list[i]
  BY DEF SelectorTypeOK
<1>5. \/ Told(changed) = {} /\ object' = object
      \/ \E k \in Told(changed) : object' = ObjectOf(follows[k], list')
  OBVIOUS
<1>6. object' \in EntryVersion
  <2>1. CASE object' = object
    BY <2>1 DEF SelectorTypeOK
  <2>2. ASSUME NEW k \in Told(changed), object' = ObjectOf(follows[k], list')
        PROVE  object' \in EntryVersion
    <3>1. follows[k] \in Ids
      BY <2>2 DEF Told
    <3> QED
      BY <1>2, <2>2, <3>1, ObjectOfFacts
  <2> QED
    BY <1>5, <2>1, <2>2
<1> QED
  BY <1>2, <1>3, <1>4, <1>5, <1>6

LEMMA ListChangesStep ==
  ASSUME SelectorInv, NEW changed \in SUBSET Ids, NEW gone \in BOOLEAN,
         ListChanges(changed, gone)
  PROVE  SelectorInv'
<1> USE DEF SelectorInv
<1>0. /\ detect = FALSE /\ detect' = TRUE /\ versions' = versions + 1
      /\ versions < MaxVersions
      /\ UNCHANGED <<kind, values, shown, input, selected, follows, events>>
  BY DEF ListChanges, SelectorTypeOK
<1>1. SelectorTypeOK'
  <2>1. versions' \in 0 .. MaxVersions
    BY <1>0, SelectorAssumption DEF SelectorTypeOK
  <2> QED
    BY <1>0, <2>1, ToldOfChanged DEF SelectorTypeOK, EntryVersion, Version
<1>2. VersionsMade'
  <2> SUFFICES ASSUME NEW i \in Ids PROVE list'[i] <= versions' + 1
    BY DEF VersionsMade
  <2>1. list'[i] \in {list[i], 0, versions + 2}
    BY DEF ListChanges
  <2>2. list[i] <= versions + 1 /\ list[i] \in Nat /\ versions \in Nat
    BY SelectorAssumption DEF SelectorTypeOK, Version, VersionsMade
  <2> QED
    BY <1>0, <2>1, <2>2
<1>3. NothingComesBack'
  <2>1. \A i \in Ids : list'[i] # 0 => list[i] # 0
    BY ToldOfChanged
  <2> QED
    BY <1>0, <2>1 DEF NothingComesBack, Empty
<1>4. (kind.bound \/ kind.keeps) => object' = object
  <2>1. kind.bound \/ kind.keeps => follows = <<>>
    BY DEF BoundAgrees, UserAgrees
  <2> QED
    BY <2>1, ToldOfChanged DEF Told
<1>5. kind.bound => BoundAgrees'
  BY <1>0, <1>4 DEF BoundAgrees, Empty, Known
<1>6. kind.keeps => UserAgrees'
  BY <1>0, <1>4 DEF UserAgrees
<1>7. ASSUME kind.follows PROVE ObjectFollowed'
  <2> SUFFICES ASSUME object' # NoVersion
               PROVE  /\ object'.version = list'[object'.id]
                      /\ \E k \in DOMAIN follows : follows[k] = object'.id
    BY <1>0, <1>7 DEF ObjectFollowed
  <2>1. CASE Told(changed) = {} /\ object' = object
    <3>1. PICK k \in DOMAIN follows : follows[k] = object.id
      BY <1>7, <2>1 DEF ObjectFollowed
    <3>2. object.id \in Ids \ changed
      BY <2>1, <3>1, NoneFacts DEF Told, SelectorTypeOK
    <3> QED
      BY <1>7, <2>1, <3>1, <3>2, ToldOfChanged DEF ObjectFollowed
  <2>2. ASSUME NEW k \in Told(changed), object' = ObjectOf(follows[k], list')
        PROVE  object'.version = list'[object'.id] /\ object'.id = follows[k]
    <3>1. follows[k] \in Ids
      BY <2>2 DEF Told
    <3> QED
      BY <2>2, <3>1, ToldOfChanged, ObjectOfFacts
  <2> QED
    BY <2>1, <2>2, ToldOfChanged DEF Told
<1> QED
  BY <1>0, <1>1, <1>2, <1>3, <1>5, <1>6, <1>7

LEMMA SelectorInvStep == SelectorInv /\ [SelectorNext]_selectorVars => SelectorInv'
<1> SUFFICES ASSUME SelectorInv, [SelectorNext]_selectorVars PROVE SelectorInv'
  OBVIOUS
<1>1. ASSUME NEW what \in Ids \cup {None, OtherText}, Type(what) PROVE SelectorInv'
  BY <1>1, FieldStep DEF Type
<1>2. ASSUME ResetField PROVE SelectorInv'
  BY <1>2, FieldStep, NoneFacts DEF ResetField
<1>3. ASSUME NEW id \in Ids \cup {None}, ParentSelects(id) PROVE SelectorInv'
  BY <1>3, ParentStep
<1>4. CASE UNCHANGED selectorVars
  BY <1>4 DEF selectorVars, SelectorInv, SelectorTypeOK, VersionsMade, NothingComesBack,
              BoundAgrees, UserAgrees, ObjectFollowed, Empty, Known, EntryVersion, Version
<1> QED
  BY <1>1, <1>2, <1>3, <1>4, DetectStep, ListArrivesStep, ListChangesStep DEF SelectorNext

LEMMA SelectorInvAlways == SelectorSpec => []SelectorInv
  BY SelectorInvInit, SelectorInvStep, PTL DEF SelectorSpec

----------------------------------------------------------------------------
\* Every variable of the field stays of its type, and the bounds hold.
THEOREM SelectorTypeCorrect == SelectorSpec => []SelectorTypeOK
<1>1. SelectorInv => SelectorTypeOK
  BY DEF SelectorInv
<1> QED
  BY <1>1, SelectorInvAlways, PTL

\* The identifier and the object a parent holds are of the same entry, once
\* inputs are detected and the list has come (onValueChange, refresh).
THEOREM HalvesAgreeAlways == SelectorSpec => []HalvesAgree
<1>1. SelectorInv => HalvesAgree
  <2> SUFFICES ASSUME SelectorInv, Settled, \E i \in Ids : Known(i)
               PROVE  CASE kind.bound -> object.id = selected
                        [] kind.keeps -> object.id \in {None, selected}
                        [] kind.follows -> TRUE
    BY DEF HalvesAgree
  <2> USE DEF SelectorInv
  <2>1. CASE kind.bound
    <3>1. object.id = selected
      BY <2>1, NoneFacts DEF BoundAgrees, Settled, Empty, Known
    <3> QED
      BY <2>1, <3>1, FieldKinds DEF SelectorTypeOK
  <2>2. CASE kind.keeps
    BY <2>2, FieldKinds DEF UserAgrees, SelectorTypeOK
  <2>3. CASE kind.follows
    BY <2>3, FieldKinds DEF SelectorTypeOK
  <2> QED
    BY <2>1, <2>2, <2>3, FieldKinds DEF SelectorTypeOK
<1> QED
  BY <1>1, SelectorInvAlways, PTL

\* A bound field shows the entry that is selected, and none when none is.
THEOREM ShowsSelectedAlways == SelectorSpec => []ShowsSelected
<1>1. SelectorInv => ShowsSelected
  <2> SUFFICES ASSUME SelectorInv, kind.bound, Settled, \E i \in Ids : Known(i)
               PROVE  IF selected = None THEN shown \notin Ids ELSE shown = selected
    BY DEF ShowsSelected
  <2> QED
    BY DEF SelectorInv, BoundAgrees, Settled, Empty, Known
<1> QED
  BY <1>1, SelectorInvAlways, PTL

\* The object a parent holds is the list's current version of the entry.
THEOREM SelectedIsCurrentAlways == SelectorSpec => []SelectedIsCurrent
<1>1. SelectorInv => SelectedIsCurrent
  <2> SUFFICES ASSUME SelectorInv, ~kind.keeps, Settled, object # NoVersion
               PROVE  object.version = list[object.id]
    BY DEF SelectedIsCurrent
  <2> QED
    BY FieldKinds DEF SelectorInv, SelectorTypeOK, BoundAgrees, ObjectFollowed, Settled
<1> QED
  BY <1>1, SelectorInvAlways, PTL

\* The object a parent holds becomes an entry that is not shown only when
\* that entry changes (SelectObjectComponent.refreshValue never unsubscribes).
THEOREM JumpsOnlyOnChangeAlways == SelectorSpec => JumpsOnlyOnChange
<1> DEFINE Jump == object'.id \notin {object.id, None, shown'}
                     => list'[object'.id] # list[object'.id]
<1>1. SelectorInv /\ [SelectorNext]_selectorVars => [Jump]_selectorVars
  <2> SUFFICES ASSUME SelectorInv, SelectorNext PROVE Jump
    OBVIOUS
  <2>0. SelectorTypeOK
    BY DEF SelectorInv
  <2>1. ASSUME NEW what \in Ids \cup {None, OtherText}, ValueChanges(what)
        PROVE  object'.id \in {None, shown'}
    <3>1. CASE what \in Ids
      BY <2>0, <2>1, <3>1, ObjectOfFacts DEF ValueChanges, Emit, SelectorTypeOK
    <3>2. CASE what \notin Ids
      BY <2>1, <3>2, NoneFacts DEF ValueChanges, EmitNothing
    <3> QED
      BY <3>1, <3>2
  <2>2. ASSUME NEW what \in Ids \cup {None, OtherText}, Type(what) PROVE Jump
    BY <2>1, <2>2 DEF Type
  <2>3. ASSUME ResetField PROVE Jump
    BY <2>1, <2>3 DEF ResetField
  <2>4. ASSUME NEW id \in Ids \cup {None}, ParentSelects(id) PROVE Jump
    BY <2>4, NoneFacts DEF ParentSelects
  <2>5. ASSUME Detect PROVE Jump
    <3>1. input' \in Ids \cup {None}
      BY <2>0, <2>5 DEF Detect, SelectorTypeOK
    <3> QED
      BY <2>1, <2>5, <3>1 DEF Detect
  <2>6. ASSUME ListArrives PROVE Jump
    BY <2>1, <2>6 DEF ListArrives
  <2>7. ASSUME NEW changed \in SUBSET Ids, NEW gone \in BOOLEAN, ListChanges(changed, gone)
        PROVE  Jump
    <3>1. ASSUME NEW k \in Told(changed), object' = ObjectOf(follows[k], list')
          PROVE  object'.id = None \/ object'.id \in changed
      BY <2>0, <2>7, <3>1, ToldOfChanged, ObjectOfFacts DEF Told
    <3> QED
      BY <2>7, <3>1, ToldOfChanged
  <2> QED
    BY <2>2, <2>3, <2>4, <2>5, <2>6, <2>7 DEF SelectorNext
<1> QED
  BY <1>1, SelectorInvAlways, PTL DEF SelectorSpec, JumpsOnlyOnChange
=============================================================================
