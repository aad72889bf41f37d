------------------------------ MODULE ItemCreate ------------------------------
(***************************************************************************)
(* Creating items of a type by typing a prefix and a list of asset tags    *)
(* (QuickItemCreateComponent).  The items are numbered from a suffix that  *)
(* is looked up on the server whenever the prefix changes, counted on      *)
(* after each batch, and free to be typed over.  Look-ups and batches are  *)
(* answered in any order.                                                  *)
(***************************************************************************)
EXTENDS Naturals, FiniteSets, FiniteSetsExt

CONSTANTS
  ItemPrefixes, \* the prefixes typed, "" aside, and what they are received as
  ReceivedAs,   \* what the server receives of a prefix put in the URL as it is
  BatchSize,    \* tags of a batch
  MaxNumber,    \* bound: the largest suffix
  MaxLookups,   \* bound: look-ups under way at a time
  MaxTyped,     \* bound: prefixes and numbers typed
  MaxBatches,   \* bound: batches sent, by this page or by another desk
  MaxLostBatches \* bound: batches inserted whose answer is lost

ASSUME ItemAssumption ==
  /\ MaxNumber \in Nat \ {0} /\ BatchSize \in Nat /\ MaxTyped \in Nat
  /\ MaxBatches \in Nat /\ MaxLookups \in Nat /\ MaxLostBatches \in Nat
  /\ ReceivedAs \in [ItemPrefixes \cup {""} -> ItemPrefixes \cup {""}]

VARIABLES
  prefix,       \* the prefix shown
  suffixStart,  \* the number shown: 0 for none
  lookups,      \* look-ups under way: prefix, answer, whether it is out of date
  batch,        \* the batch under way
  taken,        \* the server's items of this type: their prefix and number
  typed, batches, lostBatches,
  startFor,     \* history: the prefix suffixStart was really looked up for
  byHand,       \* history: suffixStart was typed over since
  outdated,     \* history: items that suffixStart does not know of may exist
  twice         \* history: a suffix was inserted twice without that excuse

itemVars == <<prefix, suffixStart, lookups, batch, taken, typed, batches,
              lostBatches, startFor, byHand, outdated, twice>>

AnyPrefix == ItemPrefixes \cup {""}
Number == 1 .. MaxNumber
Lookup == [for : AnyPrefix, answer : 0 .. MaxNumber, old : BOOLEAN]
NoBatch == [stage |-> "none", for |-> "", from |-> 0, excused |-> TRUE]
Batch == [stage : {"none", "sent", "inserted", "failed"}, for : AnyPrefix,
          from : 0 .. MaxNumber, excused : BOOLEAN]

ItemTypeOK ==
  /\ prefix \in AnyPrefix /\ startFor \in AnyPrefix
  /\ suffixStart \in 0 .. MaxNumber
  /\ lookups \subseteq Lookup
  /\ batch \in Batch
  /\ taken \subseteq AnyPrefix \X Number
  /\ byHand \in BOOLEAN /\ outdated \in BOOLEAN /\ twice \in BOOLEAN

Numbers(p) == {n \in Number : <<p, n>> \in taken}

\* getNextSuffix: one for no prefix, whatever exists; otherwise the next.
NextSuffix(p) == IF p = "" THEN 1 ELSE Max(Numbers(p) \cup {0}) + 1

\* The look-up of ngOnChanges, for no prefix, has been answered.
ItemInit ==
  /\ prefix = "" /\ suffixStart = 1 /\ startFor = ""
  /\ lookups = {} /\ batch = NoBatch
  /\ taken \in SUBSET ({<<"", 1>>} \cup {<<p, 1>> : p \in ItemPrefixes})
  /\ typed = 0 /\ batches = 0 /\ lostBatches = 0
  /\ byHand = FALSE /\ outdated = FALSE /\ twice = FALSE

----------------------------------------------------------------------------

\* updatePrefix: the number of the old prefix is shown until the answer.  A
\* prefix with an & or a # is looked up as another one.
UpdatePrefix(p) ==
  /\ p # prefix /\ typed < MaxTyped /\ Cardinality(lookups) < MaxLookups
  /\ NextSuffix(ReceivedAs[p]) <= MaxNumber
  /\ prefix' = p
  /\ lookups' = lookups \cup {[for |-> ReceivedAs[p], answer |-> NextSuffix(ReceivedAs[p]),
                              old |-> FALSE]}
  /\ typed' = typed + 1
  /\ UNCHANGED <<suffixStart, batch, taken, batches, lostBatches, startFor, byHand,
                 outdated, twice>>

\* The answers come in any order; whichever is last is shown.
LookupAnswered ==
  \E l \in lookups :
     /\ lookups' = lookups \ {l}
     /\ suffixStart' = l.answer
     /\ startFor' = l.for /\ byHand' = FALSE /\ outdated' = l.old
     /\ UNCHANGED <<prefix, batch, taken, typed, batches, lostBatches, twice>>

\* A request fails; the server's also does, on an item whose suffix is the
\* prefix and nothing more.
LookupFails ==
  \E l \in lookups :
     /\ lookups' = lookups \ {l}
     /\ UNCHANGED <<prefix, suffixStart, batch, taken, typed, batches,
                    lostBatches, startFor, byHand, outdated, twice>>

\* The number is a field: any other may be typed, or none left.
TypeStart(n) ==
  /\ n # suffixStart /\ typed < MaxTyped
  /\ suffixStart' = n
  /\ byHand' = TRUE /\ typed' = typed + 1
  /\ UNCHANGED <<prefix, lookups, batch, taken, batches, lostBatches, startFor,
                 outdated, twice>>

\* What excuses a batch: no prefix, a number of another prefix, one typed by
\* hand, or items the number does not know of.
Excused == prefix = "" \/ startFor # prefix \/ byHand \/ outdated

\* createObjects: nothing without a number; the tags are always new ones.
PostObjects ==
  /\ batch.stage = "none" /\ batches < MaxBatches
  /\ suffixStart # 0 /\ suffixStart + BatchSize <= MaxNumber
  /\ batch' = [stage |-> "sent", for |-> prefix, from |-> suffixStart, excused |-> Excused]
  /\ batches' = batches + 1
  /\ UNCHANGED <<prefix, suffixStart, lookups, taken, typed, lostBatches,
                 startFor, byHand, outdated, twice>>

Inserted(p, from) == {<<p, n>> : n \in from .. (from + BatchSize - 1)}

\* Every answer computed before an insertion is out of date after it.
AllOld == {[l EXCEPT !.old = TRUE] : l \in lookups}

\* The batch under way is numbered from the number shown.
Continues == batch.from = suffixStart /\ batch.for = startFor

\* createMultiple: the server checks tags, and not suffixes.
Insert ==
  /\ batch.stage = "sent"
  /\ taken' = taken \cup Inserted(batch.for, batch.from)
  /\ lookups' = AllOld
  /\ twice' = (twice \/ (~batch.excused /\ taken \cap Inserted(batch.for, batch.from) # {}))
  /\ \/ batch' = [batch EXCEPT !.stage = "inserted"] /\ lostBatches' = lostBatches
        /\ outdated' = (outdated \/ ~Continues)
     \/ batch' = [batch EXCEPT !.stage = "failed"] /\ outdated' = TRUE
        /\ lostBatches < MaxLostBatches /\ lostBatches' = lostBatches + 1
  /\ UNCHANGED <<prefix, suffixStart, typed, batches, startFor, byHand>>

RefuseBatch ==
  /\ batch.stage = "sent"
  /\ batch' = [batch EXCEPT !.stage = "failed"]
  /\ UNCHANGED <<prefix, suffixStart, lookups, taken, typed, batches,
                 lostBatches, startFor, byHand, outdated, twice>>

\* Another desk inserts items, well numbered.
InsertElsewhere(p) ==
  /\ batches < MaxBatches /\ p # ""
  /\ NextSuffix(p) + BatchSize <= MaxNumber
  /\ taken' = taken \cup Inserted(p, NextSuffix(p))
  /\ batches' = batches + 1
  /\ outdated' = TRUE /\ batch' = [batch EXCEPT !.excused = TRUE]
  /\ lookups' = AllOld
  /\ UNCHANGED <<prefix, suffixStart, typed, lostBatches, startFor, byHand, twice>>

\* Mutant: the number is left as it was.
SameStart == suffixStart

\* A cleared field counts as zero.
StartAfterBatch == suffixStart + BatchSize

BatchTold ==
  /\ batch.stage = "inserted" /\ StartAfterBatch <= MaxNumber
  /\ suffixStart' = StartAfterBatch
  /\ batch' = NoBatch
  /\ UNCHANGED <<prefix, lookups, taken, typed, batches, lostBatches,
                 startFor, byHand, outdated, twice>>

BatchFailed ==
  /\ batch.stage = "failed"
  /\ batch' = NoBatch
  /\ UNCHANGED <<prefix, suffixStart, lookups, taken, typed, batches,
                 lostBatches, startFor, byHand, outdated, twice>>

ItemNext ==
  \/ \E p \in AnyPrefix : UpdatePrefix(p)
  \/ LookupAnswered
  \/ LookupFails
  \/ \E n \in 0 .. MaxNumber : TypeStart(n)
  \/ PostObjects
  \/ Insert
  \/ RefuseBatch
  \/ \E p \in ItemPrefixes : InsertElsewhere(p)
  \/ BatchTold
  \/ BatchFailed

ItemSpec == ItemInit /\ [][ItemNext]_itemVars

----------------------------------------------------------------------------
\* Properties.

\* A suffix is given twice only with an excuse: no prefix at all, a number
\* looked up for another prefix (an answer that came late, or a prefix that the
\* URL did not carry as typed), a number typed by hand, or items the number does
\* not know of (of another desk, of a batch whose answer was lost, or inserted
\* while a look-up was under way).  The server checks tags, and not suffixes.
NoSuffixTwice == ~twice

\* What makes it so: a number that has no such excuse is beyond every item
\* that exists, once the page knows what became of its batch.
StartIsFree ==
  ~Excused /\ batch.stage \in {"none", "sent", "failed"}
    => \A n \in Numbers(prefix) : n < suffixStart
=============================================================================
