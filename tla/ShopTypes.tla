----------------------------- MODULE ShopTypes -----------------------------
(***************************************************************************)
(* QueryShopTypeList of internal/service/shop.go: a Redis list without a   *)
(* TTL that any reader who finds it empty fills from tb_shop_type, one     *)
(* RPUSH at a time, and decorateTypes of js/common.js, which drops         *)
(* repeated ids before a page shows the types.  No code of the repository  *)
(* changes the table.                                                      *)
(***************************************************************************)
EXTENDS Integers, Sequences, SequencesExt

CONSTANTS
    Table,          \* tb_shop_type in the order of its column sort
    Readers,        \* requests
    MaxTypeFaults   \* bound: lost pushes, failed reads, deaths

ASSUME TableAssumption == Table \in Seq(Range(Table)) /\ Table # <<>> /\ IsInjective(Table)
ASSUME TypeFaultsAssumption == MaxTypeFaults \in Nat

VARIABLES
    list,        \* shop_type: the Redis list
    reader,      \* [Readers -> where the request is]
    shown,       \* [Readers -> what the page shows of its answer]
    cutShort,    \* observation: a push was lost or a filler stopped early
    typeFaults   \* faults so far

typeVars == <<list, reader, shown, cutShort, typeFaults>>

ReaderState == [pc : {"read", "load", "push", "done"}, next : 1..(Len(Table) + 1)]

TypesTypeOK ==
    /\ list \in Seq(Range(Table))
    /\ reader \in [Readers -> ReaderState]
    /\ shown \in [Readers -> Seq(Range(Table))]
    /\ cutShort \in BOOLEAN
    /\ typeFaults \in 0..MaxTypeFaults

TypesInit ==
    /\ list = <<>>
    /\ reader = [r \in Readers |-> [pc |-> "read", next |-> 1]]
    /\ shown = [r \in Readers |-> <<>>]
    /\ cutShort = FALSE
    /\ typeFaults = 0

\* Mutant: only a type that follows itself is dropped.
DropNeighbours(s) ==
    FoldLeft(LAMBDA kept, t : IF kept # <<>> /\ Last(kept) = t THEN kept ELSE Append(kept, t),
             <<>>, s)

\* Where an id is seen for the first time.
Firsts(s) == {i \in DOMAIN s : \A j \in 1..(i - 1) : s[j] # s[i]}

\* How many of S are less than i.
Place(S, i) == Cardinality({j \in S : j < i})

\* decorateTypes: the first of every id, in order.
DecorateTypes(s) ==
    LET firsts == Firsts(s)
    IN  [k \in 1..Cardinality(firsts) |-> s[CHOOSE i \in firsts : Place(firsts, i) = k - 1]]

-----------------------------------------------------------------------------
\* LRANGE finds members: that is the answer.
ReadList(r) ==
    /\ reader[r].pc = "read"
    /\ list # <<>>
    /\ shown' = [shown EXCEPT ![r] = DecorateTypes(list)]
    /\ reader' = [reader EXCEPT ![r].pc = "done"]
    /\ UNCHANGED <<list, cutShort, typeFaults>>

\* LRANGE finds nothing.
MissList(r) ==
    /\ reader[r].pc = "read"
    /\ list = <<>>
    /\ reader' = [reader EXCEPT ![r].pc = "load"]
    /\ UNCHANGED <<list, shown, cutShort, typeFaults>>

\* LRANGE fails and the code goes on as if the list were empty.
FailRead(r) ==
    /\ typeFaults < MaxTypeFaults
    /\ reader[r].pc = "read"
    /\ reader' = [reader EXCEPT ![r].pc = "load"]
    /\ typeFaults' = typeFaults + 1
    /\ UNCHANGED <<list, shown, cutShort>>

\* SELECT ... ORDER BY sort.
LoadTypes(r) ==
    /\ reader[r].pc = "load"
    /\ reader' = [reader EXCEPT ![r].pc = "push"]
    /\ UNCHANGED <<list, shown, cutShort, typeFaults>>

\* RPUSH of one type; `lost` when Redis refuses it, which the code ignores.
PushType(r) ==
    /\ reader[r].pc = "push"
    /\ reader[r].next <= Len(Table)
    /\ list' = Append(list, Table[reader[r].next])
    /\ reader' = [reader EXCEPT ![r].next = @ + 1]
    /\ UNCHANGED <<shown, cutShort, typeFaults>>

LosePush(r) ==
    /\ typeFaults < MaxTypeFaults
    /\ reader[r].pc = "push"
    /\ reader[r].next <= Len(Table)
    /\ reader' = [reader EXCEPT ![r].next = @ + 1]
    /\ cutShort' = TRUE
    /\ typeFaults' = typeFaults + 1
    /\ UNCHANGED <<list, shown>>

\* The client or the pod goes: the pushes that are left fail.
StopFilling(r) ==
    /\ typeFaults < MaxTypeFaults
    /\ reader[r].pc = "push"
    /\ reader[r].next <= Len(Table)
    /\ reader' = [reader EXCEPT ![r].pc = "done"]
    /\ cutShort' = TRUE
    /\ typeFaults' = typeFaults + 1
    /\ UNCHANGED <<list, shown>>

\* The reader that filled the list answers with what it loaded.
AnswerLoaded(r) ==
    /\ reader[r].pc = "push"
    /\ reader[r].next > Len(Table)
    /\ shown' = [shown EXCEPT ![r] = DecorateTypes(Table)]
    /\ reader' = [reader EXCEPT ![r].pc = "done"]
    /\ UNCHANGED <<list, cutShort, typeFaults>>

TypesNext ==
    \E r \in Readers :
        \/ ReadList(r) \/ MissList(r) \/ FailRead(r) \/ LoadTypes(r)
        \/ PushType(r) \/ LosePush(r) \/ StopFilling(r)
        \/ AnswerLoaded(r)

TypesSpec == TypesInit /\ [][TypesNext]_typeVars

-----------------------------------------------------------------------------
\* However many readers fill the list at once, and whenever another one reads
\* it, the page shows the types in the order of the table, each once, with none
\* left out before the last one shown: every filler pushes in table order, so
\* the first occurrences come in table order.  Only a lost push can leave a gap.
ShownIsPrefix ==
    ~cutShort => \A r \in Readers : IsPrefix(shown[r], Table)

\* When nobody is filling it any more the list gives the whole table for good,
\* unless a push was lost: then it stays short, for nothing fills a list that
\* is not empty and the key has no TTL.
FilledIsWhole ==
    /\ list # <<>>
    /\ ~cutShort
    /\ \A r \in Readers : reader[r].pc # "push"
    => DecorateTypes(list) = Table

\* The types are shown in the order of the table, while the list is filled and
\* for good afterwards.
TypesInOrder == ShownIsPrefix /\ FilledIsWhole

=============================================================================
