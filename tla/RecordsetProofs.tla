-------------------------- MODULE RecordsetProofs --------------------------
(***************************************************************************)
(* Proofs about the Recordset module, for every value of its constants.   *)
(***************************************************************************)
EXTENDS Recordset, WellFoundedInduction, TLAPS

\* Cursor positions are pairs of naturals.
LEMMA ItemNat == Item \subseteq Nat \X Nat
<1>1. {0} \cup SeasonKeys \cup DayKeys \subseteq Nat
  BY RecordsetAssumption
<1>2. {0} \cup Months \subseteq Nat
  BY RecordsetAssumption
<1> QED
  BY <1>1, <1>2, Zenon DEF Item

\* The B-tree order of the items has a least element in every nonempty set
\* of them, so the position DB_FIRST, DB_SET or DB_NEXT moves to is one of
\* the candidates.
LEMMA LeastIn ==
    ASSUME NEW S \in SUBSET (Nat \X Nat), S # {}
    PROVE  /\ Least(S) \in S
           /\ \A f \in S \ {Least(S)} : Before(Least(S), f)
<1> DEFINE R == LexPairOrdering(OpToRel(<, Nat), OpToRel(<, Nat), Nat, Nat)
<1>1. IsWellFoundedOn(R, Nat \X Nat)
  BY NatLessThanWellFounded, WFLexPairOrdering
<1>2. PICK x \in S : \A y \in S : ~(<<y, x>> \in R)
  BY <1>1, WFMin
<1>3. \A f \in S \ {x} : Before(x, f)
  <2> SUFFICES ASSUME NEW f \in S \ {x} PROVE Before(x, f)
    OBVIOUS
  <2>1. f \in Nat \X Nat /\ x \in Nat \X Nat
    OBVIOUS
  <2>2. <<f, x>> \in (Nat \X Nat) \X (Nat \X Nat)
    BY <2>1
  <2>3. ~(f[1] < x[1] \/ (f[1] = x[1] /\ f[2] < x[2]))
    BY <1>2, <2>2 DEF R, LexPairOrdering, OpToRel
  <2>4. f # x
    OBVIOUS
  <2> QED
    BY <2>1, <2>3, <2>4 DEF Before
<1>4. \E e \in S : \A f \in S \ {e} : Before(e, f)
  BY <1>3
<1> QED
  BY <1>4, Zenon DEF Least

\* Every item a recordset stands for is a cursor position.
LEMMA FilterItem ==
    ASSUME TypeOK, NEW r \in RsIds
    PROVE  Filter(r) \subseteq Item
<1>1. \A i \in Indexes : Entries(i) \subseteq Item
  BY DEF TypeOK, Entries, Present, Item, Data, Indexes
<1>2. {<<0, m>> : m \in Present} \subseteq Item
  BY DEF Present, Item
<1>3. \A L : {<<0, m>> : m \in JoinSet(L)} \subseteq Item
  BY DEF JoinSet, Present, Item
<1> QED
  BY <1>1, <1>2, <1>3, TypeOK DEF Filter, TypeOK

\* The same for the filters of the state a step leaves, from the types of
\* the rows and indexes it leaves.
LEMMA FilterItemNext ==
    ASSUME row' \in [Months -> Data \cup {Absent}], ix' \in [RsIds -> Indexes],
           NEW r \in RsIds
    PROVE  Filter(r)' \subseteq Item
<1>1. \A i \in Indexes : Entries(i)' \subseteq Item
  BY DEF Entries, Present, Item, Data, Indexes
<1>2. {<<0, m>> : m \in Present'} \subseteq Item
  BY DEF Present, Item
<1>3. \A L : {<<0, m>> : m \in JoinSet(L)'} \subseteq Item
  BY DEF JoinSet, Present, Item
<1> QED
  BY <1>1, <1>2, <1>3 DEF Filter

\* The least item of a nonempty part of a filter is a cursor position.
LEMMA LeastItem ==
    ASSUME TypeOK, NEW r \in RsIds, NEW S \in SUBSET Filter(r), S # {}
    PROVE  Least(S) \in S /\ Least(S) \in Item
BY FilterItem, ItemNat, LeastIn

\* A joinlist is a sequence of recordsets.
LEMMA JoinListType ==
    ASSUME NEW r \in RsIds, NEW L \in JoinLists(r)
    PROVE  L \in Seq(RsIds)
BY RecordsetAssumption DEF JoinLists

\* The item fetch moves to is a cursor position among the filter's items.
LEMMA FoundItem ==
    ASSUME TypeOK, NEW r \in RsIds, Found(r) # {}
    PROVE  /\ Least(Found(r)) \in Filter(r)
           /\ Least(Found(r)) \in Item
<1>1. Found(r) \subseteq Filter(r)
  BY DEF Found
<1> QED
  BY <1>1, LeastItem

\* A constructor that succeeds leaves the state well typed.
LEMMA OpenType ==
    ASSUME TypeOK, NEW r \in RsIds, NEW t \in Types, NEW i \in Indexes,
           NEW k \in {0} \cup SeasonKeys \cup DayKeys,
           Open(r, t, i, k), UNCHANGED <<row, subs, jpos, joined>>, Restart(r)
    PROVE  TypeOK'
<1>1. NoPos \in Item
  BY DEF NoPos, Item
<1>2. row' \in [Months -> Data \cup {Absent}] /\ ix' \in [RsIds -> Indexes]
  BY DEF Open, TypeOK
<1>3. stable' \in [RsIds -> SUBSET Item]
  BY <1>2, FilterItemNext DEF Restart, TypeOK
<1>4. /\ row' \in [Months -> Data \cup {Absent}]
      /\ type' \in [RsIds -> Types]
      /\ ix' \in [RsIds -> Indexes]
      /\ key' \in [RsIds -> {0} \cup SeasonKeys \cup DayKeys]
      /\ pos' \in [RsIds -> Item]
      /\ isset' \in [RsIds -> BOOLEAN]
      /\ subs' \in [RsIds -> Seq(RsIds)]
      /\ jpos' \in [RsIds -> {0} \cup Months]
      /\ joined' \in [RsIds -> BOOLEAN]
      /\ got' \in [RsIds -> Seq(Item)]
      /\ exhausted' \in [RsIds -> BOOLEAN]
      /\ dirty' \in [RsIds -> BOOLEAN]
      /\ res' \in {"none", "ok", "false", "unknown"}
  BY <1>1 DEF Open, TypeOK
<1> QED
  BY <1>3, <1>4 DEF TypeOK

\* A constructor that throws changes nothing but the result.
LEMMA CursorFailsType ==
    ASSUME TypeOK, CursorFails
    PROVE  TypeOK'
BY DEF CursorFails, cursor, history, TypeOK

LEMMA NewTableType ==
    ASSUME TypeOK, NEW r \in RsIds, NewTable(r)
    PROVE  TypeOK'
BY OpenType, CursorFailsType, Zenon DEF NewTable, Types, Indexes

LEMMA NewIndexType ==
    ASSUME TypeOK, NEW r \in RsIds, NEW i \in Indexes, NewIndex(r, i)
    PROVE  TypeOK'
BY OpenType, CursorFailsType, Zenon DEF NewIndex, Types

LEMMA NewIndexKeyType ==
    ASSUME TypeOK, NEW r \in RsIds, NEW i \in Indexes, NEW k \in KeysOf(i),
           NewIndexKey(r, i, k)
    PROVE  TypeOK'
<1>1. k \in {0} \cup SeasonKeys \cup DayKeys
  BY DEF KeysOf
<1> QED
  BY <1>1, OpenType, CursorFailsType, Zenon DEF NewIndexKey, Types

\* When the joinlist holds a recordset without a key, the constructor's
\* loop stops before the first one.
LEMMA FirstUnkeyed ==
    ASSUME NEW L \in Seq(RsIds), \E n \in 1..Len(L) : type[L[n]] # "unique"
    PROVE  KeyedPrefix(L) \in 0..(Len(L) - 1)
<1> DEFINE c == CHOOSE n \in 1..Len(L) : type[L[n]] # "unique" /\
                                       \A q \in 1..(n - 1) : type[L[q]] = "unique"
           T == {n \in 1..Len(L) : type[L[n]] # "unique"}
           R == OpToRel(<, Nat)
<1>1. T \subseteq Nat /\ T # {}
  OBVIOUS
<1>2. IsWellFoundedOn(R, Nat)
  BY NatLessThanWellFounded
<1>3. PICK x \in T : \A y \in T : ~(<<y, x>> \in R)
  BY <1>1, <1>2, WFMin
<1>4. \A y \in T : ~(y < x)
  BY <1>1, <1>3 DEF R, OpToRel
<1>5. /\ x \in 1..Len(L)
      /\ type[L[x]] # "unique"
      /\ \A q \in 1..(x - 1) : type[L[q]] = "unique"
  BY <1>4
<1>6. c \in 1..Len(L)
  BY <1>5, Zenon
<1> QED
  BY <1>6 DEF KeyedPrefix

\* The constructor's loop stops within the joinlist.
LEMMA KeyedPrefixType ==
    ASSUME NEW L \in Seq(RsIds)
    PROVE  KeyedPrefix(L) \in 0..Len(L)
<1>1. CASE \E n \in 1..Len(L) : type[L[n]] # "unique"
  BY <1>1, FirstUnkeyed
<1>2. CASE ~\E n \in 1..Len(L) : type[L[n]] # "unique"
  BY <1>2 DEF KeyedPrefix
<1> QED
  BY <1>1, <1>2

\* A join is built only from a list of keyed recordsets.
LEMMA KeyedPrefixFull ==
    ASSUME NEW L \in Seq(RsIds), KeyedPrefix(L) = Len(L)
    PROVE  \A n \in 1..Len(L) : type[L[n]] = "unique"
BY FirstUnkeyed

LEMMA NewJoinType ==
    ASSUME TypeOK, NEW r \in RsIds, NEW L \in JoinLists(r), NewJoin(r, L)
    PROVE  TypeOK'
<1> DEFINE done  == {L[n] : n \in 1..KeyedPrefix(L)}
           found == {s \in done : Filter(s) # {}}
<1>1. L \in Seq(RsIds)
  BY JoinListType
<1>2. found \subseteq RsIds
  BY <1>1, KeyedPrefixType
<1>3. \A s \in found : SetPosition(s) \in Item
  BY <1>2, LeastItem DEF SetPosition
<1>4. pos' \in [RsIds -> Item]
  BY <1>3 DEF NewJoin, TypeOK
<1>5. isset' \in [RsIds -> BOOLEAN] /\ joined' \in [RsIds -> BOOLEAN]
  BY DEF NewJoin, TypeOK
<1>6. CASE res' = "unknown" /\ UNCHANGED <<row, type, ix, key, subs, jpos, history>>
  BY <1>4, <1>5, <1>6 DEF history, TypeOK
<1>7. CASE /\ type' = [type EXCEPT ![r] = "join"]
           /\ subs' = [subs EXCEPT ![r] = L]
           /\ jpos' = [jpos EXCEPT ![r] = 0]
           /\ got' = [got EXCEPT ![r] = <<>>]
           /\ exhausted' = [exhausted EXCEPT ![r] = FALSE]
           /\ dirty' = [dirty EXCEPT ![r] = FALSE]
           /\ res' = "ok"
           /\ UNCHANGED <<row, ix, key>>
           /\ Restart(r)
  <2>1. stable' \in [RsIds -> SUBSET Item]
    BY <1>7, FilterItemNext DEF Restart, TypeOK
  <2>2. /\ row' \in [Months -> Data \cup {Absent}]
        /\ type' \in [RsIds -> Types]
        /\ ix' \in [RsIds -> Indexes]
        /\ key' \in [RsIds -> {0} \cup SeasonKeys \cup DayKeys]
        /\ subs' \in [RsIds -> Seq(RsIds)]
        /\ jpos' \in [RsIds -> {0} \cup Months]
        /\ got' \in [RsIds -> Seq(Item)]
        /\ exhausted' \in [RsIds -> BOOLEAN]
        /\ dirty' \in [RsIds -> BOOLEAN]
        /\ res' \in {"none", "ok", "false", "unknown"}
    BY <1>1, <1>7 DEF TypeOK, Types
  <2> QED
    BY <1>4, <1>5, <2>1, <2>2 DEF TypeOK
<1> QED
  BY <1>6, <1>7, Zenon DEF NewJoin

LEMMA FetchType ==
    ASSUME TypeOK, NEW r \in RsIds, Fetch(r)
    PROVE  TypeOK'
<1>1. CASE (type[r] = "join" => isset[r]) /\ Found(r) # {}
  <2> DEFINE e == Least(Found(r))
  <2>1. e \in Item
    BY <1>1, FoundItem
  <2>2. e[2] \in {0} \cup Months
    BY <2>1 DEF Item
  <2>3. /\ pos' = IF type[r] = "join" THEN pos ELSE [pos EXCEPT ![r] = e]
        /\ jpos' = IF type[r] = "join" THEN [jpos EXCEPT ![r] = e[2]] ELSE jpos
        /\ isset' = [isset EXCEPT ![r] = TRUE]
        /\ got' = [got EXCEPT ![r] = Append(@, e)]
        /\ exhausted' = [exhausted EXCEPT ![r] = FALSE]
        /\ res' = "ok"
        /\ UNCHANGED <<row, type, ix, key, subs, joined, dirty, stable>>
    BY <1>1, Zenon DEF Fetch
  <2> QED
    BY <2>1, <2>2, <2>3 DEF TypeOK
<1>2. CASE ~((type[r] = "join" => isset[r]) /\ Found(r) # {})
  <2>1. /\ exhausted' = [exhausted EXCEPT ![r] = TRUE]
        /\ res' = "false"
        /\ UNCHANGED <<pos, jpos, isset, got>>
        /\ UNCHANGED <<row, type, ix, key, subs, joined, dirty, stable>>
    BY <1>2, Zenon DEF Fetch
  <2> QED
    BY <2>1 DEF TypeOK
<1> QED
  BY <1>1, <1>2, Zenon

LEMMA RewindType ==
    ASSUME TypeOK, NEW r \in RsIds, Rewind(r)
    PROVE  TypeOK'
<1>1. CASE type[r] = "join"
  <2>1. res' = "unknown" /\ UNCHANGED <<row, cursor, history>>
    BY <1>1, Zenon DEF Rewind
  <2> QED
    BY <2>1 DEF cursor, history, TypeOK
<1>2. CASE type[r] # "join"
  <2>1. /\ isset' = [isset EXCEPT ![r] = FALSE]
        /\ joined' = [joined EXCEPT ![r] = FALSE]
        /\ got' = [got EXCEPT ![r] = <<>>]
        /\ exhausted' = [exhausted EXCEPT ![r] = FALSE]
        /\ dirty' = [dirty EXCEPT ![r] = FALSE]
        /\ stable' = [stable EXCEPT ![r] = Filter(r)]
        /\ res' = "ok"
        /\ UNCHANGED <<row, type, ix, key, pos, subs, jpos>>
    BY <1>2, Zenon DEF Rewind
  <2>2. Filter(r) \subseteq Item
    BY FilterItem
  <2> QED
    BY <2>1, <2>2 DEF TypeOK
<1> QED
  BY <1>1, <1>2

LEMMA CloseType ==
    ASSUME TypeOK, NEW r \in RsIds, Close(r)
    PROVE  TypeOK'
<1>1. NoPos \in Item
  BY DEF NoPos, Item
<1> QED
  BY <1>1 DEF Close, TypeOK, Types, Indexes

LEMMA WriteType ==
    ASSUME TypeOK, NEW m \in Months, NEW d \in Data \cup {Absent}, Write(m, d)
    PROVE  TypeOK'
<1>1. stable' \in [RsIds -> SUBSET Item]
  BY DEF Write, TypeOK
<1> QED
  BY <1>1 DEF Write, cursor, TypeOK

\* Whatever the client calls, the recordsets stay well formed: every cursor
\* position is a pair of an index key and a month, every joinlist is a
\* sequence of recordset objects and every history is a sequence of items.
THEOREM RecordsetTypeCorrect == Spec => []TypeOK
<1>1. Init => TypeOK
  <2>1. NoPos \in Item
    BY DEF NoPos, Item
  <2> QED
    BY <2>1 DEF Init, TypeOK, Types, Indexes
<1>2. TypeOK /\ [Next]_vars => TypeOK'
  <2> SUFFICES ASSUME TypeOK, [Next]_vars PROVE TypeOK'
    OBVIOUS
  <2>1. CASE \E r \in RsIds : NewTable(r)
    BY <2>1, NewTableType
  <2>2. CASE \E r \in RsIds, i \in Indexes : NewIndex(r, i)
    BY <2>2, NewIndexType
  <2>3. CASE \E r \in RsIds, i \in Indexes : \E k \in KeysOf(i) : NewIndexKey(r, i, k)
    BY <2>3, NewIndexKeyType
  <2>4. CASE \E r \in RsIds : \E L \in JoinLists(r) : NewJoin(r, L)
    BY <2>4, NewJoinType
  <2>5. CASE \E r \in RsIds : Fetch(r)
    BY <2>5, FetchType
  <2>6. CASE \E r \in RsIds : Rewind(r)
    BY <2>6, RewindType
  <2>7. CASE \E r \in RsIds : Close(r)
    BY <2>7, CloseType
  <2>8. CASE \E m \in Months, d \in Data \cup {Absent} : Write(m, d)
    BY <2>8, WriteType
  <2>9. CASE UNCHANGED vars
    BY <2>9 DEF vars, TypeOK
  <2> QED
    BY <2>1, <2>2, <2>3, <2>4, <2>5, <2>6, <2>7, <2>8, <2>9 DEF Next
<1> QED
  BY <1>1, <1>2, PTL DEF Spec

=============================================================================
