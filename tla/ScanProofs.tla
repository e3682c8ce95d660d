----------------------------- MODULE ScanProofs -----------------------------
(***************************************************************************)
(* Proof that the scans of bdb::recordset are exact while no write         *)
(* intervenes (ScanExact) and stay sorted and without a skipped item       *)
(* across the session's writes (ScanAcrossWrites), for every value of the  *)
(* constants, when the caller does not fetch from a recordset whose cursor *)
(* a join has positioned (~ReuseJoined, as test.cc does).                  *)
(***************************************************************************)
EXTENDS RecordsetProofs, SequenceTheorems

IsOpen(r) == type[r] # "closed"

\* The items of g come in strictly increasing cursor order.
Sorted(g) == \A n \in 1..(Len(g) - 1) : Before(g[n], g[n + 1])

\* No item of S that lies before the last one of g was skipped.
NoSkip(g, S) == \A e \in S : Len(g) > 0 /\ Before(e, g[Len(g)]) => e \in Range(g)

\* The history of r: sorted, skipping none of the items that have stood in
\* its filter since it was (re)started, holding all of them once fetch
\* returned false; those items are still in the filter, and while no
\* write intervened they are the filter and the history lies in it.
ScanOK(r) ==
    /\ Sorted(got[r])
    /\ NoSkip(got[r], stable[r])
    /\ exhausted[r] => stable[r] \subseteq Range(got[r])
    /\ stable[r] \subseteq Filter(r)
    /\ ~dirty[r] => stable[r] = Filter(r) /\ Range(got[r]) \subseteq Filter(r)

\* The cursor of a table or index recordset that no join has moved sits on
\* the last item fetch returned, and m_isset says whether there is one.
CursorOK(r) ==
    type[r] \in {"table", "dups", "unique"} /\ ~joined[r] =>
        /\ isset[r] <=> Len(got[r]) > 0
        /\ isset[r] => pos[r] = got[r][Len(got[r])]

\* The join cursor's last month is the last one fetch returned, every item
\* it returned is a bare month, and a join whose constructor did not find
\* every key has returned nothing and stood for nothing.
JoinOK(r) ==
    type[r] = "join" =>
        /\ jpos[r] = IF got[r] = <<>> THEN 0 ELSE got[r][Len(got[r])][2]
        /\ \A n \in 1..Len(got[r]) : got[r][n][1] = 0
        /\ ~isset[r] => got[r] = <<>> /\ stable[r] = {}

\* Every recordset of an open join's list is an open keyed recordset.
JoinSubs ==
    \A j \in RsIds : type[j] = "join" =>
        \A n \in 1..Len(subs[j]) : type[subs[j][n]] = "unique"

\* What the invariant says of one recordset.
RsInv(r) == IsOpen(r) => ScanOK(r) /\ CursorOK(r) /\ JoinOK(r)

\* The inductive invariant.
ScanInv ==
    /\ TypeOK
    /\ JoinSubs
    /\ \A r \in RsIds : RsInv(r)

\* A step leaves the index and the key of every recordset of r's list alone.
SubsFixed(r) ==
    \A n \in 1..Len(subs[r]) : /\ ix'[subs[r][n]] = ix[subs[r][n]]
                               /\ key'[subs[r][n]] = key[subs[r][n]]

\* A step leaves every per-recordset variable of r alone.
SameAt(r) ==
    /\ type'[r] = type[r] /\ pos'[r] = pos[r] /\ isset'[r] = isset[r]
    /\ jpos'[r] = jpos[r] /\ joined'[r] = joined[r] /\ got'[r] = got[r]
    /\ exhausted'[r] = exhausted[r] /\ dirty'[r] = dirty[r]
    /\ stable'[r] = stable[r]

-----------------------------------------------------------------------------
(* Lemmas on the cursor order and on histories.                            *)

\* The B-tree order of items is a strict total order.
LEMMA BeforeOrder ==
    ASSUME NEW a \in Nat \X Nat, NEW b \in Nat \X Nat
    PROVE  /\ ~Before(a, a)
           /\ Before(a, b) => ~Before(b, a)
           /\ a # b => Before(a, b) \/ Before(b, a)
BY DEF Before

\* fetch returning e keeps the history sorted and without a skipped item
\* of S when e comes after the last item returned and every item of F
\* before e was returned already (it is the last item or comes before it).
LEMMA AppendScan ==
    ASSUME NEW Fs \in SUBSET (Nat \X Nat), NEW Ss \in SUBSET Fs,
           NEW hs \in Seq(Nat \X Nat), Sorted(hs), NoSkip(hs, Ss),
           NEW x \in Fs, Len(hs) > 0 => Before(hs[Len(hs)], x),
           \A f \in Fs : Before(f, x) =>
               Len(hs) > 0 /\ (f = hs[Len(hs)] \/ Before(f, hs[Len(hs)]))
    PROVE  /\ Sorted(Append(hs, x))
           /\ NoSkip(Append(hs, x), Ss)
           /\ Range(Append(hs, x)) = Range(hs) \cup {x}
           /\ Len(Append(hs, x)) = Len(hs) + 1
           /\ Append(hs, x)[Len(hs) + 1] = x
           /\ \A i \in 1..Len(hs) : Append(hs, x)[i] = hs[i]
<1> DEFINE ks == Append(hs, x)
<1>1. /\ ks \in Seq(Nat \X Nat)
      /\ Len(ks) = Len(hs) + 1
      /\ \A i \in 1..Len(hs) : ks[i] = hs[i]
      /\ ks[Len(hs) + 1] = x
  BY AppendProperties
<1>2. Range(ks) = Range(hs) \cup {x}
  <2>1. DOMAIN ks = 1..(Len(hs) + 1) /\ DOMAIN hs = 1..Len(hs)
    BY <1>1
  <2>2. ASSUME NEW y PROVE y \in Range(ks) <=> y \in Range(hs) \/ y = x
    <3>1. y \in Range(ks) <=> \E i \in 1..(Len(hs) + 1) : ks[i] = y
      BY <2>1 DEF Range
    <3>2. y \in Range(hs) <=> \E i \in 1..Len(hs) : hs[i] = y
      BY <2>1 DEF Range
    <3>3. QED
      BY <1>1, <3>1, <3>2
  <2>3. QED
    BY <2>2
<1>3. Sorted(ks)
  <2> SUFFICES ASSUME NEW n \in 1..Len(hs) PROVE Before(ks[n], ks[n + 1])
    BY <1>1 DEF Sorted
  <2>1. CASE n < Len(hs)
    BY <1>1, <2>1 DEF Sorted
  <2>2. CASE n = Len(hs)
    <3>1. ks[n] = hs[Len(hs)] /\ ks[n + 1] = x /\ Len(hs) > 0
      BY <1>1, <2>2
    <3>2. QED
      BY <3>1
  <2>3. n < Len(hs) \/ n = Len(hs)
    OBVIOUS
  <2>4. QED
    BY <2>1, <2>2, <2>3, Zenon
<1>4. NoSkip(ks, Ss)
  <2> SUFFICES ASSUME NEW f \in Ss, Before(f, x) PROVE f \in Range(hs)
    BY <1>1, <1>2 DEF NoSkip
  <2>1. Len(hs) > 0 /\ (f = hs[Len(hs)] \/ Before(f, hs[Len(hs)]))
    OBVIOUS
  <2>2. hs[Len(hs)] \in Range(hs)
    BY <2>1 DEF Range
  <2>3. QED
    BY <2>1, <2>2 DEF NoSkip
<1>5. QED
  BY <1>1, <1>2, <1>3, <1>4

\* fetch returning false: every item of S was returned when each is the
\* last one returned or comes before it.
LEMMA CompleteScan ==
    ASSUME NEW S, NEW g \in Seq(Nat \X Nat), NoSkip(g, S),
           \A f \in S : Len(g) > 0 /\ (f = g[Len(g)] \/ Before(f, g[Len(g)]))
    PROVE  S \subseteq Range(g)
BY DEF NoSkip, Range

-----------------------------------------------------------------------------
(* Frame lemmas.                                                           *)

\* The items a recordset stands for depend only on the rows, its own type,
\* index, key and list, and the indexes and keys of the recordsets listed.
LEMMA FilterSame ==
    ASSUME NEW r \in RsIds, row' = row, type'[r] = type[r], ix'[r] = ix[r],
           key'[r] = key[r], subs'[r] = subs[r], type[r] = "join" => SubsFixed(r)
    PROVE  Filter(r)' = Filter(r)
<1>1. Present' = Present
  BY DEF Present
<1>2. type[r] = "join" => JoinSet(subs[r])' = JoinSet(subs[r])
  BY <1>1 DEF JoinSet, SubsFixed
<1>3. \A i \in Indexes : Entries(i)' = Entries(i)
  BY <1>1 DEF Entries
<1>4. QED
  BY <1>1, <1>2, <1>3 DEF Filter, Indexes

\* A recordset whose variables and items a step leaves alone keeps the
\* invariant.
LEMMA Untouched ==
    ASSUME NEW r \in RsIds, RsInv(r), SameAt(r), Filter(r)' = Filter(r)
    PROVE  RsInv(r)'
BY DEF RsInv, SameAt, IsOpen, ScanOK, Sorted, NoSkip, CursorOK, JoinOK

\* A table or index recordset just opened or rewound: an empty history,
\* standing for its whole filter.
LEMMA Fresh ==
    ASSUME NEW r \in RsIds, got'[r] = <<>>, exhausted'[r] = FALSE, isset'[r] = FALSE,
           type'[r] # "join", dirty'[r] = FALSE, stable'[r] = Filter(r)'
    PROVE  RsInv(r)'
BY DEF RsInv, ScanOK, Sorted, NoSkip, CursorOK, JoinOK, Range

\* A step that changes nothing a recordset reads keeps the invariant.
LEMMA NothingScan ==
    ASSUME JoinSubs, \A r \in RsIds : RsInv(r), UNCHANGED <<row, cursor, history>>
    PROVE  JoinSubs' /\ \A r \in RsIds : RsInv(r)'
<1>1. JoinSubs'
  BY DEF JoinSubs, cursor
<1>2. ASSUME NEW r \in RsIds PROVE RsInv(r)'
  <2>1. Filter(r)' = Filter(r)
    BY FilterSame DEF cursor, SubsFixed
  <2>2. QED
    BY <2>1, Untouched DEF SameAt, cursor, history
<1>3. QED
  BY <1>1, <1>2

-----------------------------------------------------------------------------
(* One lemma per action.                                                   *)

LEMMA InitScan == Init => ScanInv
<1> SUFFICES ASSUME Init PROVE ScanInv
  OBVIOUS
<1>1. TypeOK
  <2>1. NoPos \in Item
    BY DEF NoPos, Item
  <2>2. QED
    BY <2>1 DEF Init, TypeOK, Types, Indexes
<1>2. QED
  BY <1>1 DEF Init, ScanInv, JoinSubs, RsInv, IsOpen

\* table::recordset, index::recordset (with or without a key): a closed id
\* gets a new recordset with an empty history standing for its filter, and
\* every other one is left as it was; no listed recordset of an open join
\* is closed, so none is the one opened.
LEMMA OpenScan ==
    ASSUME TypeOK, JoinSubs, \A r \in RsIds : RsInv(r),
           NEW r0 \in RsIds, type[r0] = "closed", NEW t \in {"table", "dups", "unique"},
           NEW i, NEW k, Open(r0, t, i, k), UNCHANGED <<row, subs, jpos, joined>>,
           Restart(r0)
    PROVE  JoinSubs' /\ \A r \in RsIds : RsInv(r)'
<1>1. JoinSubs'
  BY DEF JoinSubs, Open, TypeOK
<1>2. ASSUME NEW r \in RsIds PROVE RsInv(r)'
  <2>1. CASE r = r0
    BY <2>1, Fresh DEF Open, Restart, TypeOK
  <2>2. CASE r # r0
    <3>1. type[r] = "join" => SubsFixed(r)
      BY <2>2 DEF JoinSubs, SubsFixed, Open, TypeOK
    <3>2. Filter(r)' = Filter(r)
      BY <2>2, <3>1, FilterSame DEF Open, TypeOK
    <3>3. SameAt(r)
      BY <2>2 DEF SameAt, Open, Restart, TypeOK
    <3>4. QED
      BY <3>2, <3>3, Untouched
  <2>3. QED
    BY <2>1, <2>2
<1>3. QED
  BY <1>1, <1>2

\* The writes of the session: no cursor and no history changes, every open
\* recordset is no longer quiet, and what it stands for shrinks to what is
\* still in its filter.
LEMMA WriteScan ==
    ASSUME TypeOK, JoinSubs, \A r \in RsIds : RsInv(r), NEW m \in Months, NEW d,
           Write(m, d)
    PROVE  JoinSubs' /\ \A r \in RsIds : RsInv(r)'
<1>1. JoinSubs'
  BY DEF Write, cursor, JoinSubs
<1>2. ASSUME NEW r \in RsIds, IsOpen(r) PROVE RsInv(r)'
  <2>1. /\ got'[r] = got[r] /\ exhausted'[r] = exhausted[r] /\ dirty'[r]
        /\ type'[r] = type[r] /\ pos'[r] = pos[r] /\ isset'[r] = isset[r]
        /\ jpos'[r] = jpos[r] /\ joined'[r] = joined[r]
        /\ stable'[r] = stable[r] \cap Filter(r)'
    BY <1>2 DEF Write, cursor, IsOpen, TypeOK
  <2>2. ScanOK(r) /\ CursorOK(r) /\ JoinOK(r)
    BY <1>2 DEF RsInv
  <2>3. ScanOK(r)'
    BY <2>1, <2>2 DEF ScanOK, Sorted, NoSkip
  <2>4. CursorOK(r)' /\ JoinOK(r)'
    BY <2>1, <2>2 DEF CursorOK, JoinOK
  <2>5. QED
    BY <1>2, <2>1, <2>3, <2>4 DEF RsInv, IsOpen
<1>3. ASSUME NEW r \in RsIds, ~IsOpen(r) PROVE RsInv(r)'
  BY <1>3 DEF Write, cursor, RsInv, IsOpen
<1>4. QED
  BY <1>1, <1>2, <1>3

\* recordset::rewind of a table or index recordset empties its history,
\* clears m_isset and restarts it on its filter; a join's rewind throws
\* and changes nothing.
LEMMA RewindScan ==
    ASSUME TypeOK, JoinSubs, \A r \in RsIds : RsInv(r), NEW r0 \in RsIds, Rewind(r0)
    PROVE  JoinSubs' /\ \A r \in RsIds : RsInv(r)'
<1>1. CASE type[r0] = "join"
  BY <1>1, NothingScan, Zenon DEF Rewind
<1>2. CASE type[r0] # "join"
  <2>1. /\ isset' = [isset EXCEPT ![r0] = FALSE]
        /\ joined' = [joined EXCEPT ![r0] = FALSE]
        /\ got' = [got EXCEPT ![r0] = <<>>]
        /\ exhausted' = [exhausted EXCEPT ![r0] = FALSE]
        /\ dirty' = [dirty EXCEPT ![r0] = FALSE]
        /\ stable' = [stable EXCEPT ![r0] = Filter(r0)]
        /\ UNCHANGED <<row, type, ix, key, pos, subs, jpos>>
    BY <1>2, Zenon DEF Rewind
  <2>2. JoinSubs'
    BY <2>1 DEF JoinSubs
  <2>3. ASSUME NEW r \in RsIds PROVE RsInv(r)'
    <3>0. Filter(r)' = Filter(r)
      BY <2>1, FilterSame DEF SubsFixed
    <3>1. CASE r = r0
      BY <1>2, <2>1, <3>0, <3>1, Fresh DEF TypeOK
    <3>2. CASE r # r0
      BY <2>1, <3>0, <3>2, Untouched DEF SameAt, TypeOK
    <3>3. QED
      BY <3>1, <3>2
  <2>4. QED
    BY <2>2, <2>3
<1>3. QED
  BY <1>1, <1>2

\* ~recordset: the closed recordset is no longer checked, and since it is
\* listed by no open join, no join's items change.
LEMMA CloseScan ==
    ASSUME TypeOK, JoinSubs, \A r \in RsIds : RsInv(r), NEW r0 \in RsIds, Close(r0)
    PROVE  JoinSubs' /\ \A r \in RsIds : RsInv(r)'
<1>1. \A j \in RsIds : type[j] = "join" => \A n \in 1..Len(subs[j]) : subs[j][n] # r0
  BY DEF Close, InOpenJoin, Range, TypeOK
<1>2. JoinSubs'
  BY <1>1 DEF JoinSubs, Close, TypeOK
<1>3. ASSUME NEW r \in RsIds PROVE RsInv(r)'
  <2>1. CASE r = r0
    BY <2>1 DEF Close, RsInv, IsOpen, TypeOK
  <2>2. CASE r # r0
    <3>1. type[r] = "join" => SubsFixed(r)
      BY <1>1, <2>2 DEF SubsFixed, Close, TypeOK
    <3>2. Filter(r)' = Filter(r)
      BY <2>2, <3>1, FilterSame DEF Close, TypeOK
    <3>3. QED
      BY <2>2, <3>2, Untouched DEF SameAt, Close, TypeOK
  <2>3. QED
    BY <2>1, <2>2
<1>4. QED
  BY <1>2, <1>3

\* recordset(tbl, list): the cursors of the keyed recordsets found are
\* moved and marked as joined, whichever way the constructor ends; a join
\* that is built starts with an empty history standing for its filter, and
\* when one of its keys was not found (m_isset false) that filter is empty.
LEMMA NewJoinScan ==
    ASSUME TypeOK, JoinSubs, \A r \in RsIds : RsInv(r),
           NEW r0 \in RsIds, NEW L \in JoinLists(r0), NewJoin(r0, L)
    PROVE  JoinSubs' /\ \A r \in RsIds : RsInv(r)'
<1> DEFINE done  == {L[n] : n \in 1..KeyedPrefix(L)}
           found == {s \in done : Filter(s) # {}}
           built == KeyedPrefix(L) = Len(L) /\ L # <<>>
<1>1. /\ L \in Seq(RsIds)
      /\ \A n \in 1..Len(L) : L[n] # r0 /\ type[L[n]] # "closed"
  BY JoinListType DEF JoinLists
<1>2. found \subseteq {L[n] : n \in 1..Len(L)}
  BY <1>1, KeyedPrefixType
<1>3. /\ type[r0] = "closed" /\ UNCHANGED <<row, ix, key>>
      /\ \A s \in RsIds \ {r0} : type'[s] = type[s] /\ subs'[s] = subs[s] /\ jpos'[s] = jpos[s]
      /\ \A s \in RsIds \ {r0} : got'[s] = got[s] /\ exhausted'[s] = exhausted[s]
                                 /\ dirty'[s] = dirty[s] /\ stable'[s] = stable[s]
  BY Zenon DEF NewJoin, Restart, history, TypeOK
<1>4. \A s \in RsIds \ {r0} :
        IF s \in found THEN isset'[s] /\ joined'[s]
        ELSE pos'[s] = pos[s] /\ isset'[s] = isset[s] /\ joined'[s] = joined[s]
  BY DEF NewJoin, TypeOK
<1>5. JoinSubs'
  <2>1. ASSUME NEW j \in RsIds \ {r0}, type'[j] = "join"
        PROVE  \A n \in 1..Len(subs'[j]) : type'[subs'[j][n]] = "unique"
    <3>1. type[j] = "join" /\ subs'[j] = subs[j]
      BY <1>3, <2>1
    <3>2. \A n \in 1..Len(subs[j]) : type[subs[j][n]] = "unique" /\ subs[j][n] \in RsIds
      BY <3>1 DEF JoinSubs, TypeOK
    <3>3. \A n \in 1..Len(subs[j]) : subs[j][n] # r0
      BY <1>3, <3>2
    <3>4. QED
      BY <1>3, <3>1, <3>2, <3>3
  <2>2. ASSUME type'[r0] = "join"
        PROVE  \A n \in 1..Len(subs'[r0]) : type'[subs'[r0][n]] = "unique"
    <3>1. built /\ subs'[r0] = L
      BY <2>2, <1>3, Zenon DEF NewJoin, TypeOK
    <3>2. \A n \in 1..Len(L) : type[L[n]] = "unique"
      BY <1>1, <3>1, KeyedPrefixFull
    <3>3. QED
      BY <1>1, <1>3, <3>1, <3>2
  <2>3. QED
    BY <2>1, <2>2 DEF JoinSubs
<1>6. ASSUME NEW r \in RsIds \ {r0} PROVE RsInv(r)'
  <2>1. Filter(r)' = Filter(r)
    BY <1>3, FilterSame DEF SubsFixed
  <2>2. CASE r \in found
    BY <1>3, <1>4, <2>1, <2>2 DEF RsInv, IsOpen, ScanOK, Sorted, NoSkip, CursorOK, JoinOK
  <2>3. CASE r \notin found
    BY <1>3, <1>4, <2>1, <2>3, Untouched DEF SameAt
  <2>4. QED
    BY <2>2, <2>3
<1>7. RsInv(r0)'
  <2>1. CASE type'[r0] = "closed"
    BY <2>1 DEF RsInv, IsOpen
  <2>2. CASE type'[r0] # "closed"
    <3>0. /\ built
          /\ type' = [type EXCEPT ![r0] = "join"]
          /\ subs' = [subs EXCEPT ![r0] = L]
          /\ jpos' = [jpos EXCEPT ![r0] = 0]
          /\ got' = [got EXCEPT ![r0] = <<>>]
          /\ exhausted' = [exhausted EXCEPT ![r0] = FALSE]
          /\ dirty' = [dirty EXCEPT ![r0] = FALSE]
          /\ Restart(r0)
          /\ isset' = [s \in RsIds |-> IF s \in found THEN TRUE
                                       ELSE IF s = r0 THEN built /\ found = done ELSE isset[s]]
      BY <1>3, <2>2, Zenon DEF NewJoin, TypeOK
    <3>1. /\ built
          /\ type'[r0] = "join" /\ subs'[r0] = L /\ jpos'[r0] = 0
          /\ got'[r0] = <<>> /\ exhausted'[r0] = FALSE /\ dirty'[r0] = FALSE
          /\ stable'[r0] = Filter(r0)'
          /\ isset'[r0] = (found = done)
      BY <1>1, <1>2, <3>0 DEF Restart, TypeOK
    <3>2. ~isset'[r0] => Filter(r0)' = {}
      <4> SUFFICES ASSUME ~isset'[r0] PROVE Filter(r0)' = {}
        OBVIOUS
      <4>1. PICK n \in 1..Len(L) : Filter(L[n]) = {}
        BY <3>1
      <4>2. type[L[n]] = "unique"
        BY <1>1, <3>1, KeyedPrefixFull
      <4>3. \A m \in Present : row[m][ix[L[n]]] # key[L[n]]
        <5> SUFFICES ASSUME NEW m \in Present, row[m][ix[L[n]]] = key[L[n]] PROVE FALSE
          OBVIOUS
        <5>1. <<row[m][ix[L[n]]], m>> \in Entries(ix[L[n]])
          BY DEF Entries
        <5>2. <<row[m][ix[L[n]]], m>> \in Filter(L[n])
          BY <4>2, <5>1 DEF Filter
        <5>3. QED
          BY <4>1, <5>2
      <4>4. JoinSet(L) = {}
        BY <4>3 DEF JoinSet
      <4>5. Filter(r0)' = {<<0, m>> : m \in JoinSet(L)'}
        BY <3>1 DEF Filter
      <4>6. JoinSet(L)' = JoinSet(L)
        BY <1>3 DEF JoinSet, Present
      <4>7. QED
        BY <4>4, <4>5, <4>6
    <3>3. ScanOK(r0)'
      BY <3>1 DEF ScanOK, Sorted, NoSkip, Range
    <3>4. ~isset'[r0] => stable'[r0] = {}
      BY <3>1, <3>2
    <3>5. Len(got'[r0]) = 0
      BY <3>1
    <3>6. CursorOK(r0)'
      BY <3>1 DEF CursorOK
    <3>8. JoinOK(r0)'
      <4>1. jpos'[r0] = IF got'[r0] = <<>> THEN 0 ELSE got'[r0][Len(got'[r0])][2]
        BY <3>1
      <4>2. \A n \in 1..Len(got'[r0]) : got'[r0][n][1] = 0
        BY <3>5
      <4>3. QED
        BY <3>4, <3>1, <4>1, <4>2, Zenon DEF JoinOK
    <3>7. QED
      BY <3>3, <3>6, <3>8 DEF RsInv
  <2>3. QED
    BY <2>1, <2>2
<1>8. QED
  BY <1>5, <1>6, <1>7

\* recordset::fetch, for a caller that does not fetch from a recordset a
\* join has positioned: the item the cursor call moves to comes after the
\* last one returned and nothing of the filter lies between them, and when
\* the cursor call finds nothing, every item of the filter was returned or
\* comes before the last one returned.
LEMMA FetchScan ==
    ASSUME ~ReuseJoined, TypeOK, JoinSubs, \A r \in RsIds : RsInv(r),
           NEW r0 \in RsIds, Fetch(r0)
    PROVE  JoinSubs' /\ \A r \in RsIds : RsInv(r)'
<1>1. UNCHANGED <<row, type, ix, key, subs, joined, dirty, stable>>
  BY Zenon DEF Fetch
<1>2. \A s \in RsIds \ {r0} : SameAt(s)
  BY <1>1 DEF Fetch, SameAt, TypeOK
<1>3. \A s \in RsIds : Filter(s)' = Filter(s)
  BY <1>1, FilterSame DEF SubsFixed
<1>4. JoinSubs'
  BY <1>1 DEF JoinSubs
<1>5. ASSUME NEW r \in RsIds \ {r0} PROVE RsInv(r)'
  BY <1>2, <1>3, Untouched
<1>6. RsInv(r0)'
  <2> SUFFICES ASSUME IsOpen(r0) PROVE ScanOK(r0)' /\ CursorOK(r0)' /\ JoinOK(r0)'
    BY <1>1 DEF RsInv, IsOpen
  <2> DEFINE g == got[r0]
             F == Filter(r0)
             S == stable[r0]
             Fd == Found(r0)
             last == g[Len(g)]
             Covered(f) == Len(g) > 0 /\ (f = last \/ Before(f, last))
  <2>1. ScanOK(r0) /\ CursorOK(r0) /\ JoinOK(r0) /\ ~joined[r0]
    BY DEF RsInv, Fetch, FetchAllowed
  <2>2. /\ F \subseteq Nat \X Nat /\ g \in Seq(Nat \X Nat) /\ Fd \subseteq F
        /\ S \subseteq F
    BY <2>1, FilterItem, ItemNat DEF TypeOK, Found, ScanOK
  <2>3. type[r0] = "join" => \A f \in F : f[1] = 0 /\ f[2] \in Months
    BY DEF Filter, JoinSet, Present
  <2>4. Len(g) > 0 => /\ last \in Nat \X Nat
                      /\ type[r0] = "join" => last[1] = 0
    BY <2>1, <2>2 DEF JoinOK
  <2>5. type[r0] # "join" => type[r0] \in {"table", "dups", "unique"}
    BY DEF IsOpen, TypeOK, Types
  <2>6. \A f \in F \ Fd : Covered(f)
    <3> SUFFICES ASSUME NEW f \in F \ Fd PROVE Covered(f)
      OBVIOUS
    <3>1. CASE type[r0] # "join"
      <4>1. isset[r0] /\ ~Before(pos[r0], f)
        BY <3>1 DEF Found
      <4>2. Len(g) > 0 /\ pos[r0] = last
        BY <2>1, <2>5, <3>1, <4>1 DEF CursorOK
      <4>3. QED
        BY <2>2, <2>4, <4>1, <4>2, BeforeOrder
    <3>2. CASE type[r0] = "join"
      <4>1. ~(f[2] > jpos[r0])
        BY <3>2 DEF Found
      <4>2. jpos[r0] = IF g = <<>> THEN 0 ELSE last[2]
        BY <2>1, <3>2 DEF JoinOK
      <4>3. g # <<>>
        <5>1. f[2] \in Nat \ {0}
          BY <2>3, <3>2, RecordsetAssumption
        <5>2. QED
          BY <4>1, <4>2, <5>1
      <4>4. Len(g) > 0
        BY <2>2, <4>3
      <4>5. /\ f \in Nat \X Nat /\ last \in Nat \X Nat
            /\ f[1] = 0 /\ last[1] = 0 /\ f[2] <= last[2]
        BY <2>2, <2>3, <2>4, <3>2, <4>1, <4>2, <4>4
      <4>6. CASE f[2] = last[2]
        <5>1. f = last
          BY <4>5, <4>6
        <5>2. QED
          BY <4>4, <5>1
      <4>7. CASE f[2] # last[2]
        BY <4>4, <4>5, <4>7 DEF Before
      <4>8. QED
        BY <4>6, <4>7
    <3>3. QED
      BY <3>1, <3>2
  <2>7. CASE (type[r0] = "join" => isset[r0]) /\ Fd # {}
    <3> DEFINE e == Least(Fd)
               h == Append(g, e)
    <3>1. e \in Fd /\ \A f \in Fd \ {e} : Before(e, f)
      BY <2>2, <2>7, LeastIn
    <3>2. /\ got'[r0] = h /\ exhausted'[r0] = FALSE /\ isset'[r0] = TRUE
          /\ type[r0] # "join" => pos'[r0] = e
          /\ type[r0] = "join" => jpos'[r0] = e[2]
      BY <2>7, Zenon DEF Fetch, TypeOK
    <3>3. Len(g) > 0 => Before(last, e)
      <4>1. CASE type[r0] # "join"
        BY <2>1, <2>5, <3>1, <4>1 DEF CursorOK, Found
      <4>2. CASE type[r0] = "join"
        <5> SUFFICES ASSUME Len(g) > 0 PROVE Before(last, e)
          OBVIOUS
        <5>0. g # <<>>
          BY <2>2
        <5>1. jpos[r0] = last[2]
          BY <2>1, <4>2, <5>0 DEF JoinOK
        <5>4. e[2] > jpos[r0]
          BY <3>1, <4>2 DEF Found
        <5>2. e[1] = 0 /\ last[1] = 0
          BY <2>2, <2>3, <2>4, <3>1, <4>2
        <5>3. QED
          BY <5>1, <5>2, <5>4 DEF Before
      <4>3. QED
        BY <4>1, <4>2
    <3>4. \A f \in F : Before(f, e) => Covered(f)
      <4> SUFFICES ASSUME NEW f \in F, Before(f, e) PROVE Covered(f)
        OBVIOUS
      <4>1. f \notin Fd
        BY <2>2, <3>1, BeforeOrder
      <4>2. QED
        BY <2>6, <4>1
    <3>5. /\ Sorted(h) /\ NoSkip(h, S) /\ Range(h) = Range(g) \cup {e}
          /\ Len(h) = Len(g) + 1 /\ h[Len(g) + 1] = e
          /\ \A i \in 1..Len(g) : h[i] = g[i]
      <4>1. Sorted(g) /\ NoSkip(g, S) /\ e \in F
        BY <2>1, <2>2, <3>1 DEF ScanOK
      <4>2. QED
        <5>1. /\ F \in SUBSET (Nat \X Nat) /\ S \in SUBSET F /\ g \in Seq(Nat \X Nat)
              /\ Len(g) > 0 => Before(g[Len(g)], e)
              /\ \A f \in F : Before(f, e) =>
                     Len(g) > 0 /\ (f = g[Len(g)] \/ Before(f, g[Len(g)]))
          BY <2>2, <3>3, <3>4
        <5>2. Len(Append(g, e)) = Len(g) + 1
          BY <4>1, <5>1, AppendScan
        <5>3. Sorted(Append(g, e))
          BY <4>1, <5>1, AppendScan
        <5>4. NoSkip(Append(g, e), S)
          BY <4>1, <5>1, AppendScan
        <5>6. \A i \in 1..Len(g) : Append(g, e)[i] = g[i]
          BY <4>1, <5>1, AppendScan
        <5>5. Range(Append(g, e)) = Range(g) \cup {e}
          <6>1. Append(g, e)[Len(g) + 1] = e
            BY <4>1, <5>1, AppendScan
          <6>2. DOMAIN Append(g, e) = 1..(Len(g) + 1) /\ DOMAIN g = 1..Len(g)
            BY <2>2, <4>1, <5>2
          <6>3. QED
            BY <5>6, <6>1, <6>2 DEF Range
        <5>9. QED
          BY <5>2, <5>3, <5>4, <5>5, <5>6, <4>1, <5>1, AppendScan
    <3>6. ScanOK(r0)'
      <4>1. ~dirty[r0] => Range(h) \subseteq F
        BY <2>1, <2>2, <3>1, <3>5 DEF ScanOK
      <4>2. QED
        BY <1>1, <1>3, <2>1, <3>2, <3>5, <4>1 DEF ScanOK
    <3>7. h # <<>> /\ Len(h) > 0
      BY <2>2, <3>5
    <3>8. CursorOK(r0)'
      BY <1>1, <3>2, <3>5, <3>7 DEF CursorOK
    <3>9. JoinOK(r0)'
      <4> SUFFICES ASSUME type[r0] = "join" PROVE JoinOK(r0)'
        BY <1>1 DEF JoinOK
      <4>1. \A n \in 1..Len(h) : h[n][1] = 0
        <5> SUFFICES ASSUME NEW n \in 1..Len(h) PROVE h[n][1] = 0
          OBVIOUS
        <5>1. CASE n = Len(g) + 1
          BY <2>2, <2>3, <3>1, <3>5, <5>1
        <5>2. CASE n \in 1..Len(g)
          BY <2>1, <3>5, <5>2 DEF JoinOK
        <5>3. QED
          BY <2>2, <3>5, <5>1, <5>2
      <4>2. QED
        BY <1>1, <3>2, <3>5, <3>7, <4>1 DEF JoinOK
    <3>10. QED
      BY <3>6, <3>8, <3>9
  <2>8. CASE (type[r0] = "join" => isset[r0]) /\ Fd = {}
    <3>1. /\ exhausted'[r0] = TRUE
          /\ UNCHANGED <<pos, jpos, isset, got>>
      BY <2>8, Zenon DEF Fetch, TypeOK
    <3>2. S \subseteq Range(g)
      <4>1. \A f \in S : Covered(f)
        BY <2>2, <2>6, <2>8
      <4>2. QED
        BY <2>1, <2>2, <4>1, CompleteScan DEF ScanOK
    <3>3. QED
      BY <1>1, <1>3, <2>1, <3>1, <3>2 DEF ScanOK, CursorOK, JoinOK
  <2>9. CASE type[r0] = "join" /\ ~isset[r0]
    <3>1. /\ exhausted'[r0] = TRUE
          /\ UNCHANGED <<pos, jpos, isset, got>>
      BY <2>9, Zenon DEF Fetch, TypeOK
    <3>2. S = {}
      BY <2>1, <2>9 DEF JoinOK
    <3>3. QED
      BY <1>1, <1>3, <2>1, <3>1, <3>2 DEF ScanOK, CursorOK, JoinOK
  <2>10. QED
    BY <2>7, <2>8, <2>9
<1>7. QED
  BY <1>4, <1>5, <1>6

-----------------------------------------------------------------------------
(* The inductive step and the theorems.                                    *)

LEMMA ScanStep ==
    ASSUME ~ReuseJoined, ScanInv, [Next]_vars
    PROVE  ScanInv'
<1> USE DEF ScanInv
<1>1. TypeOK'
  BY NewTableType, NewIndexType, NewIndexKeyType, NewJoinType,
     FetchType, RewindType, CloseType, WriteType DEF Next, vars, TypeOK
<1>2. JoinSubs' /\ \A r \in RsIds : RsInv(r)'
  <2>1. ASSUME NEW r \in RsIds, NEW t \in {"table", "dups", "unique"}, NEW i, NEW k,
               type[r] = "closed",
               \/ Open(r, t, i, k) /\ UNCHANGED <<row, subs, jpos, joined>> /\ Restart(r)
               \/ CursorFails
        PROVE  JoinSubs' /\ \A s \in RsIds : RsInv(s)'
    BY <2>1, OpenScan, NothingScan DEF CursorFails
  <2>2. CASE \E r \in RsIds : NewTable(r)
    BY <2>1, <2>2 DEF NewTable
  <2>3. CASE \E r \in RsIds, i \in Indexes : NewIndex(r, i)
    BY <2>1, <2>3 DEF NewIndex
  <2>4. CASE \E r \in RsIds, i \in Indexes : \E k \in KeysOf(i) : NewIndexKey(r, i, k)
    BY <2>1, <2>4 DEF NewIndexKey
  <2>5. CASE \E r \in RsIds : \E L \in JoinLists(r) : NewJoin(r, L)
    BY <2>5, NewJoinScan
  <2>6. CASE \E r \in RsIds : Fetch(r)
    BY <2>6, FetchScan
  <2>7. CASE \E r \in RsIds : Rewind(r)
    BY <2>7, RewindScan
  <2>8. CASE \E r \in RsIds : Close(r)
    BY <2>8, CloseScan
  <2>9. CASE \E m \in Months, d \in Data \cup {Absent} : Write(m, d)
    BY <2>9, WriteScan
  <2>10. CASE UNCHANGED vars
    BY <2>10, NothingScan DEF vars, cursor, history
  <2>11. QED
    BY <2>2, <2>3, <2>4, <2>5, <2>6, <2>7, <2>8, <2>9, <2>10 DEF Next
<1>3. QED
  BY <1>1, <1>2

\* The invariant holds in every state reachable by a caller that does not
\* fetch from a recordset a join has positioned.
THEOREM ScanInvKept ==
    ASSUME ~ReuseJoined
    PROVE  Spec => []ScanInv
<1>1. Init => ScanInv
  BY InitScan
<1>2. ScanInv /\ [Next]_vars => ScanInv'
  BY ScanStep
<1>3. QED
  BY <1>1, <1>2, PTL DEF Spec

\* Exact scans (recordset::fetch with DB_FIRST/DB_NEXT, DB_SET/DB_NEXT_DUP
\* and the join cursor, and the m_isset bookkeeping of fetch, rewind and
\* the join constructor): for every table content, number of recordsets and
\* joinlist length, with the session's writes interleaved anywhere, the
\* items fetch has returned since a recordset was opened or rewound, while
\* no write intervened since, are its items in cursor order, each once and
\* none skipped, and all of them once fetch returns false.
THEOREM ScanExactKept ==
    ASSUME ~ReuseJoined
    PROVE  Spec => []ScanExact
<1>1. ScanInv => ScanExact
  BY DEF ScanInv, RsInv, IsOpen, ScanOK, Sorted, NoSkip, ScanExact
<1>2. QED
  BY <1>1, ScanInvKept, PTL

\* Scans across writes (recordset::fetch continuing from a cursor position
\* taken before table::insert, update or remove of the same session, and
\* recordset::rewind restarting on the rows as they are): for every value
\* of the constants, the history of an open recordset stays in strictly
\* increasing cursor order, skips no item that has stood in its filter ever
\* since it was opened or rewound, and holds every such item once fetch
\* returns false.
THEOREM ScanAcrossWritesKept ==
    ASSUME ~ReuseJoined
    PROVE  Spec => []ScanAcrossWrites
<1>1. ScanInv => ScanAcrossWrites
  BY DEF ScanInv, RsInv, IsOpen, ScanOK, Sorted, NoSkip, ScanAcrossWrites
<1>2. QED
  BY <1>1, ScanInvKept, PTL

=============================================================================
