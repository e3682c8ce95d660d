----------------------------- MODULE Recordset -----------------------------
(***************************************************************************)
(* bdb::recordset (recordset.cc): cursors over the table "month", over one *)
(* of its indexes (all entries, or the duplicates of one key), and joins   *)
(* of keyed index recordsets, all opened in one transaction view whose     *)
(* rows the same session may change between fetches.                       *)
(*                                                                         *)
(* Every item a cursor can return is a pair <<secondary key, month>>: the  *)
(* secondary key is 0 for table and join recordsets.  The Berkeley DB      *)
(* B-tree order of month_compare, season_ix_compare and days_ix_compare,   *)
(* with duplicates sorted by the primary key (index.cc passes the table's  *)
(* comparator as the duplicate comparator), is the lexicographic order of  *)
(* these pairs, so months and keys are numbers.                            *)
(***************************************************************************)
EXTENDS Naturals, Sequences, FiniteSets, Functions

CONSTANTS
    Months,         \* primary keys of "month", in month_compare order
    SeasonKeys,     \* values of the season index key
    DayKeys,        \* values of the days index key
    RsIds,          \* recordset objects the program may hold at once
    Absent,         \* no row under a key
    ReuseJoined,    \* the caller may fetch from a recordset after joining it
    MaxJoinList,    \* longest joinlist the program builds
    MayWrite        \* the session writes "month" while recordsets are open

ASSUME RecordsetAssumption ==
    /\ Months \subseteq Nat \ {0}
    /\ SeasonKeys \subseteq Nat \ {0}
    /\ DayKeys \subseteq Nat \ {0}
    /\ ReuseJoined \in BOOLEAN
    /\ MaxJoinList \in Nat
    /\ MayWrite \in BOOLEAN

Indexes == {"season", "days"}
KeysOf(i) == IF i = "season" THEN SeasonKeys ELSE DayKeys
Data == [season : SeasonKeys, days : DayKeys]
Types == {"closed", "table", "dups", "unique", "join"}
Item == ({0} \cup SeasonKeys \cup DayKeys) \X ({0} \cup Months)
NoPos == <<0, 0>>

VARIABLES
    row,        \* the rows of "month" in the cursors' transaction view
    type,       \* m_type, or "closed" for an id that holds no recordset
    ix,         \* the index a dups or unique recordset reads
    key,        \* m_key of a unique recordset
    pos,        \* the item m_cursor is positioned on
    isset,      \* m_isset
    subs,       \* the joinlist a join recordset was built from
    jpos,       \* the month the join cursor returned last (0 before the first)
    joined,     \* the join constructor positioned this recordset's cursor
    got,        \* items returned since the recordset was opened or rewound
    exhausted,  \* the last fetch returned false
    dirty,      \* a write happened since the recordset was opened or rewound
    stable,     \* the items that have stood in its filter ever since
    res         \* outcome of the last call

vars == <<row, type, ix, key, pos, isset, subs, jpos, joined, got, exhausted, dirty, stable, res>>
cursor == <<type, ix, key, pos, isset, subs, jpos, joined>>
history == <<got, exhausted, dirty, stable>>

Before(a, b) == a[1] < b[1] \/ (a[1] = b[1] /\ a[2] < b[2])
Least(S) == CHOOSE e \in S : \A f \in S \ {e} : Before(e, f)

Present == {m \in Months : row[m] # Absent}

\* The entries of an index: one per row, its key computed by the test
\* program's season_ix_index or days_ix_index.
Entries(i) == {<<row[m][i], m>> : m \in Present}

\* The months whose row matches every keyed recordset of a joinlist.
JoinSet(L) == {m \in Present : \A n \in 1..Len(L) : row[m][ix[L[n]]] = key[L[n]]}

\* The items a recordset stands for, in the current rows.
Filter(r) ==
    CASE type[r] = "table"  -> {<<0, m>> : m \in Present}
      [] type[r] = "dups"   -> Entries(ix[r])
      [] type[r] = "unique" -> {e \in Entries(ix[r]) : e[1] = key[r]}
      [] type[r] = "join"   -> {<<0, m>> : m \in JoinSet(subs[r])}
      [] OTHER              -> {}

InOpenJoin(r) == \E j \in RsIds : type[j] = "join" /\ r \in Range(subs[j])

TypeOK ==
    /\ row \in [Months -> Data \cup {Absent}]
    /\ type \in [RsIds -> Types]
    /\ ix \in [RsIds -> Indexes]
    /\ key \in [RsIds -> {0} \cup SeasonKeys \cup DayKeys]
    /\ pos \in [RsIds -> Item]
    /\ isset \in [RsIds -> BOOLEAN]
    /\ subs \in [RsIds -> Seq(RsIds)]
    /\ jpos \in [RsIds -> {0} \cup Months]
    /\ joined \in [RsIds -> BOOLEAN]
    /\ got \in [RsIds -> Seq(Item)]
    /\ exhausted \in [RsIds -> BOOLEAN]
    /\ dirty \in [RsIds -> BOOLEAN]
    /\ stable \in [RsIds -> SUBSET Item]
    /\ res \in {"none", "ok", "false", "unknown"}

\* Any content of the table: every one is reached by inserts.
Init ==
    /\ row \in [Months -> Data \cup {Absent}]
    /\ type = [r \in RsIds |-> "closed"]
    /\ ix = [r \in RsIds |-> "season"]
    /\ key = [r \in RsIds |-> 0]
    /\ pos = [r \in RsIds |-> NoPos]
    /\ isset = [r \in RsIds |-> FALSE]
    /\ subs = [r \in RsIds |-> <<>>]
    /\ jpos = [r \in RsIds |-> 0]
    /\ joined = [r \in RsIds |-> FALSE]
    /\ got = [r \in RsIds |-> <<>>]
    /\ exhausted = [r \in RsIds |-> FALSE]
    /\ dirty = [r \in RsIds |-> FALSE]
    /\ stable = [r \in RsIds |-> {}]
    /\ res = "none"

-----------------------------------------------------------------------------
(* Constructors.  DB->cursor may fail: the constructor throws UNKNOWN and  *)
(* no recordset exists.                                                    *)

CursorFails == /\ res' = "unknown"
               /\ UNCHANGED <<row, cursor, history>>

\* Opening recordset r of type t on index i with key k.
Open(r, t, i, k) ==
    /\ type' = [type EXCEPT ![r] = t]
    /\ ix' = [ix EXCEPT ![r] = i]
    /\ key' = [key EXCEPT ![r] = k]
    /\ pos' = [pos EXCEPT ![r] = NoPos]
    /\ isset' = [isset EXCEPT ![r] = FALSE]
    /\ got' = [got EXCEPT ![r] = <<>>]
    /\ exhausted' = [exhausted EXCEPT ![r] = FALSE]
    /\ dirty' = [dirty EXCEPT ![r] = FALSE]
    /\ res' = "ok"

\* What a recordset stands for once it is (re)started: its filter in the
\* state the step leaves.
Restart(r) == stable' = [stable EXCEPT ![r] = Filter(r)']

NewTable(r) ==
    /\ type[r] = "closed"
    /\ \/ /\ Open(r, "table", "season", 0)
          /\ UNCHANGED <<row, subs, jpos, joined>>
          /\ Restart(r)
       \/ CursorFails

NewIndex(r, i) ==
    /\ type[r] = "closed"
    /\ \/ /\ Open(r, "dups", i, 0)
          /\ UNCHANGED <<row, subs, jpos, joined>>
          /\ Restart(r)
       \/ CursorFails

NewIndexKey(r, i, k) ==
    /\ type[r] = "closed"
    /\ \/ /\ Open(r, "unique", i, k)
          /\ UNCHANGED <<row, subs, jpos, joined>>
          /\ Restart(r)
       \/ CursorFails

\* The position DB_SET gives the cursor of a keyed recordset: the first
\* duplicate of its key.
SetPosition(s) == Least(Filter(s))

\* The length of the prefix of a joinlist the constructor's loop handles
\* before it meets a recordset without a key.
KeyedPrefix(L) ==
    IF \E n \in 1..Len(L) : type[L[n]] # "unique"
    THEN (CHOOSE n \in 1..Len(L) : type[L[n]] # "unique" /\
                                   \A q \in 1..(n - 1) : type[L[q]] = "unique") - 1
    ELSE Len(L)

\* The join constructor: DB_SET on the cursor of every keyed recordset of
\* the list, in order, marking those found as set; a recordset without a
\* key aborts the loop with UNKNOWN and leaves the earlier cursors moved;
\* DB->join, which refuses an empty list, may fail with any list, and then
\* the constructor throws UNKNOWN after the cursors were moved.
NewJoin(r, L) ==
    LET done  == {L[n] : n \in 1..KeyedPrefix(L)}
        found == {s \in done : Filter(s) # {}}
        built == KeyedPrefix(L) = Len(L) /\ L # <<>>
    IN
    /\ type[r] = "closed"
    /\ pos' = [s \in RsIds |-> IF s \in found THEN SetPosition(s) ELSE pos[s]]
    /\ isset' = [s \in RsIds |-> IF s \in found THEN TRUE
                                 ELSE IF s = r THEN built /\ found = done ELSE isset[s]]
    /\ joined' = [s \in RsIds |-> joined[s] \/ s \in found]
    /\ \/ /\ res' = "unknown"
          /\ UNCHANGED <<row, type, ix, key, subs, jpos, history>>
       \/ /\ built
          /\ type' = [type EXCEPT ![r] = "join"]
          /\ subs' = [subs EXCEPT ![r] = L]
          /\ jpos' = [jpos EXCEPT ![r] = 0]
          /\ got' = [got EXCEPT ![r] = <<>>]
          /\ exhausted' = [exhausted EXCEPT ![r] = FALSE]
          /\ dirty' = [dirty EXCEPT ![r] = FALSE]
          /\ res' = "ok"
          /\ UNCHANGED <<row, ix, key>>
          /\ Restart(r)

-----------------------------------------------------------------------------
(* recordset::fetch and recordset::rewind                                  *)

\* Mutant: DB_NEXT instead of DB_NEXT_DUP for a keyed recordset.
FoundNextNotDup(r) ==
    IF type[r] = "join"
    THEN {e \in Filter(r) : e[2] > jpos[r]}
    ELSE {e \in IF type[r] = "unique" THEN Entries(ix[r]) ELSE Filter(r) :
              isset[r] => Before(pos[r], e)}

\* What the cursor call of fetch finds: DB_FIRST/DB_NEXT for a table or a
\* whole index, DB_SET/DB_NEXT_DUP for a key, and for a join the next month
\* of the join after the last one it returned.
Found(r) ==
    IF type[r] = "join"
    THEN {e \in Filter(r) : e[2] > jpos[r]}
    ELSE {e \in Filter(r) : isset[r] => Before(pos[r], e)}

\* Berkeley DB's rule for DB->join: the cursors in the curslist are not
\* accessed or moved until the join cursor is closed (the join duplicates
\* them with DB_POSITION when it needs them, and recordset.cc hands it the
\* recordsets' own cursors).  A recordset in an open join is not fetched
\* from, rewound or joined again.
Untangled(r) == ~InOpenJoin(r)

\* The caller's discipline, unless ReuseJoined: a recordset is not fetched
\* from while its cursor is positioned by a join it was handed to, until it
\* is rewound.
FetchAllowed(r) == Untangled(r) /\ (ReuseJoined \/ ~joined[r])

Fetch(r) ==
    /\ type[r] \notin {"closed"}
    /\ FetchAllowed(r)
    /\ \/ /\ type[r] = "join" => isset[r]
          /\ Found(r) # {}
          /\ LET e == Least(Found(r)) IN
             /\ pos' = IF type[r] = "join" THEN pos ELSE [pos EXCEPT ![r] = e]
             /\ jpos' = IF type[r] = "join" THEN [jpos EXCEPT ![r] = e[2]] ELSE jpos
             /\ isset' = [isset EXCEPT ![r] = TRUE]
             /\ got' = [got EXCEPT ![r] = Append(@, e)]
          /\ exhausted' = [exhausted EXCEPT ![r] = FALSE]
          /\ res' = "ok"
       \/ /\ type[r] = "join" => isset[r]
          /\ Found(r) = {}
          /\ exhausted' = [exhausted EXCEPT ![r] = TRUE]
          /\ res' = "false"
          /\ UNCHANGED <<pos, jpos, isset, got>>
       \/ /\ type[r] = "join" /\ ~isset[r]
          /\ exhausted' = [exhausted EXCEPT ![r] = TRUE]
          /\ res' = "false"
          /\ UNCHANGED <<pos, jpos, isset, got>>
    /\ UNCHANGED <<row, type, ix, key, subs, joined, dirty, stable>>

\* Mutant: rewind that leaves m_isset as it is.
RewindKeepsIsset(r) ==
    /\ type[r] \notin {"closed"}
    /\ Untangled(r)
    /\ \/ /\ type[r] = "join"
          /\ res' = "unknown"
          /\ UNCHANGED <<row, cursor, history>>
       \/ /\ type[r] # "join"
          /\ joined' = [joined EXCEPT ![r] = FALSE]
          /\ got' = [got EXCEPT ![r] = <<>>]
          /\ exhausted' = [exhausted EXCEPT ![r] = FALSE]
          /\ dirty' = [dirty EXCEPT ![r] = FALSE]
          /\ stable' = [stable EXCEPT ![r] = Filter(r)]
          /\ res' = "ok"
          /\ UNCHANGED <<row, type, ix, key, pos, isset, subs, jpos>>

Rewind(r) ==
    /\ type[r] \notin {"closed"}
    /\ Untangled(r)
    /\ \/ /\ type[r] = "join"
          /\ res' = "unknown"
          /\ UNCHANGED <<row, cursor, history>>
       \/ /\ type[r] # "join"
          /\ isset' = [isset EXCEPT ![r] = FALSE]
          /\ joined' = [joined EXCEPT ![r] = FALSE]
          /\ got' = [got EXCEPT ![r] = <<>>]
          /\ exhausted' = [exhausted EXCEPT ![r] = FALSE]
          /\ dirty' = [dirty EXCEPT ![r] = FALSE]
          /\ stable' = [stable EXCEPT ![r] = Filter(r)]
          /\ res' = "ok"
          /\ UNCHANGED <<row, type, ix, key, pos, subs, jpos>>

\* ~recordset closes the cursor.  The caller does not delete a recordset
\* while a join built from it is open (the join reads its cursor).
Close(r) ==
    /\ type[r] \notin {"closed"}
    /\ ~InOpenJoin(r)
    /\ type' = [type EXCEPT ![r] = "closed"]
    /\ ix' = [ix EXCEPT ![r] = "season"]
    /\ key' = [key EXCEPT ![r] = 0]
    /\ pos' = [pos EXCEPT ![r] = NoPos]
    /\ isset' = [isset EXCEPT ![r] = FALSE]
    /\ subs' = [subs EXCEPT ![r] = <<>>]
    /\ jpos' = [jpos EXCEPT ![r] = 0]
    /\ joined' = [joined EXCEPT ![r] = FALSE]
    /\ got' = [got EXCEPT ![r] = <<>>]
    /\ exhausted' = [exhausted EXCEPT ![r] = FALSE]
    /\ dirty' = [dirty EXCEPT ![r] = FALSE]
    /\ stable' = [stable EXCEPT ![r] = {}]
    /\ res' = "ok"
    /\ UNCHANGED row

-----------------------------------------------------------------------------
(* Writes of the same session on "month" (table::insert, update, remove),  *)
(* with the indexes maintained by Berkeley DB.  An open cursor keeps its   *)
(* position, so its next fetch continues from it over the new rows; the    *)
(* scans open at that moment are no longer quiescent, and what stays in    *)
(* their filters is what they still stand for.                             *)

Write(m, d) ==
    /\ MayWrite
    /\ row[m] # Absent \/ d # Absent
    /\ row' = [row EXCEPT ![m] = d]
    /\ dirty' = [r \in RsIds |-> type[r] # "closed"]
    /\ res' = "ok"
    /\ UNCHANGED <<cursor, got, exhausted>>
    /\ stable' = [r \in RsIds |-> stable[r] \cap Filter(r)']

\* Joinlists of up to MaxJoinList distinct recordsets the program holds.
JoinLists(r) ==
    UNION {{L \in [1..n -> {s \in RsIds \ {r} : type[s] # "closed" /\ Untangled(s)}] : IsInjective(L)}
           : n \in 0..MaxJoinList}

Next ==
    \/ \E r \in RsIds : NewTable(r)
    \/ \E r \in RsIds, i \in Indexes : NewIndex(r, i)
    \/ \E r \in RsIds, i \in Indexes : \E k \in KeysOf(i) : NewIndexKey(r, i, k)
    \/ \E r \in RsIds : \E L \in JoinLists(r) : NewJoin(r, L)
    \/ \E r \in RsIds : Fetch(r)
    \/ \E r \in RsIds : Rewind(r)
    \/ \E r \in RsIds : Close(r)
    \/ \E m \in Months, d \in Data \cup {Absent} : Write(m, d)

Spec == Init /\ [][Next]_vars

-----------------------------------------------------------------------------
(* Properties                                                              *)

\* Exact scans (spec 4.5, tests 23 to 28): while no write intervenes, the
\* items fetch returns since a recordset was opened or rewound are its
\* filter's items in cursor order, each once and none skipped, and once
\* fetch has returned false they are all of them.  This covers the
\* DB_FIRST/DB_NEXT, DB_SET/DB_NEXT_DUP and join cursor calls of fetch,
\* the m_isset bookkeeping of fetch, rewind and the join constructor, and
\* the empty join.
ScanExact ==
    \A r \in RsIds : type[r] # "closed" /\ ~dirty[r] =>
        LET g == got[r] IN
        /\ \A n \in 1..(Len(g) - 1) : Before(g[n], g[n + 1])
        /\ Range(g) \subseteq Filter(r)
        /\ \A e \in Filter(r) : Len(g) > 0 /\ Before(e, g[Len(g)]) => e \in Range(g)
        /\ exhausted[r] => Range(g) = Filter(r)

\* Scans across writes (spec 4.5 with the session's table writes between
\* fetches): the items fetch returns since a recordset was opened or
\* rewound stay in strictly increasing cursor order, every item that has
\* stood in the filter ever since and lies before the last one returned
\* was returned, and once fetch has returned false every such item was
\* returned.  A cursor positioned before a write continues from its old
\* position; rewind must restart it on the rows as they are now.
ScanAcrossWrites ==
    \A r \in RsIds : type[r] # "closed" =>
        LET g == got[r] IN
        /\ \A n \in 1..(Len(g) - 1) : Before(g[n], g[n + 1])
        /\ \A e \in stable[r] : Len(g) > 0 /\ Before(e, g[Len(g)]) => e \in Range(g)
        /\ exhausted[r] => stable[r] \subseteq Range(g)

============================================================================
