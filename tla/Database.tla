------------------------------ MODULE Database ------------------------------
(***************************************************************************)
(* One bdb::database session over the schema used by the library's test:  *)
(* a master table "season", a primary table "month" whose non-unique       *)
(* index "season" projects a month record to its season and carries a      *)
(* foreign key to "season", and the sequence "month".                      *)
(*                                                                         *)
(* Everything the engine stores lives in a Store record: which files       *)
(* exist, the rows of both tables, the entries of the index and the value  *)
(* of the sequence.  The stack m_txns is modelled as a sequence of Store   *)
(* views, one per open transaction: a nested transaction starts from its   *)
(* parent's view, its commit replaces the parent's view, its abort drops   *)
(* it.  Every table, index and sequence call of the wrapper works on the   *)
(* view of m_txns.top().  Nothing reaches disk until ~database commits the *)
(* top-level transaction; a crash discards the whole session.              *)
(*                                                                         *)
(* The index association (add_index) and the foreign key (add_foreign)     *)
(* belong to the handles of one session, not to the files: ixOpen and fk   *)
(* are reset when the session ends.                                        *)
(***************************************************************************)
EXTENDS Naturals, Sequences, FiniteSets

CONSTANTS
    Months,         \* primary keys of table "month"
    Seasons,        \* primary keys of table "season" = keys of the index
    NoSeason,       \* month data for which the index callback returns non-zero
    SeasonInfo,     \* data values of table "season"
    Absent,         \* marks a key with no row
    MaxDepth,       \* bound on the nested transactions above the top-level one
    MaxId,          \* bound on the values the sequence hands out
    MayCrash        \* the process may die while the database is open

ASSUME ConstantsAssumption ==
    /\ MaxDepth \in Nat
    /\ MaxId \in Nat
    /\ MayCrash \in BOOLEAN
    /\ NoSeason \notin Seasons
    /\ Absent \notin Seasons \cup SeasonInfo \cup {NoSeason}

Tables  == {"season", "month"}
Files   == Tables \cup {"seqdb", "seasonix"}     \* __seq.db, *.db and season.ix
FkModes == {"none", "abort", "cascade", "nullify"}
Errors  == {"notfound", "exists", "foreign", "unknown"}
Results == {"none", "ok"} \cup Errors

MonthData == Seasons \cup {NoSeason}
Rows == [season : [Seasons -> SeasonInfo \cup {Absent}],
         month  : [Months -> MonthData \cup {Absent}]]
Store == [files : SUBSET Files,
          row   : Rows,
          ix    : SUBSET (Seasons \X Months),
          seq   : 0..(MaxId + 1)]   \* next value of "month"; 0: no record

KeyOf(t)  == IF t = "month" THEN Months ELSE Seasons
DataOf(t) == IF t = "month" THEN MonthData ELSE SeasonInfo

EmptyStore == [files |-> {},
               row   |-> [season |-> [s \in Seasons |-> Absent],
                          month  |-> [m \in Months |-> Absent]],
               ix    |-> {},
               seq   |-> 0]

VARIABLES
    envExists,  \* the environment home has been created (not transactional)
    envOpen,    \* a bdb::database object is alive
    disk,       \* the Store as last committed by ~database
    stack,      \* m_txns: one Store view per open transaction
    tables,     \* names in m_tables
    ixOpen,     \* the index is associated with "month" in this session
    fk,         \* the foreign-key mode attached by add_foreign in this session
    seqOpen,    \* "month" is in m_sequences
    res,        \* outcome of the last call: "ok" or an error
    issued      \* how often sequence::id has returned each value (history,
                \* saturating at 2)

vars == <<envExists, envOpen, disk, stack, tables, ixOpen, fk, seqOpen, res, issued>>
session == <<tables, ixOpen, fk, seqOpen>>

Top == stack[Len(stack)]
SetTop(s) == [stack EXCEPT ![Len(stack)] = s]
Pop == SubSeq(stack, 1, Len(stack) - 1)

\* The index content the callback season_ix_index derives from the rows.
SeasonIndex(row) == {<<row.month[m], m>> : m \in {n \in Months : row.month[n] \in Seasons}}

\* Month records referring to season key, as the engine finds them: by a
\* lookup of the key in the foreign index.
Referenced(s, key) == {m \in Months : <<key, m>> \in s.ix}

TypeOK ==
    /\ envExists \in BOOLEAN
    /\ envOpen \in BOOLEAN
    /\ disk \in Store
    /\ stack \in Seq(Store)
    /\ envOpen <=> Len(stack) # 0
    /\ Len(stack) <= MaxDepth + 1
    /\ tables \subseteq Tables
    /\ ixOpen \in BOOLEAN
    /\ fk \in FkModes
    /\ seqOpen \in BOOLEAN
    /\ res \in Results
    /\ issued \in [1..MaxId -> 0..2]

Init ==
    /\ envExists = FALSE
    /\ envOpen = FALSE
    /\ disk = EmptyStore
    /\ stack = <<>>
    /\ tables = {}
    /\ ixOpen = FALSE
    /\ fk = "none"
    /\ seqOpen = FALSE
    /\ res = "none"
    /\ issued = [v \in 1..MaxId |-> 0]

-----------------------------------------------------------------------------
(* Engine effects of a write on the view s, as DB->put and DB->del perform *)
(* them on a primary with an associated index: the entry derived from the  *)
(* old data is removed and the one derived from the new data is added.     *)
(* Absent as the new data is a delete.                                     *)

PutRow(s, t, k, v) ==
    LET old == s.row[t][k]
        ix2 == IF t = "month" /\ ixOpen
               THEN (s.ix \ {<<old, k>>}) \cup (IF v \in Seasons THEN {<<v, k>>} ELSE {})
               ELSE s.ix
    IN  [s EXCEPT !.row[t][k] = v, !.ix = ix2]

\* DB_FOREIGN_CONFLICT on a put: the index key of the new data is absent
\* from the master table.
ForeignConflict(s, t, v) ==
    /\ t = "month"
    /\ ixOpen
    /\ fk # "none"
    /\ v \in Seasons
    /\ s.row.season[v] = Absent

\* Deleting season key from s with the foreign key in mode fk: the records
\* found through the index are deleted (cascade) or rewritten by the
\* nullify callback, which clears their season (nullify).
DeleteMaster(s, key) ==
    LET refs == IF fk \in {"cascade", "nullify"} THEN Referenced(s, key) ELSE {}
        new  == IF fk = "cascade" THEN Absent ELSE NoSeason
    IN  [s EXCEPT !.row.season[key] = Absent,
                  !.row.month = [m \in Months |-> IF m \in refs THEN new ELSE @[m]],
                  !.ix = @ \ {<<s.row.month[m], m>> : m \in refs}]

Fail(r) == /\ res' = r
           /\ UNCHANGED <<envExists, envOpen, disk, stack, session, issued>>

Succeed(s) == /\ stack' = SetTop(s)
              /\ res' = "ok"
              /\ UNCHANGED <<envExists, envOpen, disk, session, issued>>

Writable(t) == envOpen /\ t \in tables

\* The index handle attached by add_index refers to a file the current view
\* does not hold: its creation was rolled back with a nested transaction.
IndexGone == ixOpen /\ "seasonix" \notin Top.files

\* A write on a handle whose file the current view does not hold: the table
\* itself or, for "month", the index the engine maintains with it.  The
\* engine rejects the call.
HandleGone(t) == /\ Writable(t)
                 /\ t \notin Top.files \/ (t = "month" /\ IndexGone)
                 /\ Fail("unknown")

-----------------------------------------------------------------------------
(* bdb::database                                                           *)

Open(create) ==
    /\ ~envOpen
    /\ \/ /\ ~create
          /\ ~envExists \/ "seqdb" \notin disk.files
          /\ Fail("notfound")
       \/ /\ create
          /\ "seqdb" \in disk.files
          /\ Fail("exists")
       \/ /\ create \/ envExists
          /\ create <=> "seqdb" \notin disk.files
          /\ envExists' = TRUE
          /\ envOpen' = TRUE
          /\ stack' = <<[disk EXCEPT !.files = @ \cup {"seqdb"}]>>
          /\ res' = "ok"
          /\ UNCHANGED <<disk, session, issued>>

EndSession ==
    /\ envOpen' = FALSE
    /\ stack' = <<>>
    /\ tables' = {}
    /\ ixOpen' = FALSE
    /\ fk' = "none"
    /\ seqOpen' = FALSE
    /\ UNCHANGED <<envExists, issued>>

\* ~database: abort the nested transactions, close every handle, commit the
\* top-level transaction.
Close ==
    /\ envOpen
    /\ disk' = stack[1]
    /\ res' = "ok"
    /\ EndSession

\* The process dies: the top-level transaction never commits.
Crash ==
    /\ MayCrash
    /\ envOpen
    /\ UNCHANGED disk
    /\ res' = "none"
    /\ EndSession

AddTable(t, create) ==
    /\ envOpen
    /\ \/ /\ create
          /\ t \in Top.files
          /\ Fail("exists")
       \/ /\ ~create
          /\ t \notin Top.files
          /\ Fail("notfound")
       \/ /\ create <=> t \notin Top.files
          /\ stack' = SetTop([Top EXCEPT !.files = @ \cup {t}])
          /\ tables' = tables \cup {t}
          /\ res' = "ok"
          /\ UNCHANGED <<envExists, envOpen, disk, ixOpen, fk, seqOpen, issued>>

BeginTransaction ==
    /\ envOpen
    /\ \/ /\ Len(stack) <= MaxDepth
          /\ stack' = Append(stack, Top)
          /\ res' = "ok"
          /\ UNCHANGED <<envExists, envOpen, disk, session, issued>>
       \/ Fail("unknown")

\* Fault variant: commit_transaction without its m_txns.size() == 1 check.
CommitTransactionPopsTopLevel ==
    /\ envOpen
    /\ stack' = IF Len(stack) > 1 THEN [Pop EXCEPT ![Len(stack) - 1] = Top] ELSE Pop
    /\ res' = "ok"
    /\ UNCHANGED <<envExists, envOpen, disk, session, issued>>

\* The child is popped before DB_TXN->commit; a failed commit aborts it.
CommitTransaction ==
    /\ envOpen
    /\ \/ /\ Len(stack) = 1
          /\ Fail("notfound")
       \/ /\ Len(stack) > 1
          /\ \/ /\ stack' = [Pop EXCEPT ![Len(stack) - 1] = Top]
                /\ res' = "ok"
             \/ /\ stack' = Pop
                /\ res' = "unknown"
          /\ UNCHANGED <<envExists, envOpen, disk, session, issued>>

RollbackTransaction ==
    /\ envOpen
    /\ \/ /\ Len(stack) = 1
          /\ Fail("notfound")
       \/ /\ Len(stack) > 1
          /\ stack' = Pop
          /\ res' \in {"ok", "unknown"}
          /\ UNCHANGED <<envExists, envOpen, disk, session, issued>>

-----------------------------------------------------------------------------
(* bdb::table and bdb::index                                               *)

\* index::index and DB->associate(DB_CREATE): the index is filled from the
\* rows only when it is empty.
AddIndex ==
    /\ envOpen
    /\ "month" \in tables
    /\ ~ixOpen
    /\ stack' = SetTop([Top EXCEPT !.files = @ \cup {"seasonix"},
                                   !.ix = IF @ = {} THEN SeasonIndex(Top.row) ELSE @])
    /\ ixOpen' = TRUE
    /\ res' = "ok"
    /\ UNCHANGED <<envExists, envOpen, disk, tables, fk, seqOpen, issued>>

AddForeign(mode) ==
    /\ envOpen
    /\ ixOpen
    /\ "season" \in tables
    /\ fk = "none"
    /\ fk' = mode
    /\ res' = "ok"
    /\ UNCHANGED <<envExists, envOpen, disk, stack, tables, ixOpen, seqOpen, issued>>

Insert(t, k, v) ==
    /\ Writable(t)
    /\ t \in Top.files
    /\ t = "month" => ~IndexGone
    /\ \/ /\ Top.row[t][k] # Absent
          /\ Fail("exists")
       \/ /\ Top.row[t][k] = Absent
          /\ ForeignConflict(Top, t, v)
          /\ Fail("foreign")
       \/ /\ Top.row[t][k] = Absent
          /\ ~ForeignConflict(Top, t, v)
          /\ Succeed(PutRow(Top, t, k, v))

\* The existence probe and the put are two engine calls.
Update(t, k, v) ==
    /\ Writable(t)
    /\ t \in Top.files
    /\ t = "month" => ~IndexGone
    /\ \/ /\ Top.row[t][k] = Absent
          /\ Fail("notfound")
       \/ /\ Top.row[t][k] # Absent
          /\ ForeignConflict(Top, t, v)
          /\ Fail("foreign")
       \/ /\ Top.row[t][k] # Absent
          /\ ~ForeignConflict(Top, t, v)
          /\ Succeed(PutRow(Top, t, k, v))

\* Deleting a master key with a foreign key attached goes through the
\* foreign index, which must still exist.
Remove(t, k) ==
    /\ Writable(t)
    /\ t \in Top.files
    /\ t = "month" => ~IndexGone
    /\ \/ /\ Top.row[t][k] = Absent
          /\ Fail("notfound")
       \/ /\ t = "season"
          /\ Top.row[t][k] # Absent
          /\ fk # "none"
          /\ IndexGone
          /\ Fail("unknown")
       \/ /\ t = "season"
          /\ Top.row[t][k] # Absent
          /\ ~(fk # "none" /\ IndexGone)
          /\ fk = "abort"
          /\ Referenced(Top, k) # {}
          /\ Fail("foreign")
       \/ /\ t = "season"
          /\ Top.row[t][k] # Absent
          /\ ~(fk # "none" /\ IndexGone)
          /\ fk = "abort" => Referenced(Top, k) = {}
          /\ Succeed(DeleteMaster(Top, k))
       \/ /\ t = "month"
          /\ Top.row[t][k] # Absent
          /\ Succeed(PutRow(Top, t, k, Absent))

-----------------------------------------------------------------------------
(* bdb::sequence                                                           *)

AddSequence(create) ==
    /\ envOpen
    /\ ~seqOpen
    /\ \/ /\ create
          /\ Top.seq # 0
          /\ Fail("exists")
       \/ /\ ~create
          /\ Top.seq = 0
          /\ Fail("notfound")
       \/ /\ create <=> Top.seq = 0
          /\ stack' = SetTop([Top EXCEPT !.seq = IF create THEN 1 ELSE @])
          /\ seqOpen' = TRUE
          /\ res' = "ok"
          /\ UNCHANGED <<envExists, envOpen, disk, tables, ixOpen, fk, issued>>

\* DB_SEQUENCE->get in m_txns.top(), cache size 0.
SequenceId ==
    /\ envOpen
    /\ seqOpen
    /\ \/ /\ Top.seq \in 1..MaxId
          /\ stack' = SetTop([Top EXCEPT !.seq = @ + 1])
          /\ res' = "ok"
          /\ issued' = [issued EXCEPT ![Top.seq] = IF @ = 2 THEN 2 ELSE @ + 1]
          /\ UNCHANGED <<envExists, envOpen, disk, session>>
       \/ /\ Top.seq = 0
          /\ Fail("unknown")

-----------------------------------------------------------------------------

Next ==
    \/ \E create \in BOOLEAN : Open(create)
    \/ Close
    \/ Crash
    \/ \E t \in Tables, create \in BOOLEAN : AddTable(t, create)
    \/ BeginTransaction
    \/ CommitTransaction
    \/ RollbackTransaction
    \/ AddIndex
    \/ \E mode \in FkModes \ {"none"} : AddForeign(mode)
    \/ \E t \in Tables : HandleGone(t)
    \/ \E t \in Tables : \E k \in KeyOf(t), v \in DataOf(t) : Insert(t, k, v)
    \/ \E t \in Tables : \E k \in KeyOf(t), v \in DataOf(t) : Update(t, k, v)
    \/ \E t \in Tables : \E k \in KeyOf(t) : Remove(t, k)
    \/ \E create \in BOOLEAN : AddSequence(create)
    \/ SequenceId

Spec == Init /\ [][Next]_vars

-----------------------------------------------------------------------------
(* Properties                                                              *)

(* Index consistency (spec 3, 4.2 and 6: add_index "associates it with    *)
(* this table so future writes to the table automatically maintain it" and *)
(* "must backfill from existing table contents if the index did not        *)
(* previously exist"): whenever add_index is in effect in the session and  *)
(* its file exists in the current transaction, the index holds exactly the *)
(* entries season_ix_index derives from that transaction's month rows.     *)
(* The index file outlives the session that maintained it, and             *)
(* DB->associate(DB_CREATE) fills in only an empty one.                    *)
IndexConsistent ==
    ixOpen /\ "seasonix" \in Top.files => Top.ix = SeasonIndex(Top.row)

\* Every month record of view s that names a season names a row of table
\* "season".
RefIntact(s) ==
    \A m \in Months : s.row.month[m] \in Seasons => s.row.season[s.row.month[m]] # Absent

(* Foreign-key enforcement (spec 4.3 and 6: a delete of a referenced       *)
(* master key fails, cascades to or nullifies the referencing records):    *)
(* no call made in the current transaction while add_foreign is in effect  *)
(* makes a month record name a season without a row.  The engine finds the *)
(* referencing records through the index, so this depends on the index     *)
(* being current.                                                          *)
ForeignKeyKept ==
    [][/\ envOpen /\ envOpen' /\ fk # "none"
       /\ Len(stack') = Len(stack)
       /\ RefIntact(Top)
       => RefIntact(Top')]_vars

(* Sequence uniqueness (sequence::id, spec 4.4): no value is returned by  *)
(* two calls of sequence::id, in one session or across sessions.           *)
NoIdIssuedTwice ==
    \A v \in 1..MaxId : issued[v] <= 1

=============================================================================
