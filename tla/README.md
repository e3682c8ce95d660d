# Formal model of bdblib

bdblib is a thin C++ layer over Berkeley DB. Its classes:

- `bdb::database` owns the environment, a sequences database and a stack of nested transactions (`m_txns`).
- `bdb::table` is a B-tree database. It offers `insert`, `update`, `remove`, `exists` and `select`.
- `bdb::index` is a secondary database attached to a table by `DB->associate`. It can be tied to a master table by `associate_foreign`.
- `bdb::sequence` is a `DB_SEQUENCE` in the sequences database.
- `bdb::recordset` is a cursor over a table, an index or a join of indexes.

Every call takes `m_txns.top()` as its transaction. This covers puts, deletes, cursor opens, sequence gets and even the DB->open of a table or index handle. So everything a caller does belongs to the innermost open transaction.

The top-level transaction is begun in the constructor and committed only in `~database`.

This directory holds the TLA+ project that models these parts and checks them with TLC and TLAPS.

## Inventory

| part | state | operations | source |
|---|---|---|---|
| database | environment exists or is open; `m_txns`; `m_tables`; `m_sequences` | constructor (open or create), destructor, `begin_transaction`, `commit_transaction`, `rollback_transaction`, `add_table`, `add_sequence` | `database.cc`, `bdb.h` |
| table | rows in each transaction view; the handle is open in this session | constructor (open or create), `insert`, `update`, `remove`; `exists` and `select` are reads | `table.cc` |
| index | secondary entries in each view; associated in this session; foreign-key mode of this session | constructor (`associate` with `DB_CREATE`), `add_foreign` in abort, cascade or nullify mode | `index.cc`, `test.cc` (index callback) |
| sequence | current value in each view; open in this session | constructor (open or create), `id` | `sequence.cc` |
| recordset | `m_cursor` position, `m_key`, `m_type`, `m_isset` | the four constructors, `~recordset`, `fetch`, `rewind` | `recordset.cc`, `bdb.h` |
| threads sharing a database | `m_txns`, the engine state of each `DB_TXN`, each thread's place in its call and its local `txn` | the steps of `begin_transaction`, `commit_transaction`, `rollback_transaction`; a table write's read of `m_txns.top()` and its put | `database.cc:255-344`, `table.cc:225-339` |
| helpers | none | serialize, unserialize, release, allocator, version | `bdb.cc` (not modelled) |

How the parts interact:

- Every write goes through `m_txns.top()`.
- A commit merges the child view into its parent.
- An abort drops the child view.
- A failed commit also drops the child: it is popped before `DB_TXN->commit` is called (`database.cc:299-302`).
- Indexes and foreign keys hold per handle and per session. They are live only once this session has called `add_index` or `add_foreign`.

Behaviours that are hard to test:

- nested aborts and commit failures;
- a crash before `~database`, which loses the whole session;
- sessions that skip `add_index` or `add_foreign`;
- cascade and nullify deletes;
- handles opened inside a transaction that is later rolled back;
- threads sharing `m_txns` under a mutex that is local to each call.

## Module `Database`

The module keeps one *view* per open transaction. A view is a record (`Store`) with these fields:

- the files that exist;
- the rows of tables `season` and `month` (`Absent` marks a missing row);
- the entries of the season index of `month`;
- the value of the sequence (0 means the sequence does not exist).

The variables:

- `disk` is the state last committed by `~database`.
- `stack` is `m_txns`. `stack[1]` is the top-level transaction and `Top` is `m_txns.top()`.
- `tables`, `ixOpen`, `fk` and `seqOpen` are the handles of the current session.
- `res` is the outcome of the last call.
- `issued` counts how often `sequence::id` returned each value. This is history for the uniqueness property; no guard reads it.

Each API call is one action. Its disjuncts follow the call's error paths in source order:

| action | code |
|---|---|
| `Open(create)` | `database::database`: ENOENT, EEXIST, or the top-level transaction plus the sequences database |
| `Close` | `~database`: abort the nested transactions, close, commit the top level |
| `Crash` | the process dies before `~database` |
| `AddTable` | `table::table` |
| `BeginTransaction` | `begin_transaction`, with a failing `txn_begin` |
| `CommitTransaction` | `commit_transaction`: NOT_FOUND at top level; a successful merge; or a failing commit after the pop |
| `RollbackTransaction` | `rollback_transaction` |
| `AddIndex` | `index::index`: open the secondary in the current transaction and associate with `DB_CREATE`, which backfills only an empty secondary |
| `AddForeign(mode)` | `index::add_foreign` |
| `HandleGone` | a call on a handle whose file was rolled back |
| `Insert`, `Update`, `Remove` | the `table` methods |
| `AddSequence` | `sequence::sequence` |
| `SequenceId` | `sequence::id` |

The engine effects of a put or a delete with an associated index are `PutRow` and `DeleteMaster`. `PutRow` removes the old secondary entry and adds the new one. `DeleteMaster` applies the foreign-key cascade or nullify. Which entries exist comes from the test program's `season_ix_index`.

The nullified value `NoSeason` models the data a nullify callback writes. Berkeley DB requires the index callback to decline to index that data (`DB_DONOTINDEX`). The test program itself never uses nullify.

Keys and data are model values: `Months`, `Seasons` and `SeasonInfo`.

Any call order is allowed: a session may write before it attaches the index or the foreign key, or never attach them. `MayCrash` enables the crash action.

A write on `month` goes through the index the engine maintains with it. When the index handle of the session refers to a file the current view does not hold (`IndexGone`: its creation was rolled back), the write fails with UNKNOWN (`HandleGone`), and so does the delete of a season whose foreign key would have to search that index.

The properties:

- `IndexConsistent` (spec 3, 4.2 and 6): while `add_index` is in effect and its file exists in the current view, the index holds exactly the entries `season_ix_index` derives from that view's month rows. The index file outlives the session that maintained it.
- `ForeignKeyKept` (spec 4.3), an action property: a step of the session with the foreign key attached, at the same nesting depth, never turns a state in which every month names an existing season (`RefIntact`) into one in which some month names a missing season. A put is checked against the master table, and a cascade or nullify delete must clear every month that names the deleted season.
- `NoIdIssuedTwice` (spec 4.4): `sequence::id` never returns the same value twice.

## Module `Recordset`

`Recordset.tla` models the cursors of `recordset.cc` over the table `month` and its `season` and `days` indexes, in one transaction view.

Each item a cursor can return is a pair `<<secondary key, month>>`. The secondary key is 0 for table and join recordsets. The indexes are opened with `DB_DUPSORT`, and the table's comparator doubles as the duplicate comparator (`index.cc:84-98`). So the B-tree order is the lexicographic order `Before` on these pairs, and `Least` is where `DB_FIRST` or `DB_SET` lands.

The state:

- `row` holds the table content. Any content is allowed initially.
- Per recordset object in `RsIds`:
  - `type`, `ix` and `key` stand for `m_type`, the index and `m_key`;
  - `pos` is the cursor position and `isset` is `m_isset`;
  - `subs` is the joinlist of a join, and `jpos` is the join cursor's last month;
  - `joined` marks a recordset whose cursor a join constructor has moved.
- `got`, `exhausted`, `dirty` and `stable` are history for the properties; no guard reads them. They record what fetch returned since the last open or rewind, whether fetch returned false, whether a write happened since, and which items have stood in the recordset's filter all that time (`Restart` sets it to the filter, each write intersects it with the new one).

The actions:

| action | code |
|---|---|
| `NewTable`, `NewIndex`, `NewIndexKey` | the three cursor constructors; `DB->cursor` may fail (`CursorFails`) |
| `NewJoin(r, L)` | the join constructor (`recordset.cc:159-214`); see below |
| `Fetch` | `fetch`: `DB_FIRST`/`DB_NEXT`, `DB_SET`/`DB_NEXT_DUP`, the join cursor, and `false` for an unset join |
| `Rewind` | `rewind`: clears `m_isset`, throws on a join |
| `Close` | `~recordset` |
| `Write(m, d)` | an insert, update or remove of the same session, seen by the open cursors, which keep their positions |

How `NewJoin(r, L)` follows the constructor:

- It runs `DB_SET` on each keyed recordset of `L` in order, and sets the `m_isset` of those that were found.
- It stops with UNKNOWN at the first recordset without a key. The cursors it already moved stay moved.
- It then calls `DB->join`, which may fail (and does for an empty list).

Berkeley DB's rule for `DB->join` is that the cursors of the curslist are not used or moved until the join cursor is closed, and `recordset.cc:199` hands the join the recordsets' own cursors. `Untangled(r)` says that no open join lists `r`: fetch, rewind and a new joinlist require it, and `~recordset` refuses such a recordset as well. `ReuseJoined` says whether the client may fetch from a recordset after the join that moved its cursor is closed, before rewinding it (`FetchAllowed`). `MayWrite` enables writes.


All runs use `MC_Database.tla`. It adds symmetry over months and seasons. It also defines a VIEW that ignores `res` and `issued`, which no guard reads. The VIEW is used only where `issued` is not the property's subject.

| run | bounds | checks | result |
|---|---|---|---|
| `any` | 1 month, 1 season, depth 1, crashes | `TypeOK` | pass (230,055 states) |
| `stale` | 2 months, 2 seasons, depth 0, 1 id, crashes | `IndexConsistent` | violation: session 1 attaches the index and indexes m1; session 2 writes m2 without `add_index`; its own `add_index` then finds the index non-empty and does not rebuild it (`index.cc:112`) |
| `fk` | as `stale` | `ForeignKeyKept` | violation: months written in a session without the index are missing from it, and a later cascade delete, which finds the referencing months through the index, leaves them naming the deleted season (`index.cc:144`) |
| `seqrb` | depth 1, 2 ids, no crash | `NoIdIssuedTwice` | violation: an id taken in a rolled-back or failed nested transaction is issued again (`sequence.cc:146`) |
| `seqcrash` | depth 0, 2 ids, crashes | `NoIdIssuedTwice` | violation: ids taken before a crash are issued again (`database.cc:173`) |

Recordset runs use `MC_Recordset.tla`, which has symmetry over the recordset objects:

| run | bounds | checks | result |
|---|---|---|---|
| `rs_scan` | 2 months, 2 season keys, 1 days key, 3 recordsets, joinlists up to 2, no writes | `ScanExact` | pass |
| `rs_write` | as `rs_scan` with 2 recordsets, joinlists of 1, writes | `ScanAcrossWrites` | pass (454,213 states) |
| `rs_reuse` | as `rs_scan`, `ReuseJoined` | `ScanExact` | violation: after `recordset(tbl, list)` the source recordset's next fetch uses `DB_NEXT_DUP` from the `DB_SET` position (`recordset.cc:193`), so it skips its first record |

`ScanExact` says: while no write intervenes, the items fetch returned since the last open or rewind are the recordset's items, in cursor order, each once and none skipped. Once fetch has returned false, they are all of its items.

`ScanAcrossWrites` is about a cursor that stays open while the session writes: its history stays in strictly increasing cursor order, no item that has stood in its filter ever since the last open or rewind and lies before the last item returned was skipped, and once fetch returns false every such item was returned. Items inserted or moved behind the cursor are legitimately missed; items deleted after they were returned legitimately stay in the history. A rewind that did not clear `m_isset` breaks it, since the cursor would continue from a position taken before the writes.

For recordsets the bounds work like this:

- Three recordsets let a join over two keyed recordsets exist beside a third recordset of another type.
- Two months let a key have one or two duplicates. So both the skip and the false-at-once outcome of the join bug occur.
- One days key keeps the run under a minute while joins on two indexes still happen.

Why the Database bounds are enough:

- Two months and two seasons let a cascade or nullify touch one referring row and leave another.
- They let an update move a month between seasons.
- Depth 1 gives a nested transaction whose commit, abort and commit failure all act on a parent view (`any`, `seqrb`).
- Depth 0 in `stale` and `fk` keeps the two-session traces short; the hazard needs two sessions, not nesting.
- Crashes and reopens are unbounded, since they return to earlier states.

Fairness in `Database` and `Recordset`: none. Every step there is a call of the client program, and nothing must happen of its own accord.

## Module `TxnThreads`

`TxnThreads.tla` models threads sharing one `bdb::database`. Each transaction call is split into the steps it executes:

| action | code |
|---|---|
| `CallBegin`, `CallEnd(t, o)`, `CallWrite` | a client thread enters `begin_transaction`, `commit_transaction`/`rollback_transaction` or `table::insert`/`update`/`remove`; a transaction call constructs and locks its own `interprocess_mutex` (`database.cc:259-260`, `290-291`, `323-324`), which never waits |
| `TxnBegin` | `txn_begin(m_env, m_txns.top(), &txn, ...)`; on failure it throws (`database.cc:262-275`) |
| `Push` | `m_txns.push(txn)` (`database.cc:268`) |
| `SizeCheck` | `if (m_txns.size() == 1) throw NOT_FOUND` (`database.cc:293-297`) |
| `ReadTop`, `Pop` | `txn = m_txns.top(); m_txns.pop()` (`database.cc:299-300`) |
| `Resolve` | `txn->commit` (success, or failure, which aborts) or `txn->abort`; the handle is freed (`database.cc:302-308`) |
| `WriteTop`, `WritePut` | `m_db->put(m_db, m_database->m_txns.top(), ...)`: the top is read unlocked, then the engine runs the put (`table.cc:270`) |

Each `std::stack` call and each engine call is one atomic step. Since each call's mutex lives on its own stack frame, taking it excludes no other call; it is part of the entry step. `Return` ends a call, normally or by throwing.

The variable `misuse` records calls whose behaviour is undefined:

- `txn_begin`, `commit` or `abort` on a handle that is not an active transaction;
- a put in a transaction that has an active child;
- `top()` or `pop()` on an empty stack.

`top()` on an empty stack returns any handle or garbage. `MayWrite` adds the table writes.

| run | bounds | checks | result |
|---|---|---|---|
| `tt_seq` | 1 thread, 4 handles, writes | `NestingIntact`, `NoMisuse` | pass (4,434 states): the calls are sound when they do not overlap |
| `tt_race` | 2 threads, 4 handles, no writes, thread symmetry | `NestingIntact` | violation: two begins read the same top and push two children of it (`database.cc:259`) |
| `tt_write` | 2 threads, 4 handles, writes, thread symmetry | `NoMisuse` | violation: a write reads top 1 while another thread's begin has created child 2 but not pushed it, and puts into 1 while 1 has an active child (`table.cc:270`) |

`NestingIntact` (spec 5) says that `m_txns` holds the top-level transaction at the bottom and above it active transactions, each the child of the one below. `NoMisuse` says that no call is undefined. Both hold for one thread and fail for two under the code's lock, so what breaks them is the missing mutual exclusion; the design that spec section 5 describes, one mutex shared by the calls, is not the code and is not modelled.

Two threads make every interleaving of two calls possible, and four handles let a nested begin follow a race. No fairness is assumed: both properties are safety properties.

## Proofs

`DatabaseProofs.tla` proves `TypeCorrect`, that `Spec => []TypeOK`, for all values of the constants. The only assumption is `ConstantsAssumption`: the bounds are naturals and the marker values are distinct from the keys. `TypeOK` is inductive as it stands. It includes `envOpen <=> Len(stack) # 0` and the depth bound, which every stack step needs.

The proof has one step per action, resting on these lemmas:

- `PutRowType` and `DeleteMasterType`: the engine effects yield a Store;
- `TopType`, `SetTopType`, `PopType`, `PushType` and `MergeType`: the stack operators;
- `FailType`, `SucceedType` and `InSessionType`: the shapes of steps shared by many actions.

`RecordsetProofs.tla` proves `RecordsetTypeCorrect`, that `Spec => []TypeOK` for the Recordset module. The only assumption is `RecordsetAssumption`: keys and months are positive naturals. `TypeOK` is inductive. What the proof needs is that `Least` picks an element of the set it is given. CHOOSE guarantees this only if a least element exists, and `LeastIn` derives that from `WFMin` and the well-foundedness of the lexicographic order on `Nat \X Nat` (`WFLexPairOrdering`). `KeyedPrefixType` uses the same argument on `<` to show that the join constructor's loop stops inside the list.

`ScanProofs.tla` proves three theorems for every table content, every number of recordsets and every joinlist length, with writes anywhere:

- `ScanInvKept`: `Spec => []ScanInv`;
- `ScanExactKept`: `Spec => []ScanExact`;
- `ScanAcrossWritesKept`: `Spec => []ScanAcrossWrites`.

The hypothesis is `~ReuseJoined`: the caller does not fetch from a recordset whose cursor a join has moved until it has rewound that recordset, as `test.cc` does. Without it the `rs_reuse` run shows that `ScanExact` fails, so it is needed. The Berkeley DB rule `Untangled` is part of the model, not a hypothesis.

Neither property is inductive. The inductive invariant `ScanInv` says of every open recordset:

- `ScanOK`: its history is sorted (`Sorted`), skips no item of `stable` (`NoSkip`), holds all of `stable` once fetch returned false; `stable` lies in the filter, and while no write intervened it is the filter and the history lies in it.
- `CursorOK`: take a table or index recordset whose cursor no join has moved. Its `m_isset` is true exactly when it has returned an item, and its cursor sits on the last item returned.
- `JoinOK`: a join's last month is the month of the last item returned, or 0 before the first; every item it returned is a bare month; a join whose constructor did not find every key has returned nothing and stands for nothing.
- `JoinSubs`: every recordset in an open join's list is an open keyed recordset.

Both properties follow from `ScanInv` without induction. TLC checked `ScanInv` as an invariant of the `rs_write` configuration (454,213 states). `JoinSubs` is what keeps a join's items fixed: `~recordset` refuses a recordset that an open join lists, and a constructor only takes a closed id. So no step but a write changes the items of a recordset (`FilterSame`). A write changes no cursor and no history and shrinks `stable` (`WriteScan`).

Fetch is the hard step (`FetchScan`). Every item of the filter that the cursor call skips is the last item returned or comes before it. This follows from `CursorOK`, or `JoinOK` for joins, and from `Before` being a strict total order (`BeforeOrder`). The item returned is the least one found (`LeastIn`). `AppendScan` and `CompleteScan` then give the history after a fetch that returns true and after one that returns false. `KeyedPrefixFull` says that a built join lists only keyed recordsets. It rests on `FirstUnkeyed`, the well-founded argument that `KeyedPrefixType` also uses.

What stays with TLC alone:

- `IndexConsistent` and `ForeignKeyKept` hold only for a session that attaches the index before any session writes month; the `stale` and `fk` runs show the code breaks them otherwise, so there is nothing to prove for the code as it stands.
- `NoIdIssuedTwice` is what the `seqrb` and `seqcrash` runs show violated by the code.
- `NestingIntact` and `NoMisuse` fail under the code's per-call mutex (`tt_race`, `tt_write`).
- The violation run `rs_reuse` shows what happens outside the hypothesis `~ReuseJoined`.
- No property here is a liveness property; the provers would not handle fairness and `ENABLED` in any case.

## Not modelled (yet)

- Recordset cursors across transaction boundaries: the Recordset module has one transaction, and a cursor left open across `commit_transaction` or `rollback_transaction` is not modelled.
- Using a source recordset while its join is open (fetch, rewind, a second join, delete): the model forbids it, as Berkeley DB's join rule does and the test program follows.
- The unique `ordnum` index, and the `days` index in the Database module (Recordset has it).
- `~database` racing with transaction calls: its loop over `m_txns` under its own local mutex (`database.cc:147-160`) is not in `TxnThreads`.
- The engine resolving the unresolved children of a resolved parent, and the reuse of freed handle ids: `TxnThreads` records such calls as misuse and stops tracking them.
- The exists/put split of `table::update` across threads (`table.cc:310-322`): rows are not part of `TxnThreads`.
- `bdb.cc` helpers: pure data conversion and allocation.
