--------------------------- MODULE DatabaseProofs ---------------------------
(***************************************************************************)
(* Proofs about Database for every value of its constants.                 *)
(***************************************************************************)
EXTENDS Database, SequenceTheorems, TLAPS

-----------------------------------------------------------------------------
(* Lemmas on the operators the store is built from.                        *)

\* Replacing two fields of a record by members of their types.
LEMMA RecordUpdate ==
    ASSUME NEW A, NEW B, NEW C, NEW D,
           NEW s \in [files : A, row : B, ix : C, seq : D], NEW r \in B, NEW x \in C
    PROVE  [s EXCEPT !.row = r, !.ix = x] \in [files : A, row : B, ix : C, seq : D]
OBVIOUS

\* Replacing the rows and the index of a Store by well-typed ones.
LEMMA StoreUpdate ==
    ASSUME NEW s \in Store, NEW r \in Rows, NEW x \in SUBSET (Seasons \X Months)
    PROVE  [s EXCEPT !.row = r, !.ix = x] \in Store
BY RecordUpdate DEF Store

\* A put or a delete of one row, with its index maintenance, yields a Store.
LEMMA PutRowType ==
    ASSUME NEW s \in Store, NEW t \in Tables, NEW k \in KeyOf(t),
           NEW v \in DataOf(t) \cup {Absent}
    PROVE  PutRow(s, t, k, v) \in Store
<1> DEFINE ix2 == IF t = "month" /\ ixOpen
                  THEN (s.ix \ {<<s.row[t][k], k>>}) \cup (IF v \in Seasons THEN {<<v, k>>} ELSE {})
                  ELSE s.ix
           row2 == [s.row EXCEPT ![t][k] = v]
<1>1. PutRow(s, t, k, v) = [s EXCEPT !.row = row2, !.ix = ix2]
      BY DEF PutRow
<1>2. ix2 \in SUBSET (Seasons \X Months)
  <2>1. CASE t = "month"
        BY <2>1 DEF Store, KeyOf
  <2>2. CASE t # "month"
        BY <2>2 DEF Store
  <2>3. QED BY <2>1, <2>2
<1>3. row2 \in Rows
  <2>1. CASE t = "month"
    <3>1. row2 = [s.row EXCEPT !.month = [s.row.month EXCEPT ![k] = v]]
          BY <2>1
    <3>2. k \in Months /\ v \in MonthData \cup {Absent}
          BY <2>1 DEF KeyOf, DataOf
    <3>3. [s.row.month EXCEPT ![k] = v] \in [Months -> MonthData \cup {Absent}]
          BY <3>2 DEF Store, Rows
    <3>4. QED BY <3>1, <3>3 DEF Store, Rows
  <2>2. CASE t = "season"
    <3>1. row2 = [s.row EXCEPT !.season = [s.row.season EXCEPT ![k] = v]]
          BY <2>2
    <3>2. k \in Seasons /\ v \in SeasonInfo \cup {Absent}
          BY <2>2 DEF KeyOf, DataOf
    <3>3. [s.row.season EXCEPT ![k] = v] \in [Seasons -> SeasonInfo \cup {Absent}]
          BY <3>2 DEF Store, Rows
    <3>4. QED BY <3>1, <3>3 DEF Store, Rows
  <2>3. QED BY <2>1, <2>2 DEF Tables
<1>4. [s EXCEPT !.row = row2, !.ix = ix2] \in Store
      BY <1>2, <1>3, StoreUpdate
<1>5. QED BY <1>1, <1>4

\* Deleting a master row, with its cascade or nullify effect, yields a Store.
LEMMA DeleteMasterType ==
    ASSUME NEW s \in Store, NEW key \in Seasons
    PROVE  DeleteMaster(s, key) \in Store
BY ConstantsAssumption DEF DeleteMaster, Referenced, Store, Rows, MonthData

\* The empty store of a new environment is a Store.
LEMMA EmptyStoreType == EmptyStore \in Store
BY ConstantsAssumption DEF EmptyStore, Store, Rows, MonthData

\* The stack operators keep a sequence of Stores of the expected length.
LEMMA TopType ==
    ASSUME stack \in Seq(Store), Len(stack) # 0
    PROVE  Top \in Store
BY DEF Top

LEMMA SetTopType ==
    ASSUME stack \in Seq(Store), Len(stack) # 0, NEW s \in Store
    PROVE  SetTop(s) \in Seq(Store) /\ Len(SetTop(s)) = Len(stack)
BY DEF SetTop

LEMMA PopType ==
    ASSUME stack \in Seq(Store), Len(stack) # 0
    PROVE  Pop \in Seq(Store) /\ Len(Pop) = Len(stack) - 1
<1>1. Len(stack) - 1 \in Nat /\ \A i \in 1..Len(stack) - 1 : stack[i] \in Store
      BY LenProperties
<1>2. Pop = [i \in 1..Len(stack) - 1 |-> stack[i]]
      BY DEF Pop
<1>3. [i \in 1..Len(stack) - 1 |-> stack[i]] \in [1..Len(stack) - 1 -> Store]
      BY <1>1
<1>4. QED BY <1>1, <1>2, <1>3

LEMMA PushType ==
    ASSUME stack \in Seq(Store), Len(stack) # 0
    PROVE  Append(stack, Top) \in Seq(Store) /\ Len(Append(stack, Top)) = Len(stack) + 1
BY TopType

LEMMA MergeType ==
    ASSUME stack \in Seq(Store), Len(stack) > 1
    PROVE  /\ [Pop EXCEPT ![Len(stack) - 1] = Top] \in Seq(Store)
           /\ Len([Pop EXCEPT ![Len(stack) - 1] = Top]) = Len(stack) - 1
<1>1. Top \in Store /\ Pop \in Seq(Store) /\ Len(Pop) = Len(stack) - 1
      BY TopType, PopType
<1>2. QED BY <1>1

\* A failing call changes only the result.
FailFrame == /\ res' \in Results
             /\ UNCHANGED <<envExists, envOpen, disk, stack, session, issued>>

LEMMA FailType == TypeOK /\ FailFrame => TypeOK'
BY DEF FailFrame, session, TypeOK

\* A step inside an open session keeps the environment and the disk, and
\* leaves between 1 and MaxDepth + 1 well-formed views on the stack.
LEMMA InSessionType ==
    ASSUME TypeOK, envOpen,
           stack' \in Seq(Store), Len(stack') \in 1..MaxDepth + 1,
           tables' \subseteq Tables, ixOpen' \in BOOLEAN, fk' \in FkModes,
           seqOpen' \in BOOLEAN, res' \in Results, issued' \in [1..MaxId -> 0..2],
           UNCHANGED <<envExists, envOpen, disk>>
    PROVE  TypeOK'
<1>1. envOpen' <=> Len(stack') # 0
      BY ConstantsAssumption
<1>2. Len(stack') <= MaxDepth + 1
      BY ConstantsAssumption
<1>3. QED BY <1>1, <1>2, Zenon DEF TypeOK

\* A successful write replaces the view of the innermost transaction.
LEMMA SucceedType ==
    ASSUME TypeOK, envOpen, NEW s \in Store, Succeed(s)
    PROVE  TypeOK'
<1>1. stack' \in Seq(Store) /\ Len(stack') \in 1..MaxDepth + 1
      BY SetTopType DEF Succeed, TypeOK
<1>2. /\ tables' \subseteq Tables /\ ixOpen' \in BOOLEAN /\ fk' \in FkModes
      /\ seqOpen' \in BOOLEAN /\ res' \in Results /\ issued' \in [1..MaxId -> 0..2]
      /\ UNCHANGED <<envExists, envOpen, disk>>
      BY Zenon DEF Succeed, session, TypeOK, Results
<1>3. QED BY <1>1, <1>2, InSessionType

-----------------------------------------------------------------------------
(* Type correctness.                                                       *)

\* Every reachable state has the types TypeOK gives its variables: the
\* transaction stack holds between 0 and MaxDepth + 1 well-formed views
\* and is empty exactly when no bdb::database is alive.
THEOREM TypeCorrect == Spec => []TypeOK
<1>1. Init => TypeOK
  <2> SUFFICES ASSUME Init PROVE TypeOK
      OBVIOUS
  <2>1. disk \in Store
        BY EmptyStoreType DEF Init
  <2>2. issued \in [1..MaxId -> 0..2]
        BY DEF Init
  <2>3. stack \in Seq(Store) /\ Len(stack) = 0 /\ Len(stack) <= MaxDepth + 1
        BY ConstantsAssumption DEF Init
  <2>4. envOpen <=> Len(stack) # 0
        BY <2>3 DEF Init
  <2>5. /\ envExists \in BOOLEAN /\ envOpen \in BOOLEAN /\ tables \subseteq Tables
        /\ ixOpen \in BOOLEAN /\ fk \in FkModes /\ seqOpen \in BOOLEAN /\ res \in Results
        BY Zenon DEF Init, FkModes, Results
  <2>6. QED BY <2>1, <2>2, <2>3, <2>4, <2>5 DEF TypeOK
<1>2. TypeOK /\ [Next]_vars => TypeOK'
  <2> SUFFICES ASSUME TypeOK, [Next]_vars PROVE TypeOK'
      OBVIOUS
  <2>0. envOpen => Len(stack) # 0 /\ Top \in Store
        BY TopType DEF TypeOK
  <2>1. ASSUME NEW create \in BOOLEAN, Open(create) PROVE TypeOK'
    <3>1. CASE Fail("notfound") \/ Fail("exists")
          BY <3>1, FailType DEF Fail, FailFrame, Results, Errors
    <3>2. CASE /\ envExists' = TRUE /\ envOpen' = TRUE
               /\ stack' = <<[disk EXCEPT !.files = @ \cup {"seqdb"}]>>
               /\ res' = "ok" /\ UNCHANGED <<disk, session, issued>>
      <4>1. [disk EXCEPT !.files = @ \cup {"seqdb"}] \in Store
            BY DEF TypeOK, Store, Files
      <4>2. stack' \in Seq(Store) /\ Len(stack') # 0 /\ Len(stack') <= MaxDepth + 1
            BY <3>2, <4>1, ConstantsAssumption
      <4>3. QED BY <3>2, <4>2, Zenon DEF TypeOK, session, Results
    <3>3. QED BY <2>1, <3>1, <3>2, Zenon DEF Open
  <2>2. CASE Close \/ Crash
    <3>1. disk' \in Store
          BY <2>2 DEF Close, Crash, TypeOK
    <3>2. stack' = <<>> /\ envOpen' = FALSE /\ res' \in Results
          BY <2>2, Zenon DEF Close, Crash, EndSession, Results
    <3>3. stack' \in Seq(Store) /\ Len(stack') = 0 /\ Len(stack') <= MaxDepth + 1
          BY <3>2, ConstantsAssumption
    <3>4. QED BY <2>2, <3>1, <3>2, <3>3, Zenon DEF Close, Crash, EndSession, TypeOK, FkModes
  <2>3. ASSUME NEW t \in Tables, NEW create \in BOOLEAN, AddTable(t, create)
        PROVE TypeOK'
    <3>1. CASE Fail("exists") \/ Fail("notfound")
          BY <3>1, FailType DEF Fail, FailFrame, Results, Errors
    <3>2. CASE /\ stack' = SetTop([Top EXCEPT !.files = @ \cup {t}])
               /\ tables' = tables \cup {t}
               /\ res' = "ok"
               /\ UNCHANGED <<envExists, envOpen, disk, ixOpen, fk, seqOpen, issued>>
      <4>1. envOpen
            BY <2>3 DEF AddTable
      <4>2. [Top EXCEPT !.files = @ \cup {t}] \in Store
            BY <2>0, <4>1 DEF Store, Files
      <4>3. stack' \in Seq(Store) /\ Len(stack') \in 1..MaxDepth + 1
            BY <3>2, <4>1, <4>2, SetTopType DEF TypeOK
      <4>4. QED BY <3>2, <4>1, <4>3, InSessionType DEF TypeOK, Results
    <3>3. QED BY <2>3, <3>1, <3>2, Zenon DEF AddTable
  <2>4. CASE BeginTransaction
    <3>1. CASE Fail("unknown")
          BY <3>1, FailType DEF Fail, FailFrame, Results, Errors
    <3>2. CASE /\ Len(stack) <= MaxDepth
               /\ stack' = Append(stack, Top)
               /\ res' = "ok"
               /\ UNCHANGED <<envExists, envOpen, disk, session, issued>>
      <4>1. envOpen
            BY <2>4 DEF BeginTransaction
      <4>2. stack' \in Seq(Store) /\ Len(stack') \in 1..MaxDepth + 1
            BY <2>0, <3>2, <4>1, PushType, ConstantsAssumption DEF TypeOK
      <4>3. QED BY <3>2, <4>1, <4>2, InSessionType, Zenon DEF TypeOK, session, Results
    <3>3. QED BY <2>4, <3>1, <3>2, Zenon DEF BeginTransaction
  <2>5. CASE CommitTransaction \/ RollbackTransaction
    <3>1. CASE Fail("notfound")
          BY <3>1, FailType DEF Fail, FailFrame, Results, Errors
    <3>2. CASE /\ Len(stack) > 1
               /\ stack' \in {[Pop EXCEPT ![Len(stack) - 1] = Top], Pop}
               /\ res' \in {"ok", "unknown"}
               /\ UNCHANGED <<envExists, envOpen, disk, session, issued>>
      <4>1. envOpen
            BY <2>5 DEF CommitTransaction, RollbackTransaction
      <4>2. stack' \in Seq(Store) /\ Len(stack') \in 1..MaxDepth + 1
        <5>1. CASE stack' = [Pop EXCEPT ![Len(stack) - 1] = Top]
          <6>1. stack' \in Seq(Store) /\ Len(stack') = Len(stack) - 1
                BY <3>2, <5>1, MergeType DEF TypeOK
          <6>2. QED BY <3>2, <6>1, ConstantsAssumption DEF TypeOK
        <5>2. CASE stack' = Pop
          <6>1. stack' \in Seq(Store) /\ Len(stack') = Len(stack) - 1
                BY <3>2, <5>2, PopType DEF TypeOK
          <6>2. QED BY <3>2, <6>1, ConstantsAssumption DEF TypeOK
        <5>3. QED BY <3>2, <5>1, <5>2
      <4>3. QED BY <3>2, <4>1, <4>2, InSessionType, Zenon DEF TypeOK, session, Results, Errors
    <3>3. QED BY <2>5, <3>1, <3>2 DEF CommitTransaction, RollbackTransaction
  <2>6. CASE AddIndex
    <3>1. envOpen
          BY <2>6 DEF AddIndex
    <3>2. SeasonIndex(Top.row) \subseteq Seasons \X Months
          BY <2>0, <3>1 DEF SeasonIndex, Store, Rows
    <3>3. [Top EXCEPT !.files = @ \cup {"seasonix"},
                      !.ix = IF @ = {} THEN SeasonIndex(Top.row) ELSE @] \in Store
          BY <2>0, <3>1, <3>2, Zenon DEF Store, Files
    <3>4. stack' \in Seq(Store) /\ Len(stack') \in 1..MaxDepth + 1
          BY <2>6, <3>1, <3>3, SetTopType DEF AddIndex, TypeOK
    <3>5. QED BY <2>6, <3>1, <3>4, InSessionType, Zenon DEF AddIndex, TypeOK, Results
  <2>7. ASSUME NEW mode \in FkModes \ {"none"}, AddForeign(mode) PROVE TypeOK'
        BY <2>7, Zenon DEF AddForeign, TypeOK, Results
  <2>8. ASSUME NEW t \in Tables, HandleGone(t) PROVE TypeOK'
        BY <2>8, FailType DEF HandleGone, Fail, FailFrame, Results, Errors
  <2>9. ASSUME NEW t \in Tables, NEW k \in KeyOf(t), NEW v \in DataOf(t),
               Insert(t, k, v) \/ Update(t, k, v)
        PROVE TypeOK'
    <3>1. envOpen
          BY <2>9 DEF Insert, Update, Writable
    <3>2. PutRow(Top, t, k, v) \in Store
          BY <2>0, <3>1, PutRowType
    <3>3. CASE Fail("exists") \/ Fail("notfound") \/ Fail("foreign")
          BY <3>3, FailType DEF Fail, FailFrame, Results, Errors
    <3>4. CASE Succeed(PutRow(Top, t, k, v))
          BY <3>1, <3>2, <3>4, SucceedType
    <3>5. QED BY <2>9, <3>3, <3>4 DEF Insert, Update
  <2>10. ASSUME NEW t \in Tables, NEW k \in KeyOf(t), Remove(t, k) PROVE TypeOK'
    <3>1. envOpen
          BY <2>10 DEF Remove, Writable
    <3>2. CASE Fail("notfound") \/ Fail("foreign") \/ Fail("unknown")
          BY <3>2, FailType DEF Fail, FailFrame, Results, Errors
    <3>3. CASE t = "season" /\ Succeed(DeleteMaster(Top, k))
      <4>1. DeleteMaster(Top, k) \in Store
            BY <2>0, <3>1, <3>3, DeleteMasterType DEF KeyOf
      <4>2. QED BY <3>1, <3>3, <4>1, SucceedType
    <3>4. CASE t = "month" /\ Succeed(PutRow(Top, t, k, Absent))
      <4>1. PutRow(Top, t, k, Absent) \in Store
            BY <2>0, <3>1, PutRowType
      <4>2. QED BY <3>1, <3>4, <4>1, SucceedType
    <3>5. QED BY <2>10, <3>2, <3>3, <3>4 DEF Remove
  <2>11. ASSUME NEW create \in BOOLEAN, AddSequence(create) PROVE TypeOK'
    <3>1. CASE Fail("exists") \/ Fail("notfound")
          BY <3>1, FailType DEF Fail, FailFrame, Results, Errors
    <3>2. CASE /\ stack' = SetTop([Top EXCEPT !.seq = IF create THEN 1 ELSE @])
               /\ seqOpen' = TRUE
               /\ res' = "ok"
               /\ UNCHANGED <<envExists, envOpen, disk, tables, ixOpen, fk, issued>>
      <4>1. envOpen
            BY <2>11 DEF AddSequence
      <4>2. [Top EXCEPT !.seq = IF create THEN 1 ELSE @] \in Store
            BY <2>0, <4>1, ConstantsAssumption DEF Store
      <4>3. stack' \in Seq(Store) /\ Len(stack') \in 1..MaxDepth + 1
            BY <3>2, <4>1, <4>2, SetTopType DEF TypeOK
      <4>4. QED BY <3>2, <4>1, <4>3, InSessionType, Zenon DEF TypeOK, Results
    <3>3. QED BY <2>11, <3>1, <3>2, Zenon DEF AddSequence
  <2>12. CASE SequenceId
    <3>1. CASE Fail("unknown")
          BY <3>1, FailType DEF Fail, FailFrame, Results, Errors
    <3>2. CASE /\ Top.seq \in 1..MaxId
               /\ stack' = SetTop([Top EXCEPT !.seq = @ + 1])
               /\ res' = "ok"
               /\ issued' = [issued EXCEPT ![Top.seq] = IF @ = 2 THEN 2 ELSE @ + 1]
               /\ UNCHANGED <<envExists, envOpen, disk, session>>
      <4>1. envOpen
            BY <2>12 DEF SequenceId
      <4>2. [Top EXCEPT !.seq = @ + 1] \in Store
            BY <2>0, <3>2, <4>1, ConstantsAssumption DEF Store
      <4>3. stack' \in Seq(Store) /\ Len(stack') \in 1..MaxDepth + 1
            BY <3>2, <4>1, <4>2, SetTopType DEF TypeOK
      <4>4. issued' \in [1..MaxId -> 0..2]
            BY <3>2 DEF TypeOK
      <4>5. QED BY <3>2, <4>1, <4>3, <4>4, InSessionType, Zenon DEF TypeOK, session, Results
    <3>3. QED BY <2>12, <3>1, <3>2, Zenon DEF SequenceId
  <2>13. CASE UNCHANGED vars
        BY <2>13, Zenon DEF vars, TypeOK
  <2>14. QED
        BY <2>1, <2>2, <2>3, <2>4, <2>5, <2>6, <2>7, <2>8, <2>9, <2>10,
           <2>11, <2>12, <2>13 DEF Next
<1>3. QED BY <1>1, <1>2, PTL DEF Spec

=============================================================================
