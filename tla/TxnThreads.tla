----------------------------- MODULE TxnThreads -----------------------------
(***************************************************************************)
(* Threads sharing one bdb::database (database.cc): begin_transaction,     *)
(* commit_transaction and rollback_transaction as the steps they execute   *)
(* on the shared std::stack m_txns and on the engine, and the record       *)
(* operations of table (table.cc), which pass m_txns.top() to the engine   *)
(* without any lock.                                                       *)
(*                                                                         *)
(* Each transaction call constructs `interprocess_mutex mutex` on its own  *)
(* stack frame and locks it with a scoped_lock: a mutex no other call can  *)
(* see, so taking it never waits and excludes nothing; it is part of the   *)
(* call's entry step.  Each std::stack call is one atomic step; the engine *)
(* calls txn_begin, commit, abort and put are atomic.  `misuse` records    *)
(* engine and stack calls whose behaviour is undefined: a handle that is   *)
(* not an active transaction, an operation on a parent while it has an     *)
(* active child, top() or pop() on an empty stack.                         *)
(***************************************************************************)
EXTENDS Naturals, Sequences, FiniteSets

CONSTANTS
    Threads,        \* threads calling the database
    MaxTxns,        \* DB_TXN handles the engine can hand out
    MayWrite        \* threads also call table::insert/update/remove

ASSUME TxnThreadsAssumption ==
    /\ MaxTxns \in Nat \ {0}
    /\ MayWrite \in BOOLEAN

Ids == 1..MaxTxns
Status == {"free", "active", "committed", "aborted"}
Labels == {"idle", "b_begin", "b_push",
           "e_size", "e_top", "e_pop", "e_end", "w_top", "w_put"}
Misuses == {"begin", "commit", "abort", "put", "top", "pop"}

VARIABLES
    stack,      \* m_txns, bottom first
    status,     \* engine state of each DB_TXN handle
    parent,     \* the parent handle passed to txn_begin
    pc,         \* where each thread is
    op,         \* "commit" or "rollback" for a thread in the shared steps
    tmp,        \* the thread's local DB_TXN * (txn)
    misuse      \* undefined calls made so far

vars == <<stack, status, parent, pc, op, tmp, misuse>>

TypeOK ==
    /\ stack \in Seq(Ids)
    /\ status \in [Ids -> Status]
    /\ parent \in [Ids -> {0} \cup Ids]
    /\ pc \in [Threads -> Labels]
    /\ op \in [Threads -> {"commit", "rollback"}]
    /\ tmp \in [Threads -> {0} \cup Ids]
    /\ misuse \in SUBSET Misuses

\* The constructor has begun the top-level transaction, handle 1.
Init ==
    /\ stack = <<1>>
    /\ status = [n \in Ids |-> IF n = 1 THEN "active" ELSE "free"]
    /\ parent = [n \in Ids |-> 0]
    /\ pc = [t \in Threads |-> "idle"]
    /\ op = [t \in Threads |-> "commit"]
    /\ tmp = [t \in Threads |-> 0]
    /\ misuse = {}

-----------------------------------------------------------------------------
(* Helpers                                                                 *)

\* What m_txns.top() returns: the last handle, or garbage on an empty stack.
TopRead == IF stack # <<>> THEN {stack[Len(stack)]} ELSE {0} \cup Ids

Active(n) == n \in Ids /\ status[n] = "active"

HasActiveChild(n) == \E c \in Ids : parent[c] = n /\ status[c] = "active"

\* Records the undefined call kind k when bad holds.
Note(bad, k) == misuse' = IF bad THEN misuse \cup {k} ELSE misuse

\* A call returns, normally or by throwing.
Return(t) ==
    /\ pc' = [pc EXCEPT ![t] = "idle"]
    /\ tmp' = [tmp EXCEPT ![t] = 0]

-----------------------------------------------------------------------------
(* The client calls an operation; a transaction call locks its own mutex   *)
(* (scoped_lock <interprocess_mutex> lock(mutex)), which never waits.      *)

CallBegin(t) ==
    /\ pc[t] = "idle"
    /\ pc' = [pc EXCEPT ![t] = "b_begin"]
    /\ UNCHANGED <<stack, status, parent, op, tmp, misuse>>

CallEnd(t, o) ==
    /\ pc[t] = "idle"
    /\ pc' = [pc EXCEPT ![t] = "e_size"]
    /\ op' = [op EXCEPT ![t] = o]
    /\ UNCHANGED <<stack, status, parent, tmp, misuse>>

\* table::insert, update or remove: m_db->put/del(m_db, m_txns.top(), ...).
CallWrite(t) ==
    /\ MayWrite
    /\ pc[t] = "idle"
    /\ pc' = [pc EXCEPT ![t] = "w_top"]
    /\ UNCHANGED <<stack, status, parent, op, tmp, misuse>>

-----------------------------------------------------------------------------
(* begin_transaction (database.cc:255-278)                                 *)

\* Mutant: txn_begin with a NULL parent, a top-level transaction.
TxnBeginNoParent(t) ==
    /\ pc[t] = "b_begin"
    /\ \E p \in TopRead :
         /\ Note(~Active(p), "begin")
         /\ \/ \E n \in Ids :
                 /\ status[n] = "free"
                 /\ status' = [status EXCEPT ![n] = "active"]
                 /\ parent' = [parent EXCEPT ![n] = 0]
                 /\ tmp' = [tmp EXCEPT ![t] = n]
                 /\ pc' = [pc EXCEPT ![t] = "b_push"]
            \/ /\ Return(t)
               /\ UNCHANGED <<status, parent>>
    /\ UNCHANGED <<stack, op>>

\* m_env->txn_begin(m_env, m_txns.top(), &txn, ...): a fresh child of the
\* handle read from the top, or an error (also when no handle is left),
\* which throws UNKNOWN.
TxnBegin(t) ==
    /\ pc[t] = "b_begin"
    /\ \E p \in TopRead :
         /\ Note(~Active(p), "begin")
         /\ \/ \E n \in Ids :
                 /\ status[n] = "free"
                 /\ status' = [status EXCEPT ![n] = "active"]
                 /\ parent' = [parent EXCEPT ![n] = p]
                 /\ tmp' = [tmp EXCEPT ![t] = n]
                 /\ pc' = [pc EXCEPT ![t] = "b_push"]
            \/ /\ Return(t)
               /\ UNCHANGED <<status, parent>>
    /\ UNCHANGED <<stack, op>>

\* m_txns.push(txn)
Push(t) ==
    /\ pc[t] = "b_push"
    /\ stack' = Append(stack, tmp[t])
    /\ Return(t)
    /\ UNCHANGED <<status, parent, op, misuse>>

-----------------------------------------------------------------------------
(* commit_transaction (database.cc:286-311) and rollback_transaction       *)
(* (database.cc:319-344) share their steps.                                *)

\* Mutant: the guard tests for an empty stack instead of the top level.
SizeCheckZero(t) ==
    /\ pc[t] = "e_size"
    /\ \/ /\ Len(stack) = 0
          /\ Return(t)
       \/ /\ Len(stack) # 0
          /\ pc' = [pc EXCEPT ![t] = "e_top"]
          /\ UNCHANGED tmp
    /\ UNCHANGED <<stack, status, parent, op, misuse>>

\* if (m_txns.size() == 1) throw NOT_FOUND
SizeCheck(t) ==
    /\ pc[t] = "e_size"
    /\ \/ /\ Len(stack) = 1
          /\ Return(t)
       \/ /\ Len(stack) # 1
          /\ pc' = [pc EXCEPT ![t] = "e_top"]
          /\ UNCHANGED tmp
    /\ UNCHANGED <<stack, status, parent, op, misuse>>

\* DB_TXN * txn = m_txns.top()
ReadTop(t) ==
    /\ pc[t] = "e_top"
    /\ \E n \in TopRead : tmp' = [tmp EXCEPT ![t] = n]
    /\ Note(stack = <<>>, "top")
    /\ pc' = [pc EXCEPT ![t] = "e_pop"]
    /\ UNCHANGED <<stack, status, parent, op>>

\* m_txns.pop()
Pop(t) ==
    /\ pc[t] = "e_pop"
    /\ stack' = IF stack = <<>> THEN stack ELSE SubSeq(stack, 1, Len(stack) - 1)
    /\ Note(stack = <<>>, "pop")
    /\ pc' = [pc EXCEPT ![t] = "e_end"]
    /\ UNCHANGED <<status, parent, op, tmp>>

\* txn->commit(txn, DB_TXN_SYNC) or txn->abort(txn); a failed commit
\* aborts.  Either way the handle is freed and the call returns.
Resolve(t) ==
    /\ pc[t] = "e_end"
    /\ LET n == tmp[t]
           k == IF op[t] = "commit" THEN "commit" ELSE "abort"
       IN /\ Note(~Active(n), k)
          /\ \E out \in IF op[t] = "commit" THEN {"committed", "aborted"} ELSE {"aborted"} :
               status' = IF Active(n) THEN [status EXCEPT ![n] = out] ELSE status
    /\ Return(t)
    /\ UNCHANGED <<stack, parent, op>>

-----------------------------------------------------------------------------
(* Record operations of table (table.cc:225-339)                          *)

\* The argument m_database->m_txns.top() is read ...
WriteTop(t) ==
    /\ pc[t] = "w_top"
    /\ \E n \in TopRead : tmp' = [tmp EXCEPT ![t] = n]
    /\ Note(stack = <<>>, "top")
    /\ pc' = [pc EXCEPT ![t] = "w_put"]
    /\ UNCHANGED <<stack, status, parent, op>>

\* ... and the engine runs the put or del in that transaction.
WritePut(t) ==
    /\ pc[t] = "w_put"
    /\ Note(~Active(tmp[t]) \/ HasActiveChild(tmp[t]), "put")
    /\ Return(t)
    /\ UNCHANGED <<stack, status, parent, op>>

-----------------------------------------------------------------------------

Next ==
    \E t \in Threads :
        \/ CallBegin(t)
        \/ \E o \in {"commit", "rollback"} : CallEnd(t, o)
        \/ CallWrite(t)
        \/ TxnBegin(t) \/ Push(t)
        \/ SizeCheck(t) \/ ReadTop(t) \/ Pop(t) \/ Resolve(t)
        \/ WriteTop(t) \/ WritePut(t)

Spec == Init /\ [][Next]_vars

-----------------------------------------------------------------------------
(* Properties                                                              *)

\* Nesting order (spec section 5: the stack mutation is serialized "to
\* avoid two threads popping/pushing concurrently and corrupting the
\* nesting order"): m_txns holds the top-level transaction at the bottom
\* and above it active transactions, each the child of the one below, so
\* that m_txns.top() is the innermost transaction and a commit merges it
\* into the transaction the caller sees next.
NestingIntact ==
    /\ stack # <<>>
    /\ stack[1] = 1
    /\ \A i \in 1..Len(stack) : Active(stack[i])
    /\ \A i \in 2..Len(stack) : parent[stack[i]] = stack[i - 1]

\* No undefined call: every handle that begin_transaction, commit,
\* rollback and the table operations give the engine is an active
\* transaction without an active child, and top() and pop() never see an
\* empty stack (spec section 5: the lock protects the stack; record
\* operations rely on the engine's locking).
NoMisuse == misuse = {}

=============================================================================
