---------------------------- MODULE BudgetLedger ----------------------------
(***************************************************************************)
(* budget_tracker in state.db: StateDB.enforce_and_reserve (state/db.py)   *)
(* called through BudgetGuard (agent/safety/budget_guard.py) by several    *)
(* orchestrators that share one session.  A call is a transaction on a     *)
(* connection of its own; between any two of its statements another        *)
(* process may run, fail or die.                                           *)
(*                                                                         *)
(* A row that does not exist reads as spent = 0 and is what Init has.      *)
(***************************************************************************)
EXTENDS Integers

CONSTANTS Proc, Key,
          Amount,  \* reserve_usd of the callers
          Alarm, Halt,
          NoProc,
          MaxCalls \* bound of the model

ASSUME LedgerAssumption ==
  /\ Amount \subseteq Nat
  /\ Alarm \in Nat \ {0} /\ Halt \in Nat \ {0}
  /\ NoProc \notin Proc /\ MaxCalls \in Nat

VARIABLES db,      \* the committed rows
          lock,    \* who holds SQLite's write lock
          pc, req, \* each caller's place and its request
          seen,    \* spent_usd the caller selected
          tx,      \* the row the caller's transaction would write
          calls,
          granted  \* ghost: what was granted on each row

vars == <<db, lock, pc, req, seen, tx, calls, granted>>

\* The flags are recomputed from the new total.
Row(usd) == [spent |-> usd, alarm |-> usd >= Alarm, halt |-> usd >= Halt]

Init ==
  /\ db = [k \in Key |-> Row(0)] /\ lock = NoProc
  /\ pc = [p \in Proc |-> "idle"]
  /\ req \in [Proc -> [key : Key, usd : {0}]]
  /\ seen = [p \in Proc |-> 0] /\ tx = [p \in Proc |-> Row(0)]
  /\ calls = 0 /\ granted = [k \in Key |-> 0]

\* enforce_and_reserve_story; an amount that is NaN, infinite or negative is
\* refused before the database is opened.
Request(p) ==
  /\ pc[p] = "idle" /\ calls < MaxCalls /\ calls' = calls + 1
  /\ \/ \E k \in Key, usd \in Amount :
          /\ req' = [req EXCEPT ![p] = [key |-> k, usd |-> usd]]
          /\ pc' = [pc EXCEPT ![p] = "begin"]
     \/ pc' = [pc EXCEPT ![p] = "denied"] /\ UNCHANGED req
  /\ UNCHANGED <<db, lock, seen, tx, granted>>

\* Mutant: BEGIN without IMMEDIATE.
BeginDeferred(p) ==
  /\ pc[p] = "begin" /\ pc' = [pc EXCEPT ![p] = "select"]
  /\ UNCHANGED <<db, lock, req, seen, tx, calls, granted>>

\* BEGIN IMMEDIATE takes the write lock, or times out on it.
Begin(p) ==
  /\ pc[p] = "begin" /\ lock = NoProc
  /\ lock' = p /\ pc' = [pc EXCEPT ![p] = "select"]
  /\ UNCHANGED <<db, req, seen, tx, calls, granted>>

Busy(p) ==
  /\ pc[p] = "begin" /\ lock # NoProc
  /\ pc' = [pc EXCEPT ![p] = "raised"]
  /\ UNCHANGED <<db, lock, req, seen, tx, calls, granted>>

Select(p) ==
  /\ pc[p] = "select"
  /\ seen' = [seen EXCEPT ![p] = db[req[p].key].spent]
  /\ pc' = [pc EXCEPT ![p] = "check"]
  /\ UNCHANGED <<db, lock, req, tx, calls, granted>>

Fits(p) == seen[p] + req[p].usd <= Halt

\* A threshold breached: ROLLBACK, allowed=False.
Refuse(p) ==
  /\ pc[p] = "check" /\ ~Fits(p)
  /\ lock' = NoProc /\ pc' = [pc EXCEPT ![p] = "denied"]
  /\ UNCHANGED <<db, req, seen, tx, calls, granted>>

\* INSERT ... ON CONFLICT DO UPDATE adds to the row as it is now.
Upsert(p) ==
  /\ pc[p] = "check" /\ Fits(p)
  /\ tx' = [tx EXCEPT ![p] = Row(db[req[p].key].spent + req[p].usd)]
  /\ pc' = [pc EXCEPT ![p] = "commit"]
  /\ UNCHANGED <<db, lock, req, seen, calls, granted>>

Commit(p) ==
  /\ pc[p] = "commit"
  /\ db' = [db EXCEPT ![req[p].key] = tx[p]]
  /\ granted' = [granted EXCEPT ![req[p].key] = @ + req[p].usd]
  /\ lock' = NoProc /\ pc' = [pc EXCEPT ![p] = "allowed"]
  /\ UNCHANGED <<req, seen, tx, calls>>

InTransaction(p) == pc[p] \in {"select", "check", "commit"}

\* A statement or the commit fails: rollback and raise.
Fail(p) ==
  /\ InTransaction(p)
  /\ lock' = NoProc /\ pc' = [pc EXCEPT ![p] = "raised"]
  /\ UNCHANGED <<db, req, seen, tx, calls, granted>>

\* The caller's process dies: SQLite rolls its transaction back.
Crash(p) ==
  /\ pc[p] # "idle" /\ pc' = [pc EXCEPT ![p] = "idle"]
  /\ lock' = IF lock = p THEN NoProc ELSE lock
  /\ UNCHANGED <<db, req, seen, tx, calls, granted>>

Return(p) ==
  /\ pc[p] \in {"allowed", "denied", "raised"}
  /\ pc' = [pc EXCEPT ![p] = "idle"]
  /\ UNCHANGED <<db, lock, req, seen, tx, calls, granted>>

Statement(p) == \/ Begin(p) \/ Busy(p) \/ Select(p) \/ Refuse(p) \/ Upsert(p)
                \/ Commit(p) \/ Fail(p) \/ Return(p)

\* Every caller returned and the bound is reached.
Finished == /\ \A p \in Proc : pc[p] = "idle"
            /\ calls >= MaxCalls /\ UNCHANGED vars

Next == \/ \E p \in Proc : Request(p) \/ Statement(p) \/ Crash(p)
        \/ Finished

Spec == Init /\ [][Next]_vars

-----------------------------------------------------------------------------
TypeOK ==
  /\ db \in [Key -> [spent : Nat, alarm : BOOLEAN, halt : BOOLEAN]]
  /\ lock \in Proc \cup {NoProc}
  /\ pc \in [Proc -> {"idle", "begin", "select", "check", "commit", "allowed",
                      "denied", "raised"}]
  /\ req \in [Proc -> [key : Key, usd : Nat]]
  /\ seen \in [Proc -> Nat]
  /\ tx \in [Proc -> [spent : Nat, alarm : BOOLEAN, halt : BOOLEAN]]
  /\ calls \in Nat /\ granted \in [Key -> Nat]

\* No sequence of racing callers gets a row past the halt threshold.
UnderHalt == \A k \in Key : db[k].spent <= Halt

\* What a row says was spent is what was granted on it: no reservation is
\* lost to another caller's, none of a call that failed or died before its
\* commit stays.
NothingLost == \A k \in Key : db[k].spent = granted[k]

\* The breached flags of a row agree with its total.
FlagsAgree == \A k \in Key : db[k] = Row(db[k].spent)

\* The transactions implement the atomic reservation.
Abstract == INSTANCE Ledger WITH spent <- [k \in Key |-> db[k].spent]
Implements == Abstract!Spec
=============================================================================
