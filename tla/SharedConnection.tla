-------------------------- MODULE SharedConnection --------------------------
(***************************************************************************)
(* The one sqlite3 connection that connect_db opens and every store and    *)
(* every request thread shares (check_same_thread=False).  The connection  *)
(* has a single transaction: a write opens it, the next commit closes it   *)
(* whoever calls it, and a rollback discards everything written since,     *)
(* whoever wrote it.                                                       *)
(*                                                                         *)
(*   working   what a statement on the connection reads                    *)
(*   durable   what has been committed, and a restarted process finds      *)
(***************************************************************************)
VARIABLES working, durable

connectionVars == <<working, durable>>

(* connection.execute(INSERT | UPDATE | DELETE) leaving the tables as db.  *)
Execute(db) == working' = db /\ UNCHANGED durable

(* The normal exit of a "with connection:" block.                          *)
Commit == durable' = working /\ UNCHANGED working

(* Its exit by an exception, and the death of the process.                 *)
Rollback == working' = durable /\ UNCHANGED durable
=============================================================================
