---------------------------- MODULE MCAsyncSession ----------------------------
(* A session small enough to check: the cancellations that come one at a    *)
(* time, while no rollback waits for its turn.                              *)
EXTENDS AsyncSession

AllButRollback == Calls \ {"rollback"}
=============================================================================
