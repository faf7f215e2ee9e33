------------------------------ MODULE RowLocks ------------------------------
(***************************************************************************)
(* Row locks of PostgreSQL as the handlers use them.  FOR UPDATE excludes  *)
(* every other lock of the row; FOR SHARE and the FOR KEY SHARE of a       *)
(* foreign-key check exclude only FOR UPDATE.  Locks are held to the end   *)
(* of the transaction.  A lock is a record [table, row, exclusive].        *)
(***************************************************************************)

CONSTANT Procs

VARIABLES
  held,   \* the locks a transaction holds
  wanted  \* the locks its next statement takes

Missing(p) == wanted[p] \ held[p]
Holders(p, l) ==
  {q \in Procs \ {p} : \E m \in held[q] : m.table = l.table /\ m.row = l.row /\ (m.exclusive \/ l.exclusive)}

\* A transaction waits when another holds each of the locks it still needs;
\* Postgres aborts one of a cycle of waiting transactions.
Stuck(p) == Missing(p) # {} /\ \A l \in Missing(p) : Holders(p, l) # {}
WaitsFor(p) == IF Stuck(p) THEN UNION {Holders(p, l) : l \in Missing(p)} ELSE {}
InCycle(p, S) == p \in S /\ \A q \in S : WaitsFor(q) \cap S # {}
Deadlocked(p) ==
  \E S \in SUBSET {q \in Procs : Stuck(q)} :
    InCycle(p, S) /\ \A T \in SUBSET S : T # S => \A q \in T : ~InCycle(q, T)
=============================================================================
