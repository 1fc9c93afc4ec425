----------------------------- MODULE TaskStatus -----------------------------
(***************************************************************************)
(* The task status machine of the server: the table LEGAL_TRANSITIONS of   *)
(* server/src/state-machine.ts and the status sets the handlers test.      *)
(* Every status write of the server goes through canTransition, except     *)
(* for a write that repeats the present status, which is never checked.    *)
(***************************************************************************)

\* TaskStatus of types.ts.
Status == {"pending", "blocked", "assigned", "running", "paused",
           "completed", "failed", "cancelled"}

Terminal == {"completed", "failed", "cancelled"}

\* The statuses that hold one of a stub's slots (activeReservationTasks).
Reserving == {"assigned", "running", "paused"}

\* The statuses the retry deduplication looks for.
RetryAlive == {"pending", "assigned", "running"}

LegalTargets ==
  [s \in Status |->
     CASE s = "pending"  -> {"assigned", "cancelled"}
       [] s = "assigned" -> {"running", "failed", "pending", "cancelled"}
       [] s = "running"  -> {"completed", "failed", "paused", "cancelled"}
       [] s = "paused"   -> {"running", "cancelled"}
       [] s = "blocked"  -> {"pending", "cancelled"}
       [] s \in {"failed", "cancelled"} -> {"pending"}
       [] OTHER          -> {}]

CanWrite(from, to) == from = to \/ to \in LegalTargets[from]
=============================================================================
