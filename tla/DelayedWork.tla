---------------------------- MODULE DelayedWork ----------------------------
(***************************************************************************)
(* A delayed work item of the kernel, as scan_work and assoc_work use it:  *)
(* "none", "timer" (waiting for its delay), or "queued" (waiting for the   *)
(* work thread).  Once its function is called it is "none" again.          *)
(***************************************************************************)
WorkState == {"none", "timer", "queued"}

(* queue_delayed_work does nothing if the work is pending already;         *)
(* cancel_delayed_work stops the timer, not a work item that is queued.    *)
Queued(w)    == IF w = "none" THEN "timer" ELSE w
Cancelled(w) == IF w = "timer" THEN "none" ELSE w
=============================================================================
