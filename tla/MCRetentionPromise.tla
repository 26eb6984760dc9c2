-------------------------- MODULE MCRetentionPromise --------------------------
(* What CONFIG.MD promises of RETENTION_DAYS, next to what the task          *)
(* does: Retention with a history of the promises that were not kept.        *)
EXTENDS Retention

VARIABLE broken   \* the promises broken so far

promiseVars == <<ceiling, now, form, submission, visit, task, deaths, broken>>

Promises == {"the ceiling is the outer bound", "None keeps forever"}

Breaks(promise) ==
    CASE promise = "the ceiling is the outer bound" -> ~CeilingIsOuterBound'
      [] promise = "None keeps forever"             -> ~NothingGoesWithoutCeiling

PromiseInit == Init /\ broken = {}

PromiseNext == Next /\ broken' = broken \cup {p \in Promises : Breaks(p)}

PromiseSpec == PromiseInit /\ [][PromiseNext]_promiseVars

(* CONFIG.MD promises two things of RETENTION_DAYS: an override may only     *)
(* shorten it, and None keeps answers forever.  This asks for less than the  *)
(* text, that no deployment sees both broken; a behaviour that violates it   *)
(* is a counterexample to each.  An override accepted under a higher ceiling *)
(* than the purge finds outlives it, and purge_deleted_forms takes None for  *)
(* a cutoff of this very moment.                                             *)
APromiseIsKept == broken # Promises
=============================================================================
