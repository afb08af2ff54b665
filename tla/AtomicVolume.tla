---------------------------- MODULE AtomicVolume ----------------------------
(***************************************************************************)
(* What the transactions of the Smart Filesystem promise its other parts:  *)
(* a transaction changes the volume as a whole or not at all, nobody sees  *)
(* part of one that was given up, and the volume found after a crash is    *)
(* the one that some earlier moment between two transactions left, with    *)
(* all that was flushed.  One thing it does not promise: while the log of  *)
(* a flush has no mark of its end but an operation in the middle, a crash  *)
(* may leave part of what is flushed (`Lose').                             *)
(***************************************************************************)
VARIABLES stable,   \* the volume that a mount after a crash would give
          latest,   \* the volume with all ended transactions
          work,     \* the volume as read now, in a transaction or outside
          open,     \* a transaction has begun and has not ended
          whole     \* the log on the disk, if any, reads to its end

vars == <<stable, latest, work, open>>

Init ==
  /\ latest = stable
  /\ work = stable
  /\ open = FALSE

Begin ==
  /\ ~open
  /\ open' = TRUE
  /\ UNCHANGED <<stable, latest, work>>

Change ==
  /\ open
  /\ UNCHANGED <<stable, latest, open>>

End ==
  /\ open
  /\ open' = FALSE
  /\ latest' = work
  /\ UNCHANGED <<stable, work>>

GiveUp ==
  /\ open
  /\ open' = FALSE
  /\ work' = latest
  /\ UNCHANGED <<stable, latest>>

Flush ==
  /\ ~open
  /\ stable' = latest
  /\ UNCHANGED <<latest, work, open>>

\* While `whole' is not true nothing is said of what a crash leaves; of the rest it is.
Lose ==
  /\ ~whole
  /\ UNCHANGED <<latest, work, open>>

Crash ==
  /\ latest' = stable
  /\ work' = stable
  /\ open' = FALSE
  /\ UNCHANGED stable

Next == Begin \/ Change \/ End \/ GiveUp \/ Flush \/ Lose \/ Crash

Spec == Init /\ [][Next]_vars
=============================================================================
