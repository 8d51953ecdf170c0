---------------------------- MODULE UploadLease ----------------------------
(***************************************************************************)
(* What the services promise together about the update engine and the      *)
(* output, with nothing said about links, replies, or threads: the engine  *)
(* is leased to one link at a time, a lease is only granted to a device    *)
(* whose output is already held neutral, it is held for as long as the     *)
(* lease lasts, and a lease returns to the pool before another begins      *)
(* (calibration_service.hpp, the note on updates and the output).          *)
(***************************************************************************)
CONSTANT Links

VARIABLES
  lease,  \* the link that runs an upload: no link or one
  held    \* the output is commanded neutral

Init == lease = {} /\ held = FALSE

Grant(l) ==
  /\ lease = {}
  /\ held
  /\ lease' = {l}
  /\ held' = TRUE

\* The upload ends: the hold may go on (a reboot follows) or end with it.
Return ==
  /\ lease # {}
  /\ lease' = {}
  /\ held' \in BOOLEAN

\* The output is held for another reason, or no longer is.
Change ==
  /\ lease = {}
  /\ lease' = {}
  /\ held' = ~held

Next == (\E l \in Links : Grant(l)) \/ Return \/ Change

Spec == Init /\ [][Next]_<<lease, held>>
=============================================================================
