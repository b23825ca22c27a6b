------------------------- MODULE PipelineLifecycle -------------------------
(***************************************************************************)
(* What every pipeline promises of its published state, whatever threads   *)
(* its components run: the state of a session only moves forward, a stop   *)
(* that was asked for is never forgotten, the first error is kept until    *)
(* the next Start and it decides, with a completed run, the final state.   *)
(* LivePipeline and OfflinePipeline implement it.  RemuxPipeline does not:  *)
(* there a failed session may publish another state (RemuxPipeline.tla,    *)
(* FailedPersists).                                                        *)
(***************************************************************************)
CONSTANT None      \* no error

VARIABLES
  phase,    \* state_
  open,     \* started_
  failure   \* error_

vars == <<phase, open, failure>>

Active == {"starting", "running", "waiting", "draining"}
Final == {"stopped", "ended", "failed"}

Init == phase = "stopped" /\ open = FALSE /\ failure = None

\* Start: the error and the final state of the last session are forgotten.
Begin == ~open /\ open' = TRUE /\ phase' = "starting" /\ failure' = None

\* Only a session nobody stopped advances.
Advance ==
  /\ open /\ phase \in Active /\ failure = None
  /\ phase' \in Active \ {"starting"} /\ UNCHANGED <<open, failure>>

Cancel ==
  /\ open /\ failure = None /\ phase # "ended"
  /\ phase' = "stopping" /\ UNCHANGED <<open, failure>>

Fail ==
  /\ open /\ failure = None
  /\ failure' # None /\ phase' = "failed" /\ UNCHANGED open

\* The worker is done: what ran to its end ends, what was stopped stops.
Complete ==
  /\ open /\ failure = None
  /\ phase' \in IF phase \in Active THEN {"ended", "stopped"} ELSE {"stopped"}
  /\ UNCHANGED <<open, failure>>

\* Stop returns.
Close ==
  /\ open' = FALSE
  /\ phase' \in IF failure # None THEN {"failed"}
                ELSE IF phase = "ended" THEN {"ended"} ELSE {"stopped"}
  /\ UNCHANGED failure

Next == Begin \/ Advance \/ Cancel \/ Fail \/ Complete \/ Close

Spec == Init /\ [][Next]_vars
=============================================================================
