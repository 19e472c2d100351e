----------------------------- MODULE Publication -----------------------------
(***************************************************************************)
(* What Arthur promises about an output name, without files, inodes or     *)
(* system calls: the promise that create_atomic_output .. commit_atomic_file*)
(* of src/src/core.cc keep, and that AtomicOutput is shown to implement.    *)
(*                                                                         *)
(* A name shows nothing, the file found at the start, somebody else's file *)
(* or Arthur's whole output; there is no value for a part of an output.    *)
(* Power loss replaces what the name shows by what the disk has kept.      *)
(***************************************************************************)
EXTENDS Naturals

VARIABLES shown,     \* what the name leads to
          kept,      \* what it would lead to after a power loss
          displaced, \* what Arthur's output has displaced, until it is settled
          verdict,   \* what the caller has been told
          rivals,    \* how often other producers have changed the name
          overtaken  \* one of them did after Arthur

pubVars == <<shown, kept, displaced, verdict, rivals, overtaken>>

Files == {"absent", "foreign", "old", "whole"}

Init ==
  /\ shown \in {"absent", "foreign"} /\ kept = shown
  /\ displaced = "none" /\ verdict = "idle"
  /\ rivals = 0 /\ overtaken = FALSE

\* The capture begins: the file that is there is the one to be replaced.
Begin ==
  /\ verdict = "idle" /\ verdict' = "busy"
  /\ shown' \in {shown, "old"} /\ kept' \in {kept, "old"}
  /\ shown = "absent" => shown' = "absent"
  /\ kept = "absent" => kept' = "absent"
  /\ UNCHANGED <<displaced, rivals, overtaken>>

\* The name goes from a file to the whole output in one step, and nothing is
\* thrown away by that; a name that is free is taken only while it is free.
Publish ==
  /\ verdict = "busy" /\ shown # "whole" /\ displaced = "none"
  /\ shown' = "whole"
  /\ displaced' = IF shown = "absent" THEN "none" ELSE shown
  /\ UNCHANGED <<kept, verdict, rivals, overtaken>>

\* Only the file found at the start may be thrown away for good.
Settle ==
  /\ verdict = "busy" /\ displaced = "old" /\ displaced' = "none"
  /\ UNCHANGED <<shown, kept, verdict, rivals, overtaken>>

\* Any other file goes back to its name.
Withdraw ==
  /\ verdict = "busy" /\ displaced # "none"
  /\ shown' = displaced /\ displaced' = "none"
  /\ UNCHANGED <<kept, verdict, rivals, overtaken>>

\* Success is reported when the disk keeps the output.
Succeed ==
  /\ verdict = "busy" /\ displaced = "none" /\ (overtaken \/ shown = "whole")
  /\ verdict' = "ok" /\ kept' = shown
  /\ UNCHANGED <<shown, displaced, rivals, overtaken>>

\* A failure changes nothing at the name.
Fail ==
  /\ verdict \in {"idle", "busy"} /\ verdict' = "failed"
  /\ kept' \in {kept, shown} /\ displaced' = "none"
  /\ UNCHANGED <<shown, rivals, overtaken>>

Others ==
  /\ verdict # "lost" /\ shown' \in {"absent", "foreign"}
  /\ rivals' = rivals + 1 /\ overtaken' \in {overtaken, TRUE}
  /\ UNCHANGED <<kept, displaced, verdict>>

Flush ==
  /\ verdict # "lost" /\ kept' = shown
  /\ UNCHANGED <<shown, displaced, verdict, rivals, overtaken>>

PowerLoss ==
  /\ verdict # "lost" /\ verdict' = "lost"
  /\ shown' = kept /\ displaced' = "none"
  /\ UNCHANGED <<kept, rivals, overtaken>>

Next == \/ Begin \/ Publish \/ Settle \/ Withdraw \/ Succeed \/ Fail
        \/ Others \/ Flush \/ PowerLoss

Spec == Init /\ [][Next]_pubVars
=============================================================================
