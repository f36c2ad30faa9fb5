---------------------------- MODULE RequestLedger ----------------------------
(***************************************************************************)
(* What the command queue promises to the requesters whose callbacks it    *)
(* takes, with nothing said of priorities, delays, call stacks or clocks:  *)
(* one request, or one group of coalesced requests, is with the motor at a *)
(* time; a requester hears the outcome of its own request, once; and the   *)
(* next request goes out only after every outcome has been delivered.      *)
(***************************************************************************)
CONSTANT Requester

VARIABLE status
  \* "idle"       no request outstanding
  \* "queued"     accepted, not sent
  \* "sent"       with the motor
  \* "succeeded"  the motor answered, not yet told
  \* "failed"     failed, timed out or cancelled, not yet told

Statuses == {"idle", "queued", "sent", "succeeded", "failed"}
LedgerTypeOK == status \in [Requester -> Statuses]

Having(s) == {r \in Requester : status[r] \in s}
Become(group, s) == status' = [r \in Requester |-> IF r \in group THEN s ELSE status[r]]

Submit(r) == status[r] = "idle" /\ Become({r}, "queued")

\* One command goes out, for a group of requesters that asked for the same.
SendGroup(group) ==
  /\ Having({"sent", "succeeded", "failed"}) = {}
  /\ Become(group, "sent")

\* The command with the motor ends.
Conclude(outcome) == Having({"sent"}) # {} /\ Become(Having({"sent"}), outcome)

\* Everything that was not sent is cancelled.
CancelQueued == Become(Having({"queued"}), "failed")

Deliver(r) == status[r] \in {"succeeded", "failed"} /\ Become({r}, "idle")

LedgerInit == status = [r \in Requester |-> "idle"]

LedgerNext ==
  \/ \E r \in Requester : Submit(r) \/ Deliver(r)
  \/ \E group \in SUBSET Having({"queued"}) : SendGroup(group)
  \/ \E outcome \in {"succeeded", "failed"} : Conclude(outcome)
  \/ CancelQueued

LedgerSpec == LedgerInit /\ [][LedgerNext]_status
=============================================================================
