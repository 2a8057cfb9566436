------------------------------ MODULE Broadcast ------------------------------
(***************************************************************************)
(* What a listener of the radio station is promised by the playback        *)
(* component, with no threads, locks or files.                             *)
(*                                                                         *)
(* The station carries its regular programme until an alert is submitted.  *)
(* It then switches over once, sounds the siren to its end, and airs every *)
(* alert submitted since, one at a time and in the order of submission.    *)
(* It returns to the regular programme only when no alert is left.         *)
(*                                                                         *)
(* PBQueue implements this specification (PBQueue!Abstract).               *)
(***************************************************************************)
EXTENDS Sequences

CONSTANTS Alert,    \* what can be put on the air
          NoAlert   \* no alert is on the air

VARIABLES programme,  \* "regular", "siren" or "alerts": what the relay and player carry
          pending,    \* alerts submitted and not yet on the air, in order
          current     \* the alert on the air, or NoAlert

bvars == <<programme, pending, current>>

Init ==
  /\ programme = "regular"
  /\ pending = <<>>
  /\ current = NoAlert

\* The switch to the emergency programme: only ever from the regular one.
RaiseAlarm ==
  /\ programme = "regular"
  /\ programme' = "siren"
  /\ UNCHANGED <<pending, current>>

\* The siren has sounded to its end; the alert that raised it is now pending.
SirenOver(a) ==
  /\ programme = "siren"
  /\ programme' = "alerts"
  /\ pending' = Append(pending, a)
  /\ UNCHANGED current

\* A further alert joins the emergency programme without a second siren.
Submit(a) ==
  /\ programme = "alerts"
  /\ pending' = Append(pending, a)
  /\ UNCHANGED <<programme, current>>

\* The oldest pending alert goes on the air; the siren is over by then.
Begin ==
  /\ programme = "alerts"
  /\ current = NoAlert
  /\ pending # <<>>
  /\ current' = Head(pending)
  /\ pending' = Tail(pending)
  /\ UNCHANGED programme

End ==
  /\ current # NoAlert
  /\ current' = NoAlert
  /\ UNCHANGED <<programme, pending>>

\* Back to the regular programme, and only when everything has been aired.
Release ==
  /\ programme = "alerts"
  /\ current = NoAlert
  /\ pending = <<>>
  /\ programme' = "regular"
  /\ UNCHANGED <<pending, current>>

Next ==
  \/ RaiseAlarm
  \/ \E a \in Alert : SirenOver(a) \/ Submit(a)
  \/ Begin
  \/ End
  \/ Release

Spec == Init /\ [][Next]_bvars
=============================================================================
