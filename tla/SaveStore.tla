----------------------------- MODULE SaveStore -----------------------------
(***************************************************************************)
(* What a user of the mount is promised about saves.  durable[f] is the    *)
(* version of f the game or a fresh mount would read; acked[f] the version *)
(* of the last save of f that was reported as repacked.  RepackChain       *)
(* implements this module when no two saves of one package group overlap.  *)
(***************************************************************************)
EXTENDS Integers

CONSTANTS Files, GroupOf, Versions

VARIABLES durable, acked

Init ==
  /\ durable \in [Files -> Versions]
  /\ acked = [f \in Files |-> 0]

\* One group's content changes at once.  Saves nobody was told of may appear
\* and may disappear again; those reported stay.
Publish ==
  /\ durable' \in [Files -> Versions]
  /\ \A f \in Files : durable'[f] >= acked[f]
  /\ \A f, h \in Files :
       durable'[f] # durable[f] /\ durable'[h] # durable[h] => GroupOf[f] = GroupOf[h]
  /\ UNCHANGED acked

\* A save is reported once it is what a fresh mount would read.
Confirm(f) ==
  /\ acked' = [acked EXCEPT ![f] = durable[f]]
  /\ UNCHANGED durable

\* A delete withdraws the promise; the file disappears with a later Publish.
Withdraw(f) ==
  /\ acked' = [acked EXCEPT ![f] = 0]
  /\ UNCHANGED durable

Next == Publish \/ \E f \in Files : Confirm(f) \/ Withdraw(f)

Spec == Init /\ [][Next]_<<durable, acked>>
=============================================================================
