-------------------------- MODULE MCConsumerGroups --------------------------
(* ConsumerGroups on small instances. *)
EXTENDS ConsumerGroups, TLC

CONSTANTS c1, c2, g1, g2

GroupsDone ==
  /\ \A c \in Client : handler[c].phase # "creating" /\ answers[c] = NoAnswer
  /\ inserts = {} /\ assignments = {}
  /\ UNCHANGED allVars

MCNext == GroupsNext \/ GroupsDone
MCSpec == GroupsInit /\ [][MCNext]_allVars

(* Clients and groups are only compared. *)
MCSymmetry == Permutations(Client) \cup Permutations(Group)
=============================================================================
