------------------------- MODULE MCPersistenceSets -------------------------
(***************************************************************************)
(* The instance of PersistenceSets that TLC explores: the set 1, which is  *)
(* created, cleared and created elsewhere, with two sessions; and the set  *)
(* 2, which moves between two contexts as it should not, and is recorded   *)
(* without metadata.                                                       *)
(***************************************************************************)
EXTENDS PersistenceSets, TLC

CONSTANTS ctx1, ctx2, here, there

MCHomes ==
  {<<1, [kind |-> "raw", context |-> ctx1, place |-> here]>>,
   <<1, [kind |-> "raw", context |-> ctx2, place |-> here]>>,
   <<2, [kind |-> "raw", context |-> ctx1, place |-> there]>>,
   <<2, [kind |-> "raw", context |-> ctx2, place |-> there]>>}

\* How many sessions each set has, and the last step of each.
MCLastSession == <<2, 1>>
MCLastStep == <<1, 0>>

=============================================================================
