---------------------------- MODULE MCSyncEngine ----------------------------
(***************************************************************************)
(* SyncEngine for TLC: one place and no zones, which LocationIngest has    *)
(* been checked with.                                                      *)
(***************************************************************************)
EXTENDS SyncEngine

CONSTANTS hall

TwoFixes == 1 .. 2
MCPlace == [f \in Fixes |-> hall]
MCNoZones == [z \in Zones |-> z]
MCBatches == {<<1>>, <<2>>, <<1, 2>>}
=============================================================================
