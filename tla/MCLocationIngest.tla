-------------------------- MODULE MCLocationIngest --------------------------
(***************************************************************************)
(* LocationIngest for TLC: three fixes at two places, one zone for all and *)
(* one of a team the employee may be in.                                    *)
(***************************************************************************)
EXTENDS LocationIngest, TLC

CONSTANTS t1, hall, yard, zAll, zTeam

MCFixes == 1 .. 3
MCPlace == [f \in MCFixes |-> IF f = 2 THEN yard ELSE hall]
MCBatches == {<<1, 2>>, <<2, 1>>, <<2, 3>>}
OneByOne == {<<1>>, <<2>>, <<3>>}

UniversalZone(area) ==
  [status |-> "active", scope |-> "UNIVERSAL", team |-> NoTeam, area |-> area]
MCInitialZones ==
  [z \in Zones |-> IF z = zAll THEN UniversalZone({hall})
                   ELSE [UniversalZone({yard}) EXCEPT !.scope = "TEAM", !.team = t1]]

\* The zone for all is still to be created.
MCTeamZone == [MCInitialZones EXCEPT ![zAll].status = "absent"]

HandlerSymmetry == Permutations(Handlers)
=============================================================================
