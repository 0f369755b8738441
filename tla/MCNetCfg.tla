------------------------------ MODULE MCNetCfg ------------------------------
(***************************************************************************)
(* The network configuration service and the AWS add-on, for TLC.  Two     *)
(* client processes: the first meets every fault and may make a second     *)
(* builder, the other one has a socket protected and ends before it makes  *)
(* a device; a subscriber, and another that runs as root.  A               *)
(* behaviour is either one of NetCfg or one of AwsRoutes, which sees the   *)
(* service only through its signals: the two share no state.               *)
(***************************************************************************)
EXTENDS NetCfg, TLC

CONSTANTS p1, p2, AwsDevices, AwsRouteSet, MaxChanges, MaxFaults

ASSUME AwsRoutesAssumption == IsFiniteSet(AwsRouteSet)

VARIABLES used, failed, changes, signals, addon, routes, table, faults, lost, shared, before

MCMasks == {Kinds, {}}
MCRouteLists == {{"include", "exclude"}}
MCFaults == p1 :> {"timeout", "dns", "tun", "dco"} @@ p2 :> {}
MCMaxDevices == p1 :> 2 @@ p2 :> 0
MCMaxBuilders == p1 :> 2 @@ p2 :> 1

Aws == INSTANCE AwsRoutes WITH Devices <- AwsDevices, Routes <- AwsRouteSet

awsVars == <<used, failed, changes, signals, addon, routes, table, faults, lost, shared, before>>

\* The add-on is not there.
NoAddon == /\ used = None /\ failed = None /\ changes = None /\ signals = None /\ addon = None /\ routes = None
           /\ table = None /\ faults = None /\ lost = None /\ shared = None /\ before = None

WithAddon == addon # None

MCInit == Init /\ (NoAddon \/ Aws!Init)

MCNext == \/ ~WithAddon /\ Next /\ UNCHANGED awsVars
          \/ WithAddon /\ Aws!Next /\ UNCHANGED vars

MCSpec == MCInit /\ [][MCNext]_<<vars, awsVars>> /\ Fairness

\* TABLE FOLLOWS, in the behaviours with the add-on.
TableFollows == WithAddon => Aws!TableFollows
=============================================================================
