----------------------------- MODULE AwsRoutes -----------------------------
(***************************************************************************)
(* The AWS add-on (src/addons/aws/openvpn3-service-aws.cpp): a subscriber   *)
(* of the NetworkChange signals that copies the routes of the VPN sessions *)
(* on this host into a route table of the AWS network, and takes them out  *)
(* again when they are removed or when it is stopped.  Signals are handled *)
(* one at a time, each with calls to AWS that may fail.                    *)
(*                                                                         *)
(* The network configuration service is seen only through the signals it   *)
(* sends (module NetCfg models it), AWS through its route table.           *)
(***************************************************************************)
EXTENDS Naturals, Sequences, SequencesExt

CONSTANTS
    Devices,      \* virtual devices of the VPN sessions
    Routes,       \* <<cidr, ipv6>>
    MaxChanges,   \* devices that are established, or fail to be
    MaxFaults     \* calls to AWS that fail, and crashes of the add-on

VARIABLES
    used,      \* the routes of each device that is up
    failed,    \* the routes of each device that could not be set up and is still there
    changes,   \* devices that were established or failed so far
    signals,   \* ROUTE_ADDED and ROUTE_REMOVED signals on their way to the add-on
    addon,     \* "off", "running", "ending", "stopped"
    routes,    \* AWSObject::vpc_routes
    table,     \* routes of the AWS route table that lead to this host
    faults,    \* calls that failed and crashes so far
    lost,      \* history: routes the add-on cannot know to be in the table
    shared,    \* history: routes that two devices had at once, up or failed
    before     \* history: routes that were in use before the add-on subscribed

vars == <<used, failed, changes, signals, addon, routes, table, faults, lost, shared, before>>

InUse == UNION {used[d] : d \in Devices}

\* The networks of a device object, and those of all of them.
Networks(d) == used[d] \cup failed[d]
Claimed == UNION {Networks(d) : d \in Devices}

\* NotificationSubscribe() asks for the two kinds of signals about routes.
Notify(kind, rs) ==
    signals' = IF addon = "running" THEN signals \o SetToSeq({<<kind, r>> : r \in rs}) ELSE signals

-----------------------------------------------------------------------------
(* The VPN sessions of the host *)

\* Establish of a device with the networks rs.
Establishing(d, rs) ==
    /\ Networks(d) = {} /\ changes < MaxChanges
    /\ changes' = changes + 1
    /\ shared' = shared \cup (rs \cap Claimed)
    /\ UNCHANGED <<addon, routes, table, faults, lost, before>>

DeviceUp(d, rs) ==
    /\ Establishing(d, rs)
    /\ used' = [used EXCEPT ![d] = rs]
    /\ Notify("ROUTE_ADDED", rs)
    /\ UNCHANGED failed

\* The tunnel cannot be set up: nothing is announced, and the object stays until it is
\* torn down.
EstablishFails(d, rs) ==
    /\ Establishing(d, rs)
    /\ failed' = [failed EXCEPT ![d] = rs]
    /\ UNCHANGED <<used, signals>>

\* CoreTunbuilderImpl::teardown(): the removal of the networks is announced whether
\* establish() succeeded or not.
DeviceDown(d) ==
    /\ Networks(d) # {}
    /\ used' = [used EXCEPT ![d] = {}]
    /\ failed' = [failed EXCEPT ![d] = {}]
    /\ before' = before \ used[d]
    /\ Notify("ROUTE_REMOVED", Networks(d))
    /\ UNCHANGED <<changes, addon, routes, table, faults, lost, shared>>

-----------------------------------------------------------------------------
(* The add-on *)

Fault == faults < MaxFaults /\ faults' = faults + 1
NoFault == faults' = faults

\* AWSObject::AWSObject(): the configuration is read, credentials fetched and the route
\* table found or made before the add-on subscribes.  It asks for no list of the routes
\* that are there already.
AWSObject ==
    /\ addon = "off"
    /\ \/ addon' = "running" /\ NoFault
       \/ addon' = "stopped" /\ Fault
    /\ before' = InUse
    /\ UNCHANGED <<used, failed, changes, signals, routes, table, lost, shared>>

\* AWS::Route::replace_create_route(): the call may fail after it took effect.
replace_create_route(r) ==
    \/ /\ NoFault /\ table' = table \cup {r} /\ routes' = routes \cup {r} /\ UNCHANGED lost
    \/ /\ Fault /\ UNCHANGED routes
       /\ \E effect \in SUBSET {r} : table' = table \cup effect
       /\ lost' = lost \cup {r}

\* Mutant: a route is forgotten although it could not be deleted.
MutantDelete_route(r) ==
    \/ /\ r \in table /\ NoFault /\ table' = table \ {r} /\ routes' = routes \ {r}
    \/ /\ r \notin table /\ NoFault /\ UNCHANGED <<table, routes>>
    \/ /\ Fault /\ UNCHANGED table /\ routes' = routes \ {r}

\* AWS::Route::delete_route(): it throws when the route is not in the table; whatever
\* it throws, and whether the call took effect or not, the route is remembered.
delete_route(r) ==
    \/ /\ r \in table /\ NoFault /\ table' = table \ {r} /\ routes' = routes \ {r}
    \/ /\ r \notin table /\ NoFault /\ UNCHANGED <<table, routes>>
    \/ /\ Fault /\ UNCHANGED routes
       /\ \E effect \in SUBSET {r} : table' = table \ effect

Added(e) == e[1] = "ROUTE_ADDED"

process_network_change ==
    /\ addon = "running" /\ signals # <<>>
    /\ signals' = Tail(signals)
    /\ LET e == Head(signals) IN
         \/ Added(e) /\ replace_create_route(e[2])
         \/ ~Added(e) /\ delete_route(e[2]) /\ UNCHANGED lost
    /\ UNCHANGED <<used, failed, changes, addon, shared, before>>

\* ~AWSObject(): first the subscription ends, then the routes are deleted one by one.
Unsubscribe ==
    /\ addon = "running"
    /\ addon' = "ending" /\ signals' = <<>>
    /\ UNCHANGED <<used, failed, changes, routes, table, faults, lost, shared, before>>

RemoveRoute(r) ==
    /\ addon = "ending" /\ r \in routes
    /\ routes' = routes \ {r}
    /\ \/ NoFault /\ table' = table \ {r} /\ UNCHANGED lost
       \/ Fault /\ lost' = lost \cup {r} /\ \E effect \in SUBSET {r} : table' = table \ effect
    /\ UNCHANGED <<used, failed, changes, signals, addon, shared, before>>

Stop ==
    /\ addon = "ending" /\ routes = {}
    /\ addon' = "stopped"
    /\ UNCHANGED <<used, failed, changes, signals, routes, table, faults, lost, shared, before>>

\* The process is killed, or has no credentials for ~AWSObject(): what it put in the
\* table stays there.  It may be started again.
Crash ==
    /\ addon \in {"running", "ending"} /\ Fault
    /\ addon' = "off" /\ signals' = <<>> /\ routes' = {} /\ lost' = lost \cup table
    /\ UNCHANGED <<used, failed, changes, table, shared, before>>

-----------------------------------------------------------------------------
Init ==
    /\ used = [d \in Devices |-> {}] /\ failed = [d \in Devices |-> {}] /\ changes = 0 /\ signals = <<>> /\ addon = "off"
    /\ routes = {} /\ table = {} /\ faults = 0 /\ lost = {} /\ shared = {} /\ before = {}

Next ==
    \/ \E d \in Devices, rs \in (SUBSET Routes) \ {{}} : DeviceUp(d, rs) \/ EstablishFails(d, rs)
    \/ \E d \in Devices : DeviceDown(d)
    \/ AWSObject \/ process_network_change \/ Unsubscribe \/ Stop \/ Crash
    \/ \E r \in Routes : RemoveRoute(r)

Spec == Init /\ [][Next]_vars

-----------------------------------------------------------------------------
\* A route is in the table exactly if a VPN session of the host has it; except routes that
\* two sessions had at once, which are deleted when the first of them ends, even if that one
\* never came up, and those older than the subscription.
FollowsSessions == \A r \in Routes \ (shared \cup before) : r \in table <=> r \in InUse

(* TABLE FOLLOWS: the table follows the sessions when all signals have been  *)
(* handled and no call has failed; and an add-on that is stopped leaves none *)
(* of its routes there, although calls to delete them failed before, but for *)
(* routes whose calls failed when they were added or at the very end, and    *)
(* those an earlier process left when it was killed                          *)
(* (AWSObject::process_network_change, AWSObject::~AWSObject).               *)
TableFollows ==
    /\ addon = "running" /\ signals = <<>> /\ faults = 0 => FollowsSessions
    /\ addon = "stopped" => table \subseteq lost
=============================================================================
