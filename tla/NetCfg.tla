------------------------------- MODULE NetCfg -------------------------------
(***************************************************************************)
(* The virtual network devices: the NetCfgTunBuilder of each VPN client    *)
(* process (src/src/client/core-client-netcfg.hpp), the device and DCO     *)
(* objects of the network configuration service (src/src/netcfg), the host *)
(* routes that protect the sockets of the clients, and the subscribers of  *)
(* the NetworkChange signals.                                              *)
(*                                                                         *)
(* A device object is known by the process that made it: its path is built *)
(* from the process id and the session token, so a process has one at a    *)
(* time.  The builder's calls wait for their answer; a call that runs into *)
(* its time-out is still served later.  Worker threads serve the calls, so *)
(* those that wait are served in any order and are overtaken by later ones *)
(* of the process.  A device is asked each of its slow calls at most once  *)
(* (HeldInv of NetCfgProofs), so the slow ones waiting are a set.  DNS     *)
(* settings are in DnsSettings; here applying them either works or throws. *)
(***************************************************************************)
EXTENDS Naturals, FiniteSets

CONSTANTS
    Clients,      \* VPN client processes
    DcoClients,   \* the processes whose profile asks for DCO
    Subscribers,  \* bus names that may subscribe to NetworkChange signals
    Root,         \* the subscribers that run as root
    Masks,        \* filters a subscriber may ask for: sets of kinds of events
    RouteLists,   \* sets of routes a VPN server pushes: "include", "exclude"
    Faults,       \* what may go wrong in the calls of each process
    MaxBuilders,  \* NetCfgTunBuilder objects each process makes
    MaxDevices,   \* tun_builder_new() calls of a builder of each process
    MaxLate,      \* calls of a process that may wait after a time-out
    None

Kinds == {"DEVICE_ADDED", "DEVICE_REMOVED", "IPADDR_ADDED", "IPADDR_REMOVED",
          "ROUTE_ADDED", "ROUTE_REMOVED", "ROUTE_EXCLUDED"}

ASSUME SubscribersAssumption == Root \subseteq Subscribers /\ Masks \subseteq SUBSET Kinds
ASSUME RoutesAssumption == RouteLists \subseteq SUBSET {"include", "exclude"}
ASSUME FaultsAssumption == Faults \in [Clients -> SUBSET {"timeout", "dns", "tun", "dco"}]
ASSUME BoundsAssumption == MaxBuilders \in [Clients -> Nat] /\ MaxDevices \in [Clients -> Nat]

VARIABLES
    builder,  \* the NetCfgTunBuilder of each process
    dev,      \* the NetCfgDevice of each process
    dcos,     \* processes with an exported NetCfgDCO object
    host,     \* what is configured on the host: <<process, "tun" | "dco" | "route">>
    slow,     \* calls to the device of each process not served yet
    late,     \* other calls of each process not served yet: how many of each kind
    raced,    \* history: where a Create and a Cleanup of a process met, see Races
    filter,   \* NetCfgSubscriptions::subscriptions
    view      \* what each subscriber was told is there

vars == <<builder, dev, dcos, host, slow, late, raced, filter, view>>

-----------------------------------------------------------------------------
(* State *)

Steps == {"idle", "create", "created", "built", "up", "failing", "ending"}
Builder == [life: {"none", "running", "dead"}, made: Nat, device: BOOLEAN, dco: BOOLEAN,
            step: Steps, tries: 0..3, devices: Nat]
Device == [tunimpl: BOOLEAN, vpnips: BOOLEAN, networks: SUBSET {"include", "exclude"}, dco: BOOLEAN,
           watcher: BOOLEAN, failed: BOOLEAN]
NewDevice == [tunimpl |-> FALSE, vpnips |-> FALSE, networks |-> {}, dco |-> FALSE, watcher |-> FALSE,
              failed |-> FALSE]

ASSUME NoneAssumption == None \notin Device

Slow == {"establish", "disable", "destroy"}
Calls == {"create", "protect", "cleanup"}

\* <<p, "held">>: the device that the builder of p holds was made while the
\* Cleanup of an earlier builder waited.  <<p, "left">>: the last Cleanup of p
\* was served while an earlier call waited.
Races == Clients \X {"held", "left"}
Raced(p, kind, met) == raced' = IF met THEN raced \cup {<<p, kind>>} ELSE raced \ {<<p, kind>>}

Items == Clients \X {"device", "address", "route"}

\* NetCfgChangeType: the events that announce an item and its removal.
AddedEvent == [device |-> "DEVICE_ADDED", address |-> "IPADDR_ADDED", route |-> "ROUTE_ADDED"]
RemovedEvent == [device |-> "DEVICE_REMOVED", address |-> "IPADDR_REMOVED", route |-> "ROUTE_REMOVED"]

Init ==
    /\ builder = [p \in Clients |-> [life |-> "none", made |-> 0, device |-> FALSE, dco |-> FALSE,
                                     step |-> "idle", tries |-> 0, devices |-> 0]]
    /\ dev = [p \in Clients |-> None]
    /\ dcos = {}
    /\ host = {}
    /\ slow = [p \in Clients |-> {}]
    /\ late = [p \in Clients |-> [c \in Calls |-> 0]]
    /\ raced = {}
    /\ filter = [s \in Subscribers |-> {}]
    /\ view = [s \in Subscribers |-> {}]

-----------------------------------------------------------------------------
(* NetworkChange signals and subscriptions *)

\* What a device announces besides itself: its addresses and the networks
\* that are routed over it.
ItemsOf(d, p) ==
    {<<p, "device">>} \cup {i \in {<<p, "address">>} : d.vpnips}
                      \cup {i \in {<<p, "route">>} : "include" \in d.networks}

\* NetworkChange(): only the subscribers whose mask has the bit of the event
\* are told.
Told(s, event) == event \in filter[s]

doEstablishNotifies(d, p) ==
    view' = [s \in Subscribers |-> view[s] \cup {i \in ItemsOf(d, p) : Told(s, AddedEvent[i[2]])}]

\* Mutant: the device is announced as removed, its addresses are not.
TeardownNotifiesDeviceOnly(d, p) ==
    view' = [s \in Subscribers |-> view[s] \ {i \in ItemsOf(d, p) : i[2] # "address" /\ Told(s, RemovedEvent[i[2]])}]

TeardownNotifies(d, p) ==
    view' = [s \in Subscribers |-> view[s] \ {i \in ItemsOf(d, p) : Told(s, RemovedEvent[i[2]])}]

\* What is configured now.
Configured == UNION {ItemsOf(dev[p], p) : p \in {q \in Clients : <<q, "tun">> \in host /\ dev[q] # None}}

\* A mask of 0 is refused, and the bus policy lets only the service account
\* subscribe.  The subscriber reads the present state as it subscribes and
\* follows the signals from there on.
Subscribe(s, m) ==
    /\ s \notin Root
    /\ m # {}
    /\ filter' = [filter EXCEPT ![s] = m]
    /\ view' = [view EXCEPT ![s] = Configured]
    /\ UNCHANGED <<builder, dev, dcos, host, slow, late, raced>>

\* Authorize() and method_name_unsubscribe(): the argument counts for root
\* only, and root has to give one.
MayUnsubscribe(caller) == caller \in Root \/ filter[caller] # {}

UnsubscribeKey(caller, arg) == IF caller \in Root THEN arg ELSE caller

Unsubscribe(caller, arg) ==
    LET key == UnsubscribeKey(caller, arg) IN
    /\ MayUnsubscribe(caller)
    /\ key # None
    /\ filter[key] # {}
    /\ filter' = [filter EXCEPT ![key] = {}]
    /\ view' = [view EXCEPT ![key] = {}]
    /\ UNCHANGED <<builder, dev, dcos, host, slow, late, raced>>

-----------------------------------------------------------------------------
(* The device and DCO objects of the service.  The operators define what a *)
(* served call does; rest is what remains of the calls to the device.      *)

Outcomes(p, kinds) == {"ok"} \cup (Faults[p] \cap kinds)

\* RemoveObject(): calls waiting for the object end with it.
RemoveObject(p) ==
    /\ dev' = [dev EXCEPT ![p] = None]
    /\ slow' = [slow EXCEPT ![p] = {}]

\* CoreTunbuilderImpl::teardown(): undoes what is configured on the host and
\* announces it, whether establish() got that far or not.
Teardown(p, others) ==
    /\ host' = host \ ({h \in {<<p, "tun">>} : dev[p].tunimpl} \cup others)
    /\ IF dev[p].tunimpl THEN TeardownNotifies(dev[p], p) ELSE UNCHANGED view

\* CreateVirtualInterface fails if the path is taken.
CreateVirtualInterface(p) ==
    /\ dev[p] = None
    /\ dev' = [dev EXCEPT ![p] = NewDevice]

\* AddIPAddress, with the properties and the DNS settings sent next to it, and
\* AddNetworks: kept in the object until Establish.
AddIPAddress(d) == [d EXCEPT !.vpnips = TRUE]
AddNetworks(d, nets) == [d EXCEPT !.networks = nets]

\* The NetCfgDCO object makes and removes its own interface.
NewDCO(p) == dcos' = dcos \cup {p} /\ host' = host \cup {<<p, "dco">>}
DCOInterface(who) == who \X {"dco"}

\* EnableDCO: the DCO object is a child of the device, under a path of its own.
EnableDCO(p) ==
    /\ p \notin dcos
    /\ NewDCO(p)
    /\ dev' = [dev EXCEPT ![p].dco = TRUE]

\* CoreTunbuilderImpl::establish(): nothing is announced when it fails.
EstablishTun(p, d, fault) ==
    \/ fault = "tun" /\ UNCHANGED <<host, view>>
    \/ fault # "tun" /\ host' = host \cup {<<p, "tun">>} /\ doEstablishNotifies(d, p)

\* Mutant: the bus name of the caller is not watched.
EstablishUnwatched(p, d, fault) ==
    LET e == [d EXCEPT !.tunimpl = TRUE] IN dev' = [dev EXCEPT ![p] = e] /\ EstablishTun(p, e, fault)

\* Establish of device d.  "tun": the tunnel cannot be set up, which is only
\* logged.  "dns": the resolver throws what the handler does not catch, after
\* the tunnel is there or, in MODE_PRE, before, and the bus name of the caller
\* is not watched.
Establish(p, d, fault) ==
    \/ LET e == [d EXCEPT !.tunimpl = TRUE, !.watcher = @ \/ fault # "dns"] IN
       dev' = [dev EXCEPT ![p] = e] /\ EstablishTun(p, e, fault)
    \/ fault = "dns" /\ dev' = [dev EXCEPT ![p] = d] /\ UNCHANGED <<host, view>>

\* Disable.  If the resolver throws the tunnel stays.
Disable(p, fault) ==
    IF fault = "dns" THEN UNCHANGED <<dev, host, view>>
    ELSE Teardown(p, {}) /\ dev' = [dev EXCEPT ![p].tunimpl = FALSE]

\* destroy(): the DNS settings, the tunnel, the DCO object and the object
\* itself, in this order; an exception of the resolver ends it at the start.
Destroy(p, fault, rest) ==
    \/ /\ fault = "dns"
       /\ dev' = [dev EXCEPT ![p].failed = TRUE, ![p].watcher = FALSE]
       /\ slow' = [slow EXCEPT ![p] = rest]
       /\ UNCHANGED <<dcos, host, view>>
    \/ /\ fault = "ok"
       /\ RemoveObject(p)
       /\ LET child == {q \in {p} : dev[p].dco} IN dcos' = dcos \ child /\ Teardown(p, DCOInterface(child))

\* Mutant: the devices of every process are removed.
CleanupAll(p) ==
    /\ dev' = [q \in Clients |-> None]
    /\ slow' = [q \in Clients |-> {}]
    /\ host' = host \ ({<<p, "route">>} \cup (Clients \X {"tun"}))
    /\ view' = [s \in Subscribers |-> {}]
    /\ UNCHANGED dcos

\* Cleanup: the device goes without destroy(), so its DNS settings stay, and
\* its destructor takes the tunnel down.  The objects are all taken for
\* devices; what is read from a DCO object as its process id may match or not.
\* The service handler itself is taken for one, too: what is read there is no
\* process id of a client.
Cleanup(p) ==
    \E match \in SUBSET (dcos \cap {p}) :
        LET others == {<<p, "route">>} \cup DCOInterface(match) IN
        /\ dcos' = dcos \ match
        /\ IF dev[p] = None THEN host' = host \ others /\ UNCHANGED <<dev, slow, view>>
           ELSE RemoveObject(p) /\ Teardown(p, others)

\* ProtectSocket with the host-route method: the old route of the process
\* goes, a new one comes.
ProtectSocket(p) == host' = host \cup {<<p, "route">>}

\* The handler for a bus name that disappeared, set by Establish.
NameDisappeared(p) ==
    /\ builder[p].life = "dead"
    /\ dev[p] # None
    /\ dev[p].watcher
    /\ \E fault \in Outcomes(p, {"dns"}) : Destroy(p, fault, slow[p])
    /\ UNCHANGED <<builder, late, raced, filter>>

-----------------------------------------------------------------------------
(* Calls of a builder *)

Running(p) == builder[p].life = "running"

\* The call runs into its time-out and is served later.
MayTimeOut(p) ==
    "timeout" \in Faults[p] /\ late[p]["create"] + late[p]["protect"] + Cardinality(slow[p]) < MaxLate

TimesOut(p, call) ==
    /\ MayTimeOut(p)
    /\ slow' = [slow EXCEPT ![p] = @ \cup {call}]
    /\ UNCHANGED <<dev, dcos, host, view>>

Waits(p, call) == late' = [late EXCEPT ![p][call] = @ + 1]

\* NetCfgProxy::Device::Destroy(), from a builder that may have no device; the
\* object it holds may be gone.
CallDestroy(p) ==
    \/ /\ ~builder[p].device \/ dev[p] = None
       /\ UNCHANGED <<dev, dcos, host, view, slow>>
    \/ /\ builder[p].device /\ dev[p] # None
       /\ \/ \E fault \in Outcomes(p, {"dns"}) : Destroy(p, fault, slow[p])
          \/ TimesOut(p, "destroy")

\* The builder drops its proxies, whatever Destroy returned.
Dropped(p, step) == [builder[p] EXCEPT !.device = FALSE, !.dco = FALSE, !.step = step]

NewBuilder(p) ==
    /\ builder[p].life = "none"
    /\ builder[p].made < MaxBuilders[p]
    /\ builder' = [builder EXCEPT ![p].life = "running", ![p].made = @ + 1, ![p].devices = 0, ![p].step = "idle"]
    /\ UNCHANGED <<dev, dcos, host, slow, late, raced, filter, view>>

\* tun_builder_new(): takes the old device down, then create_device().
tun_builder_new(p) ==
    /\ Running(p)
    /\ builder[p].step \in {"idle", "built", "up"}
    /\ builder[p].devices < MaxDevices[p]
    /\ CallDestroy(p)
    /\ builder' = [builder EXCEPT ![p] = [Dropped(p, "create") EXCEPT !.tries = 3, !.devices = builder[p].devices + 1]]
    /\ UNCHANGED <<late, raced, filter>>

\* An attempt of create_device() failed.
NextTry(p) ==
    builder' = [builder EXCEPT ![p].tries = @ - 1, ![p].step = IF builder[p].tries = 1 THEN "idle" ELSE "create"]

\* create_device(): three attempts, whatever the error.
create_device(p) ==
    /\ Running(p)
    /\ builder[p].step = "create"
    /\ \/ /\ CreateVirtualInterface(p)
          /\ builder' = [builder EXCEPT ![p].device = TRUE, ![p].step = "created", ![p].tries = 0]
          /\ Raced(p, "held", late[p]["cleanup"] > 0)
          /\ UNCHANGED late
       \/ /\ dev[p] # None
          /\ NextTry(p)
          /\ UNCHANGED <<dev, late, raced>>
       \/ /\ MayTimeOut(p)
          /\ Waits(p, "create")
          /\ NextTry(p)
          /\ UNCHANGED <<dev, raced>>
    /\ UNCHANGED <<dcos, host, slow, filter, view>>

\* tun_builder_add_address() and the other calls that describe the tunnel: one
\* that is not answered in time, or for which there is no object any more, makes
\* the core give up.
tun_builder_add_address(p) ==
    /\ Running(p)
    /\ builder[p].step = "created"
    /\ \/ /\ dev[p] # None
          /\ dev' = [dev EXCEPT ![p] = AddIPAddress(@)]
          /\ \E fault \in Outcomes(p, {"timeout"}) :
              builder' = [builder EXCEPT ![p].step = IF fault = "ok" THEN "built" ELSE "idle"]
       \/ /\ dev[p] = None
          /\ builder' = [builder EXCEPT ![p].step = "idle"]
          /\ UNCHANGED dev
    /\ UNCHANGED <<dcos, host, slow, late, raced, filter, view>>

\* tun_builder_dco_enable(); -1 ends the attempt to connect.
tun_builder_dco_enable(p) ==
    /\ Running(p)
    /\ p \in DcoClients
    /\ builder[p].step = "built"
    /\ ~builder[p].dco
    /\ \/ dev[p] # None /\ EnableDCO(p) /\ builder' = [builder EXCEPT ![p].dco = TRUE]
       \/ /\ dev[p] = None \/ p \in dcos \/ "dco" \in Faults[p]
          /\ builder' = [builder EXCEPT ![p].step = "idle"]
          /\ UNCHANGED <<dev, dcos, host>>
    /\ UNCHANGED <<slow, late, raced, filter, view>>

\* tun_builder_establish(), tun_builder_dco_establish(): AddNetworks, then
\* Establish.  With DCO no descriptor is returned, so nobody notices that the
\* tunnel could not be set up, and an error is left to the core.
AfterEstablish(p, fault) ==
    IF fault = "ok" \/ (fault = "tun" /\ builder[p].dco) THEN "up"
    ELSE IF builder[p].dco THEN "idle" ELSE "failing"

EstablishFails(p, fault) == builder' = [builder EXCEPT ![p].step = AfterEstablish(p, fault)] /\ UNCHANGED <<host, view>>

tun_builder_establish(p) ==
    /\ Running(p)
    /\ builder[p].step = "built"
    /\ \/ dev[p] = None /\ EstablishFails(p, "gone") /\ UNCHANGED <<dev, slow>>
       \/ /\ dev[p] # None
          /\ \E nets \in RouteLists, fault \in Outcomes(p, {"dns", "tun"}) :
              /\ Establish(p, AddNetworks(dev[p], nets), fault)
              /\ builder' = [builder EXCEPT ![p].step = AfterEstablish(p, fault)]
          /\ UNCHANGED slow
       \/ /\ dev[p] # None
          /\ MayTimeOut(p)
          /\ \E nets \in RouteLists : dev' = [dev EXCEPT ![p] = AddNetworks(@, nets)]
          /\ slow' = [slow EXCEPT ![p] = @ \cup {"establish"}]
          /\ EstablishFails(p, "timeout")
    /\ UNCHANGED <<dcos, late, raced, filter>>

\* tun_builder_teardown(true), also after a failed Establish.
TeardownDisconnect(p) ==
    /\ Running(p)
    /\ builder[p].step \in {"built", "up", "failing"}
    /\ CallDestroy(p)
    /\ builder' = [builder EXCEPT ![p] = Dropped(p, "idle")]
    /\ UNCHANGED <<late, raced, filter>>

\* tun_builder_teardown(false): the device is kept.
TeardownDisable(p) ==
    /\ Running(p)
    /\ builder[p].step = "up"
    /\ \/ dev[p] = None /\ UNCHANGED <<dev, dcos, host, view, slow>>
       \/ dev[p] # None /\ (\E fault \in Outcomes(p, {"dns"}) : Disable(p, fault)) /\ UNCHANGED <<dcos, slow>>
       \/ dev[p] # None /\ TimesOut(p, "disable")
    /\ builder' = [builder EXCEPT ![p].step = "idle", ![p].dco = FALSE]
    /\ UNCHANGED <<late, raced, filter>>

\* The core protects a socket before it sets a tunnel up.
socket_protect(p) ==
    /\ Running(p)
    /\ builder[p].step = "idle"
    /\ \/ ProtectSocket(p) /\ UNCHANGED late
       \/ MayTimeOut(p) /\ Waits(p, "protect") /\ UNCHANGED host
    /\ UNCHANGED <<builder, dev, dcos, slow, raced, filter, view>>

\* ~NetCfgTunBuilder(): Destroy, then Cleanup, which waits for no answer.
Destructor(p) ==
    /\ Running(p)
    /\ builder[p].step \in {"idle", "built", "up"}
    /\ CallDestroy(p)
    /\ builder' = [builder EXCEPT ![p] = Dropped(p, "ending")]
    /\ UNCHANGED <<late, raced, filter>>

\* Mutant: the destructor relies on Destroy.
DestructorEndNoCleanup(p) ==
    /\ Running(p)
    /\ builder[p].step = "ending"
    /\ builder' = [builder EXCEPT ![p].life = "none"]
    /\ UNCHANGED <<dev, dcos, host, slow, late, raced, filter, view>>

DestructorEnd(p) ==
    /\ Running(p)
    /\ builder[p].step = "ending"
    /\ builder' = [builder EXCEPT ![p].life = "none"]
    /\ Waits(p, "cleanup")
    /\ Raced(p, "left", FALSE)
    /\ UNCHANGED <<dev, dcos, host, slow, filter, view>>

\* The process ends or is killed.
Exit(p) ==
    /\ builder[p].life # "dead"
    /\ builder' = [builder EXCEPT ![p] = [Dropped(p, builder[p].step) EXCEPT !.life = "dead", !.tries = 0]]
    /\ UNCHANGED <<dev, dcos, host, slow, late, raced, filter, view>>

\* A waiting call to the device is served.
ServeSlow(p, call) ==
    LET rest == slow[p] \ {call} IN
    /\ \/ /\ call = "establish"
          /\ \E fault \in Outcomes(p, {"dns", "tun"}) : Establish(p, dev[p], fault)
          /\ slow' = [slow EXCEPT ![p] = rest] /\ UNCHANGED dcos
       \/ /\ call = "disable"
          /\ \E fault \in Outcomes(p, {"dns"}) : Disable(p, fault)
          /\ slow' = [slow EXCEPT ![p] = rest] /\ UNCHANGED dcos
       \/ call = "destroy" /\ \E fault \in Outcomes(p, {"dns"}) : Destroy(p, fault, rest)
    /\ UNCHANGED <<builder, late, raced, filter>>

\* Any of the other calls is served.  They all look up first who called, which
\* fails when the process is gone.
Known(p) == builder[p].life # "dead"

\* This Cleanup is the last one, and a call sent before it still waits.
Overtakes(p) ==
    /\ builder[p].life = "none" /\ late[p]["cleanup"] = 1
    /\ late[p]["create"] + late[p]["protect"] > 0

ServeLate(p, call) ==
    /\ late[p][call] > 0
    /\ late' = [late EXCEPT ![p][call] = @ - 1]
    /\ \/ /\ call = "create" /\ Known(p) /\ CreateVirtualInterface(p)
          /\ UNCHANGED <<dcos, host, slow, raced, view>>
       \/ /\ (call = "create" /\ dev[p] # None) \/ ~Known(p)
          /\ UNCHANGED <<dev, dcos, host, slow, raced, view>>
       \/ /\ call = "protect" /\ Known(p) /\ ProtectSocket(p)
          /\ UNCHANGED <<dev, dcos, slow, raced, view>>
       \/ /\ call = "cleanup" /\ Known(p) /\ Cleanup(p)
          /\ IF Overtakes(p) THEN Raced(p, "left", TRUE) ELSE UNCHANGED raced
    /\ UNCHANGED <<builder, filter>>

Serve(p) == (\E call \in Calls : ServeLate(p, call)) \/ \E call \in slow[p] : ServeSlow(p, call)

Next ==
    \/ \E p \in Clients :
        \/ NewBuilder(p) \/ tun_builder_new(p) \/ create_device(p) \/ tun_builder_add_address(p)
        \/ tun_builder_dco_enable(p) \/ tun_builder_establish(p) \/ TeardownDisconnect(p) \/ TeardownDisable(p)
        \/ socket_protect(p) \/ Destructor(p) \/ DestructorEnd(p) \/ Exit(p) \/ Serve(p) \/ NameDisappeared(p)
    \/ \E s \in Subscribers : (\E m \in Masks : Subscribe(s, m)) \/ \E k \in Subscribers \cup {None} : Unsubscribe(s, k)

\* The service takes up waiting calls and signals of the bus sooner or later.
Fairness == \A p \in Clients : WF_vars(Serve(p)) /\ WF_vars(NameDisappeared(p))

Spec == Init /\ [][Next]_vars /\ Fairness

-----------------------------------------------------------------------------
(* Properties *)

TypeOK ==
    /\ builder \in [Clients -> Builder]
    /\ dev \in [Clients -> Device \cup {None}]
    /\ dcos \subseteq Clients
    /\ host \subseteq Clients \X {"tun", "dco", "route"}
    /\ slow \in [Clients -> SUBSET Slow]
    /\ late \in [Clients -> [Calls -> Nat]]
    /\ raced \subseteq Races
    /\ filter \in [Subscribers -> SUBSET Kinds]
    /\ view \in [Subscribers -> SUBSET Items]

\* The device a builder holds is there, whatever time-outs, late calls and
\* other processes do: no late Destroy and no late Create of its own process
\* and no Cleanup of another one hits it.  The one call that may is the Cleanup
\* of an earlier builder of the process, if it was still waiting when the device
\* was made: it looks for devices by process id (core-client-netcfg.hpp,
\* netcfg-service-handler.cpp).
HeldDeviceExists ==
    \A p \in Clients : builder[p].life = "running" /\ builder[p].device =>
        dev[p] # None \/ <<p, "held">> \in raced

\* When the builder of a living process has ended and its calls are served,
\* the service keeps no device, no tunnel and no host route for the process,
\* even if Destroy failed, a Create was served after its time-out or the
\* Cleanups of two builders changed places; except that the last Cleanup
\* overtook a Create or ProtectSocket that had run into its time-out
\* (~NetCfgTunBuilder(), method_cleanup_process_resources()).
NothingLeft ==
    \A p \in Clients :
        /\ builder[p].life = "none" /\ <<p, "left">> \notin raced
        /\ \A call \in Calls : late[p][call] = 0
        => dev[p] = None /\ <<p, "tun">> \notin host /\ <<p, "route">> \notin host

\* A subscriber that knew the state when it subscribed, and follows the events
\* of a kind of item, knows exactly which items of that kind are configured
\* (doEstablishNotifies(), teardown()).
SubscriberViewExact ==
    \A s \in Subscribers : \A k \in {"device", "address", "route"} :
        {AddedEvent[k], RemovedEvent[k]} \subseteq filter[s] =>
            {i \in view[s] : i[2] = k} = {i \in Configured : i[2] = k}

\* The tunnel of a process that established it and disappeared is taken down,
\* unless destroy() gave up on an exception (method_establish(), destroy()).
DeadClientTornDown ==
    \A p \in Clients :
        (builder[p].life = "dead" /\ builder[p].step = "up" /\ <<p, "tun">> \in host)
            ~> (<<p, "tun">> \notin host \/ dev[p].failed)

=============================================================================
