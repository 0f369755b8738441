---------------------------- MODULE NetCfgProofs ----------------------------
(***************************************************************************)
(* Proofs about the network configuration service, for any number of       *)
(* processes, builders, devices, late calls and subscribers: the device a  *)
(* builder holds exists, a process that ended leaves nothing behind, and a *)
(* subscriber knows what is configured.  Then about the AWS add-on, one of *)
(* the subscribers, for any devices and routes: the route table of the AWS *)
(* network follows the sessions of the host.                               *)
(***************************************************************************)
EXTENDS MCNetCfg, Sequences, FiniteSetTheorems, FunctionTheorems, TLAPS

ItemKinds == {"device", "address", "route"}

\* Device d announces an item of kind k.
Announces(d, k) ==
    \/ k = "device"
    \/ k = "address" /\ d.vpnips
    \/ k = "route" /\ "include" \in d.networks

-----------------------------------------------------------------------------
(* The inductive invariant, process by process *)

\* While a builder holds its device no Destroy waits, and a Cleanup only if it
\* waited when the device was made.  A device that is not established yet has
\* no call waiting.
HeldInv(p) ==
    LET b == builder[p] IN
    /\ b.life # "running" \/ b.step \in {"create", "ending"} => ~b.device
    /\ b.life = "running" /\ b.device => "destroy" \notin slow[p]
    /\ b.life = "running" /\ b.device /\ <<p, "held">> \notin raced => dev[p] # None /\ late[p]["cleanup"] = 0
    /\ b.life = "running" /\ b.step \in {"created", "built", "up", "failing"} => b.device
    /\ b.life = "running" /\ b.step \in {"created", "built"} /\ dev[p] # None => ~dev[p].tunimpl
    /\ b.life = "running" /\ b.step \in {"created", "built", "up"} => slow[p] = {}
    /\ b.step = "create" /\ b.life = "running" => b.tries \in 1..3

\* Calls wait for a device that is there; a tunnel belongs to a device that
\* knows of it.
DeviceInv(p) ==
    /\ dev[p] = None => slow[p] = {}
    /\ "establish" \in slow[p] => ~dev[p].tunimpl
    /\ <<p, "tun">> \in host => dev[p] # None /\ dev[p].tunimpl

\* A process between two builders has everything behind it, or a Cleanup waits,
\* unless the last one overtook another call.
EndInv(p) ==
    builder[p].life = "none" =>
        \/ late[p]["cleanup"] # 0
        \/ <<p, "left">> \in raced
        \/ late[p]["create"] = 0 /\ late[p]["protect"] = 0 /\ dev[p] = None /\ <<p, "route">> \notin host

ViewInv(p) ==
    \A s \in Subscribers, k \in ItemKinds :
        AddedEvent[k] \in filter[s] /\ RemovedEvent[k] \in filter[s] =>
            (<<p, k>> \in view[s] <=> <<p, "tun">> \in host /\ dev[p] # None /\ Announces(dev[p], k))

ProcessInv(p) == HeldInv(p) /\ DeviceInv(p) /\ EndInv(p) /\ ViewInv(p)

IInv == TypeOK /\ \A p \in Clients : ProcessInv(p)

-----------------------------------------------------------------------------
(* A step of process p leaves what belongs to the others alone. *)

Others(p) ==
    /\ filter' = filter
    /\ \A q \in Clients \ {p}, k \in {"held", "left"} : <<q, k>> \in raced' <=> <<q, k>> \in raced
    /\ \A q \in Clients \ {p} :
        /\ builder'[q] = builder[q] /\ dev'[q] = dev[q] /\ slow'[q] = slow[q] /\ late'[q] = late[q]
        /\ \A x \in {"tun", "route"} : <<q, x>> \in host' <=> <<q, x>> \in host
        /\ \A s \in Subscribers, k \in ItemKinds : <<q, k>> \in view'[s] <=> <<q, k>> \in view[s]

LEMMA OthersKeep ==
    ASSUME IInv, NEW p \in Clients, Others(p), TypeOK', ProcessInv(p)'
    PROVE  IInv'
<1> SUFFICES ASSUME NEW q \in Clients, q # p PROVE ProcessInv(q)'
  BY DEF IInv
<1>1. HeldInv(q)' /\ DeviceInv(q)' /\ EndInv(q)'
  BY DEF IInv, ProcessInv, HeldInv, DeviceInv, EndInv, Others
<1>2. ViewInv(q)'
  BY DEF IInv, ProcessInv, ViewInv, Others
<1> QED BY <1>1, <1>2 DEF ProcessInv

LEMMA ItemsOfDevice ==
    ASSUME NEW d, NEW p \in Clients
    PROVE  /\ ItemsOf(d, p) \subseteq Items
           /\ \A k \in ItemKinds : <<p, k>> \in ItemsOf(d, p) <=> Announces(d, k)
           /\ \A q \in Clients \ {p}, k \in ItemKinds : <<q, k>> \notin ItemsOf(d, p)
BY DEF ItemsOf, Items, ItemKinds, Announces

LEMMA NewDeviceType == NewDevice \in Device /\ ~NewDevice.tunimpl
BY DEF NewDevice, Device

-----------------------------------------------------------------------------
(* What the operations of the service do to tunnels and subscribers *)

LEMMA TeardownFacts ==
    ASSUME TypeOK, NEW p \in Clients, DeviceInv(p), ViewInv(p), dev[p] # None,
           NEW others \in SUBSET ({p} \X {"dco", "route"}), Teardown(p, others)
    PROVE  /\ host' \subseteq host /\ view' \in [Subscribers -> SUBSET Items]
           /\ <<p, "tun">> \notin host'
           /\ \A h \in others : h \notin host'
           /\ \A q \in Clients \ {p}, x \in {"tun", "route"} : <<q, x>> \in host' <=> <<q, x>> \in host
           /\ \A s \in Subscribers, k \in ItemKinds :
                AddedEvent[k] \in filter[s] /\ RemovedEvent[k] \in filter[s] => <<p, k>> \notin view'[s]
           /\ \A q \in Clients \ {p}, s \in Subscribers, k \in ItemKinds : <<q, k>> \in view'[s] <=> <<q, k>> \in view[s]
<1>1. host' = host \ ({h \in {<<p, "tun">>} : dev[p].tunimpl} \cup others)
  BY DEF Teardown
<1>2. /\ host' \subseteq host /\ <<p, "tun">> \notin host' /\ \A h \in others : h \notin host'
      /\ \A q \in Clients \ {p}, x \in {"tun", "route"} : <<q, x>> \in host' <=> <<q, x>> \in host
  BY <1>1 DEF DeviceInv
<1>3. CASE dev[p].tunimpl
  <2>1. view' = [s \in Subscribers |-> view[s] \ {i \in ItemsOf(dev[p], p) : Told(s, RemovedEvent[i[2]])}]
    BY <1>3 DEF Teardown, TeardownNotifies
  <2>2. view' \in [Subscribers -> SUBSET Items]
    BY <2>1 DEF TypeOK
  <2>3. ASSUME NEW s \in Subscribers, NEW k \in ItemKinds, AddedEvent[k] \in filter[s], RemovedEvent[k] \in filter[s]
        PROVE  <<p, k>> \notin view'[s]
    <3>1. <<p, k>> \in view[s] => Announces(dev[p], k)
      BY <2>3 DEF ViewInv
    <3>2. Announces(dev[p], k) => <<p, k>> \in ItemsOf(dev[p], p)
      BY ItemsOfDevice
    <3>3. <<p, k>>[2] = k
      OBVIOUS
    <3> QED BY <2>1, <2>3, <3>1, <3>2, <3>3 DEF Told
  <2>4. ASSUME NEW q \in Clients \ {p}, NEW s \in Subscribers, NEW k \in ItemKinds
        PROVE  <<q, k>> \in view'[s] <=> <<q, k>> \in view[s]
    BY <2>1, <2>4, ItemsOfDevice
  <2> QED BY <1>2, <2>2, <2>3, <2>4
<1>4. CASE ~dev[p].tunimpl
  BY <1>2, <1>4 DEF Teardown, TypeOK, DeviceInv, ViewInv
<1> QED BY <1>3, <1>4

LEMMA EstablishFacts ==
    ASSUME TypeOK, NEW p \in Clients, DeviceInv(p), ViewInv(p), dev[p] # None, ~dev[p].tunimpl,
           NEW e \in Device, NEW fault, EstablishTun(p, e, fault)
    PROVE  /\ host' \subseteq host \cup {<<p, "tun">>} /\ host \subseteq host'
           /\ view' \in [Subscribers -> SUBSET Items]
           /\ \A s \in Subscribers, k \in ItemKinds :
                AddedEvent[k] \in filter[s] /\ RemovedEvent[k] \in filter[s] =>
                    (<<p, k>> \in view'[s] <=> <<p, "tun">> \in host' /\ Announces(e, k))
           /\ \A q \in Clients \ {p}, s \in Subscribers, k \in ItemKinds : <<q, k>> \in view'[s] <=> <<q, k>> \in view[s]
<1>0. <<p, "tun">> \notin host
  BY DEF DeviceInv
<1>1. CASE fault = "tun"
  BY <1>0, <1>1 DEF EstablishTun, TypeOK, ViewInv
<1>2. CASE fault # "tun"
  <2>1. /\ host' = host \cup {<<p, "tun">>}
        /\ view' = [s \in Subscribers |-> view[s] \cup {i \in ItemsOf(e, p) : Told(s, AddedEvent[i[2]])}]
    BY <1>2 DEF EstablishTun, doEstablishNotifies
  <2>2. view' \in [Subscribers -> SUBSET Items]
    BY <2>1, ItemsOfDevice DEF TypeOK
  <2>3. ASSUME NEW s \in Subscribers, NEW k \in ItemKinds, AddedEvent[k] \in filter[s], RemovedEvent[k] \in filter[s]
        PROVE  <<p, k>> \in view'[s] <=> Announces(e, k)
    <3>1. <<p, k>> \notin view[s]
      BY <1>0, <2>3 DEF ViewInv
    <3>2. Announces(e, k) <=> <<p, k>> \in ItemsOf(e, p)
      BY ItemsOfDevice
    <3>3. <<p, k>>[2] = k
      OBVIOUS
    <3> QED BY <2>1, <2>3, <3>1, <3>2, <3>3 DEF Told
  <2>4. ASSUME NEW q \in Clients \ {p}, NEW s \in Subscribers, NEW k \in ItemKinds
        PROVE  <<q, k>> \in view'[s] <=> <<q, k>> \in view[s]
    BY <2>1, <2>4, ItemsOfDevice
  <2> QED BY <2>1, <2>2, <2>3, <2>4
<1> QED BY <1>1, <1>2

\* A step of the service on the device of p: the types, the devices of the
\* others and the device part of the invariant are kept.
ServiceStep(p) ==
    /\ dev' \in [Clients -> Device \cup {None}] /\ dcos' \subseteq Clients
    /\ host' \subseteq Clients \X {"tun", "dco", "route"}
    /\ slow' \in [Clients -> SUBSET Slow] /\ view' \in [Subscribers -> SUBSET Items]
    /\ filter' = filter
    /\ \A q \in Clients \ {p} :
        /\ dev'[q] = dev[q] /\ slow'[q] = slow[q]
        /\ \A x \in {"tun", "route"} : <<q, x>> \in host' <=> <<q, x>> \in host
        /\ \A s \in Subscribers, k \in ItemKinds : <<q, k>> \in view'[s] <=> <<q, k>> \in view[s]
    /\ DeviceInv(p)' /\ ViewInv(p)'

\* What is recorded about the other processes stays.
RaceStep(p) ==
    /\ raced' \subseteq Races
    /\ \A q \in Clients \ {p}, k \in {"held", "left"} : <<q, k>> \in raced' <=> <<q, k>> \in raced

LEMMA RacedStep ==
    ASSUME IInv, NEW p \in Clients
    PROVE  /\ raced' = raced => RaceStep(p)
           /\ \A k \in {"held", "left"}, met \in BOOLEAN :
                Raced(p, k, met) =>
                    /\ RaceStep(p)
                    /\ <<p, k>> \in raced' <=> met
                    /\ \A j \in {"held", "left"} : j # k => (<<p, j>> \in raced' <=> <<p, j>> \in raced)
<1>1. raced \subseteq Races /\ \A k \in {"held", "left"} : <<p, k>> \in Races
  BY DEF IInv, TypeOK, Races
<1>2. raced' = raced => RaceStep(p)
  BY <1>1 DEF RaceStep
<1>3. ASSUME NEW k \in {"held", "left"}, NEW met \in BOOLEAN, Raced(p, k, met)
      PROVE  /\ RaceStep(p)
             /\ <<p, k>> \in raced' <=> met
             /\ \A j \in {"held", "left"} : j # k => (<<p, j>> \in raced' <=> <<p, j>> \in raced)
  <2>1. CASE met
    <3>1. raced' = raced \cup {<<p, k>>}
      BY <1>3, <2>1 DEF Raced
    <3> QED BY <1>1, <2>1, <3>1 DEF RaceStep
  <2>2. CASE ~met
    <3>1. raced' = raced \ {<<p, k>>}
      BY <1>3, <2>2 DEF Raced
    <3> QED BY <1>1, <2>2, <3>1 DEF RaceStep
  <2> QED BY <2>1, <2>2
<1> QED BY <1>2, <1>3

LEMMA ServiceStepKeeps ==
    ASSUME IInv, NEW p \in Clients, ServiceStep(p), RaceStep(p),
           NEW b \in Builder, builder' = [builder EXCEPT ![p] = b],
           NEW ll \in [Calls -> Nat], late' = [late EXCEPT ![p] = ll],
           HeldInv(p)', EndInv(p)'
    PROVE  IInv'
<1>1. TypeOK'
  BY DEF IInv, TypeOK, ServiceStep, RaceStep
<1>2. Others(p)
  BY DEF IInv, TypeOK, ServiceStep, Others, RaceStep
<1> QED BY <1>1, <1>2, OthersKeep DEF ProcessInv, ServiceStep

\* The device part is not touched at all.
LEMMA ServiceIdle ==
    ASSUME IInv, NEW p \in Clients, UNCHANGED <<dev, dcos, host, slow, filter, view>>
    PROVE  ServiceStep(p)
BY DEF IInv, TypeOK, ProcessInv, ServiceStep, DeviceInv, ViewInv

\* The object goes: its tunnel is taken down, its calls are dropped.
LEMMA RemoveObjectStep ==
    ASSUME IInv, NEW p \in Clients, dev[p] # None, RemoveObject(p),
           NEW others \in SUBSET ({p} \X {"dco", "route"}), Teardown(p, others),
           dcos' \subseteq dcos, filter' = filter
    PROVE  /\ ServiceStep(p) /\ dev'[p] = None /\ slow'[p] = {}
           /\ \A h \in others : h \notin host'
           /\ host' \subseteq host
<1>1. DeviceInv(p) /\ ViewInv(p) /\ TypeOK
  BY DEF IInv, ProcessInv
<1>2. dev' = [dev EXCEPT ![p] = None] /\ slow' = [slow EXCEPT ![p] = {}]
  BY DEF RemoveObject
<1>3. /\ dev'[p] = None /\ slow'[p] = {}
      /\ \A q \in Clients \ {p} : dev'[q] = dev[q] /\ slow'[q] = slow[q]
      /\ dev' \in [Clients -> Device \cup {None}] /\ slow' \in [Clients -> SUBSET Slow]
  BY <1>1, <1>2 DEF TypeOK
<1>4. /\ host' \subseteq host /\ view' \in [Subscribers -> SUBSET Items]
      /\ <<p, "tun">> \notin host'
      /\ \A h \in others : h \notin host'
      /\ \A q \in Clients \ {p}, x \in {"tun", "route"} : <<q, x>> \in host' <=> <<q, x>> \in host
      /\ \A s \in Subscribers, k \in ItemKinds :
           AddedEvent[k] \in filter[s] /\ RemovedEvent[k] \in filter[s] => <<p, k>> \notin view'[s]
      /\ \A q \in Clients \ {p}, s \in Subscribers, k \in ItemKinds : <<q, k>> \in view'[s] <=> <<q, k>> \in view[s]
  BY <1>1, TeardownFacts
<1>5. DeviceInv(p)' /\ ViewInv(p)'
  BY <1>3, <1>4 DEF DeviceInv, ViewInv
<1> QED BY <1>1, <1>3, <1>4, <1>5 DEF ServiceStep, TypeOK

LEMMA DestroyStep ==
    ASSUME IInv, NEW p \in Clients, dev[p] # None, NEW fault \in {"ok", "dns"},
           NEW rest \in SUBSET slow[p], Destroy(p, fault, rest), filter' = filter
    PROVE  /\ ServiceStep(p) /\ host' \subseteq host
           /\ fault = "ok" => dev'[p] = None
           /\ fault = "dns" => dev'[p] # None
<1>1. CASE fault = "ok"
  <2> DEFINE child == {q \in {p} : dev[p].dco}
  <2>1. RemoveObject(p) /\ dcos' = dcos \ child /\ Teardown(p, DCOInterface(child))
    BY <1>1 DEF Destroy
  <2>2. DCOInterface(child) \in SUBSET ({p} \X {"dco", "route"})
    BY DEF DCOInterface
  <2> QED BY <1>1, <2>1, <2>2, RemoveObjectStep
<1>2. CASE fault = "dns"
  <2> DEFINE d == [dev[p] EXCEPT !.failed = TRUE, !.watcher = FALSE]
  <2>1. /\ dev' = [dev EXCEPT ![p].failed = TRUE, ![p].watcher = FALSE]
        /\ slow' = [slow EXCEPT ![p] = rest] /\ UNCHANGED <<dcos, host, view>>
    BY <1>2 DEF Destroy
  <2>2. dev[p] \in Device
    BY DEF IInv, TypeOK
  <2>3. d \in Device /\ d.tunimpl = dev[p].tunimpl /\ d.vpnips = dev[p].vpnips /\ d.networks = dev[p].networks
    BY <2>2 DEF Device
  <2>4. dev' = [dev EXCEPT ![p] = d]
    BY <2>1 DEF IInv, TypeOK
  <2> HIDE DEF d
  <2>5. /\ dev' \in [Clients -> Device \cup {None}] /\ slow' \in [Clients -> SUBSET Slow]
        /\ dev'[p] = d /\ slow'[p] = rest /\ d # None
        /\ \A q \in Clients \ {p} : dev'[q] = dev[q] /\ slow'[q] = slow[q]
    BY <2>1, <2>3, <2>4, NoneAssumption DEF IInv, TypeOK
  <2>6. DeviceInv(p)'
    BY <2>1, <2>3, <2>5 DEF IInv, ProcessInv, DeviceInv
  <2>7. ViewInv(p)'
    BY <2>1, <2>3, <2>5 DEF IInv, ProcessInv, ViewInv, Announces
  <2> QED BY <1>2, <2>1, <2>5, <2>6, <2>7 DEF ServiceStep, IInv, TypeOK
<1> QED BY <1>1, <1>2

LEMMA DisableStep ==
    ASSUME IInv, NEW p \in Clients, dev[p] # None, NEW fault, Disable(p, fault),
           NEW rest \in SUBSET slow[p], slow' = [slow EXCEPT ![p] = rest], UNCHANGED <<dcos, filter>>
    PROVE  ServiceStep(p) /\ dev'[p] # None /\ host' \subseteq host /\ slow'[p] = rest
<1>0. dev[p] \in Device /\ TypeOK /\ DeviceInv(p) /\ ViewInv(p)
  BY DEF IInv, TypeOK, ProcessInv
<1>1. /\ slow' \in [Clients -> SUBSET Slow] /\ slow'[p] = rest
      /\ \A q \in Clients \ {p} : slow'[q] = slow[q]
  BY <1>0 DEF TypeOK
<1>2. CASE fault = "dns"
  <2>1. UNCHANGED <<dev, host, view>>
    BY <1>2 DEF Disable
  <2> QED BY <1>0, <1>1, <2>1 DEF ServiceStep, DeviceInv, ViewInv, TypeOK
<1>3. CASE fault # "dns"
  <2> DEFINE d == [dev[p] EXCEPT !.tunimpl = FALSE]
  <2>1. Teardown(p, {}) /\ dev' = [dev EXCEPT ![p] = d]
    BY <1>0, <1>3 DEF Disable, TypeOK
  <2>2. d \in Device /\ ~d.tunimpl /\ d # None
    BY <1>0, NoneAssumption DEF Device
  <2> HIDE DEF d
  <2>3. /\ dev' \in [Clients -> Device \cup {None}] /\ dev'[p] = d
        /\ \A q \in Clients \ {p} : dev'[q] = dev[q]
    BY <1>0, <2>1, <2>2 DEF TypeOK
  <2>4. /\ host' \subseteq host /\ view' \in [Subscribers -> SUBSET Items]
        /\ <<p, "tun">> \notin host'
        /\ \A q \in Clients \ {p}, x \in {"tun", "route"} : <<q, x>> \in host' <=> <<q, x>> \in host
        /\ \A s \in Subscribers, k \in ItemKinds :
             AddedEvent[k] \in filter[s] /\ RemovedEvent[k] \in filter[s] => <<p, k>> \notin view'[s]
        /\ \A q \in Clients \ {p}, s \in Subscribers, k \in ItemKinds : <<q, k>> \in view'[s] <=> <<q, k>> \in view[s]
    BY <1>0, <2>1, TeardownFacts
  <2>5. DeviceInv(p)' /\ ViewInv(p)'
    BY <1>1, <2>2, <2>3, <2>4 DEF DeviceInv, ViewInv
  <2> QED BY <1>0, <1>1, <2>2, <2>3, <2>4, <2>5 DEF ServiceStep, TypeOK
<1> QED BY <1>2, <1>3

\* The device is changed while it has no tunnel.
LEMMA ChangeStep ==
    ASSUME IInv, NEW p \in Clients, dev[p] # None, ~dev[p].tunimpl, NEW d \in Device, ~d.tunimpl,
           dev' = [dev EXCEPT ![p] = d], NEW calls \in SUBSET Slow, slow' = [slow EXCEPT ![p] = calls],
           dcos' \subseteq Clients, UNCHANGED <<filter, view>>,
           host' \subseteq Clients \X {"tun", "dco", "route"},
           \A q \in Clients, x \in {"tun", "route"} : <<q, x>> \in host' <=> <<q, x>> \in host
    PROVE  ServiceStep(p) /\ dev'[p] = d /\ dev'[p] # None /\ slow'[p] = calls
<1>1. /\ dev' \in [Clients -> Device \cup {None}] /\ dev'[p] = d /\ d # None
      /\ slow' \in [Clients -> SUBSET Slow] /\ slow'[p] = calls
      /\ \A q \in Clients \ {p} : dev'[q] = dev[q] /\ slow'[q] = slow[q]
  BY NoneAssumption DEF IInv, TypeOK
<1>2. <<p, "tun">> \notin host /\ <<p, "tun">> \notin host'
  BY DEF DeviceInv, IInv, ProcessInv
<1>3. DeviceInv(p)' /\ ViewInv(p)'
  BY <1>1, <1>2 DEF DeviceInv, ViewInv, IInv, ProcessInv
<1> QED BY <1>1, <1>3 DEF ServiceStep, IInv, TypeOK

LEMMA EstablishStep ==
    ASSUME IInv, NEW p \in Clients, dev[p] # None, ~dev[p].tunimpl, NEW d \in Device, ~d.tunimpl, NEW fault,
           Establish(p, d, fault), NEW rest \in SUBSET (slow[p] \ {"establish"}),
           slow' = [slow EXCEPT ![p] = rest], UNCHANGED <<dcos, filter>>
    PROVE  /\ ServiceStep(p) /\ dev'[p] # None /\ slow'[p] = rest
           /\ <<p, "route">> \in host' => <<p, "route">> \in host
<1>0. TypeOK /\ DeviceInv(p) /\ ViewInv(p)
  BY DEF IInv, ProcessInv
<1> DEFINE e == [d EXCEPT !.tunimpl = TRUE, !.watcher = @ \/ fault # "dns"]
<1>a. CASE dev' = [dev EXCEPT ![p] = d] /\ UNCHANGED <<host, view>>
  <2>1. rest \in SUBSET Slow /\ dcos' \subseteq Clients /\ host' \subseteq Clients \X {"tun", "dco", "route"}
    BY <1>0, <1>a DEF TypeOK
  <2> QED BY <1>a, <2>1, ChangeStep
<1> SUFFICES ASSUME dev' = [dev EXCEPT ![p] = e] /\ EstablishTun(p, e, fault)
             PROVE  /\ ServiceStep(p) /\ dev'[p] # None /\ slow'[p] = rest
                    /\ <<p, "route">> \in host' => <<p, "route">> \in host
  BY <1>a DEF Establish
<1>1. dev' = [dev EXCEPT ![p] = e] /\ EstablishTun(p, e, fault)
  OBVIOUS
<1>2. e \in Device /\ e.tunimpl /\ e # None
  BY NoneAssumption DEF Device
<1> HIDE DEF e
<1>3. /\ dev' \in [Clients -> Device \cup {None}] /\ dev'[p] = e
      /\ \A q \in Clients \ {p} : dev'[q] = dev[q] /\ slow'[q] = slow[q]
      /\ slow' \in [Clients -> SUBSET Slow] /\ slow'[p] = rest
  BY <1>0, <1>1, <1>2 DEF TypeOK
<1>4. /\ host' \subseteq host \cup {<<p, "tun">>} /\ host \subseteq host'
      /\ view' \in [Subscribers -> SUBSET Items]
      /\ \A s \in Subscribers, k \in ItemKinds :
           AddedEvent[k] \in filter[s] /\ RemovedEvent[k] \in filter[s] =>
               (<<p, k>> \in view'[s] <=> <<p, "tun">> \in host' /\ Announces(e, k))
      /\ \A q \in Clients \ {p}, s \in Subscribers, k \in ItemKinds : <<q, k>> \in view'[s] <=> <<q, k>> \in view[s]
  BY <1>0, <1>1, <1>2, EstablishFacts
<1>5. DeviceInv(p)' /\ ViewInv(p)'
  BY <1>2, <1>3, <1>4 DEF DeviceInv, ViewInv
<1>6. \A q \in Clients \ {p}, x \in {"tun", "route"} : <<q, x>> \in host' <=> <<q, x>> \in host
  BY <1>4
<1>7. host' \subseteq Clients \X {"tun", "dco", "route"}
  BY <1>0, <1>4 DEF TypeOK
<1> QED BY <1>0, <1>2, <1>3, <1>4, <1>5, <1>6, <1>7 DEF ServiceStep, TypeOK

LEMMA CreateStep ==
    ASSUME IInv, NEW p \in Clients, CreateVirtualInterface(p), UNCHANGED <<dcos, host, slow, filter, view>>
    PROVE  ServiceStep(p) /\ dev'[p] # None /\ ~dev'[p].tunimpl /\ slow'[p] = {}
<1>1. dev[p] = None /\ dev' = [dev EXCEPT ![p] = NewDevice] /\ NewDevice # None
  BY NewDeviceType, NoneAssumption DEF CreateVirtualInterface
<1>2. /\ dev' \in [Clients -> Device \cup {None}] /\ dev'[p] = NewDevice
      /\ \A q \in Clients \ {p} : dev'[q] = dev[q]
  BY <1>1, NewDeviceType DEF IInv, TypeOK
<1>3. slow[p] = {} /\ <<p, "tun">> \notin host
  BY <1>1 DEF IInv, ProcessInv, DeviceInv
<1>4. DeviceInv(p)' /\ ViewInv(p)'
  BY <1>1, <1>2, <1>3 DEF IInv, ProcessInv, DeviceInv, ViewInv
<1> QED BY <1>1, <1>2, <1>3, <1>4, NewDeviceType DEF ServiceStep, IInv, TypeOK

LEMMA CleanupStep ==
    ASSUME IInv, NEW p \in Clients, Cleanup(p), filter' = filter
    PROVE  ServiceStep(p) /\ dev'[p] = None /\ <<p, "route">> \notin host'
<1>1. PICK match \in SUBSET (dcos \cap {p}) :
        LET others == {<<p, "route">>} \cup DCOInterface(match) IN
        /\ dcos' = dcos \ match
        /\ IF dev[p] = None THEN host' = host \ others /\ UNCHANGED <<dev, slow, view>>
           ELSE RemoveObject(p) /\ Teardown(p, others)
  BY DEF Cleanup
<1> DEFINE others == {<<p, "route">>} \cup DCOInterface(match)
<1>2. others \in SUBSET ({p} \X {"dco", "route"}) /\ <<p, "route">> \in others
  BY DEF DCOInterface
<1> HIDE DEF others
<1>3. CASE dev[p] # None
  <2>1. RemoveObject(p) /\ Teardown(p, others) /\ dcos' \subseteq dcos
    BY <1>1, <1>3 DEF others
  <2> QED BY <1>2, <1>3, <2>1, RemoveObjectStep
<1>4. CASE dev[p] = None
  <2>1. host' = host \ others /\ UNCHANGED <<dev, slow, view>> /\ dcos' \subseteq dcos
    BY <1>1, <1>4 DEF others
  <2>2. \A q \in Clients, x \in {"tun", "route"} : q # p \/ x = "tun" => (<<q, x>> \in host' <=> <<q, x>> \in host)
    BY <1>2, <2>1
  <2>3. DeviceInv(p)' /\ ViewInv(p)'
    BY <2>1, <2>2 DEF IInv, ProcessInv, DeviceInv, ViewInv
  <2> QED BY <1>2, <1>4, <2>1, <2>2, <2>3 DEF ServiceStep, IInv, TypeOK
<1> QED BY <1>3, <1>4

-----------------------------------------------------------------------------
(* The calls of a builder *)

LEMMA ProcessTypes ==
    ASSUME IInv, NEW p \in Clients
    PROVE  /\ builder[p] \in Builder /\ late[p] \in [Calls -> Nat] /\ slow[p] \in SUBSET Slow
           /\ dev[p] \in Device \cup {None}
           /\ HeldInv(p) /\ DeviceInv(p) /\ EndInv(p) /\ ViewInv(p)
           /\ builder' = builder => builder' = [builder EXCEPT ![p] = builder[p]]
           /\ late' = late => late' = [late EXCEPT ![p] = late[p]]
           /\ slow' = slow => slow' = [slow EXCEPT ![p] = slow[p]]
           /\ \A x \in Builder : builder' = [builder EXCEPT ![p] = x] => builder'[p] = x
           /\ \A x \in [Calls -> Nat] : late' = [late EXCEPT ![p] = x] => late'[p] = x
BY DEF IInv, TypeOK, ProcessInv

\* The updates of a builder keep its type.
LEMMA UpdateTriesDevices ==
    ASSUME NEW b \in Builder, NEW n \in 0..3, NEW m \in Nat
    PROVE  [b EXCEPT !.tries = n, !.devices = m] \in Builder
BY DEF Builder

LEMMA UpdateLifeTries ==
    ASSUME NEW b \in Builder, NEW n \in 0..3, NEW l \in {"none", "running", "dead"}
    PROVE  [b EXCEPT !.life = l, !.tries = n] \in Builder
BY DEF Builder

LEMMA UpdateNew ==
    ASSUME NEW b \in Builder, NEW m \in Nat, NEW n \in Nat, NEW l \in {"none", "running", "dead"}, NEW st \in Steps
    PROVE  [b EXCEPT !.life = l, !.made = m, !.devices = n, !.step = st] \in Builder
BY DEF Builder

LEMMA UpdateDevice ==
    ASSUME NEW b \in Builder, NEW h \in BOOLEAN, NEW st \in Steps, NEW n \in 0..3
    PROVE  [b EXCEPT !.device = h, !.step = st, !.tries = n] \in Builder
BY DEF Builder

LEMMA UpdateTriesStep ==
    ASSUME NEW b \in Builder, NEW st \in Steps, NEW n \in 0..3
    PROVE  [b EXCEPT !.tries = n, !.step = st] \in Builder
BY DEF Builder

LEMMA OutcomesType == \A p \in Clients : /\ Outcomes(p, {"dns"}) \subseteq {"ok", "dns"}
                                         /\ Outcomes(p, {"dns", "tun"}) \subseteq {"ok", "dns", "tun"}
BY DEF Outcomes

\* Destroy, from a builder: in time, late, or not at all.
LEMMA CallDestroyStep ==
    ASSUME IInv, NEW p \in Clients, CallDestroy(p), filter' = filter
    PROVE  ServiceStep(p)
<1>1. CASE UNCHANGED <<dev, dcos, host, view, slow>>
  BY <1>1, ServiceIdle
<1>2. CASE dev[p] # None /\ \E fault \in Outcomes(p, {"dns"}) : Destroy(p, fault, slow[p])
  <2>1. PICK fault \in {"ok", "dns"} : Destroy(p, fault, slow[p])
    BY <1>2, OutcomesType
  <2> QED BY <1>2, <2>1, DestroyStep
<1>3. CASE dev[p] # None /\ TimesOut(p, "destroy")
  <2>1. slow' = [slow EXCEPT ![p] = slow[p] \cup {"destroy"}] /\ UNCHANGED <<dev, dcos, host, view>>
    BY <1>3 DEF TimesOut
  <2>2. /\ slow' \in [Clients -> SUBSET Slow] /\ slow'[p] = slow[p] \cup {"destroy"}
        /\ \A q \in Clients \ {p} : slow'[q] = slow[q]
    BY <2>1 DEF IInv, TypeOK, Slow
  <2>3. DeviceInv(p)' /\ ViewInv(p)'
    BY <1>3, <2>1, <2>2, ProcessTypes DEF DeviceInv, ViewInv
  <2> QED BY <2>1, <2>2, <2>3 DEF ServiceStep, IInv, TypeOK
<1> QED BY <1>1, <1>2, <1>3 DEF CallDestroy

LEMMA DropKeeps ==
    ASSUME IInv, NEW p \in Clients, Running(p), CallDestroy(p), UNCHANGED <<late, raced, filter>>,
           NEW b \in Builder, builder' = [builder EXCEPT ![p] = b],
           b.life = "running", ~b.device, b.step \in {"idle", "create", "ending"},
           b.step = "create" => b.tries \in 1..3
    PROVE  IInv'
<1>1. ServiceStep(p) /\ RaceStep(p) /\ late' = late
  BY CallDestroyStep, RacedStep
<1>2. builder'[p] = b /\ late[p] \in [Calls -> Nat] /\ late' = [late EXCEPT ![p] = late[p]]
  BY <1>1, ProcessTypes
<1>3. HeldInv(p)' /\ EndInv(p)'
  BY <1>2 DEF HeldInv, EndInv
<1> QED BY <1>1, <1>2, <1>3, ServiceStepKeeps

LEMMA DroppingKeeps ==
    ASSUME IInv, NEW p \in Clients, tun_builder_new(p) \/ TeardownDisconnect(p) \/ Destructor(p)
    PROVE  IInv'
<1>0. builder[p] \in Builder /\ builder[p].devices \in Nat
  BY ProcessTypes DEF Builder
<1>1. ASSUME NEW st \in {"idle", "create", "ending"}
      PROVE  /\ Dropped(p, st) \in Builder /\ Dropped(p, st).life = builder[p].life
             /\ ~Dropped(p, st).device /\ Dropped(p, st).step = st
             /\ Dropped(p, st).devices = builder[p].devices
  BY <1>0 DEF Dropped, Builder, Steps
<1>2. CASE TeardownDisconnect(p)
  <2>1. /\ Running(p) /\ CallDestroy(p) /\ UNCHANGED <<late, raced, filter>>
        /\ builder' = [builder EXCEPT ![p] = Dropped(p, "idle")]
    BY <1>2 DEF TeardownDisconnect
  <2> QED BY <1>1, <2>1, DropKeeps DEF Running
<1>3. CASE Destructor(p)
  <2>1. /\ Running(p) /\ CallDestroy(p) /\ UNCHANGED <<late, raced, filter>>
        /\ builder' = [builder EXCEPT ![p] = Dropped(p, "ending")]
    BY <1>3 DEF Destructor
  <2> QED BY <1>1, <2>1, DropKeeps DEF Running
<1>4. CASE tun_builder_new(p)
  <2> DEFINE b == [Dropped(p, "create") EXCEPT !.tries = 3, !.devices = builder[p].devices + 1]
  <2>1. b \in Builder /\ b.life = builder[p].life /\ ~b.device /\ b.step = "create" /\ b.tries \in 1..3
    <3>1. 3 \in 0..3 /\ builder[p].devices + 1 \in Nat /\ Dropped(p, "create") \in Builder
      BY <1>0, <1>1
    <3>2. b \in Builder
      BY <3>1, UpdateTriesDevices
    <3> QED BY <1>1, <3>1, <3>2 DEF Builder
  <2>2. /\ Running(p) /\ CallDestroy(p) /\ UNCHANGED <<late, raced, filter>>
        /\ builder' = [builder EXCEPT ![p] = b]
    BY <1>1, <1>4 DEF tun_builder_new
  <2> HIDE DEF b
  <2> QED BY <2>1, <2>2, DropKeeps DEF Running
<1> QED BY <1>2, <1>3, <1>4

LEMMA NewBuilderKeeps ==
    ASSUME IInv, NEW p \in Clients, NewBuilder(p) \/ Exit(p)
    PROVE  IInv'
<1>0. builder[p] \in Builder /\ late[p] \in [Calls -> Nat] /\ HeldInv(p) /\ builder[p].made \in Nat
  BY ProcessTypes DEF Builder
<1>1. UNCHANGED <<dev, dcos, host, slow, late, raced, filter, view>>
  BY DEF NewBuilder, Exit
<1>2. ServiceStep(p) /\ RaceStep(p) /\ late' = [late EXCEPT ![p] = late[p]]
  BY <1>1, ServiceIdle, RacedStep, ProcessTypes
<1>3. CASE NewBuilder(p)
  <2> DEFINE b == [builder[p] EXCEPT !.life = "running", !.made = builder[p].made + 1, !.devices = 0, !.step = "idle"]
  <2>1. builder' = [builder EXCEPT ![p] = b] /\ builder[p].life = "none"
    BY <1>0, <1>3 DEF NewBuilder, IInv, TypeOK
  <2>2. b \in Builder /\ b.life = "running" /\ b.device = builder[p].device /\ b.step = "idle"
    <3>1. builder[p].made + 1 \in Nat /\ 0 \in Nat /\ "idle" \in Steps
      BY <1>0 DEF Steps
    <3>2. b \in Builder
      BY <1>0, <3>1, UpdateNew
    <3> QED BY <1>0, <3>2 DEF Builder
  <2>3. builder'[p] = b
    BY <2>1, <2>2, ProcessTypes
  <2> HIDE DEF b
  <2>4. HeldInv(p)' /\ EndInv(p)'
    BY <1>0, <2>1, <2>2, <2>3 DEF HeldInv, EndInv
  <2> QED BY <1>0, <1>2, <2>1, <2>2, <2>4, ServiceStepKeeps
<1>4. CASE Exit(p)
  <2> DEFINE b == [Dropped(p, builder[p].step) EXCEPT !.life = "dead", !.tries = 0]
  <2>1. builder' = [builder EXCEPT ![p] = b]
    BY <1>4 DEF Exit
  <2>2. b \in Builder /\ b.life = "dead" /\ ~b.device
    <3>1. /\ 0 \in 0..3 /\ Dropped(p, builder[p].step) \in Builder
          /\ ~Dropped(p, builder[p].step).device
      <4>1. builder[p].step \in Steps
        BY <1>0 DEF Builder
      <4>2. 0 \in 0..3
        OBVIOUS
      <4>3. Dropped(p, builder[p].step) \in Builder /\ ~Dropped(p, builder[p].step).device
        BY <1>0, <4>1 DEF Builder, Dropped
      <4> QED BY <4>2, <4>3
    <3>2. b \in Builder
      BY <3>1, UpdateLifeTries
    <3> QED BY <3>1, <3>2 DEF Builder
  <2>3. builder'[p] = b
    BY <2>1, <2>2, ProcessTypes
  <2> HIDE DEF b
  <2>4. HeldInv(p)' /\ EndInv(p)'
    BY <2>2, <2>3 DEF HeldInv, EndInv
  <2> QED BY <1>0, <1>2, <2>1, <2>2, <2>4, ServiceStepKeeps
<1> QED BY <1>3, <1>4

LEMMA WaitsType ==
    ASSUME IInv, NEW p \in Clients, NEW call \in Calls, Waits(p, call)
    PROVE  \E ll \in [Calls -> Nat] :
             /\ late' = [late EXCEPT ![p] = ll] /\ late'[p] = ll /\ ll[call] # 0
             /\ \A c \in Calls : c # call => ll[c] = late[p][c]
<1> DEFINE ll == [late[p] EXCEPT ![call] = late[p][call] + 1]
<1>1. late[p] \in [Calls -> Nat] /\ late \in [Clients -> [Calls -> Nat]]
  BY DEF IInv, TypeOK
<1>2. late[p][call] + 1 \in Nat /\ late[p][call] + 1 # 0
  BY <1>1
<1>3. ll \in [Calls -> Nat] /\ ll[call] # 0 /\ \A c \in Calls : c # call => ll[c] = late[p][c]
  BY <1>1, <1>2
<1>4. late' = [late EXCEPT ![p] = ll]
  BY DEF Waits
<1>5. late'[p] = ll
  BY <1>1, <1>4
<1> QED BY <1>3, <1>4, <1>5

LEMMA CreateDeviceKeeps ==
    ASSUME IInv, NEW p \in Clients, create_device(p)
    PROVE  IInv'
<1>0. /\ builder[p] \in Builder /\ late[p] \in [Calls -> Nat] /\ HeldInv(p)
      /\ builder[p].life = "running" /\ builder[p].step = "create" /\ ~builder[p].device
      /\ builder[p].tries \in 1..3 /\ UNCHANGED <<slow, filter>>
  BY ProcessTypes DEF create_device, Running, HeldInv
<1>1. CASE CreateVirtualInterface(p)
  <2> DEFINE b == [builder[p] EXCEPT !.device = TRUE, !.step = "created", !.tries = 0]
  <2>1. /\ builder' = [builder EXCEPT ![p] = b] /\ Raced(p, "held", late[p]["cleanup"] > 0)
        /\ UNCHANGED <<dcos, host, view, late>>
    <3>1. dev[p] = None /\ dev'[p] # None
      BY <1>1, NewDeviceType, NoneAssumption DEF CreateVirtualInterface, IInv, TypeOK
    <3> QED BY <1>0, <3>1 DEF create_device, IInv, TypeOK
  <2>2. b \in Builder /\ b.life = "running" /\ b.device /\ b.step = "created"
    <3>1. 0 \in 0..3 /\ TRUE \in BOOLEAN /\ "created" \in Steps
      BY DEF Steps
    <3>2. b \in Builder
      BY <1>0, <3>1, UpdateDevice
    <3> QED BY <1>0, <3>2 DEF Builder
  <2>3. builder'[p] = b /\ late' = [late EXCEPT ![p] = late[p]]
    BY <2>1, <2>2, ProcessTypes
  <2> HIDE DEF b
  <2>4. ServiceStep(p) /\ dev'[p] # None /\ ~dev'[p].tunimpl /\ slow'[p] = {}
    BY <1>0, <1>1, <2>1, CreateStep
  <2> DEFINE met == late[p]["cleanup"] > 0
  <2>m. met \in BOOLEAN /\ Raced(p, "held", met)
    BY <2>1
  <2> HIDE DEF met
  <2>r. RaceStep(p) /\ (<<p, "held">> \in raced' <=> met)
    BY <2>m, RacedStep
  <2>5. RaceStep(p) /\ (<<p, "held">> \in raced' <=> late[p]["cleanup"] > 0)
    BY <2>r DEF met
  <2>6. late'[p] = late[p] /\ late[p]["cleanup"] \in Nat
    BY <1>0, <2>1 DEF Calls
  <2>7. HeldInv(p)' /\ EndInv(p)'
    BY <2>2, <2>3, <2>4, <2>5, <2>6 DEF HeldInv, EndInv
  <2> QED BY <1>0, <2>1, <2>2, <2>3, <2>4, <2>5, <2>7, ServiceStepKeeps
<1>2. CASE ~CreateVirtualInterface(p)
  <2> DEFINE b == [builder[p] EXCEPT !.tries = builder[p].tries - 1,
                                     !.step = IF builder[p].tries = 1 THEN "idle" ELSE "create"]
  <2>1. NextTry(p) /\ UNCHANGED <<dev, dcos, host, raced, view>> /\ (late' = late \/ Waits(p, "create"))
    BY <1>2 DEF create_device
  <2>2. builder' = [builder EXCEPT ![p] = b]
    BY <2>1 DEF NextTry, IInv, TypeOK
  <2>3. b \in Builder /\ b.life = "running" /\ ~b.device /\ b.step \in {"idle", "create"}
        /\ (b.step = "create" => b.tries \in 1..3)
    <3> DEFINE st == IF builder[p].tries = 1 THEN "idle" ELSE "create"
    <3>1. builder[p].tries - 1 \in 0..3 /\ st \in Steps
      BY <1>0 DEF Steps
    <3>2. b \in Builder
      BY <1>0, <3>1, UpdateTriesStep
    <3> QED BY <1>0, <3>2 DEF Builder
  <2>4. builder'[p] = b
    BY <2>2, <2>3, ProcessTypes
  <2> HIDE DEF b
  <2>5. PICK ll \in [Calls -> Nat] : late' = [late EXCEPT ![p] = ll]
    BY <2>1, ProcessTypes, WaitsType DEF Calls
  <2>6. ServiceStep(p) /\ RaceStep(p)
    BY <1>0, <2>1, ServiceIdle, RacedStep
  <2>7. HeldInv(p)' /\ EndInv(p)'
    BY <2>3, <2>4 DEF HeldInv, EndInv
  <2> QED BY <2>2, <2>3, <2>5, <2>6, <2>7, ServiceStepKeeps
<1> QED BY <1>1, <1>2

\* The builder goes on with the device it holds.
LEMMA HoldingKeeps ==
    ASSUME IInv, NEW p \in Clients, builder[p].life = "running", builder[p].device,
           ServiceStep(p), UNCHANGED <<late, raced>>,
           NEW b \in Builder, builder' = [builder EXCEPT ![p] = b], b.life = "running", b.device,
           b.step \in {"idle", "built", "up", "failing"},
           dev[p] # None => dev'[p] # None, "destroy" \notin slow'[p],
           b.step \in {"built", "up"} => slow'[p] = {},
           b.step = "built" /\ dev'[p] # None => ~dev'[p].tunimpl
    PROVE  IInv'
<1>1. late[p] \in [Calls -> Nat] /\ late' = [late EXCEPT ![p] = late[p]] /\ RaceStep(p) /\ HeldInv(p)
  BY ProcessTypes, RacedStep
<1>2. builder'[p] = b
  BY ProcessTypes
<1>3. HeldInv(p)' /\ EndInv(p)'
  BY <1>1, <1>2 DEF HeldInv, EndInv
<1> QED BY <1>1, <1>3, ServiceStepKeeps

\* The object the builder holds is gone: the call does nothing.
LEMMA GoneKeeps ==
    ASSUME IInv, NEW p \in Clients, builder[p].life = "running", builder[p].device, dev[p] = None,
           UNCHANGED <<dev, dcos, host, slow, late, raced, filter, view>>,
           NEW b \in Builder, builder' = [builder EXCEPT ![p] = b], b.life = "running", b.device,
           b.step \in {"idle", "failing"}
    PROVE  IInv'
<1>1. ServiceStep(p)
  BY ServiceIdle
<1>2. slow'[p] = {} /\ dev'[p] = None
  BY ProcessTypes DEF DeviceInv
<1> QED BY <1>1, <1>2, HoldingKeeps

LEMMA UpdateStep ==
    ASSUME IInv, NEW p \in Clients, builder[p].life = "running", builder[p].device, NEW st \in Steps,
           builder' = [builder EXCEPT ![p].step = st]
    PROVE  \E b \in Builder : b.life = "running" /\ b.device /\ b.step = st /\ builder' = [builder EXCEPT ![p] = b]
<1> DEFINE b == [builder[p] EXCEPT !.step = st]
<1>1. builder[p] \in Builder
  BY ProcessTypes
<1>2. b \in Builder /\ b.life = "running" /\ b.device /\ b.step = st
  BY <1>1 DEF Builder
<1>3. builder' = [builder EXCEPT ![p] = b]
  BY DEF IInv, TypeOK
<1> QED BY <1>2, <1>3

\* The calls that describe the tunnel.
LEMMA DescribeKeeps ==
    ASSUME IInv, NEW p \in Clients, tun_builder_add_address(p)
    PROVE  IInv'
<1>0. /\ HeldInv(p) /\ builder[p].life = "running" /\ builder[p].step = "created"
      /\ UNCHANGED <<dcos, host, slow, late, raced, filter, view>>
  BY ProcessTypes DEF tun_builder_add_address, Running
<1>1. builder[p].device /\ slow[p] = {} /\ (dev[p] # None => dev[p] \in Device /\ ~dev[p].tunimpl)
  BY <1>0, ProcessTypes DEF HeldInv
<1>2. "idle" \in Steps /\ "built" \in Steps
  BY DEF Steps
<1>3. CASE dev[p] # None
  <2> DEFINE d == AddIPAddress(dev[p])
  <2>1. d \in Device /\ ~d.tunimpl
    BY <1>1, <1>3 DEF AddIPAddress, Device
  <2>2. dev' = [dev EXCEPT ![p] = d]
    BY <1>3 DEF tun_builder_add_address
  <2> HIDE DEF d
  <2>3. slow' = [slow EXCEPT ![p] = {}] /\ {} \in SUBSET Slow
    BY <1>0, <1>1, ProcessTypes
  <2>4. dcos' \subseteq Clients /\ host' \subseteq Clients \X {"tun", "dco", "route"}
    BY <1>0 DEF IInv, TypeOK
  <2>5. ServiceStep(p) /\ dev'[p] = d /\ dev'[p] # None /\ slow'[p] = {}
    BY <1>0, <1>1, <1>3, <2>1, <2>2, <2>3, <2>4, ChangeStep
  <2>6. PICK st \in {"built", "idle"} : builder' = [builder EXCEPT ![p].step = st]
    BY <1>3 DEF tun_builder_add_address
  <2>7. PICK b \in Builder : b.life = "running" /\ b.device /\ b.step = st /\ builder' = [builder EXCEPT ![p] = b]
    BY <1>0, <1>1, <1>2, <2>6, UpdateStep
  <2> QED BY <1>0, <1>1, <2>1, <2>5, <2>7, HoldingKeeps
<1>4. CASE dev[p] = None
  <2>1. builder' = [builder EXCEPT ![p].step = "idle"] /\ dev' = dev
    BY <1>4 DEF tun_builder_add_address
  <2>2. PICK b \in Builder : b.life = "running" /\ b.device /\ b.step = "idle" /\ builder' = [builder EXCEPT ![p] = b]
    BY <1>0, <1>1, <1>2, <2>1, UpdateStep
  <2> QED BY <1>0, <1>1, <1>4, <2>1, <2>2, GoneKeeps
<1> QED BY <1>3, <1>4

LEMMA DcoKeeps ==
    ASSUME IInv, NEW p \in Clients, tun_builder_dco_enable(p)
    PROVE  IInv'
<1>0. /\ builder[p] \in Builder /\ HeldInv(p) /\ builder[p].life = "running" /\ builder[p].step = "built"
      /\ UNCHANGED <<slow, late, raced, filter, view>>
  BY ProcessTypes DEF tun_builder_dco_enable, Running
<1>1. builder[p].device /\ slow[p] = {} /\ (dev[p] # None => dev[p] \in Device /\ ~dev[p].tunimpl)
  BY <1>0, ProcessTypes DEF HeldInv
<1>2. slow' = [slow EXCEPT ![p] = {}] /\ {} \in SUBSET Slow /\ slow'[p] = {}
  BY <1>0, <1>1, ProcessTypes
<1>3. CASE dev[p] # None /\ EnableDCO(p) /\ builder' = [builder EXCEPT ![p].dco = TRUE]
  <2> DEFINE d == [dev[p] EXCEPT !.dco = TRUE]
             b == [builder[p] EXCEPT !.dco = TRUE]
  <2>1. /\ dev' = [dev EXCEPT ![p] = d] /\ dcos' = dcos \cup {p} /\ host' = host \cup {<<p, "dco">>}
        /\ builder' = [builder EXCEPT ![p] = b]
    BY <1>3 DEF EnableDCO, NewDCO, IInv, TypeOK
  <2>2. d \in Device /\ ~d.tunimpl
    BY <1>1, <1>3 DEF Device
  <2>3. b \in Builder /\ b.life = "running" /\ b.device /\ b.step = "built"
    BY <1>0, <1>1 DEF Builder
  <2> HIDE DEF d, b
  <2>4. /\ dcos' \subseteq Clients /\ host' \subseteq Clients \X {"tun", "dco", "route"}
        /\ \A q \in Clients, x \in {"tun", "route"} : <<q, x>> \in host' <=> <<q, x>> \in host
    BY <2>1 DEF IInv, TypeOK
  <2>5. ServiceStep(p) /\ dev'[p] = d /\ dev'[p] # None /\ slow'[p] = {}
    BY <1>0, <1>1, <1>2, <1>3, <2>1, <2>2, <2>4, ChangeStep
  <2> QED BY <1>0, <1>1, <2>1, <2>2, <2>3, <2>5, HoldingKeeps
<1>4. CASE builder' = [builder EXCEPT ![p].step = "idle"] /\ UNCHANGED <<dev, dcos, host>>
  <2>1. PICK b \in Builder : b.life = "running" /\ b.device /\ b.step = "idle" /\ builder' = [builder EXCEPT ![p] = b]
    BY <1>0, <1>1, <1>4, UpdateStep DEF Steps
  <2>2. ServiceStep(p)
    BY <1>0, <1>4, ServiceIdle
  <2> QED BY <1>0, <1>1, <1>2, <1>4, <2>1, <2>2, HoldingKeeps
<1> QED BY <1>3, <1>4 DEF tun_builder_dco_enable

LEMMA EstablishKeeps ==
    ASSUME IInv, NEW p \in Clients, tun_builder_establish(p)
    PROVE  IInv'
<1>0. /\ HeldInv(p) /\ builder[p].life = "running" /\ builder[p].step = "built"
      /\ UNCHANGED <<dcos, late, raced, filter>>
  BY ProcessTypes DEF tun_builder_establish, Running
<1>1. builder[p].device /\ slow[p] = {} /\ (dev[p] # None => dev[p] \in Device /\ ~dev[p].tunimpl)
  BY <1>0, ProcessTypes DEF HeldInv
<1>2. /\ \A f : AfterEstablish(p, f) \in {"up", "idle", "failing"}
      /\ AfterEstablish(p, "timeout") \in {"idle", "failing"} /\ AfterEstablish(p, "gone") \in {"idle", "failing"}
      /\ {"up", "idle", "failing"} \subseteq Steps
  BY DEF AfterEstablish, Steps
<1>3. ASSUME NEW nets \in RouteLists, dev[p] # None
      PROVE  AddNetworks(dev[p], nets) \in Device /\ ~AddNetworks(dev[p], nets).tunimpl
  BY <1>1, <1>3, RoutesAssumption DEF AddNetworks, Device
<1>4. ASSUME NEW st \in {"up", "idle", "failing"}, builder' = [builder EXCEPT ![p].step = st],
             ServiceStep(p), dev'[p] # None, "destroy" \notin slow'[p], st = "up" => slow'[p] = {}
      PROVE  IInv'
  <2>1. PICK b \in Builder : b.life = "running" /\ b.device /\ b.step = st /\ builder' = [builder EXCEPT ![p] = b]
    BY <1>0, <1>1, <1>2, <1>4, UpdateStep
  <2> QED BY <1>0, <1>1, <1>4, <2>1, HoldingKeeps
<1>5. CASE dev[p] = None /\ EstablishFails(p, "gone") /\ UNCHANGED <<dev, slow>>
  <2>1. builder' = [builder EXCEPT ![p].step = AfterEstablish(p, "gone")] /\ UNCHANGED <<host, view>>
    BY <1>5 DEF EstablishFails
  <2>2. PICK b \in Builder : /\ b.life = "running" /\ b.device /\ b.step = AfterEstablish(p, "gone")
                             /\ builder' = [builder EXCEPT ![p] = b]
    BY <1>0, <1>1, <1>2, <2>1, UpdateStep
  <2> QED BY <1>0, <1>1, <1>2, <1>5, <2>1, <2>2, GoneKeeps
<1>6. CASE /\ dev[p] # None /\ slow' = slow
           /\ \E nets \in RouteLists, fault \in Outcomes(p, {"dns", "tun"}) :
                /\ Establish(p, AddNetworks(dev[p], nets), fault)
                /\ builder' = [builder EXCEPT ![p].step = AfterEstablish(p, fault)]
  <2>1. PICK nets \in RouteLists, fault \in Outcomes(p, {"dns", "tun"}) :
            /\ Establish(p, AddNetworks(dev[p], nets), fault)
            /\ builder' = [builder EXCEPT ![p].step = AfterEstablish(p, fault)]
    BY <1>6
  <2> DEFINE d == AddNetworks(dev[p], nets)
  <2>2. Establish(p, d, fault) /\ d \in Device /\ ~d.tunimpl
    BY <1>3, <1>6, <2>1
  <2>3. slow' = [slow EXCEPT ![p] = {}] /\ {} \in SUBSET (slow[p] \ {"establish"})
    BY <1>1, <1>6, ProcessTypes
  <2> HIDE DEF d
  <2>4. ServiceStep(p) /\ dev'[p] # None /\ slow'[p] = {}
    BY <1>0, <1>1, <1>6, <2>2, <2>3, EstablishStep
  <2> QED BY <1>2, <1>4, <2>1, <2>4
<1>7. CASE /\ dev[p] # None
           /\ \E nets \in RouteLists : dev' = [dev EXCEPT ![p] = AddNetworks(@, nets)]
           /\ slow' = [slow EXCEPT ![p] = @ \cup {"establish"}]
           /\ EstablishFails(p, "timeout")
  <2>0. PICK nets \in RouteLists : dev' = [dev EXCEPT ![p] = AddNetworks(dev[p], nets)]
    BY <1>7
  <2> DEFINE d == AddNetworks(dev[p], nets)
  <2>1. /\ slow' = [slow EXCEPT ![p] = {"establish"}] /\ {"establish"} \in SUBSET Slow
        /\ dev' = [dev EXCEPT ![p] = d] /\ d \in Device /\ ~d.tunimpl
    BY <1>1, <1>3, <1>7, <2>0 DEF Slow
  <2>2. builder' = [builder EXCEPT ![p].step = AfterEstablish(p, "timeout")] /\ UNCHANGED <<host, view>>
    BY <1>7 DEF EstablishFails
  <2>3. dcos' \subseteq Clients /\ host' \subseteq Clients \X {"tun", "dco", "route"}
    BY <1>0, <2>2 DEF IInv, TypeOK
  <2> HIDE DEF d
  <2>4. ServiceStep(p) /\ dev'[p] # None /\ slow'[p] = {"establish"}
    BY <1>0, <1>1, <1>7, <2>1, <2>2, <2>3, ChangeStep
  <2> QED BY <1>2, <1>4, <2>2, <2>4
<1> QED BY <1>5, <1>6, <1>7 DEF tun_builder_establish

LEMMA DisableKeeps ==
    ASSUME IInv, NEW p \in Clients, TeardownDisable(p)
    PROVE  IInv'
<1>0. /\ HeldInv(p) /\ builder[p].life = "running" /\ builder[p].step = "up" /\ UNCHANGED <<late, raced, filter>>
  BY ProcessTypes DEF TeardownDisable, Running
<1>1. builder[p].device /\ slow[p] = {} /\ builder[p] \in Builder
  BY <1>0, ProcessTypes DEF HeldInv
<1> DEFINE b == [builder[p] EXCEPT !.step = "idle", !.dco = FALSE]
<1>2. b \in Builder /\ b.life = "running" /\ b.device /\ b.step = "idle"
  BY <1>0, <1>1 DEF Builder, Steps
<1>3. builder' = [builder EXCEPT ![p] = b]
  BY <1>0 DEF TeardownDisable, IInv, TypeOK
<1> HIDE DEF b
<1>4. CASE dev[p] = None /\ UNCHANGED <<dev, dcos, host, view, slow>>
  BY <1>0, <1>1, <1>2, <1>3, <1>4, GoneKeeps
<1>5. CASE dev[p] # None /\ (\E fault \in Outcomes(p, {"dns"}) : Disable(p, fault)) /\ UNCHANGED <<dcos, slow>>
  <2>1. PICK fault : Disable(p, fault)
    BY <1>5
  <2>2. slow' = [slow EXCEPT ![p] = {}] /\ {} \in SUBSET slow[p]
    BY <1>1, <1>5, ProcessTypes
  <2>3. ServiceStep(p) /\ dev'[p] # None /\ slow'[p] = {}
    BY <1>0, <1>5, <2>1, <2>2, DisableStep
  <2> QED BY <1>0, <1>1, <1>2, <1>3, <2>3, HoldingKeeps
<1>6. CASE dev[p] # None /\ TimesOut(p, "disable")
  <2>1. slow' = [slow EXCEPT ![p] = {"disable"}] /\ UNCHANGED <<dev, dcos, host, view>>
    BY <1>1, <1>6 DEF TimesOut
  <2>2. /\ slow' \in [Clients -> SUBSET Slow] /\ slow'[p] = {"disable"}
        /\ \A q \in Clients \ {p} : slow'[q] = slow[q]
    BY <2>1 DEF IInv, TypeOK, Slow
  <2>3. DeviceInv(p)' /\ ViewInv(p)'
    BY <1>0, <1>6, <2>1, <2>2, ProcessTypes DEF DeviceInv, ViewInv
  <2>4. ServiceStep(p) /\ dev'[p] # None
    BY <1>0, <1>6, <2>1, <2>2, <2>3 DEF ServiceStep, IInv, TypeOK
  <2> QED BY <1>0, <1>1, <1>2, <1>3, <2>2, <2>4, HoldingKeeps
<1> QED BY <1>4, <1>5, <1>6 DEF TeardownDisable

\* ProtectSocket changes nothing but the route of the process.
LEMMA ProtectStep ==
    ASSUME IInv, NEW p \in Clients, ProtectSocket(p), UNCHANGED <<dev, dcos, slow, filter, view>>
    PROVE  ServiceStep(p)
<1>1. /\ host' \subseteq Clients \X {"tun", "dco", "route"}
      /\ \A q \in Clients : <<q, "tun">> \in host' <=> <<q, "tun">> \in host
      /\ \A q \in Clients \ {p} : <<q, "route">> \in host' <=> <<q, "route">> \in host
  BY DEF IInv, TypeOK, ProtectSocket
<1>2. DeviceInv(p)' /\ ViewInv(p)'
  BY <1>1, ProcessTypes DEF DeviceInv, ViewInv
<1> QED BY <1>1, <1>2 DEF ServiceStep, IInv, TypeOK

LEMMA ProtectKeeps ==
    ASSUME IInv, NEW p \in Clients, socket_protect(p)
    PROVE  IInv'
<1>0. /\ builder[p] \in Builder /\ HeldInv(p) /\ late[p] \in [Calls -> Nat] /\ builder[p].life = "running"
      /\ UNCHANGED <<builder, dev, dcos, slow, raced, filter, view>>
      /\ (ProtectSocket(p) /\ late' = late) \/ (Waits(p, "protect") /\ host' = host)
  BY ProcessTypes DEF socket_protect, Running
<1>1. ServiceStep(p) /\ RaceStep(p) /\ builder' = [builder EXCEPT ![p] = builder[p]]
  BY <1>0, ProtectStep, ServiceIdle, RacedStep, ProcessTypes
<1>2. PICK ll \in [Calls -> Nat] : late' = [late EXCEPT ![p] = ll] /\ late'[p] = ll /\ ll["cleanup"] = late[p]["cleanup"]
  BY <1>0, ProcessTypes, WaitsType DEF Calls
<1>3. HeldInv(p)' /\ EndInv(p)'
  BY <1>0, <1>2 DEF HeldInv, EndInv
<1> QED BY <1>0, <1>1, <1>2, <1>3, ServiceStepKeeps

\* A builder ends: its Cleanup waits.
LEMMA DestructorEndKeeps ==
    ASSUME IInv, NEW p \in Clients, DestructorEnd(p)
    PROVE  IInv'
<1>0. /\ builder[p] \in Builder /\ HeldInv(p) /\ Waits(p, "cleanup") /\ Raced(p, "left", FALSE)
      /\ builder[p].life = "running" /\ builder[p].step = "ending"
      /\ UNCHANGED <<dev, dcos, host, slow, filter, view>>
  BY ProcessTypes DEF DestructorEnd, Running
<1> DEFINE b == [builder[p] EXCEPT !.life = "none"]
<1>1. b \in Builder /\ b.life = "none" /\ ~b.device
  BY <1>0 DEF Builder, HeldInv
<1>2. PICK ll \in [Calls -> Nat] : late' = [late EXCEPT ![p] = ll] /\ late'[p] = ll /\ ll["cleanup"] # 0
  BY <1>0, WaitsType DEF Calls
<1>3. builder' = [builder EXCEPT ![p] = b]
  BY DEF DestructorEnd, IInv, TypeOK
<1> HIDE DEF b
<1>4. builder'[p] = b
  BY <1>1, <1>3, ProcessTypes
<1>5. HeldInv(p)' /\ EndInv(p)'
  BY <1>1, <1>2, <1>4 DEF HeldInv, EndInv
<1>6. RaceStep(p)
  BY <1>0, RacedStep
<1> QED BY <1>0, <1>1, <1>2, <1>3, <1>5, <1>6, ServiceIdle, ServiceStepKeeps

-----------------------------------------------------------------------------
(* Waiting calls are served, and bus names disappear. *)

LEMMA ServeSlowKeeps ==
    ASSUME IInv, NEW p \in Clients, NEW call \in slow[p], ServeSlow(p, call)
    PROVE  IInv'
<1>0. /\ builder[p] \in Builder /\ late[p] \in [Calls -> Nat] /\ slow[p] \in SUBSET Slow
      /\ HeldInv(p) /\ DeviceInv(p) /\ EndInv(p) /\ UNCHANGED <<builder, late, raced, filter>> /\ RaceStep(p)
  BY ProcessTypes, RacedStep DEF ServeSlow
<1>1. dev[p] # None /\ dev[p] \in Device /\ slow[p] # {}
  BY <1>0, ProcessTypes DEF DeviceInv
<1> DEFINE rest == slow[p] \ {call}
<1>2. ServiceStep(p) /\ (call # "destroy" => dev'[p] # None /\ slow'[p] = rest)
  <2>1. CASE /\ call = "establish" /\ slow' = [slow EXCEPT ![p] = rest] /\ UNCHANGED dcos
             /\ \E fault \in Outcomes(p, {"dns", "tun"}) : Establish(p, dev[p], fault)
    <3>1. PICK fault : Establish(p, dev[p], fault)
      BY <2>1
    <3>2. ~dev[p].tunimpl /\ rest \in SUBSET (slow[p] \ {"establish"})
      BY <1>0, <2>1 DEF DeviceInv
    <3> HIDE DEF rest
    <3> QED BY <1>0, <1>1, <2>1, <3>1, <3>2, EstablishStep
  <2>2. CASE /\ call = "disable" /\ slow' = [slow EXCEPT ![p] = rest] /\ UNCHANGED dcos
             /\ \E fault \in Outcomes(p, {"dns"}) : Disable(p, fault)
    <3>1. PICK fault : Disable(p, fault)
      BY <2>2
    <3>2. rest \in SUBSET slow[p]
      OBVIOUS
    <3> HIDE DEF rest
    <3> QED BY <1>0, <1>1, <2>2, <3>1, <3>2, DisableStep
  <2>3. CASE call = "destroy" /\ \E fault \in Outcomes(p, {"dns"}) : Destroy(p, fault, rest)
    <3>1. PICK fault \in {"ok", "dns"} : Destroy(p, fault, rest)
      BY <2>3, OutcomesType
    <3>2. rest \in SUBSET slow[p]
      OBVIOUS
    <3> HIDE DEF rest
    <3> QED BY <1>0, <1>1, <2>3, <3>1, <3>2, DestroyStep
  <2> QED BY <2>1, <2>2, <2>3 DEF ServeSlow
<1>3. builder' = [builder EXCEPT ![p] = builder[p]] /\ late' = [late EXCEPT ![p] = late[p]]
  BY <1>0, ProcessTypes
<1>4. HeldInv(p)'
  BY <1>0, <1>1, <1>2 DEF HeldInv
<1>5. EndInv(p)'
  BY <1>0, <1>1 DEF EndInv
<1> QED BY <1>0, <1>2, <1>3, <1>4, <1>5, ServiceStepKeeps

LEMMA ServeLateKeeps ==
    ASSUME IInv, NEW p \in Clients, NEW call \in Calls, ServeLate(p, call)
    PROVE  IInv'
<1> DEFINE ll == [late[p] EXCEPT ![call] = late[p][call] - 1]
<1>0. /\ builder[p] \in Builder /\ late[p] \in [Calls -> Nat] /\ late[p][call] > 0
      /\ HeldInv(p) /\ DeviceInv(p) /\ EndInv(p) /\ UNCHANGED <<builder, filter>>
      /\ late' = [late EXCEPT ![p] = ll]
      /\ builder' = [builder EXCEPT ![p] = builder[p]]
  BY ProcessTypes DEF ServeLate
<1>1. late[p][call] - 1 \in Nat /\ late[p][call] # 0
  BY <1>0
<1>2. ll \in [Calls -> Nat] /\ ll[call] = late[p][call] - 1 /\ \A c \in Calls : c # call => ll[c] = late[p][c]
  BY <1>0, <1>1
<1> HIDE DEF ll
<1>3. late'[p] = ll
  BY <1>0, <1>2, ProcessTypes
<1>4. "create" \in Calls /\ "protect" \in Calls /\ "cleanup" \in Calls
  BY DEF Calls
<1>5. CASE call = "cleanup" /\ Cleanup(p) /\ IF Overtakes(p) THEN Raced(p, "left", TRUE) ELSE UNCHANGED raced
  <2>1. ServiceStep(p) /\ dev'[p] = None /\ <<p, "route">> \notin host'
    BY <1>0, <1>5, CleanupStep
  <2>2. /\ RaceStep(p) /\ (<<p, "held">> \in raced' <=> <<p, "held">> \in raced)
        /\ Overtakes(p) => <<p, "left">> \in raced'
    BY <1>5, RacedStep
  <2>3. slow'[p] = {}
    BY <2>1 DEF ServiceStep, DeviceInv
  <2>4. HeldInv(p)'
    BY <1>0, <1>1, <1>5, <2>1, <2>2, <2>3 DEF HeldInv
  <2>5. EndInv(p)'
    <3> SUFFICES ASSUME builder[p].life = "none", ll["cleanup"] = 0, ~Overtakes(p)
                 PROVE  ll["create"] = 0 /\ ll["protect"] = 0
      BY <1>0, <1>3, <2>1, <2>2 DEF EndInv
    <3>1. late[p]["cleanup"] = 1
      BY <1>0, <1>2, <1>4, <1>5
    <3>2. late[p]["create"] = 0 /\ late[p]["protect"] = 0
      BY <1>0, <1>4, <3>1 DEF Overtakes
    <3> QED BY <1>2, <1>4, <1>5, <3>2
  <2> QED BY <1>0, <1>2, <2>1, <2>2, <2>4, <2>5, ServiceStepKeeps
<1>6. CASE ~Known(p) /\ UNCHANGED <<dev, dcos, host, slow, raced, view>>
  <2>1. ServiceStep(p) /\ RaceStep(p)
    BY <1>0, <1>6, ServiceIdle, RacedStep
  <2>2. HeldInv(p)' /\ EndInv(p)'
    BY <1>0, <1>6 DEF HeldInv, EndInv, Known
  <2> QED BY <1>0, <1>2, <2>1, <2>2, ServiceStepKeeps
<1>7. CASE /\ call \in {"create", "protect"} /\ raced' = raced
           /\ \/ CreateVirtualInterface(p) /\ UNCHANGED <<dcos, host, slow, view>>
              \/ UNCHANGED <<dev, dcos, host, slow, view>>
              \/ ProtectSocket(p) /\ UNCHANGED <<dev, dcos, slow, view>>
  <2>1. ServiceStep(p) /\ RaceStep(p)
    BY <1>0, <1>7, CreateStep, ServiceIdle, ProtectStep, RacedStep
  <2>2. ll["cleanup"] = late[p]["cleanup"]
    BY <1>2, <1>4, <1>7
  <2>3. /\ dev[p] # None => dev'[p] # None /\ dev'[p] = dev[p]
        /\ dev'[p] # None /\ dev[p] = None => ~dev'[p].tunimpl
        /\ slow'[p] = slow[p]
    BY <1>7, ProcessTypes, NewDeviceType DEF CreateVirtualInterface, IInv, TypeOK
  <2>4. HeldInv(p)'
    BY <1>0, <1>3, <1>7, <2>2, <2>3 DEF HeldInv
  <2>5. EndInv(p)'
    BY <1>0, <1>1, <1>3, <1>7, <2>2 DEF EndInv
  <2> QED BY <1>0, <1>2, <2>1, <2>4, <2>5, ServiceStepKeeps
<1> QED BY <1>5, <1>6, <1>7 DEF ServeLate

LEMMA NameDisappearedKeeps ==
    ASSUME IInv, NEW p \in Clients, NameDisappeared(p)
    PROVE  IInv'
<1>0. /\ builder[p] \in Builder /\ late[p] \in [Calls -> Nat] /\ HeldInv(p) /\ builder[p].life = "dead"
      /\ dev[p] # None /\ UNCHANGED <<builder, late, raced, filter>> /\ RaceStep(p)
  BY ProcessTypes, RacedStep DEF NameDisappeared
<1>1. PICK fault \in {"ok", "dns"} : Destroy(p, fault, slow[p])
  BY OutcomesType DEF NameDisappeared
<1>2. ServiceStep(p)
  BY <1>0, <1>1, DestroyStep
<1>3. builder' = [builder EXCEPT ![p] = builder[p]] /\ late' = [late EXCEPT ![p] = late[p]]
  BY <1>0, ProcessTypes
<1>4. HeldInv(p)' /\ EndInv(p)'
  BY <1>0 DEF HeldInv, EndInv
<1> QED BY <1>0, <1>2, <1>3, <1>4, ServiceStepKeeps

-----------------------------------------------------------------------------
(* Subscriptions *)

LEMMA ConfiguredItems ==
    ASSUME IInv
    PROVE  /\ Configured \subseteq Items
           /\ \A q \in Clients, k \in ItemKinds :
                <<q, k>> \in Configured <=> <<q, "tun">> \in host /\ dev[q] # None /\ Announces(dev[q], k)
<1>1. Configured \subseteq Items
  BY ItemsOfDevice DEF Configured
<1>2. ASSUME NEW q \in Clients, NEW k \in ItemKinds
      PROVE  <<q, k>> \in Configured <=> <<q, "tun">> \in host /\ dev[q] # None /\ Announces(dev[q], k)
  <2>1. ASSUME <<q, k>> \in Configured PROVE <<q, "tun">> \in host /\ dev[q] # None /\ Announces(dev[q], k)
    <3>1. PICK r \in Clients : <<r, "tun">> \in host /\ dev[r] # None /\ <<q, k>> \in ItemsOf(dev[r], r)
      BY <2>1 DEF Configured
    <3>2. r = q
      BY <3>1, ItemsOfDevice
    <3> QED BY <3>1, <3>2, ItemsOfDevice
  <2>2. ASSUME <<q, "tun">> \in host, dev[q] # None, Announces(dev[q], k) PROVE <<q, k>> \in Configured
    BY <2>2, ItemsOfDevice DEF Configured
  <2> QED BY <2>1, <2>2
<1> QED BY <1>1, <1>2

LEMMA SubscriptionsKeep ==
    ASSUME IInv, NEW s \in Subscribers,
           (\E m \in Masks : Subscribe(s, m)) \/ \E k \in Subscribers \cup {None} : Unsubscribe(s, k)
    PROVE  IInv'
<1>1. PICK t \in Subscribers, m \in SUBSET Kinds, v \in SUBSET Items :
        /\ filter' = [filter EXCEPT ![t] = m] /\ view' = [view EXCEPT ![t] = v]
        /\ m = {} \/ v = Configured
        /\ UNCHANGED <<builder, dev, dcos, host, slow, late, raced>>
  <2>1. ASSUME NEW m \in Masks, Subscribe(s, m)
        PROVE  /\ filter' = [filter EXCEPT ![s] = m] /\ view' = [view EXCEPT ![s] = Configured]
               /\ m \in SUBSET Kinds /\ Configured \in SUBSET Items
               /\ UNCHANGED <<builder, dev, dcos, host, slow, late, raced>>
    BY <2>1, ConfiguredItems, SubscribersAssumption DEF Subscribe
  <2>2. ASSUME NEW k \in Subscribers \cup {None}, Unsubscribe(s, k)
        PROVE  /\ UnsubscribeKey(s, k) \in Subscribers
               /\ filter' = [filter EXCEPT ![UnsubscribeKey(s, k)] = {}]
               /\ view' = [view EXCEPT ![UnsubscribeKey(s, k)] = {}]
               /\ UNCHANGED <<builder, dev, dcos, host, slow, late, raced>>
    BY <2>2 DEF Unsubscribe, UnsubscribeKey
  <2> QED BY <2>1, <2>2
<1>2. TypeOK'
  BY <1>1 DEF IInv, TypeOK
<1>3. ASSUME NEW q \in Clients PROVE ProcessInv(q)'
  <2>1. HeldInv(q)' /\ DeviceInv(q)' /\ EndInv(q)'
    BY <1>1 DEF IInv, ProcessInv, HeldInv, DeviceInv, EndInv
  <2>2. ViewInv(q)'
    <3> SUFFICES ASSUME NEW u \in Subscribers, NEW k \in ItemKinds,
                        AddedEvent[k] \in filter'[u], RemovedEvent[k] \in filter'[u]
                 PROVE  <<q, k>> \in view'[u] <=> <<q, "tun">> \in host /\ dev[q] # None /\ Announces(dev[q], k)
      BY <1>1 DEF ViewInv
    <3>1. CASE u = t
      BY <1>1, <3>1, ConfiguredItems DEF IInv, TypeOK
    <3>2. CASE u # t
      BY <1>1, <3>2 DEF IInv, TypeOK, ProcessInv, ViewInv
    <3> QED BY <3>1, <3>2
  <2> QED BY <2>1, <2>2 DEF ProcessInv
<1> QED BY <1>2, <1>3 DEF IInv

-----------------------------------------------------------------------------
(* The invariant is inductive. *)

LEMMA Initial == Init => IInv
<1> SUFFICES ASSUME Init PROVE IInv
  OBVIOUS
<1> DEFINE b == [life |-> "none", made |-> 0, device |-> FALSE, dco |-> FALSE, step |-> "idle", tries |-> 0, devices |-> 0]
<1>1. 0 \in 0..3
  OBVIOUS
<1>2. b \in Builder /\ b.life = "none" /\ ~b.device
  BY <1>1 DEF Builder, Steps
<1>3. builder = [p \in Clients |-> b]
  BY DEF Init
<1> HIDE DEF b
<1>4. TypeOK
  BY <1>2, <1>3 DEF Init, TypeOK
<1>5. ASSUME NEW p \in Clients PROVE ProcessInv(p)
  BY <1>2, <1>3 DEF Init, ProcessInv, HeldInv, DeviceInv, EndInv, ViewInv, Calls
<1> QED BY <1>4, <1>5 DEF IInv

LEMMA Inductive == IInv /\ [Next]_vars => IInv'
<1> SUFFICES ASSUME IInv, [Next]_vars PROVE IInv'
  OBVIOUS
<1>1. CASE UNCHANGED vars
  BY <1>1 DEF vars, IInv, TypeOK, ProcessInv, HeldInv, DeviceInv, EndInv, ViewInv
<1>2. ASSUME NEW p \in Clients,
             \/ NewBuilder(p) \/ tun_builder_new(p) \/ create_device(p) \/ tun_builder_add_address(p)
             \/ tun_builder_dco_enable(p) \/ tun_builder_establish(p) \/ TeardownDisconnect(p) \/ TeardownDisable(p)
             \/ socket_protect(p) \/ Destructor(p) \/ DestructorEnd(p) \/ Exit(p) \/ Serve(p) \/ NameDisappeared(p)
      PROVE  IInv'
  <2>1. CASE NewBuilder(p) \/ Exit(p)
    BY <2>1, NewBuilderKeeps
  <2>2. CASE tun_builder_new(p) \/ TeardownDisconnect(p) \/ Destructor(p)
    BY <2>2, DroppingKeeps
  <2>3. CASE create_device(p)
    BY <2>3, CreateDeviceKeeps
  <2>4. CASE tun_builder_add_address(p)
    BY <2>4, DescribeKeeps
  <2>5. CASE tun_builder_dco_enable(p)
    BY <2>5, DcoKeeps
  <2>6. CASE tun_builder_establish(p)
    BY <2>6, EstablishKeeps
  <2>7. CASE TeardownDisable(p)
    BY <2>7, DisableKeeps
  <2>8. CASE socket_protect(p)
    BY <2>8, ProtectKeeps
  <2>9. CASE DestructorEnd(p)
    BY <2>9, DestructorEndKeeps
  <2>10. CASE Serve(p)
    BY <2>10, ServeLateKeeps, ServeSlowKeeps DEF Serve
  <2>11. CASE NameDisappeared(p)
    BY <2>11, NameDisappearedKeeps
  <2> QED BY <1>2, <2>1, <2>2, <2>3, <2>4, <2>5, <2>6, <2>7, <2>8, <2>9, <2>10, <2>11
<1>3. CASE \E s \in Subscribers : (\E m \in Masks : Subscribe(s, m)) \/ \E k \in Subscribers \cup {None} : Unsubscribe(s, k)
  BY <1>3, SubscriptionsKeep
<1> QED BY <1>1, <1>2, <1>3 DEF Next

LEMMA Invariant == Spec => []IInv
BY Initial, Inductive, PTL DEF Spec

-----------------------------------------------------------------------------
(* Results *)

\* The builders, the devices, the host, the waiting calls and the
\* subscriptions keep their types.
THEOREM TypeCorrect == Spec => []TypeOK
<1>1. IInv => TypeOK
  BY DEF IInv
<1> QED BY <1>1, Invariant, PTL

\* Whatever the number of processes, time-outs and waiting calls, served in any
\* order: nothing takes the device a running builder holds but a Cleanup of an
\* earlier builder that waited when the device was made
\* (core-client-netcfg.hpp, netcfg-service-handler.cpp).
THEOREM HeldDevicesExist == Spec => []HeldDeviceExists
<1>1. IInv => HeldDeviceExists
  BY DEF IInv, ProcessInv, HeldInv, HeldDeviceExists
<1> QED BY <1>1, Invariant, PTL

\* A living process whose builder ended and whose calls were served has no
\* device, no tunnel and no host route at the service, even if Destroy failed
\* or a Create came after its time-out, unless its last Cleanup overtook a call
\* (~NetCfgTunBuilder(), method_cleanup_process_resources()).
THEOREM EndedBuildersLeaveNothing == Spec => []NothingLeft
<1>1. IInv => NothingLeft
  BY DEF IInv, ProcessInv, DeviceInv, EndInv, NothingLeft, Calls
<1> QED BY <1>1, Invariant, PTL

\* A subscriber that follows a kind of item knows exactly which of them are
\* configured (doEstablishNotifies(), teardown()).
THEOREM SubscribersKnowTheItems == Spec => []SubscriberViewExact
<1>1. ASSUME IInv PROVE SubscriberViewExact
  <2> SUFFICES ASSUME NEW s \in Subscribers, NEW k \in ItemKinds, AddedEvent[k] \in filter[s], RemovedEvent[k] \in filter[s]
               PROVE  {i \in view[s] : i[2] = k} = {i \in Configured : i[2] = k}
    BY DEF SubscriberViewExact, ItemKinds
  <2>1. \A q \in Clients : <<q, k>> \in view[s] <=> <<q, k>> \in Configured
    BY <1>1, ConfiguredItems DEF IInv, ProcessInv, ViewInv
  <2>2. view[s] \subseteq Items /\ Configured \subseteq Items
    BY <1>1, ConfiguredItems DEF IInv, TypeOK
  <2>3. \A i \in Items : i[2] = k => \E q \in Clients : i = <<q, k>>
    BY DEF Items
  <2> QED BY <2>1, <2>2, <2>3
<1> QED BY <1>1, Invariant, PTL


-----------------------------------------------------------------------------
(* The AWS add-on: the inductive invariant *)

AwsLife == {"off", "running", "ending", "stopped"}

AwsSignal == {"ROUTE_ADDED", "ROUTE_REMOVED"} \X AwsRouteSet

AwsType ==
    /\ used \in [AwsDevices -> SUBSET AwsRouteSet] /\ failed \in [AwsDevices -> SUBSET AwsRouteSet]
    /\ signals \in Seq(AwsSignal)
    /\ addon \in AwsLife /\ faults \in Nat
    /\ routes \subseteq AwsRouteSet /\ table \subseteq AwsRouteSet

\* Two devices have the same route only if that is noted, and nothing waits for
\* an add-on that does not run.
AwsUse ==
    /\ \A d, e \in AwsDevices : d # e => Aws!Networks(d) \cap Aws!Networks(e) \subseteq shared
    /\ addon # "running" => signals = <<>>

\* A route of the table is one the add-on knows of, or is lost to it.
AwsKnown ==
    /\ table \subseteq routes \cup lost
    /\ addon \in {"off", "stopped"} => routes = {}
    /\ addon = "off" /\ faults = 0 => table = {}

\* The newest signal about route r is the i-th.
Newest(q, i, r) == q[i][2] = r /\ \A j \in 1..Len(q) : q[j][2] = r => j <= i

\* The newest signal that waits about a route says whether it is in use; the
\* table says so about a route of which no signal waits.
RouteKnown(r) ==
    /\ \A i \in 1..Len(signals) : Newest(signals, i, r) =>
         (signals[i][1] = "ROUTE_ADDED" <=> \E d \in AwsDevices : r \in used[d])
    /\ (\A i \in 1..Len(signals) : signals[i][2] # r) =>
         (r \in table <=> \E d \in AwsDevices : r \in used[d])

AwsFollow ==
    addon = "running" /\ faults = 0 => \A r \in AwsRouteSet : r \in shared \/ r \in before \/ RouteKnown(r)

AwsInv == AwsType /\ AwsUse /\ AwsKnown /\ AwsFollow

-----------------------------------------------------------------------------
(* The signals of a device that comes up or goes down *)

\* SetToSeq() lists each element of a finite set.
LEMMA SignalsListed ==
    ASSUME NEW S, IsFiniteSet(S)
    PROVE  /\ Aws!SetToSeq(S) \in Seq(S)
           /\ \A x \in S : \E i \in 1..Len(Aws!SetToSeq(S)) : Aws!SetToSeq(S)[i] = x
<1> DEFINE n == Cardinality(S)
           f == Aws!SetToSeq(S)
<1>1. n \in Nat /\ Bijection(1..n, S) # {}
  BY FS_CardinalityType, Fun_ExistsBij
<1>2. PICK g \in Bijection(1..n, S) : TRUE
  BY <1>1
<1>3. g \in [1..n -> S] /\ IsInjective(g)
  BY <1>2 DEF Bijection, Injection
<1>4. Aws!Cardinality(S) = n
  BY DEF Aws!Cardinality, Cardinality
<1>5. f = CHOOSE h \in [1..n -> S] : Aws!IsInjective(h)
  BY <1>4 DEF Aws!SetToSeq
<1>6. Aws!IsInjective(g)
  BY <1>3 DEF Aws!IsInjective, IsInjective
<1>7. f \in [1..n -> S] /\ Aws!IsInjective(f)
  BY <1>3, <1>5, <1>6
<1>8. f \in Injection(1..n, S)
  BY <1>7 DEF Injection, Aws!IsInjective, IsInjective
<1>9. IsFiniteSet(1..n) /\ Cardinality(1..n) = n
  BY <1>1, FS_Interval
<1>10. f \in Surjection(1..n, S)
  BY <1>8, <1>9, FS_Injection
<1>11. \A x \in S : \E i \in 1..n : f[i] = x
  BY <1>10 DEF Surjection
<1> HIDE DEF f, n
<1>12. f \in Seq(S) /\ Len(f) = n
  BY <1>1, <1>7
<1> QED BY <1>11, <1>12 DEF f

\* One new signal about each route, behind those that wait already.
LEMMA Notified ==
    ASSUME AwsType, NEW kind \in {"ROUTE_ADDED", "ROUTE_REMOVED"},
           NEW rs \in SUBSET AwsRouteSet, Aws!Notify(kind, rs)
    PROVE  /\ signals' \in Seq(AwsSignal)
           /\ addon # "running" => signals' = signals
           /\ addon = "running" =>
                /\ Len(signals') >= Len(signals)
                /\ \A i \in 1..Len(signals) : signals'[i] = signals[i]
                /\ \A i \in (Len(signals) + 1)..Len(signals') : signals'[i][1] = kind /\ signals'[i][2] \in rs
                /\ \A r \in rs : \E i \in (Len(signals) + 1)..Len(signals') : signals'[i][2] = r
<1> DEFINE S == {<<kind, r>> : r \in rs}
           q == Aws!SetToSeq(S)
<1>1. IsFiniteSet(S)
  <2>1. IsFiniteSet(rs)
    BY AwsRoutesAssumption, FS_Subset
  <2>2. [r \in rs |-> <<kind, r>>] \in Surjection(rs, S)
    BY DEF Surjection
  <2> QED BY <2>1, <2>2, FS_Surjection
<1>2. q \in Seq(S) /\ \A x \in S : \E i \in 1..Len(q) : q[i] = x
  BY <1>1, SignalsListed
<1>3. signals' = IF addon = "running" THEN signals \o q ELSE signals
  BY DEF Aws!Notify
<1> HIDE DEF q
<1>4. S \subseteq AwsSignal /\ signals \in Seq(AwsSignal)
  BY DEF AwsSignal, AwsType
<1>5. q \in Seq(AwsSignal)
  BY <1>2, <1>4
<1>6. /\ signals \o q \in Seq(AwsSignal)
      /\ Len(signals \o q) = Len(signals) + Len(q) /\ Len(q) \in Nat /\ Len(signals) \in Nat
      /\ \A i \in 1..Len(signals) : (signals \o q)[i] = signals[i]
      /\ \A i \in (Len(signals) + 1)..(Len(signals) + Len(q)) : (signals \o q)[i] = q[i - Len(signals)]
  BY <1>4, <1>5
<1>7. \A i \in 1..Len(q) : q[i][1] = kind /\ q[i][2] \in rs
  BY <1>2
<1>8. \A r \in rs : \E i \in 1..Len(q) : q[i][2] = r
  <2> SUFFICES ASSUME NEW r \in rs PROVE \E i \in 1..Len(q) : q[i][2] = r
    OBVIOUS
  <2>1. PICK i \in 1..Len(q) : q[i] = <<kind, r>>
    BY <1>2
  <2> QED BY <2>1
<1>9. ASSUME addon = "running"
      PROVE  /\ Len(signals') >= Len(signals)
             /\ \A i \in 1..Len(signals) : signals'[i] = signals[i]
             /\ \A i \in (Len(signals) + 1)..Len(signals') : signals'[i][1] = kind /\ signals'[i][2] \in rs
  BY <1>3, <1>6, <1>7, <1>9
<1>10. ASSUME addon = "running", NEW r \in rs
       PROVE  \E i \in (Len(signals) + 1)..Len(signals') : signals'[i][2] = r
  <2>1. PICK i \in 1..Len(q) : q[i][2] = r
    BY <1>8
  <2>2. (signals \o q)[Len(signals) + i] = q[i]
    BY <1>6, <2>1
  <2>3. Len(signals) + i \in (Len(signals) + 1)..Len(signals')
    BY <1>3, <1>6, <1>10
  <2> QED BY <1>3, <1>10, <2>1, <2>2, <2>3
<1> QED BY <1>3, <1>4, <1>6, <1>9, <1>10

-----------------------------------------------------------------------------
(* Steps of the sessions and of the add-on *)

LEMMA DeviceUpKeeps ==
    ASSUME AwsInv, NEW d \in AwsDevices, NEW rs \in SUBSET AwsRouteSet,
           Aws!DeviceUp(d, rs)
    PROVE  AwsInv'
<1>1. /\ used[d] = {} /\ failed[d] = {} /\ used' = [used EXCEPT ![d] = rs]
      /\ shared' = shared \cup (rs \cap Aws!Claimed) /\ Aws!Notify("ROUTE_ADDED", rs)
      /\ UNCHANGED <<failed, addon, routes, table, faults, lost, before>>
  BY DEF Aws!DeviceUp, Aws!Establishing, Aws!Networks
<1>2. used'[d] = rs /\ \A e \in AwsDevices \ {d} : used'[e] = used[e]
  BY <1>1 DEF AwsInv, AwsType
<1>3. \A r \in rs, e \in AwsDevices : r \in Aws!Networks(e) => r \in shared'
  BY <1>1 DEF Aws!Claimed
<1>4. shared \subseteq shared'
  BY <1>1
<1>5. /\ signals' \in Seq(AwsSignal)
      /\ addon # "running" => signals' = signals
      /\ addon = "running" =>
           /\ Len(signals') >= Len(signals)
           /\ \A i \in 1..Len(signals) : signals'[i] = signals[i]
           /\ \A i \in (Len(signals) + 1)..Len(signals') : signals'[i][1] = "ROUTE_ADDED" /\ signals'[i][2] \in rs
           /\ \A r \in rs : \E i \in (Len(signals) + 1)..Len(signals') : signals'[i][2] = r
  BY <1>1, Notified DEF AwsInv
<1>6. AwsType'
  BY <1>1, <1>5 DEF AwsInv, AwsType
<1>7. AwsUse'
  BY <1>1, <1>2, <1>3, <1>4, <1>5 DEF AwsInv, AwsUse, Aws!Networks
<1>8. AwsKnown'
  BY <1>1 DEF AwsInv, AwsKnown
<1>9. ASSUME addon = "running", faults = 0, NEW r \in AwsRouteSet, r \notin shared', r \notin before
      PROVE  RouteKnown(r)'
  <2>0. Len(signals) \in Nat /\ Len(signals') \in Nat
    BY <1>5 DEF AwsInv, AwsType
  <2>1. RouteKnown(r)
    BY <1>4, <1>9 DEF AwsInv, AwsFollow
  <2>2. CASE r \in rs
    <3>1. \E e \in AwsDevices : r \in used'[e]
      BY <1>2, <2>2
    <3>2. PICK k \in (Len(signals) + 1)..Len(signals') : signals'[k][2] = r
      BY <1>5, <1>9, <2>2
    <3>3. ASSUME NEW i \in 1..Len(signals'), Newest(signals', i, r)
          PROVE  signals'[i][1] = "ROUTE_ADDED"
      BY <1>5, <1>9, <2>0, <3>2, <3>3 DEF Newest
    <3> QED BY <2>0, <3>1, <3>2, <3>3 DEF RouteKnown
  <2>3. CASE r \notin rs
    <3>1. (\E e \in AwsDevices : r \in used'[e]) <=> (\E e \in AwsDevices : r \in used[e])
      BY <1>1, <1>2, <2>3
    <3>2. \A i \in 1..Len(signals') : signals'[i][2] = r => i \in 1..Len(signals) /\ signals'[i] = signals[i]
      BY <1>5, <1>9, <2>0, <2>3
    <3>3. 1..Len(signals) \subseteq 1..Len(signals') /\ \A i \in 1..Len(signals) : signals'[i] = signals[i]
      BY <1>5, <1>9, <2>0
    <3>4. ASSUME NEW i \in 1..Len(signals'), Newest(signals', i, r)
          PROVE  i \in 1..Len(signals) /\ Newest(signals, i, r) /\ signals'[i] = signals[i]
      BY <3>2, <3>3, <3>4 DEF Newest
    <3> QED BY <1>1, <2>1, <3>1, <3>2, <3>3, <3>4 DEF RouteKnown
  <2> QED BY <2>2, <2>3
<1>10. AwsFollow'
  BY <1>1, <1>9 DEF AwsFollow
<1> QED BY <1>6, <1>7, <1>8, <1>10 DEF AwsInv

LEMMA EstablishFailsKeeps ==
    ASSUME AwsInv, NEW d \in AwsDevices, NEW rs \in SUBSET AwsRouteSet, Aws!EstablishFails(d, rs)
    PROVE  AwsInv'
<1>1. /\ used[d] = {} /\ failed[d] = {} /\ failed' = [failed EXCEPT ![d] = rs]
      /\ shared' = shared \cup (rs \cap Aws!Claimed)
      /\ UNCHANGED <<used, signals, addon, routes, table, faults, lost, before>>
  BY DEF Aws!EstablishFails, Aws!Establishing, Aws!Networks
<1>2. failed'[d] = rs /\ \A e \in AwsDevices \ {d} : failed'[e] = failed[e]
  BY <1>1 DEF AwsInv, AwsType
<1>3. \A r \in rs, e \in AwsDevices : r \in Aws!Networks(e) => r \in shared'
  BY <1>1 DEF Aws!Claimed
<1>4. AwsType'
  BY <1>1 DEF AwsInv, AwsType
<1>5. AwsUse'
  BY <1>1, <1>2, <1>3 DEF AwsInv, AwsUse, Aws!Networks
<1>6. AwsKnown' /\ AwsFollow'
  BY <1>1 DEF AwsInv, AwsKnown, AwsFollow, RouteKnown, Newest
<1> QED BY <1>4, <1>5, <1>6 DEF AwsInv

LEMMA DeviceDownKeeps ==
    ASSUME AwsInv, NEW d \in AwsDevices, Aws!DeviceDown(d)
    PROVE  AwsInv'
<1> DEFINE rs == Aws!Networks(d)
<1>1. /\ used' = [used EXCEPT ![d] = {}] /\ failed' = [failed EXCEPT ![d] = {}] /\ before' = before \ used[d]
      /\ Aws!Notify("ROUTE_REMOVED", rs)
      /\ UNCHANGED <<addon, routes, table, faults, lost, shared>>
  BY DEF Aws!DeviceDown
<1>2. /\ used'[d] = {} /\ \A e \in AwsDevices \ {d} : used'[e] = used[e]
      /\ failed'[d] = {} /\ \A e \in AwsDevices \ {d} : failed'[e] = failed[e]
  BY <1>1 DEF AwsInv, AwsType
<1>3. rs \in SUBSET AwsRouteSet /\ used[d] \subseteq rs /\ \A e \in AwsDevices \ {d} : rs \cap used[e] \subseteq shared
  BY DEF AwsInv, AwsType, AwsUse, Aws!Networks
<1>5. /\ signals' \in Seq(AwsSignal)
      /\ addon # "running" => signals' = signals
      /\ addon = "running" =>
           /\ Len(signals') >= Len(signals)
           /\ \A i \in 1..Len(signals) : signals'[i] = signals[i]
           /\ \A i \in (Len(signals) + 1)..Len(signals') : signals'[i][1] = "ROUTE_REMOVED" /\ signals'[i][2] \in rs
           /\ \A r \in rs : \E i \in (Len(signals) + 1)..Len(signals') : signals'[i][2] = r
  BY <1>1, <1>3, Notified DEF AwsInv
<1> HIDE DEF rs
<1>6. AwsType'
  BY <1>1, <1>5 DEF AwsInv, AwsType
<1>7. AwsUse'
  BY <1>1, <1>2, <1>5 DEF AwsInv, AwsUse, Aws!Networks
<1>8. AwsKnown'
  BY <1>1 DEF AwsInv, AwsKnown
<1>9. ASSUME addon = "running", faults = 0, NEW r \in AwsRouteSet, r \notin shared, r \notin before'
      PROVE  RouteKnown(r)'
  <2>0. Len(signals) \in Nat /\ Len(signals') \in Nat
    BY <1>5 DEF AwsInv, AwsType
  <2>2. CASE r \in rs
    <3>1. ~\E e \in AwsDevices : r \in used'[e]
      BY <1>2, <1>3, <1>9, <2>2
    <3>2. PICK k \in (Len(signals) + 1)..Len(signals') : signals'[k][2] = r
      BY <1>5, <1>9, <2>2
    <3>3. ASSUME NEW i \in 1..Len(signals'), Newest(signals', i, r)
          PROVE  signals'[i][1] # "ROUTE_ADDED"
      BY <1>5, <1>9, <2>0, <3>2, <3>3 DEF Newest
    <3> QED BY <2>0, <3>1, <3>2, <3>3 DEF RouteKnown
  <2>3. CASE r \notin rs
    <3>0. RouteKnown(r)
      BY <1>1, <1>3, <1>9, <2>3 DEF AwsInv, AwsFollow
    <3>1. (\E e \in AwsDevices : r \in used'[e]) <=> (\E e \in AwsDevices : r \in used[e])
      BY <1>2, <1>3, <2>3
    <3>2. \A i \in 1..Len(signals') : signals'[i][2] = r => i \in 1..Len(signals) /\ signals'[i] = signals[i]
      BY <1>5, <1>9, <2>0, <2>3
    <3>3. 1..Len(signals) \subseteq 1..Len(signals') /\ \A i \in 1..Len(signals) : signals'[i] = signals[i]
      BY <1>5, <1>9, <2>0
    <3>4. ASSUME NEW i \in 1..Len(signals'), Newest(signals', i, r)
          PROVE  i \in 1..Len(signals) /\ Newest(signals, i, r) /\ signals'[i] = signals[i]
      BY <3>2, <3>3, <3>4 DEF Newest
    <3> QED BY <1>1, <3>0, <3>1, <3>2, <3>3, <3>4 DEF RouteKnown
  <2> QED BY <2>2, <2>3
<1>10. AwsFollow'
  BY <1>1, <1>9 DEF AwsFollow
<1> QED BY <1>6, <1>7, <1>8, <1>10 DEF AwsInv

LEMMA ProcessKeeps ==
    ASSUME AwsInv, Aws!process_network_change
    PROVE  AwsInv'
<1> DEFINE e == Head(signals)
           r0 == e[2]
<1>1. /\ addon = "running" /\ signals # <<>> /\ signals' = Tail(signals)
      /\ UNCHANGED <<used, failed, addon, shared, before>>
      /\ \/ e[1] = "ROUTE_ADDED" /\ Aws!replace_create_route(r0)
         \/ e[1] # "ROUTE_ADDED" /\ Aws!delete_route(r0) /\ UNCHANGED lost
  BY DEF Aws!process_network_change, Aws!Added
<1>2. signals \in Seq(AwsSignal) /\ faults \in Nat
  BY DEF AwsInv, AwsType
<1>3. /\ e \in AwsSignal /\ e = signals[1] /\ Len(signals) \in Nat \ {0}
      /\ signals' \in Seq(AwsSignal) /\ Len(signals') = Len(signals) - 1
      /\ \A i \in 1..Len(signals') : signals'[i] = signals[i + 1]
  BY <1>1, <1>2
<1>4. r0 \in AwsRouteSet
  BY <1>3 DEF AwsSignal
<1>5. /\ faults' \in Nat /\ (faults' = 0 => faults = 0)
      /\ table' \subseteq table \cup {r0} /\ table \subseteq table' \cup {r0}
      /\ routes' \subseteq routes \cup {r0}
      /\ table' \subseteq routes' \cup lost'
      /\ faults' = 0 => (r0 \in table' <=> e[1] = "ROUTE_ADDED")
  <2>1. CASE e[1] = "ROUTE_ADDED" /\ Aws!replace_create_route(r0)
    BY <1>2, <2>1 DEF Aws!replace_create_route, Aws!Fault, Aws!NoFault, AwsInv, AwsKnown
  <2>2. CASE e[1] # "ROUTE_ADDED" /\ Aws!delete_route(r0) /\ UNCHANGED lost
    BY <1>2, <2>2 DEF Aws!delete_route, Aws!Fault, Aws!NoFault, AwsInv, AwsKnown
  <2> QED BY <1>1, <2>1, <2>2
<1> HIDE DEF e
<1>6. AwsType'
  BY <1>1, <1>3, <1>4, <1>5 DEF AwsInv, AwsType
<1>7. AwsUse'
  BY <1>1 DEF AwsInv, AwsUse, Aws!Networks
<1>8. AwsKnown'
  BY <1>1, <1>5 DEF AwsKnown
<1>9. ASSUME faults' = 0, NEW r \in AwsRouteSet, r \notin shared, r \notin before
      PROVE  RouteKnown(r)'
  <2>1. RouteKnown(r)
    BY <1>1, <1>5, <1>9 DEF AwsInv, AwsFollow
  <2>2. ASSUME NEW i \in 1..Len(signals'), Newest(signals', i, r)
        PROVE  i + 1 \in 1..Len(signals) /\ Newest(signals, i + 1, r) /\ signals'[i] = signals[i + 1]
    <3>1. i + 1 \in 1..Len(signals) /\ signals'[i] = signals[i + 1]
      BY <1>3
    <3>2. ASSUME NEW j \in 1..Len(signals), signals[j][2] = r PROVE j <= i + 1
      <4>1. CASE j = 1
        BY <1>3, <4>1
      <4>2. CASE j # 1
        <5>1. j - 1 \in 1..Len(signals') /\ signals'[j - 1] = signals[j]
          BY <1>3, <4>2
        <5> QED BY <2>2, <3>2, <5>1, <1>3 DEF Newest
      <4> QED BY <4>1, <4>2
    <3> QED BY <2>2, <3>1, <3>2 DEF Newest
  <2>3. ASSUME \A i \in 1..Len(signals') : signals'[i][2] # r
        PROVE  r \in table' <=> \E d \in AwsDevices : r \in used[d]
    <3>1. \A j \in 1..Len(signals) : j # 1 => signals[j][2] # r
      <4> SUFFICES ASSUME NEW j \in 1..Len(signals), j # 1 PROVE signals[j][2] # r
        OBVIOUS
      <4>1. j - 1 \in 1..Len(signals') /\ signals'[j - 1] = signals[j]
        BY <1>3
      <4> QED BY <2>3, <4>1
    <3>2. CASE r = r0
      <4>1. 1 \in 1..Len(signals) /\ Newest(signals, 1, r)
        BY <1>3, <3>1, <3>2 DEF Newest
      <4> QED BY <1>3, <1>5, <1>9, <2>1, <3>2, <4>1 DEF RouteKnown
    <3>3. CASE r # r0
      <4>1. \A j \in 1..Len(signals) : signals[j][2] # r
        BY <1>3, <3>1, <3>3
      <4> QED BY <1>5, <2>1, <3>3, <4>1 DEF RouteKnown
    <3> QED BY <3>2, <3>3
  <2> QED BY <1>1, <2>1, <2>2, <2>3 DEF RouteKnown
<1>10. AwsFollow'
  BY <1>1, <1>9 DEF AwsFollow
<1> QED BY <1>6, <1>7, <1>8, <1>10 DEF AwsInv

LEMMA AddonKeeps ==
    ASSUME AwsInv, Aws!AWSObject \/ Aws!Unsubscribe \/ Aws!Stop \/ Aws!Crash
    PROVE  AwsInv'
<1>1. CASE Aws!AWSObject
  <2>1. /\ addon = "off" /\ UNCHANGED <<used, failed, signals, routes, table, lost, shared>>
        /\ addon' \in {"running", "stopped"} /\ before' = Aws!InUse
        /\ faults' \in Nat /\ (faults' = 0 => faults = 0)
    BY <1>1 DEF Aws!AWSObject, Aws!Fault, Aws!NoFault, AwsInv, AwsType
  <2>2. AwsType' /\ AwsUse' /\ AwsKnown'
    BY <2>1 DEF AwsInv, AwsType, AwsUse, Aws!Networks, AwsKnown, AwsLife
  <2>3. ASSUME faults' = 0, NEW r \in AwsRouteSet, r \notin before' PROVE RouteKnown(r)'
    <3>1. signals' = <<>> /\ table' = {}
      BY <2>1, <2>3 DEF AwsInv, AwsUse, Aws!Networks, AwsKnown
    <3>2. ~\E d \in AwsDevices : r \in used'[d]
      BY <2>1, <2>3 DEF Aws!InUse
    <3>3. ~\E i \in 1..Len(signals') : TRUE
      BY <3>1
    <3> QED BY <3>1, <3>2, <3>3 DEF RouteKnown
  <2> QED BY <2>2, <2>3 DEF AwsInv, AwsFollow
<1>2. CASE Aws!Unsubscribe
  <2>1. AwsType'
    BY <1>2 DEF Aws!Unsubscribe, AwsInv, AwsType, AwsLife
  <2>2. AwsUse' /\ AwsKnown' /\ AwsFollow'
    BY <1>2 DEF Aws!Unsubscribe, AwsInv, AwsUse, Aws!Networks, AwsKnown, AwsFollow
  <2> QED BY <2>1, <2>2 DEF AwsInv
<1>3. CASE Aws!Stop
  <2>1. AwsType'
    BY <1>3 DEF Aws!Stop, AwsInv, AwsType, AwsLife
  <2>2. AwsUse' /\ AwsKnown' /\ AwsFollow'
    BY <1>3 DEF Aws!Stop, AwsInv, AwsUse, Aws!Networks, AwsKnown, AwsFollow
  <2> QED BY <2>1, <2>2 DEF AwsInv
<1>4. CASE Aws!Crash
  <2>1. faults' \in Nat \ {0}
    BY <1>4 DEF Aws!Crash, Aws!Fault, AwsInv, AwsType
  <2>2. AwsType'
    BY <1>4, <2>1 DEF Aws!Crash, AwsInv, AwsType, AwsLife
  <2>3. AwsUse' /\ AwsKnown' /\ AwsFollow'
    BY <1>4, <2>1 DEF Aws!Crash, AwsInv, AwsUse, Aws!Networks, AwsKnown, AwsFollow
  <2> QED BY <2>2, <2>3 DEF AwsInv
<1> QED BY <1>1, <1>2, <1>3, <1>4

LEMMA RemoveRouteKeeps ==
    ASSUME AwsInv, NEW r \in AwsRouteSet, Aws!RemoveRoute(r)
    PROVE  AwsInv'
<1>1. /\ addon = "ending" /\ routes' = routes \ {r} /\ UNCHANGED <<used, failed, signals, addon, shared, before>>
      /\ faults' \in Nat /\ table' \subseteq table /\ lost \subseteq lost'
      /\ r \in table' => r \in lost'
  BY DEF Aws!RemoveRoute, Aws!Fault, Aws!NoFault, AwsInv, AwsType
<1>2. AwsType'
  BY <1>1 DEF AwsInv, AwsType
<1>3. AwsUse' /\ AwsKnown' /\ AwsFollow'
  BY <1>1 DEF AwsInv, AwsUse, Aws!Networks, AwsKnown, AwsFollow
<1> QED BY <1>2, <1>3 DEF AwsInv

LEMMA AwsStep ==
    ASSUME AwsInv, Aws!Next
    PROVE  AwsInv'
BY DeviceUpKeeps, EstablishFailsKeeps, DeviceDownKeeps, ProcessKeeps, AddonKeeps, RemoveRouteKeeps DEF Aws!Next

LEMMA AwsStart == Aws!Init => AwsInv
<1> SUFFICES ASSUME Aws!Init PROVE AwsInv
  OBVIOUS
<1>1. AwsType
  BY DEF Aws!Init, AwsType, AwsLife
<1> QED BY <1>1 DEF Aws!Init, AwsInv, AwsUse, Aws!Networks, AwsKnown, AwsFollow

LEMMA AwsShows == AwsInv => Aws!TableFollows
<1> SUFFICES ASSUME AwsInv PROVE Aws!TableFollows
  OBVIOUS
<1>1. ASSUME addon = "running", signals = <<>>, faults = 0 PROVE Aws!FollowsSessions
  <2> SUFFICES ASSUME NEW r \in AwsRouteSet, r \notin shared, r \notin before
               PROVE  r \in table <=> r \in Aws!InUse
    BY DEF Aws!FollowsSessions
  <2>1. RouteKnown(r)
    BY <1>1 DEF AwsInv, AwsFollow
  <2>2. ~\E i \in 1..Len(signals) : TRUE
    BY <1>1
  <2>3. r \in Aws!InUse <=> \E d \in AwsDevices : r \in used[d]
    BY DEF Aws!InUse
  <2> QED BY <2>1, <2>2, <2>3 DEF RouteKnown
<1>2. addon = "stopped" => table \subseteq lost
  BY DEF AwsInv, AwsKnown
<1> QED BY <1>1, <1>2 DEF Aws!TableFollows

(* The AWS add-on copies the routes of the sessions into the route table and *)
(* takes them out again, for any number of devices and routes and any number *)
(* of calls that fail: TableFollows of the behaviours with the add-on        *)
(* (AWSObject::process_network_change, AWSObject::~AWSObject).               *)
THEOREM TableFollowsHolds == MCSpec => []TableFollows
<1> DEFINE I == WithAddon => AwsInv
<1>1. MCInit => I
  BY AwsStart DEF MCInit, NoAddon, WithAddon
<1>2. I /\ [MCNext]_<<vars, awsVars>> => I'
  <2> SUFFICES ASSUME I, [MCNext]_<<vars, awsVars>>, WithAddon' PROVE AwsInv'
    OBVIOUS
  <2>1. CASE UNCHANGED awsVars
    <3>1. WithAddon
      BY <2>1 DEF WithAddon, awsVars
    <3> QED BY <2>1, <3>1 DEF awsVars, AwsInv, AwsType, AwsUse, Aws!Networks, AwsKnown, AwsFollow, RouteKnown, Newest
  <2>2. CASE WithAddon /\ Aws!Next
    BY <2>2, AwsStep
  <2> QED BY <2>1, <2>2 DEF MCNext
<1>3. I => TableFollows
  BY AwsShows DEF TableFollows
<1> QED BY <1>1, <1>2, <1>3, PTL DEF MCSpec
=============================================================================
