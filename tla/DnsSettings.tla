---------------------------- MODULE DnsSettings ----------------------------
(***************************************************************************)
(* The DNS settings of the network configuration service                   *)
(* (src/src/netcfg/dns): the ResolverSettings object of each virtual       *)
(* device, the SettingsManager that hands all of them to the resolver      *)
(* backend whenever one device changes, and the two backends: the          *)
(* resolv.conf file and systemd-resolved.                                  *)
(*                                                                         *)
(* A device is known by the index of its settings; a later device has a    *)
(* larger index.  Search domains are kept, merged and written by the same  *)
(* code as name servers and are not modelled a second time.                *)
(*                                                                         *)
(* The calls that reach ApplySettings() (Establish, Disable, Destroy) are  *)
(* served by a pool of threads (Workers); only ResolvConfFile::Commit()    *)
(* takes a lock.  A call is three steps: the Apply() of every device, the  *)
(* Commit() and what follows it.  A thread of its own sends the requests to*)
(* systemd-resolved.                                                       *)
(***************************************************************************)
EXTENDS Naturals, Sequences, FiniteSets, SequencesExt

CONSTANTS
    Devices,     \* the indices SettingsManager gives out
    Servers,     \* addresses of name servers
    Pushed,      \* the lists of name servers VPN servers push
    SysServers,  \* sequence: the name servers of the system's resolv.conf
    Backends,    \* subset of {"resolv.conf", "resolved"}
    Scopes,      \* DNS scopes of the profiles
    Transports,  \* transport modes a VPN server may push
    Workers,     \* threads serving method calls
    None,        \* no file, no call
    MaxBacklog,  \* requests waiting for systemd-resolved when a call starts
    MaxReuse,    \* how often a disabled device is established again
    MaxFaults    \* failing file operations in a behaviour

ASSUME DevicesAssumption == Devices \subseteq Nat \ {0} /\ IsFiniteSet(Devices)
ASSUME SysServersAssumption == SysServers \in Seq(Servers) /\ Pushed \subseteq Seq(Servers)
ASSUME ModesAssumption == Transports \subseteq {"unset", "plain", "dot", "doh"} /\ Scopes \subseteq {"global", "tunnel"}
ASSUME BackendsAssumption == Backends \subseteq {"resolv.conf", "resolved"}

VARIABLES
    backend,  \* the backend the service was started with
    stage,    \* of each device: absent, prepared, up, disabled or gone
    rs,       \* the ResolverSettings of each device
    resolvers,\* devices listed in SettingsManager::resolvers
    netif,    \* devices that have a network interface
    work,     \* the call each worker is serving
    rc,       \* the ResolvConfFile object and its files
    queue,    \* SystemdResolved::update_queue
    bg,       \* requests posted to the background thread, oldest first
    errors,   \* devices with an entry in the error storage
    reuse,    \* establishments of disabled devices so far
    faults,   \* failing file operations so far
    disturbed \* history: two calls ran at the same time, or an Apply() threw

vars == <<backend, stage, rs, resolvers, netif, work, rc, queue, bg, errors, reuse, faults, disturbed>>

-----------------------------------------------------------------------------
(* ResolverSettings *)

Settings == [servers: Seq(Servers), enabled: BOOLEAN, removal: BOOLEAN,
             scope: {"global", "tunnel"}, transport: {"unset", "plain", "dot", "doh"}]
NewSettings == [servers |-> <<>>, enabled |-> FALSE, removal |-> FALSE,
                scope |-> "tunnel", transport |-> "unset"]

ChangesAvailable(s) == s.servers # <<>>
Unseen(seq, seen) == SelectSeq(seq, LAMBDA x : x \notin seen)

\* Servers that are listed already are not added again.
AddNameServers(s, new) == [s EXCEPT !.servers = @ \o Unseen(new, ToSet(@))]

-----------------------------------------------------------------------------
(* ResolvConfFile *)

NewResolvConf == [file |-> SysServers, backup |-> None, active |-> FALSE,
                  vpn |-> <<>>, removed |-> {}, sys |-> <<>>, modified |-> 0, threw |-> FALSE]

\* Read(): a file that is missing is read as an empty one.
Read(c) == IF c.file = None THEN <<>> ELSE c.file

\* Apply(): the servers of an enabled device are appended, those of a disabled
\* one are remembered as removed, for as long as the service runs.
MutantApplyFile(c, s) == \* Mutant: the servers of a device are put before the ones applied earlier.
    [c EXCEPT !.vpn = IF s.enabled THEN Unseen(s.servers, ToSet(c.vpn)) \o @ ELSE @,
              !.removed = IF s.enabled THEN @ ELSE @ \cup ToSet(s.servers),
              !.modified = @ + 1]

ApplyFile(c, s) ==
    LET new == Unseen(s.servers, ToSet(c.vpn)) IN
    [c EXCEPT !.vpn = IF s.enabled THEN @ \o new ELSE @,
              !.removed = IF s.enabled THEN @ ELSE @ \cup ToSet(new),
              !.modified = @ + 1]

\* parse(): what the file holds and no session is known to have put there is
\* taken for a setting of the system.
Parse(c) ==
    [c EXCEPT !.sys = @ \o Unseen(Read(c), ToSet(@) \cup ToSet(c.vpn) \cup c.removed)]

\* generate() and Write(): the first write moves the system's file away.
Generate(c) ==
    [c EXCEPT !.file = c.vpn \o c.sys, !.vpn = <<>>, !.modified = 0, !.threw = FALSE,
              !.backup = IF c.active THEN @ ELSE c.file, !.active = TRUE]

RestoreBackup(c) ==
    [c EXCEPT !.file = IF c.active THEN c.backup ELSE @, !.sys = <<>>, !.threw = FALSE,
              !.backup = IF c.active THEN None ELSE @, !.active = FALSE]

CommitFile(c) ==
    LET p == Parse(c) IN IF p.modified > 0 THEN Generate(p) ELSE RestoreBackup(p)

\* A file operation fails and Commit() throws: the file cannot be moved away (what Apply() has
\* collected is gone by then, and modified_count stays), or to restore the backup the file cannot
\* be removed, or it is removed and the backup cannot be moved back.
CommitFileThrows(c) ==
    LET p == [Parse(c) EXCEPT !.threw = TRUE] IN
    IF p.modified > 0
    THEN IF p.active THEN {} ELSE {[p EXCEPT !.vpn = <<>>]}
    ELSE IF p.active THEN {p, [p EXCEPT !.file = None]} ELSE {}

\* The one that fails without a new fault: there is no file to remove.
CannotRestore(c) == c.modified = 0 /\ c.active /\ c.file = None

-----------------------------------------------------------------------------
(* SystemdResolved *)

Update(d, s) == [dev |-> d, enable |-> s.enabled, servers |-> s.servers,
                 route |-> s.scope = "global", transport |-> s.transport]

\* Apply(): the newest device is applied first and ends up at the back.
ApplyResolved(q, d, s) == <<Update(d, s)>> \o q

\* SetDNSOverTLS() throws for none of these, so that the "opportunistic" mode the code falls back
\* to is never used.
configure_transport(mode) ==
    IF mode \in {"plain", "dot"}
    THEN <<IF mode = "plain" THEN "no" ELSE "yes">>
    ELSE <<>>

\* The requests one entry of the queue posts to the background thread.
Requests(u) ==
    LET Req(op, v) == [dev |-> u.dev, op |-> op, value |-> v] IN
    IF ~u.enable
    THEN <<Req("RevertLink", None)>>
    ELSE <<Req("SetLinkDNS", u.servers), Req("SetLinkDefaultRoute", u.route)>>
         \o [i \in 1..Len(configure_transport(u.transport)) |->
                Req("SetLinkDNSOverTLS", configure_transport(u.transport)[i])]

\* The loop of Commit() counts up while the queue shrinks, so that it handles
\* the last half of it, rounded up; the rest is dropped.
Handled(q) == (Len(q) + 1) \div 2

MutantCommitResolved(q) == \* Mutant: the queue is worked off from the front.
    LET u == [i \in 1..Handled(q) |-> Requests(q[i])] IN FlattenSeq(u)

CommitResolved(q) ==
    LET u == [i \in 1..Handled(q) |-> Requests(q[Len(q) + 1 - i])] IN FlattenSeq(u)

-----------------------------------------------------------------------------
(* SettingsManager *)

\* The devices ApplySettings() hands to the backend, newest first.
Applied == {d \in resolvers : ChangesAvailable(rs[d]) /\ ~rs[d].removal}
NewestFirst(S) == SetToSortSeq(S, >)

\* systemd-resolved knows a device by its interface; without one Apply()
\* throws, which ends the loop and skips the Commit().
Throws == backend = "resolved" /\ ~(Applied \subseteq netif)

\* Settings marked for removal are dropped from the list up to the first
\* device, by age, that is not marked.
Dropped == {d \in resolvers : \A e \in resolvers : e <= d => rs[e].removal}

GetDNSservers == {s \in Servers : \E d \in resolvers : ~rs[d].removal /\ s \in ToSet(rs[d].servers)}

-----------------------------------------------------------------------------
(* The methods of a device that reach the settings. *)

Init ==
    /\ backend \in Backends
    /\ stage = [d \in Devices |-> "absent"]
    /\ rs = [d \in Devices |-> NewSettings]
    /\ resolvers = {} /\ netif = {} /\ errors = {}
    /\ work = [w \in Workers |-> None]
    /\ rc = NewResolvConf
    /\ queue = <<>> /\ bg = <<>>
    /\ reuse = 0 /\ faults = 0 /\ disturbed = FALSE

NotServed(d) == \A w \in Workers : work[w] # None => work[w].dev # d

\* The constructor of a device calls SettingsManager::NewResolverSettings(); its
\* client sets the dns_scope property at once.
NewResolverSettings(d) ==
    /\ stage[d] = "absent" /\ \A e \in Devices : e < d => stage[e] # "absent"
    /\ stage' = [stage EXCEPT ![d] = "prepared"]
    /\ resolvers' = resolvers \cup {d}
    /\ \E scope \in Scopes : rs' = [rs EXCEPT ![d].scope = scope]
    /\ UNCHANGED <<backend, faults, netif, work, rc, queue, bg, errors, reuse, disturbed>>

\* The client passes on what the VPN server pushed: AddDNS and SetDNSTransport.
Configure(d) ==
    /\ stage[d] \in {"prepared", "disabled"} /\ NotServed(d)
    /\ rs[d].servers = <<>>
    /\ \E list \in Pushed, mode \in Transports :
        rs' = [rs EXCEPT ![d] = [AddNameServers(@, list) EXCEPT !.transport = mode]]
    /\ UNCHANGED <<backend, faults, stage, resolvers, netif, work, rc, queue, bg, errors, reuse, disturbed>>

Serve(w, d, m) ==
    /\ work[w] = None /\ Len(bg) <= MaxBacklog
    /\ work' = [work EXCEPT ![w] = [call |-> m, dev |-> d, pc |-> "apply"]]
    /\ disturbed' = (disturbed \/ \E v \in Workers : work[v] # None)

\* With resolv.conf the settings are applied before the interface is set up,
\* with systemd-resolved after; setting it up may fail.
method_establish(w, d) ==
    /\ stage[d] \in {"prepared", "disabled"}
    /\ stage[d] = "disabled" => reuse < MaxReuse
    /\ NotServed(d)
    /\ Serve(w, d, "Establish")
    /\ reuse' = IF stage[d] = "disabled" THEN reuse + 1 ELSE reuse
    /\ stage' = [stage EXCEPT ![d] = "up"]
    /\ rs' = [rs EXCEPT ![d].enabled = TRUE]
    /\ \/ backend = "resolv.conf" /\ netif' = netif
       \/ backend = "resolved" /\ netif' \in {netif, netif \cup {d}}
    /\ UNCHANGED <<backend, faults, resolvers, rc, queue, bg, errors>>

method_disable(w, d) ==
    /\ stage[d] = "up" /\ NotServed(d)
    /\ Serve(w, d, "Disable")
    /\ stage' = [stage EXCEPT ![d] = "disabled"]
    /\ rs' = [rs EXCEPT ![d].enabled = FALSE]
    /\ UNCHANGED <<backend, faults, resolvers, netif, rc, queue, bg, errors, reuse>>

destroy(w, d) ==
    /\ stage[d] \in {"prepared", "up", "disabled"} /\ NotServed(d)
    /\ Serve(w, d, "Destroy")
    /\ stage' = [stage EXCEPT ![d] = "gone"]
    /\ rs' = [rs EXCEPT ![d].removal = TRUE]
    /\ UNCHANGED <<backend, faults, resolvers, netif, rc, queue, bg, errors, reuse>>

\* ApplySettings(), first half: Apply() for every device.
ApplyAll(w) ==
    /\ work[w] # None /\ work[w].pc = "apply"
    /\ IF backend = "resolv.conf"
       THEN /\ rc' = FoldLeft(LAMBDA c, d : ApplyFile(c, rs[d]), rc, NewestFirst(Applied))
            /\ work' = [work EXCEPT ![w].pc = "commit"]
            /\ UNCHANGED queue
       ELSE LET seen == IF Throws
                        THEN {d \in Applied : \A e \in Applied \ netif : d > e}
                        ELSE Applied
            IN /\ queue' = FoldLeft(LAMBDA q, d : ApplyResolved(q, d, rs[d]), queue, NewestFirst(seen))
               /\ work' = [work EXCEPT ![w].pc = IF Throws THEN "finish" ELSE "commit"]
               /\ UNCHANGED rc
    /\ disturbed' = (disturbed \/ Throws)
    /\ UNCHANGED <<backend, faults, stage, rs, resolvers, netif, bg, errors, reuse>>

Commit(w) ==
    /\ work[w] # None /\ work[w].pc = "commit"
    /\ IF backend = "resolv.conf"
       THEN /\ ~CannotRestore(rc)
            /\ rc' = CommitFile(rc)
            /\ UNCHANGED <<queue, bg, errors>>
       ELSE /\ bg' = bg \o CommitResolved(queue)
            /\ errors' = errors \ {queue[i].dev : i \in (Len(queue) + 1 - Handled(queue))..Len(queue)}
            /\ queue' = <<>>
            /\ UNCHANGED rc
    /\ work' = [work EXCEPT ![w].pc = "finish"]
    /\ UNCHANGED <<backend, faults, stage, rs, resolvers, netif, reuse, disturbed>>

\* ApplySettings() logs the exception of Commit() and goes on.
CommitThrows(w) ==
    /\ work[w] # None /\ work[w].pc = "commit" /\ backend = "resolv.conf"
    /\ \/ CannotRestore(rc) /\ rc' = [Parse(rc) EXCEPT !.threw = TRUE] /\ UNCHANGED faults
       \/ ~CannotRestore(rc) /\ faults < MaxFaults /\ faults' = faults + 1 /\ rc' \in CommitFileThrows(rc)
    /\ work' = [work EXCEPT ![w].pc = "finish"]
    /\ UNCHANGED <<backend, stage, rs, resolvers, netif, queue, bg, errors, reuse, disturbed>>

\* The clean-up of ApplySettings() and the rest of the device's method.
Finish(w) ==
    LET d == work[w].dev IN
    /\ work[w] # None /\ work[w].pc = "finish"
    /\ resolvers' = resolvers \ Dropped
    /\ \/ /\ work[w].call = "Establish"
          /\ IF backend = "resolv.conf" THEN netif' \in {netif, netif \cup {d}} ELSE netif' = netif
          /\ rs' = rs
       \/ /\ work[w].call = "Disable"
          /\ netif' = netif \ {d}
          /\ rs' = [rs EXCEPT ![d].servers = <<>>]
       \/ /\ work[w].call = "Destroy"
          /\ netif' = netif \ {d}
          /\ rs' = rs
    /\ work' = [work EXCEPT ![w] = None]
    /\ UNCHANGED <<backend, faults, stage, rc, queue, bg, errors, reuse, disturbed>>

\* The background thread sends the oldest request, up to three times; a failed
\* SetLinkDefaultRoute leaves an error, every other failure is only logged.
BackgroundCall(ok) ==
    /\ bg # <<>>
    /\ LET r == Head(bg) IN
        errors' = IF ~ok /\ r.op = "SetLinkDefaultRoute" THEN errors \cup {r.dev} ELSE errors
    /\ bg' = Tail(bg)
    /\ UNCHANGED <<backend, faults, stage, rs, resolvers, netif, work, rc, queue, reuse, disturbed>>

Next ==
    \/ \E d \in Devices : NewResolverSettings(d) \/ Configure(d)
    \/ \E w \in Workers, d \in Devices : method_establish(w, d) \/ method_disable(w, d) \/ destroy(w, d)
    \/ \E w \in Workers : ApplyAll(w) \/ Commit(w) \/ CommitThrows(w) \/ Finish(w)
    \/ \E ok \in BOOLEAN : BackgroundCall(ok)

Spec == Init /\ [][Next]_vars

-----------------------------------------------------------------------------
(* Properties *)

Quiet == \A w \in Workers : work[w] = None
UpDevices == {d \in Devices : stage[d] = "up" /\ ChangesAvailable(rs[d])}
PushedServers == UNION {ToSet(rs[d].servers) : d \in Devices}

\* TYPE: the settings, the files and the queues keep their types.
TypeOK ==
    /\ \A d \in Devices : rs[d] \in Settings
    /\ resolvers \subseteq Devices /\ netif \subseteq Devices /\ errors \subseteq Devices
    /\ rc.file \in Seq(Servers) \cup {None} /\ (rc.backup = None \/ rc.backup \in Seq(Servers))
    /\ rc.active = (rc.backup # None)
    /\ \A i \in 1..Len(queue) : queue[i].dev \in Devices

\* When no device is left that has DNS settings, resolv.conf is the system's again and no
\* backup of it lies around.
RestoredWhenIdle ==
    Quiet /\ (\A d \in Devices : stage[d] \in {"absent", "gone"}) => rc.file = SysServers /\ ~rc.active

\* The servers of the enabled devices come first, those of the newest device before all.
NewestServersFirst ==
    Quiet /\ UpDevices # {} =>
        LET want == FoldLeft(LAMBDA seq, d : seq \o Unseen(rs[d].servers, ToSet(seq)),
                             <<>>, NewestFirst(UpDevices))
        IN IsPrefix(want, Read(rc))

\* The other servers in the file are the system's or those of a device that was removed: parse()
\* takes the servers of a device that is removed while another is up for the system's own.
NothingElseInFile ==
    Quiet => \A s \in ToSet(Read(rc)) :
        \/ s \in ToSet(SysServers)
        \/ \E d \in Devices : stage[d] \in {"up", "gone"} /\ s \in ToSet(rs[d].servers)

\* The system's own name servers stay, except an address a VPN session pushed too.
SystemServersKept(kept) ==
    \A i \in 1..Len(SysServers) : SysServers[i] \in kept \cup PushedServers \cup rc.removed

(* RESOLV.CONF FOLLOWS: whatever devices come, change and go in whatever     *)
(* order, the servers of the VPN sessions come first, those of the device    *)
(* made last before the others ("The latest call gets precedence over the    *)
(* other calls", NewResolverSettings(); a device that is disabled and        *)
(* established again keeps its place), the servers of a disabled device are  *)
(* gone, the system's servers are kept and the file is restored in the end,  *)
(* as long as no two calls ran at the same time.  After a Commit() that threw*)
(* the system's servers are still in the file or in the backup, and the next *)
(* Commit() that does not throw brings the file up to date; that the file is *)
(* restored in the end is then no longer claimed (ApplySettings(), Apply(),  *)
(* Commit(), Write(), RestoreBackup()).                                      *)
ResolvConfFollows ==
    backend = "resolv.conf" /\ ~disturbed =>
        /\ faults = 0 => RestoredWhenIdle /\ NothingElseInFile
        /\ ~rc.threw => NewestServersFirst /\ SystemServersKept(ToSet(Read(rc)))
        /\ SystemServersKept(ToSet(Read(rc)) \cup IF rc.active THEN ToSet(rc.backup) ELSE {})

(* NEWEST LINK IS CONFIGURED: a change of the newest device reaches         *)
(* systemd-resolved although Commit() drops half of its queue, as long as   *)
(* every device with name servers had its interface whenever settings were  *)
(* applied: a request with its servers is posted, and nothing after it      *)
(* reverts them.                                                            *)
NewestLinkConfigured ==
    [][\A w \in Workers :
        /\ backend = "resolved" /\ ~disturbed
        /\ Commit(w) /\ work[w].call = "Establish"
        /\ \A d \in Applied : d <= work[w].dev
        /\ work[w].dev \in Applied
        => \E i \in 1..Len(bg') :
            /\ bg'[i].dev = work[w].dev /\ bg'[i].op = "SetLinkDNS"
            /\ bg'[i].value = rs[work[w].dev].servers
            /\ \A j \in i..Len(bg') : bg'[j].dev = work[w].dev => bg'[j].op # "RevertLink"]_vars
=============================================================================
