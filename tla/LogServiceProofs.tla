-------------------------- MODULE LogServiceProofs --------------------------
(***************************************************************************)
(* Proofs about the log service, for any number of sessions, client        *)
(* processes, receivers and forwarders: the client that serves a session   *)
(* now is the one whose log events are forwarded, whatever clean-up after  *)
(* its predecessors is still under way, and a listed receiver gets them.   *)
(* The last part is about the option files of the log and the netcfg       *)
(* service, for any programs that save them and any commands.              *)
(***************************************************************************)
EXTENDS MCLogService, FiniteSetTheorems, FunctionTheorems, SequenceTheorems, TLAPS

\* A session has one process at a time.
ProcInv ==
    \A c, d \in Clients : c[1] = d[1] /\ c[2] < d[2] /\ client[d] # "none" => client[c] = "dead"

\* A process stays attached until it leaves, and only then detaches.
AttachInv ==
    /\ \A c \in Clients : client[c] \in {"attaching", "attached", "running"} => <<c, "backends">> \in attached
    /\ \A t \in detaching : client[t[1]] \in {"leaving", "dead"}

IndexInv == \A c \in Clients : client[c] = "running" => index[c[1]] = c

IdleInv == idle <=> attached = {}

BackendInv ==
    \A s \in Sessions : /\ session[s].be # None => session[s].be[1] = s
                        /\ session[s].reg # "none" => ~session[s].fresh

TargetInv == \A t \in Tags : targets[t] \subseteq 1..Len(proxies)

\* The client of s, if it runs and the forwarders have been renewed for it,
\* has an object for each listed receiver.
Forwards(s) ==
    session[s].open /\ session[s].fresh /\ session[s].be # None /\ client[session[s].be] = "running" =>
        \A r \in present : session[s].log_forwarders[r] # None =>
            \E i \in targets[<<session[s].be, "backends">>] : proxies[i] = r

ForwardInv == \A s \in Sessions : Forwards(s)

IInv == TypeOK /\ ProcInv /\ AttachInv /\ IndexInv /\ IdleInv /\ BackendInv /\ TargetInv /\ ForwardInv

-----------------------------------------------------------------------------
(* SetToSeq() lists each element of a finite set *)

LEMMA SetToSeqLists ==
    ASSUME NEW S, IsFiniteSet(S)
    PROVE  /\ Cardinality(S) \in Nat
           /\ SetToSeq(S) \in [1..Cardinality(S) -> S]
           /\ \A x \in S : \E i \in 1..Cardinality(S) : SetToSeq(S)[i] = x
<1> DEFINE n == Cardinality(S)
           f == SetToSeq(S)
<1>1. n \in Nat /\ Bijection(1..n, S) # {}
  BY FS_CardinalityType, Fun_ExistsBij
<1>2. PICK g \in Bijection(1..n, S) : TRUE
  BY <1>1
<1>3. g \in [1..n -> S] /\ IsInjective(g)
  BY <1>2 DEF Bijection, Injection
<1>4. f \in [1..n -> S] /\ IsInjective(f)
  BY <1>3 DEF SetToSeq
<1>5. f \in Injection(1..n, S)
  BY <1>4 DEF Injection
<1>6. IsFiniteSet(1..n) /\ Cardinality(1..n) = n
  BY <1>1, FS_Interval
<1>7. f \in Surjection(1..n, S)
  BY <1>5, <1>6, FS_Injection
<1> QED BY <1>1, <1>4, <1>7, Fun_SurjectionProperties

-----------------------------------------------------------------------------
(* Steps of a client process *)

LEMMA LeaveExitKeeps ==
    ASSUME IInv, NEW c \in Clients, Leave(c) \/ Exit(c)
    PROVE  IInv'
<1>1. PICK new \in {"leaving", "dead"} :
        /\ client' = [client EXCEPT ![c] = new]
        /\ client[c] # "none" /\ client[c] # "dead" /\ (new = "leaving" => client[c] = "running")
        /\ UNCHANGED <<session, calls, present, attached, targets, detaching, index, proxies, exported, idle>>
  BY DEF Leave, Exit, Alive, service
<1>2. TypeOK'
  BY <1>1 DEF IInv, TypeOK, Life
<1>3. client'[c] = new /\ \A d \in Clients \ {c} : client'[d] = client[d]
  BY <1>1 DEF IInv, TypeOK
<1>4. ProcInv'
  BY <1>1, <1>3 DEF IInv, ProcInv
<1>5. AttachInv'
  BY <1>1, <1>3 DEF IInv, TypeOK, AttachInv, Tags
<1>6. IndexInv' /\ IdleInv' /\ BackendInv' /\ TargetInv'
  BY <1>1, <1>3 DEF IInv, IndexInv, IdleInv, BackendInv, TargetInv
<1>7. ForwardInv'
  BY <1>1, <1>3 DEF IInv, ForwardInv, Forwards, TypeOK, Session
<1> QED BY <1>2, <1>4, <1>5, <1>6, <1>7 DEF IInv

\* Attach: what is cleaned up belongs to processes that are gone.
LEMMA AttachKeeps ==
    ASSUME IInv, NEW c \in Clients, Start(c) \/ AttachSessions(c)
    PROVE  IInv'
<1>1. PICK k \in Interfaces :
        /\ method_attach(<<c, k>>)
        /\ \/ k = "backends" /\ client[c] = "none" /\ client' = [client EXCEPT ![c] = "attaching"]
              /\ (c[2] > 1 => client[<<c[1], c[2] - 1>>] = "dead")
           \/ client[c] = "attaching" /\ client' = [client EXCEPT ![c] = "attached"]
        /\ UNCHANGED <<session, calls, present>>
  BY DEF Start, AttachSessions, Interfaces
<1>2. /\ attached' = (attached \ Dangling) \cup {<<c, k>>}
      /\ index' = IndexWithout(Dangling) /\ targets' = TargetsWithout(Dangling) /\ idle' = FALSE
      /\ <<c, k>> \notin attached
      /\ UNCHANGED <<detaching, proxies, exported>>
  BY <1>1 DEF method_attach
<1>3. /\ <<c, k>> \in Tags
      /\ \A s \in Sessions : index'[s] \in {index[s], None} /\ (<<index[s], "backends">> \notin Dangling => index'[s] = index[s])
      /\ \A t \in Tags : targets'[t] \in {targets[t], {}} /\ (t \notin Dangling => targets'[t] = targets[t])
                         /\ (t \in Dangling => targets'[t] = {})
  BY <1>2 DEF IndexWithout, TargetsWithout, Tags
<1>4. /\ client' \in [Clients -> Life]
      /\ client'[c] \in {"attaching", "attached"} /\ client[c] \in {"none", "attaching"}
      /\ \A d \in Clients \ {c} : client'[d] = client[d]
      /\ client'[c] = "attaching" => k = "backends"
  BY <1>1 DEF IInv, TypeOK, Life
<1>5. TypeOK'
  <2>1. attached' \subseteq Tags
    BY <1>2, <1>3 DEF IInv, TypeOK
  <2>2. targets' \in [Tags -> SUBSET ProxyIds]
    BY <1>2 DEF IInv, TypeOK, TargetsWithout
  <2>3. index' \in [Sessions -> Clients \cup {None}]
    BY <1>2 DEF IInv, TypeOK, IndexWithout
  <2>4. \A t \in Tags : t \notin attached' => targets'[t] = {}
    BY <1>2, <1>3 DEF IInv, TypeOK
  <2> QED BY <1>1, <1>2, <1>4, <2>1, <2>2, <2>3, <2>4 DEF IInv, TypeOK
<1>6. ProcInv'
  <2> SUFFICES ASSUME NEW d \in Clients, NEW e \in Clients, d[1] = e[1], d[2] < e[2], client'[e] # "none"
               PROVE  client'[d] = "dead"
    BY DEF ProcInv
  <2>1. CASE client[e] # "none"
    <3>1. client[d] = "dead"
      BY <2>1 DEF IInv, ProcInv
    <3> QED BY <1>4, <3>1
  <2>2. CASE client[e] = "none"
    <3>1. e = c /\ d # c
      BY <1>4, <2>2 DEF Clients
    <3> DEFINE b == <<c[1], c[2] - 1>>
    <3>2. b \in Clients /\ client[b] = "dead" /\ b[1] = c[1] /\ b[2] = c[2] - 1
      BY <1>1, <2>2, <3>1, MaxProcsAssumption DEF Clients
    <3>3. d = b \/ d[2] < b[2]
      BY <3>1, <3>2, MaxProcsAssumption DEF Clients
    <3>4. client[d] = "dead"
      BY <3>1, <3>2, <3>3 DEF IInv, ProcInv
    <3> QED BY <1>4, <3>1, <3>4
  <2> QED BY <2>1, <2>2
<1>7. \A d \in Clients : client[d] \in {"attaching", "attached", "running"} => <<d, "backends">> \notin Dangling
  BY NoneAssumption DEF Dangling, Alive
<1>8. AttachInv'
  <2>1. ASSUME NEW d \in Clients, client'[d] \in {"attaching", "attached", "running"}
        PROVE  <<d, "backends">> \in attached'
    <3>1. CASE client[d] \in {"attaching", "attached", "running"}
      BY <1>2, <1>7, <3>1 DEF IInv, AttachInv
    <3>2. CASE client[d] \notin {"attaching", "attached", "running"}
      BY <1>1, <1>2, <1>4, <2>1, <3>2
    <3> QED BY <3>1, <3>2
  <2>2. ASSUME NEW t \in detaching' PROVE client'[t[1]] \in {"leaving", "dead"}
    <3>1. t \in detaching /\ t[1] \in Clients
      BY <1>2, <2>2 DEF IInv, TypeOK, Tags
    <3>2. client[t[1]] \in {"leaving", "dead"}
      BY <3>1 DEF IInv, AttachInv
    <3> QED BY <1>4, <3>1, <3>2
  <2> QED BY <2>1, <2>2 DEF AttachInv
<1>9. IndexInv' /\ IdleInv' /\ BackendInv'
  <2>1. ASSUME NEW d \in Clients, client'[d] = "running" PROVE index'[d[1]] = d
    <3>1. client[d] = "running" /\ d[1] \in Sessions
      BY <1>4, <2>1 DEF Clients
    <3>2. index[d[1]] = d /\ <<d, "backends">> \notin Dangling
      BY <1>7, <3>1 DEF IInv, IndexInv
    <3> QED BY <1>3, <3>1, <3>2
  <2>2. IdleInv' /\ BackendInv'
    BY <1>1, <1>2 DEF IInv, IdleInv, BackendInv
  <2> QED BY <2>1, <2>2 DEF IndexInv
<1>10. TargetInv'
  BY <1>2, <1>3 DEF IInv, TargetInv
<1>11. ForwardInv'
  <2> SUFFICES ASSUME NEW s \in Sessions PROVE Forwards(s)'
    BY DEF ForwardInv
  <2>1. session[s].be # None => session[s].be \in Clients /\ <<session[s].be, "backends">> \in Tags
    BY DEF IInv, TypeOK, Session, Tags, Interfaces
  <2> QED BY <1>1, <1>2, <1>3, <1>4, <1>7, <2>1 DEF IInv, ForwardInv, Forwards
<1> QED BY <1>5, <1>6, <1>8, <1>9, <1>10, <1>11 DEF IInv

\* The removal of tags of processes that have left or are gone.
LEMMA RemovalKeeps ==
    ASSUME IInv, NEW gone \in SUBSET attached, remove_log_subscription(gone),
           \A t \in gone : client[t[1]] \notin {"attaching", "attached", "running"},
           \A t \in detaching' : t \in Tags /\ client[t[1]] \in {"leaving", "dead"},
           UNCHANGED <<client, session, calls, present, proxies, exported>>
    PROVE  IInv'
<1>1. /\ attached' = attached \ gone
      /\ index' = IndexWithout(gone) /\ targets' = TargetsWithout(gone) /\ idle' = IdleAfter(gone)
  BY DEF remove_log_subscription
<1>2. /\ \A s \in Sessions : <<index[s], "backends">> \notin gone => index'[s] = index[s]
      /\ \A t \in Tags : targets'[t] \in {targets[t], {}} /\ (t \notin gone => targets'[t] = targets[t])
                         /\ (t \in gone => targets'[t] = {})
  BY <1>1 DEF IndexWithout, TargetsWithout
<1>3. TypeOK'
  <2>1. targets' \in [Tags -> SUBSET ProxyIds]
    BY <1>1 DEF IInv, TypeOK, TargetsWithout
  <2>2. index' \in [Sessions -> Clients \cup {None}]
    BY <1>1 DEF IInv, TypeOK, IndexWithout
  <2>3. \A t \in Tags : t \notin attached' => targets'[t] = {}
    BY <1>1, <1>2 DEF IInv, TypeOK
  <2>4. idle' \in BOOLEAN /\ detaching' \subseteq Tags
    BY <1>1 DEF IInv, TypeOK, IdleAfter
  <2> QED BY <1>1, <2>1, <2>2, <2>3, <2>4 DEF IInv, TypeOK
<1>4. \A d \in Clients : client[d] \in {"attaching", "attached", "running"} => <<d, "backends">> \notin gone
  OBVIOUS
<1>5. ProcInv' /\ BackendInv'
  BY DEF IInv, ProcInv, BackendInv
<1>6. AttachInv'
  BY <1>1, <1>4 DEF IInv, AttachInv
<1>7. IndexInv'
  BY <1>2, <1>4 DEF IInv, IndexInv, Clients
<1>8. IdleInv'
  BY <1>1 DEF IInv, IdleInv, IdleAfter
<1>9. TargetInv'
  BY <1>2 DEF IInv, TargetInv
<1>10. ForwardInv'
  <2> SUFFICES ASSUME NEW s \in Sessions PROVE Forwards(s)'
    BY DEF ForwardInv
  <2>1. session[s].be # None => session[s].be \in Clients /\ <<session[s].be, "backends">> \in Tags
    BY DEF IInv, TypeOK, Session, Tags, Interfaces
  <2> QED BY <1>2, <1>4, <2>1 DEF IInv, ForwardInv, Forwards
<1> QED BY <1>3, <1>5, <1>6, <1>7, <1>8, <1>9, <1>10 DEF IInv

LEMMA CleanUpKeeps ==
    ASSUME IInv, \/ method_get_subscr_list
                 \/ \E c \in Clients, k \in Interfaces : DetachFind(c, k) \/ DetachRemove(<<c, k>>)
    PROVE  IInv'
<1>1. Dangling \in SUBSET attached /\ \A t \in Dangling : client[t[1]] \notin {"attaching", "attached", "running"}
  BY NoneAssumption DEF Dangling, Alive, IInv, TypeOK, Tags
<1>2. \A t \in detaching : t \in Tags /\ client[t[1]] \in {"leaving", "dead"}
  BY DEF IInv, TypeOK, AttachInv
<1>3. CASE method_get_subscr_list
  BY <1>1, <1>2, <1>3, RemovalKeeps DEF method_get_subscr_list
<1>4. ASSUME NEW c \in Clients, NEW k \in Interfaces, DetachFind(c, k)
      PROVE  IInv'
  <2>1. /\ remove_log_subscription(Dangling) /\ UNCHANGED <<client, session, calls, present, proxies, exported>>
        /\ client[c] = "leaving" /\ detaching' = detaching \cup {<<c, k>>}
    BY <1>4 DEF DetachFind
  <2>2. \A t \in detaching' : t \in Tags /\ client[t[1]] \in {"leaving", "dead"}
    BY <1>2, <2>1 DEF Tags
  <2> QED BY <1>1, <2>1, <2>2, RemovalKeeps
<1>5. ASSUME NEW c \in Clients, NEW k \in Interfaces, DetachRemove(<<c, k>>)
      PROVE  IInv'
  <2> DEFINE gone == {<<c, k>>} \cap attached
  <2>1. /\ remove_log_subscription(gone) /\ UNCHANGED <<client, session, calls, present, proxies, exported>>
        /\ <<c, k>> \in detaching /\ detaching' = detaching \ {<<c, k>>}
    BY <1>5 DEF DetachRemove
  <2>2. \A t \in gone : client[t[1]] \notin {"attaching", "attached", "running"}
    BY <1>2, <2>1
  <2>3. \A t \in detaching' : t \in Tags /\ client[t[1]] \in {"leaving", "dead"}
    BY <1>2, <2>1
  <2> QED BY <2>1, <2>2, <2>3, RemovalKeeps
<1> QED BY <1>3, <1>4, <1>5

-----------------------------------------------------------------------------
(* Registration *)

LEMMA SessionTypes ==
    /\ NoSession \in Session /\ NoSession.be = None /\ ~NoSession.open /\ NoSession.reg = "none"
    /\ \A c \in Clients : /\ NewSession(c) \in Session /\ NewSession(c).reg = "none"
                          /\ NewSession(c).be = c /\ \A r \in Receivers : NewSession(c).log_forwarders[r] = None
    /\ \A s \in Session, u, v \in Receivers :
            /\ MoveToOwner(s, u, v) \in Session
            /\ MoveToOwner(s, u, v).be = s.be /\ MoveToOwner(s, u, v).log_forwarders = s.log_forwarders
            /\ MoveToOwner(s, u, v).reg = s.reg
<1>1. Create(Owner) \in ACLRecord(Receivers)
  BY OwnersAssumption DEF Create, ACLRecord
<1>2. \A b \in Clients \cup {None} : NewSession(b) \in Session
  BY <1>1 DEF NewSession, Session
<1>3. NoSession \in Session /\ NoSession.be = None /\ ~NoSession.open /\ NoSession.reg = "none"
  BY <1>1 DEF NoSession, NewSession, Session
<1>4. \A c \in Clients : NewSession(c).be = c /\ NewSession(c).reg = "none" /\ \A r \in Receivers : NewSession(c).log_forwarders[r] = None
  BY DEF NewSession
<1>5. ASSUME NEW s \in Session, NEW u \in Receivers, NEW v \in Receivers
      PROVE  /\ MoveToOwner(s, u, v) \in Session
             /\ MoveToOwner(s, u, v).be = s.be /\ MoveToOwner(s, u, v).log_forwarders = s.log_forwarders
             /\ MoveToOwner(s, u, v).reg = s.reg
  <2>1. s.access \in ACLRecord(Receivers)
    BY DEF Session
  <2>2. GrantAccess(TransferOwnership(s.access, v), u) \in ACLRecord(Receivers)
    BY <2>1 DEF GrantAccess, TransferOwnership, ACLRecord
  <2> QED BY <2>2 DEF MoveToOwner, Session
<1> QED BY <1>2, <1>3, <1>4, <1>5

\* The only process of its session takes over the index.
LEMMA AssignKeeps ==
    ASSUME IInv, NEW c \in Clients, NEW new \in {"running", "leaving"}, NEW v \in Session,
           client[c] = "attached", client' = [client EXCEPT ![c] = new],
           session' = [session EXCEPT ![c[1]] = v], method_assign_session(c),
           v.be # None => v.be[1] = c[1], v.reg # "none" => ~v.fresh,
           ~v.open \/ ~v.fresh \/ \A r \in Receivers : v.log_forwarders[r] = None,
           calls' \subseteq calls, present' = present
    PROVE  IInv'
<1>0. c[1] \in Sessions
  BY DEF Clients
<1>1. /\ index' = [index EXCEPT ![c[1]] = c]
      /\ UNCHANGED <<attached, targets, detaching, proxies, exported, idle>>
  BY DEF method_assign_session
<1>2. TypeOK'
  BY <1>0, <1>1 DEF IInv, TypeOK, Life
<1>3. /\ client'[c] = new /\ \A d \in Clients \ {c} : client'[d] = client[d]
      /\ index'[c[1]] = c /\ \A s \in Sessions \ {c[1]} : index'[s] = index[s]
      /\ session'[c[1]] = v /\ \A s \in Sessions \ {c[1]} : session'[s] = session[s]
  BY <1>0, <1>1 DEF IInv, TypeOK
<1>4. ProcInv'
  BY <1>3 DEF IInv, ProcInv
<1>5. AttachInv'
  BY <1>1, <1>3 DEF IInv, TypeOK, AttachInv, Tags
<1>6. IndexInv'
  <2> SUFFICES ASSUME NEW d \in Clients, client'[d] = "running" PROVE index'[d[1]] = d
    BY DEF IndexInv
  <2>1. CASE d[1] = c[1]
    <3>1. d # c => d[2] < c[2] \/ c[2] < d[2]
      BY <2>1, MaxProcsAssumption DEF Clients
    <3>2. d = c
      BY <1>3, <2>1, <3>1 DEF IInv, ProcInv
    <3> QED BY <1>3, <3>2
  <2>2. CASE d[1] # c[1]
    <3>1. d # c /\ d[1] \in Sessions
      BY <2>2 DEF Clients
    <3> QED BY <1>3, <2>2, <3>1 DEF IInv, IndexInv
  <2> QED BY <2>1, <2>2
<1>7. IdleInv' /\ TargetInv'
  BY <1>1 DEF IInv, IdleInv, TargetInv
<1>8. BackendInv'
  BY <1>3 DEF IInv, BackendInv
<1>9. ForwardInv'
  <2> SUFFICES ASSUME NEW s \in Sessions PROVE Forwards(s)'
    BY DEF ForwardInv
  <2>1. CASE s = c[1]
    BY <1>3, <2>1 DEF Forwards, IInv, TypeOK
  <2>2. CASE s # c[1]
    <3>1. session[s].be # None => session[s].be \in Clients /\ session[s].be # c
      BY <2>2 DEF IInv, TypeOK, Session, BackendInv
    <3> QED BY <1>1, <1>3, <2>2, <3>1 DEF Forwards, IInv, ForwardInv
  <2> QED BY <2>1, <2>2
<1> QED BY <1>2, <1>4, <1>5, <1>6, <1>7, <1>8, <1>9 DEF IInv

LEMMA ConfirmKeeps ==
    ASSUME IInv, NEW c \in Clients, ConfirmFails(c) \/ \E b \in BOOLEAN : Confirm(c, b)
    PROVE  IInv'
<1>0. c[1] \in Sessions /\ session[c[1]] \in Session
  BY DEF Clients, IInv, TypeOK
<1>1. CASE ConfirmFails(c)
  <2>1. calls' \subseteq calls
    BY <1>1 DEF ConfirmFails
  <2> QED BY <1>1, <2>1, SessionTypes, AssignKeeps DEF ConfirmFails
<1>2. ASSUME NEW b \in BOOLEAN, Confirm(c, b) PROVE IInv'
  <2> DEFINE old == session[c[1]]
             v == IF old.open THEN [old EXCEPT !.reg = "confirmed", !.fresh = FALSE]
                  ELSE IF b THEN MoveToOwner(NewSession(c), Owner, ProfileOwner) ELSE NewSession(c)
  <2>1. /\ client[c] = "attached" /\ client' = [client EXCEPT ![c] = "running"]
        /\ method_assign_session(c) /\ UNCHANGED <<calls, present>>
        /\ session' = [session EXCEPT ![c[1]] = v]
    BY <1>0, <1>2 DEF Confirm, IInv, TypeOK
  <2>2. CASE old.open
    <3> DEFINE x == [old EXCEPT !.reg = "confirmed", !.fresh = FALSE]
    <3>1. v = x
      BY <2>2
    <3>2. x \in Session /\ x.be = old.be /\ ~x.fresh
      BY <1>0 DEF Session
    <3>3. x.be # None => x.be[1] = c[1]
      BY <1>0, <3>2 DEF IInv, BackendInv
    <3> HIDE DEF x, v
    <3> QED BY <2>1, <3>1, <3>2, <3>3, AssignKeeps
  <2>3. CASE ~old.open
    <3>1. v \in Session /\ v.be = c /\ v.reg = "none" /\ \A r \in Receivers : v.log_forwarders[r] = None
      <4>1. v \in {MoveToOwner(NewSession(c), Owner, ProfileOwner), NewSession(c)}
        BY <2>3
      <4>2. Owner \in Receivers /\ ProfileOwner \in Receivers
        BY OwnersAssumption
      <4>3. /\ NewSession(c) \in Session /\ NewSession(c).be = c /\ NewSession(c).reg = "none"
            /\ \A r \in Receivers : NewSession(c).log_forwarders[r] = None
        BY SessionTypes
      <4> DEFINE m == MoveToOwner(NewSession(c), Owner, ProfileOwner)
      <4>4. /\ m \in Session /\ m.be = NewSession(c).be /\ m.reg = NewSession(c).reg
            /\ m.log_forwarders = NewSession(c).log_forwarders
        BY <4>2, <4>3, SessionTypes
      <4> HIDE DEF v, m
      <4>5. v \in {m, NewSession(c)}
        BY <4>1 DEF m
      <4> QED BY <4>3, <4>4, <4>5
    <3> HIDE DEF v
    <3> QED BY <2>1, <3>1, AssignKeeps
  <2> QED BY <2>2, <2>3
<1> QED BY <1>1, <1>2

-----------------------------------------------------------------------------
(* Calls to the session objects *)

\* A step of one session object that leaves clients and forwarding objects alone.
LEMMA SessionKeeps ==
    ASSUME IInv, NEW s \in Sessions, NEW v \in Session,
           session' = [session EXCEPT ![s] = v],
           v.be # None => v.be[1] = s, v.reg # "none" => ~v.fresh,
           \/ ~v.open \/ ~v.fresh
           \/ /\ v.be = session[s].be /\ session[s].open /\ session[s].fresh
              /\ \A r \in Receivers : v.log_forwarders[r] \in {session[s].log_forwarders[r], None},
           exported' \subseteq exported, calls' \subseteq Receivers \X Sessions \X BOOLEAN,
           UNCHANGED <<client, present, attached, targets, detaching, index, proxies, idle>>
    PROVE  IInv'
<1>1. TypeOK'
  BY DEF IInv, TypeOK
<1>2. session'[s] = v /\ \A q \in Sessions \ {s} : session'[q] = session[q]
  BY DEF IInv, TypeOK
<1>3. ProcInv' /\ AttachInv' /\ IndexInv' /\ IdleInv' /\ TargetInv'
  BY DEF IInv, ProcInv, AttachInv, IndexInv, IdleInv, TargetInv
<1>4. BackendInv'
  BY <1>2 DEF IInv, BackendInv
<1>5. ForwardInv'
  <2> SUFFICES ASSUME NEW q \in Sessions PROVE Forwards(q)'
    BY DEF ForwardInv
  <2>1. CASE q = s
    <3>1. present \subseteq Receivers
      BY DEF IInv, TypeOK
    <3> QED BY <1>2, <2>1, <3>1 DEF IInv, ForwardInv, Forwards
  <2>2. CASE q # s
    BY <1>2, <2>2 DEF IInv, ForwardInv, Forwards
  <2> QED BY <2>1, <2>2
<1> QED BY <1>1, <1>3, <1>4, <1>5 DEF IInv

LEMMA ResetBackendKeeps ==
    ASSUME IInv, NEW c \in Clients, NEW b \in BOOLEAN, ResetBackend(c, b)
    PROVE  IInv'
<1> DEFINE v == [session[c[1]] EXCEPT !.be = c, !.reg = IF b THEN "ready" ELSE "none"]
<1>0. c[1] \in Sessions /\ session[c[1]] \in Session
  BY DEF Clients, IInv, TypeOK
<1>1. session' = [session EXCEPT ![c[1]] = v]
  BY <1>0 DEF ResetBackend, IInv, TypeOK
<1>2. v \in Session /\ v.be = c /\ v.fresh = session[c[1]].fresh
  BY <1>0 DEF Session
<1>3. UNCHANGED <<client, present, attached, targets, detaching, index, proxies, idle, calls, exported>>
  BY DEF ResetBackend, service
<1>4. ~session[c[1]].fresh
  BY <1>0 DEF ResetBackend, IInv, BackendInv
<1>5. calls' \subseteq Receivers \X Sessions \X BOOLEAN
  BY <1>3 DEF IInv, TypeOK
<1> QED BY <1>0, <1>1, <1>2, <1>3, <1>4, <1>5, SessionKeeps

LEMMA ReceiverExitsKeeps ==
    ASSUME IInv, NEW r \in Receivers, ReceiverExits(r)
    PROVE  IInv'
<1>1. /\ present' = present \ {r} /\ calls' \subseteq calls
      /\ UNCHANGED <<client, session, attached, targets, detaching, index, proxies, exported, idle>>
  BY DEF ReceiverExits, service
<1> QED BY <1>1 DEF IInv, TypeOK, ProcInv, AttachInv, IndexInv, IdleInv, BackendInv, TargetInv, ForwardInv, Forwards

LEMMA CloseKeeps ==
    ASSUME IInv, NEW r \in Receivers, NEW s \in Sessions, Refused(r, s)
    PROVE  IInv'
<1>1. /\ session' = [session EXCEPT ![s] = NoSession] /\ calls' \subseteq calls /\ exported' \subseteq exported
      /\ UNCHANGED <<client, present, attached, targets, detaching, index, proxies, idle>>
  BY DEF Refused, Close, RemoveProxies
<1>2. calls' \subseteq Receivers \X Sessions \X BOOLEAN
  BY <1>1 DEF IInv, TypeOK
<1> QED BY <1>1, <1>2, SessionTypes, SessionKeeps

LEMMA DisconnectKeeps ==
    ASSUME IInv, NEW r \in Receivers, NEW s \in Sessions, Disconnect(r, s)
    PROVE  IInv'
<1> DEFINE c == session[s].be
<1>1. /\ session' = [session EXCEPT ![s] = NoSession] /\ calls' \subseteq calls /\ exported' \subseteq exported
      /\ client' = [client EXCEPT ![c] = "leaving"]
      /\ UNCHANGED <<present, attached, targets, detaching, index, proxies, idle>>
  BY DEF Disconnect, Close, RemoveProxies
<1>2. c \in Clients /\ client[c] \notin {"none", "dead"} /\ c[1] = s
  BY DEF Disconnect, HasAccess, MayCall, Responds, Alive, IInv, TypeOK, Session, BackendInv
<1>3. TypeOK'
  BY <1>1, <1>2, SessionTypes DEF IInv, TypeOK, Life
<1>4. /\ client'[c] = "leaving" /\ \A d \in Clients \ {c} : client'[d] = client[d]
      /\ session'[s] = NoSession /\ \A q \in Sessions \ {s} : session'[q] = session[q]
  BY <1>1, <1>2 DEF IInv, TypeOK
<1>5. ProcInv'
  BY <1>2, <1>4 DEF IInv, ProcInv
<1>6. AttachInv'
  BY <1>1, <1>4 DEF IInv, TypeOK, AttachInv, Tags
<1>7. IndexInv' /\ IdleInv' /\ TargetInv'
  BY <1>1, <1>4 DEF IInv, IndexInv, IdleInv, TargetInv
<1>8. BackendInv'
  BY <1>4, SessionTypes DEF IInv, BackendInv
<1>9. ForwardInv'
  <2> SUFFICES ASSUME NEW q \in Sessions PROVE Forwards(q)'
    BY DEF ForwardInv
  <2>1. CASE q = s
    BY <1>4, <2>1, SessionTypes DEF Forwards
  <2>2. CASE q # s
    <3>1. session[q].be # None => session[q].be \in Clients /\ session[q].be # c
      BY <1>2, <2>2 DEF IInv, TypeOK, Session, BackendInv
    <3> QED BY <1>1, <1>4, <2>2, <3>1 DEF IInv, ForwardInv, Forwards
  <2> QED BY <2>1, <2>2
<1> QED BY <1>3, <1>5, <1>6, <1>7, <1>8, <1>9 DEF IInv

LEMMA LogForwardDisableKeeps ==
    ASSUME IInv, NEW r \in Receivers, NEW s \in Sessions, method_log_forward_disable(r, s)
    PROVE  IInv'
<1> DEFINE v == [session[s] EXCEPT !.log_forwarders[r] = None]
<1>0. session[s] \in Session
  BY DEF IInv, TypeOK
<1>1. /\ session' = [session EXCEPT ![s] = v] /\ calls' \subseteq calls /\ exported' \subseteq exported
      /\ UNCHANGED <<client, present, attached, targets, detaching, index, proxies, idle>>
  BY <1>0 DEF method_log_forward_disable, RemoveProxies, IInv, TypeOK
<1>2. /\ v \in Session /\ v.be = session[s].be /\ v.open = session[s].open /\ v.fresh = session[s].fresh
      /\ v.reg = session[s].reg
      /\ \A q \in Receivers : v.log_forwarders[q] \in {session[s].log_forwarders[q], None}
  BY <1>0 DEF Session
<1>3. calls' \subseteq Receivers \X Sessions \X BOOLEAN
  BY <1>1 DEF IInv, TypeOK
<1>4. (v.be # None => v.be[1] = s) /\ (v.reg # "none" => ~v.fresh)
  BY <1>2 DEF IInv, BackendInv
<1> HIDE DEF v
<1> QED BY <1>1, <1>2, <1>3, <1>4, SessionKeeps

\* Access control touches neither processes nor forwarders.
LEMMA AccessKeeps ==
    ASSUME IInv, NEW r \in Receivers, NEW s \in Sessions,
           \/ \E u \in Grantees : method_access_grant(r, s, u) \/ method_access_revoke(r, s, u)
           \/ \E b \in BOOLEAN : \/ SetRestrictLogAccess(r, s, b) \/ SetPublic(r, s, b)
                                 \/ AuthorizeLogForward(r, s, b)
    PROVE  IInv'
<1>0. session[s] \in Session /\ session[s].access \in ACLRecord(Receivers) /\ session[s].open
  BY DEF IInv, TypeOK, Session, method_access_grant, method_access_revoke, SetRestrictLogAccess, SetPublic,
         AuthorizeLogForward, IsOwner, HasAccess, MayCall
<1>1. ASSUME NEW v \in Session, Changed(s, v), v.be = session[s].be, v.open, v.fresh = session[s].fresh,
             v.reg = session[s].reg, v.log_forwarders = session[s].log_forwarders
      PROVE  IInv'
  <2>1. /\ session' = [session EXCEPT ![s] = v]
        /\ UNCHANGED <<client, calls, present, attached, targets, detaching, index, proxies, exported, idle>>
    BY <1>1 DEF Changed, service
  <2>2. calls' \subseteq Receivers \X Sessions \X BOOLEAN
    BY <2>1 DEF IInv, TypeOK
  <2>3. (v.be # None => v.be[1] = s) /\ (v.reg # "none" => ~v.fresh)
    BY <1>1 DEF IInv, BackendInv
  <2> QED BY <1>0, <1>1, <2>1, <2>2, <2>3, SessionKeeps
<1>2. ASSUME NEW a \in ACLRecord(Receivers), Changed(s, [session[s] EXCEPT !.access = a])
      PROVE  IInv'
  <2> DEFINE v == [session[s] EXCEPT !.access = a]
  <2>1. /\ v \in Session /\ v.be = session[s].be /\ v.open /\ v.fresh = session[s].fresh
        /\ v.reg = session[s].reg /\ v.log_forwarders = session[s].log_forwarders
    BY <1>0 DEF Session
  <2> HIDE DEF v
  <2>2. Changed(s, v)
    BY <1>2 DEF v
  <2> QED BY <1>1, <2>1, <2>2
<1>3. CASE \E u \in Grantees : method_access_grant(r, s, u)
  <2>1. PICK u \in Grantees : method_access_grant(r, s, u)
    BY <1>3
  <2>2. GrantAccess(session[s].access, u) \in ACLRecord(Receivers)
    BY <1>0, OwnersAssumption DEF GrantAccess, ACLRecord
  <2>3. Changed(s, [session[s] EXCEPT !.access = GrantAccess(session[s].access, u)])
    BY <1>0, <2>1 DEF method_access_grant, Session
  <2> QED BY <1>2, <2>2, <2>3
<1>4. CASE \E u \in Grantees : method_access_revoke(r, s, u)
  <2>1. PICK u \in Grantees : method_access_revoke(r, s, u)
    BY <1>4
  <2>2. RevokeAccess(session[s].access, u) \in ACLRecord(Receivers)
    BY <1>0 DEF RevokeAccess, ACLRecord
  <2>3. Changed(s, [session[s] EXCEPT !.access = RevokeAccess(session[s].access, u)])
    BY <1>0, <2>1 DEF method_access_revoke, Session
  <2> QED BY <1>2, <2>2, <2>3
<1>5. ASSUME NEW b \in BOOLEAN, SetPublic(r, s, b) PROVE IInv'
  <2>1. SetPublicAccess(session[s].access, b) \in ACLRecord(Receivers)
    BY <1>0 DEF SetPublicAccess, ACLRecord
  <2>2. Changed(s, [session[s] EXCEPT !.access = SetPublicAccess(session[s].access, b)])
    BY <1>0, <1>5 DEF SetPublic, Session
  <2> QED BY <1>2, <2>1, <2>2
<1>6. ASSUME NEW b \in BOOLEAN, SetRestrictLogAccess(r, s, b) PROVE IInv'
  <2> DEFINE v == [session[s] EXCEPT !.restrict_log_access = b]
  <2>1. /\ v \in Session /\ v.be = session[s].be /\ v.open /\ v.fresh = session[s].fresh
        /\ v.reg = session[s].reg /\ v.log_forwarders = session[s].log_forwarders
    BY <1>0 DEF Session
  <2> HIDE DEF v
  <2>2. Changed(s, v)
    BY <1>6 DEF SetRestrictLogAccess, v
  <2> QED BY <1>1, <2>1, <2>2
<1>7. ASSUME NEW b \in BOOLEAN, AuthorizeLogForward(r, s, b) PROVE IInv'
  <2>1. /\ calls' = calls \cup {<<r, s, b>>}
        /\ UNCHANGED <<client, session, present, attached, targets, detaching, index, proxies, exported, idle>>
    BY <1>7 DEF AuthorizeLogForward, service
  <2> QED BY <2>1 DEF IInv, TypeOK, ProcInv, AttachInv, IndexInv, IdleInv, BackendInv, TargetInv, ForwardInv, Forwards
<1> QED BY <1>3, <1>4, <1>5, <1>6, <1>7

-----------------------------------------------------------------------------
(* New forwarders *)

LEMMA NewIds ==
    ASSUME IInv, NEW rs \in SUBSET Receivers, Len(proxies) + Cardinality(rs) <= MaxProxies
    PROVE  /\ proxies \o SetToSeq(rs) \in Seq(Receivers)
           /\ Len(proxies \o SetToSeq(rs)) = Len(proxies) + Cardinality(rs) /\ Cardinality(rs) \in Nat
           /\ \A i \in 1..Len(proxies) : (proxies \o SetToSeq(rs))[i] = proxies[i]
           /\ \A r \in rs : /\ NewId(r, rs) \in 1..(Len(proxies) + Cardinality(rs))
                            /\ NewId(r, rs) \in ProxyIds
                            /\ (proxies \o SetToSeq(rs))[NewId(r, rs)] = r
<1> DEFINE q == SetToSeq(rs)
           n == Cardinality(rs)
<1>1. IsFiniteSet(rs)
  BY ReceiversAssumption, FS_Subset
<1>2. n \in Nat /\ q \in [1..n -> rs] /\ \A x \in rs : \E i \in 1..n : q[i] = x
  BY <1>1, SetToSeqLists
<1> HIDE DEF q, n
<1>3. q \in Seq(Receivers) /\ Len(q) = n
  BY <1>2
<1>4. proxies \in Seq(Receivers) /\ Len(proxies) \in Nat
  BY DEF IInv, TypeOK
<1>5. /\ proxies \o q \in Seq(Receivers) /\ Len(proxies \o q) = Len(proxies) + n
      /\ \A i \in 1..Len(proxies) : (proxies \o q)[i] = proxies[i]
      /\ \A i \in 1..n : (proxies \o q)[Len(proxies) + i] = q[i]
  BY <1>3, <1>4
<1>6. ASSUME NEW r \in rs
      PROVE  /\ NewId(r, rs) \in 1..(Len(proxies) + n) /\ NewId(r, rs) \in ProxyIds
             /\ (proxies \o q)[NewId(r, rs)] = r
  <2> DEFINE k == CHOOSE i \in 1..n : q[i] = r
  <2>1. k \in 1..n /\ q[k] = r
    BY <1>2
  <2>2. NewId(r, rs) = Len(proxies) + k
    BY DEF NewId, q, n
  <2> HIDE DEF k
  <2> QED BY <1>2, <1>4, <1>5, <2>1, <2>2, MaxProxiesAssumption DEF ProxyIds, n
<1> QED BY <1>2, <1>5, <1>6 DEF q, n

\* Whatever new forwarders are made for session s, they reach its running client.
LEMMA AddKeeps ==
    ASSUME IInv, NEW s \in Sessions, NEW v \in Session, NEW rs \in SUBSET present, NEW old,
           \A r \in rs : CanProxy(r, s),
           AddProxyTarget(s, rs, old), session' = [session EXCEPT ![s] = v],
           v.be = session[s].be, v.reg # "none" => ~v.fresh,
           v.open /\ v.fresh /\ v.be # None /\ client[v.be] = "running" =>
                \A r \in present \ rs : v.log_forwarders[r] # None =>
                    session[s].open /\ session[s].fresh /\ session[s].log_forwarders[r] # None,
           calls' \subseteq calls, UNCHANGED <<client, present>>
    PROVE  IInv'
<1> DEFINE new == {NewId(r, rs) : r \in rs}
           tag == <<index[s], "backends">>
<1>1. rs \in SUBSET Receivers
  BY DEF IInv, TypeOK
<1>2. /\ Len(proxies) + Cardinality(rs) <= MaxProxies
      /\ proxies' = proxies \o SetToSeq(rs)
      /\ exported' = (exported \ old) \cup new
      /\ targets' = [t \in Tags |-> IF t = tag THEN targets[t] \cup new ELSE targets[t]]
      /\ UNCHANGED <<attached, detaching, index, idle>>
  BY DEF AddProxyTarget
<1>3. /\ proxies' \in Seq(Receivers) /\ Len(proxies') = Len(proxies) + Cardinality(rs) /\ Cardinality(rs) \in Nat
      /\ \A i \in 1..Len(proxies) : proxies'[i] = proxies[i]
      /\ \A r \in rs : NewId(r, rs) \in 1..Len(proxies') /\ proxies'[NewId(r, rs)] = r
      /\ new \subseteq ProxyIds
  BY <1>1, <1>2, NewIds
<1>4. Len(proxies) \in Nat /\ new \subseteq 1..Len(proxies')
  BY <1>3 DEF IInv, TypeOK
<1> HIDE DEF new
<1>5. TypeOK'
  <2>1. targets' \in [Tags -> SUBSET ProxyIds]
    BY <1>2, <1>3 DEF IInv, TypeOK
  <2>2. \A t \in Tags : t \notin attached' => targets'[t] = {}
    <3>1. tag \notin attached => new = {}
      BY DEF new, CanProxy
    <3> QED BY <1>2, <3>1 DEF IInv, TypeOK
  <2>3. exported' \subseteq 1..Len(proxies')
    <3>1. exported \subseteq 1..Len(proxies) /\ 1..Len(proxies) \subseteq 1..Len(proxies')
      BY <1>3, <1>4 DEF IInv, TypeOK
    <3> QED BY <1>2, <1>4, <3>1
  <2> QED BY <1>2, <1>3, <2>1, <2>2, <2>3 DEF IInv, TypeOK
<1>6. session'[s] = v /\ \A q \in Sessions \ {s} : session'[q] = session[q]
  BY DEF IInv, TypeOK
<1>7. ProcInv' /\ AttachInv' /\ IndexInv' /\ IdleInv'
  BY <1>2 DEF IInv, ProcInv, AttachInv, IndexInv, IdleInv
<1>8. BackendInv'
  BY <1>6 DEF IInv, BackendInv
<1>9. TargetInv'
  <2> SUFFICES ASSUME NEW t \in Tags PROVE targets'[t] \subseteq 1..Len(proxies')
    BY DEF TargetInv
  <2>1. targets[t] \subseteq 1..Len(proxies)
    BY DEF IInv, TargetInv
  <2>2. 1..Len(proxies) \subseteq 1..Len(proxies')
    BY <1>3, <1>4
  <2> QED BY <1>2, <1>4, <2>1, <2>2
<1>10. ForwardInv'
  <2> SUFFICES ASSUME NEW q \in Sessions, session'[q].open, session'[q].fresh, session'[q].be # None,
                      client[session'[q].be] = "running",
                      NEW r \in present, session'[q].log_forwarders[r] # None
               PROVE  \E i \in targets'[<<session'[q].be, "backends">>] : proxies'[i] = r
    BY DEF ForwardInv, Forwards
  <2> DEFINE b == session[q].be
             t == <<b, "backends">>
  <2>1. session'[q].be = b /\ b \in Clients /\ t \in Tags
    BY <1>6 DEF IInv, TypeOK, Session, Tags, Interfaces
  <2>2. targets[t] \subseteq targets'[t] /\ targets[t] \subseteq 1..Len(proxies)
    BY <1>2, <2>1 DEF IInv, TargetInv
  <2>3. CASE q = s /\ r \in rs
    <3>1. index[s] = b
      BY <2>1, <2>3 DEF IInv, IndexInv, BackendInv
    <3>2. NewId(r, rs) \in targets'[t]
      BY <1>2, <2>1, <2>3, <3>1 DEF new
    <3> QED BY <1>3, <2>1, <2>3, <3>2
  <2>4. CASE q # s \/ r \notin rs
    <3>1. session[q].open /\ session[q].fresh /\ session[q].log_forwarders[r] # None
      BY <1>6, <2>1, <2>4
    <3>2. \E i \in targets[t] : proxies[i] = r
      BY <2>1, <3>1 DEF IInv, ForwardInv, Forwards
    <3> QED BY <1>3, <2>1, <2>2, <3>2
  <2> QED BY <2>3, <2>4
<1> QED BY <1>5, <1>7, <1>8, <1>9, <1>10 DEF IInv

LEMMA ResetLogForwardersKeeps ==
    ASSUME IInv, NEW s \in Sessions, ResetLogForwarders(s)
    PROVE  IInv'
<1> DEFINE there == {r \in present : session[s].log_forwarders[r] # None}
           rs == {r \in there : CanProxy(r, s)}
           lf == [r \in Receivers |-> IF r \in rs THEN NewId(r, rs) ELSE session[s].log_forwarders[r]]
           v == [session[s] EXCEPT !.reg = "none", !.fresh = TRUE, !.log_forwarders = lf]
<1>0. session[s] \in Session /\ rs \in SUBSET Receivers
  BY DEF IInv, TypeOK
<1>1. /\ AddProxyTarget(s, rs, {session[s].log_forwarders[r] : r \in there})
      /\ session' = [session EXCEPT ![s] = v] /\ UNCHANGED <<client, calls, present>>
  <2>1. /\ AddProxyTarget(s, rs, {session[s].log_forwarders[r] : r \in there})
        /\ UNCHANGED <<client, calls, present>>
    BY DEF ResetLogForwarders
  <2>2. session' = [session EXCEPT ![s] = v]
    BY DEF ResetLogForwarders
  <2> QED BY <2>1, <2>2
<1>2. Len(proxies) + Cardinality(rs) <= MaxProxies
  BY <1>1 DEF AddProxyTarget
<1>3. \A r \in rs : NewId(r, rs) \in ProxyIds
  BY <1>0, <1>2, NewIds
<1>4. lf \in [Receivers -> ProxyIds \cup {None}]
  BY <1>0, <1>3 DEF Session
<1>5. v \in Session /\ v.be = session[s].be /\ v.reg = "none" /\ v.log_forwarders = lf
  <2> HIDE DEF lf
  <2> QED BY <1>0, <1>4 DEF Session
<1>6. ASSUME v.be # None, client[v.be] = "running", NEW r \in present \ rs, v.log_forwarders[r] # None
      PROVE  FALSE
  <2>1. r \in there
    BY <1>5, <1>6 DEF IInv, TypeOK
  <2>2. v.be \in Clients /\ v.be[1] = s
    BY <1>5, <1>6 DEF IInv, TypeOK, Session, BackendInv
  <2>3. CanProxy(r, s)
    BY <1>6, <2>1, <2>2 DEF IInv, IndexInv, AttachInv, CanProxy
  <2> QED BY <1>6, <2>1, <2>3
<1>7. rs \in SUBSET present /\ \A r \in rs : CanProxy(r, s)
  OBVIOUS
<1> HIDE DEF v, rs, there
<1> QED BY <1>1, <1>5, <1>6, <1>7, AddKeeps

LEMMA LogForwardEnableKeeps ==
    ASSUME IInv, NEW r \in Receivers, NEW s \in Sessions, method_log_forward_enable(r, s)
    PROVE  IInv'
<1>1. CASE ~CanProxy(r, s)
  <2>1. /\ calls' \subseteq calls
        /\ UNCHANGED <<client, session, present, attached, targets, detaching, index, proxies, exported, idle>>
    BY <1>1 DEF method_log_forward_enable, service
  <2> QED BY <2>1 DEF IInv, TypeOK, ProcInv, AttachInv, IndexInv, IdleInv, BackendInv, TargetInv, ForwardInv, Forwards
<1>2. CASE CanProxy(r, s)
  <2> DEFINE rs == {r}
             v == [session[s] EXCEPT !.log_forwarders[r] = NewId(r, rs)]
  <2>0. session[s] \in Session /\ rs \in SUBSET Receivers /\ rs \in SUBSET present
    BY <1>2 DEF IInv, TypeOK, CanProxy
  <2>1. /\ AddProxyTarget(s, rs, {}) /\ session' = [session EXCEPT ![s] = v]
        /\ calls' \subseteq calls /\ UNCHANGED <<client, present>>
    BY <1>2, <2>0 DEF method_log_forward_enable, IInv, TypeOK
  <2>2. Len(proxies) + Cardinality(rs) <= MaxProxies
    BY <2>1 DEF AddProxyTarget
  <2>3. NewId(r, rs) \in ProxyIds
    BY <2>0, <2>2, NewIds
  <2>4. /\ v \in Session /\ v.be = session[s].be /\ v.reg = session[s].reg
        /\ v.fresh = session[s].fresh /\ v.open = session[s].open
        /\ \A q \in Receivers \ rs : v.log_forwarders[q] = session[s].log_forwarders[q]
    BY <2>0, <2>3 DEF Session
  <2>5. v.reg # "none" => ~v.fresh
    BY <2>4 DEF IInv, BackendInv
  <2>6. \A q \in present \ rs : q \in Receivers \ rs
    BY DEF IInv, TypeOK
  <2>7. \A q \in rs : CanProxy(q, s)
    BY <1>2
  <2> HIDE DEF v, rs
  <2> QED BY <2>0, <2>1, <2>4, <2>5, <2>6, <2>7, AddKeeps
<1> QED BY <1>1, <1>2

-----------------------------------------------------------------------------
(* The theorems *)

LEMMA InitIInv ==
    ASSUME Init PROVE IInv
<1>1. TypeOK
  BY SessionTypes DEF Init, TypeOK, Life
<1>2. ProcInv /\ AttachInv /\ IndexInv /\ IdleInv /\ TargetInv
  BY DEF Init, ProcInv, AttachInv, IndexInv, IdleInv, TargetInv
<1>3. BackendInv /\ ForwardInv
  BY SessionTypes DEF Init, BackendInv, ForwardInv, Forwards
<1> QED BY <1>1, <1>2, <1>3 DEF IInv

LEMMA NextIInv ==
    ASSUME IInv, Next PROVE IInv'
<1>1. CASE \E c \in Clients : Start(c) \/ AttachSessions(c) \/ ConfirmFails(c) \/ Leave(c) \/ Exit(c)
  BY <1>1, AttachKeeps, ConfirmKeeps, LeaveExitKeeps
<1>2. CASE \E c \in Clients, b \in BOOLEAN : Confirm(c, b) \/ ResetBackend(c, b)
  BY <1>2, ConfirmKeeps, ResetBackendKeeps
<1>3. CASE method_get_subscr_list \/ \E c \in Clients, i \in Interfaces : DetachFind(c, i) \/ DetachRemove(<<c, i>>)
  BY <1>3, CleanUpKeeps
<1>4. CASE \/ \E s \in Sessions : ResetLogForwarders(s)
           \/ \E r \in Receivers : ReceiverExits(r)
  BY <1>4, ResetLogForwardersKeeps, ReceiverExitsKeeps
<1>5. CASE \E r \in Receivers, s \in Sessions :
             Refused(r, s) \/ method_log_forward_enable(r, s) \/ method_log_forward_disable(r, s) \/ Disconnect(r, s)
  BY <1>5, CloseKeeps, LogForwardEnableKeeps, LogForwardDisableKeeps, DisconnectKeeps
<1>6. CASE \E r \in Receivers, s \in Sessions :
             \/ \E b \in BOOLEAN : AuthorizeLogForward(r, s, b) \/ SetRestrictLogAccess(r, s, b) \/ SetPublic(r, s, b)
             \/ \E u \in Grantees : method_access_grant(r, s, u) \/ method_access_revoke(r, s, u)
  BY <1>6, AccessKeeps
<1> QED BY <1>1, <1>2, <1>3, <1>4, <1>5, <1>6 DEF Next

LEMMA Inductive == Spec => []IInv
<1>1. ASSUME IInv, UNCHANGED vars PROVE IInv'
  BY <1>1 DEF vars, service, IInv, TypeOK, ProcInv, AttachInv, IndexInv, IdleInv, BackendInv, TargetInv, ForwardInv, Forwards
<1>2. IInv /\ [Next]_vars => IInv'
  BY <1>1, NextIInv
<1> QED BY <1>2, InitIInv, PTL DEF Spec

\* The objects of the service keep their types; a tag that is not attached has
\* no forwarding objects left (AttachedService, LogService).
THEOREM TypeCorrect == Spec => []TypeOK
<1>1. IInv => TypeOK
  BY DEF IInv
<1> QED BY <1>1, Inductive, PTL

\* The entries of a running client survive every clean-up, and AssignSession
\* finds them (remove_log_subscription(), method_assign_session()).
THEOREM RunningClientsAreAssigned == Spec => []RunningIsAssigned
<1>1. IInv => RunningIsAssigned
  BY DEF IInv, IndexInv, AttachInv, IdleInv, RunningIsAssigned
<1> QED BY <1>1, Inductive, PTL

\* Listed receivers get the events of the present client, restarted or not
\* (ResetLogForwarders(), method_log_forward()).
THEOREM ListedReceiversReceive == Spec => []ListedReceives
<1>1. ASSUME IInv PROVE ListedReceives
  <2> SUFFICES ASSUME NEW s \in Sessions, session[s].open, session[s].fresh, Alive(session[s].be),
                      client[session[s].be] = "running", NEW r \in present, session[s].log_forwarders[r] # None
               PROVE  Receives(r, s)
    BY DEF ListedReceives
  <2>1. session[s].be # None /\ session[s].be \in Clients
    BY <1>1 DEF Alive, IInv, TypeOK, Session
  <2>2. <<session[s].be, "backends">> \in attached
    BY <1>1, <2>1 DEF IInv, AttachInv
  <2> QED BY <1>1, <2>1, <2>2 DEF IInv, ForwardInv, Forwards, Receives
<1> QED BY <1>1, Inductive, PTL

-----------------------------------------------------------------------------
(* The option files of the services.  They share no state with the above. *)

\* The options of a service and its exclusive group.
OptionsOf(s) ==
    IF s = "log" THEN {"journald", "syslog", "syslog-facility", "log-file", "colour", "log-level", "timestamp"}
    ELSE {"log-level", "resolv-conf", "systemd-resolved", "redirect-method"}
Group(s) == IF s = "log" THEN {"journald", "syslog", "log-file"} ELSE {"resolv-conf", "systemd-resolved"}

LEMMA LogMapping ==
    LET m == Opt!Mapping["log"] IN
    /\ DOMAIN m = 1..7
    /\ m[1].option = "journald"        /\ m[1].group = "log_method" /\ m[1].type = "Present"
    /\ m[2].option = "syslog"          /\ m[2].group = "log_method" /\ m[2].type = "Present"
    /\ m[3].option = "syslog-facility" /\ m[3].group = None         /\ m[3].type = "String"
    /\ m[4].option = "log-file"        /\ m[4].group = "log_method" /\ m[4].type = "String"
    /\ m[5].option = "colour"          /\ m[5].group = None         /\ m[5].type = "Present"
    /\ m[6].option = "log-level"       /\ m[6].group = None         /\ m[6].type = "Int"
    /\ m[7].option = "timestamp"       /\ m[7].group = None         /\ m[7].type = "Present"
BY DEF Opt!Mapping, Opt!LogServiceConfigFile

LEMMA NetCfgMapping ==
    LET m == Opt!Mapping["netcfg"] IN
    /\ DOMAIN m = 1..4
    /\ m[1].option = "log-level"        /\ m[1].group = None
    /\ m[2].option = "resolv-conf"      /\ m[2].group = "DNS-resolver"
    /\ m[3].option = "systemd-resolved" /\ m[3].group = "DNS-resolver"
    /\ m[4].option = "redirect-method"  /\ m[4].group = None
BY DEF Opt!Mapping, Opt!NetCfgConfigFile

\* No option is mapped twice.
LEMMA MappedOnce ==
    ASSUME NEW s \in Opt!Services
    PROVE  LET m == Opt!Mapping[s] IN
           /\ Opt!MappedOptions(m) = OptionsOf(s)
           /\ DOMAIN m \subseteq Nat
           /\ \A i, j \in DOMAIN m : m[i].option = m[j].option => i = j
<1>1. CASE s = "log"
  <2> DEFINE m == Opt!Mapping["log"]
  <2>1. /\ DOMAIN m = {1, 2, 3, 4, 5, 6, 7}
        /\ m[1].option = "journald" /\ m[2].option = "syslog" /\ m[3].option = "syslog-facility"
        /\ m[4].option = "log-file" /\ m[5].option = "colour" /\ m[6].option = "log-level"
        /\ m[7].option = "timestamp"
    BY LogMapping
  <2> HIDE DEF m
  <2>2. {m[i].option : i \in DOMAIN m} =
            {"journald", "syslog", "syslog-facility", "log-file", "colour", "log-level", "timestamp"}
    BY <2>1
  <2>3. DOMAIN m \subseteq Nat /\ \A i, j \in DOMAIN m : m[i].option = m[j].option => i = j
    BY <2>1
  <2> QED BY <1>1, <2>2, <2>3 DEF m, Opt!MappedOptions, OptionsOf
<1>2. CASE s = "netcfg"
  <2> DEFINE m == Opt!Mapping["netcfg"]
  <2>1. /\ DOMAIN m = {1, 2, 3, 4}
        /\ m[1].option = "log-level" /\ m[2].option = "resolv-conf" /\ m[3].option = "systemd-resolved"
        /\ m[4].option = "redirect-method"
    BY NetCfgMapping
  <2> HIDE DEF m
  <2>2. {m[i].option : i \in DOMAIN m} = {"log-level", "resolv-conf", "systemd-resolved", "redirect-method"}
    BY <2>1
  <2>3. DOMAIN m \subseteq Nat /\ \A i, j \in DOMAIN m : m[i].option = m[j].option => i = j
    BY <2>1
  <2> QED BY <1>2, <2>2, <2>3 DEF m, Opt!MappedOptions, OptionsOf
<1> QED BY <1>1, <1>2 DEF Opt!Services

LEMMA OneGroup ==
    ASSUME NEW s \in Opt!Services, Opt!Installed
    PROVE  Opt!GroupsOf(Opt!Mapping[s]) = {Group(s)}
<1> DEFINE m == Opt!Mapping[s]
           S == Opt!ToSet(m)
           grp == IF s = "log" THEN "log_method" ELSE "DNS-resolver"
<1>1. S = {m[i] : i \in DOMAIN m}
  BY DEF Opt!ToSet
<1>2. None # grp
  BY DEF Opt!Installed
<1>3. /\ \A e \in S : e.group \in {grp, None} /\ (e.group = grp <=> e.option \in Group(s))
      /\ \A o \in Group(s) : \E e \in S : e.option = o
  <2>1. CASE s = "log"
    <3> DEFINE l == Opt!Mapping["log"]
    <3>1. /\ DOMAIN l = {1, 2, 3, 4, 5, 6, 7}
          /\ l[1].option = "journald"        /\ l[1].group = "log_method"
          /\ l[2].option = "syslog"          /\ l[2].group = "log_method"
          /\ l[3].option = "syslog-facility" /\ l[3].group = None
          /\ l[4].option = "log-file"        /\ l[4].group = "log_method"
          /\ l[5].option = "colour"          /\ l[5].group = None
          /\ l[6].option = "log-level"       /\ l[6].group = None
          /\ l[7].option = "timestamp"       /\ l[7].group = None
      BY LogMapping
    <3> HIDE DEF l
    <3>2. S = {l[i] : i \in DOMAIN l} /\ grp = "log_method" /\ Group(s) = {"journald", "syslog", "log-file"}
      BY <1>1, <2>1 DEF l, Group
    <3> HIDE DEF S, m, grp
    <3> QED BY <1>2, <3>1, <3>2
  <2>2. CASE s = "netcfg"
    <3> DEFINE l == Opt!Mapping["netcfg"]
    <3>1. /\ DOMAIN l = {1, 2, 3, 4}
          /\ l[1].option = "log-level"        /\ l[1].group = None
          /\ l[2].option = "resolv-conf"      /\ l[2].group = "DNS-resolver"
          /\ l[3].option = "systemd-resolved" /\ l[3].group = "DNS-resolver"
          /\ l[4].option = "redirect-method"  /\ l[4].group = None
      BY NetCfgMapping
    <3> HIDE DEF l
    <3>2. S = {l[i] : i \in DOMAIN l} /\ grp = "DNS-resolver" /\ Group(s) = {"resolv-conf", "systemd-resolved"}
      BY <1>1, <2>2 DEF l, Group
    <3> HIDE DEF S, m, grp
    <3> QED BY <1>2, <3>1, <3>2
  <2> QED BY <2>1, <2>2 DEF Opt!Services
<1>4. Opt!GroupsOf(m) = {{e.option : e \in {x \in S : x.group = g}} : g \in {e.group : e \in S} \ {None}}
  BY DEF Opt!GroupsOf
<1>5. Group(s) # {}
  BY DEF Group
<1> HIDE DEF m, S, grp
<1>6. {e.group : e \in S} \ {None} = {grp}
  BY <1>2, <1>3, <1>5
<1>7. {e.option : e \in {x \in S : x.group = grp}} = Group(s)
  BY <1>3
<1>8. {{e.option : e \in {x \in S : x.group = g}} : g \in {grp}} = {Group(s)}
  BY <1>7
<1>9. Opt!GroupsOf(m) = {Group(s)}
  BY <1>4, <1>6, <1>8
<1> QED BY <1>9 DEF m

-----------------------------------------------------------------------------
(* Importing a file *)

Given(s, map) == {o \in OptionsOf(s) : map[o] # Absent}
Exclusive(s, map) == \A x, y \in Group(s) : map[x] # Absent /\ map[y] # Absent => x = y

LEMMA ExclusiveFile ==
    ASSUME NEW s \in Opt!Services, Opt!Installed, NEW map
    PROVE  Opt!FileExclusive(Opt!Mapping[s], map) <=> Exclusive(s, map)
<1>1. Opt!GroupsOf(Opt!Mapping[s]) = {Group(s)}
  BY OneGroup
<1> QED BY <1>1 DEF Opt!FileExclusive, Exclusive, Opt!AtMostOne, Opt!IsPresent

\* The options that the ones of the file take the place of.
Gone(s, map) == Given(s, map) \cup (IF Given(s, map) \cap Group(s) # {} THEN Group(s) ELSE {})

\* What the command line and a file that is exclusive come to.
LEMMA Imported ==
    ASSUME NEW s \in Opt!Services, Opt!Installed, NEW map, Exclusive(s, map), NEW tokens
    PROVE  LET A == Opt!parse_commandline(tokens)
               R == Opt!ImportConfigFile(A, Opt!Mapping[s], map)
           IN  /\ R.present = (A.present \ Gone(s, map)) \cup Given(s, map)
               /\ R.key_value = [x \in DOMAIN A.key_value \cup Gone(s, map) |->
                                   IF x \in Given(s, map) THEN <<map[x]>>
                                   ELSE IF x \in Gone(s, map) THEN <<>> ELSE A.key_value[x]]
<1> DEFINE A == Opt!parse_commandline(tokens)
           m == Opt!Mapping[s]
           given == Opt!GetOptions(m, map)
           gone == UNION {Opt!Replaces(m, i) : i \in given}
           kept == {m[i].option : i \in {j \in given : \A k \in given : k > j => m[j].option \notin Opt!Replaces(m, k)}}
           L == Opt!remove_arg(A, gone)
           R == Opt!ImportConfigFile(A, m, map)
<1>1. /\ OptionsOf(s) = {m[i].option : i \in DOMAIN m}
      /\ DOMAIN m \subseteq Nat /\ \A i, j \in DOMAIN m : m[i].option = m[j].option => i = j
  BY MappedOnce DEF Opt!MappedOptions
<1>2. Group(s) \subseteq OptionsOf(s)
  BY DEF Group, OptionsOf
<1>3. given = {i \in DOMAIN m : m[i].option \in Given(s, map)}
  BY <1>1 DEF Opt!GetOptions, Opt!IsPresent, Given
<1>4. \A i \in DOMAIN m : Opt!Replaces(m, i) = {m[i].option} \cup (IF m[i].option \in Group(s) THEN Group(s) ELSE {})
  <2>1. Opt!GroupsOf(m) = {Group(s)}
    BY OneGroup
  <2>2. ASSUME NEW o PROVE Opt!GetRelatedExclusiveOptions(m, o) \cup {o} = {o} \cup (IF o \in Group(s) THEN Group(s) ELSE {})
    <3> DEFINE U == UNION {g \in {Group(s)} : o \in g}
               V == IF o \in Group(s) THEN Group(s) ELSE {}
    <3>1. Opt!GetRelatedExclusiveOptions(m, o) = U \ {o}
      BY <2>1 DEF Opt!GetRelatedExclusiveOptions
    <3>2. U = V
      OBVIOUS
    <3> HIDE DEF U, V, m
    <3>3. (V \ {o}) \cup {o} = {o} \cup V
      OBVIOUS
    <3> QED BY <3>1, <3>2, <3>3 DEF V
  <2> QED BY <2>2 DEF Opt!Replaces
<1>5. A = [key_value |-> A.key_value, present |-> A.present, extra_args |-> A.extra_args, completed |-> A.completed]
  BY DEF Opt!parse_commandline, Opt!ParsedArgs
<1>6. R = [L EXCEPT !.key_value = [x \in DOMAIN L.key_value |-> IF x \in kept THEN <<map[x]>> ELSE L.key_value[x]],
                    !.present = L.present \cup kept]
  BY DEF Opt!ImportConfigFile
<1>7. L = [A EXCEPT !.key_value = [x \in DOMAIN A.key_value \cup gone |-> IF x \in gone THEN <<>> ELSE A.key_value[x]],
                    !.present = A.present \ gone]
  BY DEF Opt!remove_arg
<1> HIDE DEF m, A, given
<1>8. gone = Gone(s, map)
  <2>1. \A o \in Given(s, map) : \E i \in given : m[i].option = o
    BY <1>1, <1>3 DEF Given
  <2>2. \A i \in given : i \in DOMAIN m /\ m[i].option \in Given(s, map)
    BY <1>3
  <2>3. ASSUME NEW x \in gone PROVE x \in Gone(s, map)
    BY <1>4, <2>2 DEF Gone
  <2>4. ASSUME NEW x \in Gone(s, map) PROVE x \in gone
    <3>1. CASE x \in Given(s, map)
      <4>1. PICK i \in given : m[i].option = x
        BY <2>1, <3>1
      <4> QED BY <1>4, <2>2, <4>1
    <3>2. CASE x \notin Given(s, map)
      <4>1. x \in Group(s) /\ Given(s, map) \cap Group(s) # {}
        BY <3>2 DEF Gone
      <4>2. PICK i \in given : m[i].option \in Group(s)
        BY <2>1, <4>1
      <4> QED BY <1>4, <2>2, <4>1, <4>2
    <3> QED BY <3>1, <3>2
  <2> QED BY <2>3, <2>4
<1>9. kept = Given(s, map)
  <2>1. ASSUME NEW j \in given, NEW k \in given, k > j PROVE m[j].option \notin Opt!Replaces(m, k)
    <3>1. j \in DOMAIN m /\ k \in DOMAIN m /\ m[j].option \in Given(s, map) /\ m[k].option \in Given(s, map)
      BY <1>3
    <3>2. m[j].option # m[k].option
      BY <1>1, <2>1, <3>1
    <3>3. ~(m[j].option \in Group(s) /\ m[k].option \in Group(s))
      BY <3>1, <3>2 DEF Exclusive, Given
    <3> QED BY <1>4, <3>1, <3>2, <3>3
  <2>2. {j \in given : \A k \in given : k > j => m[j].option \notin Opt!Replaces(m, k)} = given
    BY <2>1
  <2>3. kept = {m[i].option : i \in given}
    BY <2>2
  <2>4. Given(s, map) \subseteq {m[i].option : i \in DOMAIN m}
    BY <1>1 DEF Given
  <2> HIDE DEF kept
  <2> QED BY <1>3, <2>3, <2>4
<1> HIDE DEF gone, kept
<1> DEFINE G == Given(s, map)
           O == Gone(s, map)
           kv == [x \in DOMAIN A.key_value \cup O |-> IF x \in O THEN <<>> ELSE A.key_value[x]]
<1>10. L = [key_value |-> kv, present |-> A.present \ O, extra_args |-> A.extra_args, completed |-> A.completed]
  <2> HIDE DEF O, L
  <2> QED BY <1>5, <1>7, <1>8 DEF O
<1>11. G \subseteq O
  BY DEF Gone
<1> HIDE DEF L, G, O
<1>12. L.key_value = kv /\ L.present = A.present \ O
  BY <1>10
<1>13. /\ R.key_value = [x \in DOMAIN kv |-> IF x \in G THEN <<map[x]>> ELSE kv[x]]
       /\ R.present = (A.present \ O) \cup G
  BY <1>6, <1>9, <1>10, <1>12 DEF G
<1>14. R.key_value = [x \in DOMAIN A.key_value \cup O |->
                        IF x \in G THEN <<map[x]>> ELSE IF x \in O THEN <<>> ELSE A.key_value[x]]
  BY <1>13
<1> QED BY <1>13, <1>14 DEF G, O, A, m

-----------------------------------------------------------------------------
(* The running service *)

OptionFile(map) == [exists |-> TRUE, map |-> map]
Args(s, map) == Opt!ImportConfigFile(Opt!parse_commandline(CommandLine[s]), Opt!Mapping[s], map)

LEMMA StartOf ==
    ASSUME NEW f
    PROVE  /\ Opt!Starts(f) <=> Opt!Starts(OptionFile(f.map))
           /\ Opt!Settings(f) = Opt!Settings(OptionFile(f.map))
           /\ Opt!StartArgs(f) = Args(svc, f.map)
<1>1. Opt!StartArgs(f) = Args(svc, f.map)
  BY DEF Opt!StartArgs, Args, Opt!M
<1>2. Opt!StartArgs(OptionFile(f.map)) = Args(svc, f.map)
  BY DEF Opt!StartArgs, Args, Opt!M, OptionFile
<1>3. OptionFile(f.map).map = f.map
  BY DEF OptionFile
<1> QED BY <1>1, <1>2, <1>3 DEF Opt!Starts, Opt!Settings

LEMMA StartFacts ==
    ASSUME NEW map, svc \in Opt!Services, Opt!Installed, Exclusive(svc, map)
    PROVE  /\ Opt!Starts(OptionFile(map)) <=> /\ Opt!ArgsExclusive(Args(svc, map), Opt!StartGroups[svc])
                                              /\ Opt!ValidValues(svc, Args(svc, map))
           /\ LET S == Opt!Settings(OptionFile(map)) IN
              /\ S.method = Opt!Method(Args(svc, map))
              /\ S.level = IF "log-level" \notin Args(svc, map).present THEN Absent
                           ELSE IF svc = "log" THEN Opt!GetValue(Args(svc, map), "log-level")
                           ELSE Opt!GetLastValue(Args(svc, map), "log-level")
              /\ S.timestamp = ("timestamp" \in Args(svc, map).present)
              /\ S = [method |-> S.method, level |-> S.level, timestamp |-> S.timestamp]
<1>1. Opt!StartArgs(OptionFile(map)) = Args(svc, map) /\ OptionFile(map).map = map
  BY DEF Opt!StartArgs, Args, Opt!M, OptionFile
<1>2. Opt!FileExclusive(Opt!M, map)
  BY ExclusiveFile DEF Opt!M
<1>3. Opt!Starts(OptionFile(map)) <=> /\ Opt!ArgsExclusive(Args(svc, map), Opt!StartGroups[svc])
                                      /\ Opt!ValidValues(svc, Args(svc, map))
  BY <1>1, <1>2 DEF Opt!Starts
<1> DEFINE level == IF "log-level" \notin Args(svc, map).present THEN Absent
                    ELSE IF svc = "log" THEN Opt!GetValue(Args(svc, map), "log-level")
                    ELSE Opt!GetLastValue(Args(svc, map), "log-level")
<1>4. Opt!Settings(OptionFile(map)) = [method |-> Opt!Method(Args(svc, map)), level |-> level,
                                  timestamp |-> "timestamp" \in Args(svc, map).present]
  BY <1>1 DEF Opt!Settings
<1> HIDE DEF level
<1>5. LET S == Opt!Settings(OptionFile(map)) IN
      /\ S.method = Opt!Method(Args(svc, map)) /\ S.level = level /\ S.timestamp = ("timestamp" \in Args(svc, map).present)
      /\ S = [method |-> S.method, level |-> S.level, timestamp |-> S.timestamp]
  BY <1>4
<1> QED BY <1>3, <1>5 DEF level

\* What is present after a start.
LEMMA ArgsPresent ==
    ASSUME NEW map, svc \in Opt!Services, Opt!Installed, Exclusive(svc, map)
    PROVE  LET A == Opt!parse_commandline(CommandLine[svc]) IN
           /\ Args(svc, map).present = (A.present \ Gone(svc, map)) \cup Given(svc, map)
           /\ Args(svc, map).key_value = [x \in DOMAIN A.key_value \cup Gone(svc, map) |->
                                       IF x \in Given(svc, map) THEN <<map[x]>>
                                       ELSE IF x \in Gone(svc, map) THEN <<>> ELSE A.key_value[x]]
BY Imported DEF Args

\* The values that a start checks are those of the command line, which are
\* known, and those of the file.
LEMMA ValuesOfFile ==
    ASSUME NEW map, svc \in Opt!Services, Opt!Installed, Exclusive(svc, map),
           \A o \in Given(svc, map) : map[o] \notin Unknown
    PROVE  Opt!ValidValues(svc, Args(svc, map))
<1> DEFINE A == Opt!parse_commandline(CommandLine[svc])
           R == Args(svc, map)
           V(x) == IF x \in Given(svc, map) THEN <<map[x]>>
                   ELSE IF x \in Gone(svc, map) THEN <<>> ELSE A.key_value[x]
<1>1. /\ R.present = (A.present \ Gone(svc, map)) \cup Given(svc, map)
      /\ R.key_value = [x \in DOMAIN A.key_value \cup Gone(svc, map) |-> V(x)]
  BY ArgsPresent
<1>2. Given(svc, map) \subseteq Gone(svc, map)
  BY DEF Gone
<1>3. \A o \in Opt!Checked[svc] \cap A.present : Opt!GetValue(A, o) \notin Unknown
  BY DEF Opt!Installed
<1> HIDE DEF A, R, V
<1>4. ASSUME NEW o \in Opt!Checked[svc] \cap R.present PROVE Opt!GetValue(R, o) \notin Unknown
  <2>1. CASE o \in Given(svc, map)
    <3>1. Opt!GetAllValues(R, o) = <<map[o]>>
      BY <1>1, <1>2, <2>1 DEF Opt!GetAllValues, V
    <3>2. Head(<<map[o]>>) = map[o]
      OBVIOUS
    <3> QED BY <2>1, <3>1, <3>2 DEF Opt!GetValue
  <2>2. CASE o \notin Given(svc, map)
    <3>1. o \in A.present /\ o \notin Gone(svc, map)
      BY <1>1, <2>2
    <3>2. Opt!GetAllValues(R, o) = Opt!GetAllValues(A, o)
      BY <1>1, <2>2, <3>1 DEF Opt!GetAllValues, V
    <3> QED BY <1>3, <3>1, <3>2 DEF Opt!GetValue
  <2> QED BY <2>1, <2>2
<1> QED BY <1>4 DEF Opt!ValidValues, R

\* Only "colour" and a value in the file that is not known prevent a start with
\* a file that is exclusive, and the file wins.
LEMMA UsableFile ==
    ASSUME NEW map, svc \in Opt!Services, Opt!Installed, Exclusive(svc, map)
    PROVE  /\ ~Opt!Starts(OptionFile(map)) => \/ svc = "log" /\ "colour" \in Args(svc, map).present
                                              \/ \E o \in Given(svc, map) : map[o] \in Unknown
           /\ \A o \in Given(svc, map) \cap {"journald", "syslog", "systemd-resolved", "resolv-conf"} :
                Opt!Settings(OptionFile(map)).method = o
<1> DEFINE A == Opt!parse_commandline(CommandLine[svc])
           P == Args(svc, map).present
           given == Given(svc, map)
           gone == Gone(svc, map)
           group == Group(svc)
<1>1. P = (A.present \ gone) \cup given
  BY ArgsPresent
<1>2. \A x, y \in given \cap group : x = y
  BY DEF Exclusive, Given
<1>3. given \cap group # {} => group \subseteq gone
  BY DEF Gone
<1>4. \A x, y \in group \cap A.present : x = y
  <2>1. group \in Opt!StartGroups[svc]
    <3>1. CASE svc = "log"
      BY <3>1 DEF Opt!StartGroups, Group
    <3>2. CASE svc = "netcfg"
      BY <3>2 DEF Opt!StartGroups, Group
    <3> QED BY <3>1, <3>2 DEF Opt!Services
  <2>2. Opt!ArgsExclusive(A, Opt!StartGroups[svc])
    BY DEF Opt!Installed
  <2> QED BY <2>1, <2>2 DEF Opt!ArgsExclusive, Opt!AtMostOne
<1> HIDE DEF A, P, given, gone, group
<1>5. \A x, y \in group \cap P : x = y
  BY <1>1, <1>2, <1>3, <1>4
<1>6. ~Opt!Starts(OptionFile(map)) => \/ svc = "log" /\ "colour" \in P
                                      \/ \E o \in given : map[o] \in Unknown
  <2> SUFFICES ASSUME ~(svc = "log" /\ "colour" \in P) PROVE Opt!ArgsExclusive(Args(svc, map), Opt!StartGroups[svc])
    BY StartFacts, ValuesOfFile DEF given
  <2> SUFFICES ASSUME NEW g \in Opt!StartGroups[svc], NEW x \in g \cap P, NEW y \in g \cap P PROVE x = y
    BY DEF Opt!ArgsExclusive, Opt!AtMostOne, P
  <2>1. CASE svc = "log"
    <3>1. g \in {{"syslog", "journald", "log-file"}, {"syslog", "journald", "colour"}}
      BY <2>1 DEF Opt!StartGroups
    <3>2. group = {"journald", "syslog", "log-file"} /\ "colour" \notin P
      BY <2>1 DEF group, Group
    <3>3. x \in group \cap P /\ y \in group \cap P
      BY <3>1, <3>2
    <3> QED BY <1>5, <3>3
  <2>2. CASE svc = "netcfg"
    <3>1. g = group
      BY <2>2 DEF Opt!StartGroups, group, Group
    <3> QED BY <1>5, <3>1
  <2> QED BY <2>1, <2>2 DEF Opt!Services
<1>7. ASSUME NEW o \in given \cap {"journald", "syslog", "systemd-resolved", "resolv-conf"}
      PROVE  Opt!Settings(OptionFile(map)).method = o
  <2>1. Opt!Settings(OptionFile(map)).method = Opt!Method(Args(svc, map)) /\ o \in P
    BY <1>1, StartFacts
  <2>2. CASE svc = "log"
    <3>1. o \in {"journald", "syslog"} /\ {"journald", "syslog"} \subseteq group
      BY <2>2 DEF given, Given, OptionsOf, group, Group
    <3>2. \A x \in {"journald", "syslog"} : x \in P => x = o
      BY <1>5, <2>1, <3>1
    <3> QED BY <2>1, <2>2, <3>1, <3>2 DEF Opt!Method, P
  <2>3. CASE svc = "netcfg"
    <3>1. o \in group /\ group = {"systemd-resolved", "resolv-conf"}
      BY <2>3 DEF given, Given, OptionsOf, group, Group
    <3>2. \A x \in group : x \in P => x = o
      BY <1>5, <2>1, <3>1
    <3> QED BY <2>1, <2>3, <3>1, <3>2 DEF Opt!Method, P
  <2> QED BY <2>2, <2>3 DEF Opt!Services
<1> QED BY <1>6, <1>7 DEF P, given

\* The options a property of the log service changes belong to no group.
LEMMA Saved ==
    ASSUME NEW map, svc = "log", Opt!Installed, Exclusive(svc, map), DOMAIN map = OptionsOf(svc),
           NEW o \in {"log-level", "timestamp"}, NEW v, v # Absent,
           NEW new, DOMAIN new = OptionsOf(svc), new[o] = v,
           \A x \in OptionsOf(svc) \ {o} : new[x] = map[x]
    PROVE  /\ Exclusive(svc, new)
           /\ Args(svc, new).present = Args(svc, map).present \cup {o}
           /\ Opt!GetAllValues(Args(svc, new), o) = <<v>>
           /\ \A x \in {"log-level", "timestamp", "syslog-facility"} \ {o} :
                Opt!GetAllValues(Args(svc, new), x) = Opt!GetAllValues(Args(svc, map), x)
<1> DEFINE A == Opt!parse_commandline(CommandLine[svc])
<1>1. o \in OptionsOf(svc) /\ o \notin Group(svc) /\ Group(svc) \subseteq OptionsOf(svc) /\ svc \in Opt!Services
  BY DEF OptionsOf, Group, Opt!Services
<1>2. DOMAIN new = OptionsOf(svc) /\ new[o] = v /\ \A x \in OptionsOf(svc) \ {o} : new[x] = map[x]
  OBVIOUS
<1>3. Exclusive(svc, new)
  BY <1>1, <1>2 DEF Exclusive
<1>4. Given(svc, new) = Given(svc, map) \cup {o}
  BY <1>1, <1>2 DEF Given
<1>5. Gone(svc, new) = Gone(svc, map) \cup {o}
  <2>1. Given(svc, new) \cap Group(svc) = Given(svc, map) \cap Group(svc)
    BY <1>1, <1>4
  <2> QED BY <1>4, <2>1 DEF Gone
<1> DEFINE D(m) == DOMAIN A.key_value \cup Gone(svc, m)
           V(m, x) == IF x \in Given(svc, m) THEN <<m[x]>> ELSE IF x \in Gone(svc, m) THEN <<>> ELSE A.key_value[x]
<1>0. ASSUME NEW m, Exclusive(svc, m)
      PROVE  /\ Args(svc, m).present = (A.present \ Gone(svc, m)) \cup Given(svc, m)
             /\ Args(svc, m).key_value = [x \in D(m) |-> V(m, x)]
  BY <1>0, <1>1, ArgsPresent
<1>6. /\ Args(svc, map).present = (A.present \ Gone(svc, map)) \cup Given(svc, map)
      /\ Args(svc, map).key_value = [x \in D(map) |-> V(map, x)]
  BY <1>0
<1>7. /\ Args(svc, new).present = (A.present \ Gone(svc, new)) \cup Given(svc, new)
      /\ Args(svc, new).key_value = [x \in D(new) |-> V(new, x)]
  BY <1>0, <1>3
<1>8. D(new) = D(map) \cup {o} /\ V(new, o) = <<v>>
  BY <1>2, <1>4, <1>5
<1>9. ASSUME NEW x \in {"log-level", "timestamp", "syslog-facility"} \ {o} PROVE (x \in D(new) <=> x \in D(map)) /\ V(new, x) = V(map, x)
  <2>1. x \in OptionsOf(svc)
    BY DEF OptionsOf
  <2> QED BY <1>2, <1>4, <1>5, <2>1
<1>10. Args(svc, new).present = Args(svc, map).present \cup {o}
  <2> HIDE DEF A
  <2> QED BY <1>4, <1>5, <1>6, <1>7
<1> HIDE DEF A, D, V
<1>11. Opt!GetAllValues(Args(svc, new), o) = <<v>>
  BY <1>7, <1>8 DEF Opt!GetAllValues
<1>12. ASSUME NEW x \in {"log-level", "timestamp", "syslog-facility"} \ {o}
       PROVE  Opt!GetAllValues(Args(svc, new), x) = Opt!GetAllValues(Args(svc, map), x)
  <2>1. \A y \in D(map) : Args(svc, map).key_value[y] = V(map, y)
    BY <1>6
  <2>2. \A y \in D(new) : Args(svc, new).key_value[y] = V(new, y)
    BY <1>7
  <2>3. DOMAIN Args(svc, map).key_value = D(map) /\ DOMAIN Args(svc, new).key_value = D(new)
    BY <1>6, <1>7
  <2>4. (x \in D(new) <=> x \in D(map)) /\ V(new, x) = V(map, x)
    BY <1>9
  <2> QED BY <2>1, <2>2, <2>3, <2>4 DEF Opt!GetAllValues
<1> QED BY <1>2, <1>3, <1>10, <1>11, <1>12

\* Setting one option leaves the others alone.
LEMMA SetsOne ==
    ASSUME NEW m, NEW map, NEW o, NEW v
    PROVE  /\ DOMAIN Opt!SetValue(m, map, o, v) = DOMAIN map
           /\ \A x \in DOMAIN map \ {o} : Opt!SetValue(m, map, o, v)[x] = map[x]
<1>1. \E w : Opt!SetValue(m, map, o, v) = [map EXCEPT ![o] = w]
  <2>1. CASE Opt!Entry(m, o).type = "Present"
    BY <2>1 DEF Opt!SetValue
  <2>2. CASE Opt!Entry(m, o).type # "Present"
    BY <2>2 DEF Opt!SetValue
  <2> QED BY <2>1, <2>2
<1> QED BY <1>1

LEMMA EntryOf ==
    ASSUME NEW s \in Opt!Services, NEW i \in DOMAIN Opt!Mapping[s]
    PROVE  Opt!Entry(Opt!Mapping[s], Opt!Mapping[s][i].option) = Opt!Mapping[s][i]
<1> DEFINE m == Opt!Mapping[s]
           S == Opt!ToSet(m)
<1>1. S = {m[j] : j \in DOMAIN m}
  BY DEF Opt!ToSet
<1>2. \A j, k \in DOMAIN m : m[j].option = m[k].option => j = k
  BY MappedOnce
<1>3. Opt!Entry(m, m[i].option) = CHOOSE e \in S : e.option = m[i].option
  BY DEF Opt!Entry
<1> HIDE DEF m, S
<1>4. i \in DOMAIN m
  BY DEF m
<1>5. \A e \in S : e.option = m[i].option => e = m[i]
  BY <1>1, <1>2, <1>4
<1>6. m[i] \in S
  BY <1>1, <1>4
<1>7. (CHOOSE e \in S : e.option = m[i].option) = m[i]
  BY <1>5, <1>6
<1> QED BY <1>3, <1>7 DEF m

\* What save_property() puts into the options.
LEMMA PropertySet ==
    ASSUME NEW map, DOMAIN map = OptionsOf("log"), Opt!Installed
    PROVE  /\ \A l \in Levels : Opt!SetValue(Opt!Mapping["log"], map, "log-level", l)["log-level"] = l
           /\ \A f \in {"true", "false"} :
                 Opt!SetValue(Opt!Mapping["log"], map, "timestamp", f)["timestamp"] = f
<1> DEFINE m == Opt!Mapping["log"]
<1>1. /\ DOMAIN m = 1..7 /\ m[6].option = "log-level" /\ m[6].type = "Int"
      /\ m[7].option = "timestamp" /\ m[7].type = "Present"
  BY LogMapping
<1>2. "log" \in Opt!Services
  BY DEF Opt!Services
<1>3. Opt!Entry(m, "log-level") = m[6]
  <2>1. 6 \in DOMAIN m
    BY <1>1
  <2> QED BY <1>1, <1>2, <2>1, EntryOf
<1>4. Opt!Entry(m, "timestamp") = m[7]
  <2>1. 7 \in DOMAIN m
    BY <1>1
  <2> QED BY <1>1, <1>2, <2>1, EntryOf
<1> HIDE DEF m
<1>5. "log-level" \in DOMAIN map /\ "timestamp" \in DOMAIN map
  BY DEF OptionsOf
<1>6. ASSUME NEW l \in Levels PROVE Opt!SetValue(m, map, "log-level", l)["log-level"] = l
  <2>1. l # ""
    BY DEF Opt!Installed
  <2> QED BY <1>1, <1>3, <1>5, <2>1 DEF Opt!SetValue
<1>7. ASSUME NEW f \in {"true", "false"} PROVE Opt!SetValue(m, map, "timestamp", f)["timestamp"] = f
  BY <1>1, <1>4, <1>5 DEF Opt!SetValue
<1> QED BY <1>6, <1>7 DEF m

-----------------------------------------------------------------------------
(* The inductive invariant *)

MethodOf(s, given) ==
    IF s = "log"
    THEN IF "syslog" \in given THEN "syslog" ELSE IF "journald" \in given THEN "journald" ELSE "stdout"
    ELSE IF "systemd-resolved" \in given THEN "systemd-resolved"
         ELSE IF "resolv-conf" \in given THEN "resolv-conf" ELSE "none"
LevelOf(s, args) ==
    IF "log-level" \notin args.present THEN Absent
    ELSE IF s = "log" THEN Opt!GetValue(args, "log-level") ELSE Opt!GetLastValue(args, "log-level")

\* A start with these options succeeds and leads to settings e.
Restores(s, map, e) ==
    /\ Opt!ArgsExclusive(Args(s, map), Opt!StartGroups[s])
    /\ Opt!ValidValues(s, Args(s, map))
    /\ MethodOf(s, Args(s, map).present) = e.method
    /\ LevelOf(s, Args(s, map)) = e.level
    /\ e.timestamp => "timestamp" \in Args(s, map).present

GoodMap(s, map) == DOMAIN map = OptionsOf(s) /\ Exclusive(s, map)
GoodAdmin(s, r) ==
    /\ "phase" \in DOMAIN r /\ "map" \in DOMAIN r
    /\ DOMAIN r.map = OptionsOf(s)
    /\ r.phase = "saving" => Exclusive(s, r.map)
GoodAdmins(s, f) == DOMAIN f = Admins /\ \A a \in Admins : GoodAdmin(s, f[a])
GoodSettings(e) == e = [method |-> e.method, level |-> e.level, timestamp |-> e.timestamp]

\* What the service wrote last is what it has, unless a thread is about to
\* write it.
OptInv ==
    /\ svc \in Opt!Services
    /\ GoodMap(svc, file.map)
    /\ GoodMap(svc, mem)
    /\ GoodAdmins(svc, admin)
    /\ GoodSettings(eff)
    /\ DOMAIN work = Workers
    /\ up => Restores(svc, mem, eff)
    /\ (up /\ last = "service") => file.map = mem \/ \E w \in Workers : work[w] = "saving"

LEMMA RestoresMeans ==
    ASSUME NEW map, svc \in Opt!Services, Opt!Installed, Exclusive(svc, map), NEW e
    PROVE  Restores(svc, map, e) <=>
             /\ Opt!Starts(OptionFile(map))
             /\ Opt!Settings(OptionFile(map)).method = e.method
             /\ Opt!Settings(OptionFile(map)).level = e.level
             /\ e.timestamp => Opt!Settings(OptionFile(map)).timestamp
<1> DEFINE S == Opt!Settings(OptionFile(map))
<1>1. Opt!Method(Args(svc, map)) = MethodOf(svc, Args(svc, map).present)
  BY DEF Opt!Method, MethodOf
<1>2. /\ Opt!Starts(OptionFile(map)) <=> /\ Opt!ArgsExclusive(Args(svc, map), Opt!StartGroups[svc])
                                          /\ Opt!ValidValues(svc, Args(svc, map))
      /\ S.method = Opt!Method(Args(svc, map))
      /\ S.level = LevelOf(svc, Args(svc, map))
      /\ S.timestamp = ("timestamp" \in Args(svc, map).present)
  BY StartFacts DEF LevelOf
<1> HIDE DEF S
<1> QED BY <1>1, <1>2 DEF Restores, S

LEMMA EmptyMap ==
    ASSUME svc \in Opt!Services
    PROVE  GoodMap(svc, Opt!NoOptions(Opt!M))
<1>1. Opt!NoOptions(Opt!M) = [o \in OptionsOf(svc) |-> Absent]
  BY MappedOnce DEF Opt!NoOptions, Opt!M
<1>2. Group(svc) \subseteq OptionsOf(svc)
  BY DEF Group, OptionsOf
<1> QED BY <1>1, <1>2 DEF GoodMap, Exclusive

LEMMA NoAdminGood ==
    ASSUME svc \in Opt!Services
    PROVE  GoodAdmin(svc, Opt!NoAdmin)
<1>1. GoodMap(svc, Opt!NoOptions(Opt!M))
  BY EmptyMap
<1> DEFINE n == Opt!NoOptions(Opt!M)
<1>2. Opt!NoAdmin = [phase |-> "idle", cmd |-> None, args |-> Opt!ParsedArgs, map |-> n]
  BY DEF Opt!NoAdmin
<1> HIDE DEF n
<1> QED BY <1>1, <1>2 DEF GoodAdmin, GoodMap, n

LEMMA OneAdmin ==
    ASSUME NEW f, GoodAdmins(svc, f), NEW a \in Admins, NEW r, GoodAdmin(svc, r)
    PROVE  GoodAdmins(svc, [f EXCEPT ![a] = r])
BY DEF GoodAdmins

\* A start with a file restores the settings it leads to.
LEMMA SettingsGood ==
    ASSUME NEW f, svc \in Opt!Services, Opt!Installed, Exclusive(svc, f.map)
    PROVE  /\ GoodSettings(Opt!Settings(f))
           /\ Opt!Starts(f) => Restores(svc, f.map, Opt!Settings(f))
<1>1. /\ Opt!Starts(f) <=> Opt!Starts(OptionFile(f.map))
      /\ Opt!Settings(f) = Opt!Settings(OptionFile(f.map))
  BY StartOf
<1>2. GoodSettings(Opt!Settings(OptionFile(f.map)))
  BY StartFacts DEF GoodSettings
<1>3. Opt!Starts(OptionFile(f.map)) => Restores(svc, f.map, Opt!Settings(OptionFile(f.map)))
  BY RestoresMeans
<1> QED BY <1>1, <1>2, <1>3

LEMMA NoSettingsGood == GoodSettings(Opt!NoSettings)
BY DEF Opt!NoSettings, GoodSettings

LEMMA OptInit ==
    ASSUME Opt!Installed, Opt!Init PROVE OptInv
<1> USE DEF Opt!Init
<1>1. svc \in Opt!Services
  OBVIOUS
<1> DEFINE n == Opt!NoOptions(Opt!M)
<1>2. GoodMap(svc, n) /\ GoodAdmin(svc, Opt!NoAdmin)
  BY <1>1, EmptyMap, NoAdminGood
<1> HIDE DEF n
<1>3. file.map = n /\ mem = n
  BY DEF n
<1>4. GoodSettings(eff)
  BY NoSettingsGood
<1>5. GoodAdmins(svc, admin)
  BY <1>2 DEF GoodAdmins
<1> QED BY <1>1, <1>2, <1>3, <1>4, <1>5 DEF OptInv

LEMMA OptStart ==
    ASSUME Opt!Installed, OptInv, Opt!Start PROVE OptInv'
<1>1. /\ up' = TRUE /\ mem' = file.map /\ eff' = Opt!Settings(file) /\ last' # "service"
      /\ UNCHANGED <<svc, file, work, admin>> /\ Opt!Starts(file)
  BY DEF Opt!Start
<1>2. GoodSettings(Opt!Settings(file)) /\ Restores(svc, file.map, Opt!Settings(file))
  BY <1>1, SettingsGood DEF OptInv, GoodMap
<1> QED BY <1>1, <1>2 DEF OptInv

LEMMA OptExit ==
    ASSUME Opt!Installed, OptInv, Opt!Exit
    PROVE  GoodMap(svc, mem') /\ GoodSettings(eff') /\ ~up'
BY EmptyMap, NoSettingsGood DEF OptInv, Opt!Exit

LEMMA OptStop ==
    ASSUME Opt!Installed, OptInv, Opt!Stop PROVE OptInv'
<1>1. Opt!Exit /\ UNCHANGED <<svc, file, work, admin>>
  BY DEF Opt!Stop
<1>2. GoodMap(svc, mem') /\ GoodSettings(eff') /\ ~up'
  BY <1>1, OptExit
<1> QED BY <1>1, <1>2 DEF OptInv

LEMMA OptKill ==
    ASSUME Opt!Installed, OptInv, Opt!Kill PROVE OptInv'
<1>1. UNCHANGED <<svc, file>>
  BY DEF Opt!Kill
<1>2. CASE Opt!Exit /\ work' = [w \in Workers |-> "idle"] /\ UNCHANGED admin
  <2>1. GoodMap(svc, mem') /\ GoodSettings(eff') /\ ~up'
    BY <1>2, OptExit
  <2> QED BY <1>1, <1>2, <2>1 DEF OptInv
<1>3. CASE \E a \in Admins : /\ admin' = [admin EXCEPT ![a] = Opt!NoAdmin]
                              /\ UNCHANGED <<up, mem, eff, work, last>>
  <2>1. PICK a \in Admins : admin' = [admin EXCEPT ![a] = Opt!NoAdmin]
    BY <1>3
  <2>2. GoodAdmin(svc, Opt!NoAdmin) /\ GoodAdmins(svc, admin)
    BY NoAdminGood DEF OptInv
  <2>3. GoodAdmins(svc, admin')
    BY <2>1, <2>2, OneAdmin
  <2> QED BY <1>1, <1>3, <2>3 DEF OptInv
<1> QED BY <1>2, <1>3 DEF Opt!Kill

\* A property that is set is found again by a start with the new options.
LEMMA PropertyRestored ==
    ASSUME NEW map, svc = "log", Opt!Installed, GoodMap(svc, map),
           NEW e, Restores(svc, map, e), GoodSettings(e),
           NEW o \in {"log-level", "timestamp"}, NEW v, v # Absent, o = "log-level" => v \notin Unknown,
           NEW new, DOMAIN new = OptionsOf(svc), new[o] = v,
           \A x \in OptionsOf(svc) \ {o} : new[x] = map[x],
           NEW n, n.method = e.method,
           n.level = (IF o = "log-level" THEN v ELSE e.level),
           o # "timestamp" => n.timestamp = e.timestamp
    PROVE  GoodMap(svc, new) /\ Restores(svc, new, n)
<1> DEFINE P == Args(svc, map).present
           Q == Args(svc, new).present
<1>1. /\ Exclusive(svc, new) /\ Q = P \cup {o}
      /\ Opt!GetAllValues(Args(svc, new), o) = <<v>>
      /\ \A x \in {"log-level", "timestamp", "syslog-facility"} \ {o} :
            Opt!GetAllValues(Args(svc, new), x) = Opt!GetAllValues(Args(svc, map), x)
  BY Saved DEF GoodMap
<1>2. Opt!ArgsExclusive(Args(svc, new), Opt!StartGroups[svc])
  <2>1. Opt!StartGroups[svc] = {{"syslog", "journald", "log-file"}, {"syslog", "journald", "colour"}}
    BY DEF Opt!StartGroups
  <2>2. \A g \in Opt!StartGroups[svc] : \A x, y \in g \cap P : x = y
    BY DEF Restores, Opt!ArgsExclusive, Opt!AtMostOne
  <2>3. \A g \in Opt!StartGroups[svc] : o \notin g
    BY <2>1
  <2>4. \A g \in Opt!StartGroups[svc] : g \cap Q = g \cap P
    BY <1>1, <2>3
  <2> HIDE DEF P, Q
  <2>5. \A g \in Opt!StartGroups[svc] : \A x, y \in g \cap Q : x = y
    BY <2>2, <2>4
  <2> QED BY <2>5 DEF Opt!ArgsExclusive, Opt!AtMostOne, Q
<1>3. MethodOf(svc, Q) = n.method
  <2>1. MethodOf(svc, P) = e.method
    BY DEF Restores
  <2> HIDE DEF P, Q
  <2>2. ("syslog" \in Q <=> "syslog" \in P) /\ ("journald" \in Q <=> "journald" \in P)
    BY <1>1
  <2> QED BY <2>1, <2>2 DEF MethodOf
<1>4. LevelOf(svc, Args(svc, new)) = n.level
  <2>1. CASE o = "log-level"
    <3>1. "log-level" \in Q /\ Opt!GetAllValues(Args(svc, new), "log-level") = <<v>>
      BY <1>1, <2>1
    <3>2. Head(<<v>>) = v
      OBVIOUS
    <3> QED BY <2>1, <3>1, <3>2 DEF LevelOf, Opt!GetValue
  <2>2. CASE o = "timestamp"
    <3>1. LevelOf(svc, Args(svc, map)) = e.level
      BY DEF Restores
    <3>2. /\ "log-level" \in Q <=> "log-level" \in P
          /\ Opt!GetAllValues(Args(svc, new), "log-level") = Opt!GetAllValues(Args(svc, map), "log-level")
      BY <1>1, <2>2
    <3> QED BY <2>2, <3>1, <3>2 DEF LevelOf, Opt!GetValue
  <2> QED BY <2>1, <2>2
<1>5. n.timestamp => "timestamp" \in Q
  <2>1. e.timestamp => "timestamp" \in P
    BY DEF Restores
  <2> HIDE DEF P, Q
  <2>2. CASE o = "timestamp"
    BY <1>1, <2>2
  <2>3. CASE o # "timestamp"
    <3>1. n.timestamp = e.timestamp
      BY <2>3
    <3> QED BY <1>1, <2>1, <3>1
  <2> QED BY <2>2, <2>3
<1>6. Opt!ValidValues(svc, Args(svc, new))
  <2>1. Opt!Checked[svc] = {"log-level", "syslog-facility"}
    BY DEF Opt!Checked
  <2>2. \A x \in Opt!Checked[svc] \cap P : x # "syslog-facility" \/ "syslog" \in P =>
            Opt!GetValue(Args(svc, map), x) \notin Unknown
    BY DEF Restores, Opt!ValidValues
  <2> HIDE DEF P, Q
  <2> SUFFICES ASSUME NEW x \in {"log-level", "syslog-facility"} \cap Q, x # "syslog-facility" \/ "syslog" \in Q
               PROVE  Opt!GetValue(Args(svc, new), x) \notin Unknown
    BY <2>1 DEF Opt!ValidValues, Q
  <2>3. CASE x = o
    <3>1. Opt!GetAllValues(Args(svc, new), x) = <<v>> /\ v \notin Unknown /\ Head(<<v>>) = v
      BY <1>1, <2>3
    <3> QED BY <3>1 DEF Opt!GetValue
  <2>4. CASE x # o
    <3>1. Opt!GetAllValues(Args(svc, new), x) = Opt!GetAllValues(Args(svc, map), x)
      BY <1>1, <2>4
    <3>2. x \in P /\ ("syslog" \in Q => "syslog" \in P)
      BY <1>1, <2>4
    <3>3. Opt!GetValue(Args(svc, map), x) \notin Unknown
      BY <2>1, <2>2, <3>2
    <3> QED BY <3>1, <3>3 DEF Opt!GetValue
  <2> QED BY <2>3, <2>4
<1> QED BY <1>1, <1>2, <1>3, <1>4, <1>5, <1>6 DEF Restores, GoodMap

LEMMA OptSetProperty ==
    ASSUME Opt!Installed, OptInv, NEW w \in Workers, Opt!SetProperty(w) PROVE OptInv'
<1> DEFINE m == Opt!Mapping["log"]
           none == Opt!NoOptions(Opt!M)
<1>1. /\ svc = "log" /\ up
      /\ \/ work' = [work EXCEPT ![w] = "saving"] /\ file' = [exists |-> TRUE, map |-> none]
         \/ last' = "other" /\ UNCHANGED <<file, work>>
      /\ UNCHANGED <<svc, up, admin>>
  BY DEF Opt!SetProperty, Opt!Truncate
<1>2. GoodMap(svc, none)
  BY EmptyMap DEF OptInv
<1>3. /\ GoodMap(svc, mem) /\ GoodSettings(eff) /\ Restores(svc, mem, eff) /\ DOMAIN mem = OptionsOf(svc)
      /\ DOMAIN work = Workers
  BY <1>1 DEF OptInv, GoodMap
<1>4. GoodMap(svc, mem') /\ GoodSettings(eff') /\ Restores(svc, mem', eff')
  <2>1. CASE \E l \in Levels : /\ eff' = [eff EXCEPT !.level = l]
                               /\ mem' = Opt!SetValue(m, mem, "log-level", l)
    <3>1. PICK l \in Levels : eff' = [eff EXCEPT !.level = l] /\ mem' = Opt!SetValue(m, mem, "log-level", l)
      BY <2>1
    <3>2. l # Absent /\ l \notin Unknown
      BY DEF Opt!Installed
    <3>3. DOMAIN mem' = OptionsOf(svc) /\ \A x \in OptionsOf(svc) \ {"log-level"} : mem'[x] = mem[x]
      BY <1>3, <3>1, SetsOne
    <3>4. mem'["log-level"] = l
      BY <1>1, <1>3, <3>1, PropertySet
    <3>5. GoodSettings(eff') /\ eff'.method = eff.method /\ eff'.level = l /\ eff'.timestamp = eff.timestamp
      BY <1>3, <3>1 DEF GoodSettings
    <3> QED BY <1>1, <1>3, <3>2, <3>3, <3>4, <3>5, PropertyRestored
  <2>2. CASE \E b \in BOOLEAN : /\ eff' = [eff EXCEPT !.timestamp = b]
                                /\ mem' = Opt!SetValue(m, mem, "timestamp", IF b THEN "true" ELSE "false")
    <3>1. PICK v \in {"true", "false"} : mem' = Opt!SetValue(m, mem, "timestamp", v)
      BY <2>2
    <3>2. v # Absent
      BY DEF Opt!Installed, Opt!Flags
    <3>3. DOMAIN mem' = OptionsOf(svc) /\ \A x \in OptionsOf(svc) \ {"timestamp"} : mem'[x] = mem[x]
      BY <1>3, <3>1, SetsOne
    <3>4. mem'["timestamp"] = v
      BY <1>1, <1>3, <3>1, PropertySet
    <3>5. GoodSettings(eff') /\ eff'.method = eff.method /\ eff'.level = eff.level
      BY <1>3, <2>2 DEF GoodSettings
    <3> QED BY <1>1, <1>3, <3>2, <3>3, <3>4, <3>5, PropertyRestored
  <2>3. m = Opt!M
    BY <1>1 DEF Opt!M
  <2> QED BY <2>1, <2>2, <2>3 DEF Opt!SetProperty
<1> HIDE DEF m, none
<1>5. CASE work' = [work EXCEPT ![w] = "saving"] /\ file' = [exists |-> TRUE, map |-> none]
  <2>1. file'.map = none /\ work'[w] = "saving" /\ DOMAIN work' = Workers
    BY <1>3, <1>5
  <2> QED BY <1>1, <1>2, <1>4, <2>1 DEF OptInv
<1>6. CASE last' = "other" /\ UNCHANGED <<file, work>>
  BY <1>1, <1>4, <1>6 DEF OptInv
<1> QED BY <1>1, <1>5, <1>6

LEMMA OptSavePropertyWrite ==
    ASSUME OptInv, NEW w \in Workers, Opt!SavePropertyWrite(w) PROVE OptInv'
<1>1. /\ work' = [work EXCEPT ![w] = "idle"]
      /\ \/ file' = [exists |-> TRUE, map |-> mem]
         \/ last' = "other" /\ UNCHANGED file
      /\ UNCHANGED <<svc, up, mem, eff, admin>>
  BY DEF Opt!SavePropertyWrite, Opt!Write
<1>2. DOMAIN work' = Workers
  BY <1>1 DEF OptInv
<1>3. CASE file' = [exists |-> TRUE, map |-> mem]
  <2>1. file'.map = mem
    BY <1>3
  <2> QED BY <1>1, <1>2, <2>1 DEF OptInv
<1>4. CASE last' = "other" /\ UNCHANGED file
  BY <1>1, <1>2, <1>4 DEF OptInv
<1> QED BY <1>1, <1>3, <1>4

\* A step of the administrator that leaves the service alone.
LEMMA OptAdminStep ==
    ASSUME OptInv, UNCHANGED <<svc, up, mem, eff, work>>, GoodMap(svc, file'.map), GoodAdmins(svc, admin'),
           UNCHANGED <<file, last>> \/ last' = "other"
    PROVE  OptInv'
BY DEF OptInv

LEMMA OptLoad ==
    ASSUME OptInv, NEW a \in Admins, Opt!Load(a) PROVE OptInv'
<1>1. PICK c \in Commands[svc] :
        admin' = [admin EXCEPT ![a] = [phase |-> "loaded", cmd |-> c.cmd,
                                       args |-> Opt!parse_commandline(c.tokens), map |-> file.map]]
  BY DEF Opt!Load
<1> DEFINE r == [phase |-> "loaded", cmd |-> c.cmd, args |-> Opt!parse_commandline(c.tokens), map |-> file.map]
<1>2. GoodAdmin(svc, r)
  BY DEF GoodAdmin, OptInv, GoodMap
<1> HIDE DEF r
<1>3. admin' = [admin EXCEPT ![a] = r]
  BY <1>1 DEF r
<1>4. GoodAdmins(svc, admin')
  BY <1>2, <1>3, OneAdmin DEF OptInv
<1>5. UNCHANGED <<svc, file, up, mem, eff, work, last>>
  BY DEF Opt!Load
<1> QED BY <1>4, <1>5 DEF OptInv

LEMMA OptGives ==
    ASSUME OptInv, NEW a \in Admins, Opt!Gives(a), UNCHANGED <<svc, up, mem, eff, work>> PROVE OptInv'
<1>1. admin' = [admin EXCEPT ![a] = Opt!NoAdmin] /\ UNCHANGED <<file, last>>
  BY DEF Opt!Gives
<1>2. GoodAdmin(svc, Opt!NoAdmin)
  BY NoAdminGood DEF OptInv
<1>3. GoodAdmins(svc, admin')
  BY <1>1, <1>2, OneAdmin DEF OptInv
<1> QED BY <1>1, <1>3 DEF OptInv

LEMMA OptSaves ==
    ASSUME OptInv, NEW a \in Admins, NEW map, GoodMap(svc, map), Opt!Saves(a, map),
           UNCHANGED <<svc, up, mem, eff, work>>
    PROVE  OptInv'
<1> DEFINE r == [Opt!NoAdmin EXCEPT !.phase = "saving", !.map = map]
           none == Opt!NoOptions(Opt!M)
<1>1. admin' = [admin EXCEPT ![a] = r]
  BY DEF Opt!Saves
<1>2. GoodAdmin(svc, Opt!NoAdmin)
  BY NoAdminGood DEF OptInv
<1>3. DOMAIN r = DOMAIN Opt!NoAdmin /\ r.phase = "saving" /\ r.map = map
  BY <1>2 DEF GoodAdmin
<1> HIDE DEF r
<1>4. GoodAdmin(svc, r)
  BY <1>2, <1>3 DEF GoodAdmin, GoodMap
<1>5. GoodAdmins(svc, admin')
  BY <1>1, <1>4, OneAdmin DEF OptInv
<1>6. file' = [exists |-> TRUE, map |-> none] /\ last' = "other"
  BY DEF Opt!Saves, Opt!Truncate
<1>7. GoodMap(svc, none)
  BY EmptyMap DEF OptInv
<1> HIDE DEF none
<1>8. file'.map = none
  BY <1>6
<1> QED BY <1>5, <1>6, <1>7, <1>8, OptAdminStep

LEMMA OptManage ==
    ASSUME Opt!Installed, OptInv, NEW a \in Admins, Opt!Manage(a) PROVE OptInv'
<1>1. UNCHANGED <<svc, up, mem, eff, work>>
  BY DEF Opt!Manage
<1>2. CASE Opt!Gives(a)
  BY <1>1, <1>2, OptGives
<1>3. CASE Opt!Saves(a, Opt!Changed(a)) /\ Opt!FileExclusive(Opt!M, Opt!Changed(a))
  <2>1. DOMAIN admin[a].map = OptionsOf(svc) /\ svc \in Opt!Services
    BY DEF OptInv, GoodAdmins, GoodAdmin
  <2>2. DOMAIN Opt!Changed(a) = DOMAIN admin[a].map
    BY SetsOne DEF Opt!Changed, Opt!UnsetOption
  <2>3. Exclusive(svc, Opt!Changed(a))
    BY <1>3, <2>1, ExclusiveFile DEF Opt!M
  <2>4. GoodMap(svc, Opt!Changed(a))
    BY <2>1, <2>2, <2>3 DEF GoodMap
  <2> QED BY <1>1, <1>3, <2>4, OptSaves
<1> QED BY <1>2, <1>3 DEF Opt!Manage

LEMMA OptInitConfig ==
    ASSUME Opt!Installed, OptInv, NEW a \in Admins, Opt!InitConfig(a) PROVE OptInv'
<1>1. UNCHANGED <<svc, up, mem, eff, work>>
  BY DEF Opt!InitConfig
<1> DEFINE old == admin[a].map
           bare == [o \in DOMAIN old |-> IF o \in Opt!UnsetByInit THEN Absent ELSE old[o]]
<1>2. CASE Opt!Gives(a)
  BY <1>1, <1>2, OptGives
<1>3. ASSUME NEW map \in Opt!Detected(bare), Opt!Saves(a, map) PROVE OptInv'
  <2>1. DOMAIN bare = OptionsOf(svc) /\ svc \in Opt!Services
    BY DEF OptInv, GoodAdmins, GoodAdmin
  <2>2. Group(svc) \subseteq Opt!UnsetByInit /\ Group(svc) \subseteq OptionsOf(svc)
    BY <2>1 DEF Group, Opt!UnsetByInit, OptionsOf, Opt!Services
  <2>3. \A x \in Group(svc) : bare[x] = Absent
    BY <2>1, <2>2
  <2> HIDE DEF bare
  <2>4. map = bare \/ \E o, v : map = Opt!SetValue(Opt!M, bare, o, v)
    BY DEF Opt!Detected
  <2>5. CASE map = bare
    <3>1. GoodMap(svc, map)
      BY <2>1, <2>3, <2>5 DEF GoodMap, Exclusive
    <3> QED BY <1>1, <1>3, <3>1, OptSaves
  <2>6. CASE \E o, v : map = Opt!SetValue(Opt!M, bare, o, v)
    <3>1. PICK o, v : map = Opt!SetValue(Opt!M, bare, o, v)
      BY <2>6
    <3>2. DOMAIN map = OptionsOf(svc) /\ \A x \in OptionsOf(svc) \ {o} : map[x] = bare[x]
      BY <2>1, <3>1, SetsOne
    <3>3. GoodMap(svc, map)
      BY <2>2, <2>3, <3>2 DEF GoodMap, Exclusive
    <3> QED BY <1>1, <1>3, <3>3, OptSaves
  <2> QED BY <2>4, <2>5, <2>6
<1> QED BY <1>2, <1>3 DEF Opt!InitConfig

LEMMA OptSaveWrite ==
    ASSUME OptInv, NEW a \in Admins, Opt!SaveWrite(a) PROVE OptInv'
<1>1. /\ admin[a].phase = "saving" /\ file' = [exists |-> TRUE, map |-> admin[a].map]
      /\ last' = "other" /\ admin' = [admin EXCEPT ![a] = Opt!NoAdmin]
      /\ UNCHANGED <<svc, up, mem, eff, work>>
  BY DEF Opt!SaveWrite, Opt!Write
<1>2. GoodAdmin(svc, Opt!NoAdmin)
  BY NoAdminGood DEF OptInv
<1>3. GoodAdmins(svc, admin')
  BY <1>1, <1>2, OneAdmin DEF OptInv
<1>4. GoodMap(svc, admin[a].map)
  BY <1>1 DEF OptInv, GoodAdmins, GoodAdmin, GoodMap
<1>5. file'.map = admin[a].map
  BY <1>1
<1> QED BY <1>1, <1>3, <1>4, <1>5, OptAdminStep

LEMMA OptNext ==
    ASSUME Opt!Installed, OptInv, [Opt!Next]_Opt!vars PROVE OptInv'
<1>1. CASE Opt!Start \/ Opt!Stop \/ Opt!Kill
  BY <1>1, OptStart, OptStop, OptKill
<1>2. ASSUME NEW w \in Workers, Opt!SetProperty(w) \/ Opt!SavePropertyWrite(w) PROVE OptInv'
  BY <1>2, OptSetProperty, OptSavePropertyWrite
<1>3. ASSUME NEW a \in Admins, Opt!Load(a) \/ Opt!Manage(a) \/ Opt!InitConfig(a) \/ Opt!SaveWrite(a)
      PROVE  OptInv'
  BY <1>3, OptLoad, OptManage, OptInitConfig, OptSaveWrite
<1>4. CASE UNCHANGED Opt!vars
  BY <1>4 DEF Opt!vars, OptInv
<1> QED BY <1>1, <1>2, <1>3, <1>4 DEF Opt!Next

LEMMA OptInvHolds == Opt!Installed => (Opt!Spec => []OptInv)
<1> SUFFICES ASSUME Opt!Installed PROVE Opt!Spec => []OptInv
  OBVIOUS
<1>1. Opt!Init => OptInv
  BY OptInit
<1>2. OptInv /\ [Opt!Next]_Opt!vars => OptInv'
  BY OptNext
<1> QED BY <1>1, <1>2, PTL DEF Opt!Spec

\* Whatever programs save a service's option file in whatever order, and
\* whichever of them is killed between truncating and writing it, the file
\* never names two options of one exclusive group (CheckExclusiveOptions), the
\* running service uses the method the file names (ImportConfigFile), and only
\* "colour" and a value in the file that the service does not know can keep it
\* from starting: for every set of programs, every command line the service
\* accepts and every list of commands.
THEOREM FileStaysUsableHolds == Opt!Spec => []FileStaysUsable
<1>0. Opt!Installed
  BY InstalledAssumption
<1>1. Opt!Spec => []OptInv
  BY <1>0, OptInvHolds
<1>2. OptInv => FileStaysUsable
  <2> SUFFICES ASSUME OptInv PROVE Opt!FileStaysUsable
    BY DEF FileStaysUsable
  <2>1. svc \in Opt!Services /\ Exclusive(svc, file.map) /\ Exclusive(svc, mem) /\ DOMAIN mem = OptionsOf(svc)
    BY DEF OptInv, GoodMap
  <2>2. Opt!FileExclusive(Opt!M, file.map)
    BY <1>0, <2>1, ExclusiveFile DEF Opt!M
  <2>3. Opt!FileWins
    <3> SUFFICES ASSUME up, NEW o \in DOMAIN mem, mem[o] # Absent,
                        o \in {"journald", "syslog", "systemd-resolved", "resolv-conf"}
                 PROVE  eff.method = o
      BY DEF Opt!FileWins, Opt!IsPresent
    <3>1. Opt!Settings(OptionFile(mem)).method = o
      BY <1>0, <2>1, UsableFile DEF Given
    <3>2. Restores(svc, mem, eff)
      BY DEF OptInv
    <3> QED BY <1>0, <2>1, <3>1, <3>2, RestoresMeans
  <2>4. ~Opt!Starts(file) => \/ svc = "log" /\ "colour" \in Opt!StartArgs(file).present
                             \/ \E o \in DOMAIN file.map : file.map[o] \in Unknown
    <3>1. DOMAIN file.map = OptionsOf(svc)
      BY DEF OptInv, GoodMap
    <3>2. \A o \in Given(svc, file.map) : o \in DOMAIN file.map
      BY <3>1 DEF Given
    <3> QED BY <1>0, <2>1, <3>2, UsableFile, StartOf
  <2> QED BY <2>2, <2>3, <2>4 DEF Opt!FileStaysUsable
<1> QED BY <1>1, <1>2, PTL

\* When the running log service wrote the file last, none of its saves failed
\* since and none of its threads is about to write it, a restart brings back the log method, the log level and
\* every flag that is on (log-service.hpp save_property), however many threads
\* set properties at the same time and whatever the administrator's commands
\* wrote before.
THEOREM SettingsKeptHolds == Opt!Spec => []SettingsKept
<1>0. Opt!Installed
  BY InstalledAssumption
<1>1. Opt!Spec => []OptInv
  BY <1>0, OptInvHolds
<1>2. OptInv => SettingsKept
  <2> SUFFICES ASSUME OptInv, up, last = "service", \A w \in Workers : work[w] = "idle"
               PROVE  /\ Opt!Starts(file)
                      /\ Opt!Settings(file).method = eff.method
                      /\ Opt!Settings(file).level = eff.level
                      /\ eff.timestamp => Opt!Settings(file).timestamp
    BY DEF SettingsKept, Opt!SettingsKept
  <2>1. file.map = mem
    BY DEF OptInv
  <2>2. svc \in Opt!Services /\ Exclusive(svc, mem) /\ Restores(svc, mem, eff)
    BY DEF OptInv, GoodMap
  <2>3. /\ Opt!Starts(OptionFile(mem))
        /\ Opt!Settings(OptionFile(mem)).method = eff.method
        /\ Opt!Settings(OptionFile(mem)).level = eff.level
        /\ eff.timestamp => Opt!Settings(OptionFile(mem)).timestamp
    BY <1>0, <2>2, RestoresMeans
  <2>4. /\ Opt!Starts(file) <=> Opt!Starts(OptionFile(mem))
        /\ Opt!Settings(file) = Opt!Settings(OptionFile(mem))
    BY <1>0, <2>1, StartOf
  <2> QED BY <2>3, <2>4
<1> QED BY <1>1, <1>2, PTL
=============================================================================
