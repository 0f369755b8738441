--------------------------- MODULE BackendClient ---------------------------
(***************************************************************************)
(* A VPN client process (src/src/client/openvpn3-service-client.cpp and    *)
(* core-client.hpp).  The session manager calls its D-Bus methods, each    *)
(* call on a worker thread of its own; Connect starts another thread that  *)
(* runs the connection of a CoreVPNClient object, whose events report the  *)
(* state of the connection and ask for more user input.                    *)
(*                                                                         *)
(* The OpenVPN 3 Core library is external.  It is assumed to end a         *)
(* connection once stop() was called on its object, to end it after an     *)
(* event that says it failed, and to report DISCONNECTED when it ends; the *)
(* server and the network may otherwise do anything (Kinds).  pause(),     *)
(* resume() and reconnect() do nothing to an object that is not connected. *)
(***************************************************************************)
EXTENDS Naturals, Sequences

CONSTANTS
    Callers,    \* worker threads of the process that handle method calls
    Profiles,   \* the configuration profiles a process may be given
    Kinds,      \* the kinds of core events that may happen
    Blanks,     \* whether a front-end may provide control characters only
    MaxClients, \* bound on the CoreVPNClient objects made
    MaxSlots,   \* bound on the slots of the user input queue
    None

ASSUME ClientBounds == MaxClients \in Nat /\ MaxSlots \in Nat
ASSUME ClientFlags == Blanks \in BOOLEAN
ASSUME NoneAssumption == None \notin Callers
ASSUME ProfilesAssumption ==
    Profiles \subseteq [load: {"ok", "unavailable", "unparsable", "rejected"},
                        flow: {"autologin", "password-only", "username-password"},
                        static: BOOLEAN, pk: BOOLEAN]

(***************************************************************************)
(* The groups of ClientAttentionType::CREDENTIALS that are asked for, the  *)
(* names of their slots, and the values: 0 is the empty string, i + 1 is   *)
(* the answer meant for request i of a group, Blank is a value of control  *)
(* characters only, of which filter_ctrl_chars() leaves nothing.           *)
(***************************************************************************)
USER_PASSWORD == <<1, 1>>
HTTP_PROXY_CREDS == <<1, 2>>
PK_PASSPHRASE == <<1, 3>>
CHALLENGE_STATIC == <<1, 4>>
CHALLENGE_DYNAMIC == <<1, 5>>
CHALLENGE_AUTH_PENDING == <<1, 6>>
PASSWORD_ONLY == <<1, 10>>

Groups == {USER_PASSWORD, HTTP_PROXY_CREDS, PK_PASSPHRASE, CHALLENGE_STATIC,
           CHALLENGE_DYNAMIC, CHALLENGE_AUTH_PENDING, PASSWORD_ONLY}
Names == {"username", "password", "http_proxy_user", "http_proxy_pass", "pk_passphrase",
          "static_challenge", "dynamic_challenge", "dynamic_challenge_cookie", "auth_pending"}
Blank == MaxSlots + 1
Values == 0..MaxSlots
Filtered == [v \in 0..Blank |-> IF v = Blank THEN 0 ELSE v]

VARIABLES
    profile,       \* the profile this process is given and its --auth-flow
    registered,    \* the session manager has confirmed the registration
    paused,        \* the flag of the Pause and Resume methods
    proc,          \* "up", "dying" (LogFATAL() waits 3 s), "stopped" or "crashed"
    vpnclient,     \* the current CoreVPNClient object, 0 is nullptr
    clients,       \* how many have been made
    obj,           \* the CoreVPNClient objects
    client_thread, \* the object whose connect() the client thread runs, 0 is none
    connect_guard, \* who holds the mutex
    call,          \* where each worker thread is in Connect or Disconnect
    joins,         \* the object whose thread a Disconnect joins
    userinputq,    \* the queue of user input
    creds,         \* the values taken from it for the connection, by slot name
    status,        \* the last StatusChange signal
    overlap        \* history: "yes" once a Connect went on while another was being handled or
                   \* before the core had reported CONNECTING

vars == <<profile, registered, paused, proc, vpnclient, clients, obj, client_thread,
          connect_guard, call, joins, userinputq, creds, status, overlap>>
object == <<registered, paused, clients, client_thread, connect_guard, userinputq, creds>>

Q == INSTANCE RequiresQueue WITH
        TypeGroups <- Groups, Inputs <- 0..Blank, Filter <- Filtered, Empty <- 0,
        queue <- userinputq, result <- status

(***************************************************************************)
(* The CoreVPNClient object: its run_status, failed_signal_sent,           *)
(* initial_connection and auth_pending_timeout members, and of the core    *)
(* library where its connect() is and whether it is stopped or paused.     *)
(***************************************************************************)
Clients == 1..MaxClients

RunStatus == {"CONN_INIT", "CONN_CONNECTING", "CONN_CONNECTED", "CONN_RECONNECTING",
              "CONN_DISCONNECTING", "CONN_DISCONNECTED", "CONN_FAILED", "CONN_AUTH_FAILED",
              "CFG_REQUIRE_USER", "SESS_AUTH_CHALLENGE", "SESS_AUTH_URL"}
Core == {"new", "starting", "running", "ending", "failed", "returned", "ended"}
CoreVPNClient == [run: RunStatus, core: Core, failed: BOOLEAN, initial: BOOLEAN,
                  pending: BOOLEAN, stop: BOOLEAN, held: BOOLEAN]
NewClient == [run |-> "CONN_INIT", core |-> "new", failed |-> FALSE, initial |-> TRUE,
              pending |-> FALSE, stop |-> FALSE, held |-> FALSE]

Status == RunStatus \cup {"none", "CFG_OK", "CFG_ERROR", "CONN_PAUSED", "CONN_RESUMING",
                          "CONN_DONE", "PROC_KILLED"}

\* The thread of object c has not ended.
Live(c) == obj[c].core \in {"starting", "running", "ending", "failed", "returned"}

Init ==
    /\ profile \in Profiles
    /\ registered = FALSE
    /\ paused = FALSE
    /\ proc = "up"
    /\ vpnclient = 0
    /\ clients = 0
    /\ obj = [c \in Clients |-> NewClient]
    /\ client_thread = 0
    /\ connect_guard = None
    /\ call = [k \in Callers |-> "idle"]
    /\ joins = [k \in Callers |-> 0]
    /\ userinputq = Q!EmptyQueue
    /\ creds = [n \in Names |-> 0]
    /\ status = "none"
    /\ overlap = "no"

Running == proc \in {"up", "dying"}

\* LogFATAL() of the object's signal group, which has no main loop.
LogFATAL == proc' = "dying"

(***************************************************************************)
(* Every method call passes Authorize() first, which drops the object of a *)
(* connection that has been torn down.                                     *)
(***************************************************************************)
\* Mutant of Authorize(): an object that reconnects is dropped as well.
AuthorizeReconnecting ==
    IF vpnclient # 0 /\ obj[vpnclient].run \in {"CFG_REQUIRE_USER", "CONN_DISCONNECTED",
                                                "CONN_FAILED", "CONN_RECONNECTING"}
    THEN 0 ELSE vpnclient

Authorize ==
    IF vpnclient # 0 /\ obj[vpnclient].run \in {"CFG_REQUIRE_USER", "CONN_DISCONNECTED",
                                                "CONN_FAILED"}
    THEN 0 ELSE vpnclient

Called(k) == Running /\ call[k] = "idle"

\* Only session-manager calls that need an idle worker and change nothing else: Ready, Ping, the
\* user input queries, and every call that is refused.
Query(k) ==
    /\ Called(k)
    /\ vpnclient' = Authorize
    /\ UNCHANGED <<profile, overlap, joins, proc, obj, call, status, object>>

(***************************************************************************)
(* initialize_client(): a new object, and what the profile needs.          *)
(***************************************************************************)
InitializeError ==
    IF profile.load = "unavailable" THEN "unavailable"
    ELSE IF Q!QueueCount(userinputq, PK_PASSPHRASE) # {}
            /\ Q!GetResponse(userinputq, PK_PASSPHRASE, "pk_passphrase").err # "ok"
         THEN "passphrase"
    ELSE profile.load

PrivateKeyPassword ==
    IF Q!QueueCount(userinputq, PK_PASSPHRASE) # {}
    THEN Q!GetResponse(userinputq, PK_PASSPHRASE, "pk_passphrase").val
    ELSE creds["pk_passphrase"]

\* Mutant: the password is asked for by every initialize_client().
RequireLoginAgain(q) ==
    IF profile.flow = "autologin" THEN q ELSE Q!RequireAdd(q, PASSWORD_ONLY, "password")

RequireLogin(q) ==
    IF profile.flow = "password-only" /\ Q!QueueCount(q, PASSWORD_ONLY) = {}
    THEN Q!RequireAdd(q, PASSWORD_ONLY, "password")
    ELSE IF profile.flow = "username-password" /\ Q!QueueCount(q, USER_PASSWORD) = {}
    THEN Q!RequireAdd(Q!RequireAdd(q, USER_PASSWORD, "username"), USER_PASSWORD, "password")
    ELSE q

RequireStatic(q) ==
    IF profile.flow # "autologin" /\ profile.static
    THEN Q!RequireAdd(q, CHALLENGE_STATIC, "static_challenge")
    ELSE q

NeedsPassphrase == profile.pk /\ PrivateKeyPassword = 0

RequirePassphrase(q) ==
    IF NeedsPassphrase THEN Q!RequireAdd(q, PK_PASSPHRASE, "pk_passphrase") ELSE q

Required == RequirePassphrase(RequireStatic(RequireLogin(userinputq)))

\* The object it leaves in vpnclient, and the last status it sends.
MadeClient(err) ==
    IF err = "unavailable" THEN vpnclient ELSE IF err = "rejected" THEN 0 ELSE clients + 1
InitialStatus(err) ==
    IF err = "rejected" THEN "CFG_ERROR"
    ELSE IF err # "ok" THEN status
    ELSE IF profile.flow # "autologin" \/ NeedsPassphrase THEN "CFG_REQUIRE_USER"
    ELSE "CFG_OK"

initialize_client(err) ==
    /\ clients' = IF err = "unavailable" THEN clients ELSE clients + 1
    /\ vpnclient' = MadeClient(err)
    /\ userinputq' = IF err = "ok" THEN Required ELSE userinputq

\* The bounds of the model on what initialize_client() makes.
RoomToInitialize == clients < MaxClients /\ Len(Required.slots) <= MaxSlots

RegistrationConfirmation(k) ==
    /\ Called(k)
    /\ ~registered
    /\ RoomToInitialize
    /\ registered' = TRUE
    /\ initialize_client(InitializeError)
    /\ creds' = [creds EXCEPT !["pk_passphrase"] = PrivateKeyPassword]
    /\ status' = InitialStatus(InitializeError)
    /\ IF InitializeError = "ok" THEN UNCHANGED proc ELSE LogFATAL
    /\ UNCHANGED <<profile, overlap, joins, paused, obj, client_thread, connect_guard, call>>

(***************************************************************************)
(* Connect.                                                                *)
(***************************************************************************)
Clean == {"CFG_OK", "CFG_REQUIRE_USER", "CONN_INIT"}
Changing == {"CONN_DISCONNECTING", "CONN_PAUSING", "CONN_RECONNECTING", "CONN_RESUMING"}

\* What cb_connect() does next with the object c in vpnclient: goes on to the mutex, waits and
\* looks again, or returns without an error.
ConnectDecision(c) ==
    IF c = 0 \/ obj[c].run \in Clean THEN "guard"
    ELSE IF obj[c].run \in Changing THEN "poll"
    ELSE "ignored"

Undecided == {k \in Callers : call[k] \in {"guard", "poll", "join"}}

\* A Connect call that goes on now may come between the steps of an earlier one.
Overlaps == Undecided # {} \/ \E c \in Clients : Live(c) /\ obj[c].run = "CONN_INIT"

\* No two Connect calls have overlapped so far.
Patient == overlap = "no"

Connect(k) ==
    /\ Called(k)
    /\ registered
    /\ vpnclient' = Authorize
    /\ call' = [call EXCEPT ![k] = ConnectDecision(Authorize)]
    /\ overlap' = IF ConnectDecision(Authorize) # "ignored" /\ Overlaps THEN "yes" ELSE overlap
    /\ UNCHANGED <<profile, joins, proc, obj, status, object>>

\* After a second of sleep; a null vpnclient is dereferenced.
Recheck(k) ==
    /\ Running
    /\ call[k] = "poll"
    /\ vpnclient # 0 => ConnectDecision(vpnclient) # "poll"
    /\ IF vpnclient = 0
       THEN proc' = "crashed" /\ UNCHANGED call
       ELSE call' = [call EXCEPT ![k] = ConnectDecision(vpnclient)] /\ UNCHANGED proc
    /\ UNCHANGED <<profile, overlap, joins, vpnclient, obj, status, object>>

\* The sixth look at a connection that still changes its state.
GiveUp(k) ==
    /\ Running
    /\ call[k] = "poll"
    /\ vpnclient # 0
    /\ ConnectDecision(vpnclient) = "poll"
    /\ call' = [call EXCEPT ![k] = "idle"]
    /\ UNCHANGED <<profile, overlap, joins, proc, vpnclient, obj, status, object>>

\* The first half of connect(): the value taken for slot name n, unchanged if none is.
Response(q, tg, n) ==
    IF Q!QueueCount(q, tg) # {} THEN Q!GetResponse(q, tg, n).val ELSE creds[n]

ProvideCreds(q) ==
    LET login == Q!QueueCount(q, USER_PASSWORD) # {}
        only == ~login /\ Q!QueueCount(q, PASSWORD_ONLY) # {}
        dynamic == Q!QueueCount(q, CHALLENGE_DYNAMIC) # {}
    IN [creds EXCEPT
          !["pk_passphrase"] = PrivateKeyPassword,
          !["username"] = Response(q, USER_PASSWORD, "username"),
          !["password"] = IF only THEN Response(q, PASSWORD_ONLY, "password")
                          ELSE IF dynamic THEN @ ELSE Response(q, USER_PASSWORD, "password"),
          !["static_challenge"] = IF login THEN Response(q, CHALLENGE_STATIC, "static_challenge")
                                  ELSE @,
          !["dynamic_challenge"] = Response(q, CHALLENGE_DYNAMIC, "dynamic_challenge"),
          !["dynamic_challenge_cookie"] = Response(q, CHALLENGE_DYNAMIC, "dynamic_challenge_cookie"),
          !["http_proxy_user"] = Response(q, HTTP_PROXY_CREDS, "http_proxy_user"),
          !["http_proxy_pass"] = Response(q, HTTP_PROXY_CREDS, "http_proxy_pass")]

\* Mutant: the queue is not looked at before the connection is started.
AllProvidedUnchecked(q) == TRUE

AllProvided(q) == Q!QueueAllDone(q)

HasMutex(k) == Running /\ call[k] = "guard" /\ connect_guard = None /\ RoomToInitialize

\* The part of cb_connect() that runs with the mutex, up to the join.  A call that returns
\* releases it.
Prepare(k) ==
    /\ HasMutex(k)
    /\ InitializeError = "ok"
    /\ AllProvided(Required)
    /\ initialize_client("ok")
    /\ status' = InitialStatus("ok")
    /\ creds' = ProvideCreds(Required)
    /\ call' = [call EXCEPT ![k] = "join"]
    /\ connect_guard' = k
    /\ UNCHANGED <<profile, overlap, joins, registered, paused, proc, obj, client_thread>>

\* "Required user input not provided"
Refuse(k) ==
    /\ HasMutex(k)
    /\ InitializeError = "ok"
    /\ ~AllProvided(Required)
    /\ initialize_client("ok")
    /\ status' = InitialStatus("ok")
    /\ creds' = [creds EXCEPT !["pk_passphrase"] = PrivateKeyPassword]
    /\ call' = [call EXCEPT ![k] = "refused"]
    /\ UNCHANGED <<profile, overlap, joins, registered, paused, proc, obj, client_thread, connect_guard>>

\* provide_creds() of the core refuses the credentials.
CredsRefused(k) ==
    /\ HasMutex(k)
    /\ InitializeError = "ok"
    /\ AllProvided(Required)
    /\ \E tg \in {USER_PASSWORD, PASSWORD_ONLY, CHALLENGE_DYNAMIC, HTTP_PROXY_CREDS} :
            Q!QueueCount(Required, tg) # {}
    /\ initialize_client("ok")
    /\ status' = "PROC_KILLED"
    /\ LogFATAL
    /\ creds' = ProvideCreds(Required)
    /\ call' = [call EXCEPT ![k] = "refused"]
    /\ UNCHANGED <<profile, overlap, joins, registered, paused, obj, client_thread, connect_guard>>

\* initialize_client() fails.  A passphrase that was never provided is not a ClientException: it
\* ends the call and not the process.
PrepareFails(k) ==
    /\ HasMutex(k)
    /\ InitializeError # "ok"
    /\ initialize_client(InitializeError)
    /\ call' = [call EXCEPT ![k] = "refused"]
    /\ IF InitializeError = "passphrase"
       THEN UNCHANGED <<proc, status>>
       ELSE LogFATAL /\ status' = "PROC_KILLED"
    /\ UNCHANGED <<profile, overlap, joins, registered, paused, obj, client_thread, connect_guard, creds>>

\* Mutant: the old thread is detached instead of joined.
JoinedAlways(c) == TRUE

\* join() of the thread of object c returns: the thread has ended, or there was none.
Joined(c) == c # 0 => ~Live(c)

StartThread(k) ==
    /\ Running
    /\ call[k] = "join"
    /\ Joined(client_thread)
    /\ client_thread' = vpnclient
    /\ obj' = [obj EXCEPT ![vpnclient].core = "starting"]
    /\ call' = [call EXCEPT ![k] = "started"]
    /\ connect_guard' = None
    /\ UNCHANGED <<profile, overlap, joins, registered, paused, proc, vpnclient, clients, userinputq, creds, status>>

\* The answer to a Connect call reaches the session manager.
Answer(k) ==
    /\ Running
    /\ call[k] \in {"ignored", "refused", "started"}
    /\ call' = [call EXCEPT ![k] = "idle"]
    /\ UNCHANGED <<profile, overlap, joins, proc, vpnclient, obj, status, object>>

(***************************************************************************)
(* The other methods.  A call that is refused is a Query.                  *)
(***************************************************************************)
Pause(k) ==
    /\ Called(k)
    /\ registered /\ Authorize # 0 /\ ~paused
    /\ vpnclient' = Authorize
    /\ paused' = TRUE
    /\ status' = "CONN_PAUSED"
    /\ obj' = [obj EXCEPT ![vpnclient].held = obj[vpnclient].core = "running"]
    /\ UNCHANGED <<profile, overlap, joins, proc, call, registered, clients, client_thread, connect_guard,
                   userinputq, creds>>

Resume(k) ==
    /\ Called(k)
    /\ registered /\ Authorize # 0 /\ paused
    /\ vpnclient' = Authorize
    /\ paused' = FALSE
    /\ status' = "CONN_RESUMING"
    /\ obj' = [obj EXCEPT ![vpnclient].held = FALSE]
    /\ UNCHANGED <<profile, overlap, joins, proc, call, registered, clients, client_thread, connect_guard,
                   userinputq, creds>>

Restart(k) ==
    /\ Called(k)
    /\ registered /\ Authorize # 0
    /\ vpnclient' = Authorize
    /\ paused' = FALSE
    /\ status' = "CONN_RECONNECTING"
    /\ obj' = [obj EXCEPT ![vpnclient].held = FALSE]
    /\ UNCHANGED <<profile, overlap, joins, proc, call, registered, clients, client_thread, connect_guard,
                   userinputq, creds>>

\* Mutant: the connection is not told to stop before its thread is joined.
StopNothing(c) == obj

StopClient(c) == [obj EXCEPT ![c].stop = TRUE]

\* cb_disconnect() up to the join of the thread there is now.
Disconnect(k) ==
    /\ Called(k)
    /\ Authorize # 0
    /\ vpnclient' = Authorize
    /\ status' = "CONN_DISCONNECTING"
    /\ obj' = StopClient(vpnclient)
    /\ call' = [call EXCEPT ![k] = "disconnect"]
    /\ joins' = [joins EXCEPT ![k] = client_thread]
    /\ UNCHANGED <<profile, overlap, proc, object>>

\* The rest of it: CONN_DONE is sent and the main loop stops.
Disconnected(k) ==
    /\ Running
    /\ call[k] = "disconnect"
    /\ Joined(joins[k])
    /\ status' = "CONN_DONE"
    /\ proc' = "stopped"
    /\ call' = [call EXCEPT ![k] = "idle"]
    /\ UNCHANGED <<profile, overlap, vpnclient, obj, joins, object>>

\* With no object there is nothing to stop and no thread is joined.
DisconnectIdle(k) ==
    /\ Called(k)
    /\ Authorize = 0
    /\ vpnclient' = 0
    /\ status' = "CONN_DONE"
    /\ proc' = "stopped"
    /\ UNCHANGED <<profile, overlap, obj, call, joins, object>>

ForceShutdown(k) ==
    /\ Called(k)
    /\ vpnclient' = Authorize
    /\ status' = "CONN_DONE"
    /\ proc' = "stopped"
    /\ UNCHANGED <<profile, overlap, joins, obj, call, object>>

\* cb_auth_pending(), the callback of every value stored: the answer that is sent to the server,
\* or an exception.
AuthPendingError(c, q) ==
    IF c = 0 \/ Q!QueueCount(q, CHALLENGE_AUTH_PENDING) = {} THEN "ok"
    ELSE Q!GetResponse(q, CHALLENGE_AUTH_PENDING, "auth_pending").err

AuthPendingSent(c, q) ==
    IF c # 0 /\ AuthPendingError(c, q) = "ok"
    THEN [creds EXCEPT !["auth_pending"] = Response(q, CHALLENGE_AUTH_PENDING, "auth_pending")]
    ELSE creds

\* UserInputProvide(): an accepted value stays stored even if the callback throws.
UserInputProvide(k, tg, id, v) ==
    /\ Called(k)
    /\ Q!UpdateEntryError(userinputq, tg, id) = "ok"
    /\ vpnclient' = Authorize
    /\ userinputq' = Q!UpdateEntry(userinputq, tg, id, v)
    /\ creds' = AuthPendingSent(Authorize, Q!UpdateEntry(userinputq, tg, id, v))
    /\ UNCHANGED <<profile, overlap, joins, proc, obj, call, status, registered, paused, clients, client_thread,
                   connect_guard>>

(***************************************************************************)
(* Events of the core, on the client thread (CoreVPNClient::event()).      *)
(***************************************************************************)
\* The thread reports CONNECTING and calls connect().
ThreadConnects(c) ==
    /\ Running
    /\ obj[c].core = "starting"
    /\ status' = "CONN_CONNECTING"
    /\ obj' = [obj EXCEPT ![c].core = "running"]
    /\ UNCHANGED <<profile, overlap, joins, proc, vpnclient, call, object>>

Event(c, kind) == Running /\ kind \in Kinds /\ obj[c].core = "running" /\ ~obj[c].held
Handshake(c) == obj[c].run \in {"CONN_CONNECTING", "CONN_RECONNECTING", "CONN_AUTH_FAILED",
                                "SESS_AUTH_CHALLENGE", "SESS_AUTH_URL"}

Reports(c, run) ==
    /\ status' = run
    /\ obj' = [obj EXCEPT ![c].run = run]

CONNECTING(c) ==
    /\ Event(c, "connecting")
    /\ obj[c].run # "CONN_RECONNECTING"
    /\ Reports(c, "CONN_CONNECTING")
    /\ UNCHANGED <<profile, overlap, joins, proc, vpnclient, call, object>>

CONNECTED(c) ==
    /\ Event(c, "connected")
    /\ Handshake(c)
    /\ status' = "CONN_CONNECTED"
    /\ obj' = [obj EXCEPT ![c] = [@ EXCEPT !.run = "CONN_CONNECTED", !.initial = FALSE]]
    /\ UNCHANGED <<profile, overlap, joins, proc, vpnclient, call, object>>

RECONNECTING(c) ==
    /\ Event(c, "reconnecting")
    /\ ~obj[c].initial
    /\ Reports(c, "CONN_RECONNECTING")
    /\ UNCHANGED <<profile, overlap, joins, proc, vpnclient, call, object>>

\* Two slots; the cookie is stored at once, which runs the callback of the queue.  If that throws,
\* the exception ends connect() before the challenge is reported.
DYNAMIC_CHALLENGE(c) ==
    LET asked == Q!RequireAdd(userinputq, CHALLENGE_DYNAMIC, "dynamic_challenge")
        cookie == asked.reqids[Q!get_reqid_index(CHALLENGE_DYNAMIC)]
        stored == Q!UpdateEntry(Q!RequireAdd(asked, CHALLENGE_DYNAMIC, "dynamic_challenge_cookie"),
                                CHALLENGE_DYNAMIC, cookie, cookie + 1)
    IN
    /\ Event(c, "dynamic")
    /\ Handshake(c)
    /\ Len(userinputq.slots) + 2 <= MaxSlots
    /\ userinputq' = stored
    /\ creds' = AuthPendingSent(vpnclient, stored)
    /\ IF AuthPendingError(vpnclient, stored) = "ok"
       THEN /\ status' = "CFG_REQUIRE_USER"
            /\ obj' = [obj EXCEPT ![c] = [@ EXCEPT !.run = "CFG_REQUIRE_USER", !.core = "ending"]]
       ELSE /\ obj' = [obj EXCEPT ![c].core = "failed"]
            /\ UNCHANGED status
    /\ UNCHANGED <<profile, overlap, joins, proc, vpnclient, call, registered, paused, clients, client_thread,
                   connect_guard>>

PROXY_NEED_CREDS(c) ==
    /\ Event(c, "proxy")
    /\ obj[c].run \in {"CONN_INIT", "CONN_CONNECTING", "CONN_RECONNECTING"}
    /\ Len(userinputq.slots) + 2 <= MaxSlots
    /\ userinputq' = Q!RequireAdd(Q!RequireAdd(userinputq, HTTP_PROXY_CREDS, "http_proxy_user"),
                                  HTTP_PROXY_CREDS, "http_proxy_pass")
    /\ status' = "CFG_REQUIRE_USER"
    /\ obj' = [obj EXCEPT ![c] = [@ EXCEPT !.run = "CFG_REQUIRE_USER", !.core = "ending"]]
    /\ UNCHANGED <<profile, overlap, joins, proc, vpnclient, call, registered, paused, clients, client_thread,
                   connect_guard, creds>>

AUTH_PENDING(c) ==
    /\ Event(c, "pending")
    /\ Handshake(c)
    /\ obj' = [obj EXCEPT ![c].pending = TRUE]
    /\ UNCHANGED <<profile, overlap, joins, proc, vpnclient, call, status, object>>

\* An INFO event with a CR_TEXT that asks for a response.
CR_TEXT(c) ==
    /\ Event(c, "pending")
    /\ Handshake(c)
    /\ obj[c].pending
    /\ Len(userinputq.slots) < MaxSlots
    /\ userinputq' = Q!RequireAdd(userinputq, CHALLENGE_AUTH_PENDING, "auth_pending")
    /\ status' = "CFG_REQUIRE_USER"
    /\ obj' = [obj EXCEPT ![c].run = "SESS_AUTH_CHALLENGE"]
    /\ UNCHANGED <<profile, overlap, joins, proc, vpnclient, call, registered, paused, clients, client_thread,
                   connect_guard, creds>>

\* A CR_TEXT that cannot be decoded is reported as a failed login; the core is not told.
CR_TEXT_invalid(c) ==
    /\ Event(c, "pending")
    /\ Handshake(c)
    /\ obj[c].pending
    /\ status' = "CONN_AUTH_FAILED"
    /\ obj' = [obj EXCEPT ![c] = [@ EXCEPT !.run = "CONN_AUTH_FAILED", !.failed = TRUE]]
    /\ UNCHANGED <<profile, overlap, joins, proc, vpnclient, call, object>>

OPEN_URL(c) ==
    /\ Event(c, "url")
    /\ Handshake(c)
    /\ Reports(c, "SESS_AUTH_URL")
    /\ UNCHANGED <<profile, overlap, joins, proc, vpnclient, call, object>>

AUTH_FAILED(c) ==
    /\ Event(c, "auth_failed")
    /\ Handshake(c)
    /\ status' = "CONN_AUTH_FAILED"
    /\ obj' = [obj EXCEPT ![c] = [@ EXCEPT !.run = "CONN_AUTH_FAILED", !.failed = TRUE,
                                           !.core = "ending"]]
    /\ UNCHANGED <<profile, overlap, joins, proc, vpnclient, call, object>>

\* The events that report CONN_FAILED; CLIENT_HALT is the one that does not set
\* failed_signal_sent.
ConnectionFails(c) ==
    /\ Event(c, "fails")
    /\ status' = "CONN_FAILED"
    /\ \E failed \in {TRUE, obj[c].failed} :
        obj' = [obj EXCEPT ![c] = [@ EXCEPT !.run = "CONN_FAILED", !.core = "ending",
                                            !.failed = failed]]
    /\ UNCHANGED <<profile, overlap, joins, proc, vpnclient, call, object>>

\* CONNECTION_TIMEOUT and INACTIVE_TIMEOUT.
ConnectionTimeout(c) ==
    /\ Event(c, "timeout")
    /\ status' = "CONN_DISCONNECTING"
    /\ obj' = [obj EXCEPT ![c] = [@ EXCEPT !.run = "CONN_DISCONNECTING", !.core = "ending"]]
    /\ UNCHANGED <<profile, overlap, joins, proc, vpnclient, call, object>>

\* Any other event that is fatal.
FatalEvent(c) ==
    /\ Event(c, "fatal")
    /\ LogFATAL
    /\ obj' = [obj EXCEPT ![c].core = "ending"]
    /\ UNCHANGED <<profile, overlap, joins, vpnclient, call, status, object>>

\* connect() fails before it reports anything.
SetupFails(c) ==
    /\ Event(c, "setup")
    /\ obj[c].run = "CONN_INIT"
    /\ obj' = [obj EXCEPT ![c].core = "failed"]
    /\ UNCHANGED <<profile, overlap, joins, proc, vpnclient, call, status, object>>

\* The connection ends for any other reason.
CoreEnds(c) ==
    /\ Event(c, "ends")
    /\ obj[c].run # "CONN_INIT"
    /\ obj' = [obj EXCEPT ![c].core = "ending"]
    /\ UNCHANGED <<profile, overlap, joins, proc, vpnclient, call, status, object>>

CoreStops(c) ==
    /\ Running
    /\ obj[c].core = "running"
    /\ obj[c].stop
    /\ obj' = [obj EXCEPT ![c].core = "ending"]
    /\ UNCHANGED <<profile, overlap, joins, proc, vpnclient, call, status, object>>

\* Mutant: the event is not reported for a connection that was established.
SilentDisconnect(c) ==
    obj[c].failed \/ obj[c].run \in {"CONN_AUTH_FAILED", "CFG_REQUIRE_USER", "CONN_CONNECTED"}

\* When DISCONNECTED is not reported: the reason for it has been.
AlreadyReported(c) ==
    obj[c].failed \/ obj[c].run \in {"CONN_AUTH_FAILED", "CFG_REQUIRE_USER"}

DISCONNECTED(c) ==
    /\ Running
    /\ obj[c].core = "ending"
    /\ IF AlreadyReported(c)
       THEN /\ obj' = [obj EXCEPT ![c].core = "returned"]
            /\ UNCHANGED status
       ELSE /\ obj' = [obj EXCEPT ![c] = [@ EXCEPT !.run = "CONN_DISCONNECTED", !.core = "returned"]]
            /\ status' = "CONN_DISCONNECTED"
    /\ UNCHANGED <<profile, overlap, joins, proc, vpnclient, call, object>>

\* connect() returns no error, an error or an ErrorCode, or throws another exception.
ThreadEnds(c) ==
    /\ Running
    /\ obj[c].core \in {"returned", "failed"}
    /\ \/ obj[c].core = "returned" /\ UNCHANGED <<proc, status>>
       \/ status' = "CONN_FAILED" /\ UNCHANGED proc
       \/ "fatal" \in Kinds /\ LogFATAL /\ UNCHANGED status
    /\ obj' = [obj EXCEPT ![c].core = "ended"]
    /\ UNCHANGED <<profile, overlap, joins, vpnclient, call, object>>

\* The SIGHUP three seconds after LogFATAL().
Die ==
    /\ proc = "dying"
    /\ proc' = "stopped"
    /\ UNCHANGED <<profile, overlap, joins, vpnclient, obj, call, status, object>>

(***************************************************************************)
(* The specification.                                                      *)
(***************************************************************************)
Method(k) ==
    \/ Query(k) \/ RegistrationConfirmation(k) \/ Connect(k) \/ Pause(k) \/ Resume(k)
    \/ Restart(k) \/ Disconnect(k) \/ DisconnectIdle(k) \/ ForceShutdown(k)
    \/ \E tg \in Groups, id \in 0..(MaxSlots - 1) :
        \/ UserInputProvide(k, tg, id, id + 1)
        \/ Blanks /\ UserInputProvide(k, tg, id, Blank)

Continue(k) ==
    \/ Recheck(k) \/ GiveUp(k) \/ Prepare(k) \/ Refuse(k) \/ CredsRefused(k) \/ PrepareFails(k)
    \/ StartThread(k) \/ Answer(k) \/ Disconnected(k)

Progress(c) == ThreadConnects(c) \/ CoreStops(c) \/ DISCONNECTED(c) \/ ThreadEnds(c)

CoreEvent(c) ==
    \/ CONNECTING(c) \/ CONNECTED(c) \/ RECONNECTING(c) \/ DYNAMIC_CHALLENGE(c)
    \/ PROXY_NEED_CREDS(c) \/ AUTH_PENDING(c) \/ CR_TEXT(c) \/ CR_TEXT_invalid(c) \/ OPEN_URL(c)
    \/ AUTH_FAILED(c) \/ ConnectionFails(c) \/ ConnectionTimeout(c) \/ FatalEvent(c)
    \/ SetupFails(c) \/ CoreEnds(c)

Next ==
    \/ \E k \in Callers : Method(k) \/ Continue(k)
    \/ \E c \in Clients : Progress(c) \/ CoreEvent(c)
    \/ Die

Spec == Init /\ [][Next]_vars

\* The threads of the process run, a core that was stopped or that failed ends, and the delayed
\* signal arrives.  Nothing is assumed of the methods called, the server and the network.
Fairness ==
    /\ \A k \in Callers : WF_vars(Continue(k))
    /\ \A c \in Clients : WF_vars(Progress(c))
    /\ WF_vars(Die)

FairSpec == Spec /\ Fairness

(***************************************************************************)
(* Properties.                                                             *)
(***************************************************************************)
(* Every variable has its type: in particular no call reaches an object    *)
(* that was never made.                                                    *)
TypeOK ==
    /\ profile \in Profiles
    /\ registered \in BOOLEAN /\ paused \in BOOLEAN
    /\ proc \in {"up", "dying", "stopped", "crashed"}
    /\ clients \in 0..MaxClients
    /\ vpnclient \in 0..clients /\ client_thread \in 0..clients
    /\ obj \in [Clients -> CoreVPNClient]
    /\ connect_guard \in Callers \cup {None}
    /\ call \in [Callers -> {"idle", "guard", "poll", "join", "ignored", "refused", "started",
                             "disconnect"}]
    /\ joins \in [Callers -> 0..clients]
    /\ userinputq \in Q!Queue
    /\ creds \in [Names -> Values]
    /\ status \in Status
    /\ overlap \in {"no", "yes"}

(* At most one connection of a process exists at any time, however Connect *)
(* calls, failures and challenges overlap: a second tunnel would keep      *)
(* running unseen (connect() joins the old thread before it starts one).   *)
OneConnection == \A c, d \in Clients : Live(c) /\ Live(d) => c = d

(* As long as no two Connect calls have overlapped, the connection that    *)
(* runs is the one of the vpnclient object, so that Pause, Restart and     *)
(* Disconnect reach it: Authorize() never drops, and initialize_client()   *)
(* never replaces, an object whose connection runs.  cb_connect() checks   *)
(* the object before it takes the mutex, so that a second Connect that     *)
(* comes in between replaces the object of the connection that the first   *)
(* one has started.                                                        *)
RunningIsReachable ==
    Running /\ Patient =>
        \A c \in Clients : obj[c].core \in {"starting", "running"} => vpnclient = c

(* Once the connection has ended, the last status the session manager got  *)
(* no longer says that it is being set up or is established (event() and   *)
(* the end of the client thread), unless a Disconnect is about to say so.  *)
EndIsReported ==
    /\ proc = "up"
    /\ \A c \in Clients : ~Live(c)
    /\ \A k \in Callers : call[k] # "disconnect"
    => status \notin {"CONN_CONNECTING", "CONN_CONNECTED"}

(* As long as no two Connect calls have overlapped, a connection is        *)
(* started only with a value for everything the process has asked the user *)
(* so far (cb_connect() and connect()).  For a second dynamic challenge    *)
(* this is the value given to the first one, which GetResponse() returns.  *)
CredentialsComplete ==
    Patient =>
        \A c \in Clients : obj[c].core = "starting" =>
            \A i \in DOMAIN userinputq.slots :
                LET slot == userinputq.slots[i] IN
                slot.name # "auth_pending" => slot.provided /\ creds[slot.name] # 0

(* A process that has all the input it asked for, which is what Ready      *)
(* checks, does not refuse Connect for missing input.  A profile with a    *)
(* static challenge is the exception: every initialize_client() asks for   *)
(* the challenge again, so that each Connect is refused.                   *)
ReadyMeansConnect ==
    [][\A k \in Callers : call[k] = "guard" /\ call'[k] = "refused" /\ proc' = "up"
            => profile.static \/ ~Q!QueueAllDone(userinputq)]_vars

(* A Disconnect call ends the process, that is the thread it joins does    *)
(* end, unless Connect calls have overlapped before it returns.            *)
DisconnectTerminates ==
    \A k \in Callers : call[k] = "disconnect" ~> ~Running \/ ~Patient

(* What the documentation says of the Disconnect method: it ends the       *)
(* process (dbus-service-net.openvpn.v3.client.md:174-176).                *)
DisconnectEndsProcess == \A k \in Callers : call[k] = "disconnect" ~> ~Running
=============================================================================
