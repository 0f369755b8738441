-------------------------- MODULE MCBackendClient --------------------------
(* Instances of BackendClient for TLC: profiles by what they ask for.        *)
EXTENDS BackendClient

Profile(load, flow, static, pk) == [load |-> load, flow |-> flow, static |-> static, pk |-> pk]

MCLogins == {Profile("ok", "autologin", FALSE, FALSE), Profile("ok", "password-only", FALSE, FALSE),
             Profile("ok", "username-password", FALSE, FALSE), Profile("ok", "autologin", FALSE, TRUE)}
MCBroken == {Profile(load, "autologin", FALSE, FALSE) : load \in {"unavailable", "unparsable", "rejected"}}
MCStatic == {Profile("ok", "username-password", TRUE, FALSE)}
MCProfiles == MCLogins \cup MCBroken \cup MCStatic
MCPassword == {Profile("ok", "password-only", FALSE, FALSE)}
=============================================================================
