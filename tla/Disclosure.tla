----------------------------- MODULE Disclosure -----------------------------
(***************************************************************************)
(* What a deployment promises about the audio it is given, without saying  *)
(* how a provider is chosen: each request has an audience of providers     *)
(* that grows within the authorization policy while the request is open,   *)
(* and is closed once, with an answer or without.                          *)
(***************************************************************************)
CONSTANTS Calls, Providers
VARIABLES deployment, audience, status

vars == <<deployment, audience, status>>

Authorized(p) == p \in deployment.configured /\ p \in deployment.enabled

Init ==
  /\ audience = [c \in Calls |-> {}]
  /\ status = [c \in Calls |-> "open"]

\* One more provider receives the audio; a second one needs the permission to
\* cross providers.
Disclose(c, p) ==
  /\ status[c] = "open"
  /\ Authorized(p)
  /\ deployment.cross \/ audience[c] \subseteq {p}
  /\ audience' = [audience EXCEPT ![c] = @ \union {p}]
  /\ UNCHANGED <<deployment, status>>

\* An answer comes from someone who received the audio.
Answer(c) ==
  /\ status[c] = "open" /\ audience[c] # {}
  /\ status' = [status EXCEPT ![c] = "answered"]
  /\ UNCHANGED <<deployment, audience>>

Refuse(c) ==
  /\ status[c] = "open"
  /\ status' = [status EXCEPT ![c] = "refused"]
  /\ UNCHANGED <<deployment, audience>>

Next ==
  \E c \in Calls : Answer(c) \/ Refuse(c) \/ \E p \in Providers : Disclose(c, p)

Spec == Init /\ [][Next]_vars
=============================================================================
