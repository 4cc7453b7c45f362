----------------------------- MODULE Retention -----------------------------
(***************************************************************************)
(* What a temporary result store promises, whatever it is built on.  A     *)
(* transcript is unborn, then kept, then gone for good.  A request that    *)
(* overlaps a change may be answered from before or after it, but never    *)
(* from a state the transcript was not in while the request was open.      *)
(***************************************************************************)
EXTENDS Naturals

CONSTANTS Ids, Clients

VARIABLES
  shelf,        \* [Ids -> Stages]
  ask,          \* [Clients -> the request, and whether it is open]
  said,         \* the answer this step gave, <<client, reply>>, or <<>>
  seen          \* [Clients -> the stages its transcript went through meanwhile]

vars == <<shelf, ask, said, seen>>

Stages == {"unborn", "kept", "gone"}
Age(stage) == CASE stage = "unborn" -> 0 [] stage = "kept" -> 1 [] stage = "gone" -> 2

Init ==
  /\ shelf = [id \in Ids |-> "unborn"]
  /\ \A c \in Clients : ~ask[c].open
  /\ said = <<>>
  /\ seen = [c \in Clients |-> {}]

\* Nothing comes back.
Forward == \A id \in Ids : shelf'[id] \in Stages /\ Age(shelf'[id]) >= Age(shelf[id])

Watch(c) ==
  seen'[c] = IF ~ask'[c].open THEN {}
             ELSE (IF ask[c].open THEN seen[c] ELSE {}) \union {shelf'[ask'[c].id]}

\* "error" and "disabled" answer anything; a refusal is about the arguments of
\* a transcript that was there.
Honest(op, reply, stages, now) ==
  \/ reply \in {"error", "disabled"}
  \/ op = "put" /\ reply = "stored" /\ now # "unborn"
  \/ op = "get" /\ reply \in {"chunk", "refused"} /\ "kept" \in stages
  \/ op = "get" /\ reply = "not_found" /\ stages # {"kept"}
  \/ op = "delete" /\ reply = "deleted" /\ now = "gone"
  \/ op = "delete" /\ reply = "absent" /\ stages # {"kept"}

Asks(c) == ~ask[c].open /\ ask'[c].open

Answers(c) ==
  LET id == ask[c].id
  IN  /\ ask[c].open /\ ~ask'[c].open /\ said'[1] = c
      /\ Honest(ask[c].op, said'[2], seen[c] \union {shelf'[id]}, shelf'[id])

\* The client went away, or the server did.
Drops(c) == ~ask'[c].open

Next ==
  /\ Forward
  /\ \A c \in Clients :
       IF said' # <<>> /\ said'[1] = c THEN Answers(c)
       ELSE ask'[c] = ask[c] \/ Asks(c) \/ Drops(c)
  /\ \A c \in Clients : Watch(c)

Spec == Init /\ [][Next]_vars
=============================================================================
