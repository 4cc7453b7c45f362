---------------------------- MODULE ResultStore ----------------------------
(***************************************************************************)
(* The temporary result stores behind transcribe (put),                    *)
(* get_transcript_chunk and delete_transcript: memory, S3 and disabled,    *)
(* with concurrent requests, expiry, the bucket's lifecycle rule, client   *)
(* cancellation and a restart of the server.                               *)
(*                                                                         *)
(* The memory store is touched by the event loop alone, one request at a   *)
(* time.  Every call of the S3 client runs in a thread while the loop goes *)
(* on with other requests: it is a step of its own, and what it found may  *)
(* have changed when the request goes on.                                  *)
(***************************************************************************)
EXTENDS Chunks

CONSTANTS
  Ids,          \* transcript identifiers
  Content,      \* [Ids -> Transcript]
  Clients,      \* requests in flight at once
  Readers,      \* the clients that read
  Backends,     \* of {"memory", "s3", "disabled"}
  Asked,        \* the [format, room] a reader may ask for
  TTL,          \* how long a transcript is kept
  Horizon       \* bound: the last reading of the clock

ASSUME StoreAssumption ==
  /\ Ids \subseteq STRING /\ Ids # {}
  /\ Content \in [Ids -> Transcript]
  /\ Readers \subseteq Clients
  /\ Backends \subseteq {"memory", "s3", "disabled"}
  /\ Asked \subseteq [format: Formats \union {"other"}, room: Nat]
  /\ TTL \in Nat \ {0}
  /\ Horizon \in Nat

VARIABLES
  backend,      \* the store create_result_store made
  clock,        \* monotonic or UTC, as the store reads it
  stored,       \* [Ids -> Slot]: the dictionary, or the bucket
  call,         \* [Clients -> a request and where it is]
  book,         \* [Clients -> what a reader has put together]
  said,         \* the answer this step gave: <<client, reply>>, or <<>>
  seen          \* auxiliary: stages of the asked transcript since the request

vars == <<backend, clock, stored, call, book, said, seen>>

Slot == [is: {"unborn", "gone"}, until: {0}] \union [is: {"kept"}, until: Nat]
Unborn == [is |-> "unborn", until |-> 0]
Gone == [is |-> "gone", until |-> 0]
Kept(until) == [is |-> "kept", until |-> until]

Points == {"idle", "start", "put", "fetch", "check", "drop", "delete"}
Replies == {"stored", "chunk", "not_found", "refused", "deleted",
            "absent", "error", "disabled"}

\* An argument of get_chunk that plays no part elsewhere.
NoAsk == [format |-> "text", room |-> 1, cursor |-> NoCursor]

\* `heard` is false once the client has cancelled: the thread goes on alone.
Call == [op: {"put", "get", "delete"}, id: Ids, at: Points, until: Nat,
         heard: BOOLEAN,
         ask: [format: Formats \union {"other"}, room: Nat,
               cursor: Cursor \union {NoCursor}]]

NoId == CHOOSE id \in Ids : TRUE
Idle == [op |-> "get", id |-> NoId, at |-> "idle", until |-> 0, heard |-> TRUE,
         ask |-> NoAsk]

Book == [id: Ids, format: Formats, got: Seq(Nat), next: Cursor \union {NoCursor},
         done: BOOLEAN]

Init ==
  /\ backend \in Backends
  /\ clock = 0
  /\ stored = [id \in Ids |-> Unborn]
  /\ call = [c \in Clients |-> Idle]
  /\ book = [c \in Clients |-> [id |-> NoId, format |-> "text", got |-> <<>>,
                                next |-> NoCursor, done |-> FALSE]]
  /\ said = <<>>
  /\ seen = [c \in Clients |-> {}]

Open(c) == call[c].at # "idle" /\ call[c].heard
Expired(until) == until <= clock

Shelf(id) == IF stored[id].is = "kept" /\ Expired(stored[id].until) THEN "gone"
             ELSE stored[id].is

\* Where the transcript of a request stands.
Stage(c) == Shelf(call[c].id)

-----------------------------------------------------------------------------
(***************************************************************************)
(* Requests.                                                               *)
(***************************************************************************)
Ask(c, op, id, ask) ==
  /\ call[c].at = "idle"
  /\ call' = [call EXCEPT ![c] = [Idle EXCEPT !.op = op, !.id = id, !.at = "start",
                                              !.ask = ask]]
  /\ said' = <<>>
  /\ UNCHANGED <<backend, clock, stored, book>>

\* The service stores a transcript under a new random identifier.
AskPut(c) ==
  \E id \in Ids :
    /\ stored[id] = Unborn
    /\ \A d \in Clients : ~(call[d].at # "idle" /\ call[d].op = "put" /\ call[d].id = id)
    /\ Ask(c, "put", id, NoAsk)

\* A reader starts, goes on, or presents a cursor that is not for this.
AskGet(c) ==
  /\ c \in Readers
  /\ \E id \in Ids, a \in Asked :
     \E k \in {NoCursor, book[c].next}
                \union {[x EXCEPT !.signed = FALSE, !.index = 1] :
                          x \in {book[c].next} \ {NoCursor}} :
       Ask(c, "get", id, [format |-> a.format, room |-> a.room, cursor |-> k])

AskDelete(c) == \E id \in Ids : Ask(c, "delete", id, NoAsk)

\* A request goes on to `at`; one whose client has cancelled ends there.
Go(c, at) ==
  /\ call' = [call EXCEPT ![c] = IF @.heard THEN [@ EXCEPT !.at = at] ELSE Idle]
  /\ said' = <<>>

Reply(c, reply) ==
  /\ call' = [call EXCEPT ![c] = Idle]
  /\ said' = IF call[c].heard THEN <<c, reply>> ELSE <<>>

\* What a reader makes of a piece: the next of what it has, or a new beginning.
Joined(c, id, ask, piece) ==
  LET goesOn == ask.cursor # NoCursor /\ ask.cursor = book[c].next
                  /\ book[c].id = id /\ book[c].format = ask.format
  IN  [id |-> id, format |-> ask.format, next |-> piece.next, done |-> piece.done,
       got |-> IF goesOn THEN book[c].got \o piece.items ELSE piece.items]

\* A transcript that was found live is cut, or the arguments are refused.
Cut(c) ==
  LET id == call[c].id
      ask == call[c].ask
  IN  IF Refuses(Content[id], id, ask)
      THEN Reply(c, "refused") /\ UNCHANGED book
      ELSE /\ Reply(c, "chunk")
           /\ book' = [book EXCEPT ![c] = Joined(c, id, ask, Piece(Content[id], id, ask))]

-----------------------------------------------------------------------------
(***************************************************************************)
(* The disabled and the memory store answer at once.                       *)
(***************************************************************************)
Disabled(c) ==
  /\ backend = "disabled" /\ call[c].at = "start"
  /\ Reply(c, "disabled")
  /\ UNCHANGED <<backend, clock, stored, book>>

MemoryPut(c) ==
  /\ backend = "memory" /\ call[c].at = "start" /\ call[c].op = "put"
  /\ stored' = [stored EXCEPT ![call[c].id] = Kept(clock + TTL)]
  /\ Reply(c, "stored")
  /\ UNCHANGED <<backend, clock, book>>

Popped(id) == [stored EXCEPT ![id] = IF @.is = "kept" THEN Gone ELSE @]

MemoryGet(c) ==
  /\ backend = "memory" /\ call[c].at = "start" /\ call[c].op = "get"
  /\ IF Shelf(call[c].id) = "kept"
     THEN Cut(c) /\ UNCHANGED stored
     ELSE /\ stored' = Popped(call[c].id)
          /\ Reply(c, "not_found") /\ UNCHANGED book
  /\ UNCHANGED <<backend, clock>>

\* `deleted` says that the dictionary had it, expired or not.
MemoryDelete(c) ==
  /\ backend = "memory" /\ call[c].at = "start" /\ call[c].op = "delete"
  /\ stored' = Popped(call[c].id)
  /\ Reply(c, IF stored[call[c].id].is = "kept" THEN "deleted" ELSE "absent")
  /\ UNCHANGED <<backend, clock, book>>

-----------------------------------------------------------------------------
(***************************************************************************)
(* S3.  A fault is any exception of the client: the tool answers           *)
(* INTERNAL_ERROR, and a write may or may not have been done.              *)
(***************************************************************************)
At(c, point) == backend = "s3" /\ call[c].at = point

\* Mutant of Stamp: the lifecycle rule's day is added to the expiry.
StampRounded(c) ==
  /\ At(c, "start") /\ call[c].op = "put"
  /\ call' = [call EXCEPT ![c].at = "put", ![c].until = clock + TTL + TTL]
  /\ said' = <<>>
  /\ UNCHANGED <<backend, clock, stored, book>>

\* The expiry is computed before the upload, which takes its time.
Stamp(c) ==
  /\ At(c, "start") /\ call[c].op = "put"
  /\ call' = [call EXCEPT ![c].at = "put", ![c].until = clock + TTL]
  /\ said' = <<>>
  /\ UNCHANGED <<backend, clock, stored, book>>

Upload(c) ==
  /\ At(c, "put")
  /\ \/ /\ stored' = [stored EXCEPT ![call[c].id] = Kept(call[c].until)]
        /\ \E reply \in {"stored", "error"} : Reply(c, reply)
     \/ Reply(c, "error") /\ UNCHANGED stored
  /\ UNCHANGED <<backend, clock, book>>

Missing(c) == Reply(c, IF call[c].op = "get" THEN "not_found" ELSE "absent")

\* The listing: keys carry the date, so the object is looked for everywhere.
List(c) ==
  /\ At(c, "start") /\ call[c].op \in {"get", "delete"}
  /\ \/ stored[call[c].id].is = "kept" /\ Go(c, "fetch")
     \/ stored[call[c].id].is # "kept" /\ Missing(c)
     \/ Reply(c, "error")
  /\ UNCHANGED <<backend, clock, stored, book>>

\* An object that was listed and is gone raises the client's own exception,
\* which is not the KeyError that means not found.
Fetch(c) ==
  /\ At(c, "fetch")
  /\ \/ /\ stored[call[c].id].is = "kept"
        /\ call' = [call EXCEPT ![c].at = "check", ![c].until = stored[call[c].id].until]
        /\ said' = <<>>
     \/ Reply(c, "error")
  /\ UNCHANGED <<backend, clock, stored, book>>

\* Mutant of Check: the expiry in the metadata is not looked at.
CheckNothing(c) ==
  /\ At(c, "check")
  /\ IF call[c].op = "get" THEN Cut(c) ELSE Go(c, "delete") /\ UNCHANGED book
  /\ UNCHANGED <<backend, clock, stored>>

\* Mutant of Check: the comparison is the wrong way round.
CheckReversed(c) ==
  /\ At(c, "check")
  /\ \/ ~Expired(call[c].until) /\ Go(c, "drop") /\ UNCHANGED book
     \/ Expired(call[c].until) /\ call[c].op = "get" /\ Cut(c)
     \/ Expired(call[c].until) /\ call[c].op = "delete" /\ Go(c, "delete") /\ UNCHANGED book
  /\ UNCHANGED <<backend, clock, stored>>

\* Back in the event loop, with what was read then and the clock of now.
Check(c) ==
  /\ At(c, "check")
  /\ \/ Expired(call[c].until) /\ Go(c, "drop") /\ UNCHANGED book
     \/ ~Expired(call[c].until) /\ call[c].op = "get" /\ Cut(c)
     \/ ~Expired(call[c].until) /\ call[c].op = "delete" /\ Go(c, "delete") /\ UNCHANGED book
  /\ UNCHANGED <<backend, clock, stored>>

\* Deleting an object that is not there succeeds.
DropExpired(c) ==
  /\ At(c, "drop")
  /\ \/ stored' = Popped(call[c].id) /\ (Missing(c) \/ Reply(c, "error"))
     \/ Reply(c, "error") /\ UNCHANGED stored
  /\ UNCHANGED <<backend, clock, book>>

DeleteObject(c) ==
  /\ At(c, "delete")
  /\ \/ stored' = Popped(call[c].id) /\ (Reply(c, "deleted") \/ Reply(c, "error"))
     \/ Reply(c, "error") /\ UNCHANGED stored
  /\ UNCHANGED <<backend, clock, book>>

-----------------------------------------------------------------------------
(***************************************************************************)
(* The world.                                                              *)
(***************************************************************************)
\* A request is cancelled at an await.  A thread that only reads is forgotten;
\* one that writes cannot be stopped, and its write comes later.
Cancel(c) ==
  /\ backend = "s3" /\ Open(c)
  /\ call' = [call EXCEPT ![c] =
                IF @.at \in {"put", "drop", "delete"} THEN [@ EXCEPT !.heard = FALSE]
                ELSE Idle]
  /\ said' = <<>>
  /\ UNCHANGED <<backend, clock, stored, book>>

Tick ==
  /\ clock < Horizon
  /\ clock' = clock + 1
  /\ said' = <<>>
  /\ UNCHANGED <<backend, stored, call, book>>

\* The bucket's lifecycle rule, whose day is never shorter than the TTL.
Lifecycle ==
  \E id \in Ids :
    /\ backend = "s3" /\ stored[id].is = "kept" /\ Expired(stored[id].until)
    /\ stored' = Popped(id)
    /\ said' = <<>>
    /\ UNCHANGED <<backend, clock, call, book>>

\* Requests die with the server, and the dictionary too.  The cursor secret is
\* in the settings: cursors outlive it.
Restart ==
  /\ \E c \in Clients : call[c].at # "idle"
  /\ call' = [c \in Clients |-> Idle]
  /\ said' = <<>>
  /\ stored' = IF backend = "memory"
               THEN [id \in Ids |-> IF stored[id].is = "kept" THEN Gone ELSE stored[id]]
               ELSE stored
  /\ UNCHANGED <<backend, clock, book>>

Memory(c) == Disabled(c) \/ MemoryPut(c) \/ MemoryGet(c) \/ MemoryDelete(c)

S3(c) == \/ Stamp(c) \/ Upload(c) \/ List(c) \/ Fetch(c) \/ Check(c)
         \/ DropExpired(c) \/ DeleteObject(c)

Step == \/ \E c \in Clients : \/ AskPut(c) \/ AskGet(c) \/ AskDelete(c)
                              \/ Memory(c) \/ S3(c) \/ Cancel(c)
        \/ Tick \/ Lifecycle \/ Restart

Observe ==
  seen' = [c \in Clients |->
             IF ~Open(c)' THEN {}
             ELSE (IF Open(c) THEN seen[c] ELSE {}) \union {Stage(c)'}]

Next == Step /\ Observe

Spec == Init /\ [][Next]_vars

-----------------------------------------------------------------------------
(***************************************************************************)
(* Properties.                                                             *)
(***************************************************************************)
TypeOK ==
  /\ backend \in Backends
  /\ clock \in 0..Horizon
  /\ \A id \in Ids : stored[id] \in Slot /\ stored[id].until <= Horizon + TTL
  /\ said \in {<<>>} \union (Clients \X Replies)
  /\ \A c \in Clients :
       /\ call[c] \in Call /\ book[c] \in Book
       /\ seen[c] \subseteq {"unborn", "kept", "gone"}

\* The pieces a reader gets along the cursors, of whatever sizes it asks for
\* and whatever other cursors it tries in between, are the transcript from its
\* beginning without a gap or a repetition, and the last one ends it.
PiecesJoin ==
  \A c \in Readers :
    LET n == Items(Content[book[c].id], book[c].format)
    IN  /\ book[c].got = Upto(Len(book[c].got))
        /\ Len(book[c].got) <= n
        /\ book[c].done => Len(book[c].got) = n
        /\ book[c].next # NoCursor => book[c].next.index = Len(book[c].got)

\* A piece that is not the last takes the reader further than its cursor did:
\* following the cursors ends.
PiecesAdvance ==
  [][\A c \in Readers :
       said' = <<c, "chunk">> =>
         book'[c].done \/ book'[c].next.index > Start(call[c].ask.cursor)]_vars

\* The bucket loses a transcript before its time only to someone who asked for
\* its deletion, even when the request that removes it read it long before.
KeptUntilDeleted ==
  [][backend = "s3" =>
       \A id \in Ids : Shelf(id) = "kept" /\ Shelf(id)' = "gone" /\ clock' = clock =>
         \E c \in Clients : call[c].op = "delete" /\ call[c].id = id /\ call[c].at = "delete"]_vars

Promise == INSTANCE Retention WITH
  shelf <- [id \in Ids |-> Shelf(id)],
  ask <- [c \in Clients |-> [op |-> call[c].op, id |-> call[c].id, open |-> Open(c)]]

\* Every backend keeps the promise of Retention: no answer from a transcript
\* that was expired or deleted before the request, no `deleted` of one that is
\* still there, no "not found" of one that was there all along.
KeepsItsPromise == Promise!Spec
=============================================================================
