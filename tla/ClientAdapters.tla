--------------------------- MODULE ClientAdapters ---------------------------
(***************************************************************************)
(* Registration in a local MCP client: plan, apply, readback and remove of *)
(* the four kinds of adapter (a JSON file, a TOML file, the client's own   *)
(* command, and the manual instructions), driven as SetupService drives    *)
(* them, over a configuration that the user and the client go on editing.  *)
(*                                                                         *)
(* A configuration file is a sequence of blocks: what the text search of   *)
(* the TOML adapter can tell apart.  A JSON document is one without notes, *)
(* subtables or second spellings.                                          *)
(***************************************************************************)
EXTENDS Naturals, SequencesExt

CONSTANTS
  Kinds,        \* adapter kinds to consider, of {"json", "toml", "command", "manual"}
  Starts,       \* configurations a client may be found with
  Candidates,   \* the places the matrix names, in order, as found on the machine
  Engines,      \* launches of our engine, one per package location
  MaxEdits      \* bound: how often somebody else edits the configuration

NoLaunch == "none"            \* no entry, or one without a command
Foreign == "foreign"          \* a launch this installation never recorded
Ours == "ours"                \* DEFAULT_SERVER_NAME; any other server is "other"
Names == {Ours, "other"}
Launches == Engines \union {Foreign}

\* A table under the searched header, one spelled otherwise (quoted, dotted, inside
\* an inline parent), a subtable, a note (a comment in the text after a table), or
\* the parent written inline, mcp_servers = {...}, ahead of every header.
Block == [is: {"table", "spelled", "sub"}, name: Names, launch: Launches \union {NoLaunch}]
           \union [is: {"note", "inline"}, name: {"-"}, launch: {NoLaunch}]

States == {"nowhere", "absent", "document", "misused", "unreadable"}
File == [state: States, blocks: Seq(Block)]

\* A candidate path: it expands to an absolute one, it is a file, its directory
\* exists, and that directory is the home directory itself.
Place == [expands: BOOLEAN, file: BOOLEAN, parent: BOOLEAN, home: BOOLEAN]

VARIABLES
  kind,         \* the selected adapter
  removable,    \* the client's command can remove: remove_argv is given
  file,         \* the client's configuration
  here,         \* the launch registration describes: engine and config path
  owned,        \* the fingerprint the journal has of our registration, if any
  connected,    \* the managed configuration names this client
  plan,         \* the reviewed registration plan
  at, read,     \* where the call is, and the document it has in memory
  outcome,      \* how the last call ended
  touched,      \* history: changed since the review, by us or by somebody else
                \* ("edit"), and since the file was read
  altered,      \* history: edited since the registration that is on record
  broken,       \* history: a call ended after the entry and before its record
  edits

vars == <<kind, removable, file, here, owned, connected, plan, at, read, outcome,
          touched, altered, broken, edits>>

Actions == {"none", "add", "update", "replace", "conflict"}
Plan == [action: Actions, launch: Engines]
NoPlan == [action |-> "none", launch |-> NoLaunch]

Points == {"idle", "read", "write", "cli remove", "cli add", "readback",
           "strip read", "strip write", "cli strip", "save",
           "save removed", "save kept"}

-----------------------------------------------------------------------------
(***************************************************************************)
(* The document.                                                           *)
(***************************************************************************)
Table(name, launch) == [is |-> "table", name |-> name, launch |-> launch]

Defines(block, name) == block.name = name /\ block.is \in {"table", "spelled"}

Inline(blocks) == \E i \in 1..Len(blocks) : blocks[i].is = "inline"

\* What a parser sees: a second definition of a table is an error, and so is a
\* header under a parent that is written inline.
Valid(blocks) ==
  /\ \A i, j \in 1..Len(blocks) :
       Defines(blocks[i], blocks[i].name) /\ Defines(blocks[j], blocks[i].name) => i = j
  /\ Inline(blocks) => \A i \in 1..Len(blocks) : blocks[i].is \notin {"table", "sub"}

\* A client is found with what its parser accepts, or with nothing to be read.
ASSUME AdapterAssumption ==
  /\ Candidates \subseteq Seq(Place)
  /\ Kinds \subseteq {"json", "toml", "command", "manual"}
  /\ Starts \subseteq File
  /\ \A f \in Starts : Valid(f.blocks) /\ (f.state # "document" => f.blocks = <<>>)
  /\ {Foreign, NoLaunch} \intersect Engines = {} /\ Engines # {}
  /\ MaxEdits \in Nat

Listed(blocks, name) == \E i \in 1..Len(blocks) : blocks[i].name = name

Launch(blocks, name) ==
  IF \E i \in 1..Len(blocks) : Defines(blocks[i], name)
  THEN blocks[CHOOSE i \in 1..Len(blocks) : Defines(blocks[i], name)].launch
  ELSE NoLaunch

\* _table_bounds: the header as we would write it, up to the next header.
TableStart(blocks) == SelectInSeq(blocks, LAMBDA b : b.is = "table" /\ b.name = Ours)

\* Mutant of TableEnd: the last table of the file is the one replaced.
TableEndOfFile(blocks, start) == Len(blocks)

TableEnd(blocks, start) ==
  LET headers == {i \in (start + 1)..Len(blocks) : blocks[i].is # "note"}
  IN  IF headers = {} THEN Len(blocks) ELSE Min(headers) - 1

\* Mutant of Replaced: a new table is added whether or not there is one.
ReplacedBlindly(blocks, new) == blocks \o new

\* Our table is swapped for another or dropped; one that is not found is added
\* at the end, or left where it is.
Replaced(blocks, new) ==
  LET start == TableStart(blocks)
  IN  IF start = 0 THEN blocks \o new
      ELSE SubSeq(blocks, 1, start - 1) \o new
             \o SubSeq(blocks, TableEnd(blocks, start) + 1, Len(blocks))

\* The blocks of other names, in their order.
Without(blocks, names) ==
  LET kept[i \in 0..Len(blocks)] ==
        IF i = 0 THEN <<>>
        ELSE IF blocks[i].name \in names THEN kept[i - 1] ELSE Append(kept[i - 1], blocks[i])
  IN  kept[Len(blocks)]

Others(blocks) == Without(blocks, {Ours, "-"})

\* The file can be read: it is no link, not too large, and parses.  A key path
\* used for something else reads as no servers at all.
Readable == file.state \in {"absent", "document", "misused"}

\* The adapter is built at all.
Detected == file.state # "nowhere"

\* The first candidate that is there: a file, or a directory of the client's own
\* in which it will be made.  0 when there is none.
FirstExisting(candidates, requireFile) ==
  SelectInSeq(candidates, LAMBDA p :
    p.expands /\ (p.file \/ (~requireFile /\ p.parent /\ ~p.home)))

\* What the client may be found with, the candidates being what they are.
Found(candidates) ==
  LET found == FirstExisting(candidates, kind = "command")
  IN  CASE found = 0 -> {"nowhere"}
        [] found # 0 /\ kind = "command" -> {"absent", "document", "unreadable"}
        [] found # 0 /\ kind # "command" ->
             IF candidates[found].file THEN {"document", "misused", "unreadable"} ELSE {"absent"}

\* What the new text reads as.
Written(blocks) ==
  [state |-> IF Valid(blocks) /\ file.state # "misused" THEN "document" ELSE "unreadable",
   blocks |-> blocks]

-----------------------------------------------------------------------------
Init ==
  /\ kind \in Kinds
  /\ removable \in IF kind = "command" THEN BOOLEAN ELSE {TRUE}
  /\ \E candidates \in Candidates :
       file \in {f \in Starts : f.state \in Found(candidates)}
  /\ kind # "toml" => \A i \in 1..Len(file.blocks) : file.blocks[i].is = "table"
  /\ here \in Engines
  /\ owned = NoLaunch
  /\ connected = FALSE
  /\ plan = NoPlan
  /\ at = "idle"
  /\ read = <<>>
  /\ outcome = "none"
  /\ touched = {}
  /\ altered = FALSE
  /\ broken = FALSE
  /\ edits = 0

world == <<kind, removable, here, altered, edits>>

\* Mutant of Classify: the name is enough.
ClassifyByName(launch) == "ours"

\* Ownership is decided by the launch: a recorded one, or the very one we would
\* register.  An entry without a command is not known to be anybody's.
Classify(launch) ==
  CASE launch = NoLaunch -> "unknown"
    [] launch # NoLaunch /\ launch \in {owned, here} -> "ours"
    [] OTHER -> "foreign"

\* The four plan methods; a listing that fails shows no entry.
PlannedAction(blocks, takeover) ==
  CASE kind = "manual" -> "none"
    [] kind # "manual" /\ ~Listed(blocks, Ours) -> "add"
    [] kind # "manual" /\ Listed(blocks, Ours) ->
         CASE Classify(Launch(blocks, Ours)) = "ours" ->
                IF Launch(blocks, Ours) = here THEN "none" ELSE "update"
           [] Classify(Launch(blocks, Ours)) # "ours" ->
                IF takeover /\ removable THEN "replace" ELSE "conflict"

Servers == IF file.state = "document" THEN file.blocks ELSE <<>>

Review ==
  /\ at = "idle"
  /\ kind # "manual" => Detected
  /\ kind \in {"json", "toml"} => Readable
  /\ \E takeover \in BOOLEAN, seen \in {Servers} \union (IF kind = "command" THEN {<<>>} ELSE {}) :
       plan' = [action |-> PlannedAction(seen, takeover), launch |-> here]
  /\ touched' = {}
  /\ outcome' = "none"
  /\ UNCHANGED <<world, file, owned, connected, at, read, broken>>

-----------------------------------------------------------------------------
(***************************************************************************)
(* The call: SetupService._register, under the installation lock.          *)
(***************************************************************************)
Goes(to) == at' = to /\ outcome' = "none" /\ UNCHANGED <<read, broken>>

\* The points at which the client may have an entry that no journal has yet.
Cut(how) == at \in {"cli add", "readback"} /\ how # "registered"

\* Mutant of Ends: the document read is kept for the next call.
EndsHolding(how) ==
  at' = "idle" /\ outcome' = how /\ UNCHANGED read /\ broken' = (broken \/ Cut(how))

Ends(how) ==
  at' = "idle" /\ outcome' = how /\ read' = <<>> /\ broken' = (broken \/ Cut(how))

Reads == read' = file.blocks /\ touched' = touched \ {"read"}

\* The configuration that names the client was committed before this.
BeginApply ==
  /\ at = "idle" /\ plan # NoPlan
  /\ connected' = TRUE
  /\ CASE plan.action = "conflict" -> Ends("failed")
       [] plan.action = "none" -> Goes("readback")
       [] plan.action \in {"add", "update", "replace"} /\ kind # "command" -> Goes("read")
       [] plan.action = "replace" /\ kind = "command" -> Goes("cli remove")
       [] plan.action \in {"add", "update"} /\ kind = "command" -> Goes("cli add")
  /\ UNCHANGED <<world, file, owned, plan, touched>>

\* apply reads the file again, not what was reviewed.  JSON refuses a key that
\* is used for something else, TOML has no table there and adds one.
ReadFile ==
  /\ at = "read"
  /\ IF Readable /\ ~(kind = "json" /\ file.state = "misused")
     THEN Reads /\ at' = "write" /\ UNCHANGED <<outcome, broken>>
     ELSE Ends("failed") /\ UNCHANGED touched
  /\ UNCHANGED <<world, file, owned, connected, plan>>

\* A temporary file takes the place of the configuration, whatever happened to
\* that since it was read.  An OSError is no DesktopError: it leaves apply.
WriteFile ==
  /\ at = "write"
  /\ \/ file' = Written(Replaced(read, <<Table(Ours, plan.launch)>>)) /\ Goes("readback")
     \/ UNCHANGED file /\ Ends("raised")
  /\ UNCHANGED <<world, owned, connected, plan, touched>>

\* The client's command: it does its work or not, and says so or times out.
\* Whether it replaces an entry of that name is the client's affair.
Done == [file EXCEPT !.state = "document", !.blocks = Replaced(@, <<Table(Ours, plan.launch)>>)]
Stripped == [file EXCEPT !.blocks = Replaced(@, <<>>)]

CommandRemove ==
  /\ at = "cli remove"
  /\ file' \in {file, Stripped}
  /\ Goes("cli add")
  /\ UNCHANGED <<world, owned, connected, plan, touched>>

CommandAdd ==
  /\ at = "cli add"
  /\ \/ file' = Done /\ Goes("readback")
     \/ file' \in {file, Done} /\ Ends("failed")
  /\ UNCHANGED <<world, owned, connected, plan, touched>>

\* Mutant of Readback: a registration that changed nothing is not recorded.
ReadbackUnrecorded ==
  /\ at = "readback"
  /\ owned' = IF plan.action = "none" THEN owned ELSE plan.launch
  /\ altered' = ("edit" \in touched)
  /\ Ends("registered")
  /\ UNCHANGED <<kind, removable, here, edits, file, connected, plan, touched>>

\* A file that cannot be read now raises outside of any handler; an entry that
\* is not found does not matter.  What is recorded is what was asked for.
Readback ==
  /\ at = "readback"
  /\ IF kind \in {"json", "toml"} /\ ~Readable
     THEN Ends("raised") /\ UNCHANGED <<owned, altered>>
     ELSE Ends("registered") /\ owned' = plan.launch /\ altered' = ("edit" \in touched)
  /\ UNCHANGED <<kind, removable, here, edits, file, connected, plan, touched>>

-----------------------------------------------------------------------------
(***************************************************************************)
(* Disconnection: by name, if the journal has an entry of that name.       *)
(***************************************************************************)
\* A window in which nothing was reviewed has no adapter, and touches no client.
\* A reviewed plan outlives the disconnection.
BeginRemove ==
  /\ at = "idle" /\ connected
  /\ \E adapter \in BOOLEAN :
       /\ plan # NoPlan => adapter
       /\ CASE owned = NoLaunch \/ ~adapter -> Goes("save")
            [] owned # NoLaunch /\ adapter /\ kind \in {"json", "toml"} -> Goes("strip read")
            [] owned # NoLaunch /\ adapter /\ kind = "command" -> Goes("cli strip")
            [] owned # NoLaunch /\ adapter /\ kind = "manual" -> Goes("save kept")
  /\ touched' = (touched \ {"read"}) \union {"review"}
  /\ UNCHANGED <<world, file, owned, connected, plan>>

StripRead ==
  /\ at = "strip read"
  /\ CASE ~Readable -> Ends("failed") /\ UNCHANGED touched
       [] Readable /\ Listed(Servers, Ours) ->
            Reads /\ at' = "strip write" /\ UNCHANGED <<outcome, broken>>
       [] Readable /\ ~Listed(Servers, Ours) -> Goes("save kept") /\ UNCHANGED touched
  /\ UNCHANGED <<world, file, owned, connected, plan>>

StripWrite ==
  /\ at = "strip write"
  /\ \/ file' = Written(Replaced(read, <<>>)) /\ Goes("save removed")
     \/ UNCHANGED file /\ Ends("raised")
  /\ UNCHANGED <<world, owned, connected, plan, touched>>

\* A command that cannot remove raises, and the client stays in the
\* configuration; one that fails is a removal that did not happen.
CommandStrip ==
  /\ at = "cli strip"
  /\ \/ ~removable /\ UNCHANGED file /\ Ends("failed")
     \/ removable /\ file' = Stripped /\ Goes("save removed")
     \/ removable /\ file' \in {file, Stripped} /\ Goes("save kept")
  /\ UNCHANGED <<world, owned, connected, plan, touched>>

\* Mutant of SaveConfig: the journal forgets the registration in any case.
SaveConfigForgetting ==
  /\ at \in {"save", "save removed", "save kept"}
  /\ connected' = FALSE
  /\ owned' = NoLaunch
  /\ Ends("disconnected")
  /\ UNCHANGED <<world, file, plan, touched>>

\* The client leaves the configuration in any case, and the journal only with
\* what was removed.  The caller is told the same of all three: that a removal
\* did not happen is in the journal alone.
SaveConfig ==
  /\ at \in {"save", "save removed", "save kept"}
  /\ connected' = FALSE
  /\ owned' = IF at = "save removed" THEN NoLaunch ELSE owned
  /\ Ends("disconnected")
  /\ UNCHANGED <<world, file, plan, touched>>

-----------------------------------------------------------------------------
(***************************************************************************)
(* The world: users and clients edit, packages move, Setup dies.           *)
(***************************************************************************)
\* An entry where the document takes one: a table, or inside the inline parent.
Entry(blocks, name) ==
  [Table(name, Foreign) EXCEPT !.is = IF Inline(blocks) THEN "spelled" ELSE "table"]

\* The ways somebody changes a document: an entry of ours edited, respelled or
\* dropped, another one added or dropped, a note.
Edited(blocks) ==
  {Without(blocks, {n}) : n \in Names}
    \union {Append(blocks, Entry(blocks, n)) : n \in {m \in Names : ~Listed(blocks, m)}}
    \union {[i \in 1..Len(blocks) |-> IF Defines(blocks[i], Ours)
                                      THEN [blocks[i] EXCEPT !.launch = Foreign]
                                      ELSE blocks[i]]}
    \union (IF kind # "toml" THEN {}
            ELSE {[i \in 1..Len(blocks) |-> IF Defines(blocks[i], Ours)
                                            THEN [blocks[i] EXCEPT !.is = "spelled"]
                                            ELSE blocks[i]]}
                   \union {Append(blocks, [is |-> "note", name |-> "-", launch |-> NoLaunch])})

Edit ==
  /\ edits < MaxEdits
  /\ \/ /\ file.state \in {"absent", "document"}
        /\ \E blocks \in Edited(file.blocks) \ {file.blocks} :
             file' = [state |-> "document", blocks |-> blocks]
     \/ /\ file.state = "document"
        /\ file' = [file EXCEPT !.state = "unreadable"]
  /\ touched' = {"review", "read", "edit"}
  /\ altered' = TRUE
  /\ edits' = edits + 1
  /\ UNCHANGED <<kind, removable, here, owned, connected, plan, at, read, outcome, broken>>

\* Setup is started again, maybe from a package installed elsewhere.
Upgrade ==
  /\ at = "idle" /\ edits < MaxEdits
  /\ here' \in Engines
  /\ plan' = NoPlan /\ outcome' = "none"
  /\ edits' = edits + 1
  /\ UNCHANGED <<kind, removable, file, owned, connected, at, read, touched, altered, broken>>

\* Setup dies in a call: the journal in memory is lost with the plan.  Between
\* the two writes of a disconnection the client is already gone.
Crash ==
  /\ at # "idle"
  /\ connected' \in IF at \in {"save", "save removed", "save kept"} THEN {connected, FALSE}
                    ELSE {connected}
  /\ plan' = NoPlan
  /\ Ends("cut short")
  /\ UNCHANGED <<world, file, owned, touched>>

Registering == \/ BeginApply \/ ReadFile \/ WriteFile \/ CommandRemove \/ CommandAdd
               \/ Readback

Removing == BeginRemove \/ StripRead \/ StripWrite \/ CommandStrip \/ SaveConfig

Next == Review \/ Registering \/ Removing \/ Edit \/ Upgrade \/ Crash

Spec == Init /\ [][Next]_vars

-----------------------------------------------------------------------------
(***************************************************************************)
(* Properties.                                                             *)
(***************************************************************************)
\* Every variable has its type; a read document is held only across a write.
TypeOK ==
  /\ kind \in Kinds /\ removable \in BOOLEAN
  /\ file.state \in States
  /\ \A i \in 1..Len(file.blocks) : file.blocks[i] \in Block
  /\ here \in Engines
  /\ owned \in Engines \union {NoLaunch}
  /\ connected \in BOOLEAN /\ altered \in BOOLEAN /\ broken \in BOOLEAN
  /\ plan \in Plan \union {NoPlan}
  /\ at \in Points
  /\ read # <<>> => at \in {"write", "readback", "strip write", "save removed"}
  /\ outcome \in {"none", "registered", "failed", "raised", "disconnected", "cut short"}
  /\ touched \subseteq {"review", "read", "edit"}
  /\ edits \in 0..MaxEdits

\* A step of Setup, not of the user or the client.
Ourselves == edits' = edits /\ file' # file

\* Whatever Setup writes, the servers of others are in the file as they were
\* read, in their order: registering and removing touch one table.
OthersSurvive ==
  [][Ourselves /\ "read" \notin touched => Others(file'.blocks) = Others(file.blocks)]_vars

\* A document that takes a table of ours where Setup puts it: no definition of
\* ours that the search does not find, and no parent written inline.
TakesOurTable(blocks) ==
  \A i \in 1..Len(blocks) :
    blocks[i].is # "inline" /\ ~(blocks[i].is = "spelled" /\ blocks[i].name = Ours)

\* Setup never makes a file unreadable that it could read.  There are three
\* exceptions, all of them in TOML, where the search for the header is blind to
\* what the parser saw: our server is defined in a spelling it does not find,
\* the parent is written inline, or its name is taken by something else.
ReadableStaysReadable ==
  [][Ourselves /\ "read" \notin touched /\ file.state \in {"absent", "document"}
       /\ TakesOurTable(file.blocks) =>
     file'.state \in {"absent", "document"}]_vars

\* An entry that launches something else, under our name, goes in these cases
\* only.  A registration takes it because the user agreed to a takeover, or
\* somebody made the entry after the review, or the client's command would not
\* list it and "add" was planned.  A disconnection goes by the name, and takes it
\* when somebody edited the configuration after the registration on record, or
\* after the review that led to it.
TakeoverIsAgreed ==
  [][Ourselves /\ Launch(Servers, Ours) = Foreign =>
     IF at \in {"strip write", "cli strip"} THEN altered
     ELSE \/ plan.action = "replace"
          \/ "edit" \in touched
          \/ kind = "command" /\ plan.action = "add"]_vars

\* What a completed registration leaves: the client launches the planned engine
\* and the journal owns that launch, so that a later disconnection finds it.
RegisteredIsThere ==
  outcome = "registered" /\ touched = {} /\ kind # "manual" =>
    owned = plan.launch /\ Launch(Servers, Ours) = owned

\* Setup leaves no table of its own that the journal has forgotten, so that no
\* disconnection would remove it, unless a call ended, by a death, by a file that
\* cannot be read back or by the client's command, between the entry and its
\* record.  (One that was respelled since is left in the file and forgotten all
\* the same.)
EntryHasAnOwner ==
  at = "idle" /\ TableStart(Servers) # 0 /\ Servers[TableStart(Servers)].launch \in Engines =>
    owned # NoLaunch \/ broken
=============================================================================
