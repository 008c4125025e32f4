# A formal model of codewire

codewire keeps terminal sessions alive on *nodes*, lets clients attach to them,
lets sessions message each other, and reaches nodes behind NAT through a *relay*.
This directory holds TLA+ models of its concurrent parts, TLC configurations that
check them on small instances, and TLAPS proofs of their central invariants for
every instance.

    tlc -config SessionTable.cfg MCSessionTable    # one run; all are listed below
    tlapm SessionProofs.tla                        # one proof module

Source paths below are relative to the repository. `PROJECT.json` ties every
definition to the lines it translates.

## 1. The system

A **node** (`internal/node`, `internal/session`) is one Go process. Every client
connection is served by a goroutine of `handleClient`, one request at a time.
Every session has a PTY reader, an input writer and a *waiter* goroutine that
waits for the process. Sessions live in `SessionManager`, whose table and name
index are under one RWMutex; each session's `Meta` has a mutex of its own, and its
status lives in a `StatusWatcher` besides. A *persistence manager* goroutine
writes `sessions.json` 500 ms after the last signal, and a ticker refreshes the
statuses every 5 s.

The **relay** (`internal/relay`) is an HTTP server over a SQL store. A node's
*agent* holds a WebSocket to it. An SSH session at the relay sends a message down
that socket and waits for the node to dial back. Owners of a network grant access
to their sessions; a revocation is announced over an SSE stream. People and
machines enter a network with invites, enrollments and a device flow. The relay
signs the credentials with which one node accepts messages from another, and keeps
the task reports of sessions in a JetStream stream.

**Clients** (`internal/client`, `cmd/cw`) run commands against a node, the relay
or a remote *peer* node, and keep small files of their own. `cw local` manages
containers and VMs on one's own machine and lists them in such a file.

### Components

Modelled, wholly or in part:

| component | state | operations | what is hard | module |
|---|---|---|---|---|
| session table | sessions, `nameIndex`, `nextID`, `Meta`, status watcher, exit-hook flag, relay group members | Launch, SetName, Kill, KillAll, KillByTags, waiter goroutine, exit hook | Launch draws its ID, starts the process and inserts the session in three steps, SetName is a fourth; Kill, Kill and the waiter race for the hook and for the name; `Meta.Status` and the watcher are set apart | `SessionTable`, `SessionDirectory` |
| session persistence | `PersistCh`, debounce timer, `sessions.json` | refresh, debounced write, start after a stop | a stop inside the debounce or inside the write; a launch that has its ID while another's is written; a refresh that writes a stale status; failed writes | `SessionPersistence` |
| requests and replies | `pendingRequests`, reply channels, message logs | MsgRequest, MsgReply (local, by token, from a peer), timeout, disconnect | the lock is dropped between looking at an entry and taking it; the request is published before it is registered; timeout against a late reply | `Messaging`, `ReplyCell` |
| attach and watch | broadcaster, status channel, `attachedCount`, `output.log` | attach, watch, detach, disconnect | history and live output must join; a status change must not be missed; slow viewers | `SessionStream` |
| subscriptions and wait | `SubscriptionManager.subs` and channels | Wait (all/any, by ID, tag or both), Publish | exit between check and sleep; full channel; the check and the subscription combine ID and tag differently | `WaitHandler` |
| key-value store | namespaces, keys, TTL timers | KVSet, KVDelete, timer goroutines | a timer that fires while its value is replaced | `KVStore` |
| relay to node link | node hub, message channels, `PendingSessions`, bridges | agent connect/reconnect, Expect, Send, deliver, Cancel | connections of one node overlap; the hub looks a route up and sends on it afterwards; a back-connection races its timeout | `RelayLink` |
| access events and grants | hub sequence, buffer, subscriber channels; the client's Last-Event-ID and cached grants | revoke, publish, subscribe, stream, watch, prune | numbering and sending are not one step; replay joins live events; the file of grants serves all networks and is written in place; stops, breaks, restarts | `AccessEvents` |
| enrollment and device flow | the store's tables of members, invites, enrollments, nodes and device flows | claim, invite, join, enroll, redeem, device authorize and poll, sign-on of a node, revocation | a request is several calls of the store; others come between them; it may break off after it has spent something | `Enrollment` |
| network authorization, groups | issuer key, bundle cache, replay cache; groups, members, policies | issue three kinds of credential, verify, consume, deliver, edit groups | clocks differ; the caches are gone after a restart; a target may have lost its name; credentials, keys and groups are read at one time and used at another | `PeerAuth` |
| task events | outbound channel, agent connections, stream and latest values, cursor file, a watch's channel of events | report, forward, publish, put, watch, reset, restart | forwarders outlive their connections; two writes per report; the cursor is ahead of what is printed; one cursor file for all watches | `TaskEvents` |
| local instances | `local_instances.toml`, runtimes of four backends, Firecracker PIDs | create, start, stop, rm, ports | every command reads the file, works for minutes and writes it back whole; failures half-way; runtimes that end by themselves | `LocalInstances` |

What makes each correct: names lead to the session that bears them and hooks run
once (table); numbers that were durable are not reused and the file catches up
(persistence); one reply, from a session of the right number or with the right
token, not lost, and no leaked entry (messages); no gap in the output and exact
counts (streams); no lost wake-up (wait); a timer only deletes its own value (KV);
no send on a closed or full channel, no leaked entry, no accepted message lost on
a sound connection (relay link); nothing lost or repeated between replay and live
events, no valid grant dropped (events); no token used too often, no node without
a sponsor, no second owner (enrollment); no replay, no refusal without a cause, no
strangers (authorization); nothing skipped, repeated or out of date (task events);
the file and the runtimes agree (local instances).

### Not modelled

Lines of code are the wrong measure of what these models leave out: the mapped
definitions stand for about one line in seven of the repository, and most of the
rest is one of the following.

- *One-shot front ends.* `internal/client/commands.go`, `cmd/cw/main.go` and the
  commands beside it, the MCP server, the TUI, secrets, presets, platform
  commands: they parse, ask one question and print the answer. Their state ends
  with the command, and what they ask for is an action of the model of the part
  that answers.
- *Clients of services outside the repository*: the platform API, GitHub, OAuth
  and OIDC providers (the device flow's provider is modelled as an external
  choice).
- *Bytes and I/O*: wire protocol and framing, peer transport, tailnet and
  WireGuard, environment shell, guest agent, shell library, terminal drawing,
  configuration files read at start, self-update.
- *Single statements over the store*: listing, the relay's own key-value pairs,
  grants that are created or accepted, network settings. The Postgres store is the
  SQLite store once more; definitions are mapped to the latter.
- *Small stateful parts left for later*, each with the reason in the plan (section
  5): session input, the detach detector of the terminal, the demo broker's pool,
  the set-up of a relay by its admin, the order of group changes at the relay
  under late exit hooks.

### How the parts meet

`SessionTable`, `SessionStream` and `WaitHandler` are three views of one session.
They share the status watcher, which each models (`watch`, `status` with its
`generation`, `watch`): Kill sets it at any time, also on a session that has
ended, and the waiter sets it after it has stored exit code and result.
`SessionPersistence` extends `SessionTable`: it takes the table's actions, adds
their `triggerPersist` calls and puts the table lock that `RefreshStatuses` holds
in their way. `Messaging` works on sessions that exist (the table never drops
one). `RelayLink`, `AccessEvents`, `Enrollment`, `PeerAuth` and `TaskEvents` are
about the relay and what it shares with nodes and clients. The token that
`Enrollment` registers is what an agent of `RelayLink` and `TaskEvents` connects
with; the members that the exit hook of `SessionTable` removes are those that
`PeerAuth` looks up when a message of `Messaging` arrives from another node; the
connections of `TaskEvents` are those of `RelayLink`, seen from the direction in
which reports travel. The modules are not multiplied with each other: where they
meet, what the one does to the other is an unconstrained choice there (a group
changes at any time, a connection breaks at any time), which is more than the
other module allows. `LocalInstances` is a program of its own.

## 2. The modules and the code

Definitions keep the names of the code. The position of a goroutine is a field
`pc`, whose values say what the goroutine does next. A step is one critical
section, one channel operation, or one call that no lock protects. Two such things
are merged only where what can come between them may as well come before or after:
an append to a message log with the publication that follows it (`Messaging`), the
collection of the sessions with the truncation of the file (`PersistBegin`), the
read of a client's small file with the write that follows it (`Apply`, `Handle`).
Channels are sequences, or a count or a flag when only that matters; file
contents, output, messages and grants are numbers or model values.

**`SessionTable`** (`session.go`, `node.go`, the handlers of Launch and Kill). A
Launch is four steps: `BeginLaunch` draws an ID from the atomic counter,
`StartProcess` is `pty.Start` (`LaunchFails` leaves the ID unused),
`InsertSession` enters the session under `m.mu`, and `SetName` is the second
critical section of a named Launch. Of two launches at once the one with the later
ID may be inserted first. `SetNameFails` is the clean-up when the name is taken,
which kills the session it has just launched. `KillMark`, `KillMeta`,
`KillRelease`, `KillHook` are the four parts of `Kill` (signal and watcher, then
`Meta` with the claim on `exitHookSent`, then `releaseName`, then the exit hook);
`KillAll` and `KillByTags` collect IDs first and then kill one by one.
`WaiterExit` to `WaiterHook` are the waiter: reap, store the result, set the
watcher, claim the hook, release the name, call the hook. The hook removes the
member from the relay group (`members`), and `ExitHook` may fail at the relay.
**`SessionDirectory`** is what all this should amount to, without locks, watchers
and goroutines: numbers are drawn one after the other, each once; sessions are
launched under them in any order and are over for good, a name stays with its
session until that is over or takes another, and the end of a session is told
once. The refinement mapping reads the life of a session off its watcher, the
holder of a name off `nameIndex` and the telling off the hook calls.

**`SessionPersistence`** (`node.go`, `PersistMeta`, `NewSessionManager`,
`RefreshStatuses`). Every table action appears once, with its signal
(`LaunchSession`, which is the insertion, and `SignallingStep`) or without
(`SilentStep`). A write truncates the file (`PersistBegin`), then completes
(`PersistEnd`) or fails (`PersistFails`). `Restart` is a stop at any point:
nothing is flushed, the new table is empty, and `nextID` is one more than the
largest ID of a file that parses. The file is a set of IDs; `stale` says for which
of them its entry is out of date. Two histories are kept: `durable`, the IDs that
a readable file has ever listed, and `forgotten`, those of them that a restart
from a torn file lost and that no file has listed since.

**`Messaging`** (`sendRequestWithMetadata`, `sendReplyWithMetadata`,
`CleanupRequest`, and their handlers on a node and on the peer server). `Announce`
appends and publishes the request in the recipient's log, `Mirror` in the
sender's, `Register` then enters it in `pendingRequests`. `Lookup` and
`TakePending` are the two critical sections of a reply, `RecordReply` and
`DeliverReply` what follows the delete. `GiveUp` is the timeout or a client that
went away, `PromptFails` a session whose prompt could not be written. Who replies
gives a session number or a token, and the node compares that alone: `Identities`
has the callers of other nodes, whose sessions may bear the same numbers, and
`MayReply` does not look at the node. `sound` are the sessions whose message log
could be opened and has taken every event: `LogAppend` may also find no log, or an
error that the code ignores.
**`ReplyCell`** is what this amounts to: a cell that is opened, then taken by one
entitled reply or closed.

**`SessionStream`** (`Broadcaster`, `StatusWatcher`, `handleAttachSession`,
`handleWatchSession`). `StatusWatcher.Changed()` is a generation number: a select
that holds an older one finds its channel closed.

**`WaitHandler`** (`handleWait`, `SubscriptionManager`). Subscribe, check, block,
and check again on an event. A wait may give an ID, a tag, both or neither. Its
check (`Satisfied`) takes the session of the ID or those of the tag, its
subscription (`Matches`) only events that match both. Kill sets a status and
publishes nothing; the waiter publishes after it has set the status.

**`KVStore`** (`kvstore.go`). A value is the number of its Set. A timer is armed,
stopped, fired (its goroutine runs and waits for the lock) or done.

**`RelayLink`** (`hub.go`, `node_handler.go`, `back_handler.go`, `agent.go`,
`ssh.go`). `HandlerReturns` unregisters by name, as the code does. `FindRoute` is
the lookup of `NodeHub.Send` under the read lock and `Post` its send, after the
handler of that channel may have returned. `WriteFails` is a failed write: the
loop ends and leaves a connection that is registered and "mute". A back connection
is dialled, refused, taken from the registry, parked in its channel, bridged or
closed; the timer of the session may fire at any of these points.

**`AccessEvents`** (`relay/access_events.go`, the revoke handler,
`client/access_events.go`, `access_cache.go`). `Publish` is the critical section of the
hub, each `Deliver` one non-blocking send after it. `Opened` is `Subscribe`.
`Take` stores the Last-Event-ID and `Apply` then removes the grant. `Cancelled`
closes the channel under publishers that have copied it; `SendOnClosed` is the
panic that follows, which ends the request. A replay is a set of numbered events,
taken in the order of their numbers, which is the order of the buffer. `missed` is
history: the grants whose event a full channel, a panic or a failed lookup lost
for a watcher, or had left the buffer when a stream began without an ID (the hub
sends such a stream no reset). A prune first asks about every grant of the file,
those of other networks included (`LookUp`), and then writes what is left
(`Prune`); `Kept` drops what is revoked and what the relay says it does not find
or may not show (`unknown`, which `Lapse` makes of grants that are not revoked).
`torn` are the files that a stop inside `os.WriteFile` left unreadable (`Writes`
says when one is written); a watch ends on each (`FileFails`).

**`Enrollment`** (`relay.go`, `enrollment.go`, `device_handlers.go`,
`membership.go`, `node_handler.go`, and the store's statements). A request is a
process whose steps are its calls of the store, each atomic. `Find` and `Spend`
are the look at an enrollment and the conditional update; `Issue` is the
enrollment that a join or a poll makes for itself; `Register` replaces the row of
a node. `Connect` and `Touch` are the read of a row when an agent signs on and its
write-back. `Fail` is a request that breaks off anywhere, `Expire` the expiry of a
token at any time.

**`PeerAuth`** (`networkauth`, `relay/network_auth.go`, `relay/groups.go`,
`node/node.go`). Time is that of the relay, the clock of the node is off by up to
`Skew`. `Issue` and `CreateIssuer` are the two halves of
`loadOrCreateIssuerState`, `SourceGroups` and `Sign` what follows for a
delegation. `Present` takes a bundle from the cache or fetches one,
`AuthorizePeerRuntime`, `AuthorizePeerSender` and `AuthorizePeerObserver` verify
with it, `Consume` is the replay cache, `Deliver` the check of groups, with or
without an answer of the relay. `NodeRestarts` empties both caches, which are in
memory; `life` counts the restarts. A message names its target by ID or by name,
and the target has its name or not (`named`, `Rename`): a delivery to an ID
without a name is let through before any group is looked at, and where the relay
gives no groups and the name leads nowhere there are none in the tags either
(`Tagged`).

**`TaskEvents`** (`node.go`, `relay/agent.go`, `node_handler.go`,
`nats_task_store.go`, `task_events.go`, `client/tasks.go`). `Take` and `Send` are
a forwarder, of which every connection has one and which ends with its first
failed write. `Publish` and `Put` are the two writes of `PublishNodeTaskReport`.
JetStream is external: a stream whose oldest entries may go (`Trim`). `Handle`
stores the cursor, `Out` puts the event into the watch's channel (32 events in the
code, `EventQueue` here), waiting while that is full, and `Show` prints what comes
out of it. A stop at any of these points loses what is `InHand`; one inside the
write of the cursor file leaves it unreadable.

**`LocalInstances`** (`local_cmd.go`, `lima_backend.go`, `firecracker_backend.go`,
`config/local_instances.go`). A command is a process: it reads the file
(`Begins`), works on the runtime (`Make...`, `Boot...`, `Halt`, `Delete`), and
writes back what it read with its own entry changed (`Truncate`, `Write`).
Firecracker saves read the file anew first (`Reload`). `RuntimeEnds` is a guest
that powers off, a container that exits or a host that reboots: the file goes on
naming the process. Numbers of processes are not used again in the model. `blame`
records, for the premises of the properties, which of the causes in `Settled` has
touched a name. `stale` in the record of a command is history too: the names whose
entries others have written since the command read the file. It is not the same as
a comparison of the values at the time of the save: an entry that is removed and
made again, or changed and changed back, may look as it did, and with three
commands a save that put it back would then be blamed on nobody.

What the models leave out inside these components: `MsgSend`, `MsgRead`,
`MsgListen` and `Subscribe` of clients (they append to or read logs), input and
resize, the event files, the SSH authentication at the relay link, grants accepted
while a watcher runs, verification of credentials by the relay for itself, key
rotation (which nothing calls), and what is put into a local runtime.

## 3. Runs

Bounds are constants of the module unless said otherwise. Every run explores every
reachable state, and between them every action fires.

| run | instance | shows |
|---|---|---|
| `session_table` | 2 clients, 1 name, 2 sessions, all launches in a group | `NameIndexSound`, `RunningNameResolves`, `ExitHookNotLost`, `CompletedIsRecorded`, refinement of `SessionDirectory` |
| `session_persistence` | 1 client, 1 name, 1 session between stops, 2 faults, refresh ticking | `DiskCatchesUp` |
| `session_ids` | 1 client, no names, 2 IDs, 2 faults, no refresh | `DurableIDNotReused` |
| `session_ids_promise` | 1 client, 1 name, 2 IDs, 2 faults | that `IDsSurviveRestarts` is violated |
| `messaging` | 2 sessions, 2 requests, 2 replies of any identity, 1 other node, 1 log with a hole | `OneReplyAccepted`, `AnswerByNumberOrToken`, `PendingHasWaiter`, `SentReplyReachesWaiter`, `SentReplyInLog`, refinement of `ReplyCell` |
| `services`, streams | 2 viewers of either kind, 2 chunks, 1 kill, channel of 1 | `NoOutputGap`, `AttachedCountExact` |
| `services`, wait | 1 wait, 3 sessions, channel of 1 | `BlockedHasEvent`, `WaitNotStuck` |
| `services`, KV | 2 namespaces, 2 keys, 3 sets | `ArmedTimerIsCurrent`, `StoredValueWillExpire`, `BucketIffKeys`, `TTLExpires` |
| `services`, relay link | 2 connections of a node, 2 SSH sessions, channel of 1 | `HandOverIsSafe`, `WaitsAreLive`, `AcceptedNotLost`, `SessionSettles` |
| `wait_promise` | 1 wait, 2 sessions, channel of 1 | that `WaitEndsWithTarget` is violated |
| `access_events` | 2 watchers, 4 grants in 2 networks (3 revoked, 1 that may lapse), buffer 1, channel 1, 2 faults | `RevocationNotLost`, `SentOnce`, `ValidGrantKept` |
| `enrollment` | 3 requests of any kind, 1 invite, 1 enrollment, 1 flow, 2 people, 2 node names, 1 use, 1 mishap | `UsesKept`, `NodeIsSponsored`, `LateClaimRefused` |
| `peer_auth` | 2 credentials, 2 uses, 1 group, a node clock behind or ahead, 3 instants, 1 change (of groups, of the target's name, or a restart) | `AcceptedOnce`, `RefusedForCause`, `StrangersRefused` |
| `local_instances` | 2 commands, 2 names of any of 4 backends, 1 port, 2 processes started, 1 fault | `RuntimeIsListed`, `ListedIsThere` |
| `task_events` | 2 sessions, 3 reports, queue of 1, 2 connections, 2 watches of one data directory with channels of 1, 1 fault | `NothingSkipped`, `OnceInOrder`, `LatestIsNewest`, `OneLossPerBreak` |

`services` is one run for four components that share no state. `MCServices`
chooses one of them in the initial state (`part`) and leaves the others as they
begin, so that its behaviours are those of the four specifications side by side.
The fairness of each part's own module is assumed of it; a part that stays as it
begins owes no step.

The two promise runs are expected to find a violation, and each does: the property
states what a comment in the code says, and the trace is what the code does
instead (`PROJECT.json`, "findings"). `IDsSurviveRestarts` is
`session.go:168-169`, written to "`sessions.json` so that session IDs survive
restarts": a stop in the middle of `os.WriteFile` leaves a file that does not
parse, the node starts from ID 1, and the next Launch has an ID that was listed.
`DurableIDNotReused`, in `session_ids`, says what remains true.
`WaitEndsWithTarget` is `handler.go:631`, `handleWait` "blocks until the target
session(s) complete or timeout": a wait for a session *and* a tag that the session
does not carry gets no event when that session ends after the check.
`WaitNotStuck` is about sessions whose events the wait gets.

The largest are `peer_auth` (6.7 million states), `access_events` (3.0),
`local_instances` (2.7), `task_events` (2.1), `messaging` (1.9) and `session_ids`
(1.6); each takes one to three and a half minutes with two workers, as does
`services` (0.4 million states, with three liveness properties). For every
property there is a mutated definition, next to the one it replaces, under which
TLC finds the property violated (`PROJECT.json`, "mutants").

Why these bounds. *Table*: the races are between two goroutines over a session and
a successor with its name, so two clients, two IDs and one contested name have
them all; a second name or client adds only what the proofs cover. *Persistence*:
the second fault is needed for a stop during the write that follows a failed or
interrupted one. For the file to catch up one session suffices, because it is
written whole; for its IDs there must be a launch after a restart from a file that
lists one, hence two IDs, and `session_ids` leaves out names and the refresh,
which do not touch them. *Messaging*: two replies to one request, and two requests
so that a token or an ID of the one is tried on the other. One number occurs at
two nodes, and one log may miss an event. *Stream*: a channel of one overflows
with two chunks, and two viewers make the count more than a flag. *Wait*: "all"
and "any" differ with two sessions, a third makes the channel of one overflow.
*KV*: a value, its replacement, and the replacement's. *Relay link*: a connection
and its successor, and a second session to fill the channel. *Events*: a buffer of
one drops an event with the second revocation; the two foreign grants move the
numbers on without being sent, which leaves an unrevoked grant to be pruned
wrongly, and one of them may lapse. Two faults put a stop or a torn file after a
break. *Enrollment*: two requests contend for the last use of a token, a third
changes the row or the members under them; tokens of earlier requests are there at
the beginning, so three requests need not be spent on making them. One mishap is
an expiry or a request that breaks off between two calls. *Authorization*: a
replay needs two uses, two first keys need two credentials, and with a TTL of one,
three instants reach from the signature to beyond the allowance. One group and one
change are enough for membership, tags and policy to disagree between signature
and use. `MCInit` lets one thing at most be unusual at the beginning (the clock
behind, the target unnamed, the group open) and fixes the membership in those
cases; the change reaches the combinations, and the proofs cover them all. *Task
events*: a forwarder and its successor, two handlers at the relay, and two watches
that share a cursor; the third report overflows the queue or is the one that a
confusion of the first two would lose. A channel of one holds an event while the
next is in the callback's hand. *Local instances*: two commands race over the file
with a second name for the entry that is overwritten, or over one runtime; every
pair of backends occurs, and runtimes end at any time.

The numbers in the code (4096, 256, 64, 16, 10 s, 500 ms) are sizes at which the
same steps happen later; timers may fire at any time in the models.

`CHECK_DEADLOCK FALSE` stands in every configuration because every bound on
launches, requests, chunks or connections lets a run end. What may not hang is
stated as a liveness property instead.

Symmetry is used where no property is a liveness property: `SessionDirectory` and
`ReplyCell`, which `session_table` and `messaging` are checked against, are safety
specifications and treat clients, names and replies alike. `services` uses none.

### Fairness

Safety needs none. The liveness properties assume what the Go scheduler gives:

- `SessionPersistence`: the ticker loop and the persistence manager go on. Nothing
  is assumed of clients or processes: the property is conditional on their having
  come to rest.
- `WaitHandler`: goroutines run; processes need not exit and the timer (24 h by
  default) need not fire.
- `KVStore`: armed timers fire, and their goroutines get the mutex.
- `RelayLink`: goroutines run, the 10 s timer fires, and a connection that its
  agent has left is noticed in the end. No client need come (`Expect` is not
  fair), and nobody need close a bridge.

The other modules state safety only. What liveness one would wish for there does
not hold of the code, or depends on people: a viewer may hang (see below), a
report may be dropped, a device flow waits for its user.

### Behaviour worth knowing

These are in the models' states; a property's premise allows them, or none speaks
of them. They are what a reader of the properties should not expect.

*Sessions.*

- `handleClient` names a session after Launch has returned (`handler.go:62`). A
  process that has ended by then leaves its name in `nameIndex` for good, since
  its waiter released nothing, and later launches with the name fail. A test
  expects a name to be free after exit (`session_name_test.go:300`), for sessions
  that were named in time.
- Both streaming handlers evaluate `Status.Changed()` anew in each select
  (`handler.go:476`, `:612`). A status set between two selects has closed the
  channel before it was asked for, so the stream does not end; a watch that begins
  after the exit never ends by itself.
- A session launched less than 500 ms before a stop of the node is not in
  `sessions.json`, and its ID is given out again. A signal restarts the debounce
  timer, so a busy node may put the write off. A stop inside the write leaves an
  unreadable file, and the node starts from ID 1: IDs that a readable file had
  listed are given out again (`session_ids_promise`). `DurableIDNotReused` excepts
  those that were lost so and have not been listed since, and no others.
- Kill signals the PID stored at Launch, also after the process was reaped
  (`session.go:1158`), and overwrites a "completed" watcher with "killed".
- The exit hook goes by name. One that runs late removes the membership of a new
  holder of that name.
- A reply that comes between publication and registration of its request is
  refused (`session.go:613`), and the requester runs into its timeout. A reply is
  recorded in one log, that of the session it was given for, although the comment
  above it says both (`session.go:627-628`); a reply from another node in none. A
  log that could not be opened, or an append that fails, is passed over
  (`session.go:703`): the replier is told that its reply was sent all the same.
- A reply is taken from whoever gives the number of the session that was asked
  (`session.go:653-668`). A session of another node with that number, whose node
  may call this one, answers for it; `AnswerByNumberOrToken` promises no more.
- A session that was killed counts as over for `cw wait`, but nothing wakes a wait
  until the process has exited, which is why `WaitNotStuck` is about exits. A wait
  by ID and tag may sleep until its timer although its session has ended
  (`wait_promise`).
- The timer goroutine of a value that `Set` replaces at the moment it expires
  deletes the new value (`kvstore.go:50`); `Stop` has no effect by then.

*Relay.*

- The handler of an old connection removes the hub entry of the new one
  (`node_handler.go:54`): the node is connected, and unreachable until it
  reconnects; `Send` refuses. A message that was posted to the channel of a
  handler that had returned by then, or whose write fails, is lost, and its
  session runs into the 10 s timer. `AcceptedNotLost` is about connections that
  are up at both ends and whose writes succeed.
- A back-connection that was taken from the registry just as its session timed out
  stays in a channel that nobody reads (`back_handler.go:94`).
- Two publishers number their revocations in one order and send them in the other;
  the watcher stores the higher ID, its stream breaks, and the lower event is not
  replayed (`access_events.go:76`), so that the grant stays in the client's cache
  until it is used, pruned or expires. A watcher that is stopped between storing
  an ID and removing the grant (`client/access_events.go:55`) never removes it; a
  relay that restarts numbers from 1 and sends no reset; a subscriber that is
  copied and then cancelled makes the revoke request panic after the revocation is
  stored. `RevocationNotLost` states what remains true.
- A prune removes grants that are not revoked when the relay answers "access grant
  not found" or "membership required" (`access_cache.go:278-287`), those of other
  networks too. A stop inside the write of the grants' file loses all of them, and
  every later watch fails on it until the file is removed. `ValidGrantKept` is
  about grants that the relay knows, in a file that is whole.
- Two people who claim a new network at the same time both become its owner: the
  count and the insertion are two statements. `LateClaimRefused` is about claims
  that begin when there is a member.
- Two polls of one device flow may both find it incomplete; the provider lets one
  of them exchange the code. Redemptions for one name replace each other's token,
  and the earlier node can no longer sign on.
- A node that is revoked while its agent signs on is written back, with its old
  token; and a revocation does not close a connection that is up.
- The first two credentials of a network, issued at once, make two keys; what was
  signed with the one that is overwritten does not verify, and a bundle with it is
  kept in a node's cache until it expires (`RefusedForCause` excepts this:
  `raced`).
- A node that restarts has forgotten which credentials it has accepted
  (`node.go:66-67`) and accepts each once more while it is valid; `AcceptedOnce`
  is about one life of the node.
- A credential may be accepted again at its expiry plus 30 s or later: at that
  very instant, since one comparison is strict and the other is not, or by a use
  that was verified before and consumed after. Observer grants are not consumed at
  all, and a node does not ask whether one was revoked. No code adds a revoked key
  (`RevokedKeyAdd` has no caller).
- Groups in a delegation are those of its signature. Where the relay does not
  answer, the tags of the target decide, so that a session that is in groups
  without a tag of them is open; a reply is let through whatever the groups are.
- A message to the ID of a session that has no name (not yet, or not any more) is
  let through without a look at groups (`node.go:615-617`), and so is one to a
  name that leads nowhere by the time the relay has failed to answer
  (`node.go:788-791`). `StrangersRefused` is about targets that have their name.

*Task reports and local instances.*

- A report is dropped when the agent's channel is full, by the forwarder of a
  connection that has failed, or with what was under way on it. A latest value may
  be stale until the session's next report after two handlers of one agent had
  reports of a session at once, or a write failed.
- All watches of a network share a cursor. A second watch with another filter
  moves it past events that the first has not asked for, or sets it back; the
  number of a reset event is stored as if it had been printed. The cursor is
  stored before an event enters the channel of 32 that the printing loop reads
  (`cmd/cw/tasks.go:97`), so that a stop loses up to 33 events that no later watch
  asks for. A stop inside the write of the cursor file makes every later watch
  fail until the file is removed.
- Two `cw local` commands on different names may lose each other's entry: each
  writes back the file it read when it began. One that is interrupted inside the
  write loses all entries, and one that reads then sees none. A create whose save
  fails leaves a runtime that runs and is not listed (`local_cmd.go:246`).
- A runtime that ended by itself stays listed with the PID it had. `ListedIsThere`
  says that no *other* process runs for the entry, not that one does; that the
  system gives the PID to somebody else's process is outside the model.
- A create of a Lima VM that fails because another create has made it deletes it.
  A start of a Firecracker VM that runs already starts a second process on its
  disk; the first is not in the file any more and a later stop does not find it.

## 4. Proofs

Every modelled component has proofs, in modules `...Proofs` that extend the
components'; three of them hold the proofs of related components, whose
definitions have names of their own for that reason (`WaitSpec`, `KVSpec`,
`AccessSpec`, `TableSpec`). They hold for all values of the constants that satisfy
the named assumptions of the modules, which say only that "none" values are not
members, that the kinds of a token's origin are disjoint, that capacities are at
least one, that bounds and times are naturals, and that a node's clock is off by
no more than the allowance. In particular bounds such as `MaxID` or `MaxFaults`
are any natural number. Sets are assumed finite only where a property counts their
members: `Viewers` of `SessionStream`, `Requests` of `Enrollment`, `Names` of
`LocalInstances` (whose running VMs have as many processes to begin with).

| module | theorems | inductive invariant |
|---|---|---|
| `SessionProofs` | `TypeCorrect`, `NameIndexIsSound`, `RunningNamesResolve`, `ExitHookAtMostOnce`, `ExitHookIsNotLost`, `CompletedAreRecorded`, `RefinesSessionDirectory` | `TableInv` |
| | `DurableIDsNotReused`, `TableSafeAcrossRestarts` | `PersistInv` |
| `MessagingProofs` | `AtMostOneReply`, `AnsweredByNumberOrToken`, `NoPendingLeak`, `SentReplyArrives`, `SentReplyRecorded`, `RefinesReplyCell` | `MsgInv` |
| `NodeProofs` | `NoOutputIsMissed`, `CountsAreExact` | `StreamInv` |
| | `BlockedWaitsWake` | `WaitInv` |
| | `KVTypeCorrect`, `NoStaleArmedTimer`, `ExpiryIsReal`, `NamespacesAreFreed` | `KVInv` |
| `RelayProofs` | `TypeCorrect`, `HandOversAreSafe`, `RegistryDoesNotLeak`, `AcceptedMessagesAreKept` | `RelayInv` |
| | `AccessTypeCorrect`, `RevocationsAreNotLost`, `EventsAreSentOnce`, `ValidGrantsAreKept` | `AccessInv` |
| `LocalProofs` | `RuntimesAreListed`, `ListedRuntimesAreThere` | `LocalInv` |
| `EnrollmentProofs` | `UsesAreKept`, `NodesAreSponsored`, `LateClaimsAreRefused` | `EnrollInv` |
| `PeerAuthProofs` | `CredentialsAreAcceptedOnce`, `RefusalsHaveACause`, `StrangersAreRefused` | `AuthInv` |
| `TaskEventsProofs` | `NothingIsSkipped`, `PrintsOnceInOrder`, `LatestIsTheNewest`, `OneReportPerBreak` | `SkipInv`, `OrderInv`, `NewestInv`, `LossInv` |

Each follows one argument: the initial states satisfy the invariant, each action
preserves it (one lemma per action or group of actions), the step lemmas give
`Spec => []Inv`, and each property follows.

*`TableInv`.* That a name resolves to its running session is not inductive alone:
a SetName must know that its session has no name yet and that no second SetName
works on it (`Naming`), that a fresh ID leaves no trace (`FreshIDs`), that an ID
which is drawn and not yet inserted belongs to one launch (`Launching`), and that
whoever releases a name works on a session that has left "running" (`Killing`,
`Waiting`: no step sets a watcher back to running). `ExitHookOnce` needs that the
callers and the calls of a hook together are at most one and that they imply
`exitHookSent` (`Claims`). `ExitHookNotLost` is the other half: a marked hook has
been called or is claimed, and a waiter past the claim has found or set the mark
(`HookKept`). `RefinesSessionDirectory` goes through the sections: a watcher that
is set is an `End` or, if the session was over, a stutter; a release is a `Free`
or a stutter, since who releases works on a session that is over; a hook call is
the only `Tell`, by `Claims`; a SetName that finds the name free or its own is a
`Take`; a BeginLaunch draws a number above all others (`FreshIDs`), and an
insertion launches a drawn one, by `Launching` once. `ExitHookOnce` is no property
of the run because the directory's `Tell` contains it; it is a theorem.

*`PersistInv`.* What a restart reads must lie above every ID that was ever listed,
so the invariant follows the largest of them, not the set: the table, the list
that is being written and a file that parses each reach as high as what is
`durable` and not `forgotten` (`ListsReach`), and the counter is above it
(`CounterAhead`). A restart may lose IDs, and a file without any would set the
counter back; `SomethingToSave` says that no write is under way while the table is
empty. `DurableIDNotReused` is a property of steps: a session is inserted under
the ID its launch has drawn, which may be long ago, and no file lists such an ID
(`LaunchAhead`). The steps that only persistence has (a refresh that stores a
stale `Meta.Status`, a restart) keep `TableInv`, so the guarantees of the table
hold there too.

*`MsgInv`.* Two replies may pass the first look, so at-most-one rests on the
second: an accepted reply's entry is gone (`Claims`), an entry exists only while
its requester waits (`PendingHasWaiter`) and a request is registered once, so it
does not come back. `Channels` and `Recorded` follow a reply through its channel
and log; the request is in that log before it can be answered (`RequestsLogged`),
as far as the log is sound, and an unsound log does not become sound again.
`RefinesReplyCell` maps an entry to an open cell and its accepted replies to the
takers: `Register` is `Open`, `TakePending` is `Take`, the clean-ups are `Close`,
`BeginReply` is `Arrive`, and everything else stutters. The mapping needs the
invariant, since a taken cell must never be seen as closed or open again.

*`StreamInv`.* `NoOutputGap` follows each chunk through log, channel and drop and
is inductive once a channel is known to hold no more than its capacity. The count
of attached clients is the cardinality of a set of handlers; that a detach takes
one away needs that only an attach detaches (`DetachIsOfAttach`).

*`WaitInv`.* `BlockedHasEvent` is inductive with two facts: a wait checks and
sleeps under a subscription (`SubscribedWaits`), so that whatever is announced
after the check is counted in its channel, and the status of a session is over
before it is announced (`ExitedIsOver`), so that what was announced before the
check is seen by it. An event that is dropped finds a full channel, and a full
channel holds one.

*`KVInv`.* `UnusedIsFresh` says that a Set that has not happened has no timer and
no key. With it the timer of a value and its key move together through Set, Delete
and expiry.

*`RelayInv`.* `EntryIsFresh`: while an ID is in the registry, or its session has
not begun, its channel is empty and no handler has taken it. So a hand-over, which
happens after the take, meets an empty and open channel whatever the timer does.
`AcceptedNotLost` is kept by every step but for one thing: a message lost on a
connection that its agent has left must not look accepted on one that is up.
`RouteWasDialled` says that the connections the hub or a `FindRoute` leads to have
been registered, and those are not dialled or registered again.

*`AccessInv`.* The buffer is in the order of its numbers and holds the newest
events (`Buffer`): a published grant is in it or older than all of it. At the
moment a stream begins, every later event is therefore replayed, or announced by a
reset, or still unpublished, in which case its publisher will find the
subscription; and an event that is replayed was copied for nobody who comes later.
From there the two properties follow each event from publisher to channel to
watcher. A stream carries its own network's events under their own numbers
(`StreamOK`), and a watcher that is offline is in no publisher's list. `CacheOK`:
what a prune is about to write has, unless the file is torn, every grant in it
that is neither revoked nor unknown.

*`LocalInv`.* Commands on one name interleave, so the file and the runtime agree
only up to who is at work. `Effective` is the entry of a name while a save has
emptied the file. `Saving` are the commands that will write the name's entry,
`Changing` those among them that will write something else than what is there. If
nothing has gone wrong with the name and none of them is bound to be blamed when
it saves (`Doomed`: it has read an entry that is gone, or two of them change it),
then the runtime fits the entry that the one `Changing` command will write, or the
present one (`Agrees`), whether its process has ended or not (`AgreesWhenEnded`).
A create that has made a runtime and not yet booted it is its `Owner`: there is
one at most, and only where there is no entry, so what it cleans up is its own.
`Pids` says that no two names ever mention the same process; without it, a `stop`
could end another name's VM. The invariant was first checked by TLC on three and
four commands, which showed that the history had to be `stale` (section 2).

*`EnrollInv`.* The account of a token is `Ledger`: what was spent and what is left
are together no more than it was made for. It is not inductive alone, since a
request might make a token under a name that has been spent before; `Unissued`
requests are therefore `Blank`. For `NodeIsSponsored` the invariant carries what a
request has read from call to call (`Stage`): the invite it spent, the flow it
polled, the enrollment whose name it checked. What it has read must stay true
while others step, which `Extends(r)` says once for all actions: requests keep
what they are, members stay members, names of tokens do not change.

*`AuthInv`.* A credential accepted in the present life of the node is in the
replay cache or its time is over (`Remembered`), which makes the second acceptance
impossible before. A refusal has a cause because there is one key unless two
requests raced for the first (`OneKey`), the node's clock is behind by the
allowance at most (`DriftBound`), and nothing is presented before it was signed.
`GroupsKnown`: the groups in a credential are groups the sender has been in, and
being in more groups never shuts anybody out (`MoreGroups`).

*Task events* have four invariants that do not depend on each other but for the
types. `SkipInv`: where a watch stands, all events behind it are printed, in its
channel, in its callback's hand or accounted for, and so are those behind the
cursor, which only ever takes the place of a watch; a watch that ends moves what
it has in hand to the account. `OrderInv`: what was printed is ascending and
behind what is in the channel, which is ascending too; all of it is behind the
event in hand or the place of the watch, and behind the cursor (`Behind`).
`NewestInv`: a session with which nothing went wrong has one handler at work at
most, with the newest event of the session in hand. `LossInv` counts the losses
against the forwarders that have ended.

What TLC alone shows: the liveness properties `DiskCatchesUp`, `WaitNotStuck`,
`TTLExpires` and `SessionSettles` (TLAPS has no proof rules for fairness and
ENABLED that would serve here). Every invariant and every step property of the
runs, and the refinements of `SessionDirectory` and `ReplyCell`, are proved; the
two promises that the code breaks are of course not.

## 5. Plan

Written so far: `SessionTable` with `SessionDirectory`, `SessionPersistence`,
`Messaging` with `ReplyCell`, `SessionStream`, `WaitHandler`, `KVStore`,
`RelayLink`, `AccessEvents`, `Enrollment`, `PeerAuth`, `TaskEvents`,
`LocalInstances`.

Left, each with the reason why it comes after these:

1. The reader, the waiter and `captureResult` over one log (the last output, the
   status and the result come in an order that nothing fixes), to be composed from
   `SessionTable` and `SessionStream`. The input channel with its writer is part
   of it; alone it is a queue that drops when full.
2. Group changes at the relay under joins, renames, exits and late hooks: the
   state is in `SessionTable` and `PeerAuth`; what is missing is a promise of the
   code that could be stated.
3. Clients of the access events that accept grants while they watch, and expiry;
   the set-up of a relay by its admin (`setup.go`), a token that is redeemed once.
4. `DetachDetector`, an automaton of the terminal, against a reference over all
   short inputs; `DemoPool`, claims and refill of the demo's pods. Both are small
   and apart from the rest.

Abstract specification still to state: a durable counter, whose numbers are handed
out in order and not again once they are on disk, for `SessionPersistence`.

Proofs next: its refinement, from `PersistInv`, and the type invariants of
`Messaging`, `SessionStream` and `PeerAuth` as theorems of their own.
