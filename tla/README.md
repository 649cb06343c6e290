# Verification of the EV charging status service

TLA+ models of the concurrent and stateful parts of the service, the TLC
configurations that check them on small instances, and TLAPS proofs of the
properties that matter most for every instance. The code is the reference: each
definition was translated from the lines `PROJECT.json` names for it ("map").

To check a model: `tlc -config HubSafety.cfg MCWSHub`. To check proofs:
`tlapm WSHubProofs.tla`.

## Inventory

| Part | State | Operations | Hard behaviour | What makes it correct |
|---|---|---|---|---|
| **WebSocket hub and pumps** `api/ws_hub.go`, `api/ws_handler.go` | map user → clients, counters, a channel of 32 frames per connection, its socket | Register, Unregister, PublishToUser, CloseUserConnections; readPump, writePump | sends happen after the lock is released; two pumps, closes by others, backpressure | map, counters and channels agree; frames only reach their user, in order, once; slow clients hold up nobody; dead connections leave |
| **Session, JWT, configuration** `service/ws_auth_service.go`, `api/config_handler.go`, `api/ws_handler.go`, `service/config_service.go`, `repository/*` | rows of users (ws_last_activity_at) and third_party_credentials, JWTs without expiry, lastAppActivity of a connection | POST/DELETE /v1/config, GET /v1/ws/token, GET /v1/ws, ValidateToken, touches, idle check | every handler is several statements that interleave; a user deleted and configured again | an accepted token is live; deletions are final; no row is left behind; idle connections close |
| **Status subscriber of a user** `service/csms_status_subscriber.go`, `service/ws_station_publisher.go` | prevInventory, live, fingerprint cache, STOMP session | runUserLoop, pollInventoryDuringSession, STOMP callback, OnWebSocketConnected | loop, polls of several sessions and callback share two variables; two sources of the client's list | baseline and list agree; one poll; the inventory is followed; the client sees what changes |
| **Reconciliation of users** `csms_status_subscriber.go` Run | map user → cancel | reconcile at the start and each 45 s | acts on a list of users read earlier; a cancelled loop ends later | one loop per configured user, which Run can cancel; in the end none for a deleted one |
| **STOMP/SockJS client** `clients/csmsstomp` | a connection, its deadlines, a heartbeat | RunConsumer | open handshake, errors that are only logged, rotation | events are handled once, in order; a cancelled session ends and leaves no goroutine |
| **Station list and provider token** `service/station_service.go`, `clients/intelbras` | access token and expiry in the credentials row; limiter of GET /chargepoints | GetStationsByUserID, accessTokenForCreds, Login with retries | two refreshes at once; a refresh racing a configuration or a deletion; tokens that could not be stored | a refresh undoes no configuration; the row gets a token of its own credentials in the end; logins end |
| **Migrations** `database/migrate.go`, `migrations/*.sql` | schema, schema_migrations | baseline of 001–004, files in order, one transaction each | crashes, two processes | who serves has the whole schema; no file applied twice |
| **Rate limit** `api/ratelimit.go` | map IP → limiter, last use | the middleware, a janitor each 2 min | the limiter is used after the mutex; entries are forgotten | one token bucket per IP |
| **Connector status store** `service/connector_status.go` | map of statuses | Get, Set, comparison | keys missing on one side; stored after the publication | equality of maps; the store is what the client was told |
| Payload JSON, upstream errors, routes, health, Swagger, configuration, encryption, PostgreSQL/Redis connections, Kafka producer and worker, scripts | none, or never called | – | – | – |

How they interact. The handlers of the session part call the hub (register,
publish the empty list, close). The loop of a user fetches stations (which may
refresh the provider's token), opens a STOMP session and publishes to the hub; it
asks the hub whether the user has a connection. A new connection starts a
goroutine that fetches and publishes a snapshot and stores its statuses. Configuring a user inserts the
credentials that make Run start a loop, deleting them makes it cancel it. `main`
runs the migrations before it serves.

## Modules

| Module | Models | State and steps |
|---|---|---|
| `WSHub` | hub and pumps | The variables are the fields of the hub and of `wsClient` (`closed` is the state of the Go channel) and the program counter of each goroutine. A critical section, a channel operation or a socket call is one action (a close frame and the Close after it are one), so the send of PublishToUser races with everything between the copy of the targets and the send. The counters are critical sections of their own: `at` says where a publisher is between the select and the counter it raises (`tried` for which connection), `hand` is the frame writePump has taken from the channel and is writing, and a writePump that has "failed" has not counted the error yet. `alive` is FALSE after a panic that no `Recovery` catches. Implements `Mailboxes` (`IsMailboxes`). |
| `Mailboxes` | what the hub promises a connection | `owed` (published for the connection, not accepted yet), `mail` (accepted), `got` (delivered), and whether the box is open, leaving (accepts nothing more) or over. A publication is owed to every open box of its user at once. In `WSHub` a box is open while the channel, the socket and writePump are; a closed channel that writePump still drains is leaving; a box whose socket is closed or whose writePump ends is over, whatever its channel still holds. |
| `WSSession` | session, JWT, configuration | The rows of *one* username, whose userIds are new at each insertion, and the goroutine of each HTTP request (configuration, token, handshake, deletion, list of stations). One SQL statement is one action. A time stamp is its age, capped one tick above the idle timeout. The hub appears as its two operations Register and CloseUserConnections. |
| `UserRows` | what the database promises of a userId | unused, inserted, configured, deleted: the statements of the repositories that change a user, as the parts that only read users see them. |
| `UserLife` | what the JWTs promise | Extends `UserRows` with the userIds a token was issued for, those with a fresh activity, and whom each accepted request acts for. `WSSession` implements it (`IsUserLife`). |
| `Reconcile` | Run and reconcile over several users | `runs` is the map of cancel functions; `owner` and `over` are the goroutines of the loops. The query and its use are two steps, the critical section one; users come and go as in `UserRows`. |
| `StationList` | the lists of stations | Operators only: flattening of the provider's answer, inventory and its comparison, what an event changes in a list, the map of connector statuses and its comparison. |
| `StatusFeed` | loop, polls and event handler of one user | `prev`, `live` and `cache` are the loop's variables; `stock` is the list the provider would answer. Lists are sequences of stations with their connectors, as in the code. A fetch is two steps (answer and use); a critical section under `invMu` is one, and the publication after it another. The STOMP session appears as the stream of `EventStream`, which `StompSession` implements. |
| `UserFeed` | what the client of that user sees | Extends `StatusFeed`: each of its steps that publishes, the copy it publishes, the snapshot of a new connection and the stored statuses. The hub appears as `view`, the last list queued for the connection. `IsMailboxes` of `WSHub` justifies it: a publication that finds the connection is accepted in one step (`Accept`), after the earlier ones of its goroutine, and one that does not find it is lost at the moment the targets are copied. |
| `EventStream` | what a STOMP session promises | Subscriptions, the set of events in flight (an event is the number of its sending), events handled, the end. |
| `StompSession` | RunConsumer, its watchdog and its heartbeat | One step of the handshake, one write (begin and end), one SockJS message read or one STOMP frame processed per action; the deferred calls are one action. Implements `EventStream`: the events of the frames being processed and of the messages not read are those in flight. |
| `Credentials` | accessTokenForCreds, Login, UpdateToken, the list and the second read of the loop; Configure and the deletion meanwhile | The row of one user and its token, with what is left until the expiry that is stored with it; goroutines that list stations, each POST /v1/config. One statement, one answer of the provider or one call is one action. A row that is deleted and inserted again has another id, as the user has another userId. |
| `Migrations` | RunMigrations | One statement outside a transaction or one transaction per action, by several processes that crash and restart. The schema is reduced to what the five files change. |
| `TokenBucket` | what the rate limit promises | One bucket per IP, never forgotten. |
| `RateLimit` | the middleware and its janitor | Lookup under the mutex, Allow after it, Janitor, clock. Refines `TokenBucket`: the bucket of an IP without an entry is full. |
| `MCWSHub`, `MCWSSession`, `MCReconcile`, `MCStatusFeed`, `MCUserFeed`, `MCStompSession`, `MCCredentials`, `MCMigrations`, `MCRateLimit` | instances for TLC | |
| `WSHubProofs`, `SessionProofs`, `ReconcileProofs`, `FeedProofs`, `RateLimitProofs`, `CredentialsProofs`, `MigrationsProofs`, `StompProofs` | proofs | |

Definitions marked "faulty variant" or "mutant" are plausible bugs: each property
of a passing run is violated when the named definition is replaced by its variant,
which shows that the property depends on the code.

## Runs

| Run | Question and answer | Bounds and why they are enough |
|---|---|---|
| `HubSafety` | Do map, counter and channels agree in every interleaving; do frames come in order and once; does the hub implement `Mailboxes`: does a connection that is served get each publication for its user, and none for another? Yes. | Two connections (one may die while the other lives) of one user, one publisher for two users, two publications, a channel of two frames (order needs two). The connections are alike (`Twins`), and no property of the run names one. A full channel is in `HubLiveness`; the proofs, that of `IsMailboxes` among them, cover all sizes. |
| `HubLiveness` | Do dead connections leave, is every frame delivered or its connection dropped; do the counters that Stats reports say what became of the frames; can a publisher always go on, and does its call return? Yes: at any moment the frames in the channels, in the hands of the writePumps and written are those counted as sent, less counted write errors, up to one frame for each publisher and one for each writePump that has not counted yet. | Two publishers and a channel of one frame: the publication of one fills it and that of the other overflows it, or is queued while the first is in hand and neither is counted. One connection: connections meet only through the map and through closes, which `HubSafety` interleaves. |
| `HubCrash` | Can the process panic? **Yes**, see below. | One of each. |
| `Feed` | Do baseline and list agree, is there one active poll, is the inventory followed, does a stopped loop end? Yes. | Two stations, hence all four inventories in the order of the answer; one has a connector that reports, once or again, the other has none, so that an event may meet a list without its station. Two poll goroutines: that of the session and one of an ended session. One event on the wire: the handler takes one at a time, and the order of several is `Stomp`'s. |
| `FeedClient` | Does the client see each status in the end, if sessions open again and again? **No**, see below. | One station, two statuses, one poll, one snapshot at a time. |
| `Reconcile` | Has each configured user one loop, which Run can cancel; do the others end; does a stale list harm nobody? Yes. | Three users, so that one round starts, cancels and keeps a loop; four goroutines, one more than users, for a loop that was cancelled and has not ended. |
| `SessionSafety` | Are requests accepted, and tokens issued, as if at one moment; are deletions final; is nothing left behind? Yes: the handlers implement `UserLife`. | Two configurations, a token request, a deletion and a connection of one username: a second life of the user while requests of the first are in flight. Two userIds, idle timeout of one tick (fresh, stale and never). |
| `SessionIdle` | Is an idle connection closed? Yes. | Two connections of a session: one may be busy while the other is idle. A list of stations that clears a stale session meanwhile. |
| `Tokens` | Does a refresh leave configurations alone, do logins end, does the list come back; does the row get a token of its own credentials in the end, after a late refresh stored one of older credentials beside them, and although tokens fail to be stored? Yes. | Two goroutines (a refresh that is overtaken by another) and two configurations around a deletion. Two attempts (a first and a last; the code has three). The provider gives a token an expiry of 0 to 2 ticks, and it is renewed with less than 1 left: a token that is renewed at once, the next time, or not yet. |
| `Stomp` | Is there one writer, does a cancelled session return, do its goroutines end, is it the stream of `EventStream`? Yes. | Two subscriptions (a first and a last), three events alone or two in a message, two messages not read. |
| `Migrate` | Is a serving process on the whole schema, are files recorded in order with their effect, does a process that is started again serve in the end? Yes, unless a baseline was cut short and the database stays `Stuck` (each baseline is, for the moment between two of its marks). | Two processes, two crashes; a new database and databases on which 4 or 5 files were applied by hand. With fewer files applied by hand the baseline records what was never applied; the code excludes such databases by its comment ("bancos já criados à mão" with 001–004), and `MigrationsAssumption` with it. |
| `Limit` | Do map and janitor implement one bucket per IP, and is the rate of an IP bounded? Yes. | Two IPs, two requests in flight, burst 2, 2 ticks per token, expiry = time of a refill (the tightest `LimitAssumption` allows; the code has 300 s against 40 s), windows of 8 ticks: forget, come back, spend. |

Deadlock is checked where the system never stops (`Feed`, `FeedClient`, `Limit`);
elsewhere the bounds on requests, users, publications or processes end every
behaviour, or (`Stomp`) the session does.

### Fairness

- Goroutines: weak fairness of each goroutine's steps (`PumpFairness`,
  `PublisherFairness`, `FairFeedSpec` of `StatusFeed`, `FairSpec` of the others): the
  Go scheduler runs what can run, and no step waits for ever (writes have
  deadlines, the provider's client a timeout of 30 s, statements a context).
- No peer, client, publisher or provider has to act: `Register`, `PeerLost`,
  `IdleTimeout`, publications, traffic and changes of stations or users are never fair.
- `SessionEnds` is strongly fair: `sessionRotate` ends each session after 10 minutes
  (`ConsumerReturns` of `StompSession`), and then the next read fails however
  busy events keep the handler.
- `Reconcile`: the ticker fires every 45 s and the query does not fail for ever
  (`WF` of `ListUsers`: a round that fails changes nothing); a cancelled loop ends, which
  is `LoopStops` of `Feed`.
- `StompSession`: each goroutine goes on, except that a read or a write with a silent
  peer may last as long as the connection is open; the handshake has deadlines
  (45 s, 10 s), the watchdog's close frame 1 s.
- `Credentials`: fetchers and configurations go on; time is *not* fair, so that
  `LoginsEnd` and `ListsAgain` do not count on a token's expiry; nothing is assumed of the
  provider except where a property says so (`up`). `RenewalCatchesUp` states its own fairness:
  that time passes (`TimePasses`) and that the database, asked to store tokens again and
  again, does so in the end (`TokensAreStored`; `StoreFails` is the alternative).
- `WSSession`: the clock ticks for ever (`WF_vars(Tick)`).
- `Migrations`: a process that runs goes on. Nothing starts it again (docker-compose
  has no restart policy), so `EventuallyUp` is about a process that somebody
  starts again whenever it has ended; at most `MaxCrashes` crashes.
- `PublishersNeverWait` needs no fairness: it says the next step is enabled.

## Proofs

`WSHubProofs` (from `HubAssumption`: finitely many connections, each of one user):

- `TypeCorrect`, `HubAlwaysConsistent`: the inductive invariant is
  `HubInv == TypeOK /\ HubConsistent /\ CallsConsistent`. `HubConsistent` alone is
  not inductive: that a close touches only connections that were registered, and
  that a frame is a frame of its target's user, needs what a call in progress
  remembers. Each action has a lemma; the counter uses cardinalities of the
  set of registered connections.
- `UsersAreIsolated`, `FramesStayInOrder`: `FramesInv == Isolation /\
  TargetsAreFresh /\ InOrder`, on top of `HubInv`. Order is kept because the
  publication in progress is newer than all its target holds (`TargetsAreFresh`).
  The lemmas `FramesQueued`, `FramesTaken`, `FramesLost` say what the steps do to
  the sequence of all frames of a connection: received, in hand, queued.
- `ImplementsMailboxes`: every step of `WSHub` is a step of `Mailboxes` or a stutter. The mapping
  (`Box`, `Owed`) turns the targets that a publication has still to visit into what is owed, and
  forgets them for a connection that is no longer open. `MailInv` adds to `HubInv` that
  the two pumps start together (`PumpsStartTogether`): a writePump that ended before its readPump
  began would let a box that is over open again. `OpenAreClients` is the heart
  of a publication: the copy made under the lock holds every open connection of the user,
  and of the others only some that leave. `OwesAdvance` says that a call which has visited one
  target owes it nothing more, and all others the same. A frame
  sent to a connection whose box is over is a stutter, and so is all its remaining life.
- `CallsInProgress`, `CallsShrink`: the part of "a publisher never waits" that needs neither
  `ENABLED` nor fairness (`CallsReturn` is checked by `HubLiveness`). A call in progress always has a target left or a close to begin
  (`CallsGoOn`), and each step it takes brings `StepsLeft` down, so for n connections it
  returns after at most 3n of its own steps, that of DELETE after 6n + 1, whatever others do
  (`CallsReturn`). That nobody
  else moves it, and that a writePump starts no second call, is `CloserEnds`.
- `SentFramesAccounted`: `CountInv == MailInv /\ IsFiniteSet(KeptFrames) /\ IsFiniteSet(Sending)
  /\ SentAccounted`. A frame is queued before it is counted, and lost before its loss is, so the
  property speaks of the counters together with the publishers and writePumps that have not
  counted yet (`Accepted`, `Failed`). The frames kept are pairs of a connection and a place; a
  step changes the number of one connection by one at most, and `Accepted` or `Failed` with it
  (`FrameComes`, `FrameGoes`, `FramesGoOn`); taking a frame in hand and counting change neither.
  That a failed write loses one frame at most, and is counted, needs `MailInv`: a hand holds one
  frame, and a writePump starts once.

`RateLimitProofs` (from `LimitAssumption`: an entry expires only after the time of a
complete refill):

- `LimitTypeCorrect`, `ForgottenIsFull`, `WindowIsBounded`: the invariant is `LimitInv`,
  which adds to the properties `Account`: what an IP spent in the window and what
  it has left never exceed the burst and the refill. `WindowBound` alone says
  nothing about what is left.
- `ImplementsTokenBucket`: every step of `RateLimit` is a step of `TokenBucket` or a
  stutter; Lookup and Janitor leave the mapped bucket alone, because a forgotten
  limiter is full (`ExpiredIsFull`).

`CredentialsProofs` (from `CredentialsAssumption`: a fetcher is not a configuration, the
markers of no row and no token are no rows and tokens, at least one attempt; nothing of how
long tokens live or calls wait):

- `CredTypeCorrect`, `ConfigurationIsKept`, `TokenStaysInRow`: the invariant is
  `CredInv == TypeOK /\ FetcherInv /\ ConfigInv /\ RowInv`. The properties speak of the
  row alone and are not inductive: `UpdateToken` may arrive when the row it read was
  configured again or belongs to a later life of the user. `FetcherInv` says
  what a fetcher remembers of the row it read: its id is that of a configuration
  that is done, hence never of a later row, and as long as the row has that id
  the remembered credentials were saved in it. There is one lemma per step; those of
  a fetcher share `FetcherStep`.

`SessionProofs` (from `SessionAssumption`: each request has a handler, the marker of
no row is no userId, that of no time stamp no age):

- `SessionTypeCorrect`, `RowsStayConsistent`: the invariant is `SessionInv == TypeOK /\
  RowsConsistent /\ HolderInv`. `RowsConsistent` is not inductive: an issue or a touch
  may come when the row it was decided on is gone. `HolderInv` says what is
  left of that decision: whoever holds a token, or is about to be issued one, has
  credentials or was deleted since. With it a touch that finds the row finds its
  credentials too.
- `ImplementsUserLife`: every step of `WSSession` is a step of `UserLife` or a stutter.
  The moment of a request is its last query (`CheckActivityInv`): the activity is read
  together with the row, and the credentials, read before, cannot have left a row that
  is still there. Each action has one lemma, which shows both that it
  keeps `SessionInv` and what it is in the life of the userIds (`LifeStep`).

`ReconcileProofs` (from `ReconcileAssumption`: the markers are no userId and no goroutine):

- `ReconcileTypeCorrect`, `LoopsAreUnique`, `LoopsAreKept`: the invariant is `TypeOK /\
  OneLoopPerUser /\ ListInv`. `ListInv` says that whoever is in a list read earlier, or
  has a loop, is configured or was deleted since: hence a loop that a list lacks is of
  a deleted user.

`FeedProofs` (from `FeedAssumption`: the catalogue is a sequence of charge points, connectors
have natural numbers, the marker of no session is no poll goroutine):

- `PollsAreUnique`, `BaselineIsLive`: the invariant is `FeedInv == ControlInv /\ ListsInv
  /\ OnePoller /\ BaselineMatchesLive`. `ControlInv` says that a session exists exactly
  while the loop is in it; `ListsInv` that the lists held by the loop and by the polls are
  lists of stations. `AppliedKeeps` is the lemma on events: they change the status
  of a connector and never which stations a list has.
- `FeedTypes`: `TypeOK` is not inductive, for it bounds the inventories by the catalogue.
  `TypeInv` adds that every list held is made of stations of the catalogue (`ListTypes`), and
  that without a session nothing is subscribed to or on its way (`WireInv`); `FlattenType`,
  `AppliedType` and `ReportedType` say what the operators on lists return.
- `MapsEqualOverlooks`, `MapsEqualErrs`: what comparing the sizes of two maps and then one
  direction only finds, on all finite maps, with empty statuses or without. The comparison is
  wrong exactly when keys of the first map with an empty status gave way to as many others
  (`Overlooks`), it is right when the first map has no empty status, and it does err.
- `ClientFollowsFeed`: the steps of `UserFeed` are steps of `StatusFeed`, so all this
  holds with clients, snapshots and publications too.

`MigrationsProofs` (from `MigrationsAssumption`: a database made by hand has at least the
files 001 to 004, which the baseline takes for granted):

- `TypeCorrect`, `InOrder`, `Complete`: the invariant is `Inv == TypeOK /\ Prefix /\` for each
  process `Position` and `Baseline`. `RecordedInOrder` says nothing of a process between
  two statements and of the effects of 001 and 002. `Prefix` says that the files recorded
  are the first n and the tables are exactly those of n files (`SchemaAt`); `Position` that
  a process at a file has seen the earlier ones recorded, so that its insertion leaves no
  gap, also if another process was faster; `Baseline` that only databases made by hand are
  marked, and none of them gets 001 applied.

`StompProofs` (from `StompAssumption`: there is a station, the bounds are numbers):

- `TypeCorrect`, `WritesAlone`: `OneWriter` needs `Writers`, which says where main is when it
  writes, and that there is no heartbeat before its last write.
- `EventsInSequence`, `Implements`: the invariant is `Inv == TypeOK /\ Writers /\ Quiet /\
  Sequenced /\ InOrder`. `Sequenced` says that the events handled are the first ones and
  those in flight all others; it is not inductive, for it does not say which of them
  comes next. `InOrder` does: the events are in their order within the frames being
  processed, within each message and from one to the next. With both, the next frame holds
  the smallest event in flight, which is the one that `Handle` of `EventStream` takes.

Only model-checked: the liveness properties (they need fairness) and `PublishersNeverWait`
(`ENABLED`; `CallsInProgress` and `CallsShrink` prove what it rests on), which the prover does not
treat; and the two properties that are violated.
Every other property of a run is a theorem.

## Known disagreements

Properties stated from the documentation that the code does not have. The first two have a run
whose counterexample shows the schedule; the others are stated at the end of
their modules, and TLC refutes them when they replace the properties of the cfg that is named.
`FinalListSeen`, `NewsIsNotDropped` and `FreshSessionSurvives` are action properties, the
others invariants or temporal properties.

| Property | What happens | Stated by |
|---|---|---|
| `NoCrash` (`HubCrash`) | PublishToUser copies its targets and releases the lock; readPump unregisters one and closes its channel; the send panics and, on a goroutine of the subscriber or of a snapshot, ends the process. | README.md:152 |
| `StatusReachesClient` (`FeedClient`) | The snapshot is fetched, a status changes, the loop fetches (with the new status) and subscribes: no event tells the client, and no later session does, for fetches are compared by inventory only. Also a snapshot or a poll that overtakes a newer event, or an event lost with its session. | README.md:139 |
| `DeletedUserHasNoConnection` (`WSSession`, with `SessionSafety.cfg`) | A handshake passes ValidateToken, DELETE removes the user and closes its connections, the handshake registers. | config_handler.go:142 |
| `LegacyNotReplayed` (`Migrations`, with `Migrate.cfg`) | A crash between two statements of the baseline: the next start counts a row, skips the baseline and applies the files not marked; 002 then fails at each start on a database without webhook_events. | README.md:178 |
| `FinalListSeen` (`WSHub`, with `HubCrash.cfg`) | DELETE closes the socket while the empty list is still queued. | README.md:151 |
| `DeleteCloses` (`WSHub`, with `HubLiveness.cfg` and `Conns`, `UserOf` of `HubSafety.cfg`) | The final publication panics on a closed channel; Recovery answers, and CloseUserConnections never runs. | README.md:150 |
| `FinalIsLast` (`WSHub`, with `HubLiveness.cfg`) | A publication under way (event, poll, snapshot) is queued after the empty list of DELETE and before the close: the last list the client sees is not empty. | config_handler.go:182 |
| `NewsIsNotDropped` (`StatusFeed`, with `Feed.cfg` and a second status) | The fingerprint cache outlives a session while the list is fetched anew: status A by event, B by fetch, A by event is dropped as a repetition. | csms_status_subscriber.go:21 |
| `InventoryReachesClient` (`UserFeed`, with `FeedClient.cfg`) | Snapshot and baseline come from different fetches, and the baseline of an empty list is nil, "no baseline": such a change is never pushed. | README.md:140 |
| `StoreKeepsLast` (`UserFeed`, with `FeedClient.cfg`) | Only snapshots are stored, after their publication: events and polls publish statuses the store never gets. | connector_status.go:13 |
| `FreshSessionSurvives` (`WSSession`, with `SessionIdle.cfg`) | The idle check reads a stale activity, a sibling renews it, the check clears it. | ws_handler.go:161 |
| `InvalidatedStaysInvalid` (`WSSession`, with `SessionIdle.cfg`) | A touch in flight writes the activity after the session was cleared: its tokens are valid again. | README.md:149 |

One more is about an operator: `ConnectorStatusMapsEqual` says it finds new and removed keys
("inclui chaves novas/removidas", connector_status.go:80), but a missing key reads as the
empty status, so that maps of equal size with different keys are equal if those
statuses are empty; a connector whose lastStatus is null has one (stations_client.go:131).
`MapsEqualOverlooks` and `MapsEqualErrs` of `FeedProofs` say when (`MCStatusFeed` checks it on
small maps). Only a test calls it.

## Abstractions

- Payloads are who published them and when (`WSHub`) or lists of stations (`StationList`);
  JSON, logging, HTTP statuses and encryption are left out.
- `StationList`: a name stands for the string without the spaces around it (the code trims
  both sides where it compares UUIDs), `LowerCase` for strings.EqualFold; a status for
  the triple status, errorCode, errorInfo. The fields the service copies and never looks at
  are left out.
- `StatusFeed`: failed fetches and backoffs change no state and are stuttering. Events
  on the wire are bounded by `MaxWire`, a bound of the model.
- `UserFeed`: one connection at a time; a publication without a connection is lost. The
  payload has every field of the list it is made from.
- `WSSession`: one username; the X-API-Key check and request bodies are left out;
  time stamps are read on one clock, although the code takes the activity from
  PostgreSQL's and compares it with the process's.
- `StompSession`: the handshake with HTTP, the text of frames and the random ids are
  left out. ERROR and close frames change nothing, as in the code, where they are
  only logged. A write ends when it is written, without partial writes.
- `Reconcile`: the goroutines of the loops are taken from a finite set, which bounds how
  many exist at once; a round that would need more waits.
- `Credentials`: the expiry is the one stored with the token, which is the provider's word as it
  is, or 30 minutes when it gives none (station_service.go:139, config_service.go:90). How long
  the provider honours a token is not modelled, nor whether it is live when it is used, for the
  code promises neither: it judges a token before the wait for the limiter that all users share
  (any time may pass in it), it goes on with a token it could not store and reads the older one
  again for the session, and after a 401 it keeps the token until its stored expiry is near. A
  list that fails with such a token is a failure like others. `up` therefore stands for a
  provider that also accepts the tokens sent to it. A read of the row that fails changes
  nothing and is stuttering.
- `WSHub`: `IdleTimeout` may happen at any time; `WSSession` models when.
- `RateLimit`: a tick is longer than a handler takes between Unlock and Allow, and a limiter is
  that of its IP: that the janitor forgets an entry in this gap, which takes 5 minutes there, and
  two limiters serve one IP, is outside the model, and `WindowBound` and `IsTokenBucket` say
  nothing about it.
- `Migrations`: a directory without migrations, empty files and `clear_data.sql` are left out.

Not modelled: rendering of the payload, upstream error translation, routes,
health, Swagger, configuration loading, encryption, opening of database and cache
connections (no state, or pure functions), the Kafka producer and worker (never
called), scripts and container files.

## Plan

Done, in this order: `WSHub` with its proofs, `WSSession`, `Migrations`,
`TokenBucket`/`RateLimit` and `Credentials` with their proofs,
`EventStream`/`StompSession`; then `Reconcile` over the users of `UserRows` with its proofs,
`StationList` and the feed over it, divided into `StatusFeed` and `UserFeed`, the connector
statuses, `UserLife` with the proof that `WSSession` implements it, and `FeedProofs`; then
`MigrationsProofs`, `StompProofs`, the types of
the feed and the counters of the hub; `Mailboxes`, with the proof that `WSHub` implements it; and
the steps of the hub between a frame and its count, with the proofs over them, and the renewal of
the tokens of older credentials.

Left out on purpose: `StatusFeed` over `EventStream` by INSTANCE. `EventStream` is the life of one
session and counts its events; the feed opens session after session and keeps no count of what
it handled, so the instance would need histories that no property of the feed is about. The two
are related by hand: `Subscribe`, `Send`, the event handler and `SessionEnds` are the steps of the
stream, one event at a time. Likewise `UserFeed` keeps `view` instead of an instance of
`Mailboxes`, for it follows one connection at a time and looks at the last list only.
