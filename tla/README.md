# TLA+ verification of go-mailbox-720

go-mailbox-720 serves the mailbox slice of the Microsoft Graph API over a
self-hosted backend (IMAP, CalDAV, CardDAV or JMAP). Each request is translated
into calls on a backend connection opened with the caller's own, exchanged, token.
The translation is mostly stateless. The state, and what is hard to test, lies
around it: pooled connections and cached tokens shared by concurrent requests,
subscriptions with a lifetime, watches that are replaced while they run, delivery
loops over unreliable sockets, revocations that arrive in any order, invitations that
are turned into events while the mailbox changes, and handlers that are several
remote calls with no lock around them: a meeting that is read, merged, mailed and
written, a script or a map of grants that is read and written back whole, a delta
that lists changes and then fetches them.

This directory holds TLA+ modules for those parts, the TLC configurations that
check them, and TLAPS proofs. `PROJECT.json` lists the runs, the source lines each
definition stands for, the hazards and the theorems.

## Inventory

| Component | State it keeps | Operations | What is hard | What makes it correct |
| --- | --- | --- | --- | --- |
| Connection pool (`cmd/mailboxd/connpool.go`) | parked connections per principal | get (pop, health check, dial), lease Close, reap, closeAll | everything slow runs outside the mutex; clock read once; shutdown while leases are out | a connection is in one place, of the right principal, never lost, never handed out stale |
| Token exchange, backend cache (`internal/tokenexchange`, `peridentity.go`) | exchanged tokens by (token hash, audience); dialed backends by principal | Exchange, get | concurrent cold misses; expiry computed from an earlier clock reading; skew | right identity, conservative expiry, nothing dead reused within the skew |
| Subscriptions (`internal/subscriptions`) | subscriptions by id, with owner and expiry | create (with handshake), renew, delete, list | check and write are separated by a call to the client's endpoint | bounded lifetime; a deleted one stays deleted |
| Watch manager (`internal/notify/manager.go`) | one watch per owner: loops, lifecycle timers | OnSubscribe, swap, teardown, Reap | concurrent swaps, Reap without a lock, shutdown in between, token expiry | no watch leaks; what is superseded stops; gaps are signalled; subscriptions are covered |
| Notification loop (`notify.go`, `jmap/push`, `delivery.go`) | sync token, WebSocket | baseline, signal, delta, fan-out, reconnect | lost frames, failing syncs and POSTs, the time between sync and push | no change skipped, none told twice, each one seen in the end |
| Revocation (`internal/revocation`, `internal/auth`) | latest revocation per subject, revoked token ids | DeliverSET, RevokeSubject, RevokeToken, Revoked | SETs late, twice, out of order; several events in one; absent timestamps | an acknowledged revocation stays enforced; the answer is that of the list of all of them |
| Batch (`internal/batch`) | per request: visit state, stack, order | decode, sort by dependsOn, dispatch | shared dependencies against cycles; a sub-request that cannot be built | rejects exactly the malformed; dependencies first; an answer, unless a sub-request cannot be parsed |
| Event handlers (`internal/server/calendar_*.go`, CalDAV and JMAP writers) | none; events at the backend | create, PATCH, delete, accept, decline | GET, mails and PUT are separate calls that fail one by one; overlapping requests | a conditional write loses nothing; the stored delivery status is true; who is dropped is told |
| Scheduling (`internal/schedrun`, `itip`, `scheduling`) | sync token; events at the backend | inbound REQUEST, CANCEL, REPLY | mail out of order and twice, newest first; token advanced first; user's changes between find and write | highest SEQUENCE wins; no duplicates; no mail missed |
| Inbox rules (`internal/server/messagerules.go`, `mailfilter`, `sieve`) | one Sieve script at the backend | list, create, update, delete a rule | read-modify-write of the whole script through a translation; store and activate are two calls; other clients | the server runs what the API lists; a request changes its own rule only; success means in force |
| Calendar sharing (`calendar_permissions.go`, `calendar/jmap/sharing.go`) | the `shareWith` map at the backend | list, create, update, delete a permission | the whole map is written back unconditionally; roles and rights do not correspond one to one | nobody gains a right to write unasked; revoked grants stay revoked; one grant per request |
| Mail over IMAP (`internal/mail/imap`) | a session; IDLE signal channel | list, get, flag, move, delta, watch | signal coalescing; mail between SELECT and FETCH; connection end; UIDVALIDITY changes | no signal lost; the token passes no unreported message |
| Delta queries (`delta_tombstone.go`, six `delta.go`) | opaque tokens held by clients | delta of messages, events, contacts | the folder changes between the call that gives the token and those that fetch; resync; lost answers | a deltaLink stands for what the client has |
| Parsers and mappings (`odata`, `tz`, `jscal`, `jscontact`, recurrence) | none | pure functions | boundaries | agree with a reference definition |
| Build-time tools (`specsubset`, `gen-graph-api`), plumbing (`grapherr`, `davauth`, `smtp`) | none | | | |

How they interact: a request passes `auth` (which asks the revocation store), may
be split by `batch`, and reaches a handler, which takes a backend from
`perIdentityBackend`, that is from the pool or from the backend cache, both fed by
the token exchanger. A create or a renewal of a subscription ends in
`Manager.OnSubscribe` on the request's goroutine, which builds one notification
loop per subscribed resource; the loops outlive the request and POST to the
subscriptions they find in the store. `startScheduler` runs one more loop for the
process: IMAP IDLE, delta, `itip.ProcessRequest`, PUTs to CalDAV. Two tickers (pool reaper, watch reaper) run
beside the requests, and shutdown cancels the base context and then drains the
pools.

## Modules

Each component is a module with its state as variables and one action per step
between two points where other goroutines can run. A mutex section is one step; a
dial, a POST, a sync, a health check and a reading of the clock that is used later
are steps of their own. `MC...` modules only declare the model values and
symmetry sets of the instances.

Definitions named `Wrong...` are mistaken variants of the definition that follows
them (a dropped guard, a missing reset, a swapped order). No specification uses
them. Each property of a passing run has one that it must notice: replacing the
definition by its variant makes TLC report the property as violated
(`PROJECT.json`, "mutants").

### ConnPool

`idle[p]` is the set of connections parked for a principal; `below[c]` records what
was in the slice when `c` was appended, so that `Last` is the slice's last element
without modelling positions. A request goes `start` → `pop` → `probe` → `leased`, or
`pop` → `dial` → `leased`, and returns through `park`, because `checkin` reads the
clock before it takes the lock. `now[r]` is the one clock reading of `get`, which
may be arbitrarily old when it is used. `once[r]` is the `sync.Once` of a lease: a
handler may close its lease again as long as it runs, also when the connection is
already with another request. `Sweep` is `reap`'s mutex section and `ReapClose` what
it closes afterwards (`dead`), on a goroutine nobody waits for. `Shutdown` is the
cancelled context with the drain of the HTTP server, which gives up after ten seconds:
`cutOff` are the requests still in flight then. `CloseAll` swaps the map, `CloseDrained`
closes what was in it (`drained`). The upstream server may drop any connection at any
time (`ServerDrop`, external).

### TokenCache

Two caches in front of each other. `Token` carries both the expiry the program
records (`exp`) and the instant at which the authorization server really stops
accepting the token (`dies`), which the program never sees. The cache key of the
exchanger hashes the bearer token and the audience; hashes are taken to be
injective. A token found in the exchanger's cache keeps the clock reading it was found
with until the dial is over, so that `ReusedAlive` covers it as well as a backend that
is reused. A dial and the store that follows it are one step: nothing of the program
can be observed between them that is not already possible before the dial returns.

### Subscriptions and WatchManager

Subscriptions is the store with the HTTP handler. WatchManager EXTENDS it: after a
stored create or renewal the same goroutine runs `OnSubscribe` (`build`, `swap`).
`HandlerUnaffected` states that the composition implements Subscriptions alone.
Watches are numbered in the order they are begun. `wstate` follows one watch from
`building` to `cancelled`; a loop of it is `starting` (baseline under way), `live`
or `ended`. `Fold` maps the spellings clients use to the collection they name, as
`strings.EqualFold` does in `Validate`.

### NotifyLoop

The collection is the log of its changes, each of which creates or updates an item; a
sync token is the length of the log that was seen. A delta returns what was updated
together with what was created (`mail/jmap/delta.go:78`), and each is POSTed as created,
so an item whose flags change is POSTed again: `AtMostOnce` is once for each change.
`onChange` runs to completion on the goroutine that reads the socket, so `pc` is
one program counter through sync, list, and POSTs. `born[k]` remembers what the
loop was doing when change `k` was made; the properties use it to tell the cases
apart, and `odd` what syncs have met so far (a failure, a truncated answer, a full
resync): `AtMostOnce` is claimed until a full resync, `PushedSeen` for a change as
long as no sync fails or is truncated. The JMAP server is external: a frame per change
while push is enabled, no replay.

### DeadTokens and Revocation

DeadTokens is the promise: a set of revocation events, and a token is dead when
one of them covers it. Revocation is the code: one time per subject, the latest;
`work[d]` is what the goroutine of a delivery has still to apply. The refinement
maps the set of events to those acknowledged and those applied by deliveries still
in progress. A SET may carry an `iat` ahead of the clock of the receiver. An event whose
payload cannot be decoded is skipped while the SET is accepted (`sink.go:47`, 56): it
counts as an event the SET does not have.

### Batch

`stack` holds the activations of the recursive `visit`, each with the dependencies
it has still to look at. They are taken in any order, so every ordering of a
`dependsOn` list is covered. What the inner handler answers does not influence the
batch and is left out. A sub-request whose method or URL `httptest.NewRequest` cannot
parse (`batch.go:131`) makes the handler panic, and nothing recovers: the sub-requests
before it have run, and the client gets no answer (`Panic`). `Answered` states this
exception.

### Invitations

The inbound half of scheduling: `schedrun.Run` with the IMAP client's `Watch` and
`Delta` below it and `ProcessRequest` over CalDAV above. The server keeps for each
message the mod-sequence of its last change; `Arrive`, `Flag` and `Expunge` may come
between any two commands, in particular between the SELECT that gives the next token
and the FETCH that gives the messages. `signal` is the channel of capacity one between
the unilateral-data handler and the drain goroutine; what is announced between the
watch's SELECT and the moment the handler is set is lost (`Unheard`). The handling of
one message is `Raw`, `Find`, then `Put` or `GetObject` and `PutOverride`, and each may
fail (`Skip`). Between any of them the user may delete the event, or edit or answer it:
`UserRead` and `UserWrite` are the GET and the unconditional PUT of a PATCH, so one
whose read comes before an invitation is handled and whose write comes after puts the
older SEQUENCE back. `SeriesLatest` states that exception (`known` and `done`). A calendar object is the pair
of SEQUENCEs of the series and of one overridden occurrence: a PUT of one VEVENT
replaces both, `WriteInstanceOverride` keeps the series as it read it. All
invitations are of one UID. Which backend is used matters: the object of a UID has
one path in CalDAV, so a create overwrites.

### Meetings

The organizer's half: the five handlers that write an event, for one meeting. A
request is `invite` (REQUEST), `cancel` (CANCEL to those taken off), then `put` or
`remove`, in the order of the handler: a PATCH mails before it writes, a POST creates
first and a DELETE removes first. A DELETE may have been carried out although its answer
is lost; then nobody is told. `If-Match: *`, which the code passes on, is not modelled.
`obj` is the calendar object as its ETag and its iCalendar text;
`EventToICal` and `MapEvent` are what the conversion keeps of participation and
delivery status, so a status that does not survive the way through the text is lost in
the model as it is in the code. `held[g]` is what the mails delivered so far have told
a guest; `post` is mail in flight, delivered in any order. `Deployments` are the
servers: storage-only CalDAV, CalDAV with RFC 6638, JMAP. `torn` and `unsent` are
history variables: requests overlapped or a write failed after its mail; a CANCEL
that SMTP refused, or that was not sent because the answer to the DELETE was lost.

### InboxRules

A script is a sequence of commands: a metadata comment that holds a rule, or an `if`
that the mail server executes. `Encode` and `Decode` translate, ids and order
included; a script that another program left under the same name is decoded by its
`if`s, and tests and actions that the rules do not know are dropped. A request is `list`, the edit, then `put`, with a `look` before and an
`activate` after it over JMAP. The user's mail client may activate its own script at
any time. A SieveScript/set that activates is taken to do so when it is answered:
`Client.set` looks at nothing else in the answer. The loops that keep some entries of a list are `Kept`, the sort is `Ordered`;
both lay positions out by rank (`Arranged`), where `SelectSeq` and a sort by an operator
would be beyond the provers.

### Sharing

`share` is the `shareWith` map; `RoleToRights` and `RightsToRole` are the two
translations, both lossy. `SetShare` is the read with the change of one entry,
`CalendarSet` the write of the whole map, which may take effect although its answer is
lost. `gone` and `clean` of a request remember who was revoked, and whether anybody
wrote, between the two. `given` is what each principal has been given right by right,
measured by what Graph means by the role that was named (`Entitled`) and not by
`RoleToRights`; a role of another name gives no writing right. `WriteAsked` compares
the map with it. It states one exception, `Rewritten`: a PATCH that names no role turns
a grant that may write everything into all that the role "write" has.

### DeltaSync

One folder, calendar or address book behind one of six backends, and a client that
mirrors it. The history of the folder is a counter: tokens (MODSEQ, JMAP state,
sync-token) are values of it, and an item's version is the change that touched it
last. A delta is a first call, which fixes the next token (`Select`, `JmapChanges`,
`EmailState`, `SyncCollection`), then the calls that fetch items as they are at that
later moment, then `WriteDelta`, which is also the client applying the page. A folder
may be recreated, a server may forget old changes, an answer may be lost.
`unsaid` records the items that a full answer to a client with a mirror leaves out. An
item may also be in a second folder (`both`): the JMAP calendar adapter looks at the
first calendar of an event only (`Shown`), and never reports one that is in an
earlier-sorting calendar too. Email/query is taken to return all of a folder; a server
that sets a limit of its own would make the initial sync lose messages, since
`queryEmailIDs` (`mail/jmap/jmap.go:192-202`) does not ask for more.

`MCDocuments` composes InboxRules, Sharing and DeltaSync, which share no state: a
behaviour changes one of the three documents.

## Runs

Passing runs (times with two workers):

| Run | Instance | Shows |
| --- | --- | --- |
| `pool` | 2 requests, 2 principals, 2 connections, maxIdle 1, clock to 3, leases closed twice, fair; 1.3M states, 110 s | `ExclusiveLease`, `RightPrincipal`, `IdleBound`, `NoneLost`, `CheckoutFresh`, `QuietShutdown`, `ReapedEventually` |
| `watches` | 2 handlers of one owner, 3 watches, faults; 850k states, 25 s | `LifetimeBounded`, `DeletedStaysDeleted`, `NoLeakedWatch` |
| `watches_live` | 2 watches, tokens that expire, shutdown, fair, no faults; 170k states, 110 s | `SupersededStops`, `GapSignalled`, `ShutdownStopsAll`, `LapsedReaped` |
| `notify` | 2 subscriptions, 2 items, 2 changes, 2 drops, all failures, fair; 1.0M states, 50 s | `NoneSkipped`, `AtMostOnce`, `PushedSeen` |
| `revocation` | 2 deliveries at a time, 2 subjects, 1 token id, clock to 2; 1.9M states, 2 min | `AckedEnforced`, `NeverRevived`, `ImplementsDeadTokens` |
| `tokens` | 2 requests, 2 principals, 2 audiences (one cached), lifetimes 0 and 2, skew 1, clock to 3; 5.2M states, 50 s | `RightIdentity`, `Conservative`, `ReusedAlive` |
| `invitations` | 2 messages of any kind, 3 mod-sequences, 1 recreation, SEQUENCEs -1 and 1, 1 edit of the user at a time, fair; 1.3M states, 2 min | `TypeOK`, `NoneMissed`, `SeriesLatest`, `ArrivalSeen` |
| `meetings` | 2 requests, 2 guests, 2 times, 3 deployments, 7 attendee lists, 2 versions by other clients; 1.4M states, 80 s | `Honest`, `Withdrawn`, `NoLostUpdate` |
| `documents` | 3 requests on the script; 2 requests and 2 grantees on the map; 2 items and 5 changes in the folder, each backend; 2.1M states, 100 s | `RunsWhatItLists`, `CleanWrite`, `InForce`; `WriteAsked`, `NoComeback`, `OneGrant`; `Mirrored` |
| `batch` | every graph on up to three sub-requests, a family on four, bad ids, sub-requests that do not parse; 52k states | `RejectsExactly`, `DependenciesFirst`, `Answered` |

`invitations` checks its type invariant too (no negative SEQUENCE is stored); the
other type invariants are proved instead.

Runs that must end in a violation, each with a finding in `PROJECT.json`:

| Run | What the code does |
| --- | --- |
| `watches_swap_race` | of two concurrent creates the one with the older view may install its watch last |
| `meetings_refused` | a PATCH drops a guest and mails the CANCEL (`calendar_write.go:323`), its write fails (384), and the stored event still has that guest, as "sent". With a REQUEST in place of the CANCEL, guests hold a revision the calendar never stored |

Other disagreements between a comment and the code, met while modelling and visible in
the modules without a run of their own:

- a lease closed after `closeAll` is parked in the drained pool (`connpool.go:149`);
  the comment at 190-191 says it is torn down; `QuietShutdown` counts it, one for each
  request that the drain cut off;
- a change between the baseline sync and the start of push waits for the next change
  (`notify.go:141`); the comment at 107-108 says the watch's first signal catches it,
  and the JMAP watch gives none;
- invitations to one occurrence are written without comparing SEQUENCE
  (`itip.go:250`, 282), and of two in one delta the older is written last; the comment
  at 217-218 says a lower SEQUENCE is left untouched;
- a CANCEL carries the event's SEQUENCE as it is (`calendar_write.go:141`); `itip.go:406`
  and `scheduling.go:326` speak of a bumped one;
- a PATCH of a permission without a role writes the rights of the role its present
  rights are translated to, which are not always the same rights: who may write
  everything may then delete as well. `calendar_permissions.go:101-104` says an omitted
  member is left untouched; `WriteAsked` states the exception;
- an event that is also in a calendar with an earlier id is never reported by the JMAP
  calendar's delta (`calendar/jmap/delta.go:73`, `event.go:26-33`), although its token
  advances; `Mirrored` states the exception. It also excepts items that moved to another
  folder of a JMAP account, for which the code says so (`mail/jmap/delta.go:74-77`);
- a full resync names no deletions (`mail/imap/delta.go:104`, `mail/jmap/delta.go:69`),
  while the repository's README speaks of tombstones for deletions without exception;
  `Mirrored` states the exception;
- the JMAP calendar and contact adapters send an empty token to the server as a state
  (`calendar/jmap/delta.go:35`); `calendar.go:237-239` says it means an initial sync;
- one card that cannot be fetched fails the whole delta (`contacts/carddav/delta.go:54`);
  the comment above it says it is skipped.

Further behaviour a reader of the code may want to know: a failing OPTIONS request
counts as "no server scheduling" (`calendar_write.go:235`); overlapping PATCHes mail the
same SEQUENCE; an unconditional PUT recreates an event deleted meanwhile; a PATCH of a
rule reads the rule and the list in two calls; ids of deleted rules are used again; a
DAV or JMAP calendar token that the server has forgotten fails with 500 each time, where
only a malformed mail token is answered 410; a PATCH by an attendee that counts the
SEQUENCE up makes the organizer's next update, if it has the same one, stale
(`itip.go:270`); a sub-request that cannot be parsed ends a batch without an answer.

The models show relatives of `watches_swap_race` and of the gap as well. With other
instances than the one of this run, `Covered` also fails when `Reap` drops a watch installed after it looked at the store (`manager.go:246`), and
when a client spells a resource in another case, which `Validate` accepts and
`resources[rb.Resource]` does not find (`manager.go:107`). On each renewal the live
watch goes before the new one is live (`manager.go:277`). After an outage the forced
re-sync comes before the new socket is up (`push.go:189`), so a change in between
waits in the same way. In `Invitations`, mail between the baseline and the
moment the watch has set its handler waits likewise; a flag set on an old invitation makes `Delta`
return it, and if the user has deleted the event, brings it back; an invitation to an
occurrence that is handled before the one to its series is stored alone and then
overwritten, and an update of the series drops its overrides (`write.go:89`).

### Bounds

Two actors of each kind are what the races here need: each property relates a
goroutine to one other and to a ticker or the clock. Two connections let one be
parked while the other is held or returned, which reaches the limit when `maxIdle`
is 1; three watches let a
swapped-out one, an installed one and one being built exist together. The clock
bound is chosen one above skew plus the longest lifetime that matters, so that
"before the skew", "within the skew" and "expired" all occur. `maxBatchRequests`
is 4 in the instance (20 in the code); four sub-requests reach every branch of the
sort. Two messages are a stale and a newer invitation, in one delta or in two; three
mod-sequences let one of them change after it was reported, and SEQUENCE -1 is stored
as 0; `MaxSeq` ends the counting up by the user's edits. Two changes of two items are a
creation and its update, or two creations. The roles of `documents` have one that Graph
does not know, next to every one it does that differs. In `meetings`
two requests are enough for a write between the other's read and its write, and the
second guest is the one who stays when the first is dropped. In `documents` three
requests on a script let two finish between the first's read and its write; five
changes of a folder let each of two items be created, changed and deleted around one
delta. `MaxVer`, `MaxState`, `MaxMail`, `MaxMod`, `MaxValidity`, `MaxSeq`, `MaxItems`, `MaxChanges`, `MaxDrops`, `MaxEvents`, `MaxTime`, `Conns`, `Watches` and
`SubIds` bound what is unbounded in the program; reaching one of them only
disables the action that would go on. `CHECK_DEADLOCK FALSE` is used where the
program ends: after `closeAll`, after the loop's context is done, after a response, when each of
the requests of an instance has been served.

### Fairness

Weak fairness is assumed only of steps that a running goroutine takes by itself,
and of the clock and the tickers (`time.Ticker`, `startPoolReaper`,
`startWatchManager`). Health checks, dials and syncs carry deadlines or a context,
so they return. No fairness is assumed of clients, of the upstream server
failing, or of shutdown; in `NotifyLoop` a socket that is broken is found out in
the end because reads fail or the context ends. `PushedSeen` excuses behaviours in
which a sync fails or is truncated, since nothing bounds how long a server may
refuse. In `ConnPool` only the ticker's goroutine is fair (`ReapStart \/ Sweep`):
nothing is assumed of the requests. `GapSignalled` ends where the signal is handed to
`NotifyLifecycle`, which skips subscriptions without a lifecycle URL and does not retry.
In `Invitations` the goroutines are fair and so is
the server in announcing EXISTS to a client that idles, which is what IDLE is for;
nothing makes the watch end, the folder change or a command succeed, and
`ArrivalSeen` excuses a sync that fails. Meetings, InboxRules, Sharing and DeltaSync
make no liveness claim and assume no fairness: a client may abandon any request.

## Proofs

| Module | Theorem | For every instance |
| --- | --- | --- |
| `ConnPoolProofs` | `TypeCorrect` | `TypeOK` |
| | `LeaseSafety` | `ExclusiveLease`, `RightPrincipal`, `NoneLost` |
| | `IdleBounded` | `IdleBound` |
| | `FreshCheckout` | `CheckoutFresh` |
| | `ShutdownQuiet` | `QuietShutdown` |
| `WatchManagerProofs` | `Lifetime` | `LifetimeBounded` |
| | `Deleted` | `DeletedStaysDeleted` |
| | `NothingLeaks` | `NoLeakedWatch` |
| | `ManagerUnseen` | `HandlerUnaffected` (refinement) |
| `NotifyLoopProofs` | `TypeCorrect` | `TypeOK` |
| | `NoItemSkipped` | `NoneSkipped` |
| | `NoItemTwice` | `AtMostOnce` |
| `InvitationsProofs` | `TypeCorrect` | `TypeOK` |
| | `TokenNeverPasses` | `NoneMissed` |
| | `SeriesNeverGoesBack` | `SeriesLatest` |
| `RevocationProofs` | `TypeCorrect` | `TypeOK` |
| | `AckedStaysEnforced` | `AckedEnforced` |
| | `NoTokenRevived` | `NeverRevived` |
| | `StoreImplements` | `ImplementsDeadTokens` (refinement) |
| `TokenCacheProofs` | `TypeCorrect` | `TypeOK` |
| | `IdentityKept` | `RightIdentity` |
| | `ExpiryConservative` | `Conservative` |
| | `ReuseIsAlive` | `ReusedAlive` |
| `MeetingsProofs` | `RoundTrip` | `MapEvent` undoes `EventToICal` |
| | `Typed` | `TypeOK` |
| | `LosesNothing` | `NoLostUpdate` |
| | `StatusHonest` | `Honest` |
| | `MeetingWithdrawn` | `Withdrawn` |
| `HandlersProofs` | `SortRejects` | `RejectsExactly` |
| | `SortOrders` | `DependenciesFirst` |
| | `StaysInForce` | `InForce` |
| | `RunsListed` | `RunsWhatItLists` |
| | `WritesClean` | `CleanWrite` |
| | `Asked` | `WriteAsked` |
| | `StaysRevoked` | `NoComeback` |
| | `ChangesOne` | `OneGrant` |
| | `LinkStands` | `Mirrored` |

`HandlersProofs` holds what is proved of Batch, InboxRules, Sharing and DeltaSync, which
share no state; the other proof modules are named after the module they are about, and
`WatchManagerProofs` covers Subscriptions too.

The assumptions are the ASSUMEs of the modules (`PoolConstants`, `LoopConstants`,
`RevocationConstants`, `InvitationConstants`, `BatchConstants`, those of TokenCache, Subscriptions
and WatchManager, `MeetingsAssumption`, `RulesAssumption`, `ForeignAssumption`,
`SharingAssumption`, `DeltaAssumption`): that `None` is no element, no calendar object, no
script and none of the answers of a look at a script, that bounds are naturals, that the set
of connections is finite, that bodies and the scripts found under our name have the shape the
parsers let through. `ForeignAssumption` also says that no script found has two metadata
comments of one id: nothing but this program writes such comments, and `RunsListed` shows
that it never writes one id twice. TLC evaluates all of them in every run.

Arguments. For the pool, the three lease properties are inductive only together,
with the fact that a request holds a connection exactly at the program points where
`held` is used and that what it holds has been dialed: two requests can share a
connection only if a pop takes one that is held, which `NoneLost` excludes.
`IdleBounded` adds the finiteness of the parked sets. `FreshCheckout` needs that
`now[r]` is never ahead of the clock and that what is being probed passed the test
with that `now`. `ShutdownQuiet` rests on `CutOffInv`: after the swap only the requests
that the drain cut off run, and the parked connections are no more than those of them
that gave their lease back; by `NoneLost` what is open and not parked is in the hands of
another of them, or of the reaper. The count is a surjection from the requests cut off.
For the loop, `BatchInv` says that there is a fan-out exactly where the program counter
says so and that nobody was told of more than the token; `NoneSkipped` is inductive with
it. `AtMostOnce` is inductive with it in the form `News`: an item of a fan-out that a
subscription has still to be told has a change it was not told of, up to the token. For
revocation, `CoverInv` says that the recorded time of a subject is the
maximum of the times applied to it, and `WorkInv` that a delivery in progress has a
subject; `Revoked` then agrees with `Dead` on every token, and each step maps to
one abstract step or to a stutter.

For the scheduling loop, `NoneMissed` needs `SelectInv` (what came after SELECT has a
higher mod-sequence than SELECT told) and `ServerInv` (the server's counters bound
every token, so a recreated folder outdates it); types need `PlaceInv`, that only
arrived invitations get past `Raw`. `SeriesLatest` needs `DecisionInv`: between the
comparison in `Find`, or the read in `GetObject`, and the PUT, the set of handled
invitations does not grow, so the decision still stands; and `EditInv`: what an edit of
the user read is not older than what had been handled by then, so its write takes back
only what was handled since.

For the caches, an entry is `Good` (the principal's and backend's own, believed to die
no later than it does), and so is what a request holds between lookup and use; the
skew argument of `ReusedAlive` needs that a reading of the clock is never ahead of it.
For meetings, types need that the stored text is always `EventToICal` of some event,
which is where `RoundTrip` comes in; `NoLostUpdate` needs `Ordered`: ETags only grow,
and the one a client brings is not younger than the read of its request. For sharing,
`Earned` (every right to write, stored or about to be written, was given; that holds of
what `RoleToRights` makes of a role because it is within `Entitled`, and of what a PATCH
without a role makes of a grant by `RoundTrip` there), `Accounted`
(what a pending write would bring back, it had read before the revocation) and `UpToDate`
(an undisturbed write differs from the stored map in one entry). For deltas, `Underway`
says what the request holds of each item that has not changed since the request's next
token: fetched or still to be fetched when it is due, a tombstone when it is gone, left
alone otherwise. An item that changes is newer than that token and drops out of the
claim, which is why the token must come from the first call.

For the store of subscriptions, `StoreInv` says of a handler between its check and its
write that the expiry it carries (`Carried`) is within `maxTTL` of a clock that has only
moved on. For the watches, `NoLeakedWatch`
is not inductive: two goroutines could hold one watch, or the map name one that its owner
did not begin. `WatchInv` adds that a handler in the manager has its watch in hand
(`InHand`), that a watch has one builder (`OneBuilder`), that one being put together is in
a request's hands (`Attended`), and that the map and the watches' own states agree both
ways (`Mapped`, `InMap`). `ManagerUnseen` maps `build` and `swap` to the point after the
write, where the handler without a manager answers; the manager's goroutines, timers and
reaper are stutters, so what holds of Subscriptions holds in the composition.

For the batch, `SortInv` relates the recursive `visit` to its explicit stack: the
activations are the sub-requests being visited (`OnStack`), each called for a dependency of
the one below (`Chain`), so meeting one of them again closes a cycle; what an activation
has looked at is done or on top (`Looked`), so what is emitted comes after its
dependencies (`Emitted`). That a sorted graph has no cycle takes an induction along the order
of emission: a set of sub-requests each depending on one of the set would have an earliest
emitted member. `LeastNat` gives it, from the well-foundedness of the naturals. For
`StaysInForce`, a request that is going to leave out the activation saw the script active,
and it still is unless another client has switched since (`SeenInForce`).

The other two theorems about inbox rules say what `Encode`, `Decode` and the edits compute
for lists of any length, without an induction over lists. `Arranged` puts at position k the
member with k members up to it. Those ranks are distinct, and as many as there are members,
so each is taken once (`Ranked`, from the theorems on cardinality). A loop over what a loop
has kept is therefore one loop over fewer positions (`KeptOfKept`), and a sort is a
rearrangement (`OrderedSorts`). Encode gives each rule an odd place for its comment and an
even one for its `if`, so the comments of the script list all the rules and its `if`s the
enabled ones (`FilledReads`), and `Decode` gives back the sorted list (`EncodeReads`). Each
edit keeps ids apart (`CreatedList`, `UpdatedList`, `DeletedList`); for a create, the lowest
free id exists because n rules cannot use up n + 1 numbers (`Fresh`). `ScriptInv` carries this
through the interleavings: the script is one found or one that `Encode` wrote from one list
(`Written`), whoever overtook whom, and the list a request is about to write is the list the
script now holds, edited as asked, as long as nobody wrote past it (`Carries`, `AsAsked`). A
PATCH reads twice; between the reads `Merged` says that the rule it found is still there.

`Honest` and `Withdrawn` need an invariant over mail in flight, stated as what the calendars
will show once all of it is delivered, in whatever order: the last that a guest hears is
one revision and its time (`Latest`), or that the meeting is not theirs (`Gone`). Since a
guest keeps the newest SEQUENCE and a CANCEL wins a tie, a delivery leaves both as they
are. `Told` says that what an event claims of its guests is so, and that nobody has word of a
later revision (`Below`); it holds of the stored event between requests (`Standing`), and at
each call of the request under way of the event that call has reached (`InStep`): the
revision about to be mailed is news to all (`Ready`), the one about to be written has been
told, the guests taken off and not yet told are those the request still has on its list
(`Plan`). The invariant is claimed where the properties are: on the storage-only tier, while
requests do not overlap (`Calm`).

Only model-checked: liveness, which needs fairness and ENABLED and is out of the prover's
reach (`ReapedEventually`, `SupersededStops`, `GapSignalled`, `ShutdownStopsAll`,
`LapsedReaped`, `PushedSeen`, `ArrivalSeen`, `Answered`). Every invariant and every action
property of the passing runs is a theorem.

## Not modelled

The components that `PROJECT.json` lists as `not_modelled`, with the reason: contact
and message writes repeat the conditional write of Meetings without its mails; parsers,
time zones and mappings are functions over text; the build-time tools keep no state; the
HTTP plumbing is stateless. Of the event handlers, edits of single occurrences are left
out (the override PUT itself is in Invitations), and so are the IDLE and polling variants
of the notification loop's watch. In the modelled ones: the wording of errors and payloads, HTTP parsing, log calls; the
verification of signatures and the introspection call (the tokens that validate
are a set); the single-tenant mode of the subscriptions handler, in which the
owner is empty; the memory bounds on bodies.

## Plan

Done: ConnPool, Subscriptions, WatchManager, NotifyLoop, Revocation, TokenCache, Batch,
Invitations; then Meetings, InboxRules, Sharing and DeltaSync; then proofs of every safety
property, and of the refinement of Subscriptions by WatchManager.

What is left, in the order of its worth:

1. The mail of Meetings delivered into the loop of Invitations: two mailboxes of this
   program that invite each other.
2. Edits of single occurrences of a series through the event handlers.
3. The polling watches of CalDAV and CardDAV below NotifyLoop.
4. Pure algorithms against reference definitions: recurrence, OData filters, the subset
   closure of `specsubset`.
