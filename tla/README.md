# A TLA+ model of hrry.me

The repository is a personal site and homelab: a Go API server (`cmd/api`, with
its logic in `pkg/`), a few more Go services and tools (`cmd/`), a link
shortener in Rust (`services/lnsmol`), the browser code that talks to them
(`frontend/`) and a great deal of configuration.  Its own logic is small and is
nearly everywhere the same kind of thing: a handler or a tool reads something
from redis, postgres, a bucket or a directory, decides, and writes it back,
while others do the same and any call may fail.  This project models them one
external call at a time, checks them with TLC and proves the main invariants
with TLAPS.

## Inventory

| component | code | state it keeps | operations | what is hard |
|---|---|---|---|---|
| invitations | `pkg/invite/invite.go`, `pkg/app/invite.go` | one redis key per invite: creator, TTL (sign-ups left), e-mail, roles, expiry | Create, Accept, SignUp, List, Delete | read-modify-write without a transaction, expiry between two commands, mail and insert that fail half-way |
| users and roles | `pkg/app/user.go`, `pkg/auth/role.go`, `cmd/tools/user-gen` | user table | Create, Get, login, user-gen | unique address, a lookup and a write in two statements, a role that is stored and cannot be read |
| access guards | `pkg/auth/jwt.go`, `role.go`, `pkg/app/auth.go` | none: claims that the caller holds, and the row they came from | GuardMiddleware, Guard, ImplicitUser, AdminOnly, consent | claims that outlive the roles in them |
| tokens | `pkg/app/auth.go`, `pkg/auth/jwt.go`, `token_store.go`, `frontend/legacy/api/auth.ts` | one redis key per user with the refresh token; signed tokens in browsers | Token, Login, Refresh, Revoke | get-compare-delete, claims that outlive changes of the user, clocks in seconds |
| tokens in memory | `pkg/auth/token_store.go` | a map, one timer per Set | Set, Get, Del | an older token's timer takes a newer one |
| chat connections | `pkg/app/chat/`, `pkg/app/chat.go` | three goroutines per connection, a channel `stop`, a redis subscription, the message table | connect, receive, save, publish, relay, send, close | goroutines that end each other, a channel closed twice, two stores written one after the other |
| chat store | `pkg/app/chat/chat.go`, `pkg/app/chat.go` | rooms, members, messages | CreateRoom, GetRoom, Exists | two inserts without a transaction, two queries, a result that ends early |
| API server | `cmd/api/main.go`, `pkg/db/db.go` | a process over redis and postgres | start, serve, killed, start again | an error nobody receives, what is in flight at a kill |
| cookie sessions, page hits | `pkg/session/`, `pkg/app/session.go`, `api.go` | redis: session by id, counter by page | CollectSession, GET /session, GET /api/hits | lost updates; INCR, query, SET |
| GitHub sign-in | `cmd/hooks/github.go`, `pkg/session/store.go` | one-time states and sessions in memory | Login, Authorize, SignOut, `tidy` | get-then-delete of a one-time value, codes that know nothing of it, a map read without its lock |
| backups | `cmd/backups/` | ticker, configuration, two unbuffered channels, running pg_dump processes | tick, update wait, update max, manual backup | senders that block while a backup runs, configuration written without a lock |
| geoip | `cmd/geoipupdate/`, `services/go-geoip` | bucket with dated files and `latest/` | download, upload, copyToLatest, deleteLatest, restart of pods | concurrent uploads delete each other's `latest`, midnight, a channel closed beside its senders |
| provisioning | `cmd/provision/`, `pkg/provision/` | minio and postgres | the phases of `provision`, `migrate up` | a failure in the middle, a second run over the first one |
| manifest generators | `cmd/tools/lab/`, `config/k8s/generate/` | directories of manifests | `lab gen k8s`, the older generator | files kept from earlier runs, objects that refer to one another, a run cut short |
| link shortener | `services/lnsmol/src/` | redis keys `link:*` and a counter, one random generator per worker | create, del | counter drift, equal generators, a borrow held over an await |
| login manager | `frontend/legacy/util/LoginManager.ts` | timer and flag per tab, localStorage shared by tabs | start, refresh, login, logout | a late answer after logout |
| file server | `pkg/web/serve.go` | files in memory | load, Alias, headers, hooks, ServeHTTP | one file object under several names |

What makes each of them correct, in a sentence: an invite grants what it was
issued for and is only lost for a reason; an address has one account, and only
what was asked of it changes; a door opens to roles that were signed lately; a
revocation ends a user's sessions and a new token has current roles; a client
gets the messages of others in order, once, and its goroutines end; the server
serves when its stores are up, whatever happened before; no request of a
session is counted twice, and a quiet session counts them all; a sign-in lasts
until it expires or is ended; the
configuration that is shown is the one in force; pods restart on files that
are complete and never older; a success means that the configuration is what
is there; a link is found until it is deleted or expires; a logout is final.

The components interact through redis, postgres and the bucket, except that an
invitation creates an account (`users`), that handlers take their caller from
the claims of an access token (`Guards`), that the browser's login manager
drives Token and Refresh, and that the API server is one process around its
handlers, which is what `Api` composes.

`PROJECT.json` lists every component, the ones that are left out with the
reason, and under `hazards` each place where the code is exposed to an order
of events or a failure that tests hardly reach, with the property that watches
it or a note that none does.

## Modules

| module | models |
|---|---|
| `Invites` | the invitation store and its five handlers |
| `Accounts` | the user table under sign-ups, logins and user-gen |
| `Guards` | who is let in at the routes, as tokens age and roles change |
| `MemoryTokens` | the token store in memory with its timers |
| `MCAccess`, `MCInvites` | constants and behaviours of the four for TLC |
| `AccessProofs` | theorems about the four |
| `Tokens`, `TokensProofs`, `MCTokens` | the token service, its redis store and the browsers of one user |
| `Filters` | the part of a sequence that somebody is interested in, by a recursive function |
| `Broadcast` | abstract: what a room promises a listener |
| `ChatRoom`, `MCChatRoom`, `ChatRoomProofs` | the goroutines of the connections to one room; implements `Broadcast` |
| `Datastores` | how the API server connects to its stores |
| `Sessions` | the requests that keep a session or a page counter |
| `Api`, `ApiProofs`, `MCApi` | the two composed: a process that starts, serves, is killed |
| `Backups`, `BackupsProofs`, `MCBackups` | the loop of the backup service, its configuration, and backups |
| `GeoipUpdate`, `GeoipUpdateProofs`, `MCGeoipUpdate` | the update job, its bucket and the pods |
| `LabApp` | what a manifest generator makes of one application (operators only) |
| `Lab` | `lab gen k8s` over the directories of earlier runs |
| `Generate` | the older generator |
| `Provision` | minio, postgres and migrations |
| `MCDeploy` | constants and behaviours of the three tools |
| `DeployProofs` | theorems about the three |
| `Links` | the link shortener |
| `Rooms` | who makes and who may connect to chat rooms |
| `SignIn` | the GitHub sign-in over sessions in memory |
| `LoginManager` | the tabs of a browser |
| `FileServer` | the file server |
| `MCStores` | constants and behaviours of these five |
| `StoresProofs` | theorems about the five |

In each module an action is one call of a goroutine to something it shares
with others (a redis command, a statement, a channel operation, a mail) with
the local work around it; a handler's local variables are functions from
goroutines to values, or fields of one record, and `pc`, `at` or `stage` says
where it stands.  A request that changes nothing and decides nothing (a 403, a
404) is left out.  Operators whose comment begins with "mutant" are
part of no specification: they are variants of the definition that follows
them, used to see that each property notices the bug they describe.

Components that share nothing are checked in one run without being composed:
`MCAccess`, `MCDeploy` and `MCStores` choose in `MCInit` one `part` (or
`tool`) for a behaviour, and the others stand still.  (`provision` is there
twice: without migrations, and without the object store.)  Each part then has its
own state space, and nothing is said about their interaction because the code
has none.  `mode` in `MCTokens`, `MCBackups`, `MCChatRoom` and `MCApi` chooses
in the same way which of two aspects of one component is given more room.

### Invites

`store` is redis, `armed` the keys that still carry an expiry, `timedOut` the
invites past `ExpiresAt`.  `issued`, `attempts` and `accounts` record history;
`knows` records who was handed the link.  `Create`, `Deliver` and `MailFails`
are the create handler; `SignUp`, `PutBack`, `Register`, `GiveUp` and `Cleanup`
the sign-up; `FindSpent` and `Refuse` are `View`, which deletes an invite with
TTL 0; `Delete` and `OwnerDel` the deletion; `List`, `MGet` and `ListPanics`
the listing (a key gone between KEYS and MGET panics).  The read and the write
of one sign-up are separate actions, as they are separate commands.  The
instant of `ExpiresAt` and the expiry of the key are one event, `TimeOut`.  A
SET or DEL may be carried out and lose its answer; the library sends it again
(`CreateUnanswered`, `PutUnanswered`, `DelUnanswered`), and when that fails as
well the handler gives up on what redis has done.  Such a sign-up is charged
and was not let through, and `doubtful` counts them: `NoAttemptLost` says that
an invite is spent by these and by attempts alone.  The sign-up and accept
routes are commented out in `cmd/api/main.go`; their handlers and tests exist
and are modelled.

### Accounts

A row has an address, a user name, a password and the roles as they are
stored: a name that `ParseRole` does not know becomes 0, and a row with 0 in
it cannot be scanned, so its account can neither log in nor be repaired.  A
user name may be somebody else's address, and user-gen looks its word up in
both columns.  `caller` holds the logins; an operator goes through
`flags`, `find` and the insert or update, and any of its calls may fail
(`OperatorFails`).  `AccountsHold` is an action property with two parts: what is
refused is refused for a cause, a failing query among them (`RefusedForCause`),
and a row that is there changes only by a deletion or by a run of user-gen that
found it, which writes all its columns as it was asked to and no other row
(`AccountsKept`).  Its address changes only when a run found the row under its
user name (`foreign`), or when such a run wrote to it before and another one
between this one's look-up and its write (`Moved`, `Overtaken`).

### Guards

One user whose row may change or go; `signed` is every token that was ever
signed for it, each of which may be presented in the cookie, the header or
both; `had` remembers when the row had which roles.  The module keeps what a
guard does with which of them, and that `ImplicitUser`, after a guard that
failed open, goes on without claims. `ConsentHandler` asks for the user again,
so it alone sees a change at once; its answers for a missing or foreign
challenge are `ConsentRefused`, the calls to Hydra that fail `ConsentFails`.
`LoginWithPass` is Login with a valid token: it asks for the row, and then
signs the roles of the token again, for a whole life of an access and a refresh
token (`carried`).  A user who goes on in this way keeps a role for ever that
was taken away.  `GuardsHold` therefore bounds how old the roles can be only of
tokens that were not carried on; of the others it says that the user was there
when they were signed, and had the roles once. It also says that consent is
given in the name of a user that exists. Signatures are taken to be what they
are.

### MemoryTokens

`Set` stores a token and starts a timer that remembers only the id.  A timer
that is over waits to hand its id to the one goroutine that deletes, and that
may be late.  `TokensTimeOut` says what is left: a token is lost before its end
only if it was stored while the deletion of an older one was on its way
(`doomed`), and for every token that is kept a deletion is on its way that will
find it.

### Tokens

No handler touches two users, so the module is about one.  `store` is the key
`rt:<id>`; `access` and `refresh` are what the browsers keep.  `WithPassword`
(Token, or Login without a valid cookie) and `WithClaims` (Login with one)
begin a login; `Mint`, `StoreToken` and `Reply` finish it, and only Token's
answer contains the refresh token.  `RefreshCheck` and `Remint` are Refresh,
`RevokeCheck` and `RevokeDel` Revoke.  A token is its claims: two tokens of
the same second and roles are the same, as signatures are deterministic.
`NotBefore` is left out, which only makes the model accept more.  A failing
call may have taken effect.  A server that restarts without `JWT_SEED` makes a
new key, which ends every session; that is not modelled, nor is what Hydra
keeps.

`cut`, `since` and `relogin` are history: the instant of the last revocation
that ended while no other request of the user was under way.  With a refresh
under way a revocation does not end the session: the token that was compared
before is minted after it.  With a Login on a valid access token the old
session simply goes on.  The properties say what is left when neither
happens.

### ChatRoom

`reader`, `writer` and `relay` are readLoop, writeLoop and the goroutine of
`Sub`; `buf` is what redis sent to the subscription, `pend` the message
offered on the unbuffered channel, `out` the one being sent.  `Break` stands
for every failure of the socket other than a normal close; `RecvBad` is a
frame that is no message.  `PubAgain` is the client library sending a command
again whose answer was lost, and the `missed` listeners of a publication are
subscriptions that are being renewed.  `writeLoop`'s case `ctx.Done` never
fires, as the request was hijacked; it is left out.  The handlers' routes are
commented out in `cmd/api/main.go:169-173`.

A message names a room and a user (`Named`), which the client wrote into it.
`SaveMessage` stores both as they are, and `Pub` overwrites them only
afterwards: what is live in a room may have its row in another room's history
or under another user.  `HistoryAgrees` says that every live message has one
row, and that it is this room's and its sender's when the client named it so.

When readLoop ends on an error it tells nobody, and writeLoop goes on waiting.
`FailureEnds` is what is left: the handler ends with the next message of
somebody else, whose sending fails on the same socket.

`Broadcasts` states that the room implements `Broadcast` for every listener,
with `Pipeline(c)`, the messages on their way in the three places, as its
queue.

### Rooms

`CreateRoom` is two inserts, `GetRoom` two queries, and a visitor is admitted
when its id is among the members that the second one returned.  A connection
lost within a result leaves a shorter one, as nobody asks the rows for their
error (`QueryMembersCut`).  `Claimed` is the user that a request connects as:
that of its token, or without one the user that its query names
(`pkg/app/chat.go:46-54`; the TODO at line 61 leaves the check open).
`CreatorAdmitted` is therefore about requests with a token.  `told` remembers
that the room's creation was answered before the request came.  The history is
not modelled: `ListMessages` only reads, and the client fetches one page of it.

### Datastores, Sessions and Api

`Datastores` has the two goroutines that ping a store until it answers or a
minute is over, the third one that closes the channel, and `main`, which
receives once.  The minute is an event.  A second error finds no receiver; the
process ends by the first one, so nobody notices.  `Sessions` has the two kinds
of requests that keep state.  A step is one command to redis or one query, and
each of them fails when its store is away.  `Api` composes them: the end of the
process drops what is in flight and keeps what is stored, and requests run only
in a process that serves.  `exact` marks the sessions for which no two requests
overlapped and none failed: `QuietCountIsExact` is about these, and
`NeverOvercounted` about all.  `torn` remembers that the request which made the
page's counter never got to set it: it failed, died, or its INCR was carried
out, lost its answer and was sent again (`IncrAgain`), so that it sees 2 and
takes the counter for an old one.  Such a counter never expires, and
`CounterExpires` is about the others.

### Backups

`at` and `ask` are the goroutines in `Update`: a maximum is stored and then
sent, a duration is sent (`wait`) and then stored (`store`); a request with
both gets its duration ignored.  `run[Loop]` is `idle` when the loop stands at
its `select`; only then `ReceiveMax`, `ReceiveWait` and `OnTick` can happen.
`StartDump`, `Uploaded` and `Waited` are `BackupPostgres`; `DumpEnds` is the
pg_dump process.  A dump that dies half-way ends the upload as well as one
that finishes, so its truncated file is stored before `cmd.Wait` reports it.
`Clock` is one second: it moves the ticker and changes the name that new
backups get.  Names are recycled when no goroutine's latest backup has them,
and `reused` remembers that two backups of a second had the same one.
`crossed` is history too: an update was received while another one had yet to
store its duration.  The fields of the configuration are read and written
without a lock; they are single words, and each access is taken as atomic.
The maximum of parallel jobs (`cmd/backups/background.go:65`) is shown and
never used, so nothing is stated about it.  A pg_dump whose upload failed is
left alone and not followed further; the case `ctx.Done` only fires when the
process ends.

### GeoipUpdate

An upload of one file of one edition is `ListLatest`, `ClearLatest`,
`HeadObject`, `Put`, `TakeDate` and `CopyToLatest`, in a goroutine of its own.
The date is taken before the copy is asked for, and a midnight may come in
between (`night`): the copy is then one of the day before, perhaps over a newer
one, and `late` remembers the files that have such a copy.  `NeverBack` says
that a pod goes back in no other way.  Files that
two editions share are uploaded twice, and uploads delete each other's
`latest`.  The first error ends the process (`Smash` and `Finished` are
main's receive and the goroutine that waits for all), `Start` begins it again
and the day may change in between or in the middle.  When nothing failed
`ListPods`, `DeletePod` and `Load` restart the look-up pods, which load what
they find.  `serves` is the day of each file that a pod has.

### LabApp, Lab, Generate

`LabApp` is `Calc`, `Validate` and the manifests as records of those fields
that refer to another object (selectors, ports, configuration and secret names,
targets of an autoscaler) or decide what runs.  `Lab` runs the generator over
directories: a file is opened (truncated) and then written, is left alone
unless the run is forced, and a run may stop anywhere.  `clean` remembers which
directories hold only what their configuration says.  `ManifestsAgree` is about
the references between the objects of an application; `ListedExist` and
`SuccessIsConfigured` about the directories.  `Generate` is the older tool,
which goes through a list: two applications of one name share a directory and
the last one's files stay, but not every list gets so far
(`LastOfNameGenerated` is about those that do).

### Provision

A command goes through phases, and in each phase through its items in any
order: buckets, policies, users, groups and their policies; roles, databases,
grants on databases, on tables and of other roles; then the migrations of every
database.  A group's policies are set one by one (`SetGroupPolicy`, `nth`), each
in the place of the one before.  Each call may fail and ends the command; the
operator may run it again, with another configuration.  `main` prints the error
and exits with 0 all the same, so what is called a success here is the end of a
run with no error, and not its exit status.  `SuccessApplies` says what is there
after one (`ProvisionApplies`, `MigrationApplies`): what was configured, and
besides what the tool never takes away.

### Links

`count` is the counter that sizes ids, `links` the keys with what they lead
to.  Every worker has a clone of one random generator, which after each start
of the server gives the characters `Draws[boot]`, any sequence; an id is as
many of them as come next.  Two workers draw the same ids, and one worker may
draw an id again: `SET NX` with retries is what keeps the links apart.  The
generator is borrowed over an await; a second request of the same worker panics
there.  Nothing remembers an id whose link is gone.  `get` and `list` only read.

### SignIn

`Login`, the answer of GitHub, and `Authorize` in five steps: read the state,
delete it, change the code for a token, ask for the user, store the session.
GitHub gives a code at every visit (`Grant`) and takes it once; nothing ties a
code to a state, the user is the code's, and the cookie goes to whoever posts.
A failing delete is only logged.  `tidy` goes through a store without its lock:
a write in the middle may end the process, and with it what was in memory.
`SessionKept` says that a session is kept for its whole time, for its code's
user, unless it is signed out or the process ended; that a code makes one
session at most; and that a state makes several only for calls that overlap,
each of which found the state before another one had deleted it (`met` is the
calls that had, when this one came).

### LoginManager

`token` and `renewal` are in localStorage; each tab has a flag, a timer and
requests under way.  `Serve` and `ServeFails` are the server,
`LoginReplies`, `Refresh` and their failures the callbacks; `Logout` clears
what the tab has and nothing of what is on its way, which is why `LogoutHolds`
is only about a logout with no request under way.  `RenewsInTime`: the timer of
a tab that is logged in is due a second before the token in localStorage
expires, or its refresh is under way.  Two cases are left out: another tab
stored or removed a token since, which this one does not look at (`overtaken`),
and the tab set no timer for the token it stored (`unarmed`), as the refresh at
start-up never does.  When a timer is due it may still be late: the model gives
no bound, and the property none.

### FileServer

`NewFileServer` loads `Disk` once; options and later calls give a file further
names, headers and hooks.  An alias is a second key to the same object.  A pre
hook may make another request of the one that came, and a response hook other
headers; hooks of each kind may fail.  `ServesAsApplied` compares what a
request gets with the calls in the order they were made: of the headers that no
response hook changed the last one stands, in whichever of a file's names it
was given, and the bytes are those of the path that the pre hooks left.
Content types are left out: they are computed from a file once, and nothing
that changes depends on them.  `UriAssumption` is what a directory guarantees:
a name in it is that of one file or of one directory, so no two files have the
same URI.

## Runs

| run | instance | properties |
|---|---|---|
| `access` | one invite of every shape, an admin and a plain user, two addresses, three handlers; or two accounts, two operators and a login; or one user with three tokens and a request; or three tokens in memory | `GrantsAsIssued`, `NoAttemptLost`, `AccountsJustified`, `RemovalJustified`, `AccountsHold`, `GuardsHold`, `TokensTimeOut` |
| `invites_attempts` | two sign-ups | *violated* `AttemptsWithinTTL`: concurrent sign-ups are charged once, more attempts than `TTL` get through |
| `invites_expiry` | one sign-up | *violated* `ExpiredIsGone`: a sign-up across the expiry writes the key back without one |
| `tokens` | two browsers, two requests at a time, an admin who may become a plain user, two seconds; or one browser at a time, roles that change at will, three seconds and two failures | `RevocationEnds`, `RolesRenewed` |
| `tokens_login` | one browser, one request | *violated* `StillHasRefresh`: after Login the browser's refresh token is not the stored one |
| `chat` | one sender with two messages, one listener, one repeated PUBLISH; or two users who send to each other | `HistoryAgrees`, `QuietCloseIsSafe`, the refinement `Broadcasts`, and the liveness properties `CloseEnds`, `FailureEnds`, `Delivers`, `SubscriptionEnds` |
| `chat_own_connections` | two connections of one user | *violated* `GetsOtherConnections`: a user's second tab never sees the first one's messages |
| `backups` | two updaters, durations of one and two seconds, and the loop; or a request and the loop | `WaitAgrees`, `SuccessIsStored`; `UpdatesEnd` and `ScheduleGoesOn` (liveness) |
| `geoip` | two editions that share a file, one pod, a midnight, one fault | `RestartAfterUpload`, `LatestNotEmpty`, `NeverBack`; `UpdateEnds` (liveness) |
| `api` | a start among outages; or two requests of a browser and two sessions; or two hits and the log; a kill | `QuietCountIsExact`, `CounterExpires`; `ServesAtLast` (liveness) |
| `deploy` | `lab` with two applications and three files; the older generator with three lists; `provision` with four configurations; the databases of these and their migrations | `ListedExist`, `ManifestsAgree`, `SuccessIsConfigured`, `LastOfNameGenerated`, `SuccessApplies` |
| `stores` | three creates at two workers that draw the same characters; two creators and a visitor with a token or without; two browsers with two users, states, codes and calls; two tabs; two files and four calls | `CountCovers`, `AnswerResolves`, `CreatorAdmitted`, `SessionKept`, `LogoutHolds`, `RenewsInTime`, `ServesAsApplied` |

No run repeats the type invariants: those of the modules named below are
proved, and `Accounts`, `Rooms`, `LoginManager` and `Lab` state one as well.

Bounds.  An invite is never shared state with another invite, so one is enough;
three handlers let one sign-up run through while two others hold old copies.
`MaxAttempts` bounds the attempts on an invite above the largest TTL. Two
accounts and two words are enough for one's user name to be the other's address
(`MaxUsers`); an order of the operators and of the words is fixed in
`MCAccess`, since they are interchangeable.  `MaxSigned`, `MaxMinute` and
`MaxSets`, `MaxTick` let a token end its life, a second one replace it, and the
late timer of the first come after both.  In `tokens` time ends after the
second in which every token of the first can have been replaced, revoked and
refreshed; with failures there is one more second, in which a refresh token
runs to its end, and `MaxLost` of them.  Symmetry is used in `access` and
`tokens`, which check no liveness.  In `chat` two messages show order and the
three places of the pipeline full at once with `PubAgain`; `MaxPublished` is
the number of publications up to which a PUBLISH may be repeated.  In `backups`
one and two seconds are a change of the duration in both directions, and 0
stands for the ones that are refused; `Names` only has to exceed the number of
goroutines that back up, and no counter is bounded.  In `geoip` `MaxDay` gives
one midnight, `MaxFaults` one failing call or kill for each process life.  In
`api` `MaxOutages`, `MaxKills`, `MaxRows`, `MaxServed` and `MaxCount` each let
their event happen at least once before and after another one.  In `deploy`
`MaxCuts` is the number of runs cut short, and `MaxVersion` the length of a set
of migrations; `Contents` has a policy that minio refuses. In `stores`
`MaxTries` stands for the code's 34 attempts at an id (it ends when `i > 32`,
counted from 0), `MaxDrawn` bounds the characters that a worker draws, the same
six twice before others so that ids come again, `MaxBoots` and `MaxFails` are
for restarts and failing commands, `MaxClock`, `MaxSecond` for time,
`MaxStates` and `MaxCodes` for sign-ins that are begun, `MaxCalls` for the
calls that set a file server up.  Two states and two codes let one state be
posted with two codes, and one code with two states.  Where it does not matter
who comes first (requests, creators, calls and the browser of the first one in
`stores`, operators in `access`) the constants' module fixes it.
`CHECK_DEADLOCK` is off in `access` (ids and tokens run out), `chat` (each
connection is used once), `stores` (requests, messages, calls and clocks end),
and in the violation runs of these.

Fairness is assumed in four modules.  In `ChatRoom` the Go scheduler runs every
goroutine that can go on, and calls to postgres and redis return.  A client
owes nothing: it may never send, never read and never close.  Sending to it has
no deadline, so `Send` is not among the fair steps, and writeLoop may wait in it
for ever; `Delivers` has as its premise that the client goes on reading
(`Reads`), and the other properties need none.  All liveness properties of the
room allow for the death of the process, which `ReaderClose` can cause: closing
`stop` twice panics, and in readLoop nobody recovers.
`QuietCloseIsSafe` says when it cannot happen.  In `Backups` the clock runs,
goroutines go on, and a dump and its upload end (a pg_dump that hangs holds
the loop up for ever: nothing limits it).  The three cases of the loop's
`select` are strongly fair: Go picks among ready cases at random and serves
the senders of a channel in turn, and each case is ready again after every
backup.  `ScheduleGoesOn` asks for an end of the updates: every new duration
starts the ticker over and discards a waiting tick, so updates that keep
coming faster than it ticks hold the backups off, which TLC shows when the
premise is dropped.  In `GeoipUpdate` Kubernetes starts a failed job again and
a deleted pod is started and loads; the job's goroutines go on.  That a cron
job begins at all is not assumed, and faults are finite by `MaxFaults`.  In
`Api` Kubernetes starts the process again, its goroutines go on, and the
requests need no fairness; `ServesAtLast` has as its premise that both stores
stay up from some time on.

## Proofs

Every invariant and every action property that a passing run checks is also a
theorem, for all values of the constants; so is the refinement of `ChatRoom` to
`Broadcast`.  `AccessProofs` proves for any number of invites, handlers, users,
addresses, operators, accounts, logins, tokens and requests, and any lifetimes
and clock:

| theorem | property |
|---|---|
| `TypeCorrect` | `TypeOK` of `Invites` |
| `GrantsTheorem` | `GrantsAsIssued`: neither the store nor any handler's copy grants more than was issued |
| `NoAttemptLostTheorem` | `NoAttemptLost`: an invite is refused as spent only after its attempts were let through, or charged by a SET that lost its answer |
| `AccountsTheorem` | `AccountsJustified`: accounts carry the roles and the address of their invite |
| `LinksTheorem` | `LinksKept`: who gets a link (proved, in no run) |
| `RemovalTheorem` | `RemovalJustified`, an action property: why an invite disappears |
| `AccountsHoldTheorem` | `AccountsHold`, an action property: what a login, a deletion and a run of user-gen may do to an account that somebody has |
| `GuardsTypeCorrect` | `GuardsTypeOK` |
| `GuardsTheorem` | `GuardsHold`: who passes a guard signed in with the role, renewed a token that had it, or carried it on by logging in with one |
| `MemoryTypeCorrect` | `MemoryTypeOK` |
| `TokensTimeOutTheorem` | `TokensTimeOut`: what is lost early was stored while the deletion of an older token was on its way, and nothing is forgotten |

For `Invites` the argument is one inductive invariant, `SafeInv`.  `TypeInv`
adds to the types what each `pc` means for a handler's locals.
`GrantsAsIssued` is needed for copies as well as for the store, since a copy
comes back with `PutBack`. `Counted` bounds every copy in flight by the
attempts charged when it was taken; without it the lost updates of concurrent
sign-ups could make an invite spent too early, and `NoAttemptLost` would not be
inductive.  `AccountsOK` and `Kept` are the properties with what handlers are
about to do.  The proofs rest on `ConstantsAssumption` and `NoneAssumption`,
which say that sentinels are not values; the `MaxAttempts` guard is not used to
establish anything.

`UsersInv` keeps addresses unique.  What makes `AccountsHold` hold is said of
an operator between its look-up and its write (`OperatorInv`): the id it found
was given out and is not used again; if the account is still there, its roles
can be read, and its address is the one found, unless the run found it under
its user name or was overtaken after one that did (`MayMove`), the cases that
the property allows.

`GuardsInv` says of every token that was signed why it has its roles
(`Founded`): the user was there at some minute, in which it was signed or, for
a renewed one, no more than a refresh token's life before, and had its roles
then, or, for one that was carried on, at some minute before.  Tokens age and roles
change while a request is under way, so each request carries the same fact
about its claims (`Admitted`) and, for a consent, about the roles that it
looked up (`Current`).
`DeletionInv` says of every deletion that is on its way what it may take.  Who
is about to delete has waited for the end of its own token (`Waited`), the
token that is kept is the last one and its timer fires at its end (`Newest`),
and a token that was stored with no deletion under way can only meet its own
(`OwnOnly`), so that it is not lost early.  `Reads` and `InTurn` tie the calls
and the names of tokens to it.

`TokensProofs` proves for any number of browsers and requests, any role sets
and any lifetimes and clock:

| theorem | property |
|---|---|
| `TypeCorrect` | `TypeOK` |
| `FullLifeTheorem` | `FullLife`: the stored refresh token is stored for at least its own life (proved, in no run) |
| `RevocationTheorem` | `RevocationEnds`: what a revocation that met no other request ends |
| `RolesTheorem` | `RolesRenewed`: which roles tokens have that were signed after it |

The two promises speak of every token that is held anywhere, so the invariants
carry them through the handlers.  `TypeInv` again ties locals to `pc`.
`DatesInv` adds `NotFuture`, that no held token was signed later than now;
without it "signed after the revocation" would be true of tokens that existed
before.  `EndInv` adds `Ended`: after the revocation and before the next
accepted password the store is empty and every handler is idle or about to
delete, for a refresh can only pass its comparison on a stored token.
`RenewInv` adds `Renewed`: claims and bodies in flight, and the stored token,
carry roles of `since`.  The lemma `HeldHandler` is what they share: a step
only passes on tokens that were held or signs a new one.  They rest on
`LivesAssumption` and `NoneAssumption`.

`ApiProofs` proves for any requests, browsers, sessions, stores and bounds:

| theorem | property |
|---|---|
| `TypeCorrect` | `TypeOK` of the composition |
| `ServesConnectedTheorem` | `ServesConnected`: the process serves only when both stores answered in this life of it |
| `NeverOvercountedTheorem` | `NeverOvercounted`: no session counts more than the requests that were served with it, whatever was lost, failed or killed |
| `CookieKnownTheorem` | `CookieKnown`: every cookie a browser has names a session that was stored before |
| `QuietCountTheorem` | `QuietCountIsExact`: where requests with a session never overlap and nothing fails, its count is their number |
| `CounterExpiresTheorem` | `CounterExpires`: a page's counter has its expiry, or the request that made it is still about to give it one, failed, or counted twice |

The first four are proved and in no run.
`Inv` joins the types, with what each `at` means for a request's locals
(`Typed`, `Shape`), `ConnectedInv`, that a closed channel means two
connections, and `Promise`, which bounds every copy of a session that a
request is about to write back by the number of those served, and says which
ids a request holds that are stored.

`ExactInv` is about a session as long as `exact` says that it is counted
exactly.  Then it has one request at a time (`Alone`).  Where that one stands
(`Owes`) tells how what it has read, what is stored and the number of requests
relate: equal, or one apart between counting and storing; with nobody there,
what is stored is the number (`Paid`).  The rest says that an id which is
fresh, or which a request has just made, is known to nobody else, so that a
first request starts from nothing.  `FirstInv` is `CounterExpires` with where
the request stands that found the counter missing.

`BackupsProofs` proves for any number of updaters and requests and any
durations:

| theorem | property |
|---|---|
| `TypeCorrect` | `TypeOK` |
| `SuccessTheorem` | `SuccessIsStored`: what a reported success says about the bucket |
| `WaitTheorem` | `WaitAgrees`: when the shown duration is in force |

`Files` strengthens `SuccessIsStored` by what an upload that waits for its
pg_dump has already stored, and by the fact that makes it inductive: two
latest backups with one name make it a reused one, so an upload can only spoil
files under reused names.  That a free name always exists is a counting
argument (`NameNowType`) from `NamesAssumption`.  `WaitOK` says that without a
crossing only one updater has yet to store, and holds the duration in force.

`GeoipUpdateProofs` proves for any editions, files, pods, days and faults:

| theorem | property |
|---|---|
| `TypeCorrect` | `TypeOK` |
| `RestartTheorem` | `RestartAfterUpload`: pods are deleted only when every file of every edition was stored and no goroutine of the job is left |
| `NeverBackTheorem` | `NeverBack`, an action property: a pod goes back to an older file only by a copy whose date was taken before a midnight |
| `LatestNotEmptyTheorem` | `LatestNotEmpty`: `latest` is not left empty by a job whose uploads nothing disturbed |

`StoredInv` says of every upload that is over, or about to copy, that its dated
object is stored, with a date since the process began, and that all are over
when pods are deleted.  `NewestInv` bounds what pods serve: nothing is newer
than today, and `latest`, where there is one and it is not a late copy, is at
least as new as what any pod has.  `CopiedInv` is why uploads that clear each
other's `latest` do not leave it empty: while nothing fails, once an upload is
through, either a file of today is there or an upload is between its look at
`latest` and its copy, so the last one to copy fills it again.

`StoresProofs` proves for any workers, requests, drawn characters, restarts and
bounds of `Links`, any users, creators and visitors of `Rooms`, any browsers,
users, calls and crashes of `SignIn`, any tabs and requests of `LoginManager`,
and any files, calls and options of `FileServer`:

| theorem | property |
|---|---|
| `TypeCorrect` | `TypeOK` of `Links` |
| `CountCoversTheorem` | `CountCovers`: the counter is never below the number of links |
| `AnswerResolvesTheorem` | `AnswerResolves`: an id that was answered leads to its URL until it is deleted or expires |
| `CreatorAdmittedTheorem` | `CreatorAdmitted`: who created a room gets in, and nobody else with a token |
| `SignInTypeCorrect` | `SignInTypeOK` |
| `SessionKeptTheorem` | `SessionKept`: a session is there until its end, a crash or a sign-out; one code makes one session, and one state several only for calls that overlap |
| `LogoutHoldsTheorem` | `LogoutHolds`: a tab that logged out with nothing on its way stays so |
| `RenewsInTimeTheorem` | `RenewsInTime`: the timer of a tab that is logged in is due before its token ends, or a refresh is under way |
| `ServesAsAppliedTheorem` | `ServesAsApplied`: a file is served with the last of what was set for it, but for what hooks change |

`CountInv` is a counting argument: the links together with the creates that
have counted and not yet stored, and the deletes that have removed and not yet
counted, are at most the counter, each step moving one from one place to
another.  `AnswerInv` says that no id has two links and that the link under an
answered id is of that create, since `SET NX` never writes over one; it says
nothing of how ids are drawn, and needs nothing of it.

In `Rooms`, `AdmittedInv` ties a creator's place to the tables: a room that it
has made is its own, its membership follows before it is answered, ids of rooms are
not used again, and members are only added; so a visitor that was told of a
room (`VisitorKnows`) finds its owner among them when its second query comes.

In `SignIn`, `MadeInv` keeps each session of this process in the map until its
end, which a tidying round cannot remove early, since it looks at the time
that it started with; `ChangedInv` says that a code is spent by the one call
that changed it, and `DeletedInv` that a state which some call has deleted is
not there any more, so that a call which comes later does not find it.  In
`LoginManager`, `TabsInv` says what a tab knows alone (`TabKnows`): a quiet tab
has neither timer nor login; what is on its way to a tab (`CallKnows`) excludes
that it is quiet; and `Renews` carries the promise itself.

`FilesInv` of `FileServer` compares two histories at their last entries: of all
calls that named a file under any of its names, and of the headers that the
file has collected, the last for a key are the same (`Agree`), and likewise
for what was set for all files.  It needs that names lead to objects, each
object with its own URI, which is `UriAssumption`.

`DeployProofs` proves for any configurations, forced or not, and runs that end
anywhere:

| theorem | property |
|---|---|
| `ProvisionTypeCorrect` | `ProvisionTypeOK` |
| `SuccessAppliesTheorem` | `SuccessApplies`: after a run with no error, stores and databases have what the configuration says |
| `ListedExistTheorem` | `ListedExist`: a kustomization lists files that exist |
| `SuccessIsConfiguredTheorem` | `SuccessIsConfigured`: after a success, directories hold what is configured |
| `ManifestsAgreeTheorem` | `ManifestsAgree`: selectors, ports and names of the manifests of an application meet |
| `LastOfNameTheorem` | `LastOfNameGenerated`: of applications with one name the last is generated, whole |

`ProvisionInv` has a part for each loop: of what it is through with, its items
are as configured, and no later loop takes that away.  `LabInv` follows a run
through a directory (`AppInv`: which manifests it has looked at, which file is
open, what is torn) and says of the other directories (`OthersInv`) that a
clean one was never written to or is whole.  `ManifestsAgree` follows from
`SuccessIsConfigured` by a lemma about the operators of `LabApp` alone
(`WholeAgrees`).  `GenerateInv` speaks of the first applications of the list
that a run is through with: of each name the last one so far is in the tree.
That there is a last one is found from the list, not by induction.

`ChatRoomProofs` proves for any connections, users and messages, and whatever
fails, is sent again or is missed by a subscription:

| theorem | property |
|---|---|
| `TypeCorrect` | `TypeOK` |
| `HistoryTheorem` | `HistoryAgrees`: the rows and every live view keep each sender's order, what is live has one row, and it is in this history if the client named the room |
| `BroadcastTheorem` | `Broadcasts`: the goroutines implement `Broadcast` |
| `QuietCloseTheorem` | `QuietCloseIsSafe`: `stop` is closed a second time only for a client that missed messages |
| `ThoseAppend` | what `Filters` selects from a sequence that grows by one (no property of a run) |

`HistoryInv` follows a message along its way.  `Saved` says that of each
connection the history holds nothing beyond the message that readLoop is
working on, strictly less while it is still to be saved: this is why the next
insert is new and in order, and why what is published follows all that was.
`InOrder(d)` says that on the way to `d` the order of a sender never falls:
within what was sent, from there to what writeLoop holds, to what Sub offers
and within what the subscription still has.  Without the links between the
stages none of the properties of `sent` would be inductive.

For the refinement, what waits for a client lies in three places, and
`Broadcast` sees them as one queue; the lemmas go through the steps of each
loop and show that a step is one of the room or a stutter.  `RoomInv` is what
they need besides types: a loop that ends, or a closed `stop`, belongs to a
client that has left, so that what such a loop throws away is missed by nobody
the promise is about.  `QuietInv` counts what was published for a client and is
neither sent nor waits any more (`Gap`): it is never negative, never shrinks,
and is positive for who is about to close a `stop` that is closed, because a
writeLoop gets there only with a message in hand that the socket no longer
takes.  `ThoseAppend` rests on an induction over the length of a sequence.  The
library's theorem for it takes an operator, which no prover here instantiates;
`SetInduction` speaks of the set of lengths instead, which has no least one
missing.

What the theorems rest on besides `Spec` are the assumptions on constants.
Most say that bounds are numbers and that a sentinel is no value.  Those with
more in them: `AppsAssumption` (an application of a `lab` file has its fields,
which decoding into a struct gives it, and its extra resources are not named
like its manifests), `AppListsAssumption` (the lists of the older generator are
sequences), `NothingAssumption` (no grant or policy looks like the absence of
one), `NamesAssumption` (there are names enough for backups) and
`UriAssumption`.  TLC evaluates each for the instances of the runs.

Only model-checked is liveness (`CloseEnds`, `FailureEnds`, `Delivers`,
`SubscriptionEnds`, `ServesAtLast`, `UpdatesEnd`, `ScheduleGoesOn`,
`UpdateEnds`), which rests on fairness and so on ENABLED, out of the prover's
reach; the violation runs are counterexamples, and TLC finds them.  In `Lab`,
`Generate`, `LoginManager`, `FileServer`, `Rooms` and `Accounts` the invariants
carry the type facts that they need themselves (`LabTypes`, `LoginTypes`,
`FileTypes` and so on).

## Where code, comments and expectations part

The four violation runs are disagreements with a comment, a test or the
interface, and `findings` in `PROJECT.json` quotes them.  Others were met while
modelling and are part of the models as the code has them, without a run of
their own:

- A link's `access_limit` (`services/lnsmol/src/link.rs`) is stored and
  compared nowhere: `get` never counts.  An expired link never leaves the
  counter.
- An application of `lab` with a scale from 1 to 1 and several replicas has an
  empty autoscaler listed in its kustomization.
- `GetRoom` does not select `public`, so that every room is private;
  `created_at` is set by the server when the message arrives
  (`pkg/app/chat/comms.go:130`), which is not the order of the inserts;
  `chatroom.ts` fails on a room without messages.
- `/authorize/github` is mounted for POST only (`cmd/hooks/main.go:123`), GitHub
  answers with GET; `GithubLoggedIn` compares the `Expires` of a cookie, which
  a request never has, so nobody is shown as signed in; SignOut's cookie has no
  `Path`, so the browser keeps the old one.
- `cmd/provision/main.go:29-31` prints the error and exits with 0.
- A refresh of the login manager that is under way at a logout stores a token
  again when it answers, and the refresh at start-up arms no timer
  (`LoginManager.ts:58`, `:113`).
- user-gen without `--roles` always fails; an account that signed up with a
  role that does not exist can never log in and user-gen cannot repair it.
- The not-found and failure handlers of the file server are set and never
  called (`pkg/web/serve.go`); a gzipped `.json` is served as plain text.
- `web.Guard` answers 500 to a wrong audience, `GuardMiddleware` 400; a header
  that is just `Bearer` is sliced past its end (`pkg/auth/jwt.go`).
- `Error.Is` of `pkg/web/error.go` calls itself for ever on an error of
  another type, and `WrapError` repeats a message that it wraps.

## Left to do

1. The type invariants of `Accounts`, `Rooms`, `LoginManager` and `Lab` as
   theorems, from the type facts that the invariants carry.
2. Action properties that hold by the invariants: a link under an answered id
   never changes its URL.
3. What Hydra keeps in the consent flow, as a store of its own beside
   `Guards`.

## Not modelled

E-mail texts, templates, logging and metrics, formatting of YAML and JSON, and
the error values of `pkg/web/error.go` (no state); vanity imports, the reverse
proxy and the look-ups of the geoip service (read-only after start-up); `get`
and `list` of links; the pages of a room's history (read only, and the client
fetches one); the stand-alone chat and websocket servers (experiments around
the chat package); the other commands of `lab`, and the tools under `cmd/tools`
besides user-gen and the generators (sequential, run by hand); password hashing
and signatures (assumed to do what they promise); Terraform, Ansible and the
Kubernetes configuration itself.
