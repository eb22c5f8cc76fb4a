# A TLA+ verification of tunnl

This directory holds TLA+ models of tunnl, the configurations with which TLC
checks them on small instances, and proofs that TLAPS checks for every
instance. Every definition is translated from the code under `src/`;
`PROJECT.json` names, for each one, the lines it stands for. Lines below are
those of the modelled commit.

## 1. The system

A public HTTP request for `name.base-domain` reaches the relay (`tunnld`), which
forwards it over a QUIC stream to the client (`tunnl`) that serves `name`, which
hands it to a local service.

| Component | State | Operations | Interacts with |
|---|---|---|---|
| Tunnel server (`internal/server/server.go`, `registry.go`) | `registry.sessions`: name to live session; one goroutine per QUIC connection | `handleTunnel`, `register`, `unregister`, `open`, `disconnectToken`, `Run` | clients over QUIC, the store by SQL statements, the proxy and the admin operations by the registry's lock |
| Public proxy (`server.go`) | per request: the handler, a watcher and a writer goroutine | `proxy`, `finishRequestWrite` | `net/http`, the registry, the request's stream |
| Store (`internal/store/store.go`) | SQLite: `domain_reservations`, `client_tokens`, `dns_config` | `Reserve`, `Allocate`, token and DNS rows | one connection: statements and transactions are serialised |
| Admin operations (`internal/server/admin.go`) | none of its own | `CreateToken`, `RevokeToken`, `Status`, `SetDNS`, `ReconcileDNS` | store, registry, metrics, DNS |
| Client (`internal/client`, `cmd/tunnl`) | the process's loop, the state file | `Run`, `heartbeat`, `handleStream`, `loadDomain`, `saveDomain`, the reconnect loop | relay, local service, file system |
| Metrics (`internal/server/metrics.go`) | counters, a window of samples | `sample`, `record`, `latest` | every request, `Status` |
| DNS (`internal/dns/cloudflare.go`) | two records at the provider | `Reconcile` | provider API |
| Admin handler (`internal/admin/handler.go`) | browser sessions | `loginSubmit`, `requireAuth`, `indexPage`, `logout`, the API | admin operations, the panel in the browser |
| Process (`cmd/tunnld/main.go`, `New` and `Run` in `server.go`) | what is open, a goroutine per listener, the context | start, select, shutdown | all of the above |
| Certificates (`internal/tlsutil/tls.go`) | last event and error | `onEvent`, `Status` | CertMagic |
| Names, protocol, storage figures, version, CLI, web panel | none | pure functions, types, rendering | |

What makes it hard, and so what the properties are about:

* Three views of one tunnel: the connection (QUIC), the session (registry, in
  memory) and the reservation (SQLite). Different goroutines change them at
  different times, and a restart empties two of the three.
* `handleTunnel` shares state with other actors at each of its steps: the name is
  reserved, then registered, then the displaced session is closed, then the
  Welcome is sent, and at the end the session is unregistered and closed. None of
  these steps looks at what an earlier one has found.
* `registry.register`, `open` and `disconnectToken` act on connections after they
  released the lock.
* A client can be cut off between any two steps of its own, a Welcome can be lost,
  the relay can end and start again.
* The process may fail at each step of its start, a listener may fail while others
  serve, and the shutdown waits for requests that need not end.
* The tabs of a browser share one cookie, each page keeps the CSRF token it was
  rendered with, and sessions end while requests are under way.
* A forwarded request has five parties (caller, handler, writer, client, service)
  that wait for one another through windows and buffers, and each may go away.

`PROJECT.json`, "hazards", lists these at their lines.

## 2. The modules

| Module | Models | Checked by |
|---|---|---|
| `RelayService` | what the relay promises, in six actions: an abstract specification | refinement runs and proof |
| `RelayServiceProofs` | theorems about `RelayService` | TLAPS |
| `TunnelServer` | connection handlers, registry, store, revocation, request lookup, process | `MCTunnelServer` |
| `TunnelServerProofs` | theorems about `TunnelServer` | TLAPS |
| `TunnelSystem` | `TunnelServer` composed with its clients and their state file | `MCTunnelSystem` |
| `TunnelSystemProofs` | theorems about `TunnelSystem`; extends `TunnelServerProofs` | TLAPS |
| `SavedName` | what the client relies on when it saves and loads a name: an abstract specification | refinement run and proof |
| `StateFile` | the client's state files, step by step | `MCStateFile` |
| `StateFileProofs` | theorems about `StateFile` | TLAPS |
| `Exchange` | what a public caller and a local service may rely on: an abstract specification | refinement run and proof |
| `Proxy` | forwarded requests over one tunnel, both ends of the stream | `MCProxy` |
| `ProxyProofs` | theorems about `Proxy` | TLAPS |
| `DnsReconcile` | the two DNS records, read and written against other writers | `MCDnsReconcile` |
| `DnsReconcileProofs` | theorems about `DnsReconcile` | TLAPS |
| `AdminPanel` | the sessions of the admin listener and the tabs of a browser that use them | `MCAdminPanel` |
| `AdminPanelProofs` | theorems about `AdminPanel` | TLAPS |
| `Metrics` | the counters, their sampling and the window of samples | with `Tunnld` |
| `Tunnld` | the process: start, listeners, signals, shutdown; extends `Metrics` | `MCTunnld` |
| `TunnldProofs` | theorems about `Tunnld` and `Metrics` | TLAPS |

### TunnelServer

`pc[c]` is the line of `handleTunnel` that the goroutine of connection `c` has
reached:

| `pc` | Code (`server.go`) | Next step |
|---|---|---|
| `new`, `control` | 232-246, 247 | `Accept`; `ControlStream`, `NoControlStream` |
| `hello` | 252-264 | `Hello`, `BadHello` (deadline, bad message, other version) |
| `authenticate` | 265-269 | `Authenticate`, `AuthenticationFails` |
| `reserve` | 270-290 | `Reserve` (also each attempt of `Allocate`), `ReserveFails` |
| `register` | 293, `registry.go` 36-39 | `Register`, in the lock |
| `replace` | `registry.go` 40-42 | `ClosePrevious`, after the unlock |
| `welcome` | 296-302 | `SendWelcome`, `WelcomeFails` |
| `serve` | 306-316 | `SessionEnds`, `HeartbeatFails`; a ping changes nothing |
| `unregister`, `close` | the deferred calls of 295 and 246 | `Unregister`, `CloseSession` |

`link[c]` is the QUIC connection as the server sees it. `CloseWithError` sets its
code once, and `ConnectionLost` stands for the peer, the network and the idle
timeout. `sessions` is the registry, `owner` and `managed` are the two tables.
A SQL statement or transaction is one action, since the store has one
connection. A statement may fail at any time; in particular all of those that run
with the server's context fail once it is cancelled (`mode = "draining"`).
`Revokers` run `RevokeToken` (lookup, delete, snapshot, one close after the
other), `Requests` run `registry.open` (lookup, then the stream). `Exit` ends the
process at any moment and keeps only the tables.

Names are model values; whether a name is valid is whether it is in `Domains`.
Tokens stand for their hashes. `revoked` and `seen` are history variables for the
properties. A connection runs its handler once; a reconnect is another connection,
and connections are numbered in the order of their dialling.

Definitions whose comment begins with "Faulty variant" are bugs that the code
does not have. No specification uses them: they are there to see each property
fail.

### RelayService

The reservations (`owner`), the token that serves each name (`serving`), and the
fate of each public request. A reservation never moves, only the owner serves a
name, a request is handed to the token that serves its name at that moment or is
refused, and a restart clears what is served. `TunnelServer` maps onto it by
forgetting connections: `serving[d]` is the token of the session of `d`.

### TunnelSystem

A client `k` runs `Client.Run` inside the loop of `cmd/tunnl`: `Dial`, `SendHello`,
`ReadWelcome` or `ReadRejection`, `SaveDomain` (with the printing of the URL), then it
serves until something `Breaks` and it tries again (`Retry`). `Stop` and `Start` end the
process between any two steps and start it with the same or other flags. The clients of
the model are those of one user for one relay and target, so they share one state file
(`saved`). The server's actions are those of `TunnelServer`, public requests and
revocations among them, restricted to what these clients send; its runs have no request
(`Requests = {}`), the proofs have any. `shown[k]` is the name in the last URL that `k`
printed without `--domain`. The writing of the file is one step that may fail if
`SaveFails`, and a process that is killed in it leaves the old name or the new one.
`StateFile` is why one step is enough where `os.Rename` replaces a file and the machine
keeps its power; where it does not replace, a reader may find no name for a moment, and
a power failure may bring an older content back, which `TunnelSystem` does not have. The
delay between attempts is a step of its own without duration.

### StateFile and SavedName

`StateFile` has a step for each thing `saveDomainAt` and `loadDomainAt` do to what
other processes see: filling the temporary file (private, hence one step), the
rename, the refusal of the rename where the destination is in the way, the removal
of the destination, the second rename; the reading of the file, then of the
`state.json` of older versions. `replaces` and `readable` are chosen once: whether
`os.Rename` replaces a file, and whether a file that exists can always be read
(`loadDomainAt` takes any error for absence). A process may be killed at each step.
The data of the temporary file are synced and the directory is not, so `past[k]`
holds what a power failure may leave of a file: each content since the directory
was last written back, or `Torn` for one that was renamed without being synced.

`SavedName` is one stored name per key. A save takes effect at one moment and a load
answers with what is stored at one moment. Where renaming does not replace, the
name may be missing in between (`Vacate`). The mapping takes the effect of a load
at its first read: when the file tells nothing, the answer is settled, since
`state.json` is never written.

### Proxy

One tunnel, and per request: the caller, the handler (`Server.proxy`), the
goroutine in `outgoing.Write`, the watcher, the client's `handleStream` and the
local service. A message is a head and some parts, and each hand along the way
has a counter of what it has passed on, so the difference of two neighbours is
what lies between them: in a QUIC window (`Window`), in a `bufio` or `net/http`
buffer (`Buffer`), or with the caller. A part is about as large as such a buffer.
`upEnd` and `downEnd` are the two directions of the stream. Modelled from how the
code uses them and marked external: a stream of quic-go is over, and gives back
its place among `MaxIncomingStreams`, when its reader has read the end or
cancelled and its writer has closed; `net/http` sees that a caller left when it
reads from the connection or writes to it, keeps what fits its buffer until the
handler returns, and ends a chunked answer when the handler returns. It is the
HTTP/1.1 caller that is modelled. A handler whose caller has left therefore goes on as
long as what it copies fits the buffer (`FitsBuffer`), and its copying fails with the
first part that does not (`CopyFails`). The watcher is taken to wait in its `select`
when the context is done.

### Exchange

What is left of a forwarded request without streams, buffers and goroutines: how it
ends for the caller (`fate`), what the caller has sent and the client has of it, what
the service answers and the caller has of that. A request is handed to the tunnel or
refused, never both; the client gets what was sent, the caller what was answered; an
error of the relay follows no part of an answer; an announced length that is not
reached does not end as complete. `Proxy` maps onto it by forgetting who holds what
(`Promise`): only the first and the last hand along the way are visible, so that most
steps of the goroutines are stutters.

### DnsReconcile

A call of `ReconcileDNS` reads the configuration once and then, for the wildcard and for
the relay name, lists (`List`) and writes (`Write`: PUT with the id that it found, POST
where it found none). Each request is a step, and a failure of any check or request is
`Fails`. A write that the call gives up on (`GivesUp`) is still on its way and takes
effect later (`Lands`), or never. `OtherWrites` is whoever else edits the zone, and may
also put the comment away or remove a record; `OtherRedirects` keeps the comment.
External: the provider gives each record an id that is not used again, and a PUT to a
record that was removed fails. `touched`, `alone` and `overlap` are there for the
properties.

### AdminPanel

An id stands for a session and its CSRF token. `sessions` is `h.sessions`: an
expired session stays in the map until its cookie is shown again. `cookie` is the
one of the browser; `page` and `csrf` are what each tab shows and the token in it.
A request carries the cookie and the token of the moment it was sent, and is a
member of `requests` with its progress (`at`): sent, past `requireAuth`, or which
answer it got. The lock is held by `authorize`, `loginSubmit` and `logout` each by
itself, so that `RequireAuth` and the handler behind it (`IndexPage`, `Logout`,
`CallBackend`) are two steps. `LoginPage` and `LoginSubmit` are not behind
`requireAuth`. Modelled from how the code uses it: the browser, which follows
redirects, drops the calls of a page it leaves, and keeps the cookie of any answer
that arrives. A `logout` whose page was left still counts for the cookie. `fetch`
follows a redirect as well, which is what `/logout` answers without a session; the
panel then shows an error and stays.

### Metrics and Tunnld

A request adds to `totalRequests` and, if it fails, to `failedRequests`. A call of
`record` loads one after the other and then, under the lock, appends the
differences to the last record (`Tick`, `LoadFailures`, `Record`). The counters
are unsigned and wrap at `Width`. `readings` is a history variable.

`main` is the line the main goroutine has reached:

| `main` | Code | Next step |
|---|---|---|
| `check`, `open` | `main.go` 66-80, `server.go` 67-104 | `Starts`, `Refuses` |
| `configure` | `server.go` 108-124 | `Starts`, `ConfigureFails` |
| `certificate`, `sample` | 131-150 | `Starts`, `RunFails`, `TakesSample` |
| `listen` | 159-192 | `Listen`, `RunFails` |
| `select` | 206-211 | `Select` |
| `shutdown`, `wait` | 195-204 | `CloseQUIC`, `Returns` |
| `unwind` | the deferred calls of `Run` and of `main.go` | `Unwind` |

`server[h]` is the goroutine of an HTTP listener, which may not have started yet
when the shutdown begins, and what it has sent to `errorsChannel`; `accepting` is
the one of `acceptTunnels`. `opened` is what has to be closed again. `BeginShutdown`
and `ShutdownReturns` are the goroutine that shuts one server down. A public
request is at its listener until it is answered, fails, or is `cut` by the end of
the process.

## 3. The runs

| Run | Question | Instance |
|---|---|---|
| `server_safety` | types, `SessionsOwned`, `WelcomeIsKept`, `NoOrphanedTunnel`, `RoutedToOwner`, `RevocationCloses`, `VacatedByItsHandler`, refinement of `RelayService` | 2 connections, a bootstrap and a managed token, 2 names, a revocation, a request |
| `system_names` | `AskedNameWasGranted`, `ShownUrlIsServed`, `NameIsStable` | 1 machine, run without `--domain` under either of 2 tokens and with it under one of them, 3 connections, 2 names |
| `system_liveness` | `NoAttachmentToTheUnregistered`, `GoneClientExpires`, `DeadSessionLeaves`, `HandshakeEnds` | 1 client, 2 connections, writes of the state file that fail |
| `state_file` | types, `NeverTorn`, refinement of `SavedName` | 3 concurrent calls, 1 key, 2 names, both kinds of `os.Rename` |
| `dns_records` | types, `NoSecondRecord`, `OverwritesOnlyTheEdited`, `SuccessPointsBoth` | 2 calls, 3 records, 2 IPv4 targets and 1 IPv6 target |
| `proxy_ends` | types, `BodyIsReleased`, `StreamedWithBackpressure`, `NobodyWaitsInACircle`, `RequestEnds`, `AbandonedRequestStops`, refinement of `Exchange` | 1 request, up to 3 parts of a body, 2 of an answer, window 1 |
| `admin_panel` | types, `EndedSessionActsNoMore`, `LogoutEndsItsPage`, `LoadEnds`, `EndedPanelLeaves` | 2 tabs, 2 sessions, 1 call of a page under way (`Fetching`) beside the loads |
| `tunnld_process` | types, `EverythingReleased`, `RequestsDrained`, `HistoryIsTheWindow`, `NoSampleWraps`, `RelayEnds` | 2 HTTP listeners, 1 public request, 2 calls of `sample`, a window of 2 samples (`Limit`), counters modulo 16 (`Width`) |

Why the bounds are enough: the races of the registry are between a displaced handler,
its successor and one more actor (a revocation, a request, the end of the process), so
two connections and one of each show them; longer chains of displacements, and several
revocations or requests at once, are what the proofs cover. `system_names` has no
revocation: with one its states no longer fit a run, and the revoker meets nothing in
the clients that it does not meet in `server_safety`. Two names and two tokens are
needed for a conflict and a bystander. In `TunnelSystem` a second connection is the
first reconnect. With the third one of `system_names` a reconnect follows a Welcome that
was lost after an earlier one was printed, or a run of the other token or with
`--domain`. Its states fit the run by `ThirdAfterTwoWelcomes`: the third connection is
dialled while the relay is up, when the first two were answered with a Welcome and their
handlers have ended. The first two overlap as they like, and three handlers that overlap
are left to the proofs, which have any number of connections. Keys of `StateFile` have
files of their own, so one is enough; three calls are two savers and a reader. The run
takes states that differ only in the argument of a save that is over as one
(`NamesInUse`): nothing reads it. In `Proxy` a window of one piece and a buffer of one
make every writer wait as soon as two pieces are under way. Two calls of
`DnsReconcile` are a call and the one it overlaps with or the one that repeats it; three
ids leave one more than the two names need, for a second record or a foreign one. In
`AdminPanel` two tabs and two sessions are the page that was rendered before a login and
the one after it; a third session would be a second replacement. `Fetching` bounds the
calls of pages that are under way at once; a call of one tab overlaps the loads of the
other. In `Tunnld` one request is enough to be under way in a shutdown and to arrive or
to fail between two loads of a sample; a second call of `sample` is there for the one
that would overlap the first. Two samples and two calls fill the window and push a
sample out, since a call is repeated. Deadlock is checked except in `Proxy`, where a
request that has ended leaves nothing to do, and in `Tunnld`, whose process exits. The
proofs lift the bounds for what they cover.

### Where the code and its documents disagree

Each is a run that TLC must find violated, with the quoted line in `PROJECT.json`,
"findings":

* `server_revoked_online`: a handler that authenticated before the deletion may
  register after `disconnectToken` looked. The revoked token stays online, although
  `RevokeToken` has returned. What does hold is `RevocationCloses`.
* `proxy_early_answer`: the answer to a caller that pauses its upload to wait for
  it stays in the buffer of `net/http`, since the handler waits for the upload.
* `proxy_credit`: the client never reads the end of a request's stream, so the
  stream is never given back; after `MaxIncomingStreams` requests the tunnel
  refuses every other one.
* `dns_overwritten`: a call lists a record with tunnl's comment, somebody else takes
  the record over, and the PUT overwrites it, although tunnl "refuses to overwrite
  records it does not own". What does hold is `OverwritesOnlyTheEdited`: a record that
  was not tunnl's when it was listed, or that appeared since, is never overwritten.

Two more have no run of their own:

* "Random subdomains are saved locally and reused automatically" (`src/README.md:13` and 39):
  `Client.Run` saves the name of every Welcome under relay and target
  (`client.go:112`), so a run with `--domain` overwrites the random name, and later runs
  without `--domain` get the other one. `NameIsStable` allows this change and no other.
  A run without `--domain` under another token asks for the saved name as well, is
  refused (`ErrDomainTaken`) and ends; the name stays reserved for the first token,
  which is what `AskedNameWasGranted` says.
* "A reconnect with the same token atomically replaces an older connection"
  (`src/README.md:221`): the last handler to reach `register` wins, whichever connection is
  the newer one, and the other is closed after the unlock, when it is out of the
  registry but not yet closed. What does hold are `NoOrphanedTunnel` and
  `NoAttachmentToTheUnregistered`: it gets closed, and its client gets to know.

Beside these, outcomes that the models take and no property forbids:

* `DeleteClientToken` may take effect and yet return an error, in which case
  `RevokeToken` does not disconnect, and a second call finds no token.
* Two overlapping calls of `ReconcileDNS`, or one that repeats a call whose POST is
  still on its way, may both create a record; every later call then refuses to
  choose among them. A target that changes from IPv4 to IPv6 leaves the A records.
* When the state file cannot be written, `Client.Run` only logs it, and the same
  process is given another random name at its next reconnect: `NameIsStable` is
  violated with `SaveFails = TRUE`, and `system_names` assumes `FALSE`.
* Any failure that the relay answers with an error Welcome ends the client, also
  one that will pass, such as a database error or the cancelled context of a relay
  that is shutting down (`AuthenticationFails`, `ReserveFails`).
* A chunked answer that breaks off ends for the caller like a complete one: the
  handler has nothing else to say once the head is sent, and `net/http` ends the
  answer when the handler returns.
* After a second login in another tab, a page of the first session goes on
  showing what it polls, but each change, and its logout, is refused for the CSRF
  token until it is loaded again. The session that the login replaced stays live
  for its 12 hours; an expired one stays in the map until its cookie is shown.
* The answer of a logout that arrives after a newer login removes the cookie of
  that login: cookies are removed by name.
* An operation that `requireAuth` has let in runs, though its session is logged
  out of before it does.
* A listener that fails while a signal arrives during the shutdown counts as asked
  for: `tunnld` exits with 0 (`Outcome`). Samples end with the signal, not with the
  shutdown.
* The failures of one sample may exceed its requests, since they are loaded later;
  the panel then shows more than 100 %. When the clock is set back, `record` leaves
  the rates of that sample at 0 and moves on, so that those requests are in no rate
  (the model has counts, not rates).
* `tunnld` refuses to start without bootstrap tokens (`main.go:77`), although `New`
  admits a relay that has managed tokens only. A base domain with capitals serves
  no tunnel, since `proxy` compares it with the lower-cased host (`server.go:362`).
  Both are comparisons that the models do not contain.

## 4. Fairness

* In `TunnelSystem`, a handler goroutine that can take a step takes one (`GoesOn`); a
  deadline the code sets passes (10 seconds for the Hello, 15 for a stream). Nothing
  is assumed of the operator or of the end of the process, nor that a Hello that was
  sent arrives. `AcceptStream` of the control stream has no deadline, so no step is
  assumed there. A client goes on where it waits for nobody and notices a closed
  connection (its own idle timeout is 45 seconds). The server's heartbeat deadline
  passes only for clients that are gone: a live one sends pings in time.
* In `Proxy`, `CodeFairness` covers the goroutines. `ServiceFairness`: the service
  answers and ends its answer, as long as its caller is there or the writer waits
  for the window; nothing is assumed of it once a request was abandoned, which is
  the point of `AbandonedRequestStops`. `CallerFairness`: the caller sends its body.
* In `AdminPanel`, what is under way for a tab is handled or answered unless it is
  lost, and a panel goes on polling (`setInterval`); since `Lost` leaves polls out,
  not every one of them is lost. Nothing is assumed of the user.
* In `Tunnld`, the main goroutine and those of the shutdown go on, the first sample
  is taken, and the 15 seconds pass. Nothing is assumed of requests and listeners.

## 5. The proofs

`TunnelServerProofs` proves, for every value of the constants that satisfies
`ConstantsAssumption` (bootstrap tokens are tokens, the null values are not
values, connections are numbers):

* `TypeCorrect`, and `Invariance`: `Spec => []IInv`. None of the safety invariants is
  inductive alone. `SessionsOwned` needs to know that a handler about to register holds
  the reservation (`HandlersHoldNames`) and that a registered session has a handler that
  is still online (`RegisteredOnline`); `RoutedToOwner` needs that the session a request
  found has been registered once (`RequestsHoldSessions`); `RevocationCloses` needs, for
  each step of a revocation, where the tunnels are that it has not closed yet
  (`RevocationReaches`). `IInv` is the conjunction; TLC found it to hold on the instance
  of `server_safety` before it was proved. There is a lemma for each conjunct, with a
  case for each action that can disturb it and one for all the others.
* The corollaries `OwnershipOfSessions`, `WelcomesAreKept`, `NoTunnelOrphaned`,
  `RequestsReachOwner`, `RevocationsClose`, and the action property
  `OnlyItsHandlerVacates`.
* `RevokedStaysOut`: once the row of a managed token is deleted, no handler gets past
  the authentication with it. This is the half of `RevokedTokenOffline` that does hold:
  `server_revoked_online` shows the other one, a handler that is past the
  authentication already. It needs that a revoked token is neither a bootstrap token
  nor managed again, since new tokens are fresh (`RevokedIsNotManaged`).
* `Refinement`: `Spec => ImplementsService`. A step of a handler, a revocation or
  the process maps to one step of `RelayService` or to a stutter.

`RelayServiceProofs` proves what the abstract service is worth (`ServiceIsOwners`,
`ServiceNamesStay`, `ServiceFateIsFinal`): only its owner serves a name, no action
takes a reservation away, no request is decided twice. Nothing is assumed. An
implementation inherits these with its refinement.

`StateFileProofs` proves, for any number of calls, keys and names (under
`FileAssumption`: the null values are not names):

* `FileTypeCorrect` and `NeverTornAlways`, from `FileInv`. That no file is torn is
  not inductive: it needs that nothing a power failure may leave is torn, and that
  a call about to rename has synced its file (`SyncedBeforeRename`).
* `StateRefinement`: `Spec => ImplementsSavedName`. It needs besides that a file is
  removed only where renaming does not replace it (`RemovedWhereNeeded`).

`DnsReconcileProofs` proves, for any number of calls, records and targets (under
`DnsAssumption`):

* `DnsTypeCorrect`, and `ForeignRecordsKept` (`OverwritesOnlyTheEdited`), from `DnsInv`:
  a record that a call found and is about to overwrite is gone, is tunnl's, or was
  written since (`FoundIsOursOrTouched`). The strict form, `OthersRecordsKept`, is the
  one that `dns_overwritten` violates.
* `SecondRecordNever`, from `SingleInv`: before any overlap one call at most is under
  way, and the only record of tunnl for what it is about to write is the one it has
  found (`FoundAll`). Neither is implied by the property, and both are needed.

* `SuccessIsComplete`, from `AloneInv`: a call beside which nobody has written knows
  the one record there is, and has left the wildcard as it shall be. It needs that
  there are finitely many records, since the code counts what a listing returns.

`TunnelSystemProofs` proves, for any number of clients and connections (under
`ClientAssumption` besides: a client is started with some flags, whose token is a
token):

* `RelayOfSystem`: `SystemSpec => Spec`. The clients take no step that the relay
  alone does not allow, so what `TunnelServerProofs` has holds of the system.
* `ClientTypeCorrect` and `SavedNameStaysOurs`, from `SystemInv`: the token of a
  connection is the one of who dialled it (`DialledTokens`), and who is about to
  save a name has read a Welcome (`WelcomesRead`). With `WelcomeIsKept` and the fact
  that a reservation never moves (`OwnerStays`), the file holds a name of the user's.
* `AskedNamesWereGranted`: `AskedNameWasGranted`, for any flags, failing writes and
  kills, from `HelloInv` and `GrantInv`. `HelloInv` relates a client to its connection:
  no other client has it (`ConnectionsApart`), it was dialled with the client's flags
  (`DialledOnce`), and what was asked for by name is what the handler works on
  (`HelloAnswered`). By `GrantInv` the file, and every Hello that asks for a name which
  was in it, holds one of a Welcome (`SavedWasGranted`, `SentWasGranted`); a Welcome is
  not taken back, and its name stays reserved (`WelcomeIsKept`).
* `ReservationsNeverMove` and `RequestsAreDecidedOnce`, inherited from `RelayService`
  by `RelayOfSystem` and `Refinement`. Neither is stated about connections anywhere.
* `ShownUrlsAreServed`: `ShownUrlIsServed`, from `UrlInv`: the connection of a client is
  its own, dialled with the flags it has (`ConnectionIsOwn`), the URL it shows is the
  one of a Welcome that was sent (`ShownIsWelcomed`), and a handler that has returned
  has closed its connection (`DoneIsClosed`). Then `NoOrphanedTunnel` says the rest: a
  tunnel that may think itself online is registered, or who displaced it is about to
  close it.
* `ShownUrlsArePrivate`: the name of a URL that was printed stays reserved for a token
  of the machine, and no request for it reaches a tunnel of anybody else. It joins
  `ShownIsOurs` with `RoutedToOwner`.
* `NameStays`: `NameIsStable`, under `QuietMachine`: one `tunnl` at a time, and a file
  that can be written. Both are needed: section 3 tells of the second, and of two
  clients that start with an empty file both are given a name, of which one is lost.
  The flags of the runs are any. The invariant adds to `HelloInv` that a client waits
  for the name it wants (`AsksForWanted`), and that the name shown is in the file, or
  what is there instead was asked for with `--domain` under the token that owns it
  (`ShownIsSaved`).

`ProxyProofs` proves, for any number of requests, windows, buffers and messages (under
`ProxyAssumption`):

* `ProxyTypeCorrect`, which includes that no hand has passed on more than the one before
  it, and `BodiesAreReleased`. The first needs that a writer that flushes has something
  to write and that a client has written nothing before it answers; the second that
  the writer begins within the call of its handler.
* `Backpressure`: no more than a window and a buffer is between who writes and who
  reads, in both directions, from `HeldInv`, which bounds each stretch by itself.
* `ProxyRefinement`: `Spec => ImplementsExchange`, by `ExchangeInv`: how far the answer
  is, by the step of the client (`AnswerFits`), and how the request ends, by the step of
  the handler (`OutcomeFits`). There is a lemma for each action, which gives the step of
  `Exchange` that it is. `RefusedStayUntouched` and `CompleteAnswersAreWhole` are
  corollaries of the same invariant.
* `NoCircularWait`: whatever the state of a request under way, somebody can go on.
  ENABLED is out of the prover's reach, so what each party waits for is written out
  from the guards of its steps. It needs `WriterInv`: a writer is done when all of the
  request is in the stream or nothing more can be, a handler that waits for the writer
  has stopped the stream, and a client that has ended has ended its answer
  (`WriterDuty`).

`TunnldProofs` proves, for any set of listeners, requests and calls of `sample`, any
`Limit` and any `Width` (under `TunnldAssumption` and `MetricsAssumption`):

* `TunnldTypeCorrect`, and `AllIsReleased`, `RequestsAreDrained`, `UnaskedEndFails`,
  from `ProcessInv`: whatever is open is closed by a deferred call or is the socket
  of a listener that nobody has shut down yet (`OpenIsClosedLater`), goroutines are
  in step with the main one (`GoroutinesInStep`), a server that is shut down has no
  request left (`DrainedIsEmpty`), and the relay ends because it was told to or with
  the error it has received (`AskedOrFailed`).
* `SamplesNeverWrap` and `HistoryIsExact`, from `HistoryInv`: a reading is not
  behind the last record (`LoadedInOrder`), since one call of `sample` is under way
  at a time, and the last record is the last of the readings (`ReadingsAreRecent`).
  That the totals are the numbers of requests that were counted and that failed
  (`CountsAreExact`) is what their types rest on.

`AdminPanelProofs` proves, for any number of tabs, sessions and calls under way (under
`PanelAssumption`), `PanelTypeCorrect`, `EndedSessionsStayOut` and `LogoutsEndTheirPages`,
from `PanelInv`: the session of a cookie was opened, so that no later login makes it
live again (`CookieWasIssued`), what is known of the session at each step of a request
(`RequestFits`), and a tab that loads has one load under way (`OneLoad`). That a
session that has ended does not come back is what its step lemmas rest on
(`SessionsGoOn`).

Every safety property that a passing run checks is proved, and every action property and
refinement. Some properties are proved without a run: `RevokedLetsNobodyIn`,
`SavedNameIsOurs`, `ShownUrlIsPrivate`, `UnaskedEndIsAnError`, `RefusedIsUntouched`, `CompleteIsWhole`,
`OnlyOwnersServe`, `HandedToOwner`, `NamesStayOwned`, `FateIsFinal`, and the inductive
invariants. Only model-checked are the liveness properties
(`NoAttachmentToTheUnregistered`, `GoneClientExpires`, `DeadSessionLeaves`,
`HandshakeEnds`, `RequestEnds`, `AbandonedRequestStops`, `LoadEnds`, `EndedPanelLeaves`,
`RelayEnds`): fairness is out of the prover's reach. No model has a recursive operator,
and no proof an induction over data.

## 6. Not modelled

* String handling: `Normalize`, `hostWithoutPort` and the routes of `ServeHTTP`,
  headers, paths, cookies and JSON. The models take what such a function decides as
  a choice; what is left are comparisons, for which the unit tests are the right
  tool.
* Steps without effect on what the properties speak of: the closing of response and
  request bodies, the 500 of `loginSubmit` when no random session can be made, a sample
  taken after the signal has arrived, and a reservation that is committed although
  `Reserve` reports an error (a commit followed by a lost Welcome leaves the same reservation).
* HTTP/2 callers, whose streams `net/http` multiplexes by itself.
* `Source.Status`: a case distinction over the last event of CertMagic. A model
  would have to invent the order of the events, and nothing states what the panel
  shall show after several of them.
* The figures of `Status` and of the storage, which are read and displayed; the rates
  of the metrics; the command lines of `tunnl` and `tunnld admin`, which make one
  request per call; the rendering of the panel.

`PROJECT.json`, "components", gives the reason for each part.

## 7. Plan

1. Done: `RelayService`, `TunnelServer`, `TunnelSystem`, `Exchange`, `Proxy`,
   `SavedName`, `StateFile`, `DnsReconcile`, `AdminPanel`, `Metrics`, `Tunnld`, each
   with its proofs or refined by a module that has them.
2. What would come next: abstract specifications of the metrics and of a DNS call,
   for which the safety properties stand now; the composition of `Proxy` with
   `TunnelServer`, so that a request keeps its tunnel's fate; the choice of the tunnel
   from the Host header, if more than comparisons is done there.
