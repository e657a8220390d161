# Verification of the multi-tenant OAuth SMTP proxy

TLA+ specifications of the proxy in `src/`, model-checked with TLC on small
instances, with theorems proved by TLAPS for all values of the constants.
Paths below are relative to the repository (`proxy/...`, `admin/...`).

## 1. The system

Devices speak SMTP to a tenant's container. Postfix queues each mail and hands
it to one run of `oauth_deliver.py`, which gets a Microsoft token, transmits
the mail (Graph API or SMTP with XOAUTH2), reports to the admin service and
tells Postfix with its exit status what to do with the mail. The admin service
(FastAPI, one event loop, SQLite) keeps tenants, accounts and logs, writes one
configuration file per tenant and drives the containers through Docker.

| Component | State | Operations | Interacts with |
|---|---|---|---|
| Delivery script `proxy/app/oauth_deliver.py` | none of its own; a run in progress | `main`, `get_token`, two relay functions, `report_to_admin` | Postfix (spawn, exit status), Microsoft 365, admin service, local copy of the configuration |
| Postfix, Dovecot `proxy/postfix`, `proxy/dovecot` | mail queue on the data volume, credentials file | accept, retry, expire, bounce | devices, delivery script |
| Container start `proxy/app/start.sh`, `configure.py` | certificate pair on the volume; generated files and local copy in the container | load, generate, copy, start | configuration file (written by the admin service), Docker |
| Tenant management `admin/app/routes/tenant_routes.py` | tables `tenants`, `oauth_configs` | create, edit, start, stop, delete, add and remove accounts | Docker manager, browsers |
| Docker manager `admin/app/docker_manager.py` | configuration files, containers, volumes (all keyed by tenant id) | write file, start, stop, remove, status, next port | Docker |
| Admin login `admin/app/auth.py`, `routes/auth_routes.py`, `routes/log_routes.py` | table `brute_force_records` | is_locked, record_failure, record_success, reset | browsers, SQLite's writer lock |
| Two-factor set-up, sessions, start-up `auth_routes.py`, `security.py`, `main.py` | table `admin_users`; session tokens in browsers | view, confirm, login, create the account | browsers, the clock |
| Mail log `routes/log_routes.py` | table `mail_logs` | insert a reported row | delivery script |
| aiosmtpd engine: server `proxy/app/smtp_server.py`, `main.py` | authenticated peers, its own `mail_logs` | AUTH, DATA, QUIT | devices, aiosmtpd, lockout, relay |
| aiosmtpd engine: tokens, relay `oauth_client.py`, `mail_relay.py` | token cache, refresh token in memory | get a token, relay | Microsoft, threads of the executor |
| aiosmtpd engine: lockout, API `brute_force.py`, `api.py` | counters by address | is_locked, record, reset | two event loops |
| aiosmtpd engine: certificate `cert_manager.py` | certificate pair | create, renew | file system |

The engine is the repository's second implementation of a tenant's relay. Its
code is kept, but `proxy/Dockerfile` does not copy it into the image.

What is hard here:

* **Repeated, half-finished deliveries.** A run may fail, hang, be killed or
  lose its container between any two calls; Postfix, or with the engine the
  device, tries again.
* **Contracts by exit status and by id.** The script's exit status, the tenant
  id in the names of file, container and volume, and the address and port of a
  connection stand for more than they can carry.
* **Awaits.** A handler reads the database, a cache or a counter, awaits, and
  acts on what it read; others run in between. A cancelled handler leaves its
  thread behind.
* **Several copies of one truth.** A tenant's settings exist as a row, a file,
  generated Postfix and Dovecot files and a local copy, each written at another
  time, some of them while another process reads. The engine keeps tokens and
  rotated refresh tokens apart from their issuer.

`PROJECT.json` lists each hazard at its line, with the properties about it.

## 2. Modules

| Module | Models | Proofs |
|---|---|---|
| `MailRelay` | the promise: what a relay that took over a mail owes it (at-least-once) | |
| `SubmissionGate` | the promise: who may hand in mail, and how many passwords an address may try | |
| `OAuthDelivery` | `oauth_deliver.py` under Postfix; implements `MailRelay` | `OAuthDeliveryProofs` |
| `ContainerStart` | `start.sh`, `configure.py`, rewrites of the configuration file, stops | `ContainerStartProofs` |
| `TenantAdmin` | tenant handlers with their awaits, Docker manager, containers as black boxes | `TenantAdminProofs` |
| `AdminLogin` | the failure counter of one address, SQLite's writer lock | `AdminLoginProofs` |
| `AdminAccount` | the account, its second factor and the session tokens | `AdminAccountProofs` |
| `SmtpAuth` | the engine's connections: STARTTLS, AUTH, lockout, acceptance of DATA; implements `SubmissionGate` | `SmtpAuthProofs` |
| `SmtpData` | the engine's handling of an accepted mail; implements `MailRelay` | `SmtpDataProofs` |
| `TokenCache` | the engine's shared access token and rotated refresh token | `TokenCacheProofs` |
| `MC*` | instances for TLC | |

Two relays, one promise: `MailRelay` knows phases only. A mail is taken over,
transmitted any number of times while held, discharged once each recipient was
accepted or refused upstream, or bounced while held. Its constant `Strays`
admits transmissions of mails no longer held. `OAuthDelivery` implements it
without strays, because pipe(8) keeps at most one run for a mail and ends it;
`SmtpData` only with them, because a thread outlives its handler.

`SubmissionGate` knows neither connections nor the places where the engine
remembers who is who: addresses are shut or not, peers are being judged, inside,
or neither. It does not promise that a password is judged only while the address
is not shut, since the engine does not keep that: being let in counts.

### OAuthDelivery

`job[m].pc` is the point of `main` a run has reached: `token` (line 238),
`relay` (246-249), `report` (in `report_to_admin`), `exit`. What the run is
about to report and to return is kept in the same record, as `main` decides
both at once. `config` is the local copy, abstracted to what `main` looks at:
can it be read, which entries have a sender, their flow, is there a refresh
token. `queue` is Postfix's view. `sent`, `reached`, `refused` are history: what
Microsoft 365 accepted. `successRows` and `failureRows` are the rows the admin
service inserted.

Postfix is an environment: `SoftExits` are the exit statuses after which it
keeps a mail. The docstring expects it to be `{1}`; pipe(8) takes the temporary
failure of `sysexits.h`, `{75}`. The safety runs use the docstring's reading,
so that they say something about the script, and a run of its own shows the
difference. `KillJob` is pipe(8)'s time limit, `Expire` the queue lifetime,
`Restart` a stop of the container at any point, after which the script finds
whatever configuration has been written by then. `main`'s check of its arguments,
the one place that returns 2, is left out: the command line in `master.cf` always
has a sender and a recipient. `RelayRefinement` maps `queued`
and `active` to `held`.

### ContainerStart

`pc` goes through `start.sh` and, between `load` and `dovecot`, through the files
`configure.py` writes; `open` tells that the file at hand is truncated. `disk`
keeps for each file the configuration it was made from. Stops leave `disk` as it
is, `Recreate` keeps the volume's part only. The admin service's write has two
steps too. `Following` is the order of the calls in `configure.py`'s `main`,
which `ServesOneVersion` rests on. The transport map and aliases, which do not
depend on the configuration, are left out, as is the case of a certificate the
operator mounts.

### TenantAdmin

A request in progress (`req[r]`) carries what the coroutine carries over an
await: the tenant object as loaded (`row`), as assigned (`new`), the accounts
it selected. One action is what runs between two awaits; Docker calls are
synchronous and belong to the action they are made in. `EditCommit` writes the
columns that changed (SQLAlchemy's flush) and fails if the row is gone;
`ObjectAfter` is `expire_on_commit=False`: the request goes on with its own
object, not with the row. A request may end at any await (`Abandon`: a statement
or a Docker call fails, the admin service stops), and Docker may fail the status
or stop call of an edit whose file is already written (`EditApply`), which leaves
the old container running. `Launch` collects the outcomes of removing the old
container and running a new one: running, created only (the port is taken), or
none. The configuration is abstracted to the customer, one value for all the
settings an edit changes, and the accounts. The ids are numbers because
SQLite's choice (largest plus one) is part of the behaviour. Mail in a volume is
tagged with its customer; `relayed` records under which account it left.

Three history variables name what the properties exclude. `held` are the customers
an id was ever given to. `brokenOff` are the tenants whose last edit was committed
and ended before the restart it owed the container: nothing in the code notices,
so that the old settings stay until the next edit, or until somebody starts the
stopped container. `met` are the ids that two requests worked on at the
same time: `Load` adds an id when a second request loads its tenant before the
first has returned (`Meeting`). Nothing in the code serialises the requests on
one tenant, and where they meet, container, file and rows can part (a start
between the two halves of a delete leaves a container without a tenant, an edit
can write a file from an older object); the properties say that this is the only
way. Requests can also meet without being called for one tenant: `tenant_delete`
and `oauth_delete` delete account rows by the keys they loaded before an await,
and SQLite may have given such a key to another tenant's account meanwhile.
`DeleteAccounts` therefore adds the tenants whose rows it deletes while another
request works on them; without that, `EditLeavesFileCurrent` fails after seven
requests.

The columns `container_id`, `container_name` and `container_status` are written
and never read; they are left out. The file is written in one step here; that a
reader may find it truncated is `ContainerStart`'s.

### AdminLogin

One address's row, `None` until the first login's INSERT. A request is cut at
its awaits: SELECT in `is_locked`, the judgement with its commit, password and
code, the second SELECT, the commit. `Commit` writes changed columns only;
`writer` is SQLite's writer lock, held from an uncommitted INSERT to the commit
or the closing of the session. Time is the lock's state: `active` or `expired`.
`LockExpires` fires only when every request under way began under the lock, as
locks last minutes and requests do not. `overlap` (history) tells whether a request
ever began before another had ended, which is what `CountIsExact` must exclude, and
`crowded` whether one began before two others had, which `FailuresBounded` must.

### AdminAccount

The row of the one administrator, and which kinds of session tokens are still
good: `coded` if the login gave a TOTP code, `plain` if it gave none. A token is
signed and not stored, so that nothing but its age ends it. Requests are cut at
their awaits: a first view of the set-up page between finding no secret and
storing one, its check between accepting a code and the commit, a login between
its judgement and the token. `shown` are the secrets some page showed, the only
ones a code can be of. `overlap` (history): a first view began while another was
between its two steps. `Restart` is the start-up, which creates the account.

### SmtpAuth

A connection's `session` has the marks the two checks look at: aiosmtpd's own
`authenticated`, asked for at MAIL FROM, the engine's flag, and the entry in
`_authed_peers`, which `QUIT` alone removes (`_is_authed` takes any of the
three). `own` (history) are the connections over which the right password came.
aiosmtpd is external and modelled as the engine uses it: a session begins anew
at STARTTLS, AUTH is taken once, a lost connection cancels the handler.
`TlsSeen` says whether its sessions have the attribute `tls_handshaked` that
`_is_tls_active` asks for; with FALSE no client could authenticate in the mode
"starttls", which the run therefore sets to TRUE.
`Gate` maps a connection to `inside` by `own`, not by the marks, so that taking a
mail on any of the three marks alone would have to be explained; a lock that has
run out counts as opened, whether `is_locked` has noticed it or not.
The lockout is `brute_force.py`: `Check` is `is_locked`, `Reject` and `Admit`
record. `is_locked` and `record_*` take an `asyncio.Lock` separately. It does not
suspend a coroutine that finds it free with nobody waiting (`Turn`), so that among
the SMTP connections alone nobody comes between a check and its record. But the
API has a second event loop and thread, which takes the same lock (`api`). While
it has it, connections wait (`QueueCheck`, `QueueRecord`, the `await_*` points),
and once some wait, everybody queues: one that was let in then waits to record
behind others, which are let in on the same count. Waiting for a lock that belongs
to the other loop may also raise (`Contended`). The order of the queue is left open.

### SmtpData

`handler[m].pc` is the await `handle_DATA` has reached for mail `m`: the commit of
the pending row, `relay_email`, the commit of the final status, the report, the
reply. `client[m]` is the device's view: it sends again after a 451, a lost
connection or a restart, and gives up after a 500. Each commit may fail, with
the handler that catches it (`Unmarked`: the handler of `Exception` takes a
relayed mail for failed). `Drop` cancels the handler at its await: what it
waited for has happened, has not, or goes on in a thread (`late`). Rows are
counted by status, as one mail may have several.

### TokenCache

`get_access_token` for one account: `Check` under the lock, `Present` and `Issue`
in the thread that fetches, `Store` under the lock again. A token's entry keeps
when Microsoft stops accepting it (`token`), when the cache says so
(`expires_at`, counted from the answer), and the difference (`lag`). Refresh
tokens are numbered in the order of their issue; the one in memory is lost with
the process. A request can fail before Microsoft issues anything (`Denied`) or with
the request or its answer under way (`AnswerLost`). The latter, and a fetch whose
coroutine was cancelled, is one of the `strays`: Microsoft may still answer it
later, with a new refresh token that reaches nobody (`StrayEnds`).

Two history variables say what the engine knows. `sole` is the fetch that Microsoft
answers no other beside. `disturbed` says that memory may have missed a rotation:
fetches overlapped, an answer nobody waited for rotated the token, a coroutine was
cancelled with a new token in hand, or the process was restarted. It ends when a
`sole` fetch brings a new token.

## 3. What is checked

"pass" runs hold; "violation" runs show a statement of the repository that the
code does not keep (section 5).

| Run | Shows | Bounds |
|---|---|---|
| `DeliverySafety` | `NoSilentLoss`, `SuccessRowsTrue`, `DuplicatesBounded`, `FailedAttemptsAreDeferred`, `RelayRefinement`; `EventuallyDelivered` under `FairSpec` | 2 mails, 2 recipients, 6 configurations, 3 faults |
| `TenantConcurrent` | `NoOrphans`, `RunsAsItsTenant`, `EditLeavesFileCurrent` | 2 requests at a time, 7 requests, 2 ids, 2 customers, 2 settings, 1 port, no mail |
| `TenantLeaks` | `LeaksOnlyByReuse` | 2 requests at a time, 6 requests, 2 ids, 2 customers, 2 accounts, 2 ports, 1 version of the settings |
| `StartSafety` | `ServesOneVersion`, `PairComplete`, `ServesAgain` under `FairSpec` | 3 writes, 3 stops, 2 hostnames |
| `Login` | `WriterInService`, `CountIsExact`, `FailuresBounded`; `EventuallyLocked` under `FairSpec` | 2 requests, all outcomes, resets, threshold 4, 11 failures |
| `AdminAccount` | `EnabledIsProven`; `EventuallyAllCoded` under `FairSpec` | 3 requests, 3 secrets |
| `SmtpAuth` | `NoRelayWithoutAuth`, `EncryptedAsDemanded`, `GuessesBounded`, `GateRefinement`; `LetInAgain` under `FairSpec` | 2 peers of one address, 3 TLS modes, threshold 2, 2 faults, the API's thread |
| `SmtpData` | `DoneIsLogged`, `RowsMatchTransmissions`, `PendingExplained`, `DuplicatesBounded`, `RelayRefinement`; `EventuallySettled` under `FairSpec` | 2 mails, 2 recipients, 4 configurations, 2 faults |
| `TokenCache` | `ExpiredOnlyIfLate`, `RefreshIsNewest` | 2 deliveries, lifetime 3, margin 2, time 6, 3 rotations, 2 strays |

Each pass run checks `TypeOK` as well, `TenantConcurrent` excepted, whose module has
it checked in `TenantLeaks`. The two divide what they vary: mail depends on rows,
files and containers and they not on it (`Mailing` switches it off), and settings do
not decide whose mail goes where.

Bounds, and why they suffice:

* `MaxFaults` (delivery) 3: a mail can be accepted and forgotten, filed and
  killed, and fail once more; two mails show that runs do not mix. The script
  has no state between runs, so that longer histories repeat these.
* `MaxRequests`: 6 are create, start, delete, create again on the same id, add an
  account and start, the shortest way to a leak by a reused id; with 7 there is one
  more to meet the others, which is what the reuse of an account's key takes. Two ids
  are the least on which something can be crossed; one port makes every second start
  fail (`TenantConcurrent`), with two an edit can move a tenant (`TenantLeaks`); two
  settings let an edit be told apart.
* `MaxWrites`, `MaxFaults` (start) 3: a stop between any two files of each of
  three starts with three versions.
* `MaxFailures` (login) ends right passwords and resets, never failures: the count
  has no bound in the code, as a failure that overlaps a reset or follows a success
  brings the old count back, plus one. Beyond it there are only failures, which the
  lock ends, so that the states stay finite and `EventuallyLocked` is not helped by
  the bound. It is above what `FailuresBounded` allows, which is exact for two
  overlapping requests: with threshold 4, nine failures can precede the lock.
* `AdminAccount`: two first views and a check or login can overlap; three secrets
  let a stored one be overwritten twice.
* `SmtpAuth`: two connections from one address share its counter, wait for the lock
  behind the API's thread and each other, and leave entries to each other; with
  threshold 2, a count below it, at it and one beyond it all occur. "plain" and "tls"
  are alike to every action, so that three modes stand for the four. Two faults let
  a connection be dropped and the process restarted.
* `SmtpData` 2 faults: a handler is dropped with its thread going on, and the one
  that follows fails, or its commit does.
* `TokenCache`: a lifetime one above the margin is the worst case; in 6 units a
  token can be fetched, expire and be fetched anew, with each of its steps late. Two
  strays let an answer be lost, a fetch be cancelled, and both rotate the token.

Symmetry is used in runs without a liveness property only (`TenantConcurrent`,
`TenantLeaks`, `TenantIsolation`, `TokenCache`). `CHECK_DEADLOCK FALSE` is given where the
system comes to rest: the mails are settled, or the requests, the time or the
faults are used up. `SmtpAuth` and `AdminAccount` go on for ever and are checked
for deadlock.

Fairness. Postfix rescans its queue for ever and every call of the script ends,
by its own time-out or by Postfix's limit (`WF` of `Deliver(m)` as a whole:
which of its outcomes occurs is left open, and faults are bounded). Docker
restarts what stopped ("unless-stopped"), the admin service finishes a file it
has begun. The event loops serve every request (`Proceed`, `Handle`, `Check`).
Locks run out and session tokens age. Clients: `EventuallyLocked` is about ones
that keep trying, `LetInAgain` about a device that comes back with the right
password now and then (strong fairness, as other attempts come in between over
the same connection), `EventuallySettled` about devices that send again what was
not taken. No fairness is assumed for first submissions, resets, crashes, drops
or lock-outs. `LetInAgain` also needs that the API's thread gives the lock back, and
that a connection whose turn keeps coming is served (strong fairness: the lock is
taken and given back in between).

`EventuallyDelivered` presupposes that the configuration stays deliverable from
some point on (`Deliverable`: the first entry with a sender can get a token), and
`EventuallySettled` that the process runs with a working first account. Their
counterpart in the code is that only the first account is ever tried.
`EventuallyLocked` presupposes that from some point on no login gets through and
nobody resets the address; it then says that the lock sets in again and again,
so that a lock from before that point does not satisfy it.

## 4. What is proved

All theorems hold for every value of the constants under the named assumptions
of the modules, in particular any number of mails, requests, connections, faults
and stops. Each proof module shows that an invariant `IInv` is inductive, one step
for each action, and derives the properties from it.

* **OAuthDeliveryProofs.** That a delivered mail is settled needs
  `SuccessIsSettled` for runs that are still going to exit with 0;
  `DuplicatesBounded` needs `TransmissionsPaidFor`, an account of which
  transmission is paid for by which fault; `RowsPaidFor` reserves a transmission
  for a row about to be filed; all of them need that only an active mail has a
  run (`OneRunPerMail`). From it follow `TypeOK`, `NoSilentLoss`,
  `SuccessRowsTrue`, `DuplicatesBounded`, and `RelayRefinement`: every step is a step
  of `MailRelay` or a stutter. `ExitsAsDocumented`, that a run Postfix starts leaves
  with 0 or 1 only, gives `FailedAttemptsAreDeferred` wherever 1 is a soft exit
  status. `DeliveredIsLogged`, that a delivered mail has its row as long as nothing
  has failed, is stated by its theorem only: with any fault it says nothing, as
  `report_to_admin` drops what it cannot send. Both it and `DuplicatesBounded` count
  the faults of the whole system, not those of the mail or of the moment.
  Assumptions: there is a recipient, and 0 is no soft exit status.
* **TenantAdminProofs.** `IInv` says that whatever is kept under an id - row,
  file, the configuration a container was started with, mail in the volume,
  accounts, and what a request carries over an await - comes from customers that
  had the id. Hence `LeaksOnlyByReuse`: reuse of ids is the only way to a leak,
  for any number of overlapping requests, ids and customers. A second invariant,
  `CoherentUnlessMet`, is about tenants no two requests met on: there is one
  request at most (`OneRequest`), it works on the row and the accounts as they are
  (`RowLoaded`, `AccountsLoaded`), the accounts are the customer's own
  (`OwnAccounts`), and file and container follow the row - customer and accounts
  always, settings unless it is being edited or an edit broke off (`FollowsRow`). None of the parts is inductive alone: that the file's accounts are
  the customer's needs the accounts a request carries, these need the rows, and
  that no row outlives its tenant needs the keys a delete has collected.
  Hence `NoOrphans`, `RunsAsItsTenant` and the action property
  `EditLeavesFileCurrent`, whatever overlaps on other tenants. `DeleteKeeps` shows
  that a delete takes no account of a tenant somebody else works on unless the two
  thereby meet; `CoherentFrame`, `ElsewhereFrame` and `HereFrame` reduce each action
  to what it does to the tenant at hand.
* **ContainerStartProofs.** `WrittenInOrder` and `CopiedLast` say which files are
  of the loaded version at which point; `VersionsOrdered` that an overlapping
  write is a later one; `KeyBeforeCert` that a certificate exists only beside its
  key. Hence `ServesOneVersion`, `PairComplete` and, stated by a theorem only,
  `CertificateKept`: a complete pair is never replaced.
* **AdminLoginProofs.** `WriterUnfinished` and `RowKnown` give `WriterInService`
  for any number of requests and every threshold. `ExactInv` adds, as long as no
  two requests overlapped, that there is one request at most (`OneAtATime`), that
  the row it carries is the row it sees (`UpToDate`) and that the committed count
  is exact (`CountKept`); hence `CountIsExact`. `UncrowdedInv` is about behaviours in
  which three requests of the address were never in progress together (the set of
  requests and the threshold stay arbitrary): of two that will write what they read,
  one has read the latest count (`LastLoaded`), a lock stops all but one of them
  (`LockStops`), and a login about to record a failure has no more failures behind it
  than may precede the count it read, plus those that raised the count since
  (`FailuresSoFar`). `Above(n)` is the sum in closed form, since sums are defined by
  recursion; its steps are `AboveGrows`. Hence `FailuresBounded`, for every threshold.
  The code does nothing to keep a third request out, and with three there is no bound
  (section 5): the property says so by its condition `~crowded`.
* **TokenCacheProofs.** `Reckoning` says by how much the cache overstates a token's
  life, `SoleFetch` that whatever memory missed before, a fetch Microsoft answers no
  other beside brings the newest refresh token if it brings a new one, `Undisturbed`
  that a fetch nothing interferes with is the only one and presents the newest.
  Hence `ExpiredOnlyIfLate` and `RefreshIsNewest`, for any margin, any lifetimes above
  it and any number of strays.
* **SmtpDataProofs.** As in the delivery script, `TransmissionsPaidFor` and
  `RowsPaidFor` account for every transmission and row, here including the
  transmissions that threads left behind may still make. Hence the four safety
  properties of the run and `RelayRefinement`.
* **SmtpAuthProofs.** `MarksAreOwn` traces every mark that the checks accept to the
  right password over the same connection. `AttemptsExact` says that the attempts are
  counted exactly, that an address is locked or was from the threshold on, and that
  the guesses made together with those let in and not yet recorded stay below the
  threshold plus the connections of the address: letting one in takes a place
  (`RoomTaken`), below the threshold there is always one (`RoomBelowLimit`), and a
  failure only turns one into a guess (`RoomKept`). Hence `GuessesBounded`, for any
  finite set of connections (`PeersAssumption`), every threshold (with 0 an address
  has one guess) and any use of the lock by the API. From these, and `MarksAreOwn` at
  DATA, follows `GateRefinement`: each step is one of `SubmissionGate`'s or a stutter,
  for any number of peers and addresses and every TLS mode. A `Check` that clears a
  lock that ran out is the gate's `LetIn` with the tries forgotten; were the attempts
  kept, it would be none of its steps.
* **AdminAccountProofs.** `LoneFirstView` and `ConfirmedIsStored` give
  `EnabledIsProven` unless two first views overlapped.

Only model-checked: liveness (`EventuallyDelivered`, `ServesAgain`,
`EventuallyLocked`, `EventuallyAllCoded`, `LetInAgain`, `EventuallySettled`), which
needs fairness and is out of the prover's reach. Every other property of a "pass"
run is a theorem.

## 5. Where code and documentation part

| Run | Code | Statement |
|---|---|---|
| `DeliverySysexits` | a failed attempt exits with 1, which pipe(8) takes for permanent | "1 = deferred (Postfix retries)", `oauth_deliver.py:5` |
| `TenantIsolation` | volume named after an id that is handed out again | "each fully isolated in their own container", `README.md:103` |
| `StartSocket` | `private/auth` is relative to `/data/spool`, the socket is under `/var/spool/postfix` | "Expose auth socket into Postfix spool directory", `dovecot.conf:18` |

Also met while modelling, present in the models' actions and without a run:

* The recipients `sendmail` reports as refused are dropped (`oauth_deliver.py:98`;
  "Exit 0 = delivered", line 5). `NoSilentLoss` counts them as settled.
* An exception other than `OAuthError` around `get_token` ends a run without a
  report (`TokenUncaught`; "every delivery attempt logged", `README.md:112`).
* An edit whose status or stop call Docker fails, or that ends before, leaves the
  container running with the old settings beside a new row (`EditApply`, `Abandon`;
  "Restart the container only if it was already running", `tenant_routes.py:154`).
* An edit that meets another request on its tenant may write an older file
  (`tenant_routes.py:152`; "Always regenerate the config file so it's ready for the
  next start", line 133). Two tenants can be assigned one port
  (`NextAvailablePort`; "each tenant gets a port", `README.md:115`). A container that
  was restarting during an edit keeps its former port (`EditApply`; `README.md:269`).
* `tenant_delete` deletes the account rows by the keys it has read; if one of them
  was deleted and its key handed out again meanwhile, the row of another tenant
  goes (`DeleteAccounts`). `oauth_delete` does the same with the one row it loaded.
* Overlapping failed logins are undercounted (`auth.py:49`; "Failed logins before
  admin lockout", `README.md:257`): by no more than `FailuresBounded` allows as long
  as no three requests of the address meet, without bound if they do and right
  passwords are among theirs. A
  failure that overlaps a reset brings the old count back (`ResetCommit`), so that
  the lock can also come early.
* Two overlapping first views of the set-up page leave the first one's secret on
  its page only (`ViewStore`). The set-up page can be skipped ("mandatory on first
  admin login", `README.md:111`).
* A certificate is kept when the hostname changes (`CertMissing`; `README.md:313`).
* Connections that wait for the lockout's lock while the API has it are let in on
  the same count (`brute_force.py:16-24`), so that an address may try more than
  `bf_max_attempts` passwords, one more for each other connection at most
  (`GuessesBounded`).
* A refresh token whose answer is lost (`oauth_client.py:81`), and the script's, which
  is never written back (`oauth_deliver.py:73`), is replaced at Microsoft only.
* The engine's table of authenticated peers keeps the entry of a connection that
  ended without QUIT (`Drop`); aiosmtpd's check at MAIL FROM is why
  `NoRelayWithoutAuth` holds.

## 6. Not modelled

* `cert_manager.py`: as `configure.py`'s certificate step, but renewing an expired
  pair; it runs once before the engine's server exists.
* A report on its way while its tenant is deleted (`routes/log_routes.py`).
* `invalidate_cache`, which has no caller.
* Postfix's `smtpd`, anvil limits and Dovecot's authentication: configuration of
  programs that are not in the repository.
* What changes no state: MIME extraction and message contents, HTML pages, the log
  and queue queries, `get_queue_count`, the dashboard; Fernet, bcrypt and TOTP
  computations.
* The device-code poll that holds up the admin service's event loop
  (`tenant_routes.py:450`): its wait is bounded by the flow's expiry, a matter of time.
* The installer and the compose file, run once by hand.

## 7. What is left

1. `System`: `TenantAdmin` with `ContainerStart` in place of its atomic reboot, to
   show where the atomic reboot is a fair abstraction (no write overlaps a start).
2. A bound like `FailuresBounded` for more requests at a time. With three there is
   none as long as right passwords are among them: a login admitted before the lock
   reads it and takes it off again (`RecordSuccess`), and a failure that read an
   older count puts that one back. Without successes and resets TLC finds exactly 3
   failures at threshold 2 and 9 at threshold 3 for three requests, values of the
   binomial coefficient (BF_MAX - 1 + n over n) - 1, whose proof is an induction.
3. `cert_manager.py` beside `ContainerStart`, and the mail log against the deletion
   of tenants.
