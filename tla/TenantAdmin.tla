----------------------------- MODULE TenantAdmin -----------------------------
(***************************************************************************)
(* The admin service as the manager of tenants: rows in its database, one  *)
(* configuration file, container and data volume per tenant id.  A request *)
(* is a coroutine: between two awaits it runs alone (the Docker calls are  *)
(* synchronous), at each await any other request may run.  The mail in the *)
(* volumes is followed by the customer it comes from, and each delivery by *)
(* the customer whose Microsoft account carried it.                        *)
(***************************************************************************)
EXTENDS Naturals, FiniteSets, FiniteSetsExt

CONSTANTS
    Owners,      \* customers; a customer has at most one tenant
    Ids,         \* tenant ids the database may hand out
    Ports,       \* host ports
    Settings,    \* versions of what an edit changes in the configuration file
    Keys,        \* row ids of oauth_configs
    Requests,    \* requests (or forms left open in a browser) at a time
    MaxRequests, \* bound on the requests served in a behaviour
    Mailing,     \* whether devices hand in mail
    None         \* no row, no file, no container

ASSUME IdsAssumption == Ids \subseteq Nat \ {0}
ASSUME PortsAssumption == Ports \subseteq Nat
ASSUME MaxRequestsAssumption == MaxRequests \in Nat
ASSUME MailingAssumption == Mailing \in BOOLEAN

VARIABLES
    rows,        \* table tenants
    accounts,    \* table oauth_configs
    file,        \* tenant_<id>.json on the configuration volume
    container,   \* container smtp_proxy_tenant_<id>
    volume,      \* customers with mail in the queue on smtp_proxy_tenant_<id>_data
    relayed,     \* history: customer of a mail, customer of the account that carried it
    held,        \* history: customers that have had each id
    req,         \* requests in progress
    met,         \* history: ids two requests worked on at the same time
    brokenOff,   \* history: ids an edit of which broke off after its commit, unless
                 \* another edit or a start has done since what it left undone
    served       \* requests begun

vars == <<rows, accounts, file, container, volume, relayed, held, req, met, brokenOff, served>>

database == <<rows, accounts, held>>
written == <<file, brokenOff>>
mail == <<volume, relayed>>
requests == <<req, met, served>>

Rows == [owner : Owners, settings : Settings, port : Ports]
Accounts == [tenant : Ids, owner : Owners]
Files == [owner : Owners, settings : Settings, accounts : SUBSET Owners]
Containers ==
    [status : {"created", "running", "restarting", "exited"}, port : Ports, boot : Files]

ASSUME NoneAssumption == None \notin Rows \cup Accounts \cup Files \cup Containers

\* What a coroutine carries over an await: the tenant object it loaded, the
\* object after its assignments, the oauth rows it selected.
Request ==
    [pc : {"edit", "select_edit", "apply_edit", "select_start", "apply_start", "stop",
           "remove", "collect", "delete", "oauth_add"},
     id : Ids, row : Rows, new : Rows, keys : SUBSET Keys, accounts : SUBSET Owners]

FormOpen == [pc : {"new"}, port : Ports]

\* oauth_delete carries the oauth row it loaded, and no tenant object.
AccountLoaded == [pc : {"oauth_delete"}, id : Ids, keys : SUBSET Keys]

ASSUME NoRequestAssumption == None \notin Request \cup FormOpen \cup AccountLoaded

TypeOK ==
    /\ rows \in [Ids -> Rows \cup {None}]
    /\ accounts \in [Keys -> Accounts \cup {None}]
    /\ file \in [Ids -> Files \cup {None}]
    /\ container \in [Ids -> Containers \cup {None}]
    /\ volume \in [Ids -> SUBSET Owners]
    /\ relayed \subseteq [id : Ids, mail : Owners, account : Owners]
    /\ held \in [Ids -> SUBSET Owners]
    /\ req \in [Requests -> Request \cup FormOpen \cup AccountLoaded \cup {None}]
    /\ met \subseteq Ids
    /\ brokenOff \subseteq Ids
    /\ served \in Nat

Init ==
    /\ rows = [i \in Ids |-> None]
    /\ accounts = [k \in Keys |-> None]
    /\ file = [i \in Ids |-> None]
    /\ container = [i \in Ids |-> None]
    /\ volume = [i \in Ids |-> {}]
    /\ relayed = {}
    /\ held = [i \in Ids |-> {}]
    /\ req = [r \in Requests |-> None]
    /\ met = {}
    /\ brokenOff = {}
    /\ served = 0
----------------------------------------------------------------------------
(* Docker *)

Running(i) == container[i] # None /\ container[i].status = "running"

PortFree(i, p) == \A j \in Ids \ {i} : Running(j) => container[j].port # p

\* Ports next_available_port finds in use: a stopped container shows none.
PublishedPorts == {container[i].port : i \in {j \in Ids : Running(j)}}

\* The base port itself is taken for free when Docker does not list the containers.
NextAvailablePort(p) ==
    \E used \in {PublishedPorts, {}} :
        /\ p \notin used
        /\ \A q \in Ports : q < p => q \in used

\* What client.containers.run, after the removal of a container that does not
\* run, can leave behind: a running container if its port is free, one that
\* was created and not started, or none.
Launch(i, port, f) ==
    {None, [status |-> "created", port |-> port, boot |-> f]}
    \cup (IF PortFree(i, port) THEN {[status |-> "running", port |-> port, boot |-> f]} ELSE {})

\* start_container returns a container that runs as it is, and leaves any
\* other one alone when the image is missing.
StartContainer(i, port, f) ==
    {container[i]} \cup (IF Running(i) THEN {} ELSE Launch(i, port, f))

StoppedByName(c) ==
    IF c # None /\ c.status \in {"running", "restarting"} THEN [c EXCEPT !.status = "stopped"] ELSE c

RemovedUnlessRunning(c) == IF c # None /\ c.status = "running" THEN c ELSE None

\* container.remove(force=True)
Removed(c) == None

Stopped(c) ==
    IF c # None /\ c.status \in {"running", "restarting"} THEN [c EXCEPT !.status = "exited"] ELSE c

RestartWithoutStop(i, port, f) == StartContainer(i, port, f)

\* tenant_edit: stop_container, then start_container.
RestartContainer(i, port, f) ==
    {Stopped(container[i])} \cup Launch(i, port, f)
----------------------------------------------------------------------------
(* Requests *)

Live == {i \in Ids : rows[i] # None}

\* An INTEGER PRIMARY KEY takes the largest row id plus one.
NextRowId(used) == IF used = {} THEN 1 ELSE Max(used) + 1

NextId == NextRowId(Live)
UsedKeys == {k \in Keys : accounts[k] # None}
NextKey == NextRowId(UsedKeys)

Begin(r, q) ==
    /\ req[r] = None
    /\ served < MaxRequests
    /\ served' = served + 1
    /\ req' = [req EXCEPT ![r] = q]

Await(r, q) == req' = [req EXCEPT ![r] = q] /\ UNCHANGED <<met, served>>
Return(r) == Await(r, None)

At(r, pc) == req[r] # None /\ req[r].pc = pc

OnTenant(r, i) == req[r] # None /\ req[r].pc # "new" /\ req[r].id = i

\* No request works on tenant i.
Quiet(i) == \A r \in Requests : ~OnTenant(r, i)

\* Request r is about to work on these tenants, other requests already do.
Meeting(r, ids) == {i \in ids : \E q \in Requests \ {r} : OnTenant(q, i)}

\* db.get(Tenant, id): a handler that finds no row redirects and is done.
Load(r, i, pc, new) ==
    /\ rows[i] # None
    /\ Begin(r, [pc |-> pc, id |-> i, row |-> rows[i], new |-> new, keys |-> {}, accounts |-> {}])
    /\ met' = met \cup Meeting(r, {i})
    /\ UNCHANGED <<database, written, container, mail>>

\* The page /tenants/new with its suggestion, and the form it comes back as.
\* The name is unique: a second tenant of the same customer is not inserted.
NewPage(r, p) ==
    /\ NextAvailablePort(p)
    /\ Begin(r, [pc |-> "new", port |-> p])
    /\ UNCHANGED <<database, written, container, mail, met>>

Create(r, o, s) ==
    /\ At(r, "new")
    /\ NextId \in Ids \ Live
    /\ \A i \in Live : rows[i].owner # o
    /\ rows' = [rows EXCEPT ![NextId] = [owner |-> o, settings |-> s, port |-> req[r].port]]
    /\ held' = [held EXCEPT ![NextId] = @ \cup {o}]
    /\ Return(r)
    /\ UNCHANGED <<accounts, written, container, mail>>

\* A form is closed; or a request ends at any await, with nothing done of the
\* step it was about to take: the database refuses the statement, Docker does not
\* answer stop_container or remove_container, the admin service is stopped.
Abandon(r) ==
    /\ req[r] # None
    /\ Return(r)
    /\ brokenOff' = brokenOff \cup
           (IF req[r].pc \in {"select_edit", "apply_edit"} THEN {req[r].id} ELSE {})
    /\ UNCHANGED <<database, file, container, mail>>

EditLoad(r, i, s, p) ==
    Load(r, i, "edit", [rows[i] EXCEPT !.settings = s, !.port = p])

\* The flush writes the columns whose values the handler changed.
Merge(current, old, new) ==
    [current EXCEPT !.settings = IF new.settings # old.settings THEN new.settings ELSE @,
                    !.port = IF new.port # old.port THEN new.port ELSE @]

ObjectBefore(q) == q.row

\* The session keeps the object as the handler left it (expire_on_commit=False).
ObjectAfter(q) == q.new

EditCommit(r) ==
    /\ At(r, "edit")
    /\ LET q == req[r] IN
       IF q.new # q.row /\ rows[q.id] = None
       THEN Return(r) /\ UNCHANGED rows     \* StaleDataError: no row to update
       ELSE /\ rows' = IF rows[q.id] = None THEN rows
                       ELSE [rows EXCEPT ![q.id] = Merge(@, q.row, q.new)]
            /\ Await(r, [q EXCEPT !.pc = "select_edit", !.row = ObjectAfter(q)])
    /\ UNCHANGED <<accounts, held, written, container, mail>>

StartLoad(r, i) == Load(r, i, "select_start", rows[i])

AnyActive(i) == UsedKeys

KeysOf(i) == {k \in Keys : accounts[k] # None /\ accounts[k].tenant = i}

SelectAccounts(r) ==
    /\ At(r, "select_edit") \/ At(r, "select_start")
    /\ LET q == req[r] IN
       Await(r, [q EXCEPT !.pc = IF @ = "select_edit" THEN "apply_edit" ELSE "apply_start",
                          !.accounts = {accounts[k].owner : k \in KeysOf(q.id)}])
    /\ UNCHANGED <<database, written, container, mail>>

\* write_config_file: the tenant object of this request, whatever the row says now.
FileOf(q) == [owner |-> q.row.owner, settings |-> q.row.settings, accounts |-> q.accounts]

WriteConfigFile(q) == file' = [file EXCEPT ![q.id] = FileOf(q)]

EditApply(r) ==
    /\ At(r, "apply_edit")
    /\ LET q == req[r] IN
       /\ WriteConfigFile(q)
       /\ \/ /\ Running(q.id)
             /\ \E c \in RestartContainer(q.id, q.row.port, FileOf(q)) :
                    container' = [container EXCEPT ![q.id] = c]
             /\ brokenOff' = brokenOff \ {q.id}
          \/ /\ Running(q.id)     \* Docker fails get_container_status or stop_container
             /\ UNCHANGED container
             /\ brokenOff' = brokenOff \cup {q.id}
          \/ /\ ~Running(q.id)
             /\ UNCHANGED container
             /\ brokenOff' = brokenOff \ {q.id}
    /\ Return(r)
    /\ UNCHANGED <<database, mail>>

StartApply(r) ==
    /\ At(r, "apply_start")
    /\ LET q == req[r] IN
       /\ WriteConfigFile(q)
       /\ \E c \in StartContainer(q.id, q.row.port, FileOf(q)) :
              container' = [container EXCEPT ![q.id] = c]
       /\ brokenOff' = IF Running(q.id) THEN brokenOff ELSE brokenOff \ {q.id}
    /\ Return(r)
    /\ UNCHANGED <<database, mail>>

StopLoad(r, i) == Load(r, i, "stop", rows[i])

StopApply(r) ==
    /\ At(r, "stop")
    /\ container' = [container EXCEPT ![req[r].id] = Stopped(@)]
    /\ Return(r)
    /\ UNCHANGED <<database, written, mail>>

DeleteLoad(r, i) == Load(r, i, "remove", rows[i])

DeleteRemove(r) ==
    /\ At(r, "remove")
    /\ container' = [container EXCEPT ![req[r].id] = Removed(@)]
    /\ Await(r, [req[r] EXCEPT !.pc = "collect"])
    /\ UNCHANGED <<database, written, mail>>

\* db.delete loads the children the ORM is going to delete with the tenant.
DeleteCollect(r) ==
    /\ At(r, "collect")
    /\ Await(r, [req[r] EXCEPT !.pc = "delete", !.keys = KeysOf(req[r].id)])
    /\ UNCHANGED <<database, written, container, mail>>

\* DELETE by primary key: whatever row has the key by now, and of whichever tenant.
DeleteAccounts(r) ==
    /\ accounts' = [k \in Keys |-> IF k \in req[r].keys THEN None ELSE accounts[k]]
    /\ met' = met \cup Meeting(r, {accounts[k].tenant : k \in req[r].keys \cap UsedKeys})
    /\ req' = [req EXCEPT ![r] = None]
    /\ UNCHANGED served

\* SQLite does not enforce the foreign keys: later children stay behind.
DeleteCommit(r) ==
    /\ At(r, "delete")
    /\ rows' = [rows EXCEPT ![req[r].id] = None]
    /\ DeleteAccounts(r)
    /\ UNCHANGED <<held, written, container, mail>>

\* The row that oauth_add and device_code_complete insert, without a look at
\* the tenant: the id comes from the page the form was opened on.
AccountRow(q) == [tenant |-> q.id, owner |-> q.row.owner]

\* The customer's tenant page, where an account is added.
OAuthPage(r, i) == Load(r, i, "oauth_add", rows[i])

OAuthAdd(r) ==
    /\ At(r, "oauth_add")
    /\ NextKey \in Keys \ UsedKeys
    /\ accounts' = [accounts EXCEPT ![NextKey] = AccountRow(req[r])]
    /\ Return(r)
    /\ UNCHANGED <<rows, held, written, container, mail>>

OAuthDeleteLoad(r, k) ==
    /\ accounts[k] # None
    /\ Begin(r, [pc |-> "oauth_delete", id |-> accounts[k].tenant, keys |-> {k}])
    /\ met' = met \cup Meeting(r, {accounts[k].tenant})
    /\ UNCHANGED <<database, written, container, mail>>

OAuthDeleteCommit(r) ==
    /\ At(r, "oauth_delete")
    /\ DeleteAccounts(r)
    /\ UNCHANGED <<rows, held, written, container, mail>>
----------------------------------------------------------------------------
(* Tenant containers *)

\* The restart policy starts a container that died again; it then reads the file.
Crash(i) ==
    /\ Running(i)
    /\ container' = [container EXCEPT ![i].status = "restarting"]
    /\ UNCHANGED <<database, written, mail, requests>>

Reboot(i) ==
    /\ container[i] # None
    /\ container[i].status = "restarting"
    /\ PortFree(i, container[i].port)
    /\ container' = [container EXCEPT ![i].status = "running", ![i].boot = file[i]]
    /\ UNCHANGED <<database, written, mail, requests>>

\* A device of the customer whose credentials the container was started with.
SubmitMail(i) ==
    /\ Mailing
    /\ Running(i)
    /\ volume' = [volume EXCEPT ![i] = @ \cup {container[i].boot.owner}]
    /\ UNCHANGED <<database, written, container, relayed, requests>>

RelayMail(i, o, a) ==
    /\ Running(i)
    /\ o \in volume[i]
    /\ a \in container[i].boot.accounts
    /\ volume' = [volume EXCEPT ![i] = @ \ {o}]
    /\ relayed' = relayed \cup {[id |-> i, mail |-> o, account |-> a]}
    /\ UNCHANGED <<database, written, container, requests>>

Next ==
    \/ \E r \in Requests :
        \/ \E p \in Ports : NewPage(r, p)
        \/ \E o \in Owners, s \in Settings : Create(r, o, s)
        \/ Abandon(r)
        \/ \E i \in Ids, s \in Settings, p \in Ports : EditLoad(r, i, s, p)
        \/ EditCommit(r)
        \/ \E i \in Ids : StartLoad(r, i)
        \/ SelectAccounts(r)
        \/ EditApply(r)
        \/ StartApply(r)
        \/ \E i \in Ids : StopLoad(r, i)
        \/ StopApply(r)
        \/ \E i \in Ids : DeleteLoad(r, i)
        \/ DeleteRemove(r)
        \/ DeleteCollect(r)
        \/ DeleteCommit(r)
        \/ \E i \in Ids : OAuthPage(r, i)
        \/ OAuthAdd(r)
        \/ \E k \in Keys : OAuthDeleteLoad(r, k)
        \/ OAuthDeleteCommit(r)
    \/ \E i \in Ids : Crash(i) \/ Reboot(i) \/ SubmitMail(i)
    \/ \E i \in Ids, o, a \in Owners : RelayMail(i, o, a)

Spec == Init /\ [][Next]_vars
----------------------------------------------------------------------------
(* Isolation of the customers *)

\* "each fully isolated in their own container": a customer's mail leaves
\* through the customer's own Microsoft account only.
Isolation == \A d \in relayed : d.mail = d.account

\* Mail leaves through another customer's account only under a tenant id that
\* two customers have had: whatever requests overlap, files, containers,
\* queues and oauth rows are never crossed between two ids.
LeaksOnlyByReuse ==
    \A d \in relayed : d.mail # d.account => \E o, p \in held[d.id] : o # p

\* The invariant behind LeaksOnlyByReuse: whatever is kept under a tenant id,
\* and whatever a request on that id carries over an await, comes from the
\* customers that have had the id.
Held(i, f) == f # None => {f.owner} \cup f.accounts \subseteq held[i]

HeldUnderId ==
    \A i \in Ids :
        /\ rows[i] # None => rows[i].owner \in held[i]
        /\ Held(i, file[i])
        /\ container[i] # None => file[i] # None /\ Held(i, container[i].boot)
        /\ volume[i] \subseteq held[i]

HeldByAccounts ==
    \A k \in Keys : accounts[k] # None => accounts[k].owner \in held[accounts[k].tenant]

HeldByRequests ==
    \A r \in Requests :
        req[r] # None /\ req[r].pc \notin {"new", "oauth_delete"} =>
            {req[r].row.owner, req[r].new.owner} \cup req[r].accounts \subseteq held[req[r].id]

HeldByRelayed == \A d \in relayed : {d.mail, d.account} \subseteq held[d.id]

IInv == TypeOK /\ HeldUnderId /\ HeldByAccounts /\ HeldByRequests /\ HeldByRelayed
----------------------------------------------------------------------------
(* Rows, files and containers *)

\* A tenant that is deleted leaves neither a container nor an oauth row behind
\* (tenant_delete removes the container, then the rows; start and edit launch
\* containers, oauth_add inserts rows), whatever runs for other tenants, unless
\* two requests met on this one.
NoOrphans ==
    \A i \in Ids \ met : rows[i] = None => container[i] = None /\ KeysOf(i) = {}

\* A running container works for the customer of its tenant's row, with no
\* other account than the customer's, however edits, failed starts, crashes,
\* restarts by Docker and reused ids have followed each other, and whatever runs
\* for other tenants.  It has the row's settings (tenant_edit restarts a running
\* container, any other one reads the file when it starts) unless an edit broke
\* off between its commit and the restart; the next edit, or a start of the
\* stopped container, makes good for that.
Serves(f, row) == f.owner = row.owner /\ f.accounts \subseteq {row.owner}

RunsAsItsTenant ==
    \A i \in Live \ met : Running(i) =>
        /\ Serves(container[i].boot, rows[i])
        /\ Quiet(i) /\ i \notin brokenOff => container[i].boot.settings = rows[i].settings

\* "Always regenerate the config file so it's ready for the next start": an edit
\* that had the tenant to itself and did not break off before the write leaves a
\* file that says what the database says, whatever runs for other tenants, reused
\* keys of oauth rows included, and also when Docker fails the restart.
EditLeavesFileCurrent ==
    [][\A r \in Requests, i \in Live \ met :
        EditApply(r) /\ req[r].id = i =>
            file'[i] = [owner |-> rows[i].owner, settings |-> rows[i].settings,
                        accounts |-> {accounts[k].owner : k \in KeysOf(i)}]]_vars

\* The invariant behind the three: the one request on a tenant works on the row
\* and on the accounts as they are, file and container follow the row unless it
\* is being edited or an edit broke off, and the accounts are the customer's own.
Editing(i) ==
    \E r \in Requests : OnTenant(r, i) /\ req[r].pc \in {"select_edit", "apply_edit"}

OneRequest(i) == \A r, q \in Requests : OnTenant(r, i) /\ OnTenant(q, i) => r = q

RowLoaded(i) ==
    \A r \in Requests : OnTenant(r, i) =>
        /\ rows[i] # None
        /\ req[r].pc # "oauth_delete" =>
               /\ req[r].row.settings = rows[i].settings
               /\ req[r].row.owner = rows[i].owner /\ req[r].new.owner = rows[i].owner
        /\ req[r].pc \in {"collect", "delete"} => container[i] = None

AccountsLoaded(i) ==
    \A r \in Requests : OnTenant(r, i) =>
        /\ req[r].pc = "delete" => KeysOf(i) \subseteq req[r].keys
        /\ req[r].pc \in {"apply_edit", "apply_start"} =>
               req[r].accounts = {accounts[k].owner : k \in KeysOf(i)}

OwnAccounts(i) ==
    \A k \in KeysOf(i) : rows[i] # None /\ accounts[k].owner = rows[i].owner

FollowsRow(i) ==
    container[i] # None =>
        /\ rows[i] # None
        /\ Serves(file[i], rows[i]) /\ Serves(container[i].boot, rows[i])
        /\ \/ Editing(i) \/ i \in brokenOff
           \/ /\ file[i].settings = rows[i].settings
              /\ Running(i) => container[i].boot.settings = rows[i].settings

Coherent(i) ==
    OneRequest(i) /\ RowLoaded(i) /\ AccountsLoaded(i) /\ OwnAccounts(i) /\ FollowsRow(i)

CoherentUnlessMet == \A i \in Ids \ met : Coherent(i)
=============================================================================
