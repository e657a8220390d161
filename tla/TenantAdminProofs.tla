-------------------------- MODULE TenantAdminProofs --------------------------
(***************************************************************************)
(* Proofs about TenantAdmin, for any number of customers, tenant ids and   *)
(* requests at a time.                                                     *)
(***************************************************************************)
EXTENDS TenantAdmin, TLAPS

\* A request that has loaded a tenant has the shape of Request.
LEMMA RequestType ==
    ASSUME TypeOK, NEW r \in Requests, NEW pc, At(r, pc), pc \notin {"new", "oauth_delete"}
    PROVE  req[r] \in Request /\ req[r].pc = pc
<1> QED BY DEF TypeOK, At, FormOpen, AccountLoaded

\* Only ids are met on.
LEMMA MeetingType ==
    ASSUME NEW r, NEW ids \in SUBSET Ids
    PROVE  Meeting(r, ids) \in SUBSET Ids
<1> QED BY DEF Meeting

\* The ids of the tenants whose oauth rows a delete finds.
LEMMA TenantsOfKeys ==
    ASSUME TypeOK, NEW keys
    PROVE  {accounts[k].tenant : k \in keys \cap UsedKeys} \in SUBSET Ids
<1> QED BY DEF TypeOK, UsedKeys, Accounts

\* A delete leaves each oauth row as it is, or none.
LEMMA DeletedType ==
    ASSUME TypeOK, NEW r \in Requests, DeleteAccounts(r)
    PROVE  /\ accounts' \in [Keys -> Accounts \cup {None}]
           /\ \A k \in Keys : accounts'[k] # None => accounts'[k] = accounts[k]
           /\ met' \subseteq Ids /\ req' = [req EXCEPT ![r] = None] /\ served' = served
<1>1. Meeting(r, {accounts[k].tenant : k \in req[r].keys \cap UsedKeys}) \in SUBSET Ids
  BY TenantsOfKeys, MeetingType
<1> QED BY <1>1 DEF DeleteAccounts, TypeOK

\* What Launch and StartContainer leave is a container of the given file, the
\* one that was there, or none.
LEMMA LaunchType ==
    ASSUME TypeOK, NEW i \in Ids, NEW p \in Ports, NEW f \in Files,
           NEW c \in StartContainer(i, p, f) \cup RestartContainer(i, p, f)
    PROVE  /\ c \in Containers \cup {None}
           /\ c # None => c.boot = f \/ (container[i] # None /\ c.boot = container[i].boot)
<1>1. container[i] \in Containers \cup {None}
  BY DEF TypeOK
<1>2. Stopped(container[i]) \in Containers \cup {None}
  BY <1>1 DEF Stopped, Containers
<1>3. Stopped(container[i]) # None => container[i] # None /\ Stopped(container[i]).boot = container[i].boot
  BY <1>1 DEF Stopped, Containers
<1>4. c \in {None, container[i], Stopped(container[i]),
             [status |-> "created", port |-> p, boot |-> f],
             [status |-> "running", port |-> p, boot |-> f]}
  BY DEF StartContainer, RestartContainer, Launch
<1> QED BY <1>1, <1>2, <1>3, <1>4 DEF Containers

\* Nothing is kept under any id at the start.
LEMMA InitInvariant == Init => IInv
<1> QED BY DEF Init, IInv, TypeOK, HeldUnderId, Held, HeldByAccounts, HeldByRequests, HeldByRelayed

\* Every step of every handler and of Docker preserves the types; a reboot needs
\* that a container has a file.
LEMMA TypeInvariant == TypeOK /\ HeldUnderId /\ [Next]_vars => TypeOK'
<1> SUFFICES ASSUME TypeOK, HeldUnderId, [Next]_vars PROVE TypeOK'
    OBVIOUS
<1> USE DEF database, mail, written, requests, Begin, Await, Return
<1>1. ASSUME NEW r \in Requests, NEW p \in Ports, NewPage(r, p) PROVE TypeOK'
  BY <1>1 DEF NewPage, TypeOK, FormOpen
<1>2. ASSUME NEW r \in Requests, NEW o \in Owners, NEW s \in Settings, Create(r, o, s) PROVE TypeOK'
  <2>1. req[r].port \in Ports
    BY <1>2 DEF Create, At, TypeOK, FormOpen, Request, AccountLoaded
  <2> QED BY <1>2, <2>1 DEF Create, TypeOK, Rows
<1>3. ASSUME NEW r \in Requests, Abandon(r) PROVE TypeOK'
  <2>1. req[r].pc \in {"select_edit", "apply_edit"} => req[r].id \in Ids
    BY <1>3 DEF Abandon, TypeOK, Request, FormOpen, AccountLoaded
  <2>2. brokenOff' \subseteq Ids
    BY <1>3, <2>1 DEF Abandon, TypeOK
  <2> QED BY <1>3, <2>2 DEF Abandon, TypeOK
<1>4. ASSUME NEW r \in Requests, NEW i \in Ids, NEW s \in Settings, NEW p \in Ports, EditLoad(r, i, s, p)
      PROVE TypeOK'
  <2>1. rows[i] \in Rows
    BY <1>4 DEF EditLoad, Load, TypeOK
  <2>2. [rows[i] EXCEPT !.settings = s, !.port = p] \in Rows
    BY <2>1 DEF Rows
  <2> QED BY <1>4, <2>1, <2>2, MeetingType DEF EditLoad, Load, TypeOK, Request
<1>5. ASSUME NEW r \in Requests, EditCommit(r) PROVE TypeOK'
  <2>1. req[r] \in Request
    BY <1>5, RequestType DEF EditCommit
  <2>2. req[r].id \in Ids /\ req[r].row \in Rows /\ req[r].new \in Rows
    BY <2>1 DEF Request
  <2>3. [req[r] EXCEPT !.pc = "select_edit", !.row = req[r].new] \in Request
    BY <2>1, <2>2 DEF Request
  <2>4. ASSUME rows[req[r].id] # None
        PROVE  Merge(rows[req[r].id], req[r].row, req[r].new) \in Rows
    <3>1. rows[req[r].id] \in Rows
      BY <2>2, <2>4 DEF TypeOK
    <3> QED BY <2>2, <3>1 DEF Merge, Rows
  <2>5. rows' \in [Ids -> Rows \cup {None}]
    BY <1>5, <2>2, <2>4 DEF EditCommit, TypeOK
  <2> QED BY <1>5, <2>3, <2>5 DEF EditCommit, ObjectAfter, TypeOK
<1>6. ASSUME NEW r \in Requests, NEW i \in Ids, StartLoad(r, i) \/ StopLoad(r, i) \/ DeleteLoad(r, i) \/ OAuthPage(r, i)
      PROVE TypeOK'
  BY <1>6, MeetingType DEF StartLoad, StopLoad, DeleteLoad, OAuthPage, Load, TypeOK, Rows, Request
<1>7. ASSUME NEW r \in Requests, SelectAccounts(r) PROVE TypeOK'
  <2> DEFINE owners == {accounts[k].owner : k \in KeysOf(req[r].id)}
  <2>1. req[r] \in Request
    BY <1>7, RequestType DEF SelectAccounts
  <2>2. owners \in SUBSET Owners
    BY DEF KeysOf, TypeOK, Accounts
  <2>3. \A pc \in {"apply_edit", "apply_start"} :
            [req[r] EXCEPT !.pc = pc, !.accounts = owners] \in Request
    <3> HIDE DEF owners
    <3> QED BY <2>1, <2>2 DEF Request
  <2>4. \E pc \in {"apply_edit", "apply_start"} :
            req' = [req EXCEPT ![r] = [req[r] EXCEPT !.pc = pc, !.accounts = owners]]
    BY <1>7 DEF SelectAccounts
  <2> HIDE DEF owners
  <2> QED BY <1>7, <2>3, <2>4 DEF SelectAccounts, TypeOK
<1>8. ASSUME NEW r \in Requests, EditApply(r) \/ StartApply(r) PROVE TypeOK'
  <2>1. req[r] \in Request
    BY <1>8, RequestType DEF EditApply, StartApply
  <2>2. FileOf(req[r]) \in Files
    BY <2>1 DEF FileOf, Request, Rows, Files
  <2>3. req[r].id \in Ids /\ req[r].row.port \in Ports
    BY <2>1 DEF Request, Rows
  <2>4. file' \in [Ids -> Files \cup {None}]
    BY <1>8, <2>2, <2>3 DEF EditApply, StartApply, WriteConfigFile, TypeOK
  <2>5. container' \in [Ids -> Containers \cup {None}]
    BY <1>8, <2>2, <2>3, LaunchType DEF EditApply, StartApply, TypeOK
  <2>6. brokenOff' \subseteq Ids
    BY <1>8, <2>3 DEF EditApply, StartApply, TypeOK
  <2> QED BY <1>8, <2>4, <2>5, <2>6 DEF EditApply, StartApply, TypeOK
<1>9. ASSUME NEW r \in Requests, StopApply(r) PROVE TypeOK'
  BY <1>9, RequestType DEF StopApply, Stopped, TypeOK, Request, Containers
<1>10. ASSUME NEW r \in Requests, DeleteRemove(r) PROVE TypeOK'
  BY <1>10, RequestType DEF DeleteRemove, Removed, TypeOK, Request
<1>11. ASSUME NEW r \in Requests, DeleteCollect(r) PROVE TypeOK'
  <2>1. req[r] \in Request
    BY <1>11, RequestType DEF DeleteCollect
  <2>2. KeysOf(req[r].id) \in SUBSET Keys
    BY DEF KeysOf
  <2>3. [req[r] EXCEPT !.pc = "delete", !.keys = KeysOf(req[r].id)] \in Request
    BY <2>1, <2>2 DEF Request
  <2> QED BY <1>11, <2>3 DEF DeleteCollect, TypeOK
<1>12. ASSUME NEW r \in Requests, DeleteCommit(r) PROVE TypeOK'
  <2>1. req[r] \in Request
    BY <1>12, RequestType DEF DeleteCommit
  <2>2. rows' \in [Ids -> Rows \cup {None}]
    BY <1>12, <2>1 DEF DeleteCommit, TypeOK, Request
  <2> QED BY <1>12, <2>2, DeletedType DEF DeleteCommit, TypeOK
<1>13. ASSUME NEW r \in Requests, OAuthAdd(r) PROVE TypeOK'
  BY <1>13, RequestType DEF OAuthAdd, AccountRow, TypeOK, Request, Rows, Accounts
<1>14. ASSUME NEW r \in Requests, NEW k \in Keys, OAuthDeleteLoad(r, k) PROVE TypeOK'
  <2>1. accounts[k].tenant \in Ids
    BY <1>14 DEF OAuthDeleteLoad, TypeOK, Accounts
  <2>2. [pc |-> "oauth_delete", id |-> accounts[k].tenant, keys |-> {k}] \in AccountLoaded
    BY <2>1 DEF AccountLoaded
  <2> QED BY <1>14, <2>1, <2>2, MeetingType DEF OAuthDeleteLoad, TypeOK
<1>20. ASSUME NEW r \in Requests, OAuthDeleteCommit(r) PROVE TypeOK'
  BY <1>20, DeletedType DEF OAuthDeleteCommit, TypeOK
<1>15. ASSUME NEW i \in Ids, Crash(i) PROVE TypeOK'
  BY <1>15 DEF Crash, Running, TypeOK, Containers
<1>16. ASSUME NEW i \in Ids, Reboot(i) PROVE TypeOK'
  <2>1. container[i] \in Containers /\ file[i] \in Files
    BY <1>16 DEF Reboot, HeldUnderId, TypeOK
  <2>2. [container[i] EXCEPT !.status = "running", !.boot = file[i]] \in Containers
    BY <2>1 DEF Containers
  <2>3. container' = [container EXCEPT ![i] = [@ EXCEPT !.status = "running", !.boot = file[i]]]
    BY <1>16 DEF Reboot, TypeOK
  <2>4. container' \in [Ids -> Containers \cup {None}]
    BY <2>2, <2>3 DEF TypeOK
  <2> QED BY <1>16, <2>4 DEF Reboot, TypeOK
<1>17. ASSUME NEW i \in Ids, SubmitMail(i) PROVE TypeOK'
  BY <1>17 DEF SubmitMail, Running, TypeOK, Containers, Files
<1>18. ASSUME NEW i \in Ids, NEW o \in Owners, NEW a \in Owners, RelayMail(i, o, a) PROVE TypeOK'
  BY <1>18 DEF RelayMail, TypeOK
<1>19. CASE UNCHANGED vars
  BY <1>19 DEF vars, TypeOK
<1> QED
  BY <1>1, <1>2, <1>3, <1>4, <1>5, <1>6, <1>7, <1>8, <1>9, <1>10, <1>11, <1>12, <1>13, <1>14,
     <1>15, <1>16, <1>17, <1>18, <1>19, <1>20 DEF Next

\* What a request on a tenant id carries belongs to customers of that id.
LEMMA RequestHeld ==
    ASSUME HeldByRequests, NEW r \in Requests, NEW pc, At(r, pc), pc \notin {"new", "oauth_delete"}
    PROVE  {req[r].row.owner, req[r].new.owner} \cup req[r].accounts \subseteq held[req[r].id]
<1> QED BY DEF HeldByRequests, At

\* Every step keeps under a tenant id what comes from customers that had the id.
LEMMA HeldInvariant ==
    IInv /\ [Next]_vars => (HeldUnderId /\ HeldByAccounts /\ HeldByRequests /\ HeldByRelayed)'
<1> SUFFICES ASSUME IInv, [Next]_vars
             PROVE  (HeldUnderId /\ HeldByAccounts /\ HeldByRequests /\ HeldByRelayed)'
    OBVIOUS
<1> DEFINE Kept == HeldUnderId /\ HeldByAccounts /\ HeldByRequests /\ HeldByRelayed
<1>0. TypeOK /\ HeldUnderId /\ HeldByAccounts /\ HeldByRequests /\ HeldByRelayed
  BY DEF IInv
<1> USE <1>0 DEF database, mail, written, requests, Begin, Await, Return
<1>1. ASSUME NEW r \in Requests, NEW p \in Ports, NewPage(r, p) PROVE Kept'
  <2>1. HeldByRequests'
    BY <1>1 DEF NewPage, HeldByRequests, TypeOK
  <2>2. (HeldUnderId /\ HeldByAccounts /\ HeldByRelayed)'
    BY <1>1 DEF NewPage, HeldUnderId, HeldByAccounts, HeldByRelayed, Held
  <2> QED BY <2>1, <2>2
<1>2. ASSUME NEW r \in Requests, NEW o \in Owners, NEW s \in Settings, Create(r, o, s) PROVE Kept'
  <2>1. HeldUnderId'
    BY <1>2 DEF Create, HeldUnderId, Held, TypeOK
  <2>2. HeldByAccounts'
    BY <1>2 DEF Create, HeldByAccounts, TypeOK, Accounts
  <2>3. HeldByRequests'
    <3>1. \A q \in Requests : req'[q] = None \/ req'[q] = req[q]
      BY <1>2 DEF Create, TypeOK
    <3>2. \A i \in Ids : held[i] \subseteq held'[i]
      BY <1>2 DEF Create, TypeOK
    <3>3. \A q \in Requests : req[q] # None /\ req[q].pc \notin {"new", "oauth_delete"} => req[q].id \in Ids
      BY DEF TypeOK, Request, FormOpen, AccountLoaded
    <3> QED BY <3>1, <3>2, <3>3 DEF HeldByRequests
  <2>4. HeldByRelayed'
    BY <1>2 DEF Create, HeldByRelayed, TypeOK
  <2> QED BY <2>1, <2>2, <2>3, <2>4
<1>3. ASSUME NEW r \in Requests, Abandon(r) PROVE Kept'
  <2>1. HeldByRequests'
    BY <1>3 DEF Abandon, HeldByRequests, TypeOK
  <2>2. (HeldUnderId /\ HeldByAccounts /\ HeldByRelayed)'
    BY <1>3 DEF Abandon, HeldUnderId, HeldByAccounts, HeldByRelayed, Held
  <2> QED BY <2>1, <2>2
<1>4. ASSUME NEW r \in Requests, NEW i \in Ids, NEW s \in Settings, NEW p \in Ports, EditLoad(r, i, s, p) PROVE Kept'
  <2>1. rows[i].owner \in held[i] /\ rows[i] \in Rows
    BY <1>4 DEF EditLoad, Load, HeldUnderId, TypeOK
  <2>2. [rows[i] EXCEPT !.settings = s, !.port = p].owner = rows[i].owner
    BY <2>1 DEF Rows
  <2>3. HeldByRequests'
    BY <1>4, <2>1, <2>2 DEF EditLoad, Load, HeldByRequests, TypeOK
  <2>4. (HeldUnderId /\ HeldByAccounts /\ HeldByRelayed)'
    BY <1>4, <2>1, <2>2 DEF EditLoad, Load, HeldUnderId, HeldByAccounts, HeldByRelayed, Held
  <2> QED BY <2>3, <2>4
<1>5. ASSUME NEW r \in Requests, EditCommit(r) PROVE Kept'
  <2>1. req[r] \in Request
    BY <1>5, RequestType DEF EditCommit
  <2>2. {req[r].row.owner, req[r].new.owner} \cup req[r].accounts \subseteq held[req[r].id]
    BY <1>5, RequestHeld DEF EditCommit
  <2>3. \A i \in Ids : rows'[i] # None => rows[i] # None /\ rows'[i].owner = rows[i].owner
    <3> SUFFICES ASSUME NEW i \in Ids, rows'[i] # None PROVE rows[i] # None /\ rows'[i].owner = rows[i].owner
      OBVIOUS
    <3>1. CASE i # req[r].id
      BY <1>5, <3>1 DEF EditCommit, TypeOK
    <3>2. CASE i = req[r].id /\ rows[i] = None
      BY <1>5, <3>2 DEF EditCommit, TypeOK
    <3>3. CASE i = req[r].id /\ rows[i] # None
      <4>1. rows'[i] = Merge(rows[i], req[r].row, req[r].new)
        BY <1>5, <3>3 DEF EditCommit, TypeOK
      <4>2. rows[i] \in Rows
        BY <3>3 DEF TypeOK
      <4> QED BY <3>3, <4>1, <4>2 DEF Merge, Rows
    <3> QED BY <3>1, <3>2, <3>3
  <2>4. req'[r] # None =>
            /\ req'[r].id = req[r].id
            /\ {req'[r].row.owner, req'[r].new.owner} \cup req'[r].accounts \subseteq held[req[r].id]
    <3> DEFINE next == [req[r] EXCEPT !.pc = "select_edit", !.row = req[r].new]
    <3>1. /\ next.id = req[r].id
          /\ next.row = req[r].new /\ next.new = req[r].new /\ next.accounts = req[r].accounts
      BY <2>1 DEF Request
    <3>2. req'[r] = None \/ req'[r] = next
      BY <1>5 DEF EditCommit, ObjectAfter, TypeOK
    <3> HIDE DEF next
    <3> QED BY <2>2, <3>1, <3>2
  <2>5. \A q \in Requests \ {r} : req'[q] = req[q]
    BY <1>5 DEF EditCommit, TypeOK
  <2>6. held' = held
    BY <1>5 DEF EditCommit
  <2>7. HeldUnderId'
    BY <1>5, <2>1, <2>2, <2>3, <2>4, <2>5, <2>6 DEF EditCommit, HeldUnderId, Held, TypeOK
  <2>8. HeldByRequests'
    BY <1>5, <2>1, <2>2, <2>3, <2>4, <2>5, <2>6 DEF EditCommit, HeldByRequests, TypeOK
  <2>9. (HeldByAccounts /\ HeldByRelayed)'
    BY <1>5, <2>1, <2>2, <2>3, <2>4, <2>5, <2>6 DEF EditCommit, HeldByAccounts, HeldByRelayed
  <2> QED BY <2>7, <2>8, <2>9
<1>6. ASSUME NEW r \in Requests, NEW i \in Ids,
             StartLoad(r, i) \/ StopLoad(r, i) \/ DeleteLoad(r, i) \/ OAuthPage(r, i)
      PROVE Kept'
  <2>1. rows[i].owner \in held[i]
    BY <1>6 DEF StartLoad, StopLoad, DeleteLoad, OAuthPage, Load, HeldUnderId
  <2>2. \E pc \in {"select_start", "stop", "remove", "oauth_add"} :
            req' = [req EXCEPT ![r] = [pc |-> pc, id |-> i, row |-> rows[i], new |-> rows[i],
                                       keys |-> {}, accounts |-> {}]]
    BY <1>6 DEF StartLoad, StopLoad, DeleteLoad, OAuthPage, Load
  <2>3. HeldByRequests'
    <3>1. held' = held
      BY <1>6 DEF StartLoad, StopLoad, DeleteLoad, OAuthPage, Load
    <3>2. req'[r].id = i /\ req'[r].row = rows[i] /\ req'[r].new = rows[i] /\ req'[r].accounts = {}
      BY <2>2 DEF TypeOK
    <3>3. \A q \in Requests \ {r} : req'[q] = req[q]
      BY <2>2 DEF TypeOK
    <3> QED BY <2>1, <3>1, <3>2, <3>3 DEF HeldByRequests
  <2>4. (HeldUnderId /\ HeldByAccounts /\ HeldByRelayed)'
    BY <1>6, <2>1, <2>2 DEF StartLoad, StopLoad, DeleteLoad, OAuthPage, Load, HeldUnderId, HeldByAccounts, HeldByRelayed, Held
  <2> QED BY <2>3, <2>4
<1>7. ASSUME NEW r \in Requests, SelectAccounts(r) PROVE Kept'
  <2>1. req[r] \in Request
    BY <1>7, RequestType DEF SelectAccounts
  <2>2. {req[r].row.owner, req[r].new.owner} \subseteq held[req[r].id]
    BY <1>7, RequestHeld DEF SelectAccounts
  <2>3. {accounts[k].owner : k \in KeysOf(req[r].id)} \subseteq held[req[r].id]
    BY DEF KeysOf, HeldByAccounts
  <2>4. HeldByRequests'
    BY <1>7, <2>1, <2>2, <2>3 DEF SelectAccounts, HeldByRequests, TypeOK, Request
  <2>5. (HeldUnderId /\ HeldByAccounts /\ HeldByRelayed)'
    BY <1>7, <2>1, <2>2, <2>3 DEF SelectAccounts, HeldUnderId, HeldByAccounts, HeldByRelayed, Held
  <2> QED BY <2>4, <2>5
<1>8. ASSUME NEW r \in Requests, EditApply(r) \/ StartApply(r) PROVE Kept'
  <2>1. req[r] \in Request
    BY <1>8, RequestType DEF EditApply, StartApply
  <2>2. req[r].id \in Ids /\ req[r].row.port \in Ports
    BY <2>1 DEF Request, Rows
  <2>3. FileOf(req[r]) \in Files /\ FileOf(req[r]) # None /\ Held(req[r].id, FileOf(req[r]))
    BY <1>8, <2>1, RequestHeld, NoneAssumption DEF EditApply, StartApply, FileOf, Request, Rows, Files, Held
  <2>4. \A i \in Ids : Held(i, file'[i]) /\ (file[i] # None => file'[i] # None)
    BY <1>8, <2>2, <2>3 DEF EditApply, StartApply, WriteConfigFile, HeldUnderId, TypeOK
  <2>5. \A i \in Ids : container'[i] # None => file'[i] # None /\ Held(i, container'[i].boot)
    <3> SUFFICES ASSUME NEW i \in Ids, container'[i] # None PROVE file'[i] # None /\ Held(i, container'[i].boot)
      OBVIOUS
    <3>1. container[i] # None => file'[i] # None /\ Held(i, container[i].boot)
      BY <2>4 DEF HeldUnderId
    <3>2. CASE i # req[r].id
      <4>1. container'[i] = container[i]
        BY <1>8, <3>2 DEF EditApply, StartApply, TypeOK
      <4> QED BY <3>1, <4>1
    <3>3. CASE i = req[r].id
      <4>1. file'[i] # None
        BY <1>8, <2>3, <3>3 DEF EditApply, StartApply, WriteConfigFile, TypeOK
      <4> DEFINE f == FileOf(req[r])
                 p == req[r].row.port
      <4>2. \/ container'[i] = container[i]
            \/ container'[i] \in StartContainer(i, p, f) \cup RestartContainer(i, p, f)
        BY <1>8, <3>3 DEF EditApply, StartApply, TypeOK
      <4>3. container'[i] \in StartContainer(i, p, f) \cup RestartContainer(i, p, f)
                => container'[i].boot = f \/ (container[i] # None /\ container'[i].boot = container[i].boot)
        BY <2>2, <2>3, LaunchType
      <4> HIDE DEF f
      <4>4. Held(i, f)
        BY <2>3, <3>3 DEF f
      <4> QED BY <3>1, <4>1, <4>2, <4>3, <4>4
    <3> QED BY <3>2, <3>3
  <2>6. HeldUnderId'
    BY <1>8, <2>1, <2>2, <2>3, <2>4, <2>5 DEF EditApply, StartApply, HeldUnderId, Held, TypeOK
  <2>7. HeldByRequests'
    BY <1>8, <2>1, <2>2, <2>3, <2>4, <2>5 DEF EditApply, StartApply, HeldByRequests, TypeOK
  <2>8. (HeldByAccounts /\ HeldByRelayed)'
    BY <1>8, <2>1, <2>2, <2>3, <2>4, <2>5 DEF EditApply, StartApply, HeldByAccounts, HeldByRelayed
  <2> QED BY <2>6, <2>7, <2>8
<1>9. ASSUME NEW r \in Requests, StopApply(r) PROVE Kept'
  <2>1. req[r] \in Request
    BY <1>9, RequestType DEF StopApply
  <2>2. container[req[r].id] \in Containers \cup {None}
    BY <2>1 DEF Request, TypeOK
  <2>3. HeldUnderId'
    BY <1>9, <2>1, <2>2 DEF StopApply, HeldUnderId, Held, TypeOK, Stopped, Containers, Request
  <2>4. HeldByRequests'
    BY <1>9, <2>1, <2>2 DEF StopApply, HeldByRequests, TypeOK
  <2>5. (HeldByAccounts /\ HeldByRelayed)'
    BY <1>9, <2>1, <2>2 DEF StopApply, HeldByAccounts, HeldByRelayed
  <2> QED BY <2>3, <2>4, <2>5
<1>10. ASSUME NEW r \in Requests, DeleteRemove(r) PROVE Kept'
  <2>1. req[r] \in Request
    BY <1>10, RequestType DEF DeleteRemove
  <2>2. {req[r].row.owner, req[r].new.owner} \cup req[r].accounts \subseteq held[req[r].id]
    BY <1>10, RequestHeld DEF DeleteRemove
  <2>3. HeldUnderId'
    BY <1>10, <2>1, <2>2 DEF DeleteRemove, HeldUnderId, Held, TypeOK, Removed, Request
  <2>4. HeldByRequests'
    BY <1>10, <2>1, <2>2 DEF DeleteRemove, HeldByRequests, TypeOK, Request
  <2>5. (HeldByAccounts /\ HeldByRelayed)'
    BY <1>10, <2>1, <2>2 DEF DeleteRemove, HeldByAccounts, HeldByRelayed
  <2> QED BY <2>3, <2>4, <2>5
<1>11. ASSUME NEW r \in Requests, DeleteCollect(r) PROVE Kept'
  <2>1. req[r] \in Request
    BY <1>11, RequestType DEF DeleteCollect
  <2>2. {req[r].row.owner, req[r].new.owner} \cup req[r].accounts \subseteq held[req[r].id]
    BY <1>11, RequestHeld DEF DeleteCollect
  <2>3. HeldByRequests'
    BY <1>11, <2>1, <2>2 DEF DeleteCollect, HeldByRequests, TypeOK, Request
  <2>4. (HeldUnderId /\ HeldByAccounts /\ HeldByRelayed)'
    BY <1>11, <2>1, <2>2 DEF DeleteCollect, HeldUnderId, HeldByAccounts, HeldByRelayed, Held
  <2> QED BY <2>3, <2>4
<1>12. ASSUME NEW r \in Requests, DeleteCommit(r) PROVE Kept'
  <2>1. HeldUnderId'
    BY <1>12 DEF DeleteCommit, HeldUnderId, Held, TypeOK
  <2>2. HeldByAccounts'
    <3>1. \A k \in Keys : accounts'[k] # None => accounts'[k] = accounts[k]
      BY <1>12, DeletedType DEF DeleteCommit
    <3> QED BY <1>12, <3>1 DEF DeleteCommit, HeldByAccounts
  <2>3. HeldByRequests'
    BY <1>12 DEF DeleteCommit, DeleteAccounts, HeldByRequests, TypeOK
  <2>4. (HeldByRelayed)'
    BY <1>12 DEF DeleteCommit, HeldByRelayed
  <2> QED BY <2>1, <2>2, <2>3, <2>4
<1>13. ASSUME NEW r \in Requests, OAuthAdd(r) PROVE Kept'
  <2>1. req[r].row.owner \in held[req[r].id]
    BY <1>13, RequestHeld DEF OAuthAdd
  <2>2. HeldByAccounts'
    BY <1>13, <2>1 DEF OAuthAdd, AccountRow, HeldByAccounts, TypeOK
  <2>3. HeldByRequests'
    BY <1>13, <2>1 DEF OAuthAdd, HeldByRequests, TypeOK
  <2>4. (HeldUnderId /\ HeldByRelayed)'
    BY <1>13, <2>1 DEF OAuthAdd, HeldUnderId, HeldByRelayed, Held
  <2> QED BY <2>2, <2>3, <2>4
<1>14. ASSUME NEW r \in Requests, NEW k \in Keys, OAuthDeleteLoad(r, k) PROVE Kept'
  <2>1. HeldByRequests'
    BY <1>14 DEF OAuthDeleteLoad, HeldByRequests, TypeOK
  <2>2. (HeldUnderId /\ HeldByAccounts /\ HeldByRelayed)'
    BY <1>14 DEF OAuthDeleteLoad, HeldUnderId, HeldByAccounts, HeldByRelayed, Held
  <2> QED BY <2>1, <2>2
<1>20. ASSUME NEW r \in Requests, OAuthDeleteCommit(r) PROVE Kept'
  <2>1. \A k \in Keys : accounts'[k] # None => accounts'[k] = accounts[k]
    BY <1>20, DeletedType DEF OAuthDeleteCommit
  <2>2. HeldByAccounts'
    BY <1>20, <2>1 DEF OAuthDeleteCommit, HeldByAccounts
  <2>3. HeldByRequests'
    BY <1>20 DEF OAuthDeleteCommit, DeleteAccounts, HeldByRequests, TypeOK
  <2>4. (HeldUnderId /\ HeldByRelayed)'
    BY <1>20 DEF OAuthDeleteCommit, HeldUnderId, HeldByRelayed, Held
  <2> QED BY <2>2, <2>3, <2>4
<1>15. ASSUME NEW i \in Ids, Crash(i) PROVE Kept'
  <2>1. HeldUnderId'
    BY <1>15 DEF Crash, HeldUnderId, Held, TypeOK, Running, Containers
  <2>2. (HeldByAccounts /\ HeldByRequests /\ HeldByRelayed)'
    BY <1>15 DEF Crash, HeldByAccounts, HeldByRequests, HeldByRelayed
  <2> QED BY <2>1, <2>2
<1>16. ASSUME NEW i \in Ids, Reboot(i) PROVE Kept'
  <2>1. HeldUnderId'
    BY <1>16 DEF Reboot, HeldUnderId, Held, TypeOK, Containers
  <2>2. (HeldByAccounts /\ HeldByRequests /\ HeldByRelayed)'
    BY <1>16 DEF Reboot, HeldByAccounts, HeldByRequests, HeldByRelayed
  <2> QED BY <2>1, <2>2
<1>17. ASSUME NEW i \in Ids, SubmitMail(i) PROVE Kept'
  <2>1. container[i].boot.owner \in held[i]
    BY <1>17, NoneAssumption DEF SubmitMail, Running, HeldUnderId, Held, TypeOK, Containers, Files
  <2>2. HeldUnderId'
    BY <1>17, <2>1 DEF SubmitMail, HeldUnderId, Held, TypeOK
  <2>3. (HeldByAccounts /\ HeldByRequests /\ HeldByRelayed)'
    BY <1>17, <2>1 DEF SubmitMail, HeldByAccounts, HeldByRequests, HeldByRelayed
  <2> QED BY <2>2, <2>3
<1>18. ASSUME NEW i \in Ids, NEW o \in Owners, NEW a \in Owners, RelayMail(i, o, a) PROVE Kept'
  <2>1. o \in held[i] /\ a \in held[i]
    BY <1>18, NoneAssumption DEF RelayMail, Running, HeldUnderId, Held, TypeOK, Containers, Files
  <2>2. HeldUnderId'
    BY <1>18, <2>1 DEF RelayMail, HeldUnderId, Held, TypeOK
  <2>3. HeldByRelayed'
    BY <1>18, <2>1 DEF RelayMail, HeldByRelayed, TypeOK
  <2>4. (HeldByAccounts /\ HeldByRequests)'
    BY <1>18, <2>1 DEF RelayMail, HeldByAccounts, HeldByRequests
  <2> QED BY <2>2, <2>3, <2>4
<1>19. CASE UNCHANGED vars
  BY <1>19 DEF vars, HeldUnderId, HeldByAccounts, HeldByRequests, HeldByRelayed, Held
<1> QED
  BY <1>1, <1>2, <1>3, <1>4, <1>5, <1>6, <1>7, <1>8, <1>9, <1>10, <1>11, <1>12, <1>13, <1>14,
     <1>15, <1>16, <1>17, <1>18, <1>19, <1>20 DEF Next

\* The invariant holds in every reachable state.
THEOREM Invariance == Spec => []IInv
<1>1. IInv /\ [Next]_vars => IInv'
  BY TypeInvariant, HeldInvariant DEF IInv
<1> QED BY InitInvariant, <1>1, PTL DEF Spec

\* Type correctness.
THEOREM TypeCorrect == Spec => []TypeOK
<1>1. IInv => TypeOK
  BY DEF IInv
<1> QED BY <1>1, Invariance, PTL

\* Whatever requests overlap, mail leaves through another customer's account
\* only under a tenant id that two customers have had.
THEOREM LeaksNeedReuse == Spec => []LeaksOnlyByReuse
<1>1. IInv => LeaksOnlyByReuse
  BY DEF IInv, HeldByRelayed, LeaksOnlyByReuse
<1> QED BY <1>1, Invariance, PTL

\* A step that takes accounts of a tenant away at most, and none while a request
\* is at work on the tenant.
AccountsKept(i) ==
    /\ \A k \in KeysOf(i)' : k \in KeysOf(i) /\ accounts'[k] = accounts[k]
    /\ (\E r \in Requests : OnTenant(r, i)') => KeysOf(i)' = KeysOf(i)

\* The accounts of a tenant stay its own, and what was selected of them current.
LEMMA SelectionKept ==
    ASSUME NEW i \in Ids, AccountsKept(i), NEW r \in Requests, OnTenant(r, i)'
    PROVE  /\ KeysOf(i)' = KeysOf(i)
           /\ {accounts'[k].owner : k \in KeysOf(i)'} = {accounts[k].owner : k \in KeysOf(i)}
<1> QED BY DEF AccountsKept

\* A step that writes no oauth row keeps the accounts of every tenant.
LEMMA SameAccounts ==
    ASSUME NEW i \in Ids, accounts' = accounts
    PROVE  AccountsKept(i) /\ KeysOf(i)' = KeysOf(i)
<1> QED BY DEF AccountsKept, KeysOf

\* A delete takes an account of a tenant that another request works on only if
\* the two thereby meet.
LEMMA DeleteKeeps ==
    ASSUME TypeOK, NEW i \in Ids, i \notin met', NEW r \in Requests, DeleteAccounts(r)
    PROVE  AccountsKept(i)
<1>1. \A k \in KeysOf(i)' : k \in KeysOf(i) /\ accounts'[k] = accounts[k]
  BY DEF KeysOf, DeleteAccounts, TypeOK
<1>2. ASSUME NEW q \in Requests, OnTenant(q, i)' PROVE KeysOf(i)' = KeysOf(i)
  <2>1. q # r /\ OnTenant(q, i)
    BY <1>2 DEF DeleteAccounts, OnTenant, TypeOK
  <2>2. \A k \in KeysOf(i) : k \notin req[r].keys
    <3> SUFFICES ASSUME NEW k \in KeysOf(i), k \in req[r].keys PROVE FALSE
      OBVIOUS
    <3>1. i \in {accounts[x].tenant : x \in req[r].keys \cap UsedKeys}
      BY DEF KeysOf, UsedKeys
    <3>2. i \in Meeting(r, {accounts[x].tenant : x \in req[r].keys \cap UsedKeys})
      BY <2>1, <3>1 DEF Meeting
    <3> QED BY <3>2 DEF DeleteAccounts
  <2>3. \A k \in KeysOf(i) : accounts'[k] = accounts[k]
    BY <2>2 DEF DeleteAccounts, KeysOf
  <2> QED BY <1>1, <2>3 DEF KeysOf
<1> QED BY <1>1, <1>2 DEF AccountsKept

\* A step that leaves row, file and container of a tenant alone, keeps its
\* accounts, lets no request on it begin or go on, and ends no edit, leaves the
\* tenant coherent.
LEMMA CoherentFrame ==
    ASSUME NEW i \in Ids, Coherent(i),
           rows'[i] = rows[i], file'[i] = file[i], container'[i] = container[i], AccountsKept(i),
           \A r \in Requests : OnTenant(r, i)' => OnTenant(r, i) /\ req'[r] = req[r],
           Editing(i) => Editing(i)', i \in brokenOff => i \in brokenOff'
    PROVE  Coherent(i)'
<1>1. OneRequest(i)'
  BY DEF Coherent, OneRequest
<1>2. RowLoaded(i)'
  BY DEF Coherent, RowLoaded
<1>3. AccountsLoaded(i)'
  <2> SUFFICES ASSUME NEW r \in Requests, OnTenant(r, i)'
               PROVE  /\ req'[r].pc = "delete" => KeysOf(i)' \subseteq req'[r].keys
                      /\ req'[r].pc \in {"apply_edit", "apply_start"} =>
                             req'[r].accounts = {accounts'[k].owner : k \in KeysOf(i)'}
    BY DEF AccountsLoaded
  <2>1. /\ req[r].pc = "delete" => KeysOf(i) \subseteq req[r].keys
        /\ req[r].pc \in {"apply_edit", "apply_start"} =>
               req[r].accounts = {accounts[k].owner : k \in KeysOf(i)}
    BY DEF Coherent, AccountsLoaded
  <2>2. req'[r] = req[r]
    OBVIOUS
  <2> QED BY <2>1, <2>2, SelectionKept
<1>4. OwnAccounts(i)'
  BY DEF Coherent, OwnAccounts, AccountsKept
<1>5. FollowsRow(i)'
  <2> SUFFICES ASSUME container'[i] # None PROVE FollowsRow(i)'
    BY DEF FollowsRow
  <2>1. rows[i] # None /\ Serves(file[i], rows[i]) /\ Serves(container[i].boot, rows[i])
    BY DEF Coherent, FollowsRow
  <2>2. rows'[i] # None /\ Serves(file'[i], rows'[i]) /\ Serves(container'[i].boot, rows'[i])
    BY <2>1 DEF Serves
  <2>3. CASE Editing(i) \/ i \in brokenOff
    BY <2>2, <2>3 DEF FollowsRow
  <2>4. CASE ~(Editing(i) \/ i \in brokenOff)
    <3>1. file[i].settings = rows[i].settings /\ (Running(i) => container[i].boot.settings = rows[i].settings)
      BY <2>4 DEF Coherent, FollowsRow
    <3>2. Running(i)' => Running(i)
      BY DEF Running
    <3> QED BY <2>2, <3>1, <3>2 DEF FollowsRow
  <2> QED BY <2>3, <2>4
<1> QED BY <1>1, <1>2, <1>3, <1>4, <1>5 DEF Coherent

\* A request on another tenant changes nothing of this one but its own point.
LEMMA ElsewhereFrame ==
    ASSUME TypeOK, NEW i \in Ids, Coherent(i), NEW r \in Requests, ~OnTenant(r, i), ~OnTenant(r, i)',
           NEW q, req' = [req EXCEPT ![r] = q], AccountsKept(i),
           rows'[i] = rows[i], file'[i] = file[i], container'[i] = container[i],
           i \in brokenOff => i \in brokenOff'
    PROVE  Coherent(i)'
<1>1. \A s \in Requests \ {r} : req'[s] = req[s]
  BY DEF TypeOK
<1>2. \A s \in Requests : OnTenant(s, i)' => OnTenant(s, i) /\ req'[s] = req[s]
  BY <1>1 DEF OnTenant
<1>3. Editing(i) => Editing(i)'
  BY <1>1 DEF Editing, OnTenant
<1> QED BY <1>2, <1>3, CoherentFrame

\* The one request on a tenant has done its step: what is left to say of the
\* tenant is said of this request, of the row, the accounts and the container.
LEMMA HereFrame ==
    ASSUME TypeOK, NEW i \in Ids, Coherent(i), NEW r \in Requests, OnTenant(r, i),
           NEW q, req' = [req EXCEPT ![r] = q],
           OnTenant(r, i)' =>
               /\ rows'[i] # None
               /\ q.row.settings = rows'[i].settings
               /\ q.row.owner = rows'[i].owner /\ q.new.owner = rows'[i].owner
               /\ q.pc \in {"collect", "delete"} => container'[i] = None
               /\ q.pc = "delete" => KeysOf(i)' \subseteq q.keys
               /\ q.pc \in {"apply_edit", "apply_start"} =>
                      q.accounts = {accounts'[k].owner : k \in KeysOf(i)'},
           OwnAccounts(i)',
           container'[i] # None =>
               rows'[i] # None /\ Serves(file'[i], rows'[i]) /\ Serves(container'[i].boot, rows'[i]),
           \/ container'[i] = None
           \/ OnTenant(r, i)' /\ q.pc \in {"select_edit", "apply_edit"}
           \/ i \in brokenOff'
           \/ /\ file'[i].settings = rows'[i].settings
              /\ Running(i)' => container'[i].boot.settings = rows'[i].settings
    PROVE  Coherent(i)'
<1>1. req'[r] = q /\ \A s \in Requests \ {r} : req'[s] = req[s]
  BY DEF TypeOK
<1>2. \A s \in Requests : OnTenant(s, i)' => s = r
  BY <1>1 DEF Coherent, OneRequest, OnTenant
<1>3. OneRequest(i)'
  BY <1>2 DEF OneRequest
<1>4. RowLoaded(i)'
  BY <1>1, <1>2 DEF RowLoaded
<1>5. AccountsLoaded(i)'
  BY <1>1, <1>2 DEF AccountsLoaded
<1>6. FollowsRow(i)'
  <2>1. CASE OnTenant(r, i)' /\ q.pc \in {"select_edit", "apply_edit"}
    <3>1. Editing(i)'
      BY <1>1, <2>1 DEF Editing
    <3> QED BY <3>1 DEF FollowsRow
  <2> QED BY <2>1 DEF FollowsRow
<1> QED BY <1>3, <1>4, <1>5, <1>6 DEF Coherent

\* What the row, the accounts, the file and the container of a tenant are while
\* one request works on it.
LEMMA OneAtWork ==
    ASSUME NEW i \in Ids, Coherent(i), NEW r \in Requests, OnTenant(r, i)
    PROVE  /\ rows[i] # None
           /\ req[r].pc # "oauth_delete" =>
                  /\ req[r].row.settings = rows[i].settings
                  /\ req[r].row.owner = rows[i].owner /\ req[r].new.owner = rows[i].owner
           /\ req[r].pc \in {"collect", "delete"} => container[i] = None
           /\ container[i] # None => Serves(file[i], rows[i]) /\ Serves(container[i].boot, rows[i])
           /\ container[i] # None /\ req[r].pc \notin {"select_edit", "apply_edit"}
              /\ i \notin brokenOff =>
                  /\ file[i].settings = rows[i].settings
                  /\ Running(i) => container[i].boot.settings = rows[i].settings
<1>1. req[r].pc \notin {"select_edit", "apply_edit"} => ~Editing(i)
  BY DEF Editing, Coherent, OneRequest
<1> QED BY <1>1 DEF Coherent, RowLoaded, FollowsRow

\* The accounts of a tenant stay its own when they are kept and its row keeps
\* its customer.
LEMMA OwnKept ==
    ASSUME NEW i \in Ids, Coherent(i), AccountsKept(i),
           rows[i] # None => rows'[i] # None /\ rows'[i].owner = rows[i].owner
    PROVE  OwnAccounts(i)'
<1> QED BY DEF Coherent, OwnAccounts, AccountsKept

\* A container that a start leaves running has the given file, or ran before.
LEMMA StartedBoot ==
    ASSUME NEW i, NEW p, NEW f, container'[i] \in StartContainer(i, p, f), Running(i)'
    PROVE  container'[i].boot = f \/ (Running(i) /\ container'[i].boot = container[i].boot)
<1> QED BY DEF StartContainer, Launch, Running

\* A container that a restart leaves running has the given file.
LEMMA RestartedBoot ==
    ASSUME NEW i, NEW p, NEW f, container[i] \in Containers \cup {None},
           container'[i] \in RestartContainer(i, p, f), Running(i)'
    PROVE  container'[i].boot = f
<1>1. Stopped(container[i]) # None => Stopped(container[i]).status # "running"
  BY DEF Stopped, Containers
<1> QED BY <1>1 DEF RestartContainer, Launch, Running

\* Requests that have met on a tenant have met for good.
LEMMA MetGrows == [Next]_vars => met \subseteq met'
<1>1. ASSUME NEW r, NEW i, NEW pc, NEW new, Load(r, i, pc, new) PROVE met \subseteq met'
  BY <1>1 DEF Load
<1>2. ASSUME NEW r, DeleteAccounts(r) PROVE met \subseteq met'
  BY <1>2 DEF DeleteAccounts
<1>3. ASSUME NEW r, NEW k, OAuthDeleteLoad(r, k) PROVE met \subseteq met'
  BY <1>3 DEF OAuthDeleteLoad
<1>4. ASSUME NEW r \in Requests,
             Abandon(r) \/ EditCommit(r) \/ SelectAccounts(r) \/ EditApply(r) \/ StartApply(r) \/ StopApply(r)
             \/ DeleteRemove(r) \/ DeleteCollect(r) \/ OAuthAdd(r)
      PROVE  met \subseteq met'
  <2>1. UNCHANGED met
    BY <1>4 DEF Abandon, EditCommit, SelectAccounts, EditApply, StartApply, StopApply, DeleteRemove,
       DeleteCollect, OAuthAdd, Await, Return
  <2> QED BY <2>1
<1>5. ASSUME NEW r \in Requests, NEW p, NewPage(r, p) PROVE met \subseteq met'
  BY <1>5 DEF NewPage
<1>6. ASSUME NEW r \in Requests, NEW o, NEW s, Create(r, o, s) PROVE met \subseteq met'
  BY <1>6 DEF Create, Return, Await
<1>7. ASSUME NEW r \in Requests, NEW i \in Ids, NEW s, NEW p,
             EditLoad(r, i, s, p) \/ StartLoad(r, i) \/ StopLoad(r, i) \/ DeleteLoad(r, i) \/ OAuthPage(r, i)
      PROVE  met \subseteq met'
  BY <1>1, <1>7 DEF EditLoad, StartLoad, StopLoad, DeleteLoad, OAuthPage
<1>8. ASSUME NEW r \in Requests, DeleteCommit(r) \/ OAuthDeleteCommit(r) PROVE met \subseteq met'
  BY <1>2, <1>8 DEF DeleteCommit, OAuthDeleteCommit
<1>9. ASSUME NEW i \in Ids, NEW o, NEW a, Crash(i) \/ Reboot(i) \/ SubmitMail(i) \/ RelayMail(i, o, a)
      PROVE  met \subseteq met'
  BY <1>9 DEF Crash, Reboot, SubmitMail, RelayMail, requests
<1>10. CASE UNCHANGED vars
  BY <1>10 DEF vars
<1> QED
  BY <1>3, <1>4, <1>5, <1>6, <1>7, <1>8, <1>9, <1>10 DEF Next

\* Every step keeps coherent each tenant no two requests have met on.
LEMMA CoherentInvariant ==
    TypeOK /\ CoherentUnlessMet /\ [Next]_vars => CoherentUnlessMet'
<1> SUFFICES ASSUME TypeOK, CoherentUnlessMet, [Next]_vars, NEW i \in Ids, i \notin met'
             PROVE  Coherent(i)'
  BY DEF CoherentUnlessMet
<1> USE DEF database, mail, written, requests, Begin, Await, Return
<1>0. met \subseteq met'
  BY MetGrows
<1>c. Coherent(i)
  BY <1>0 DEF CoherentUnlessMet
<1> USE <1>c
<1>u. ASSUME req' = req, rows'[i] = rows[i], file'[i] = file[i], container'[i] = container[i],
             accounts' = accounts, brokenOff' = brokenOff
      PROVE  Coherent(i)'
  BY <1>u, CoherentFrame, SameAccounts DEF OnTenant, Editing
<1>b. ASSUME NEW r \in Requests, req[r] = None, Quiet(i), NEW q, req' = [req EXCEPT ![r] = q], q.id = i,
             UNCHANGED <<rows, accounts, file, container, brokenOff>>, rows[i] # None,
             q.pc \in {"edit", "select_start", "stop", "remove", "oauth_add", "oauth_delete"},
             q.pc # "oauth_delete" =>
                 /\ q.row.settings = rows[i].settings
                 /\ q.row.owner = rows[i].owner /\ q.new.owner = rows[i].owner
      PROVE  Coherent(i)'
  <2>1. req'[r] = q /\ \A s \in Requests \ {r} : ~OnTenant(s, i)'
    BY <1>b DEF Quiet, OnTenant, TypeOK
  <2>2. ~Editing(i)
    BY <1>b DEF Quiet, Editing
  <2>3. OneRequest(i)'
    BY <2>1 DEF OneRequest
  <2>4. RowLoaded(i)'
    BY <1>b, <2>1 DEF RowLoaded
  <2>5. AccountsLoaded(i)'
    BY <1>b, <2>1 DEF AccountsLoaded
  <2>6. OwnAccounts(i)'
    BY <1>b, SameAccounts, OwnKept
  <2>7. FollowsRow(i)'
    BY <1>b, <2>2 DEF Coherent, FollowsRow, Running, Serves
  <2> QED BY <2>3, <2>4, <2>5, <2>6, <2>7 DEF Coherent
<1>m. ASSUME NEW r \in Requests, req[r] = None, met' = met \cup Meeting(r, {i}) PROVE Quiet(i)
  BY <1>m DEF Meeting, Quiet, OnTenant
<1>l. ASSUME NEW r \in Requests, NEW j \in Ids, NEW pc \in {"edit", "select_start", "stop", "remove", "oauth_add"},
             NEW new, Load(r, j, pc, new), new.owner = rows[j].owner
      PROVE  Coherent(i)'
  <2> DEFINE q == [pc |-> pc, id |-> j, row |-> rows[j], new |-> new, keys |-> {}, accounts |-> {}]
  <2>1. req[r] = None /\ req' = [req EXCEPT ![r] = q] /\ rows[j] # None
        /\ UNCHANGED <<rows, accounts, file, container, brokenOff>> /\ met' = met \cup Meeting(r, {j})
    BY <1>l DEF Load
  <2>2. req'[r] = q
    BY <2>1 DEF TypeOK
  <2>3. CASE j # i
    <3>1. ~OnTenant(r, i) /\ ~OnTenant(r, i)'
      BY <2>1, <2>2, <2>3 DEF OnTenant
    <3>2. rows'[i] = rows[i] /\ file'[i] = file[i] /\ container'[i] = container[i] /\ AccountsKept(i)
      BY <2>1, SameAccounts
    <3> HIDE DEF q
    <3> QED BY <2>1, <3>1, <3>2, ElsewhereFrame
  <2>4. CASE j = i
    <3>1. Quiet(i)
      BY <2>1, <2>4, <1>m
    <3>2. /\ q.id = i /\ q.pc \in {"edit", "select_start", "stop", "remove", "oauth_add"}
          /\ q.row = rows[i] /\ q.new = new
      BY <2>4
    <3> HIDE DEF q
    <3> QED BY <1>l, <2>1, <2>4, <3>1, <3>2, <1>b
  <2> QED BY <2>3, <2>4
<1>1. ASSUME NEW r \in Requests, NEW p \in Ports, NewPage(r, p) PROVE Coherent(i)'
  BY <1>1, ElsewhereFrame, SameAccounts DEF NewPage, OnTenant, TypeOK
<1>2. ASSUME NEW r \in Requests, NEW o \in Owners, NEW s \in Settings, Create(r, o, s) PROVE Coherent(i)'
  <2>1. ~OnTenant(r, i) /\ ~OnTenant(r, i)' /\ req' = [req EXCEPT ![r] = None]
        /\ UNCHANGED <<file, container, brokenOff>> /\ AccountsKept(i) /\ KeysOf(i)' = KeysOf(i)
    BY <1>2, SameAccounts DEF Create, At, OnTenant, TypeOK
  <2>2. CASE i # NextId
    <3>1. rows'[i] = rows[i]
      BY <1>2, <2>2 DEF Create, TypeOK
    <3> QED BY <2>1, <3>1, ElsewhereFrame
  <2>3. CASE i = NextId
    <3>1. rows[i] = None
      BY <1>2, <2>3 DEF Create, Live
    <3>2. container[i] = None /\ KeysOf(i)' = {} /\ \A q \in Requests : ~OnTenant(q, i)
      BY <2>1, <3>1 DEF Coherent, RowLoaded, OwnAccounts, FollowsRow
    <3>3. \A q \in Requests : ~OnTenant(q, i)'
      BY <2>1, <3>2 DEF OnTenant, TypeOK
    <3> QED
      BY <2>1, <3>2, <3>3 DEF Coherent, OneRequest, RowLoaded, AccountsLoaded, OwnAccounts, FollowsRow
  <2> QED BY <2>2, <2>3
<1>3. ASSUME NEW r \in Requests, Abandon(r) PROVE Coherent(i)'
  <2>1. ~OnTenant(r, i)' /\ req' = [req EXCEPT ![r] = None] /\ UNCHANGED <<rows, file, container>>
        /\ AccountsKept(i) /\ OwnAccounts(i)'
    BY <1>3, SameAccounts, OwnKept DEF Abandon, OnTenant, TypeOK
  <2>2. i \in brokenOff => i \in brokenOff'
    BY <1>3 DEF Abandon
  <2>3. CASE ~OnTenant(r, i)
    BY <2>1, <2>2, <2>3, ElsewhereFrame
  <2>4. CASE OnTenant(r, i)
    <3>1. req[r].pc \in {"select_edit", "apply_edit"} => i \in brokenOff'
      BY <1>3, <2>4 DEF Abandon, OnTenant
    <3> QED BY <2>1, <2>2, <2>4, <3>1, OneAtWork, HereFrame DEF Running, Serves
  <2> QED BY <2>3, <2>4
<1>4. ASSUME NEW r \in Requests, NEW j \in Ids, NEW s \in Settings, NEW p \in Ports, EditLoad(r, j, s, p)
      PROVE  Coherent(i)'
  <2>1. rows[j] \in Rows
    BY <1>4 DEF EditLoad, Load, TypeOK
  <2>2. [rows[j] EXCEPT !.settings = s, !.port = p].owner = rows[j].owner
    BY <2>1 DEF Rows
  <2> QED BY <1>4, <2>2, <1>l DEF EditLoad
<1>5. ASSUME NEW r \in Requests, EditCommit(r) PROVE Coherent(i)'
  <2> DEFINE q == [req[r] EXCEPT !.pc = "select_edit", !.row = req[r].new]
  <2>1. req[r] \in Request /\ req[r].pc = "edit" /\ UNCHANGED <<file, container, brokenOff>> /\ AccountsKept(i)
    BY <1>5, RequestType, SameAccounts DEF EditCommit
  <2>2. q.id = req[r].id /\ q.row = req[r].new /\ q.new = req[r].new /\ q.pc = "select_edit"
    BY <2>1 DEF Request
  <2>3. CASE req[r].id # i
    <3>1. rows'[i] = rows[i]
      BY <1>5, <2>3 DEF EditCommit, TypeOK
    <3>2. req' = [req EXCEPT ![r] = q] \/ req' = [req EXCEPT ![r] = None]
      BY <1>5 DEF EditCommit, ObjectAfter
    <3>3. ~OnTenant(r, i) /\ ~OnTenant(r, i)'
      BY <2>2, <2>3, <3>2 DEF OnTenant, TypeOK
    <3> HIDE DEF q
    <3> QED BY <2>1, <3>1, <3>2, <3>3, ElsewhereFrame
  <2>4. CASE req[r].id = i
    <3>1. OnTenant(r, i)
      BY <1>5, <2>1, <2>4 DEF OnTenant, EditCommit, At
    <3>2. rows[i] # None /\ req[r].row.settings = rows[i].settings /\ req[r].new.owner = rows[i].owner
          /\ (container[i] # None => Serves(file[i], rows[i]) /\ Serves(container[i].boot, rows[i]))
      BY <2>1, <3>1, OneAtWork
    <3>3. rows'[i] = Merge(rows[i], req[r].row, req[r].new) /\ req' = [req EXCEPT ![r] = q]
      BY <1>5, <2>4, <3>2 DEF EditCommit, ObjectAfter, TypeOK
    <3>4. rows[i] \in Rows /\ req[r].new \in Rows
      BY <2>1, <3>2 DEF TypeOK, Request
    <3>5. rows'[i] \in Rows /\ rows'[i].settings = req[r].new.settings /\ rows'[i].owner = rows[i].owner
      BY <3>2, <3>3, <3>4 DEF Merge, Rows
    <3>6. rows'[i] # None
      BY <3>5, NoneAssumption
    <3>7. req'[r] = q
      BY <3>3 DEF TypeOK
    <3>8. OnTenant(r, i)'
      <4>1. q \in Request
        BY <2>1, <3>4 DEF Request
      <4>2. q # None
        BY <4>1, NoRequestAssumption
      <4> QED BY <2>2, <2>4, <3>7, <4>2 DEF OnTenant
    <3>9. OwnAccounts(i)'
      BY <2>1, <3>5, <3>6, OwnKept
    <3>10. container'[i] # None => Serves(file'[i], rows'[i]) /\ Serves(container'[i].boot, rows'[i])
      BY <2>1, <3>2, <3>5 DEF Serves
    <3> HIDE DEF q
    <3> QED BY <2>2, <3>1, <3>2, <3>3, <3>5, <3>6, <3>8, <3>9, <3>10, HereFrame
  <2> QED BY <2>3, <2>4
<1>6. ASSUME NEW r \in Requests, NEW j \in Ids,
             StartLoad(r, j) \/ StopLoad(r, j) \/ DeleteLoad(r, j) \/ OAuthPage(r, j)
      PROVE  Coherent(i)'
  <2>1. \E pc \in {"select_start", "stop", "remove", "oauth_add"} : Load(r, j, pc, rows[j])
    BY <1>6 DEF StartLoad, StopLoad, DeleteLoad, OAuthPage
  <2> QED BY <2>1, <1>l
<1>7. ASSUME NEW r \in Requests, SelectAccounts(r) PROVE Coherent(i)'
  <2> DEFINE owners == {accounts[k].owner : k \in KeysOf(req[r].id)}
             q(pc) == [req[r] EXCEPT !.pc = pc, !.accounts = owners]
  <2>1. req[r] \in Request /\ UNCHANGED <<rows, file, container, brokenOff>>
        /\ AccountsKept(i) /\ KeysOf(i)' = KeysOf(i) /\ accounts' = accounts
    BY <1>7, RequestType, SameAccounts DEF SelectAccounts
  <2>2. PICK pc \in {"apply_edit", "apply_start"} :
            /\ req' = [req EXCEPT ![r] = q(pc)]
            /\ req[r].pc = "select_edit" <=> pc = "apply_edit"
    BY <1>7 DEF SelectAccounts, At
  <2>3. /\ q(pc).id = req[r].id /\ q(pc).row = req[r].row /\ q(pc).new = req[r].new
        /\ q(pc).pc = pc /\ q(pc).accounts = owners
    <3> HIDE DEF owners
    <3> QED BY <2>1 DEF Request
  <2>4. req[r] # None /\ req[r].pc \in {"select_edit", "select_start"}
    BY <1>7 DEF SelectAccounts, At
  <2>5. q(pc) # None
    <3>1. owners \in SUBSET Owners
      BY DEF KeysOf, TypeOK, Accounts
    <3> HIDE DEF owners
    <3>2. q(pc) \in Request
      BY <2>1, <3>1 DEF Request
    <3> QED BY <3>2, NoRequestAssumption
  <2>6. req'[r] = q(pc)
    BY <2>2 DEF TypeOK
  <2> HIDE DEF q
  <2>7. CASE req[r].id # i
    BY <2>1, <2>2, <2>3, <2>6, <2>7, ElsewhereFrame DEF OnTenant
  <2>8. CASE req[r].id = i
    <3>1. OnTenant(r, i) /\ OnTenant(r, i)'
      BY <2>3, <2>4, <2>5, <2>6, <2>8 DEF OnTenant
    <3>2. /\ rows[i] # None /\ req[r].row.settings = rows[i].settings
          /\ req[r].row.owner = rows[i].owner /\ req[r].new.owner = rows[i].owner
          /\ container[i] # None => Serves(file[i], rows[i]) /\ Serves(container[i].boot, rows[i])
          /\ container[i] # None /\ req[r].pc = "select_start" /\ i \notin brokenOff =>
                 /\ file[i].settings = rows[i].settings
                 /\ Running(i) => container[i].boot.settings = rows[i].settings
      BY <2>4, <3>1, OneAtWork
    <3>3. Running(i)' => Running(i) /\ container'[i] = container[i]
      BY <2>1 DEF Running
    <3>4. q(pc).accounts = {accounts'[k].owner : k \in KeysOf(i)'}
      BY <2>1, <2>3, <2>8
    <3>5. OwnAccounts(i)'
      BY <2>1, OwnKept
    <3>6. container'[i] # None => Serves(file'[i], rows'[i]) /\ Serves(container'[i].boot, rows'[i])
      BY <2>1, <3>2 DEF Serves
    <3> HIDE DEF owners
    <3> QED BY <2>1, <2>2, <2>3, <2>4, <3>1, <3>2, <3>3, <3>4, <3>5, <3>6, HereFrame
  <2> QED BY <2>7, <2>8
<1>8. ASSUME NEW r \in Requests, EditApply(r) \/ StartApply(r) PROVE Coherent(i)'
  <2> DEFINE f == FileOf(req[r])
             p == req[r].row.port
  <2>1. req[r] \in Request /\ req[r] # None /\ req[r].pc \in {"apply_edit", "apply_start"}
    BY <1>8, RequestType DEF EditApply, StartApply, At
  <2>2. req' = [req EXCEPT ![r] = None] /\ rows' = rows /\ ~OnTenant(r, i)'
        /\ AccountsKept(i) /\ KeysOf(i)' = KeysOf(i)
    BY <1>8, SameAccounts DEF EditApply, StartApply, OnTenant, TypeOK
  <2>3. CASE req[r].id # i
    <3>1. file'[i] = file[i] /\ container'[i] = container[i] /\ (i \in brokenOff => i \in brokenOff')
      BY <1>8, <2>3 DEF EditApply, StartApply, WriteConfigFile, TypeOK
    <3>2. ~OnTenant(r, i)
      BY <2>3 DEF OnTenant
    <3> QED BY <2>2, <3>1, <3>2, ElsewhereFrame
  <2>4. CASE req[r].id = i
    <3>1. OnTenant(r, i)
      BY <2>1, <2>4 DEF OnTenant
    <3>2. /\ rows[i] # None /\ f.settings = rows[i].settings /\ Serves(f, rows[i])
          /\ container[i] # None => Serves(container[i].boot, rows[i])
      <4>1. /\ rows[i] # None /\ req[r].row.settings = rows[i].settings /\ req[r].row.owner = rows[i].owner
            /\ container[i] # None => Serves(container[i].boot, rows[i])
        BY <2>1, <3>1, OneAtWork
      <4>2. req[r].accounts = {accounts[k].owner : k \in KeysOf(i)}
        BY <2>1, <3>1 DEF Coherent, AccountsLoaded
      <4>3. req[r].accounts \subseteq {rows[i].owner}
        BY <4>2 DEF Coherent, OwnAccounts
      <4> QED BY <4>1, <4>3 DEF FileOf, Serves
    <3>3. file'[i] = f
      BY <1>8, <2>4 DEF EditApply, StartApply, WriteConfigFile, TypeOK
    <3>4. container[i] \in Containers \cup {None}
      BY DEF TypeOK
    <3>5. ASSUME Running(i)', i \notin brokenOff' PROVE container'[i].boot.settings = rows[i].settings
      <4>1. CASE EditApply(r) /\ ~Running(i)
        <5>1. container' = container
          BY <2>4, <4>1 DEF EditApply
        <5> QED BY <3>5, <4>1, <5>1 DEF Running
      <4>2. CASE EditApply(r) /\ Running(i)
        <5>1. container'[i] \in RestartContainer(i, p, f)
          BY <2>4, <3>5, <4>2 DEF EditApply, TypeOK
        <5>2. container'[i].boot = f
          BY <3>4, <3>5, <5>1, RestartedBoot
        <5> QED BY <3>2, <5>2
      <4>3. CASE StartApply(r)
        <5>1. container'[i] \in StartContainer(i, p, f)
          BY <2>4, <4>3 DEF StartApply, TypeOK
        <5>2. container'[i].boot = f \/ (Running(i) /\ container'[i].boot = container[i].boot)
          BY <3>5, <5>1, StartedBoot
        <5>3. req[r].pc = "apply_start"
          BY <4>3 DEF StartApply, At
        <5>4. Running(i) => i \notin brokenOff
          BY <2>4, <3>5, <4>3 DEF StartApply
        <5>5. Running(i) => container[i].boot.settings = rows[i].settings
          BY <3>1, <5>3, <5>4, OneAtWork DEF Running
        <5> QED BY <3>2, <5>2, <5>5
      <4> QED BY <1>8, <4>1, <4>2, <4>3
    <3>6. container'[i] # None => Serves(container'[i].boot, rows[i])
      <4>1. f \in Files /\ p \in Ports
        BY <2>1 DEF FileOf, Request, Rows, Files
      <4>2. \/ container'[i] = container[i]
            \/ container'[i] \in StartContainer(i, p, f) \cup RestartContainer(i, p, f)
        BY <1>8, <2>4 DEF EditApply, StartApply, TypeOK
      <4>3. container'[i] \in StartContainer(i, p, f) \cup RestartContainer(i, p, f) =>
                (container'[i] # None =>
                     container'[i].boot = f \/ (container[i] # None /\ container'[i].boot = container[i].boot))
        BY <4>1, LaunchType
      <4> HIDE DEF f, p
      <4> QED BY <3>2, <4>2, <4>3
    <3>7. OwnAccounts(i)'
      BY <2>2, OwnKept
    <3> HIDE DEF f
    <3> QED BY <2>2, <3>1, <3>2, <3>3, <3>5, <3>6, <3>7, HereFrame
  <2> QED BY <2>3, <2>4
<1>9. ASSUME NEW r \in Requests, StopApply(r) PROVE Coherent(i)'
  <2>1. req[r] \in Request /\ req[r] # None /\ req[r].pc = "stop"
    BY <1>9, RequestType DEF StopApply, At
  <2>2. req' = [req EXCEPT ![r] = None] /\ UNCHANGED <<rows, file, brokenOff>> /\ ~OnTenant(r, i)'
        /\ AccountsKept(i) /\ OwnAccounts(i)'
    BY <1>9, SameAccounts, OwnKept DEF StopApply, OnTenant, TypeOK
  <2>3. CASE req[r].id # i
    <3>1. container'[i] = container[i]
      BY <1>9, <2>3 DEF StopApply, TypeOK
    <3> QED BY <2>2, <2>3, <3>1, ElsewhereFrame DEF OnTenant
  <2>4. CASE req[r].id = i
    <3>1. OnTenant(r, i)
      BY <2>1, <2>4 DEF OnTenant
    <3>2. container'[i] = Stopped(container[i])
      BY <1>9, <2>4 DEF StopApply, TypeOK
    <3>3. container[i] \in Containers \cup {None}
      BY DEF TypeOK
    <3>4. ~Running(i)' /\ (container'[i] # None => container[i] # None /\ container'[i].boot = container[i].boot)
      BY <3>2, <3>3 DEF Stopped, Running, Containers
    <3>5. container[i] # None =>
              /\ rows[i] # None /\ Serves(file[i], rows[i]) /\ Serves(container[i].boot, rows[i])
              /\ i \notin brokenOff => file[i].settings = rows[i].settings
      BY <2>1, <3>1, OneAtWork
    <3>6. container'[i] # None =>
              /\ rows'[i] # None /\ Serves(file'[i], rows'[i]) /\ Serves(container'[i].boot, rows'[i])
              /\ i \notin brokenOff' => file'[i].settings = rows'[i].settings
      BY <2>2, <3>4, <3>5 DEF Serves
    <3> QED BY <2>2, <3>1, <3>4, <3>6, HereFrame
  <2> QED BY <2>3, <2>4
<1>10. ASSUME NEW r \in Requests, DeleteRemove(r) PROVE Coherent(i)'
  <2> DEFINE q == [req[r] EXCEPT !.pc = "collect"]
  <2>1. req[r] \in Request /\ req[r] # None /\ req[r].pc = "remove"
    BY <1>10, RequestType DEF DeleteRemove, At
  <2>2. req' = [req EXCEPT ![r] = q] /\ req'[r] = q /\ UNCHANGED <<rows, file, brokenOff>>
        /\ AccountsKept(i) /\ OwnAccounts(i)'
    BY <1>10, SameAccounts, OwnKept DEF DeleteRemove, TypeOK
  <2>3. q.id = req[r].id /\ q.row = req[r].row /\ q.new = req[r].new /\ q.pc = "collect"
    BY <2>1 DEF Request
  <2> HIDE DEF q
  <2>4. CASE req[r].id # i
    <3>1. container'[i] = container[i]
      BY <1>10, <2>4 DEF DeleteRemove, TypeOK
    <3> QED BY <2>2, <2>3, <2>4, <3>1, ElsewhereFrame DEF OnTenant
  <2>5. CASE req[r].id = i
    <3>1. OnTenant(r, i)
      BY <2>1, <2>5 DEF OnTenant
    <3>2. container'[i] = None
      BY <1>10, <2>5 DEF DeleteRemove, Removed, TypeOK
    <3>3. /\ rows'[i] # None
          /\ q.row.settings = rows'[i].settings
          /\ q.row.owner = rows'[i].owner /\ q.new.owner = rows'[i].owner
      BY <2>1, <2>2, <2>3, <3>1, OneAtWork
    <3>4. q.pc \notin {"delete", "apply_edit", "apply_start"}
      BY <2>3
    <3> QED BY <2>2, <3>1, <3>2, <3>3, <3>4, HereFrame
  <2> QED BY <2>4, <2>5
<1>11. ASSUME NEW r \in Requests, DeleteCollect(r) PROVE Coherent(i)'
  <2> DEFINE q == [req[r] EXCEPT !.pc = "delete", !.keys = KeysOf(req[r].id)]
  <2>1. req[r] \in Request /\ req[r] # None /\ req[r].pc = "collect"
    BY <1>11, RequestType DEF DeleteCollect, At
  <2>2. req' = [req EXCEPT ![r] = q] /\ req'[r] = q /\ UNCHANGED <<rows, file, container, brokenOff>>
        /\ AccountsKept(i) /\ KeysOf(i)' = KeysOf(i) /\ OwnAccounts(i)'
    BY <1>11, SameAccounts, OwnKept DEF DeleteCollect, TypeOK
  <2>3. /\ q.id = req[r].id /\ q.row = req[r].row /\ q.new = req[r].new /\ q.pc = "delete"
        /\ q.keys = KeysOf(req[r].id)
    BY <2>1 DEF Request
  <2> HIDE DEF q
  <2>4. CASE req[r].id # i
    BY <2>2, <2>3, <2>4, ElsewhereFrame DEF OnTenant
  <2>5. CASE req[r].id = i
    <3>1. OnTenant(r, i)
      BY <2>1, <2>5 DEF OnTenant
    <3>2. /\ rows'[i] # None /\ container'[i] = None
          /\ q.row.settings = rows'[i].settings
          /\ q.row.owner = rows'[i].owner /\ q.new.owner = rows'[i].owner
      BY <2>1, <2>2, <2>3, <3>1, OneAtWork
    <3>3. KeysOf(i)' \subseteq q.keys
      BY <2>2, <2>3, <2>5
    <3> QED BY <2>2, <2>3, <3>1, <3>2, <3>3, HereFrame
  <2> QED BY <2>4, <2>5
<1>12. ASSUME NEW r \in Requests, DeleteCommit(r) PROVE Coherent(i)'
  <2>1. req[r] \in Request /\ req[r] # None /\ req[r].pc = "delete"
    BY <1>12, RequestType DEF DeleteCommit, At
  <2>2. req' = [req EXCEPT ![r] = None] /\ UNCHANGED <<file, container, brokenOff>> /\ ~OnTenant(r, i)'
    BY <1>12, DeletedType DEF DeleteCommit, OnTenant, TypeOK
  <2>3. CASE req[r].id # i
    <3>1. rows'[i] = rows[i]
      BY <1>12, <2>3 DEF DeleteCommit, TypeOK
    <3>2. AccountsKept(i)
      BY <1>12, <1>0, DeleteKeeps DEF DeleteCommit
    <3> QED BY <2>2, <2>3, <3>1, <3>2, ElsewhereFrame DEF OnTenant
  <2>4. CASE req[r].id = i
    <3>1. OnTenant(r, i)
      BY <2>1, <2>4 DEF OnTenant
    <3>2. container'[i] = None
      BY <2>1, <2>2, <3>1, OneAtWork
    <3>3. KeysOf(i) \subseteq req[r].keys
      BY <2>1, <3>1 DEF Coherent, AccountsLoaded
    <3>4. OwnAccounts(i)'
      <4>1. KeysOf(i)' = {}
        BY <1>12, <3>3 DEF DeleteCommit, DeleteAccounts, KeysOf, TypeOK
      <4> QED BY <4>1 DEF OwnAccounts
    <3> QED BY <2>2, <3>1, <3>2, <3>4, HereFrame
  <2> QED BY <2>3, <2>4
<1>13. ASSUME NEW r \in Requests, OAuthAdd(r) PROVE Coherent(i)'
  <2>1. req[r] \in Request /\ req[r].pc = "oauth_add" /\ req[r] # None
    BY <1>13, RequestType DEF OAuthAdd, At
  <2>2. req' = [req EXCEPT ![r] = None] /\ UNCHANGED <<rows, file, container, brokenOff>> /\ ~OnTenant(r, i)'
    BY <1>13 DEF OAuthAdd, OnTenant, TypeOK
  <2>3. /\ accounts[NextKey] = None
        /\ accounts' = [accounts EXCEPT ![NextKey] = AccountRow(req[r])] /\ NextKey \in Keys
    BY <1>13 DEF OAuthAdd, UsedKeys
  <2>4. CASE ~OnTenant(r, i)
    <3>1. AccountRow(req[r]).tenant # i
      BY <2>1, <2>4 DEF OnTenant, AccountRow
    <3>2. KeysOf(i)' = KeysOf(i) /\ \A k \in KeysOf(i) : accounts'[k] = accounts[k]
      BY <2>3, <3>1 DEF KeysOf, TypeOK
    <3>3. AccountsKept(i)
      BY <3>2 DEF AccountsKept
    <3> QED BY <2>2, <2>4, <3>3, ElsewhereFrame
  <2>5. CASE OnTenant(r, i)
    <3>1. rows[i] # None /\ req[r].row.owner = rows[i].owner
      BY <2>1, <2>5, OneAtWork
    <3>2. ASSUME NEW k \in KeysOf(i)' PROVE accounts'[k].owner = rows[i].owner
      <4>1. CASE k = NextKey
        BY <2>3, <3>1, <4>1 DEF AccountRow, TypeOK
      <4>2. CASE k # NextKey
        <5>1. k \in KeysOf(i) /\ accounts'[k] = accounts[k]
          BY <2>3, <4>2 DEF KeysOf, TypeOK
        <5> QED BY <5>1 DEF Coherent, OwnAccounts
      <4> QED BY <4>1, <4>2
    <3>3. OwnAccounts(i)'
      BY <2>2, <3>1, <3>2 DEF OwnAccounts
    <3> QED BY <2>1, <2>2, <2>5, <3>3, OneAtWork, HereFrame DEF Running
  <2> QED BY <2>4, <2>5
<1>14. ASSUME NEW r \in Requests, NEW k \in Keys, OAuthDeleteLoad(r, k) PROVE Coherent(i)'
  <2> DEFINE j == accounts[k].tenant
             q == [pc |-> "oauth_delete", id |-> j, keys |-> {k}]
  <2>1. req[r] = None /\ req' = [req EXCEPT ![r] = q] /\ accounts[k] # None
        /\ UNCHANGED <<rows, accounts, file, container, brokenOff>> /\ met' = met \cup Meeting(r, {j})
    BY <1>14 DEF OAuthDeleteLoad
  <2>2. q.id = j /\ q.pc = "oauth_delete" /\ req'[r] = q
    BY <2>1 DEF TypeOK
  <2>3. CASE j # i
    <3>1. ~OnTenant(r, i) /\ ~OnTenant(r, i)'
      BY <2>1, <2>2, <2>3 DEF OnTenant
    <3>2. AccountsKept(i)
      BY <2>1, SameAccounts
    <3> HIDE DEF q
    <3> QED BY <2>1, <3>1, <3>2, ElsewhereFrame
  <2>4. CASE j = i
    <3>1. Quiet(i)
      BY <2>1, <2>4, <1>m
    <3>2. rows[i] # None
      BY <2>1, <2>4 DEF Coherent, OwnAccounts, KeysOf
    <3> HIDE DEF q
    <3> QED BY <2>1, <2>2, <2>4, <3>1, <3>2, <1>b
  <2> QED BY <2>3, <2>4
<1>20. ASSUME NEW r \in Requests, OAuthDeleteCommit(r) PROVE Coherent(i)'
  <2>1. req[r].pc = "oauth_delete" /\ UNCHANGED <<rows, file, container, brokenOff>>
    BY <1>20 DEF OAuthDeleteCommit, At
  <2>2. req' = [req EXCEPT ![r] = None] /\ ~OnTenant(r, i)'
    BY <1>20, DeletedType DEF OAuthDeleteCommit, OnTenant, TypeOK
  <2>3. AccountsKept(i)
    BY <1>20, <1>0, DeleteKeeps DEF OAuthDeleteCommit
  <2>4. CASE ~OnTenant(r, i)
    BY <2>1, <2>2, <2>3, <2>4, ElsewhereFrame
  <2>5. CASE OnTenant(r, i)
    BY <2>1, <2>2, <2>3, <2>5, OneAtWork, OwnKept, HereFrame DEF Running
  <2> QED BY <2>4, <2>5
<1>15. ASSUME NEW j \in Ids, Crash(j) \/ Reboot(j) PROVE Coherent(i)'
  <2>1. req' = req /\ UNCHANGED <<rows, accounts, file, brokenOff>>
    BY <1>15 DEF Crash, Reboot
  <2>2. CASE j # i
    <3>1. container'[i] = container[i]
      BY <1>15, <2>2 DEF Crash, Reboot, TypeOK
    <3> QED BY <2>1, <3>1, <1>u
  <2>3. CASE j = i
    <3>1. container[i] # None /\ container[i] \in Containers
      BY <1>15, <2>3 DEF Crash, Reboot, Running, TypeOK
    <3>2. /\ Running(i)' => container'[i].boot = file[i]
          /\ container'[i].boot \in {container[i].boot, file[i]}
      BY <1>15, <2>3, <3>1 DEF Crash, Reboot, Running, TypeOK, Containers
    <3>3. OneRequest(i)'
      BY <2>1 DEF Coherent, OneRequest, OnTenant
    <3>4. RowLoaded(i)'
      BY <2>1, <3>1 DEF Coherent, RowLoaded, OnTenant
    <3>5. Editing(i) => Editing(i)'
      BY <2>1 DEF Editing, OnTenant
    <3>6. FollowsRow(i)'
      <4>1. rows[i] # None /\ Serves(file[i], rows[i]) /\ Serves(container[i].boot, rows[i])
        BY <3>1 DEF Coherent, FollowsRow
      <4>2. Serves(file'[i], rows'[i]) /\ Serves(container'[i].boot, rows'[i])
        BY <2>1, <3>2, <4>1
      <4> QED BY <2>1, <3>1, <3>2, <3>5, <4>1, <4>2 DEF Coherent, FollowsRow
    <3>7. AccountsLoaded(i)' /\ OwnAccounts(i)'
      BY <2>1, SameAccounts DEF Coherent, AccountsLoaded, OwnAccounts, OnTenant
    <3> QED BY <3>3, <3>4, <3>6, <3>7 DEF Coherent
  <2> QED BY <2>2, <2>3
<1>16. ASSUME NEW j \in Ids, SubmitMail(j) PROVE Coherent(i)'
  BY <1>16, <1>u DEF SubmitMail
<1>17. ASSUME NEW j \in Ids, NEW o \in Owners, NEW a \in Owners, RelayMail(j, o, a) PROVE Coherent(i)'
  BY <1>17, <1>u DEF RelayMail
<1>18. CASE UNCHANGED vars
  BY <1>18, <1>u DEF vars
<1> QED
  BY <1>1, <1>2, <1>3, <1>4, <1>5, <1>6, <1>7, <1>8, <1>9, <1>10, <1>11, <1>12, <1>13, <1>14,
     <1>15, <1>16, <1>17, <1>18, <1>20 DEF Next

\* No tenant is there at the start.
LEMMA InitCoherent == Init => CoherentUnlessMet
<1> QED
  BY DEF Init, CoherentUnlessMet, Coherent, OneRequest, RowLoaded, AccountsLoaded, OwnAccounts, FollowsRow,
     OnTenant, KeysOf

\* Each tenant stays coherent that no two requests met on, whatever overlaps on
\* other tenants.
THEOREM CoherenceKept == Spec => []CoherentUnlessMet
<1> QED BY Invariance, InitCoherent, CoherentInvariant, PTL DEF Spec, IInv

\* A deleted tenant leaves neither a container nor an oauth row behind.
THEOREM OrphansExcluded == Spec => []NoOrphans
<1>1. CoherentUnlessMet => NoOrphans
  BY DEF CoherentUnlessMet, Coherent, FollowsRow, OwnAccounts, NoOrphans
<1> QED BY CoherenceKept, <1>1, PTL

\* A running container works for the customer of its tenant's row, with the
\* customer's accounts only; and with the row's settings, unless an edit broke off
\* before the restart.
THEOREM ContainersServeTheirTenant == Spec => []RunsAsItsTenant
<1>1. CoherentUnlessMet => RunsAsItsTenant
  <2> SUFFICES ASSUME CoherentUnlessMet, NEW i \in Live \ met, Running(i)
               PROVE  /\ Serves(container[i].boot, rows[i])
                      /\ Quiet(i) /\ i \notin brokenOff => container[i].boot.settings = rows[i].settings
    BY DEF RunsAsItsTenant
  <2>1. Coherent(i) /\ container[i] # None
    BY DEF CoherentUnlessMet, Live, Running
  <2>2. Quiet(i) => ~Editing(i)
    BY DEF Quiet, Editing
  <2> QED BY <2>1, <2>2 DEF Coherent, FollowsRow
<1> QED BY CoherenceKept, <1>1, PTL

\* An edit that had its tenant to itself leaves the file the database asks for,
\* whatever runs for other tenants.
THEOREM EditsAreWritten == Spec => EditLeavesFileCurrent
<1> DEFINE Written ==
      \A r \in Requests, i \in Live \ met :
          EditApply(r) /\ req[r].id = i =>
              file'[i] = [owner |-> rows[i].owner, settings |-> rows[i].settings,
                          accounts |-> {accounts[k].owner : k \in KeysOf(i)}]
<1>1. TypeOK /\ CoherentUnlessMet /\ [Next]_vars => [Written]_vars
  <2> SUFFICES ASSUME TypeOK, CoherentUnlessMet, NEW r \in Requests, NEW i \in Live \ met,
                      EditApply(r), req[r].id = i
               PROVE  file'[i] = [owner |-> rows[i].owner, settings |-> rows[i].settings,
                                  accounts |-> {accounts[k].owner : k \in KeysOf(i)}]
    OBVIOUS
  <2>1. OnTenant(r, i) /\ req[r].pc = "apply_edit" /\ Coherent(i) /\ i \in Ids
    BY DEF EditApply, At, OnTenant, CoherentUnlessMet, Live
  <2>2. /\ req[r].row.settings = rows[i].settings /\ req[r].row.owner = rows[i].owner
        /\ req[r].accounts = {accounts[k].owner : k \in KeysOf(i)}
    BY <2>1, OneAtWork DEF Coherent, AccountsLoaded
  <2>3. file'[i] = FileOf(req[r])
    BY <2>1 DEF EditApply, WriteConfigFile, TypeOK
  <2> QED BY <2>2, <2>3 DEF FileOf
<1> QED BY Invariance, CoherenceKept, <1>1, PTL DEF Spec, IInv, EditLeavesFileCurrent
=============================================================================
