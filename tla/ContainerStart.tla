---------------------------- MODULE ContainerStart ----------------------------
(***************************************************************************)
(* The start of a tenant's container: start.sh runs configure.py, which    *)
(* turns the tenant's configuration file into a certificate on the data    *)
(* volume and into files of the container, then Dovecot, then Postfix.     *)
(* The admin service may rewrite the configuration file at any moment, and *)
(* the container may stop at any moment and start again, with its files or *)
(* recreated without them.  A file is written in two steps: opening it     *)
(* truncates it, and what it shows until it is filled is of no use.        *)
(***************************************************************************)
EXTENDS Naturals

CONSTANTS
    Hosts,      \* values of smtp_hostname
    MaxWrites,  \* bound on the writes of the configuration file
    MaxFaults,  \* bound on the stops of the container
    Missing,    \* a file that does not exist
    Partial     \* a file opened for writing and not filled yet

Configs == [version : Nat, host : Hosts]

ASSUME MaxWritesAssumption == MaxWrites \in Nat
ASSUME MaxFaultsAssumption == MaxFaults \in Nat
ASSUME MarkersAssumption == Missing # Partial /\ {Missing, Partial} \cap Configs = {}

VARIABLES
    file,       \* tenant_<id>.json on the configuration volume
    disk,       \* the files configure.py writes
    sockets,    \* directories that hold Dovecot's socket private/auth
    pc,         \* where start.sh and configure.py stand
    open,       \* configure.py has the file it is at open
    config,     \* what load_config returned
    overlap,    \* history: the configuration file was written since load_config
    writes,     \* versions written so far
    faults      \* stops so far

vars == <<file, disk, sockets, pc, open, config, overlap, writes, faults>>

\* The local copy /etc/oauth_proxy_config.json is "local" here.
ContainerFiles == {"users", "main_cf", "local"}
VolumeFiles == {"key", "cert"}
Files == ContainerFiles \cup VolumeFiles

Configuring == {"generate"} \cup Files
Steps == {"down", "load"} \cup Configuring \cup {"dovecot", "wait", "serving"}

\* Where Postfix, start.sh and Dovecot have private/auth.
QueueDirectory == "/data/spool"
AwaitedDirectory == "/var/spool/postfix"

BaseDirectory == "/run/dovecot"

SocketDirectory == "/var/spool/postfix"

TypeOK ==
    /\ file \in Configs \cup {Partial}
    /\ disk \in [Files -> Configs \cup {Missing, Partial}]
    /\ sockets \subseteq {QueueDirectory, AwaitedDirectory}
    /\ pc \in Steps
    /\ open \in BOOLEAN
    /\ config \in Configs
    /\ overlap \in BOOLEAN
    /\ writes \in Nat
    /\ faults \in Nat

Init ==
    /\ file \in [version : {0}, host : Hosts]
    /\ disk = [f \in Files |-> Missing]
    /\ sockets = {}
    /\ pc = "load"
    /\ open = FALSE
    /\ config = file
    /\ overlap = FALSE
    /\ writes = 0
    /\ faults = 0

admin == <<file, writes>>
----------------------------------------------------------------------------
(* start.sh and configure.py *)

Goto(step) == pc' = step /\ open' = FALSE

LoadConfig ==
    /\ pc = "load"
    /\ file # Partial
    /\ config' = file
    /\ overlap' = FALSE
    /\ Goto("generate")
    /\ UNCHANGED <<admin, disk, sockets, faults>>

\* json.load raises on a truncated file; set -e ends start.sh.
LoadFails ==
    /\ pc = "load"
    /\ file = Partial
    /\ Goto("down")
    /\ UNCHANGED <<admin, disk, sockets, config, overlap, faults>>

KeyMissing == disk["key"] = Missing

AnotherHost ==
    \/ \E f \in VolumeFiles : disk[f] = Missing
    \/ disk["cert"] # Partial /\ disk["cert"].host # config.host

\* generate_cert returns at once if both files exist.
CertMissing == \E f \in VolumeFiles : disk[f] = Missing

GenerateCert ==
    /\ pc = "generate"
    /\ Goto(IF CertMissing THEN "key" ELSE "users")
    /\ UNCHANGED <<admin, disk, sockets, config, overlap, faults>>

NotCopied(f) ==
    CASE f = "key" -> "cert"
      [] f = "cert" -> "users"
      [] f = "users" -> "main_cf"
      [] OTHER -> "dovecot"

\* What configure.py does after a file: openssl writes the key, then the certificate.
Following(f) ==
    CASE f = "key" -> "cert"
      [] f = "cert" -> "users"
      [] f = "users" -> "main_cf"
      [] f = "main_cf" -> "local"
      [] f = "local" -> "dovecot"

\* The local copy is taken from the configuration file as it is by then.
Content(f) == IF f = "local" THEN file ELSE config

OpenFile(f) ==
    /\ pc = f
    /\ ~open
    /\ disk' = [disk EXCEPT ![f] = Partial]
    /\ open' = TRUE
    /\ UNCHANGED <<admin, sockets, pc, config, overlap, faults>>

FillFile(f) ==
    /\ pc = f
    /\ open
    /\ disk' = [disk EXCEPT ![f] = Content(f)]
    /\ Goto(Following(f))
    /\ UNCHANGED <<admin, sockets, config, overlap, faults>>

\* dovecot.conf names its socket by an absolute path.
StartDovecot ==
    /\ pc = "dovecot"
    /\ sockets' = sockets \cup {SocketDirectory}
    /\ Goto("wait")
    /\ UNCHANGED <<admin, disk, config, overlap, faults>>

QueueSocketReady == QueueDirectory \in sockets

SocketReady == AwaitedDirectory \in sockets

StartPostfix ==
    /\ pc = "wait"
    /\ SocketReady
    /\ Goto("serving")
    /\ UNCHANGED <<admin, disk, sockets, config, overlap, faults>>
----------------------------------------------------------------------------
(* Docker and the admin service *)

Fault ==
    /\ faults < MaxFaults
    /\ faults' = faults + 1

\* The container is killed, or a command fails.
Stop ==
    /\ pc # "down"
    /\ Fault
    /\ Goto("down")
    /\ UNCHANGED <<admin, disk, sockets, config, overlap>>

\* The restart policy: the container's files are as they were.
Restart ==
    /\ pc = "down"
    /\ Goto("load")
    /\ UNCHANGED <<admin, disk, sockets, config, overlap, faults>>

\* start_container removes the container and runs a new one on the same volume.
Recreate ==
    /\ pc = "down"
    /\ Goto("load")
    /\ disk' = [f \in Files |-> IF f \in ContainerFiles THEN Missing ELSE disk[f]]
    /\ sockets' = {}
    /\ UNCHANGED <<admin, config, overlap, faults>>

\* write_config_file: write_text opens the file, then fills it.
AdminOpen ==
    /\ file # Partial
    /\ writes < MaxWrites
    /\ file' = Partial
    /\ writes' = writes + 1
    /\ overlap' = (overlap \/ pc \in Configuring)
    /\ UNCHANGED <<disk, sockets, pc, open, config, faults>>

AdminFill(h) ==
    /\ file = Partial
    /\ file' = [version |-> writes, host |-> h]
    /\ UNCHANGED <<disk, sockets, pc, open, config, overlap, writes, faults>>

StartUp ==
    \/ LoadConfig
    \/ LoadFails
    \/ GenerateCert
    \/ \E f \in Files : OpenFile(f) \/ FillFile(f)
    \/ StartDovecot
    \/ StartPostfix

Next ==
    \/ StartUp
    \/ Stop
    \/ Restart
    \/ Recreate
    \/ AdminOpen
    \/ \E h \in Hosts : AdminFill(h)

Spec == Init /\ [][Next]_vars

\* The script runs on, Docker starts what stopped, the admin service finishes
\* what it writes.
FairSpec ==
    /\ Spec
    /\ WF_vars(StartUp)
    /\ WF_vars(Restart)
    /\ WF_vars(\E h \in Hosts : AdminFill(h))
----------------------------------------------------------------------------
(* Properties *)

Serving == pc = "serving"

\* Postfix, Dovecot and the delivery script work with one version of the
\* configuration, whichever files earlier starts left behind; only a write
\* that overlaps the start may make the script's copy another, later one
\* (copy_config_local reads the file again after load_config).
ServesOneVersion ==
    Serving =>
        /\ disk["users"] = config
        /\ disk["main_cf"] = config
        /\ disk["local"] # config =>
               overlap /\ (disk["local"] # Partial => disk["local"].version > config.version)

\* Postfix has a private key, and a certificate that is of that key unless a
\* stop hit its writing, over any number of stops within generate_cert.
PairComplete ==
    Serving =>
        /\ disk["key"] \notin {Missing, Partial}
        /\ disk["cert"] \in {disk["key"], Partial}

\* A key and a certificate that were written completely stay for ever: devices
\* import the certificate into their trust store.
CertificateKept ==
    [][(\A f \in VolumeFiles : disk[f] \in Configs)
           => \A f \in VolumeFiles : disk'[f] = disk[f]]_vars

(* The invariant behind the three properties *)

Written(f, steps) == pc \in steps => disk[f] = config

\* Files are written in order, from the configuration that was loaded.
WrittenInOrder ==
    /\ Written("users", {"main_cf", "local", "dovecot", "wait", "serving"})
    /\ Written("main_cf", {"local", "dovecot", "wait", "serving"})

\* c is the loaded configuration, or what an overlapping write made of it.
LoadedOrLater(c) ==
    c # config => overlap /\ (c # Partial => c.version > config.version)

CopiedLast ==
    /\ pc \in Configuring => LoadedOrLater(file)
    /\ pc \in {"dovecot", "wait", "serving"} => LoadedOrLater(disk["local"])

VersionsOrdered ==
    /\ file # Partial => file.version <= writes
    /\ IF overlap THEN config.version < writes ELSE config.version <= writes

\* A certificate exists only beside the key it was made of.
KeyBeforeCert ==
    /\ disk["cert"] # Missing =>
           disk["key"] \in Configs /\ disk["cert"] \in {disk["key"], Partial}
    /\ pc = "key" => disk["cert"] = Missing
    /\ pc = "cert" => disk["key"] = config /\ disk["cert"] \in {Missing, Partial}
    /\ pc \in ContainerFiles \cup {"dovecot", "wait", "serving"} => disk["cert"] # Missing

IInv == TypeOK /\ WrittenInOrder /\ CopiedLast /\ VersionsOrdered /\ KeyBeforeCert

\* "Expose auth socket into Postfix spool directory".
SocketInQueueDirectory == Serving => QueueDirectory \in sockets

\* After every stop, and every file found half written, Postfix serves again.
ServesAgain == []<>Serving
=============================================================================
