------------------------- MODULE ContainerStartProofs -------------------------
(***************************************************************************)
(* Proofs about ContainerStart, for any hosts and any number of writes and *)
(* stops: a container that serves works with one version of its            *)
(* configuration, and a certificate, once complete, stays with its key.    *)
(***************************************************************************)
EXTENDS ContainerStart, TLAPS

\* At first only the configuration file exists.
LEMMA InitInvariant == Init => IInv
  <1> SUFFICES ASSUME Init PROVE IInv
    OBVIOUS
  <1>1. file \in Configs /\ file.version = 0 /\ config = file
    BY DEF Init, Configs
  <1>2. TypeOK
    BY <1>1 DEF Init, TypeOK, Steps
  <1>3. WrittenInOrder /\ CopiedLast /\ VersionsOrdered
    BY <1>1 DEF Init, WrittenInOrder, Written, CopiedLast, VersionsOrdered, Configuring, Files,
                ContainerFiles, VolumeFiles
  <1>4. KeyBeforeCert
    BY DEF Init, KeyBeforeCert, Files, ContainerFiles, VolumeFiles
  <1> QED
    BY <1>2, <1>3, <1>4 DEF IInv

\* Every step preserves the types.
LEMMA NextType == TypeOK /\ [Next]_vars => TypeOK'
  <1> SUFFICES ASSUME TypeOK, [Next]_vars PROVE TypeOK'
    OBVIOUS
  <1> USE DEF Goto, admin
  <1>1. CASE LoadConfig \/ LoadFails
    BY <1>1 DEF LoadConfig, LoadFails, TypeOK, Steps, Configuring
  <1>2. CASE GenerateCert
    BY <1>2 DEF GenerateCert, TypeOK, Steps, Configuring, Files, VolumeFiles, ContainerFiles
  <1>3. ASSUME NEW f \in Files, OpenFile(f) PROVE TypeOK'
    BY <1>3 DEF OpenFile, TypeOK
  <1>4. ASSUME NEW f \in Files, FillFile(f) PROVE TypeOK'
    <2>1. Following(f) \in Steps
      BY DEF Following, Steps, Configuring, Files, VolumeFiles, ContainerFiles
    <2>2. Content(f) \in Configs \cup {Partial}
      BY DEF Content, TypeOK
    <2> QED
      BY <1>4, <2>1, <2>2 DEF FillFile, TypeOK
  <1>5. CASE StartDovecot \/ StartPostfix
    BY <1>5 DEF StartDovecot, StartPostfix, TypeOK, Steps, SocketDirectory, AwaitedDirectory
  <1>6. CASE Stop \/ Restart
    <2>1. faults' \in Nat
      BY <1>6 DEF Stop, Fault, Restart, TypeOK
    <2>2. pc' \in Steps /\ open' \in BOOLEAN
      BY <1>6 DEF Stop, Restart, Steps
    <2> QED
      BY <1>6, <2>1, <2>2 DEF Stop, Restart, TypeOK
  <1>7. CASE Recreate
    <2>1. disk' \in [Files -> Configs \cup {Missing, Partial}]
      BY <1>7 DEF Recreate, TypeOK
    <2> QED
      BY <1>7, <2>1 DEF Recreate, TypeOK, Steps
  <1>8. CASE AdminOpen
    BY <1>8 DEF AdminOpen, TypeOK
  <1>9. ASSUME NEW h \in Hosts, AdminFill(h) PROVE TypeOK'
    BY <1>9 DEF AdminFill, TypeOK, Configs
  <1>10. CASE UNCHANGED vars
    BY <1>10 DEF vars, TypeOK
  <1> QED
    BY <1>1, <1>2, <1>3, <1>4, <1>5, <1>6, <1>7, <1>8, <1>9, <1>10 DEF Next, StartUp

\* The order in which configure.py writes its files is what makes them agree.
LEMMA NextVersions ==
    IInv /\ [Next]_vars => WrittenInOrder' /\ CopiedLast' /\ VersionsOrdered'
  <1> DEFINE Agree == WrittenInOrder /\ CopiedLast /\ VersionsOrdered
  <1> SUFFICES ASSUME IInv, [Next]_vars PROVE Agree'
    OBVIOUS
  <1> USE MarkersAssumption DEF IInv, Goto, admin, WrittenInOrder, Written, CopiedLast,
          LoadedOrLater, VersionsOrdered, Configuring, Files, ContainerFiles, VolumeFiles
  <1>1. CASE LoadConfig \/ LoadFails
    BY <1>1 DEF LoadConfig, LoadFails
  <1>2. CASE GenerateCert
    BY <1>2 DEF GenerateCert
  <1>3. ASSUME NEW f \in Files, OpenFile(f) PROVE Agree'
    BY <1>3 DEF OpenFile, TypeOK
  <1>4. ASSUME NEW f \in Files, FillFile(f) PROVE Agree'
    <2>1. pc = f /\ pc' = Following(f) /\ UNCHANGED <<file, config, overlap, writes>>
      BY <1>4 DEF FillFile
    <2>2. disk'[f] = Content(f) /\ \A g \in Files \ {f} : disk'[g] = disk[g]
      BY <1>4 DEF FillFile, TypeOK
    <2>3. CASE f \in {"key", "cert", "users"}
      BY <2>1, <2>2, <2>3 DEF Following, Content
    <2>4. CASE f = "main_cf"
      BY <2>1, <2>2, <2>4 DEF Following, Content
    <2>5. CASE f = "local"
      BY <2>1, <2>2, <2>5 DEF Following, Content
    <2> QED
      BY <2>3, <2>4, <2>5
  <1>5. CASE StartDovecot \/ StartPostfix
    BY <1>5 DEF StartDovecot, StartPostfix
  <1>6. CASE Stop \/ Restart \/ Recreate
    BY <1>6 DEF Stop, Restart, Recreate
  <1>7. CASE AdminOpen
    <2>1. writes' = writes + 1 /\ file' = Partial /\ UNCHANGED <<disk, pc, config>>
      BY <1>7 DEF AdminOpen
    <2>2. config.version < writes' /\ config.version \in Nat /\ writes \in Nat
      BY <2>1 DEF TypeOK, Configs
    <2>3. VersionsOrdered'
      BY <2>1, <2>2
    <2>4. overlap => overlap'
      BY <1>7 DEF AdminOpen
    <2>5. pc \in Configuring => overlap'
      BY <1>7 DEF AdminOpen
    <2> QED
      BY <2>1, <2>3, <2>4, <2>5
  <1>8. ASSUME NEW h \in Hosts, AdminFill(h) PROVE Agree'
    BY <1>8 DEF AdminFill, TypeOK, Configs
  <1>9. CASE UNCHANGED vars
    BY <1>9 DEF vars
  <1> QED
    BY <1>1, <1>2, <1>3, <1>4, <1>5, <1>6, <1>7, <1>8, <1>9 DEF Next, StartUp

\* openssl writes the key first, and only when one of the two files is missing.
LEMMA NextKeyBeforeCert == IInv /\ [Next]_vars => KeyBeforeCert'
  <1> SUFFICES ASSUME IInv, [Next]_vars PROVE KeyBeforeCert'
    OBVIOUS
  <1> USE MarkersAssumption DEF IInv, Goto, admin, KeyBeforeCert, Files, ContainerFiles, VolumeFiles
  <1>1. CASE LoadConfig \/ LoadFails
    BY <1>1 DEF LoadConfig, LoadFails
  <1>2. CASE GenerateCert
    BY <1>2 DEF GenerateCert, CertMissing
  <1>3. ASSUME NEW f \in Files, OpenFile(f) PROVE KeyBeforeCert'
    BY <1>3 DEF OpenFile, TypeOK
  <1>4. ASSUME NEW f \in Files, FillFile(f) PROVE KeyBeforeCert'
    BY <1>4 DEF FillFile, Following, Content, TypeOK
  <1>5. CASE StartDovecot \/ StartPostfix
    BY <1>5 DEF StartDovecot, StartPostfix
  <1>6. CASE Stop \/ Restart \/ Recreate
    BY <1>6 DEF Stop, Restart, Recreate
  <1>7. CASE AdminOpen \/ \E h \in Hosts : AdminFill(h)
    BY <1>7 DEF AdminOpen, AdminFill
  <1>8. CASE UNCHANGED vars
    BY <1>8 DEF vars
  <1> QED
    BY <1>1, <1>2, <1>3, <1>4, <1>5, <1>6, <1>7, <1>8 DEF Next, StartUp

\* The inductive invariant holds in every behaviour of the container's starts.
THEOREM Invariance == Spec => []IInv
  <1>1. IInv /\ [Next]_vars => IInv'
    BY NextType, NextVersions, NextKeyBeforeCert DEF IInv
  <1> QED
    BY InitInvariant, <1>1, PTL DEF Spec

\* Type correctness of the files, of the script's position and of the sockets.
THEOREM TypeCorrect == Spec => []TypeOK
  <1>1. IInv => TypeOK
    BY DEF IInv
  <1> QED
    BY Invariance, <1>1, PTL

\* A serving container works with one version of its configuration, unless a
\* write overlapped its start.
THEOREM OneVersionServed == Spec => []ServesOneVersion
  <1>1. IInv => ServesOneVersion
    BY DEF IInv, WrittenInOrder, Written, CopiedLast, LoadedOrLater, ServesOneVersion, Serving
  <1> QED
    BY Invariance, <1>1, PTL

\* A serving container has its key, and no certificate of another one.
THEOREM PairIsComplete == Spec => []PairComplete
  <1>1. IInv => PairComplete
    BY MarkersAssumption DEF IInv, KeyBeforeCert, PairComplete, Serving
  <1> QED
    BY Invariance, <1>1, PTL

\* No step changes a key and a certificate that are complete.
THEOREM CertificateIsKept == Spec => CertificateKept
  <1>1. IInv /\ [Next]_vars =>
            [(\A f \in VolumeFiles : disk[f] \in Configs)
                 => \A f \in VolumeFiles : disk'[f] = disk[f]]_vars
    <2> SUFFICES ASSUME IInv, Next, \A f \in VolumeFiles : disk[f] \in Configs
                 PROVE  \A f \in VolumeFiles : disk'[f] = disk[f]
      BY DEF vars
    <2> USE DEF admin, VolumeFiles
    <2>1. pc \notin {"key", "cert"}
      BY MarkersAssumption DEF IInv, KeyBeforeCert
    <2>2. ASSUME NEW f \in Files, OpenFile(f) \/ FillFile(f)
          PROVE  \A g \in VolumeFiles : disk'[g] = disk[g]
      <3>1. f = pc /\ \A g \in Files \ {f} : disk'[g] = disk[g]
        BY <2>2 DEF OpenFile, FillFile, IInv, TypeOK
      <3> QED
        BY <2>1, <3>1 DEF Files
    <2>3. CASE Recreate
      BY <2>3 DEF Recreate, Files, ContainerFiles
    <2>4. CASE UNCHANGED disk
      BY <2>4
    <2> QED
      BY <2>2, <2>3, <2>4
      DEF Next, StartUp, LoadConfig, LoadFails, GenerateCert, StartDovecot, StartPostfix,
          Stop, Restart, AdminOpen, AdminFill
  <1> QED
    BY Invariance, <1>1, PTL DEF Spec, CertificateKept
=============================================================================
