------------------------- MODULE OAuthDeliveryProofs -------------------------
(***************************************************************************)
(* Proofs of the safety properties of OAuthDelivery, for every set of      *)
(* mails, recipients and configurations, every mapping of exit statuses    *)
(* and every number of faults.                                             *)
(***************************************************************************)
EXTENDS OAuthDelivery, TLAPS

\* The invariant holds when the container starts with an empty queue.
LEMMA InitInvariant == Init => IInv
<1> SUFFICES ASSUME Init PROVE IInv
    OBVIOUS
<1>1. TypeOK
  BY DEF Init, TypeOK, NoJob, Jobs, Statuses, Failures, QueueStates, EX_OK, EX_TEMPFAIL, EX_UNAVAILABLE
<1>2. OneRunPerMail /\ SuccessIsSettled /\ TransmissionsPaidFor /\ RowsPaidFor /\ SuccessIsFiled
  BY DEF Init, OneRunPerMail, SuccessIsSettled, TransmissionsPaidFor, RowsPaidFor, SuccessIsFiled,
         Succeeded, Finished, NoJob
<1> QED BY <1>1, <1>2 DEF IInv

\* Whatever account is chosen, only nonempty sets of recipients are accepted.
LEMMA RecipientsNonempty == AcceptedSets(Chosen(config)) \subseteq (SUBSET Recipients) \ {{}}
<1>1. Recipients \in (SUBSET Recipients) \ {{}}
  BY RecipientsAssumption
<1> QED BY <1>1 DEF AcceptedSets

\* Every step keeps the invariant: one case per action, one step per conjunct
\* that the action can disturb.
LEMMA NextInvariant == IInv /\ [Next]_vars => IInv'
<1> SUFFICES ASSUME IInv, [Next]_vars PROVE IInv'
    OBVIOUS
<1> USE DEF IInv, EX_OK, EX_TEMPFAIL, EX_UNAVAILABLE, Goto, Fault, NoFault
<1>1. ASSUME NEW m \in Mails, Submit(m) PROVE IInv'
  BY <1>1 DEF Submit, upstream, rows, TypeOK, Jobs, Statuses, Failures, QueueStates, OneRunPerMail, SuccessIsSettled, TransmissionsPaidFor,
         RowsPaidFor, SuccessIsFiled, Succeeded, Finished, Settled
<1>2. ASSUME NEW m \in Mails, Spawn(m) PROVE IInv'
  <2> DEFINE point == FirstStep(config)
  <2>1. /\ point \in Jobs
        /\ point.pc \in {"token", "report", "exit"}
        /\ point.pc # "token" => point.exit = EX_TEMPFAIL
        /\ point.pc = "report" => point.status = "failed"
    BY DEF FirstStep, ExitUnreported, NotRelayed, ReportAndExit, At, NoJob, Jobs, Statuses, Failures
  <2>2. job' = [job EXCEPT ![m] = point]
    BY <1>2 DEF Spawn
  <2> HIDE DEF point
  <2>3. TypeOK'
    BY <1>2, <2>1, <2>2 DEF Spawn, TypeOK, Jobs, Statuses, Failures, QueueStates, upstream, rows
  <2>4. OneRunPerMail'
    BY <1>2, <2>1, <2>2 DEF Spawn, TypeOK, OneRunPerMail
  <2>5. SuccessIsSettled'
    BY <1>2, <2>1, <2>2 DEF Spawn, TypeOK, OneRunPerMail, SuccessIsSettled, Succeeded, Finished, Settled, upstream
  <2>6. TransmissionsPaidFor'
    BY <1>2, <2>1, <2>2 DEF Spawn, TypeOK, OneRunPerMail, TransmissionsPaidFor, Succeeded, Finished, upstream
  <2>7. RowsPaidFor'
    BY <1>2, <2>1, <2>2 DEF Spawn, TypeOK, RowsPaidFor, upstream, rows
  <2>8. SuccessIsFiled'
    BY <1>2, <2>1, <2>2 DEF Spawn, TypeOK, OneRunPerMail, SuccessIsFiled, RowsPaidFor, rows
  <2> QED BY <2>3, <2>4, <2>5, <2>6, <2>7, <2>8
<1>3. ASSUME NEW m \in Mails, GetToken(m) PROVE IInv'
  <2>1. PICK point \in Jobs :
            /\ job' = [job EXCEPT ![m] = point]
            /\ point.pc \in {"relay", "report", "exit"}
            /\ point.pc # "relay" => point.exit = EX_TEMPFAIL
            /\ point.pc = "report" => point.status = "failed_oauth"
            /\ faults' \in {faults, faults + 1}
    BY <1>3 DEF GetToken, TokenGranted, TokenRefused, TokenUncaught, ExitUnreported, ReportAndExit,
           At, NoJob, TypeOK, Jobs, Statuses, Failures
  <2>2. TypeOK'
    BY <1>3, <2>1 DEF GetToken, TypeOK, Jobs, Statuses, Failures, QueueStates, upstream, rows
  <2>3. OneRunPerMail'
    BY <1>3, <2>1 DEF GetToken, TypeOK, OneRunPerMail
  <2>4. SuccessIsSettled'
    BY <1>3, <2>1 DEF GetToken, TypeOK, OneRunPerMail, SuccessIsSettled, Succeeded, Finished, Settled, upstream
  <2>5. TransmissionsPaidFor'
    BY <1>3, <2>1 DEF GetToken, TypeOK, OneRunPerMail, TransmissionsPaidFor, Succeeded, Finished, upstream
  <2>6. RowsPaidFor'
    BY <1>3, <2>1 DEF GetToken, TypeOK, RowsPaidFor, upstream, rows
  <2>7. SuccessIsFiled'
    BY <1>3, <2>1 DEF GetToken, TypeOK, OneRunPerMail, SuccessIsFiled, RowsPaidFor, rows
  <2> QED BY <2>2, <2>3, <2>4, <2>5, <2>6, <2>7
<1>4. ASSUME NEW m \in Mails, Relay(m) PROVE IInv'
  <2> USE DEF Transmit, Relayed, NotRelayed, ReportAndExit
  <2>1. ASSUME NEW S \in (SUBSET Recipients) \ {{}}, Accepted(m, S) PROVE IInv'
    <3>1. faults' \in {faults, faults + 1}
      BY <2>1 DEF Accepted
    <3>2. Settled(m)'
      <4>1. /\ reached'[m] = reached[m] \cup S
            /\ refused'[m] = refused[m] \cup (Recipients \ S)
        BY <2>1 DEF Accepted, TypeOK
      <4>2. S # {} /\ S \subseteq Recipients /\ reached[m] \subseteq Recipients /\ refused[m] \subseteq Recipients
        BY <2>1 DEF TypeOK
      <4> QED BY <4>1, <4>2 DEF Settled
    <3>3. TypeOK'
      BY <1>4, <2>1, <3>1, <3>2 DEF Relay, Accepted, TypeOK, Jobs, Statuses, Failures, QueueStates, upstream, rows
    <3>4. OneRunPerMail'
      BY <1>4, <2>1, <3>1, <3>2 DEF Relay, Accepted, TypeOK, OneRunPerMail
    <3>5. SuccessIsSettled'
      BY <1>4, <2>1, <3>1, <3>2 DEF Relay, Accepted, TypeOK, OneRunPerMail, SuccessIsSettled, Succeeded, Finished, Settled, upstream
    <3>6. TransmissionsPaidFor'
      BY <1>4, <2>1, <3>1, <3>2 DEF Relay, Accepted, TypeOK, OneRunPerMail, TransmissionsPaidFor, Succeeded, Finished, upstream
    <3>7. RowsPaidFor'
      BY <1>4, <2>1, <3>1, <3>2 DEF Relay, Accepted, TypeOK, RowsPaidFor, upstream, rows
    <3>8. SuccessIsFiled'
      BY <1>4, <2>1, <3>1, <3>2 DEF Relay, Accepted, TypeOK, OneRunPerMail, SuccessIsFiled, RowsPaidFor, rows
    <3> QED BY <3>3, <3>4, <3>5, <3>6, <3>7, <3>8
  <2>2. ASSUME NEW S \in (SUBSET Recipients) \ {{}}, AcceptedUnknown(m, S) PROVE IInv'
    <3>1. TypeOK'
      BY <1>4, <2>2 DEF Relay, AcceptedUnknown, TypeOK, Jobs, Statuses, Failures, QueueStates, upstream, rows
    <3>2. OneRunPerMail'
      BY <1>4, <2>2 DEF Relay, AcceptedUnknown, TypeOK, OneRunPerMail
    <3>3. SuccessIsSettled'
      BY <1>4, <2>2 DEF Relay, AcceptedUnknown, TypeOK, OneRunPerMail, SuccessIsSettled, Succeeded, Finished, Settled, upstream
    <3>4. TransmissionsPaidFor'
      BY <1>4, <2>2 DEF Relay, AcceptedUnknown, TypeOK, OneRunPerMail, TransmissionsPaidFor, Succeeded, Finished, upstream
    <3>5. RowsPaidFor'
      BY <1>4, <2>2 DEF Relay, AcceptedUnknown, TypeOK, RowsPaidFor, upstream, rows
    <3>6. SuccessIsFiled'
      BY <1>4, <2>2 DEF Relay, AcceptedUnknown, TypeOK, OneRunPerMail, SuccessIsFiled, RowsPaidFor, rows
    <3> QED BY <3>1, <3>2, <3>3, <3>4, <3>5, <3>6
  <2>3. CASE Rejected(m)
    BY <1>4, <2>3 DEF Relay, Rejected, upstream, rows, TypeOK, Jobs, Statuses, Failures, QueueStates, OneRunPerMail, SuccessIsSettled, TransmissionsPaidFor,
         RowsPaidFor, SuccessIsFiled, Succeeded, Finished, Settled
  <2> QED BY <1>4, <2>1, <2>2, <2>3, RecipientsNonempty DEF Relay
<1>5. ASSUME NEW m \in Mails, Report(m) PROVE IInv'
  <2>1. PICK point \in Jobs :
            /\ job' = [job EXCEPT ![m] = point]
            /\ point = [job[m] EXCEPT !.pc = "exit"]
    BY <1>5 DEF Report, TypeOK, Jobs
  <2>2. /\ point.pc = "exit"
        /\ point.exit = job[m].exit
        /\ point.status = job[m].status
    BY <2>1 DEF TypeOK, Jobs
  <2>3. faults' \in {faults, faults + 1}
    BY <1>5 DEF Report
  <2>4. TypeOK'
    BY <1>5, <2>1, <2>2, <2>3 DEF Report, RowFiled, TypeOK, Jobs, Statuses, Failures, QueueStates, RowsPaidFor, upstream, rows
  <2>5. OneRunPerMail'
    BY <1>5, <2>1, <2>2, <2>3 DEF Report, RowFiled, TypeOK, OneRunPerMail
  <2>6. SuccessIsSettled'
    BY <1>5, <2>1, <2>2, <2>3 DEF Report, RowFiled, TypeOK, OneRunPerMail, SuccessIsSettled, Succeeded, Finished, Settled, upstream
  <2>7. TransmissionsPaidFor'
    BY <1>5, <2>1, <2>2, <2>3 DEF Report, RowFiled, TypeOK, OneRunPerMail, TransmissionsPaidFor, Succeeded, Finished, upstream
  <2>8. RowsPaidFor'
    BY <1>5, <2>1, <2>2, <2>3 DEF Report, RowFiled, TypeOK, RowsPaidFor, upstream, rows
  <2>9. SuccessIsFiled'
    BY <1>5, <2>1, <2>2, <2>3 DEF Report, RowFiled, TypeOK, OneRunPerMail, SuccessIsFiled, RowsPaidFor, rows
  <2> QED BY <2>4, <2>5, <2>6, <2>7, <2>8, <2>9
<1>6. ASSUME NEW m \in Mails, PipeResult(m) PROVE IInv'
  <2>1. TypeOK'
    BY <1>6, SoftExitsAssumption DEF PipeResult, Disposition, NoJob, TypeOK, Jobs, Statuses, Failures, QueueStates, upstream, rows
  <2>2. OneRunPerMail'
    BY <1>6, SoftExitsAssumption DEF PipeResult, Disposition, NoJob, TypeOK, OneRunPerMail
  <2>3. SuccessIsSettled'
    BY <1>6, SoftExitsAssumption DEF PipeResult, Disposition, NoJob, TypeOK, OneRunPerMail, SuccessIsSettled, Succeeded, Finished, Settled, upstream
  <2>4. TransmissionsPaidFor'
    BY <1>6, SoftExitsAssumption DEF PipeResult, Disposition, NoJob, TypeOK, OneRunPerMail, TransmissionsPaidFor, Succeeded, Finished, upstream
  <2>5. RowsPaidFor'
    BY <1>6, SoftExitsAssumption DEF PipeResult, Disposition, NoJob, TypeOK, RowsPaidFor, upstream, rows
  <2>6. SuccessIsFiled'
    BY <1>6, SoftExitsAssumption DEF PipeResult, Disposition, NoJob, TypeOK, OneRunPerMail, SuccessIsFiled, RowsPaidFor, rows
  <2> QED BY <2>1, <2>2, <2>3, <2>4, <2>5, <2>6
<1>7. ASSUME NEW m \in Mails, KillJob(m) PROVE IInv'
  BY <1>7 DEF KillJob, NoJob, upstream, rows, TypeOK, Jobs, Statuses, Failures, QueueStates, OneRunPerMail, SuccessIsSettled, TransmissionsPaidFor,
         RowsPaidFor, SuccessIsFiled, Succeeded, Finished, Settled
<1>8. ASSUME NEW m \in Mails, Expire(m) PROVE IInv'
  BY <1>8 DEF Expire, upstream, rows, TypeOK, Jobs, Statuses, Failures, QueueStates, OneRunPerMail, SuccessIsSettled, TransmissionsPaidFor,
         RowsPaidFor, SuccessIsFiled, Succeeded, Finished, Settled
<1>9. ASSUME NEW c \in Configs, Restart(c) PROVE IInv'
  BY <1>9 DEF Restart, NoJob, upstream, rows, TypeOK, Jobs, Statuses, Failures, QueueStates, OneRunPerMail, SuccessIsSettled, TransmissionsPaidFor,
         RowsPaidFor, SuccessIsFiled, Succeeded, Finished, Settled
<1>10. CASE UNCHANGED vars
  BY <1>10 DEF vars, upstream, rows, TypeOK, Jobs, Statuses, Failures, QueueStates, OneRunPerMail, SuccessIsSettled, TransmissionsPaidFor,
         RowsPaidFor, SuccessIsFiled, Succeeded, Finished, Settled
<1> QED BY <1>1, <1>2, <1>3, <1>4, <1>5, <1>6, <1>7, <1>8, <1>9, <1>10 DEF Next

\* The invariant holds in every reachable state.
THEOREM Invariance == Spec => []IInv
<1> QED BY InitInvariant, NextInvariant, PTL DEF Spec

\* Type correctness: every variable keeps to the values the code can give it.
THEOREM TypeCorrect == Spec => []TypeOK
<1>1. IInv => TypeOK
  BY DEF IInv
<1> QED BY <1>1, Invariance, PTL

\* A mail Postfix takes for delivered was accepted upstream for some recipient,
\* and each of the others was refused there: no crash, kill, lost answer or exit
\* status makes a mail vanish without one or the other.
THEOREM SilentLossExcluded == Spec => []NoSilentLoss
<1>1. IInv => NoSilentLoss
  BY DEF IInv, SuccessIsSettled, NoSilentLoss
<1> QED BY <1>1, Invariance, PTL

\* Each "success" row of the admin service stands for a transmission of its own.
THEOREM SuccessRowsAreTrue == Spec => []SuccessRowsTrue
<1>1. ASSUME IInv PROVE SuccessRowsTrue
  <2> SUFFICES ASSUME NEW m \in Mails PROVE successRows[m] <= sent[m]
    BY DEF SuccessRowsTrue
  <2>1. successRows[m] \in Nat /\ sent[m] \in Nat
    BY <1>1 DEF IInv, TypeOK
  <2> QED BY <1>1, <2>1 DEF IInv, RowsPaidFor
<1> QED BY <1>1, Invariance, PTL

\* A mail is transmitted at most once more than the environment has failed.
THEOREM DuplicatesAreBounded == Spec => []DuplicatesBounded
<1>1. ASSUME IInv PROVE DuplicatesBounded
  <2> SUFFICES ASSUME NEW m \in Mails PROVE sent[m] <= faults + 1
    BY DEF DuplicatesBounded
  <2>1. sent[m] \in Nat /\ faults \in Nat
    BY <1>1 DEF IInv, TypeOK
  <2> QED BY <1>1, <2>1 DEF IInv, TransmissionsPaidFor
<1> QED BY <1>1, Invariance, PTL

\* A delivered mail without a "success" row means that something failed.
THEOREM DeliveriesAreLogged == Spec => []DeliveredIsLogged
<1>1. IInv => DeliveredIsLogged
  BY DEF IInv, TypeOK, SuccessIsFiled, DeliveredIsLogged
<1> QED BY <1>1, Invariance, PTL

\* The container starts as the abstract relay does.
LEMMA AbstractInit == Init => Abstract!Init
<1> QED BY DEF Init, Abstract!Init, Phase

\* Every step of the container is a step of the abstract relay, or leaves what
\* the relay can see unchanged.  A run that ends with EX_OK discharges the mail,
\* which the invariant allows because such a run has had it accepted.
LEMMA AbstractStep == IInv /\ [Next]_vars => [Abstract!Next]_(Abstract!vars)
<1> SUFFICES ASSUME IInv, [Next]_vars PROVE [Abstract!Next]_(Abstract!vars)
    OBVIOUS
<1> DEFINE phase == [m \in Mails |-> Phase(queue[m])]
<1> USE DEF upstream
<1>1. queue \in [Mails -> QueueStates]
  BY DEF IInv, TypeOK
<1>2. ASSUME NEW m \in Mails, Submit(m) PROVE Abstract!Accept(m)
  BY <1>1, <1>2 DEF Submit, Abstract!Accept, Phase
<1>3. ASSUME NEW m \in Mails, Spawn(m) PROVE UNCHANGED Abstract!vars
  <2>1. UNCHANGED phase
    BY <1>1, <1>3 DEF Spawn, Phase
  <2> QED BY <1>3, <2>1 DEF Spawn, Abstract!vars
<1>4. ASSUME NEW m \in Mails, GetToken(m) PROVE UNCHANGED Abstract!vars
  BY <1>4 DEF GetToken, Abstract!vars
<1>5. ASSUME NEW m \in Mails, Relay(m) PROVE [Abstract!Next]_(Abstract!vars)
  <2>1. phase[m] = "held" /\ UNCHANGED phase
    BY <1>5 DEF Relay, IInv, OneRunPerMail, Phase
  <2>2. CASE Rejected(m)
    BY <1>5, <2>1, <2>2 DEF Relay, Rejected, Abstract!vars
  <2>3. ASSUME NEW S \in AcceptedSets(Chosen(config)), Transmit(m, S)
        PROVE Abstract!Next
    <3>1. S \in (SUBSET Recipients) \ {{}}
      BY <2>3, RecipientsNonempty
    <3>2. Abstract!Transmit(m, S)
      BY <2>1, <2>3 DEF Transmit, Abstract!Transmit
    <3> QED BY <3>1, <3>2 DEF Abstract!Next
  <2> QED BY <1>5, <2>2, <2>3 DEF Relay, Accepted, AcceptedUnknown
<1>6. ASSUME NEW m \in Mails, Report(m) PROVE UNCHANGED Abstract!vars
  BY <1>6 DEF Report, Abstract!vars
<1>7. ASSUME NEW m \in Mails, PipeResult(m) PROVE [Abstract!Next]_(Abstract!vars)
  <2>1. phase[m] = "held" /\ UNCHANGED upstream
    BY <1>7 DEF PipeResult, IInv, OneRunPerMail, Phase
  <2>2. phase' = [phase EXCEPT ![m] = Phase(Disposition(job[m].exit))]
    BY <1>1, <1>7 DEF PipeResult
  <2>3. CASE job[m].exit = EX_OK
    <3>1. Settled(m)
      BY <1>7, <2>3 DEF PipeResult, IInv, SuccessIsSettled, Succeeded, Finished
    <3>2. Abstract!Discharge(m)
      BY <2>1, <2>2, <2>3, <3>1 DEF Settled, Disposition, Phase, Abstract!Discharge
    <3> QED BY <3>2 DEF Abstract!Next
  <2>4. CASE job[m].exit # EX_OK /\ job[m].exit \in SoftExits
    <3>1. UNCHANGED phase
      BY <2>1, <2>2, <2>4 DEF Disposition, Phase
    <3> QED BY <2>1, <3>1 DEF Abstract!vars
  <2>5. CASE job[m].exit # EX_OK /\ job[m].exit \notin SoftExits
    <3>1. Abstract!Bounce(m)
      BY <2>1, <2>2, <2>5 DEF Disposition, Phase, Abstract!Bounce
    <3> QED BY <3>1 DEF Abstract!Next
  <2> QED BY <2>3, <2>4, <2>5
<1>8. ASSUME NEW m \in Mails, KillJob(m) PROVE UNCHANGED Abstract!vars
  <2>1. UNCHANGED phase
    BY <1>1, <1>8 DEF KillJob, IInv, OneRunPerMail, Phase
  <2> QED BY <1>8, <2>1 DEF KillJob, Abstract!vars
<1>9. ASSUME NEW m \in Mails, Expire(m) PROVE Abstract!Bounce(m)
  BY <1>1, <1>9 DEF Expire, Abstract!Bounce, Phase
<1>10. ASSUME NEW c \in Configs, Restart(c) PROVE UNCHANGED Abstract!vars
  <2>1. UNCHANGED phase
    BY <1>1, <1>10 DEF Restart, Phase
  <2> QED BY <1>10, <2>1 DEF Restart, Abstract!vars
<1>11. CASE UNCHANGED vars
  BY <1>11 DEF vars, Abstract!vars
<1> QED
  BY <1>2, <1>3, <1>4, <1>5, <1>6, <1>7, <1>8, <1>9, <1>10, <1>11
  DEF Next, Abstract!Next

\* No step makes main leave with another status than 0 and 1.
LEMMA ExitsInvariant == TypeOK /\ ExitsAsDocumented /\ [Next]_vars => ExitsAsDocumented'
<1> SUFFICES ASSUME TypeOK, ExitsAsDocumented, [Next]_vars, NEW n \in Mails
             PROVE  job'[n].exit \in {EX_OK, EX_TEMPFAIL}
  BY DEF ExitsAsDocumented
<1>1. job[n] \in Jobs /\ job[n].exit \in {EX_OK, EX_TEMPFAIL}
  BY DEF TypeOK, ExitsAsDocumented
<1>2. ASSUME NEW m \in Mails, NEW point, point.exit \in {EX_OK, EX_TEMPFAIL}, Goto(m, point)
      PROVE  job'[n].exit \in {EX_OK, EX_TEMPFAIL}
  <2>1. job'[n] = job[n] \/ job'[n] = point
    BY <1>2 DEF Goto, TypeOK
  <2> QED BY <1>1, <1>2, <2>1
<1>3. /\ NoJob.exit = EX_OK /\ ExitUnreported.exit = EX_TEMPFAIL
      /\ \A pc : At(pc).exit = EX_OK
      /\ \A status, exit : ReportAndExit(status, exit).exit = exit
  BY DEF NoJob, ExitUnreported, At, ReportAndExit
<1>4. ASSUME NEW m \in Mails, Spawn(m) PROVE job'[n].exit \in {EX_OK, EX_TEMPFAIL}
  <2>1. FirstStep(config).exit \in {EX_OK, EX_TEMPFAIL}
    BY <1>3 DEF FirstStep, NotRelayed
  <2> QED BY <1>2, <1>4, <2>1 DEF Spawn
<1>5. ASSUME NEW m \in Mails, GetToken(m) PROVE job'[n].exit \in {EX_OK, EX_TEMPFAIL}
  BY <1>2, <1>3, <1>5 DEF GetToken, TokenGranted, TokenRefused, TokenUncaught
<1>6. ASSUME NEW m \in Mails, Relay(m) PROVE job'[n].exit \in {EX_OK, EX_TEMPFAIL}
  BY <1>2, <1>3, <1>6 DEF Relay, Accepted, AcceptedUnknown, Rejected, Relayed, NotRelayed
<1>7. ASSUME NEW m \in Mails, Report(m) PROVE job'[n].exit \in {EX_OK, EX_TEMPFAIL}
  <2> DEFINE point == [job[m] EXCEPT !.pc = "exit"]
  <2>1. job[m] \in Jobs /\ job[m].exit \in {EX_OK, EX_TEMPFAIL}
    BY DEF TypeOK, ExitsAsDocumented
  <2>2. point.exit = job[m].exit
    BY <2>1 DEF Jobs
  <2>3. Goto(m, point)
    BY <1>7 DEF Report
  <2> HIDE DEF point
  <2> QED BY <1>2, <2>1, <2>2, <2>3
<1>8. ASSUME NEW m \in Mails, PipeResult(m) \/ KillJob(m) PROVE job'[n].exit \in {EX_OK, EX_TEMPFAIL}
  BY <1>2, <1>3, <1>8 DEF PipeResult, KillJob
<1>9. ASSUME NEW c \in Configs, Restart(c) PROVE job'[n].exit \in {EX_OK, EX_TEMPFAIL}
  BY <1>3, <1>9 DEF Restart
<1>10. CASE UNCHANGED job
  BY <1>1, <1>10
<1> QED
  BY <1>4, <1>5, <1>6, <1>7, <1>8, <1>9, <1>10 DEF Next, vars, Submit, Expire

\* No step bounces a mail a run has, if Postfix keeps mails on status 1.
LEMMA DeferredStep ==
    EX_TEMPFAIL \in SoftExits /\ TypeOK /\ ExitsAsDocumented /\ [Next]_vars
        => [\A m \in Mails : queue[m] = "active" => queue'[m] # "bounced"]_vars
<1> SUFFICES ASSUME EX_TEMPFAIL \in SoftExits, TypeOK, ExitsAsDocumented, Next,
                    NEW n \in Mails, queue[n] = "active"
             PROVE  queue'[n] # "bounced"
  OBVIOUS
<1>1. ASSUME NEW m \in Mails, Submit(m) \/ Spawn(m) \/ KillJob(m) PROVE queue'[n] # "bounced"
  BY <1>1 DEF Submit, Spawn, KillJob, TypeOK
<1>2. ASSUME NEW m \in Mails, GetToken(m) \/ Relay(m) \/ Report(m) PROVE queue'[n] # "bounced"
  BY <1>2 DEF GetToken, Relay, Report
<1>3. ASSUME NEW m \in Mails, PipeResult(m) PROVE queue'[n] # "bounced"
  <2>1. Disposition(job[m].exit) # "bounced"
    BY DEF ExitsAsDocumented, Disposition
  <2> QED BY <1>3, <2>1 DEF PipeResult, TypeOK
<1>4. ASSUME NEW m \in Mails, Expire(m) PROVE queue'[n] # "bounced"
  BY <1>4 DEF Expire, TypeOK
<1>5. ASSUME NEW c \in Configs, Restart(c) PROVE queue'[n] # "bounced"
  BY <1>5 DEF Restart
<1> QED BY <1>1, <1>2, <1>3, <1>4, <1>5 DEF Next

\* As the docstring has it: if Postfix keeps a mail on exit status 1, a failed
\* attempt never bounces it, whatever failed.
THEOREM FailuresAreDeferred == EX_TEMPFAIL \in SoftExits => (Spec => FailedAttemptsAreDeferred)
<1> SUFFICES ASSUME EX_TEMPFAIL \in SoftExits PROVE Spec => FailedAttemptsAreDeferred
  OBVIOUS
<1>1. Init => ExitsAsDocumented
  <2>1. NoJob.exit = EX_OK
    BY DEF NoJob
  <2> QED BY <2>1 DEF Init, ExitsAsDocumented
<1>2. IInv => TypeOK
  BY DEF IInv
<1>3. Spec => []ExitsAsDocumented
  BY <1>1, <1>2, Invariance, ExitsInvariant, PTL DEF Spec
<1>4. TypeOK /\ ExitsAsDocumented /\ [Next]_vars
          => [\A m \in Mails : queue[m] = "active" => queue'[m] # "bounced"]_vars
  BY DeferredStep
<1> QED BY <1>2, <1>3, <1>4, Invariance, PTL DEF Spec, FailedAttemptsAreDeferred

\* The container implements the at-least-once relay of MailRelay.
THEOREM Refinement == Spec => RelayRefinement
<1> QED BY AbstractInit, AbstractStep, Invariance, PTL DEF Spec, RelayRefinement, Abstract!Spec
=============================================================================
