---------------------------- MODULE SmtpDataProofs ----------------------------
(***************************************************************************)
(* Proofs about SmtpData, for any mails, recipients, configurations and    *)
(* number of faults.                                                       *)
(***************************************************************************)
EXTENDS SmtpData, TLAPS

\* What the inductive invariant says of one mail.
Sound(m) ==
    /\ client[m] = "waiting" <=> handler[m].pc # "none"
    /\ Succeeding(m) \/ client[m] = "done" => Settled(m)
    /\ sent[m] + late[m] <= faults + (IF Succeeding(m) \/ client[m] = "done" THEN 1 ELSE 0)
    /\ client[m] = "done" \/ (handler[m].pc \in {"report", "reply"} /\ handler[m].reply = 250)
           => rows[m]["success"] > 0
    /\ handler[m].pc \in {"relay", "success", "failed"} => rows[m]["pending"] > 0
    /\ sent[m] + late[m] + (IF handler[m].pc = "relay" THEN 1 ELSE 0)
           <= rows[m]["pending"] + rows[m]["success"] + rows[m]["failed"]
    /\ rows[m]["success"] + (IF handler[m].pc = "success" THEN 1 ELSE 0) <= sent[m]
    /\ rows[m]["pending"] <= faults +
           (IF handler[m].pc \in {"relay", "success", "failed"} THEN 1 ELSE 0)
    /\ late[m] > 0 => client[m] # "new"

LEMMA IInvIsSound == IInv <=> TypeOK /\ \A m \in Mails : Sound(m)
  BY DEF IInv, Sound, WaitsForHandler, SuccessIsSettled, TransmissionsPaidFor,
         SuccessIsMarked, RowsPaidFor, PendingExplained, LateWasOffered

LEMMA SoundIsIInvNext == TypeOK' /\ (\A m \in Mails : Sound(m)') => IInv'
  BY DEF IInv, Sound, WaitsForHandler, SuccessIsSettled, TransmissionsPaidFor,
         SuccessIsMarked, RowsPaidFor, PendingExplained, LateWasOffered

LEMMA InitInvariant == Init => IInv
  <1> SUFFICES ASSUME Init PROVE TypeOK /\ \A m \in Mails : Sound(m)
    BY IInvIsSound
  <1>1. TypeOK
    BY DEF Init, TypeOK, Handlers, NoHandler, RowCounts
  <1>2. ASSUME NEW m \in Mails PROVE Sound(m)
    BY DEF Init, Sound, Succeeding, NoHandler
  <1> QED
    BY <1>1, <1>2

\* The counters of one mail.
LEMMA CounterTypes ==
    ASSUME TypeOK, NEW m \in Mails
    PROVE  /\ handler[m] \in Handlers /\ faults \in Nat
           /\ sent[m] \in Nat /\ late[m] \in Nat /\ rows[m] \in RowCounts
           /\ rows[m]["pending"] \in Nat /\ rows[m]["success"] \in Nat /\ rows[m]["failed"] \in Nat
           /\ reached[m] \subseteq Recipients /\ refused[m] \subseteq Recipients
  BY DEF TypeOK, RowCounts

\* A mail that a step leaves alone stays sound, whatever fails elsewhere.
LEMMA Untouched ==
    ASSUME TypeOK, NEW m \in Mails, Sound(m), config' = config,
           client'[m] = client[m], handler'[m] = handler[m], late'[m] = late[m],
           rows'[m] = rows[m], sent'[m] = sent[m], reached'[m] = reached[m],
           refused'[m] = refused[m], faults' \in Nat, faults' >= faults
    PROVE  Sound(m)'
  BY CounterTypes DEF Sound, Succeeding, Settled

\* The points of handle_DATA are handler states.
LEMMA Points ==
    /\ \A pc \in {"insert", "relay", "success", "report", "reply"} :
        At(pc) \in Handlers /\ At(pc).pc = pc /\ At(pc).reply = 451
    /\ \A code \in {250, 451, 500} :
        /\ Reply(code) \in Handlers /\ Reply(code).pc = "reply" /\ Reply(code).reply = code
        /\ ReportThen(code) \in Handlers
        /\ ReportThen(code).pc = "report" /\ ReportThen(code).reply = code
    /\ \A next \in {"report", "reply"} : Fail(next) \in Handlers /\ Fail(next).pc = "failed"
    /\ NoHandler \in Handlers /\ NoHandler.pc = "none"
  <1>1. NoHandler = [pc |-> "none", next |-> "reply", reply |-> 451]
    BY DEF NoHandler
  <1>2. ASSUME NEW pc \in {"insert", "relay", "success", "failed", "report", "reply"}
        PROVE  At(pc) = [pc |-> pc, next |-> "reply", reply |-> 451]
    BY DEF At, NoHandler
  <1>3. ASSUME NEW code \in {250, 451, 500}
        PROVE  /\ Reply(code) = [pc |-> "reply", next |-> "reply", reply |-> code]
               /\ ReportThen(code) = [pc |-> "report", next |-> "reply", reply |-> code]
    BY <1>2 DEF Reply, ReportThen
  <1>4. ASSUME NEW next \in {"report", "reply"}
        PROVE  Fail(next) = [pc |-> "failed", next |-> next, reply |-> 451]
    BY <1>2 DEF Fail
  <1> QED
    BY <1>1, <1>2, <1>3, <1>4 DEF Handlers

\* A row added, or brought to its final status.
LEMMA RowSteps ==
    ASSUME TypeOK, NEW m \in Mails
    PROVE  /\ RowInserted(m) =>
                /\ rows' \in [Mails -> RowCounts]
                /\ rows'[m]["pending"] = rows[m]["pending"] + 1
                /\ rows'[m]["success"] = rows[m]["success"] /\ rows'[m]["failed"] = rows[m]["failed"]
                /\ \A n \in Mails \ {m} : rows'[n] = rows[n]
           /\ RowSettled(m, "success") /\ rows[m]["pending"] > 0 =>
                /\ rows' \in [Mails -> RowCounts]
                /\ rows'[m]["pending"] = rows[m]["pending"] - 1
                /\ rows'[m]["success"] = rows[m]["success"] + 1 /\ rows'[m]["failed"] = rows[m]["failed"]
                /\ \A n \in Mails \ {m} : rows'[n] = rows[n]
           /\ RowSettled(m, "failed") /\ rows[m]["pending"] > 0 =>
                /\ rows' \in [Mails -> RowCounts]
                /\ rows'[m]["pending"] = rows[m]["pending"] - 1
                /\ rows'[m]["success"] = rows[m]["success"] /\ rows'[m]["failed"] = rows[m]["failed"] + 1
                /\ \A n \in Mails \ {m} : rows'[n] = rows[n]
  <1>1. ASSUME NEW row \in RowCounts, rows' = [rows EXCEPT ![m] = row]
        PROVE  /\ rows' \in [Mails -> RowCounts] /\ rows'[m] = row
               /\ \A n \in Mails \ {m} : rows'[n] = rows[n]
    BY <1>1 DEF TypeOK
  <1> DEFINE Inserted == [rows[m] EXCEPT !["pending"] = @ + 1]
             Marked(status) == [rows[m] EXCEPT !["pending"] = @ - 1, ![status] = @ + 1]
  <1>2. /\ Inserted \in RowCounts /\ Inserted["pending"] = rows[m]["pending"] + 1
        /\ Inserted["success"] = rows[m]["success"] /\ Inserted["failed"] = rows[m]["failed"]
    BY CounterTypes DEF RowCounts
  <1>3. rows[m]["pending"] > 0 =>
          /\ Marked("success") \in RowCounts
          /\ Marked("success")["pending"] = rows[m]["pending"] - 1
          /\ Marked("success")["success"] = rows[m]["success"] + 1
          /\ Marked("success")["failed"] = rows[m]["failed"]
    BY CounterTypes DEF RowCounts
  <1>4. rows[m]["pending"] > 0 =>
          /\ Marked("failed") \in RowCounts
          /\ Marked("failed")["pending"] = rows[m]["pending"] - 1
          /\ Marked("failed")["success"] = rows[m]["success"]
          /\ Marked("failed")["failed"] = rows[m]["failed"] + 1
    BY CounterTypes DEF RowCounts
  <1>5. RowInserted(m) => rows' = [rows EXCEPT ![m] = Inserted]
    BY DEF RowInserted
  <1>6. \A status \in {"success", "failed"} :
          RowSettled(m, status) => rows' = [rows EXCEPT ![m] = Marked(status)]
    BY DEF RowSettled
  <1>7. RowInserted(m) => rows' \in [Mails -> RowCounts] /\ rows'[m] = Inserted
                          /\ \A n \in Mails \ {m} : rows'[n] = rows[n]
    BY <1>1, <1>2, <1>5
  <1>8. \A status \in {"success", "failed"} :
          RowSettled(m, status) /\ rows[m]["pending"] > 0 =>
              /\ rows' \in [Mails -> RowCounts] /\ rows'[m] = Marked(status)
              /\ \A n \in Mails \ {m} : rows'[n] = rows[n]
    BY <1>1, <1>3, <1>4, <1>6
  <1> HIDE DEF Inserted, Marked
  <1> QED
    BY <1>2, <1>3, <1>4, <1>7, <1>8

\* A transmission settles the mail, counts, and leaves the others alone.
LEMMA TransmitStep ==
    ASSUME TypeOK, NEW m \in Mails, NEW S \in AcceptedSets \cup {Recipients}, Transmit(m, S)
    PROVE  /\ sent' \in [Mails -> Nat]
           /\ reached' \in [Mails -> SUBSET Recipients] /\ refused' \in [Mails -> SUBSET Recipients]
           /\ sent'[m] = sent[m] + 1 /\ Settled(m)'
           /\ \A n \in Mails \ {m} :
                sent'[n] = sent[n] /\ reached'[n] = reached[n] /\ refused'[n] = refused[n]
  <1>1. S \subseteq Recipients /\ S # {}
    BY RecipientsAssumption DEF AcceptedSets
  <1>2. /\ sent' \in [Mails -> Nat] /\ sent'[m] = sent[m] + 1
        /\ \A n \in Mails \ {m} : sent'[n] = sent[n]
    BY DEF Transmit, TypeOK
  <1>3. /\ reached' \in [Mails -> SUBSET Recipients] /\ reached'[m] = reached[m] \cup S
        /\ \A n \in Mails \ {m} : reached'[n] = reached[n]
    BY <1>1 DEF Transmit, TypeOK
  <1>4. /\ refused' \in [Mails -> SUBSET Recipients]
        /\ refused'[m] = refused[m] \cup (Recipients \ S)
        /\ \A n \in Mails \ {m} : refused'[n] = refused[n]
    BY <1>1 DEF Transmit, TypeOK
  <1>5. Settled(m)'
    <2>1. reached[m] \subseteq Recipients /\ refused[m] \subseteq Recipients
      BY CounterTypes
    <2> QED
      BY <1>1, <1>3, <1>4, <2>1 DEF Settled
  <1> QED
    BY <1>2, <1>3, <1>4, <1>5

LEMMA FaultCounts == TypeOK /\ (Fault \/ NoFault) => faults' \in Nat /\ faults' >= faults
  BY DEF TypeOK, Fault, NoFault

\* A step that concerns one mail preserves the invariant if that mail stays sound.
LEMMA OneMail ==
    ASSUME IInv, NEW m \in Mails, TypeOK', Sound(m)', config' = config, faults' >= faults,
           \A n \in Mails \ {m} :
               /\ client'[n] = client[n] /\ handler'[n] = handler[n]
               /\ late'[n] = late[n] /\ rows'[n] = rows[n]
               /\ sent'[n] = sent[n] /\ reached'[n] = reached[n] /\ refused'[n] = refused[n]
    PROVE  IInv'
  <1>1. TypeOK /\ \A n \in Mails : Sound(n)
    BY IInvIsSound
  <1>2. faults' \in Nat
    BY DEF TypeOK
  <1>3. ASSUME NEW n \in Mails PROVE Sound(n)'
    <2>1. CASE n = m
      BY <2>1
    <2>2. CASE n # m
      BY <1>1, <1>2, <2>2, Untouched
    <2> QED
      BY <2>1, <2>2
  <1> QED
    BY <1>3, SoundIsIInvNext

\* The actions of one mail's handler and client, each against the mail itself.
LEMMA HandlerStep ==
    ASSUME IInv, NEW m \in Mails, Data(m) \/ Handle(m) \/ Drop(m) \/ Late(m)
    PROVE  IInv'
  <1>1. TypeOK /\ Sound(m)
    BY IInvIsSound
  <1> USE <1>1
  <1>2. config' = config /\ faults' \in Nat /\ faults' >= faults
    BY FaultCounts DEF Data, Handle, Insert, Relay, Accepted, NotAccepted, MarkSuccess,
       MarkFailed, Report, Answer, Drop, Late, TypeOK, NoFault
  <1>3. CASE Data(m)
    <2>1. handler'[m].pc \in {"insert", "reply"} /\ (handler'[m].pc = "reply" => handler'[m].reply = 451)
          /\ handler' \in [Mails -> Handlers] /\ client'[m] = "waiting"
          /\ handler'[m].pc # "none" /\ handler[m].pc = "none"
      BY <1>3, Points DEF Data, Goto, TypeOK, Sound
    <2>2. TypeOK'
      BY <1>2, <1>3, <2>1 DEF Data, upstream, TypeOK
    <2>3. Sound(m)'
      BY <1>3, <2>1, CounterTypes DEF Data, upstream, Sound, Succeeding, Settled
    <2> QED
      BY <1>2, <1>3, <2>2, <2>3, OneMail DEF Data, upstream, Goto, TypeOK
  <1>4. CASE Insert(m)
    <2>1. CASE RowInserted(m) /\ Goto(m, At("relay")) /\ NoFault
      <3>1. handler'[m].pc = "relay" /\ handler' \in [Mails -> Handlers]
        BY <2>1, Points DEF Goto, TypeOK
      <3>2. TypeOK'
        BY <1>2, <1>4, <2>1, <3>1, RowSteps DEF Insert, upstream, TypeOK
      <3>3. Sound(m)'
        BY <1>2, <1>4, <2>1, <3>1, RowSteps, CounterTypes DEF Insert, upstream, Sound, Succeeding, Settled
      <3> QED
        BY <1>2, <1>4, <2>1, <3>2, <3>3, RowSteps, OneMail DEF Insert, upstream, Goto, TypeOK
    <2>2. CASE (RowInserted(m) \/ UNCHANGED rows) /\ Goto(m, Reply(500)) /\ Fault
      <3>1. handler'[m].pc = "reply" /\ handler'[m].reply = 500 /\ handler' \in [Mails -> Handlers]
        BY <2>2, Points DEF Goto, TypeOK
      <3>2. TypeOK'
        BY <1>2, <1>4, <2>2, <3>1, RowSteps DEF Insert, upstream, TypeOK
      <3>3. faults' = faults + 1
        BY <2>2 DEF Fault
      <3>4. Sound(m)'
        BY <1>2, <1>4, <2>2, <3>1, <3>3, RowSteps, CounterTypes
        DEF Insert, upstream, Sound, Succeeding, Settled
      <3> QED
        BY <1>2, <1>4, <2>2, <3>2, <3>4, RowSteps, OneMail DEF Insert, upstream, Goto, TypeOK
    <2> QED
      BY <1>4, <2>1, <2>2 DEF Insert
  <1>5. CASE Relay(m)
    <2>1. ASSUME NEW S \in AcceptedSets, Accepted(m, S) PROVE IInv'
      <3>1. \/ handler'[m].pc = "success" /\ faults' = faults
            \/ handler'[m].pc = "failed" /\ faults' = faults + 1
        BY <2>1, Points DEF Accepted, Goto, TypeOK, Fault, NoFault
      <3>2. handler' \in [Mails -> Handlers] /\ \A n \in Mails \ {m} : handler'[n] = handler[n]
        BY <2>1, Points DEF Accepted, Goto, TypeOK
      <3>3. TypeOK'
        BY <1>2, <1>5, <2>1, <3>2, TransmitStep DEF Relay, Accepted, TypeOK
      <3>4. Settled(m)' /\ sent'[m] = sent[m] + 1
        BY <2>1, TransmitStep DEF Accepted
      <3>5. Sound(m)'
        BY <1>2, <1>5, <3>1, <3>4, CounterTypes DEF Relay, Sound, Succeeding
      <3> QED
        BY <1>2, <1>5, <2>1, <3>2, <3>3, <3>5, TransmitStep, OneMail DEF Relay, Accepted
    <2>2. CASE NotAccepted(m)
      <3>1. handler'[m].pc = "failed" /\ handler' \in [Mails -> Handlers]
            /\ \A n \in Mails \ {m} : handler'[n] = handler[n]
        BY <2>2, Points DEF NotAccepted, Goto, TypeOK
      <3>2. TypeOK'
        BY <1>2, <1>5, <2>2, <3>1 DEF Relay, NotAccepted, upstream, TypeOK
      <3>3. Sound(m)'
        BY <1>2, <1>5, <2>2, <3>1, CounterTypes
        DEF Relay, NotAccepted, upstream, Sound, Succeeding, Settled
      <3> QED
        BY <1>2, <1>5, <2>2, <3>1, <3>2, <3>3, OneMail DEF Relay, NotAccepted, upstream
    <2> QED
      BY <1>5, <2>1, <2>2 DEF Relay
  <1>6. CASE MarkSuccess(m)
    <2>1. handler[m].pc = "success" /\ rows[m]["pending"] > 0
      BY <1>6 DEF MarkSuccess, Sound
    <2>2. CASE RowSettled(m, "success") /\ Goto(m, Relayed) /\ NoFault
      <3>1. handler'[m].pc = "report" /\ handler'[m].reply = 250 /\ handler' \in [Mails -> Handlers]
        BY <2>2, Points DEF Goto, Relayed, TypeOK
      <3>2. TypeOK'
        BY <1>2, <1>6, <2>1, <2>2, <3>1, RowSteps DEF MarkSuccess, upstream, TypeOK
      <3>3. Sound(m)'
        BY <1>6, <2>1, <2>2, <3>1, RowSteps, CounterTypes
        DEF MarkSuccess, upstream, NoFault, Sound, Succeeding, Settled
      <3> QED
        BY <1>2, <1>6, <2>1, <2>2, <3>2, <3>3, RowSteps, OneMail
        DEF MarkSuccess, upstream, Goto, TypeOK
    <2>3. CASE Goto(m, Unmarked) /\ Fault /\ UNCHANGED rows
      <3>1. handler'[m].pc = "failed" /\ handler' \in [Mails -> Handlers] /\ faults' = faults + 1
        BY <2>3, Points DEF Goto, Unmarked, Fault, TypeOK
      <3>2. TypeOK'
        BY <1>2, <1>6, <2>3, <3>1 DEF MarkSuccess, upstream, TypeOK
      <3>3. Sound(m)'
        BY <1>6, <2>1, <2>3, <3>1, CounterTypes
        DEF MarkSuccess, upstream, Sound, Succeeding, Settled
      <3> QED
        BY <1>2, <1>6, <2>3, <3>2, <3>3, OneMail DEF MarkSuccess, upstream, Goto, TypeOK
    <2> QED
      BY <1>6, <2>2, <2>3 DEF MarkSuccess
  <1>7. CASE MarkFailed(m)
    <2>1. handler[m].pc = "failed" /\ rows[m]["pending"] > 0
      BY <1>7 DEF MarkFailed, Sound
    <2>2. CASE RowSettled(m, "failed") /\ Goto(m, At(handler[m].next)) /\ NoFault
      <3>1. handler[m].next \in {"report", "reply"}
        BY CounterTypes DEF Handlers
      <3>2. /\ handler'[m].pc \in {"report", "reply"} /\ handler'[m].reply = 451
            /\ handler' \in [Mails -> Handlers]
        BY <2>2, <3>1, Points DEF Goto, TypeOK
      <3>3. TypeOK'
        BY <1>2, <1>7, <2>1, <2>2, <3>2, RowSteps DEF MarkFailed, upstream, TypeOK
      <3>4. Sound(m)'
        BY <1>7, <2>1, <2>2, <3>2, RowSteps, CounterTypes
        DEF MarkFailed, upstream, NoFault, Sound, Succeeding, Settled
      <3> QED
        BY <1>2, <1>7, <2>1, <2>2, <3>3, <3>4, RowSteps, OneMail
        DEF MarkFailed, upstream, Goto, TypeOK
    <2>3. CASE Goto(m, Reply(500)) /\ Fault /\ UNCHANGED rows
      <3>1. /\ handler'[m].pc = "reply" /\ handler'[m].reply = 500
            /\ handler' \in [Mails -> Handlers] /\ faults' = faults + 1
        BY <2>3, Points DEF Goto, Fault, TypeOK
      <3>2. TypeOK'
        BY <1>2, <1>7, <2>3, <3>1 DEF MarkFailed, upstream, TypeOK
      <3>3. Sound(m)'
        BY <1>7, <2>1, <2>3, <3>1, CounterTypes
        DEF MarkFailed, upstream, Sound, Succeeding, Settled
      <3> QED
        BY <1>2, <1>7, <2>3, <3>2, <3>3, OneMail DEF MarkFailed, upstream, Goto, TypeOK
    <2> QED
      BY <1>7, <2>2, <2>3 DEF MarkFailed
  <1>8. CASE Report(m)
    <2>1. handler[m].pc = "report" /\ handler[m].reply \in {250, 451, 500}
      BY <1>8, CounterTypes DEF Report, Handlers
    <2>2. /\ handler'[m].pc = "reply" /\ handler'[m].reply = handler[m].reply
          /\ handler' \in [Mails -> Handlers]
      BY <1>8, <2>1, Points DEF Report, Goto, TypeOK
    <2>3. TypeOK'
      BY <1>8, <2>2 DEF Report, upstream, TypeOK
    <2>4. Sound(m)'
      BY <1>8, <2>1, <2>2, CounterTypes DEF Report, upstream, Sound, Succeeding, Settled
    <2> QED
      BY <1>2, <1>8, <2>3, <2>4, OneMail DEF Report, upstream, Goto, TypeOK
  <1>9. CASE Answer(m)
    <2>1. handler[m].pc = "reply" /\ handler[m].reply \in {250, 451, 500}
      BY <1>9, CounterTypes DEF Answer, Handlers
    <2>2. /\ client'[m] \in {"done", "ready", "bounced"}
          /\ client'[m] = "done" <=> handler[m].reply = 250
          /\ client' \in [Mails -> {"new", "ready", "waiting", "done", "bounced"}]
      BY <1>9, <2>1 DEF Answer, Told, TypeOK
    <2>3. handler'[m].pc = "none" /\ handler' \in [Mails -> Handlers]
      BY <1>9, Points DEF Answer, Goto, TypeOK
    <2>4. TypeOK'
      BY <1>9, <2>2, <2>3 DEF Answer, upstream, TypeOK
    <2>5. Sound(m)'
      BY <1>9, <2>1, <2>2, <2>3, CounterTypes DEF Answer, upstream, Sound, Succeeding, Settled
    <2> QED
      BY <1>2, <1>9, <2>4, <2>5, OneMail DEF Answer, upstream, Goto, TypeOK
  <1>10. CASE Drop(m)
    <2>1. /\ handler'[m].pc = "none" /\ handler' \in [Mails -> Handlers]
          /\ client'[m] = "ready" /\ faults' = faults + 1
          /\ client' \in [Mails -> {"new", "ready", "waiting", "done", "bounced"}]
          /\ \A n \in Mails \ {m} : client'[n] = client[n] /\ handler'[n] = handler[n]
          /\ client[m] # "done"
      BY <1>10, Points DEF Drop, Goto, Fault, TypeOK, Sound
    <2>2. CASE UNCHANGED <<late, rows, upstream>>
      <3>1. TypeOK' /\ Sound(m)'
        BY <1>2, <2>1, <2>2, CounterTypes DEF upstream, TypeOK, Sound, Succeeding, Settled
      <3> QED
        BY <1>2, <2>1, <2>2, <3>1, OneMail DEF upstream
    <2>3. CASE handler[m].pc = "insert" /\ RowInserted(m) /\ UNCHANGED <<late, upstream>>
      <3>1. TypeOK'
        BY <1>2, <2>1, <2>3, RowSteps DEF upstream, TypeOK
      <3>2. Sound(m)'
        BY <1>2, <2>1, <2>3, RowSteps, CounterTypes DEF upstream, Sound, Succeeding, Settled
      <3> QED
        BY <1>2, <2>1, <2>3, <3>1, <3>2, RowSteps, OneMail DEF upstream
    <2>4. ASSUME NEW pc \in {"success", "failed"}, handler[m].pc = pc, RowSettled(m, pc),
                 UNCHANGED <<late, upstream>>
          PROVE  IInv'
      <3>0. rows[m]["pending"] > 0
        BY <2>4 DEF Sound
      <3>1. TypeOK'
        BY <1>2, <2>1, <2>4, <3>0, RowSteps DEF upstream, TypeOK
      <3>2. Sound(m)'
        BY <1>2, <2>1, <2>4, <3>0, RowSteps, CounterTypes
        DEF upstream, Sound, Succeeding, Settled
      <3> QED
        BY <1>2, <2>1, <2>4, <3>0, <3>1, <3>2, RowSteps, OneMail DEF upstream
    <2>5. CASE handler[m].pc = "relay" /\ Transmit(m, Recipients) /\ UNCHANGED <<late, rows>>
      <3>1. TypeOK'
        BY <1>2, <2>1, <2>5, TransmitStep DEF TypeOK
      <3>2. Settled(m)' /\ sent'[m] = sent[m] + 1
        BY <2>5, TransmitStep
      <3>3. Sound(m)'
        BY <1>2, <2>1, <2>5, <3>2, CounterTypes DEF Sound, Succeeding
      <3> QED
        BY <1>2, <2>1, <2>5, <3>1, <3>3, TransmitStep, OneMail
    <2>6. CASE /\ handler[m].pc = "relay" /\ config = "delegated"
               /\ late' = [late EXCEPT ![m] = @ + 1] /\ UNCHANGED <<rows, upstream>>
      <3>1. late' \in [Mails -> Nat] /\ late'[m] = late[m] + 1 /\ \A n \in Mails \ {m} : late'[n] = late[n]
        BY <2>6 DEF TypeOK
      <3>2. TypeOK' /\ Sound(m)'
        BY <1>2, <2>1, <2>6, <3>1, CounterTypes
        DEF upstream, TypeOK, Sound, Succeeding, Settled
      <3> QED
        BY <1>2, <2>1, <2>6, <3>1, <3>2, OneMail DEF upstream
    <2> QED
      BY <1>10, <2>2, <2>3, <2>4, <2>5, <2>6 DEF Drop
  <1>11. CASE Late(m)
    <2>1. /\ late[m] > 0 /\ late' \in [Mails -> Nat] /\ late'[m] = late[m] - 1
          /\ \A n \in Mails \ {m} : late'[n] = late[n]
          /\ UNCHANGED <<config, client, handler, rows, faults>>
      BY <1>11 DEF Late, TypeOK
    <2>2. CASE UNCHANGED upstream
      <3>1. TypeOK' /\ Sound(m)'
        BY <2>1, <2>2, CounterTypes DEF upstream, TypeOK, Sound, Succeeding, Settled
      <3> QED
        BY <1>2, <2>1, <2>2, <3>1, OneMail DEF upstream
    <2>3. ASSUME NEW S \in AcceptedSets, Transmit(m, S) PROVE IInv'
      <3>1. TypeOK'
        BY <2>1, <2>3, TransmitStep DEF TypeOK
      <3>2. Settled(m)' /\ sent'[m] = sent[m] + 1
        BY <2>3, TransmitStep
      <3>3. Sound(m)'
        BY <2>1, <3>2, CounterTypes DEF Sound, Succeeding
      <3> QED
        BY <1>2, <2>1, <2>3, <3>1, <3>3, TransmitStep, OneMail
    <2> QED
      BY <1>11, <2>2, <2>3 DEF Late
  <1> QED
    BY <1>3, <1>4, <1>5, <1>6, <1>7, <1>8, <1>9, <1>10, <1>11 DEF Handle

\* A restart takes every handler and thread away at once.
LEMMA RestartStep ==
    ASSUME IInv, NEW c \in Configs, Restart(c)
    PROVE  IInv'
  <1>1. TypeOK /\ faults' = faults + 1
    BY IInvIsSound DEF Restart, Fault
  <1>2. TypeOK'
    BY <1>1, Points DEF Restart, upstream, TypeOK
  <1>3. ASSUME NEW m \in Mails PROVE Sound(m)'
    <2>1. Sound(m)
      BY IInvIsSound
    <2>2. /\ handler'[m].pc = "none" /\ late'[m] = 0
          /\ client'[m] = IF client[m] = "waiting" THEN "ready" ELSE client[m]
          /\ UNCHANGED <<rows, sent, reached, refused>>
      BY Points DEF Restart, upstream
    <2> QED
      BY <1>1, <2>1, <2>2, CounterTypes DEF Sound, Succeeding, Settled
  <1> QED
    BY <1>2, <1>3, SoundIsIInvNext

\* The inductive invariant holds in every behaviour of the engine.
THEOREM Invariance == Spec => []IInv
  <1>1. IInv /\ [Next]_vars => IInv'
    <2> SUFFICES ASSUME IInv, [Next]_vars PROVE IInv'
      OBVIOUS
    <2>1. CASE UNCHANGED vars
      <3>1. TypeOK /\ \A m \in Mails : Sound(m)
        BY IInvIsSound
      <3>2. TypeOK' /\ \A m \in Mails : Sound(m)'
        BY <2>1, <3>1 DEF vars, upstream, TypeOK, Sound, Succeeding, Settled
      <3> QED
        BY <3>2, SoundIsIInvNext
    <2> QED
      BY <2>1, HandlerStep, RestartStep DEF Next
  <1> QED
    BY InitInvariant, <1>1, PTL DEF Spec

\* Type correctness of handlers, rows and devices.
THEOREM TypeCorrect == Spec => []TypeOK
  <1>1. IInv => TypeOK
    BY DEF IInv
  <1> QED
    BY Invariance, <1>1, PTL

\* A device that was told 250 finds its mail in the log as "success".
THEOREM DoneIsInLog == Spec => []DoneIsLogged
  <1>1. IInv => DoneIsLogged
    BY DEF IInv, SuccessIsMarked, DoneIsLogged
  <1> QED
    BY Invariance, <1>1, PTL

\* Each transmission has a row of its own, each "success" row a transmission.
THEOREM RowsMatch == Spec => []RowsMatchTransmissions
  <1>1. IInv => RowsMatchTransmissions
    <2> SUFFICES ASSUME IInv, NEW m \in Mails
                 PROVE  /\ sent[m] + late[m] <= rows[m]["pending"] + rows[m]["success"] + rows[m]["failed"]
                        /\ rows[m]["success"] <= sent[m]
      BY DEF RowsMatchTransmissions
    <2> QED
      BY IInvIsSound, CounterTypes DEF Sound
  <1> QED
    BY Invariance, <1>1, PTL

\* Rows stay "pending" for a fault each, and for the handler at work.
THEOREM PendingIsExplained == Spec => []PendingExplained
  <1>1. IInv => PendingExplained
    BY DEF IInv
  <1> QED
    BY Invariance, <1>1, PTL

\* Every repeated transmission, also one by a thread left behind, is paid for by
\* a fault.
THEOREM DuplicatesAreBounded == Spec => []DuplicatesBounded
  <1>1. IInv => DuplicatesBounded
    <2> SUFFICES ASSUME IInv, NEW m \in Mails PROVE sent[m] + late[m] <= faults + 1
      BY DEF DuplicatesBounded
    <2> QED
      BY IInvIsSound, CounterTypes DEF Sound
  <1> QED
    BY Invariance, <1>1, PTL

LEMMA AbstractInit == Init => Abstract!Init
  BY DEF Init, Abstract!Init, Phase

\* Every step of the engine is a step of the abstract relay with strays, or
\* leaves what the relay can see unchanged.
LEMMA AbstractStep == IInv /\ [Next]_vars => [Abstract!Next]_(Abstract!vars)
  <1> SUFFICES ASSUME IInv, [Next]_vars PROVE [Abstract!Next]_(Abstract!vars)
    OBVIOUS
  <1> DEFINE phase == [m \in Mails |-> Phase(client[m])]
  <1> USE DEF upstream
  <1>1. TypeOK /\ \A m \in Mails : Sound(m)
    BY IInvIsSound
  <1>2. client \in [Mails -> {"new", "ready", "waiting", "done", "bounced"}]
    BY <1>1 DEF TypeOK
  <1>3. ASSUME NEW m \in Mails, phase[m] # "absent", UNCHANGED phase,
               NEW S \in AcceptedSets \cup {Recipients}, Transmit(m, S)
        PROVE  Abstract!Next
    <2>1. S \in (SUBSET Recipients) \ {{}}
      BY RecipientsAssumption DEF AcceptedSets
    <2>2. Abstract!Transmit(m, S)
      BY <1>3 DEF Transmit, Abstract!Transmit
    <2> QED
      BY <2>1, <2>2 DEF Abstract!Next
  <1>4. ASSUME NEW m \in Mails, handler[m].pc # "none" PROVE phase[m] = "held"
    BY <1>1, <1>4 DEF Sound, Phase
  <1>5. ASSUME NEW m \in Mails, Data(m) PROVE [Abstract!Next]_(Abstract!vars)
    <2>1. CASE client[m] = "new"
      <3>1. Abstract!Accept(m)
        BY <1>2, <1>5, <2>1 DEF Data, Abstract!Accept, Phase
      <3> QED
        BY <3>1 DEF Abstract!Next
    <2>2. CASE client[m] = "ready"
      <3>1. UNCHANGED phase
        BY <1>2, <1>5, <2>2 DEF Data, Phase
      <3> QED
        BY <1>5, <3>1 DEF Data, Abstract!vars
    <2> QED
      BY <1>5, <2>1, <2>2 DEF Data
  <1>6. ASSUME NEW m \in Mails, Insert(m) \/ MarkSuccess(m) \/ MarkFailed(m) \/ Report(m)
        PROVE  UNCHANGED Abstract!vars
    BY <1>6 DEF Insert, MarkSuccess, MarkFailed, Report, Abstract!vars
  <1>7. ASSUME NEW m \in Mails, Relay(m) PROVE [Abstract!Next]_(Abstract!vars)
    <2>1. phase[m] = "held" /\ UNCHANGED phase
      BY <1>4, <1>7 DEF Relay
    <2>2. CASE NotAccepted(m)
      BY <1>7, <2>1, <2>2 DEF Relay, NotAccepted, Abstract!vars
    <2>3. ASSUME NEW S \in AcceptedSets, Accepted(m, S) PROVE Abstract!Next
      BY <1>3, <2>1, <2>3 DEF Accepted
    <2> QED
      BY <1>7, <2>2, <2>3 DEF Relay
  <1>8. ASSUME NEW m \in Mails, Answer(m) PROVE [Abstract!Next]_(Abstract!vars)
    <2>1. phase[m] = "held" /\ UNCHANGED upstream /\ handler[m].reply \in {250, 451, 500}
      BY <1>1, <1>4, <1>8, CounterTypes DEF Answer, Handlers
    <2>2. client' = [client EXCEPT ![m] = Told(handler[m].reply)]
      BY <1>8 DEF Answer
    <2>3. CASE handler[m].reply = 250
      <3>1. Settled(m)
        BY <1>1, <1>8, <2>3 DEF Answer, Sound, Succeeding
      <3>2. phase' = [phase EXCEPT ![m] = "discharged"]
        <4>1. client' = [client EXCEPT ![m] = "done"]
          BY <2>2, <2>3 DEF Told
        <4> QED
          BY <1>2, <4>1 DEF Phase
      <3>3. Abstract!Discharge(m)
        BY <2>1, <3>1, <3>2 DEF Settled, Abstract!Discharge
      <3> QED
        BY <3>3 DEF Abstract!Next
    <2>4. CASE handler[m].reply = 451
      <3>1. phase' = [phase EXCEPT ![m] = "held"]
        <4>1. client' = [client EXCEPT ![m] = "ready"]
          BY <2>2, <2>4 DEF Told
        <4> QED
          BY <1>2, <4>1 DEF Phase
      <3>2. UNCHANGED phase
        BY <2>1, <3>1
      <3> QED
        BY <2>1, <3>2 DEF Abstract!vars
    <2>5. CASE handler[m].reply = 500
      <3>1. phase' = [phase EXCEPT ![m] = "bounced"]
        <4>1. client' = [client EXCEPT ![m] = "bounced"]
          BY <2>2, <2>5 DEF Told
        <4> QED
          BY <1>2, <4>1 DEF Phase
      <3>2. Abstract!Bounce(m)
        BY <2>1, <3>1 DEF Abstract!Bounce
      <3> QED
        BY <3>2 DEF Abstract!Next
    <2> QED
      BY <2>1, <2>3, <2>4, <2>5
  <1>9. ASSUME NEW m \in Mails, Drop(m) PROVE [Abstract!Next]_(Abstract!vars)
    <2>1. phase[m] = "held"
      BY <1>4, <1>9 DEF Drop
    <2>2. UNCHANGED phase
      BY <1>2, <1>9, <2>1 DEF Drop, Phase
    <2>3. UNCHANGED upstream \/ Transmit(m, Recipients)
      BY <1>9 DEF Drop
    <2> QED
      BY <1>3, <2>1, <2>2, <2>3 DEF Abstract!vars
  <1>10. ASSUME NEW m \in Mails, Late(m) PROVE [Abstract!Next]_(Abstract!vars)
    <2>1. phase[m] # "absent" /\ UNCHANGED phase
      BY <1>1, <1>2, <1>10 DEF Late, Sound, Phase
    <2> QED
      BY <1>3, <1>10, <2>1 DEF Late, Abstract!vars
  <1>11. ASSUME NEW c \in Configs, Restart(c) PROVE UNCHANGED Abstract!vars
    <2>1. UNCHANGED phase
      BY <1>2, <1>11 DEF Restart, Phase
    <2> QED
      BY <1>11, <2>1 DEF Restart, Abstract!vars
  <1>12. CASE UNCHANGED vars
    BY <1>12 DEF vars, Abstract!vars
  <1> QED
    BY <1>5, <1>6, <1>7, <1>8, <1>9, <1>10, <1>11, <1>12 DEF Next, Handle

\* The engine implements the relay of MailRelay with stray transmissions; in
\* particular it tells no device 250 for a mail that is not settled upstream.
THEOREM Refinement == Spec => RelayRefinement
  BY AbstractInit, AbstractStep, Invariance, PTL DEF Spec, RelayRefinement, Abstract!Spec
=============================================================================
