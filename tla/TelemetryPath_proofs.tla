----------------------- MODULE TelemetryPath_proofs -----------------------
(***************************************************************************)
(* What holds of the outbox row, its messages and their observations for   *)
(* every number of relays, consumers, messages, attempts and faults.       *)
(*                                                                         *)
(* The invariant is about the relay (RowInv) and about the normalizer      *)
(* (BatchInv, ReceiptInv, AckInv); each is shown to survive each action.   *)
(***************************************************************************)
EXTENDS TelemetryPath, TLAPS

\* The state is well formed.
Types == BusTypes /\ RelayTypes /\ NormTypes

\* Only an open row has an owner, and a row is marked only after its XADD.
RowInv ==
    /\ row = "none" => ~published /\ ~dead /\ attempts = 0 /\ owner = Nobody
    /\ owner # Nobody => row = "present" /\ ~published /\ ~dead
    /\ RowsDecided

\* No relay is at a row before there is one.
Resting == row = "none" => \A r \in Relays : relayAt[r] = "tick"

SentInv ==
    /\ PublishedIsSent
    /\ \A r \in Relays : relayAt[r] = "mark" => Sent # {}

\* A batch holds delivered messages, and is empty between two fetches.
BatchInv ==
    \A c \in Consumers :
       /\ (batch[c] = {}) <=> (normAt[c] \in {"claim", "read"})
       /\ \A m \in batch[c] : entry[m] \in {"pending", "acked"}

\* A receipt stands for one observation; one without a receipt is of a
\* message that nobody will process again.
ReceiptInv ==
    \A m \in Messages :
       /\ observed[m] \in {0, 1}
       /\ m \in receipts => observed[m] = 1
       /\ m \notin receipts /\ observed[m] = 1 =>
             entry[m] = "acked" /\ \A c \in Consumers : m \notin batch[c]

\* What a consumer acknowledges next has had its outcome.
AckInv ==
    \A c \in Consumers, m \in Messages :
       normAt[c] = "ack" /\ Foremost(c, m) =>
          observed[m] = 1 \/ m \in quarantined

IInv ==
    /\ Types /\ RowInv /\ Resting /\ SentInv
    /\ BatchInv /\ ReceiptInv /\ AckInv /\ NothingLost

\* What a step does to the stream.
BusMove ==
    \/ Add \/ Deliver \/ Reclaim
    \/ \E m \in Messages : Acknowledge(m) \/ Age(m)
    \/ UNCHANGED busVars

FaultMove == UNCHANGED faults \/ \E kind \in Faults : Fault(kind)

-----------------------------------------------------------------------------
(* The stream                                                              *)
\* Whatever happens to the stream, a message once added remains.
LEMMA Moved ==
    ASSUME BusTypes, BusMove, FaultMove
    PROVE  BusTypes' /\ Sent \subseteq Sent'
<1>1. faults' \in 0..MaxFaults
  BY FaultAssumption DEF BusTypes, FaultMove, Fault
<1>2. CASE Add
  BY <1>1, <1>2 DEF Add, BusTypes, Sent
<1>3. CASE Deliver
  BY <1>1, <1>3 DEF Deliver, BusTypes, Sent
<1>4. CASE Reclaim
  BY <1>1, <1>4 DEF Reclaim, BusTypes, Sent
<1>5. ASSUME NEW m \in Messages, Acknowledge(m)
      PROVE  BusTypes' /\ Sent \subseteq Sent'
  BY <1>1, <1>5 DEF Acknowledge, BusTypes, Sent
<1>6. ASSUME NEW m \in Messages, Age(m)
      PROVE  BusTypes' /\ Sent \subseteq Sent'
  BY <1>6 DEF Age, BusTypes, Sent
<1>7. CASE UNCHANGED busVars
  BY <1>1, <1>7 DEF busVars, BusTypes, Sent
<1> QED
  BY <1>2, <1>3, <1>4, <1>5, <1>6, <1>7 DEF BusMove

\* A relay only adds to the stream.
LEMMA RelayMoves ==
    ASSUME RelayNext
    PROVE  (Add \/ UNCHANGED busVars) /\ FaultMove
<1>1. ASSUME NEW r \in Relays, ClaimPending(r)
      PROVE  (Add \/ UNCHANGED busVars) /\ FaultMove
  BY <1>1 DEF ClaimPending, FaultMove
<1>2. ASSUME NEW r \in Relays, Send(r)
      PROVE  (Add \/ UNCHANGED busVars) /\ FaultMove
  BY <1>2 DEF Send, FaultMove
<1>3. ASSUME NEW r \in Relays, Mark(r)
      PROVE  (Add \/ UNCHANGED busVars) /\ FaultMove
  BY <1>3 DEF Mark, FaultMove
<1>4. ASSUME NEW r \in Relays, Fail(r)
      PROVE  (Add \/ UNCHANGED busVars) /\ FaultMove
  BY <1>4 DEF Fail, FaultMove
<1>5. ASSUME NEW r \in Relays, ClaimRaises(r)
      PROVE  (Add \/ UNCHANGED busVars) /\ FaultMove
  BY <1>5 DEF ClaimRaises, FaultMove, Fault
<1>6. ASSUME NEW r \in Relays, SendRaises(r)
      PROVE  (Add \/ UNCHANGED busVars) /\ FaultMove
  BY <1>6 DEF SendRaises, FaultMove, Fault
<1>7. ASSUME NEW r \in Relays, UpdateRaises(r)
      PROVE  (Add \/ UNCHANGED busVars) /\ FaultMove
  BY <1>7 DEF UpdateRaises, FaultMove, Fault
<1>8. ASSUME NEW r \in Relays, RelayCrash(r)
      PROVE  (Add \/ UNCHANGED busVars) /\ FaultMove
  BY <1>8 DEF RelayCrash, FaultMove, Fault
<1>9. ASSUME Insert
      PROVE  (Add \/ UNCHANGED busVars) /\ FaultMove
  BY <1>9 DEF Insert, FaultMove
<1>10. ASSUME Ripen
      PROVE  (Add \/ UNCHANGED busVars) /\ FaultMove
  BY <1>10 DEF Ripen, FaultMove, Fault
<1>11. ASSUME Purge
      PROVE  (Add \/ UNCHANGED busVars) /\ FaultMove
  BY <1>11 DEF Purge, FaultMove
<1> QED
  BY <1>1, <1>2, <1>3, <1>4, <1>5, <1>6, <1>7, <1>8, <1>9, <1>10, <1>11
     DEF RelayNext, RelayStep, RelayFault

\* A normalizer never adds to it.
LEMMA NormMoves ==
    ASSUME NormNext
    PROVE  BusMove /\ FaultMove
<1>1. ASSUME NEW c \in Consumers, ClaimStale(c)
      PROVE  BusMove /\ FaultMove
  BY <1>1 DEF ClaimStale, BusMove, FaultMove
<1>2. ASSUME NEW c \in Consumers, ReadGroup(c)
      PROVE  BusMove /\ FaultMove
  BY <1>2 DEF ReadGroup, BusMove, FaultMove
<1>3. ASSUME NEW c \in Consumers, NEW m \in Messages, Persist(c, m)
      PROVE  BusMove /\ FaultMove
  BY <1>3 DEF Persist, BusMove, FaultMove
<1>4. ASSUME NEW c \in Consumers, NEW m \in Messages, Refuse(c, m)
      PROVE  BusMove /\ FaultMove
  BY <1>4 DEF Refuse, BusMove, FaultMove
<1>5. ASSUME NEW c \in Consumers, NEW m \in Messages, Ack(c, m)
      PROVE  BusMove /\ FaultMove
  BY <1>5 DEF Ack, BusMove, FaultMove
<1>6. ASSUME NEW c \in Consumers, NEW m \in Messages, Quarantine(c, m)
      PROVE  BusMove /\ FaultMove
  BY <1>6 DEF Quarantine, BusMove, FaultMove
<1>7. ASSUME NEW c \in Consumers, FetchRaises(c)
      PROVE  BusMove /\ FaultMove
  BY <1>7 DEF FetchRaises, BusMove, FaultMove, Fault
<1>8. ASSUME NEW c \in Consumers, NormCrash(c)
      PROVE  BusMove /\ FaultMove
  BY <1>8 DEF NormCrash, BusMove, FaultMove, Fault
<1>9. ASSUME NEW c \in Consumers, NEW m \in Messages, PersistRaises(c, m)
      PROVE  BusMove /\ FaultMove
  BY <1>9 DEF PersistRaises, BusMove, FaultMove, Fault
<1>10. ASSUME NEW c \in Consumers, NEW m \in Messages, AckRaises(c, m)
      PROVE  BusMove /\ FaultMove
  BY <1>10 DEF AckRaises, BusMove, FaultMove, Fault
<1>11. ASSUME NEW c \in Consumers, NEW m \in Messages, QuarantineRaises(c, m)
      PROVE  BusMove /\ FaultMove
  BY <1>11 DEF QuarantineRaises, BusMove, FaultMove, Fault
<1>12. ASSUME NEW m \in Messages, Age(m), UNCHANGED normVars
      PROVE  BusMove /\ FaultMove
  BY <1>12 DEF Age, BusMove, FaultMove
<1>13. ASSUME Forget
      PROVE  BusMove /\ FaultMove
  BY <1>13 DEF Forget, BusMove, FaultMove
<1> QED
  BY <1>1, <1>2, <1>3, <1>4, <1>5, <1>6, <1>7, <1>8, <1>9, <1>10, <1>11,
     <1>12, <1>13
     DEF NormNext, NormStep, NormFault

\* Relay and row stay well formed.
LEMMA KeepsRelayTypes ==
    ASSUME RelayTypes, RowInv, RelayNext
    PROVE  RelayTypes'
<1>1. ASSUME NEW r \in Relays, ClaimPending(r)
      PROVE  RelayTypes'
  BY <1>1 DEF ClaimPending, Lease, RelayGoes, RelayTypes
<1>2. ASSUME NEW r \in Relays, Send(r)
      PROVE  RelayTypes'
  BY <1>2 DEF Send, RelayGoes, rowVars, RelayTypes
<1>3. ASSUME NEW r \in Relays, Mark(r)
      PROVE  RelayTypes'
  BY <1>3 DEF Mark, MarkPublished, RelayGoes, rowVars, RelayTypes
<1>4. ASSUME NEW r \in Relays, Fail(r)
      PROVE  RelayTypes'
  <2>1. CASE Owns(r)
    <3>1. row = "present" /\ ~published /\ ~dead /\ attempts < MaxAttempts
      BY <2>1, RelayAssumption DEF Owns, RowInv, RowsDecided
    <3>2. /\ attempts' = attempts + 1 /\ owner' = Nobody /\ ripe' = FALSE
          /\ UNCHANGED <<row, published>>
          /\ dead' = (dead \/ Exhausted)
          /\ relayAt' = [relayAt EXCEPT ![r] = "tick"]
      BY <1>4, <2>1 DEF Fail, RecordFailure, RelayGoes
    <3>3. attempts' \in 0..MaxAttempts
      BY <3>1, <3>2, RelayAssumption DEF RelayTypes
    <3> QED
      BY <3>2, <3>3 DEF RelayTypes
  <2>2. CASE ~Owns(r)
    BY <1>4, <2>2 DEF Fail, RecordFailure, RelayGoes, rowVars, RelayTypes
  <2> QED
    BY <2>1, <2>2
<1>5. ASSUME NEW r \in Relays, ClaimRaises(r)
      PROVE  RelayTypes'
  BY <1>5 DEF ClaimRaises, Lease, RelayTypes
<1>6. ASSUME NEW r \in Relays, SendRaises(r)
      PROVE  RelayTypes'
  BY <1>6 DEF SendRaises, RelayGoes, rowVars, RelayTypes
<1>7. ASSUME NEW r \in Relays, UpdateRaises(r)
      PROVE  RelayTypes'
  BY <1>7 DEF UpdateRaises, RelayGoes, rowVars, RelayTypes
<1>8. ASSUME NEW r \in Relays, RelayCrash(r)
      PROVE  RelayTypes'
  BY <1>8 DEF RelayCrash, RelayGoes, RelayTypes
<1>9. ASSUME Insert
      PROVE  RelayTypes'
  BY <1>9 DEF Insert, RelayTypes
<1>10. ASSUME Ripen
      PROVE  RelayTypes'
  BY <1>10 DEF Ripen, RelayTypes
<1>11. ASSUME Purge
      PROVE  RelayTypes'
  BY <1>11 DEF Purge, RelayTypes
<1> QED
  BY <1>1, <1>2, <1>3, <1>4, <1>5, <1>6, <1>7, <1>8, <1>9, <1>10, <1>11
     DEF RelayNext, RelayStep, RelayFault

-----------------------------------------------------------------------------
(* The relay                                                               *)
\* The row stays in one of its legal states.
LEMMA KeepsRow ==
    ASSUME RelayTypes, RowInv, RelayNext
    PROVE  RowInv'
<1>1. ASSUME NEW r \in Relays, ClaimPending(r)
      PROVE  RowInv'
  BY <1>1 DEF ClaimPending, Pending, Lease, RowInv, RowsDecided
<1>2. ASSUME NEW r \in Relays, Send(r)
      PROVE  RowInv'
  BY <1>2 DEF Send, rowVars, RowInv, RowsDecided
<1>3. ASSUME NEW r \in Relays, Mark(r)
      PROVE  RowInv'
  BY <1>3, RelayAssumption
     DEF Mark, MarkPublished, Owns, rowVars, RowInv, RowsDecided
<1>4. ASSUME NEW r \in Relays, Fail(r)
      PROVE  RowInv'
  <2>1. CASE Owns(r)
    <3>1. row = "present" /\ ~published /\ ~dead
      BY <2>1, RelayAssumption DEF Owns, RowInv
    <3>2. /\ attempts' = attempts + 1 /\ owner' = Nobody
          /\ UNCHANGED <<row, published>>
          /\ dead' = (dead \/ Exhausted)
      BY <1>4, <2>1 DEF Fail, RecordFailure
    <3>3. CASE Exhausted
      BY <3>1, <3>2, <3>3 DEF RowInv, RowsDecided
    <3>4. CASE ~Exhausted
      <4>1. attempts' < MaxAttempts
        BY <3>2, <3>4, RelayAssumption DEF Exhausted
      <4> QED
        BY <3>1, <3>2, <4>1 DEF RowInv, RowsDecided
    <3> QED
      BY <3>3, <3>4
  <2>2. CASE ~Owns(r)
    BY <1>4, <2>2 DEF Fail, RecordFailure, rowVars, RowInv, RowsDecided
  <2> QED
    BY <2>1, <2>2
<1>5. ASSUME NEW r \in Relays, ClaimRaises(r)
      PROVE  RowInv'
  BY <1>5 DEF ClaimRaises, Pending, Lease, RowInv, RowsDecided
<1>6. ASSUME NEW r \in Relays, SendRaises(r)
      PROVE  RowInv'
  BY <1>6 DEF SendRaises, rowVars, RowInv, RowsDecided
<1>7. ASSUME NEW r \in Relays, UpdateRaises(r)
      PROVE  RowInv'
  BY <1>7 DEF UpdateRaises, rowVars, RowInv, RowsDecided
<1>8. ASSUME NEW r \in Relays, RelayCrash(r)
      PROVE  RowInv'
  BY <1>8, RelayAssumption DEF RelayCrash, RowInv, RowsDecided
<1>9. ASSUME Insert
      PROVE  RowInv'
  BY <1>9, RelayAssumption DEF Insert, RowInv, RowsDecided
<1>10. ASSUME Ripen
      PROVE  RowInv'
  BY <1>10 DEF Ripen, RowInv, RowsDecided
<1>11. ASSUME Purge
      PROVE  RowInv'
  BY <1>11 DEF Purge, RowInv, RowsDecided
<1> QED
  BY <1>1, <1>2, <1>3, <1>4, <1>5, <1>6, <1>7, <1>8, <1>9, <1>10, <1>11
     DEF RelayNext, RelayStep, RelayFault

\* Relays come to a row only after its insertion.
LEMMA KeepsResting ==
    ASSUME RelayTypes, Resting, RelayNext
    PROVE  Resting'
<1>1. ASSUME NEW r \in Relays, RelayStep(r) \/ RelayFault(r)
      PROVE  Resting'
  <2>1. CASE row = "none"
    BY <1>1, <2>1
       DEF RelayStep, RelayFault, ClaimPending, Send, Mark, Fail, ClaimRaises,
           SendRaises, UpdateRaises, RelayCrash, RelayGoes, Pending, Resting,
           RelayTypes
  <2>2. CASE row # "none"
    BY <1>1, <2>2
       DEF RelayStep, RelayFault, ClaimPending, Send, Mark, Fail, ClaimRaises,
           SendRaises, UpdateRaises, RelayCrash, Lease, MarkPublished,
           RecordFailure, rowVars, Resting
  <2> QED
    BY <2>1, <2>2
<1>2. CASE Insert \/ Ripen \/ Purge
  BY <1>2 DEF Insert, Ripen, Purge, Resting
<1> QED
  BY <1>1, <1>2 DEF RelayNext

\* A row is marked only once its message is on the stream.
LEMMA KeepsSent ==
    ASSUME RelayTypes, BusTypes, SentInv, Sent \subseteq Sent',
           RelayNext
    PROVE  SentInv'
<1>1. ASSUME NEW r \in Relays, ClaimPending(r)
      PROVE  SentInv'
  BY <1>1 DEF ClaimPending, Lease, RelayGoes, SentInv, PublishedIsSent
<1>2. ASSUME NEW r \in Relays, Send(r)
      PROVE  SentInv'
  <2>1. Sent' # {}
    BY <1>2 DEF Send, Add, Sent, BusTypes
  <2> QED
    BY <2>1 DEF rowVars, SentInv, PublishedIsSent
<1>3. ASSUME NEW r \in Relays, Mark(r)
      PROVE  SentInv'
  BY <1>3 DEF Mark, rowVars, SentInv, PublishedIsSent
<1>4. ASSUME NEW r \in Relays, Fail(r)
      PROVE  SentInv'
  BY <1>4
     DEF Fail, RecordFailure, RelayGoes, rowVars, SentInv, PublishedIsSent
<1>5. ASSUME NEW r \in Relays, ClaimRaises(r)
      PROVE  SentInv'
  BY <1>5 DEF ClaimRaises, Lease, SentInv, PublishedIsSent
<1>6. ASSUME NEW r \in Relays, SendRaises(r)
      PROVE  SentInv'
  BY <1>6 DEF SendRaises, RelayGoes, rowVars, SentInv, PublishedIsSent
<1>7. ASSUME NEW r \in Relays, UpdateRaises(r)
      PROVE  SentInv'
  BY <1>7 DEF UpdateRaises, RelayGoes, rowVars, SentInv, PublishedIsSent
<1>8. ASSUME NEW r \in Relays, RelayCrash(r)
      PROVE  SentInv'
  BY <1>8 DEF RelayCrash, RelayGoes, SentInv, PublishedIsSent
<1>9. ASSUME Insert
      PROVE  SentInv'
  BY <1>9 DEF Insert, SentInv, PublishedIsSent
<1>10. ASSUME Ripen
      PROVE  SentInv'
  BY <1>10 DEF Ripen, SentInv, PublishedIsSent
<1>11. ASSUME Purge
      PROVE  SentInv'
  BY <1>11 DEF Purge, SentInv, PublishedIsSent
<1> QED
  BY <1>1, <1>2, <1>3, <1>4, <1>5, <1>6, <1>7, <1>8, <1>9, <1>10, <1>11
     DEF RelayNext, RelayStep, RelayFault

-----------------------------------------------------------------------------
(* The normalizer                                                          *)
\* Consumers and their store stay well formed.
LEMMA KeepsNormTypes ==
    ASSUME NormTypes, NormNext
    PROVE  NormTypes'
<1>1. ASSUME NEW c \in Consumers, ClaimStale(c)
      PROVE  NormTypes'
  BY <1>1
     DEF ClaimStale, Receive, Decoded, Stale, FirstOf, Goes, NormTypes,
         storeVars
<1>2. ASSUME NEW c \in Consumers, ReadGroup(c)
      PROVE  NormTypes'
  BY <1>2
     DEF ReadGroup, Receive, Decoded, Unread, FirstOf, Goes, NormTypes,
         storeVars
<1>3. ASSUME NEW c \in Consumers, NEW m \in Messages, Persist(c, m)
      PROVE  NormTypes'
  BY <1>3 DEF Persist, Store, Goes, NormTypes
<1>4. ASSUME NEW c \in Consumers, NEW m \in Messages, Refuse(c, m)
      PROVE  NormTypes'
  BY <1>4 DEF Refuse, AfterError, Proceed, Goes, NormTypes, storeVars
<1>5. ASSUME NEW c \in Consumers, NEW m \in Messages, Ack(c, m)
      PROVE  NormTypes'
  BY <1>5 DEF Ack, Proceed, Goes, NormTypes, storeVars
<1>6. ASSUME NEW c \in Consumers, NEW m \in Messages, Quarantine(c, m)
      PROVE  NormTypes'
  BY <1>6 DEF Quarantine, Goes, NormTypes
<1>7. ASSUME NEW c \in Consumers, FetchRaises(c)
      PROVE  NormTypes'
  BY <1>7 DEF FetchRaises, Goes, NormTypes, storeVars
<1>8. ASSUME NEW c \in Consumers, NormCrash(c)
      PROVE  NormTypes'
  BY <1>8 DEF NormCrash, Goes, NormTypes, storeVars
<1>9. ASSUME NEW c \in Consumers, NEW m \in Messages, PersistRaises(c, m)
      PROVE  NormTypes'
  <2>1. /\ receipts' \subseteq Messages /\ quarantined' \subseteq Messages
        /\ observed' \in [Messages -> Nat]
    BY <1>9 DEF PersistRaises, Store, NormTypes
  <2>2. /\ normAt' \in [Consumers ->
                          {"claim", "read", "persist", "ack", "quarantine"}]
        /\ batch' \in [Consumers -> SUBSET Messages]
        /\ reclaimed' \in [Consumers -> BOOLEAN]
    BY <1>9 DEF PersistRaises, AfterError, Proceed, Goes, NormTypes
  <2> QED
    BY <2>1, <2>2 DEF NormTypes
<1>10. ASSUME NEW c \in Consumers, NEW m \in Messages, AckRaises(c, m)
      PROVE  NormTypes'
  BY <1>10 DEF AckRaises, Proceed, Goes, NormTypes, storeVars
<1>11. ASSUME NEW c \in Consumers, NEW m \in Messages, QuarantineRaises(c, m)
      PROVE  NormTypes'
  BY <1>11 DEF QuarantineRaises, Proceed, Goes, NormTypes
<1>12. ASSUME NEW m \in Messages, Age(m), UNCHANGED normVars
      PROVE  NormTypes'
  BY <1>12 DEF NormTypes, storeVars, consumerVars, normVars
<1>13. ASSUME Forget
      PROVE  NormTypes'
  BY <1>13 DEF Forget, NormTypes, consumerVars
<1> QED
  BY <1>1, <1>2, <1>3, <1>4, <1>5, <1>6, <1>7, <1>8, <1>9, <1>10, <1>11,
     <1>12, <1>13
     DEF NormNext, NormStep, NormFault

\* Batches hold what was delivered.
LEMMA KeepsBatch ==
    ASSUME BusTypes, NormTypes, BatchInv, NormNext
    PROVE  BatchInv'
<1>1. ASSUME NEW c \in Consumers, ClaimStale(c)
      PROVE  BatchInv'
  BY <1>1
     DEF ClaimStale, Receive, Decoded, Stale, FirstOf, Goes, Reclaim,
         BatchInv, NormTypes
<1>2. ASSUME NEW c \in Consumers, ReadGroup(c)
      PROVE  BatchInv'
  BY <1>2
     DEF ReadGroup, Receive, Decoded, Unread, FirstOf, Goes, Deliver,
         BatchInv, NormTypes
<1>3. ASSUME NEW c \in Consumers, NEW m \in Messages, Persist(c, m)
      PROVE  BatchInv'
  BY <1>3 DEF Persist, Goes, BatchInv, busVars
<1>4. ASSUME NEW c \in Consumers, NEW m \in Messages, Refuse(c, m)
      PROVE  BatchInv'
  BY <1>4 DEF Refuse, AfterError, Proceed, Goes, BatchInv, busVars, NormTypes
<1>5. ASSUME NEW c \in Consumers, NEW m \in Messages, Ack(c, m)
      PROVE  BatchInv'
  BY <1>5 DEF Ack, Proceed, Goes, Acknowledge, BatchInv, NormTypes
<1>6. ASSUME NEW c \in Consumers, NEW m \in Messages, Quarantine(c, m)
      PROVE  BatchInv'
  BY <1>6 DEF Quarantine, Goes, BatchInv, busVars
<1>7. ASSUME NEW c \in Consumers, FetchRaises(c)
      PROVE  BatchInv'
  <2>1. CASE UNCHANGED busVars
    BY <1>7, <2>1 DEF FetchRaises, Goes, BatchInv, busVars
  <2>2. CASE Reclaim
    BY <1>7, <2>2 DEF FetchRaises, Goes, Reclaim, BatchInv
  <2>3. CASE Deliver
    BY <1>7, <2>3 DEF FetchRaises, Goes, Deliver, BatchInv, NormTypes
  <2> QED
    BY <1>7, <2>1, <2>2, <2>3 DEF FetchRaises
<1>8. ASSUME NEW c \in Consumers, NormCrash(c)
      PROVE  BatchInv'
  BY <1>8 DEF NormCrash, Goes, BatchInv, busVars, NormTypes
<1>9. ASSUME NEW c \in Consumers, NEW m \in Messages, PersistRaises(c, m)
      PROVE  BatchInv'
  <2>1. CASE UNCHANGED <<receipts, observed>>
    BY <1>9
       DEF PersistRaises, AfterError, Proceed, Goes, BatchInv, busVars,
           NormTypes
  <2>2. CASE Store(m)
    BY <1>9
       DEF PersistRaises, AfterError, Proceed, Goes, BatchInv, busVars,
           NormTypes
  <2> QED
    BY <1>9, <2>1, <2>2 DEF PersistRaises
<1>10. ASSUME NEW c \in Consumers, NEW m \in Messages, AckRaises(c, m)
      PROVE  BatchInv'
  BY <1>10 DEF AckRaises, Proceed, Goes, BatchInv, busVars, NormTypes
<1>11. ASSUME NEW c \in Consumers, NEW m \in Messages, QuarantineRaises(c, m)
      PROVE  BatchInv'
  BY <1>11 DEF QuarantineRaises, Proceed, Goes, BatchInv, busVars, NormTypes
<1>12. ASSUME NEW m \in Messages, Age(m), UNCHANGED normVars
      PROVE  BatchInv'
  BY <1>12 DEF Age, BatchInv, consumerVars, normVars
<1>13. ASSUME Forget
      PROVE  BatchInv'
  BY <1>13 DEF Forget, BatchInv, consumerVars, busVars
<1> QED
  BY <1>1, <1>2, <1>3, <1>4, <1>5, <1>6, <1>7, <1>8, <1>9, <1>10, <1>11,
     <1>12, <1>13
     DEF NormNext, NormStep, NormFault

\* A receipt comes with its observation and outlasts the batches.
LEMMA KeepsReceipts ==
    ASSUME BusTypes, NormTypes, BatchInv, ReceiptInv, NormNext
    PROVE  ReceiptInv'
<1>1. ASSUME NEW c \in Consumers, ClaimStale(c)
      PROVE  ReceiptInv'
  BY <1>1
     DEF ClaimStale, Receive, Decoded, Stale, FirstOf, Reclaim, ReceiptInv,
         storeVars
<1>2. ASSUME NEW c \in Consumers, ReadGroup(c)
      PROVE  ReceiptInv'
  BY <1>2
     DEF ReadGroup, Receive, Decoded, Unread, FirstOf, Deliver, ReceiptInv,
         storeVars
<1>3. ASSUME NEW c \in Consumers, NEW m \in Messages, Persist(c, m)
      PROVE  ReceiptInv'
  BY <1>3 DEF Persist, Store, Foremost, ReceiptInv, busVars, NormTypes
<1>4. ASSUME NEW c \in Consumers, NEW m \in Messages, Refuse(c, m)
      PROVE  ReceiptInv'
  BY <1>4
     DEF Refuse, AfterError, Proceed, ReceiptInv, storeVars, busVars,
         NormTypes
<1>5. ASSUME NEW c \in Consumers, NEW m \in Messages, Ack(c, m)
      PROVE  ReceiptInv'
  BY <1>5 DEF Ack, Proceed, Acknowledge, ReceiptInv, storeVars
<1>6. ASSUME NEW c \in Consumers, NEW m \in Messages, Quarantine(c, m)
      PROVE  ReceiptInv'
  BY <1>6 DEF Quarantine, ReceiptInv, busVars
<1>7. ASSUME NEW c \in Consumers, FetchRaises(c)
      PROVE  ReceiptInv'
  <2>1. CASE UNCHANGED busVars
    BY <1>7, <2>1 DEF FetchRaises, ReceiptInv, storeVars, busVars
  <2>2. CASE Reclaim
    BY <1>7, <2>2 DEF FetchRaises, Reclaim, ReceiptInv, storeVars
  <2>3. CASE Deliver
    BY <1>7, <2>3
       DEF FetchRaises, Deliver, Unread, FirstOf, ReceiptInv, storeVars
  <2> QED
    BY <1>7, <2>1, <2>2, <2>3 DEF FetchRaises
<1>8. ASSUME NEW c \in Consumers, NormCrash(c)
      PROVE  ReceiptInv'
  BY <1>8 DEF NormCrash, ReceiptInv, storeVars, busVars
<1>9. ASSUME NEW c \in Consumers, NEW m \in Messages, PersistRaises(c, m)
      PROVE  ReceiptInv'
  <2>1. CASE UNCHANGED <<receipts, observed>>
    BY <1>9, <2>1
       DEF PersistRaises, AfterError, Proceed, ReceiptInv, busVars, NormTypes
  <2>2. CASE Store(m)
    BY <1>9
       DEF PersistRaises, Store, AfterError, Proceed, Foremost, ReceiptInv,
           busVars, NormTypes
  <2> QED
    BY <1>9, <2>1, <2>2 DEF PersistRaises
<1>10. ASSUME NEW c \in Consumers, NEW m \in Messages, AckRaises(c, m)
      PROVE  ReceiptInv'
  BY <1>10 DEF AckRaises, Proceed, ReceiptInv, storeVars, busVars
<1>11. ASSUME NEW c \in Consumers, NEW m \in Messages, QuarantineRaises(c, m)
      PROVE  ReceiptInv'
  BY <1>11 DEF QuarantineRaises, Proceed, ReceiptInv, busVars
<1>12. ASSUME NEW m \in Messages, Age(m), UNCHANGED normVars
      PROVE  ReceiptInv'
  BY <1>12 DEF Age, ReceiptInv, storeVars, consumerVars, normVars
<1>13. ASSUME Forget
      PROVE  ReceiptInv'
  BY <1>13 DEF Forget, Forgettable, ReceiptInv, consumerVars, busVars
<1> QED
  BY <1>1, <1>2, <1>3, <1>4, <1>5, <1>6, <1>7, <1>8, <1>9, <1>10, <1>11,
     <1>12, <1>13
     DEF NormNext, NormStep, NormFault

\* Only what has an outcome comes to be acknowledged.
LEMMA KeepsAck ==
    ASSUME BusTypes, NormTypes, BatchInv, ReceiptInv, AckInv, NormNext
    PROVE  AckInv'
<1>1. ASSUME NEW c \in Consumers, ClaimStale(c)
      PROVE  AckInv'
  <2>1. normAt'[c] # "ack"
    BY <1>1 DEF ClaimStale, Receive, Goes
  <2>2. ASSUME NEW d \in Consumers, d # c
        PROVE  normAt'[d] = normAt[d] /\ batch'[d] = batch[d]
    BY <1>1, <2>2 DEF ClaimStale, Receive, Goes
  <2>3. UNCHANGED storeVars
    BY <1>1 DEF ClaimStale
  <2> QED
    BY <2>1, <2>2, <2>3 DEF AckInv, Foremost, storeVars
<1>2. ASSUME NEW c \in Consumers, ReadGroup(c)
      PROVE  AckInv'
  <2>1. normAt'[c] # "ack"
    BY <1>2 DEF ReadGroup, Receive, Goes
  <2>2. ASSUME NEW d \in Consumers, d # c
        PROVE  normAt'[d] = normAt[d] /\ batch'[d] = batch[d]
    BY <1>2, <2>2 DEF ReadGroup, Receive, Goes
  <2>3. UNCHANGED storeVars
    BY <1>2 DEF ReadGroup
  <2> QED
    BY <2>1, <2>2, <2>3 DEF AckInv, Foremost, storeVars
<1>3. ASSUME NEW c \in Consumers, NEW m \in Messages, Persist(c, m)
      PROVE  AckInv'
  <2>1. observed'[m] = 1 /\ \A q \in Messages : observed[q] = 1 => observed'[q] = 1
    BY <1>3 DEF Persist, Foremost, Store, ReceiptInv, NormTypes
  <2>2. UNCHANGED <<batch, quarantined>> /\ normAt' = [normAt EXCEPT ![c] = "ack"]
    BY <1>3 DEF Persist, Goes
  <2>3. \A q \in Messages : Foremost(c, q) => q = m
    BY <1>3 DEF Persist, Foremost, Messages
  <2> QED
    BY <2>1, <2>2, <2>3 DEF AckInv, Foremost
<1>4. ASSUME NEW c \in Consumers, NEW m \in Messages, Refuse(c, m)
      PROVE  AckInv'
  BY <1>4
     DEF Refuse, AfterError, Proceed, Goes, Foremost, AckInv, storeVars,
         NormTypes
<1>5. ASSUME NEW c \in Consumers, NEW m \in Messages, Ack(c, m)
      PROVE  AckInv'
  BY <1>5 DEF Ack, Proceed, Goes, Foremost, AckInv, storeVars, NormTypes
<1>6. ASSUME NEW c \in Consumers, NEW m \in Messages, Quarantine(c, m)
      PROVE  AckInv'
  <2>1. /\ quarantined' = quarantined \cup {m}
        /\ normAt' = [normAt EXCEPT ![c] = "ack"]
        /\ UNCHANGED <<observed, batch>>
    BY <1>6 DEF Quarantine, Goes
  <2>2. \A q \in Messages : Foremost(c, q) => q = m
    BY <1>6 DEF Quarantine, Foremost, Messages
  <2> QED
    BY <2>1, <2>2 DEF AckInv, Foremost
<1>7. ASSUME NEW c \in Consumers, FetchRaises(c)
      PROVE  AckInv'
  <2>1. normAt'[c] # "ack"
    BY <1>7 DEF FetchRaises, Goes
  <2>2. ASSUME NEW d \in Consumers, d # c
        PROVE  normAt'[d] = normAt[d] /\ batch'[d] = batch[d]
    BY <1>7, <2>2 DEF FetchRaises, Goes
  <2>3. UNCHANGED storeVars
    BY <1>7 DEF FetchRaises
  <2> QED
    BY <2>1, <2>2, <2>3 DEF AckInv, Foremost, storeVars
<1>8. ASSUME NEW c \in Consumers, NormCrash(c)
      PROVE  AckInv'
  BY <1>8 DEF NormCrash, Goes, Foremost, AckInv, storeVars
<1>9. ASSUME NEW c \in Consumers, NEW m \in Messages, PersistRaises(c, m)
      PROVE  AckInv'
  <2>1. CASE UNCHANGED <<receipts, observed>>
    BY <1>9, <2>1
       DEF PersistRaises, AfterError, Proceed, Goes, Foremost, AckInv,
           NormTypes
  <2>2. CASE Store(m)
    BY <1>9
       DEF PersistRaises, Store, AfterError, Proceed, Goes, Foremost,
           ReceiptInv, AckInv, NormTypes
  <2> QED
    BY <1>9, <2>1, <2>2 DEF PersistRaises
<1>10. ASSUME NEW c \in Consumers, NEW m \in Messages, AckRaises(c, m)
      PROVE  AckInv'
  BY <1>10
     DEF AckRaises, Proceed, Goes, Foremost, AckInv, storeVars, NormTypes
<1>11. ASSUME NEW c \in Consumers, NEW m \in Messages, QuarantineRaises(c, m)
      PROVE  AckInv'
  BY <1>11 DEF QuarantineRaises, Proceed, Goes, Foremost, AckInv
<1>12. ASSUME NEW m \in Messages, Age(m), UNCHANGED normVars
      PROVE  AckInv'
  BY <1>12 DEF Foremost, AckInv, storeVars, consumerVars, normVars
<1>13. ASSUME Forget
      PROVE  AckInv'
  BY <1>13 DEF Forget, Foremost, AckInv, consumerVars
<1> QED
  BY <1>1, <1>2, <1>3, <1>4, <1>5, <1>6, <1>7, <1>8, <1>9, <1>10, <1>11,
     <1>12, <1>13
     DEF NormNext, NormStep, NormFault

\* What leaves the group has an outcome.
LEMMA KeepsOutcomes ==
    ASSUME BusTypes, NormTypes, BatchInv, ReceiptInv, AckInv,
           NothingLost, NormNext
    PROVE  NothingLost'
<1>1. ASSUME NEW c \in Consumers, ClaimStale(c)
      PROVE  NothingLost'
  BY <1>1 DEF ClaimStale, Reclaim, NothingLost, storeVars
<1>2. ASSUME NEW c \in Consumers, ReadGroup(c)
      PROVE  NothingLost'
  BY <1>2 DEF ReadGroup, Deliver, NothingLost, storeVars
<1>3. ASSUME NEW c \in Consumers, NEW m \in Messages, Persist(c, m)
      PROVE  NothingLost'
  BY <1>3 DEF Persist, Store, Foremost, ReceiptInv, NothingLost, busVars
<1>4. ASSUME NEW c \in Consumers, NEW m \in Messages, Refuse(c, m)
      PROVE  NothingLost'
  BY <1>4 DEF Refuse, NothingLost, storeVars, busVars
<1>5. ASSUME NEW c \in Consumers, NEW m \in Messages, Ack(c, m)
      PROVE  NothingLost'
  BY <1>5 DEF Ack, Acknowledge, AckInv, NothingLost, storeVars
<1>6. ASSUME NEW c \in Consumers, NEW m \in Messages, Quarantine(c, m)
      PROVE  NothingLost'
  BY <1>6 DEF Quarantine, NothingLost, busVars
<1>7. ASSUME NEW c \in Consumers, FetchRaises(c)
      PROVE  NothingLost'
  <2>1. CASE UNCHANGED busVars
    BY <1>7, <2>1 DEF FetchRaises, NothingLost, storeVars, busVars
  <2>2. CASE Reclaim
    BY <1>7, <2>2 DEF FetchRaises, Reclaim, NothingLost, storeVars
  <2>3. CASE Deliver
    BY <1>7, <2>3 DEF FetchRaises, Deliver, NothingLost, storeVars
  <2> QED
    BY <1>7, <2>1, <2>2, <2>3 DEF FetchRaises
<1>8. ASSUME NEW c \in Consumers, NormCrash(c)
      PROVE  NothingLost'
  BY <1>8 DEF NormCrash, NothingLost, storeVars, busVars
<1>9. ASSUME NEW c \in Consumers, NEW m \in Messages, PersistRaises(c, m)
      PROVE  NothingLost'
  <2>1. CASE UNCHANGED <<receipts, observed>>
    BY <1>9, <2>1 DEF PersistRaises, NothingLost, busVars
  <2>2. CASE Store(m)
    BY <1>9, <2>2
       DEF PersistRaises, Store, Foremost, ReceiptInv, NothingLost, busVars
  <2> QED
    BY <1>9, <2>1, <2>2 DEF PersistRaises
<1>10. ASSUME NEW c \in Consumers, NEW m \in Messages, AckRaises(c, m)
      PROVE  NothingLost'
  BY <1>10 DEF AckRaises, NothingLost, storeVars, busVars
<1>11. ASSUME NEW c \in Consumers, NEW m \in Messages, QuarantineRaises(c, m)
      PROVE  NothingLost'
  BY <1>11 DEF QuarantineRaises, NothingLost, busVars
<1>12. ASSUME NEW m \in Messages, Age(m), UNCHANGED normVars
      PROVE  NothingLost'
  BY <1>12 DEF Age, NothingLost, storeVars, normVars
<1>13. ASSUME Forget
      PROVE  NothingLost'
  BY <1>13 DEF Forget, NothingLost, busVars
<1> QED
  BY <1>1, <1>2, <1>3, <1>4, <1>5, <1>6, <1>7, <1>8, <1>9, <1>10, <1>11,
     <1>12, <1>13
     DEF NormNext, NormStep, NormFault

\* To the normalizer a new message makes no difference.
LEMMA Unaware ==
    ASSUME BusTypes, NormTypes, BatchInv, ReceiptInv, AckInv, NothingLost,
           Add \/ UNCHANGED busVars, UNCHANGED normVars
    PROVE  NormTypes' /\ BatchInv' /\ ReceiptInv' /\ AckInv' /\ NothingLost'
<1>1. \A m \in Messages : entry[m] \in {"pending", "acked"} => entry'[m] = entry[m]
  BY DEF Add, Sent, BusTypes, busVars
<1>2. \A m \in Messages : entry'[m] = "acked" => entry[m] = "acked"
  BY DEF Add, BusTypes, busVars
<1>3. UNCHANGED <<receipts, observed, quarantined, normAt, batch, reclaimed>>
  BY DEF normVars, storeVars, consumerVars
<1>4. NormTypes' /\ AckInv'
  BY <1>3 DEF NormTypes, AckInv, Foremost
<1>5. BatchInv'
  BY <1>1, <1>3 DEF BatchInv, NormTypes
<1>6. ReceiptInv'
  BY <1>1, <1>3 DEF ReceiptInv
<1>7. NothingLost'
  BY <1>2, <1>3 DEF NothingLost
<1> QED
  BY <1>4, <1>5, <1>6, <1>7

-----------------------------------------------------------------------------
(* The two together                                                        *)
LEMMA Keeps ==
    ASSUME IInv, [Next]_vars
    PROVE  IInv'
<1>0. /\ BusTypes /\ RelayTypes /\ NormTypes /\ RowInv /\ Resting /\ SentInv
      /\ BatchInv /\ ReceiptInv /\ AckInv /\ NothingLost
  BY DEF IInv, Types
<1>1. CASE RelayNext /\ UNCHANGED normVars
  <2>1. (Add \/ UNCHANGED busVars) /\ FaultMove
    BY <1>1, RelayMoves
  <2>2. BusTypes' /\ Sent \subseteq Sent'
    BY <1>0, <2>1, Moved DEF BusMove
  <2>3. RelayTypes' /\ RowInv' /\ Resting' /\ SentInv'
    BY <1>0, <1>1, <2>2, KeepsRelayTypes, KeepsRow, KeepsResting, KeepsSent
  <2> QED
    BY <1>1, <2>1, <2>2, <2>3, Unaware DEF IInv, Types
<1>2. CASE NormNext /\ UNCHANGED relayVars
  <2>1. BusTypes' /\ Sent \subseteq Sent'
    BY <1>0, <1>2, NormMoves, Moved
  <2>2. RelayTypes' /\ RowInv' /\ Resting' /\ SentInv'
    BY <1>0, <1>2, <2>1
       DEF relayVars, rowVars, RelayTypes, RowInv, RowsDecided, Resting,
           SentInv, PublishedIsSent
  <2>3. NormTypes' /\ BatchInv' /\ ReceiptInv' /\ AckInv' /\ NothingLost'
    BY <1>0, <1>2, KeepsNormTypes, KeepsBatch, KeepsReceipts, KeepsAck,
       KeepsOutcomes
  <2> QED
    BY <2>1, <2>2, <2>3 DEF IInv, Types
<1>3. CASE UNCHANGED vars
  <2>1. UNCHANGED busVars /\ UNCHANGED normVars /\ UNCHANGED faults
    BY <1>3 DEF vars
  <2>2. BusTypes' /\ Sent \subseteq Sent'
    BY <1>0, <2>1, Moved DEF BusMove, FaultMove
  <2>3. RelayTypes' /\ RowInv' /\ Resting' /\ SentInv'
    BY <1>0, <1>3, <2>2
       DEF vars, relayVars, rowVars, RelayTypes, RowInv, RowsDecided, Resting,
           SentInv, PublishedIsSent
  <2> QED
    BY <2>1, <2>2, <2>3, Unaware DEF IInv, Types
<1> QED
  BY <1>1, <1>2, <1>3 DEF Next

-----------------------------------------------------------------------------
(* The theorems                                                            *)
LEMMA Start ==
    ASSUME Init
    PROVE  IInv
<1>1. Types
  <2>1. BusTypes
    BY FaultAssumption DEF Init, BusInit, BusTypes
  <2>2. RelayTypes
    <3>1. attempts \in 0..MaxAttempts
      BY RelayAssumption DEF Init, RelayInit
    <3> QED
      BY <3>1 DEF Init, RelayInit, RelayTypes
  <2>3. NormTypes
    BY DEF Init, NormInit, NormTypes
  <2> QED
    BY <2>1, <2>2, <2>3 DEF Types
<1>2. RowInv /\ Resting /\ SentInv
  BY DEF Init, RelayInit, RowInv, RowsDecided, Resting, SentInv, PublishedIsSent
<1>3. BatchInv /\ ReceiptInv /\ AckInv /\ NothingLost
  BY DEF Init, BusInit, NormInit, BatchInv, ReceiptInv, AckInv, NothingLost
<1> QED
  BY <1>1, <1>2, <1>3 DEF IInv

\* The invariant is inductive.
THEOREM Invariance == Spec => []IInv
  BY Start, Keeps, PTL DEF Spec

\* Relay, normalizer and stream stay well formed, and a consumer processes
\* messages exactly while it has some.
THEOREM Typed == Spec => []TypeOK
<1>1. IInv => TypeOK
  BY DEF IInv, Types, BatchInv, TypeOK, NormTypeOK
<1> QED
  BY Invariance, <1>1, PTL

\* Leases that lapse, lost answers and restarts never publish a row whose
\* event was not sent, nor leave it both published and dead, nor stuck.
THEOREM Settled == Spec => [](PublishedIsSent /\ RowsDecided)
<1>1. IInv => PublishedIsSent /\ RowsDecided
  BY DEF IInv, SentInv, RowInv
<1> QED
  BY Invariance, <1>1, PTL

\* However often a message is delivered and recovered, and although receipts
\* are forgotten, it yields one observation.
THEOREM Once == Spec => []ObservedOnce
<1>1. IInv => ObservedOnce
  BY DEF IInv, ReceiptInv, ObservedOnce
<1> QED
  BY Invariance, <1>1, PTL

\* No message leaves the group without an outcome.
THEOREM Kept == Spec => []NothingLost
<1>1. IInv => NothingLost
  BY DEF IInv
<1> QED
  BY Invariance, <1>1, PTL

\* The event of a published row is stored, kept for inspection, or waiting.
THEOREM Carried == Spec => []PublishedIsOnItsWay
<1>1. ASSUME IInv
      PROVE  PublishedIsOnItsWay
  <2>1. SUFFICES ASSUME published
                 PROVE  Arrived \/ \E m \in Sent : entry[m] \in {"new", "pending"}
    BY DEF PublishedIsOnItsWay
  <2>2. PICK m \in Sent : TRUE
    BY <1>1, <2>1 DEF IInv, SentInv, PublishedIsSent
  <2>3. m \in Messages /\ entry[m] \in {"new", "pending", "acked"}
    BY <1>1 DEF IInv, Types, BusTypes, Sent
  <2>4. CASE entry[m] = "acked"
    BY <1>1, <2>3 DEF IInv, NothingLost, Arrived
  <2> QED
    BY <2>3, <2>4
<1> QED
  BY Invariance, <1>1, PTL

-----------------------------------------------------------------------------
(* The contract                                                            *)
\* One more copy on the stream is one handed over.
LEMMA Handing ==
    ASSUME BusTypes, Add, row # "none", UNCHANGED rowVars, UNCHANGED normVars
    PROVE  Delivery!Next
<1>1. PICK m \in Messages : m \notin Sent /\ entry' = [entry EXCEPT ![m] = "new"]
  BY DEF Add
<1>2. Sent' = Sent \cup {m}
  BY <1>1 DEF Sent, BusTypes
<1>3. \A q \in Messages : entry'[q] = "acked" <=> entry[q] = "acked"
  BY <1>1 DEF Sent, BusTypes
<1>4. Phase # "none" /\ Phase' = Phase
  BY DEF Phase, rowVars
<1>5. UNCHANGED <<observed, quarantined>>
  BY DEF normVars, storeVars
<1>6. Delivery!HandOver(m)
  BY <1>2, <1>3, <1>4, <1>5 DEF Delivery!HandOver
<1> QED
  BY <1>6 DEF Delivery!Next

\* What leaves row, stream and outcomes as they are is no step of the contract.
LEMMA Aside ==
    ASSUME UNCHANGED <<row, published, dead>>, UNCHANGED entry,
           UNCHANGED <<observed, quarantined>>
    PROVE  UNCHANGED Delivery!contractVars
  BY DEF Delivery!contractVars, Phase, Sent

\* Every step of a relay is one of the contract, or none.
LEMMA RelayDelivers ==
    ASSUME IInv, RelayNext, UNCHANGED normVars
    PROVE  [Delivery!Next]_(Delivery!contractVars)
<1>0. /\ BusTypes /\ RelayTypes /\ RowInv /\ Resting /\ SentInv
      /\ UNCHANGED <<observed, quarantined>>
  BY DEF IInv, Types, normVars, storeVars
<1>1. ASSUME NEW r \in Relays, ClaimPending(r)
      PROVE  UNCHANGED Delivery!contractVars
  BY <1>0, <1>1, Aside DEF ClaimPending, Lease, busVars
<1>2. ASSUME NEW r \in Relays, Send(r)
      PROVE  Delivery!Next
  BY <1>0, <1>2, Handing DEF Send, Resting
<1>3. ASSUME NEW r \in Relays, Mark(r)
      PROVE  [Delivery!Next]_(Delivery!contractVars)
  <2>1. CASE Owns(r)
    <3>1. row = "present" /\ ~published /\ ~dead
      BY <1>0, <2>1, RelayAssumption DEF Owns, RowInv
    <3>2. published' = TRUE /\ UNCHANGED <<row, dead>> /\ UNCHANGED entry
      BY <1>3, <2>1 DEF Mark, MarkPublished, busVars
    <3>3. Phase = "open" /\ Phase' = "published"
      BY <3>1, <3>2 DEF Phase
    <3>4. Sent # {} /\ Sent' = Sent
      BY <1>0, <1>3, <3>2 DEF Mark, SentInv, Sent
    <3>5. Delivery!Publish
      BY <1>0, <3>2, <3>3, <3>4 DEF Delivery!Publish
    <3> QED
      BY <3>5 DEF Delivery!Next
  <2>2. CASE ~Owns(r)
    BY <1>0, <1>3, <2>2, Aside DEF Mark, MarkPublished, rowVars, busVars
  <2> QED
    BY <2>1, <2>2
<1>4. ASSUME NEW r \in Relays, Fail(r)
      PROVE  [Delivery!Next]_(Delivery!contractVars)
  <2>1. CASE Owns(r) /\ Exhausted
    <3>1. row = "present" /\ ~published /\ ~dead
      BY <1>0, <2>1, RelayAssumption DEF Owns, RowInv
    <3>2. dead' = TRUE /\ UNCHANGED <<row, published>> /\ UNCHANGED entry
      BY <1>4, <2>1 DEF Fail, RecordFailure, busVars
    <3>3. Phase = "open" /\ Phase' = "dead"
      BY <3>1, <3>2 DEF Phase
    <3>4. Delivery!GiveUp
      BY <1>0, <3>2, <3>3 DEF Delivery!GiveUp, Sent
    <3> QED
      BY <3>4 DEF Delivery!Next
  <2>2. CASE Owns(r) /\ ~Exhausted
    <3>1. UNCHANGED <<row, published>> /\ dead' = dead /\ UNCHANGED entry
      BY <1>0, <1>4, <2>2 DEF Fail, RecordFailure, busVars, RelayTypes
    <3> QED
      BY <1>0, <3>1, Aside
  <2>3. CASE ~Owns(r)
    BY <1>0, <1>4, <2>3, Aside DEF Fail, RecordFailure, rowVars, busVars
  <2> QED
    BY <2>1, <2>2, <2>3
<1>5. ASSUME NEW r \in Relays, ClaimRaises(r)
      PROVE  UNCHANGED Delivery!contractVars
  BY <1>0, <1>5, Aside DEF ClaimRaises, Lease, busVars
<1>6. ASSUME NEW r \in Relays, SendRaises(r)
      PROVE  [Delivery!Next]_(Delivery!contractVars)
  <2>1. row # "none" /\ UNCHANGED rowVars
    BY <1>0, <1>6 DEF SendRaises, Resting
  <2>2. CASE Add
    BY <1>0, <2>1, <2>2, Handing
  <2>3. CASE UNCHANGED busVars
    BY <1>0, <2>1, <2>3, Aside DEF rowVars, busVars
  <2> QED
    BY <1>6, <2>2, <2>3 DEF SendRaises
<1>7. ASSUME NEW r \in Relays, UpdateRaises(r) \/ RelayCrash(r)
      PROVE  UNCHANGED Delivery!contractVars
  BY <1>0, <1>7, Aside DEF UpdateRaises, RelayCrash, rowVars, busVars
<1>8. CASE Insert
  <2>1. row = "none" /\ row' = "present" /\ ~published /\ ~dead
        /\ UNCHANGED <<published, dead>> /\ UNCHANGED entry
    BY <1>0, <1>8 DEF Insert, RowInv, busVars
  <2>2. Phase = "none" /\ Phase' = "open"
    BY <2>1 DEF Phase
  <2>3. Delivery!Submit
    BY <1>0, <2>1, <2>2 DEF Delivery!Submit, Sent
  <2> QED
    BY <2>3 DEF Delivery!Next
<1>9. CASE Ripen
  BY <1>0, <1>9, Aside DEF Ripen, busVars
<1>10. CASE Purge
  <2>1. Phase' = Phase /\ UNCHANGED entry
    BY <1>10 DEF Purge, Phase, busVars
  <2> QED
    BY <1>0, <2>1 DEF Delivery!contractVars, Sent
<1> QED
  BY <1>1, <1>2, <1>3, <1>4, <1>5, <1>6, <1>7, <1>8, <1>9, <1>10
     DEF RelayNext, RelayStep, RelayFault

\* A message in a consumer's hand was handed over.
LEMMA InHand ==
    ASSUME BatchInv, NEW c \in Consumers, NEW m \in Messages, Foremost(c, m)
    PROVE  m \in Sent
  BY DEF BatchInv, Foremost, Sent

\* A transaction of persist_event observes the message, or finds its receipt.
LEMMA Observing ==
    ASSUME NormTypes, NEW m \in Sent, Store(m),
           UNCHANGED <<row, published, dead>>, UNCHANGED entry,
           UNCHANGED quarantined
    PROVE  [Delivery!Next]_(Delivery!contractVars)
<1>1. CASE m \in receipts
  BY <1>1, Aside DEF Store
<1>2. CASE m \notin receipts
  <2>1. m \in Messages /\ observed' = [observed EXCEPT ![m] = observed[m] + 1]
    BY <1>2 DEF Store, Sent
  <2>2. \A q \in Messages : observed'[q] > 0 <=> observed[q] > 0 \/ q = m
    BY <2>1 DEF NormTypes
  <2>3. Delivery!Observe(m)
    BY <2>1, <2>2 DEF Delivery!Observe, Phase, Sent
  <2> QED
    BY <2>1, <2>3 DEF Delivery!Next
<1> QED
  BY <1>1, <1>2

\* One in the dead-letter stream is kept.
LEMMA Keeping ==
    ASSUME NEW m \in Sent, quarantined' = quarantined \cup {m},
           UNCHANGED <<row, published, dead>>, UNCHANGED entry,
           UNCHANGED observed
    PROVE  Delivery!Next
<1>1. m \in Messages
  BY DEF Sent
<1>2. Delivery!Keep(m)
  BY DEF Delivery!Keep, Phase, Sent
<1> QED
  BY <1>1, <1>2 DEF Delivery!Next

\* Every step of a normalizer is one of the contract, or none.
LEMMA NormDelivers ==
    ASSUME IInv, NormNext, UNCHANGED relayVars
    PROVE  [Delivery!Next]_(Delivery!contractVars)
<1>0. /\ BusTypes /\ NormTypes /\ BatchInv /\ ReceiptInv /\ AckInv
      /\ UNCHANGED <<row, published, dead>>
  BY DEF IInv, Types, relayVars, rowVars
<1>1. ASSUME Deliver, UNCHANGED <<observed, quarantined>>
      PROVE  UNCHANGED Delivery!contractVars
  <2>1. \A m \in Messages : /\ entry'[m] = "acked" <=> entry[m] = "acked"
                            /\ entry'[m] # "absent" <=> entry[m] # "absent"
    BY <1>1 DEF Deliver, Unread, FirstOf
  <2> QED
    BY <1>0, <1>1, <2>1 DEF Delivery!contractVars, Phase, Sent
<1>2. ASSUME NEW c \in Consumers, ClaimStale(c)
      PROVE  UNCHANGED Delivery!contractVars
  BY <1>0, <1>2, Aside DEF ClaimStale, Reclaim, storeVars
<1>3. ASSUME NEW c \in Consumers, ReadGroup(c)
      PROVE  UNCHANGED Delivery!contractVars
  BY <1>1, <1>3 DEF ReadGroup, storeVars
<1>4. ASSUME NEW c \in Consumers, NEW m \in Messages, Persist(c, m)
      PROVE  [Delivery!Next]_(Delivery!contractVars)
  BY <1>0, <1>4, InHand, Observing DEF Persist, busVars
<1>5. ASSUME NEW c \in Consumers, NEW m \in Messages, Refuse(c, m)
      PROVE  UNCHANGED Delivery!contractVars
  BY <1>0, <1>5, Aside DEF Refuse, storeVars, busVars
<1>6. ASSUME NEW c \in Consumers, NEW m \in Messages, Ack(c, m)
      PROVE  Delivery!Next
  <2>1. observed[m] = 1 \/ m \in quarantined
    BY <1>0, <1>6 DEF Ack, AckInv
  <2>2. /\ entry' = [entry EXCEPT ![m] = "acked"]
        /\ UNCHANGED <<observed, quarantined>>
    BY <1>6 DEF Ack, Acknowledge, storeVars
  <2>3. Sent' = Sent
    BY <1>0, <1>6, <2>2, InHand DEF Ack, Sent, BusTypes
  <2>4. \A q \in Messages : entry'[q] = "acked" <=> entry[q] = "acked" \/ q = m
    BY <1>0, <2>2 DEF BusTypes
  <2>5. Delivery!Settle(m)
    BY <1>0, <2>1, <2>2, <2>3, <2>4 DEF Delivery!Settle, Phase
  <2> QED
    BY <2>5 DEF Delivery!Next
<1>7. ASSUME NEW c \in Consumers, NEW m \in Messages, Quarantine(c, m)
      PROVE  Delivery!Next
  BY <1>0, <1>7, InHand, Keeping DEF Quarantine, busVars
<1>8. ASSUME NEW c \in Consumers, FetchRaises(c)
      PROVE  UNCHANGED Delivery!contractVars
  <2>1. CASE UNCHANGED busVars \/ Reclaim
    BY <1>0, <1>8, <2>1, Aside DEF FetchRaises, Reclaim, storeVars, busVars
  <2>2. CASE Deliver
    BY <1>1, <1>8, <2>2 DEF FetchRaises, storeVars
  <2> QED
    BY <1>8, <2>1, <2>2 DEF FetchRaises
<1>9. ASSUME NEW c \in Consumers, NormCrash(c)
      PROVE  UNCHANGED Delivery!contractVars
  BY <1>0, <1>9, Aside DEF NormCrash, storeVars, busVars
<1>10. ASSUME NEW c \in Consumers, NEW m \in Messages, PersistRaises(c, m)
       PROVE  [Delivery!Next]_(Delivery!contractVars)
  <2>1. CASE UNCHANGED <<receipts, observed>>
    BY <1>0, <1>10, <2>1, Aside DEF PersistRaises, busVars
  <2>2. CASE Store(m)
    BY <1>0, <1>10, <2>2, InHand, Observing DEF PersistRaises, busVars
  <2> QED
    BY <1>10, <2>1, <2>2 DEF PersistRaises
<1>11. ASSUME NEW c \in Consumers, NEW m \in Messages, AckRaises(c, m)
       PROVE  UNCHANGED Delivery!contractVars
  BY <1>0, <1>11, Aside DEF AckRaises, storeVars, busVars
<1>12. ASSUME NEW c \in Consumers, NEW m \in Messages, QuarantineRaises(c, m)
       PROVE  [Delivery!Next]_(Delivery!contractVars)
  <2>1. UNCHANGED observed /\ UNCHANGED entry
    BY <1>12 DEF QuarantineRaises, busVars
  <2>2. CASE quarantined' = quarantined
    BY <1>0, <2>1, <2>2, Aside
  <2>3. CASE quarantined' = quarantined \cup {m}
    BY <1>0, <1>12, <2>1, <2>3, InHand, Keeping DEF QuarantineRaises
  <2> QED
    BY <1>12, <2>2, <2>3 DEF QuarantineRaises
<1>13. ASSUME NEW m \in Messages, Age(m), UNCHANGED normVars
       PROVE  UNCHANGED Delivery!contractVars
  BY <1>0, <1>13, Aside DEF Age, normVars, storeVars
<1>14. CASE Forget
  BY <1>0, <1>14, Aside DEF Forget, busVars
<1> QED
  BY <1>2, <1>3, <1>4, <1>5, <1>6, <1>7, <1>8, <1>9, <1>10, <1>11, <1>12,
     <1>13, <1>14
     DEF NormNext, NormStep, NormFault

\* The outbox row and the copies of its event implement the contract: what
\* relays, stream and consumers do to them is a promised step or none at all.
THEOREM DeliveryRefinement == Spec => ImplementsDelivery
<1>1. ASSUME Init
      PROVE  Delivery!Init
  <2>1. row = "none" /\ quarantined = {}
        /\ \A m \in Messages : entry[m] = "absent" /\ observed[m] = 0
    BY <1>1 DEF Init, BusInit, RelayInit, NormInit
  <2> QED
    BY <2>1 DEF Delivery!Init, Phase, Sent
<1>2. ASSUME IInv, [Next]_vars
      PROVE  [Delivery!Next]_(Delivery!contractVars)
  <2>1. CASE UNCHANGED vars
    BY <2>1, Aside DEF vars, relayVars, rowVars, normVars, storeVars, busVars
  <2> QED
    BY <1>2, <2>1, RelayDelivers, NormDelivers DEF Next
<1> QED
  BY <1>1, <1>2, Invariance, PTL DEF Spec, ImplementsDelivery, Delivery!Spec
=============================================================================
