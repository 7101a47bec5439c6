------------------------- MODULE TaskSchedule_proofs -------------------------
(***************************************************************************)
(* Proofs about TaskSchedule, for every number of schedulers and rows and  *)
(* every length of the leases.                                             *)
(*                                                                         *)
(* Statements are fenced by claimer and state only, so the argument is     *)
(* about what a scheduler that still owns its row knows of it: Held says   *)
(* that the attempts it counts from are below the limit, Owning that, when *)
(* only native executions take time, it has not lost the row at all,       *)
(* because the lease and the ticks since the heartbeat add up.             *)
(***************************************************************************)
EXTENDS TaskSchedule, TLAPS

\* Who is at a row, and the state the claim returned.
Positions ==
    \A s \in Schedulers :
        /\ (at[s] \in WithRun) <=> (got[s] # 0)
        /\ got[s] # 0 => seen[s] \in {"pending", "published", "failed"}

\* Outcomes are written by schedulers that have brought them about.
Witnessed ==
    /\ OutcomesTrue
    /\ \A s \in Schedulers :
          /\ at[s] = "announce" => got[s] \in triggered
          /\ at[s] = "complete" => got[s] \in executed

\* A scheduler whose statement will pass the fence counts from below the
\* limit, unless it republishes.
Held ==
    \A s \in Schedulers :
        /\ got[s] # 0
        /\ claimedBy[got[s]] = s
        /\ state[got[s]] = seen[s]
        /\ seen[s] # "published"
        => attempts[got[s]] < MaxTaskAttempts

Counted == AttemptsBounded /\ Held

\* The bucket of a deleted row has passed.
Past == \A r \in Runs : state[r] = "deleted" => r \in (1..clock) \ Current

\* Without delays a scheduler at a row has it, and time on its lease.
Owning ==
    Punctual =>
        \A s \in Schedulers : got[s] # 0 =>
            /\ claimedBy[got[s]] = s
            /\ state[got[s]] = seen[s]
            /\ lease[got[s]] > 0
            /\ at[s] = "work" => lease[got[s]] + beat[s] = NativeLease

IInv ==
    /\ ColumnTypes
    /\ CallTypes
    /\ Positions
    /\ Witnessed
    /\ Counted
    /\ Past
    /\ Owning

LEMMA Initially == Init => IInv
  BY TaskAssumption, LeaseAssumption, BoundAssumption
     DEF Init, IInv, ColumnTypes, CallTypes, Positions, Witnessed,
         OutcomesTrue, Counted, AttemptsBounded, Held, Past, Owning, States,
         Places, WithRun

-----------------------------------------------------------------------------
\* What follows the last statement about a run, whether or not that passed the
\* fence.
LEMMA SettleStep ==
    ASSUME IInv, NEW s \in Schedulers,
           NEW outcome \in {"published", "completed", "failed"},
           NEW count \in 0..1, NEW ticks \in Nat,
           at[s] \in {"announce", "complete", "fail"},
           Settle(s, outcome, count, ticks), Leave(s), UNCHANGED faults,
           outcome = "published" => at[s] = "announce",
           outcome = "completed" => at[s] = "complete",
           count = 0 => seen[s] = "published" /\ outcome = "published",
           outcome = "published" /\ seen[s] = "published" => count = 0
    PROVE  IInv'
  <1>0. /\ ColumnTypes /\ CallTypes /\ Positions /\ Witnessed
        /\ Counted /\ Past /\ Owning
    BY DEF IInv
  <1>g. got[s] \in Runs /\ seen[s] \in {"pending", "published", "failed"}
    BY <1>0 DEF Positions, WithRun, CallTypes, Runs
  <1>l. /\ at' = [at EXCEPT ![s] = "claim"] /\ got' = [got EXCEPT ![s] = 0]
        /\ seen' = [seen EXCEPT ![s] = "none"] /\ beat' = [beat EXCEPT ![s] = 0]
        /\ UNCHANGED <<clock, claims, triggered, executed, faults>>
    BY DEF Leave, Go, effectVars
  <1>a. CASE ~Fenced(s)
    <2>1. UNCHANGED rowVars
      BY <1>a DEF Settle
    <2>2. ColumnTypes' /\ CallTypes'
      BY <1>0, <1>l, <2>1, LeaseAssumption, TaskAssumption
         DEF rowVars, ColumnTypes, CallTypes, Places, States
    <2>3. Positions' /\ Witnessed' /\ Past'
      BY <1>0, <1>l, <2>1
         DEF rowVars, Positions, Witnessed, OutcomesTrue, Past, Current,
             CallTypes, WithRun
    <2>4. Counted' /\ Owning'
      BY <1>0, <1>l, <2>1
         DEF rowVars, Counted, AttemptsBounded, Held, Owning, CallTypes
    <2> QED  BY <2>2, <2>3, <2>4 DEF IInv
  <1>b. CASE Fenced(s)
    <2>1. /\ state' = [state EXCEPT ![got[s]] = outcome]
          /\ attempts' = [attempts EXCEPT ![got[s]] = attempts[got[s]] + count]
          /\ claimedBy' = [claimedBy EXCEPT ![got[s]] = Nobody]
          /\ lease' = [lease EXCEPT ![got[s]] = ticks]
          /\ claimedBy[got[s]] = s /\ state[got[s]] = seen[s]
      BY <1>b DEF Settle, Fenced
    <2>2. ColumnTypes'
      BY <1>0, <1>g, <2>1 DEF ColumnTypes, States
    <2>3. CallTypes'
      BY <1>0, <1>l, LeaseAssumption, TaskAssumption
         DEF CallTypes, Places, States
    <2>4. Positions'
      BY <1>0, <1>l DEF Positions, CallTypes, WithRun
    <2>5. Witnessed'
      BY <1>0, <1>l, <2>1 DEF Witnessed, OutcomesTrue, CallTypes
    <2>6. attempts'[got[s]] <= MaxTaskAttempts + 1
      BY <1>0, <1>g, <2>1, BoundAssumption
         DEF Counted, AttemptsBounded, Held, ColumnTypes, Runs
    <2>7. outcome = "published" => attempts'[got[s]] <= MaxTaskAttempts
      BY <1>0, <1>g, <2>1, BoundAssumption
         DEF Counted, AttemptsBounded, Held, ColumnTypes, Runs
    <2>8. AttemptsBounded'
      BY <1>0, <2>1, <2>6, <2>7 DEF Counted, AttemptsBounded, ColumnTypes
    <2>9. \A t \in Schedulers : got'[t] # 0 /\ claimedBy'[got'[t]] = t
                                => t # s /\ got'[t] = got[t] /\ got[t] # got[s]
      BY <1>0, <1>g, <1>l, <2>1, OwnerAssumption DEF ColumnTypes
    <2>10. Held'
      BY <1>0, <1>l, <2>1, <2>9 DEF Counted, Held
    <2>11. Past'
      BY <1>0, <1>l, <2>1 DEF Past, Current
    <2>13. Owning'
      BY <1>0, <1>l, <2>1 DEF Owning, CallTypes
    <2> QED
      BY <2>2, <2>3, <2>4, <2>5, <2>8, <2>10, <2>11, <2>13 DEF IInv, Counted
  <1> QED  BY <1>a, <1>b

LEMMA AnnounceStep ==
    ASSUME IInv, NEW s \in Schedulers, Announce(s)
    PROVE  IInv'
  BY SettleStep, LeaseAssumption DEF Announce

LEMMA CompleteStep ==
    ASSUME IInv, NEW s \in Schedulers, Complete(s)
    PROVE  IInv'
  BY SettleStep DEF Complete

LEMMA FailStep ==
    ASSUME IInv, NEW s \in Schedulers, Fail(s)
    PROVE  IInv'
  BY SettleStep, LeaseAssumption DEF Fail

LEMMA MaterializeStep ==
    ASSUME IInv, NEW s \in Schedulers, Materialize(s)
    PROVE  IInv'
  <1>0. /\ ColumnTypes /\ CallTypes /\ Positions /\ Witnessed
        /\ Counted /\ Past /\ Owning
    BY DEF IInv
  <1>1. ColumnTypes'
    <2>1. \E n : Insert(n)
      BY DEF Materialize
    <2> QED
      BY <1>0, <2>1 DEF Insert, ColumnTypes, States
  <1>2. CallTypes'
    <2>1. clock' \in 0..NRuns
      BY <1>0 DEF Materialize, CallTypes, rowVars
    <2>2. at' \in [Schedulers -> Places]
      BY <1>0 DEF Materialize, Go, CallTypes, rowVars, Places
    <2>3. claims' \in [Schedulers -> 0..PassClaims]
      BY <1>0, BoundAssumption DEF Materialize, CallTypes, rowVars
    <2>4. got' \in [Schedulers -> 0..NRuns]
      BY <1>0 DEF Materialize, CallTypes, rowVars
    <2>5. seen' \in [Schedulers -> States]
      BY <1>0 DEF Materialize, CallTypes, rowVars
    <2>6. beat' \in [Schedulers -> 0..HeartbeatEvery]
      BY <1>0 DEF Materialize, CallTypes, rowVars
    <2>7. triggered' \subseteq Runs /\ executed' \subseteq Runs
      BY <1>0 DEF Materialize, CallTypes, rowVars, effectVars
    <2>8. faults' \in 0..MaxFaults
      BY <1>0, BoundAssumption DEF Materialize, Fault, CallTypes, rowVars
    <2> QED  BY <2>1, <2>2, <2>3, <2>4, <2>5, <2>6, <2>7, <2>8 DEF CallTypes
  <1>3. Positions'
    BY <1>0 DEF Materialize, Go, Positions, WithRun, rowVars
  <1>4. Witnessed'
    BY <1>0
       DEF Materialize, Insert, Go, Witnessed, OutcomesTrue, CallTypes,
           rowVars, effectVars
  <1>5. Counted'
    <2>1. /\ UNCHANGED <<claimedBy, got, seen>>
          /\ \A r \in Runs :
                \/ state'[r] = state[r] /\ attempts'[r] = attempts[r]
                \/ state'[r] = "pending" /\ attempts'[r] = 0
      BY DEF Materialize, Insert
    <2>2. \A t \in Schedulers : got[t] # 0 => got[t] \in Runs
      BY <1>0 DEF CallTypes, Runs
    <2> QED
      BY <1>0, <2>1, <2>2, BoundAssumption DEF Counted, AttemptsBounded, Held
  <1>6. Past'
    BY <1>0 DEF Materialize, Insert, Past, Current, rowVars
  <1>7. Owning'
    <2>1. /\ UNCHANGED <<claimedBy, lease, got, seen, beat>>
          /\ \A r \in Runs : state[r] \notin {"none", "deleted"} => state'[r] = state[r]
      BY DEF Materialize, Insert, Missing
    <2>2. \A t \in Schedulers : at'[t] = "work" => at[t] = "work"
      BY DEF Materialize, Go
    <2>3. \A t \in Schedulers : got[t] # 0 => got[t] \in Runs
      BY <1>0 DEF CallTypes, Runs
    <2> QED
      BY <1>0, <2>1, <2>2, <2>3 DEF Owning, Positions
  <1> QED  BY <1>1, <1>2, <1>3, <1>4, <1>5, <1>6, <1>7 DEF IInv

LEMMA ClaimStep ==
    ASSUME IInv, NEW s \in Schedulers, Claim(s)
    PROVE  IInv'
  <1>0. /\ ColumnTypes /\ CallTypes /\ Positions /\ Witnessed
        /\ Counted /\ Past /\ Owning
    BY DEF IInv
  <1>1. ColumnTypes'
    BY <1>0, LeaseAssumption DEF Claim, Take, ColumnTypes, rowVars
  <1>2. CallTypes'
    <2>1. clock' \in 0..NRuns
      BY <1>0 DEF Claim, CallTypes, rowVars
    <2>2. at' \in [Schedulers -> Places]
      BY <1>0 DEF Claim, Go, CallTypes, rowVars, Places, WithRun
    <2>3. claims' \in [Schedulers -> 0..PassClaims]
      BY <1>0, BoundAssumption DEF Claim, CallTypes, rowVars
    <2>4. got' \in [Schedulers -> 0..NRuns]
      BY <1>0 DEF Claim, CallTypes, rowVars, Runs
    <2>5. seen' \in [Schedulers -> States]
      BY <1>0 DEF Claim, CallTypes, rowVars, ColumnTypes
    <2>6. beat' \in [Schedulers -> 0..HeartbeatEvery]
      BY <1>0 DEF Claim, CallTypes, rowVars
    <2>7. triggered' \subseteq Runs /\ executed' \subseteq Runs
      BY <1>0 DEF Claim, CallTypes, rowVars, effectVars
    <2>8. faults' \in 0..MaxFaults
      BY <1>0 DEF Claim, CallTypes, rowVars
    <2> QED  BY <2>1, <2>2, <2>3, <2>4, <2>5, <2>6, <2>7, <2>8 DEF CallTypes
  <1>3. Positions'
    BY <1>0
       DEF Claim, Oldest, Claimable, Go, CallTypes, Positions, WithRun, Runs,
           rowVars
  <1>4. Witnessed'
    BY <1>0 DEF Claim, Take, Go, Witnessed, OutcomesTrue, rowVars, effectVars
  <1>5. Counted'
    BY <1>0
       DEF Claim, Oldest, Claimable, Take, Counted, AttemptsBounded, Held,
           CallTypes, rowVars
  <1>6. Past'
    BY <1>0 DEF Claim, Take, Past, Current, rowVars
  <1>7. Owning'
    BY <1>0, LeaseAssumption
       DEF Claim, Oldest, Claimable, Take, Go, Owning, CallTypes, ColumnTypes,
           rowVars
  <1> QED  BY <1>1, <1>2, <1>3, <1>4, <1>5, <1>6, <1>7 DEF IInv

LEMMA EndPassStep ==
    ASSUME IInv, NEW s \in Schedulers, EndPass(s)
    PROVE  IInv'
  <1>0. /\ ColumnTypes /\ CallTypes /\ Positions /\ Witnessed
        /\ Counted /\ Past /\ Owning
    BY DEF IInv
  <1>1. ColumnTypes'
    BY <1>0 DEF EndPass, ColumnTypes, rowVars
  <1>2. CallTypes'
    BY <1>0 DEF EndPass, Go, CallTypes, Places, rowVars, callVars, effectVars
  <1>3. Positions'
    BY <1>0 DEF EndPass, Go, Positions, WithRun, rowVars, callVars
  <1>4. Witnessed'
    BY <1>0
       DEF EndPass, Go, Witnessed, OutcomesTrue, rowVars, callVars, effectVars
  <1>5. Counted'
    BY <1>0 DEF EndPass, Counted, AttemptsBounded, Held, rowVars, callVars
  <1>6. Past'
    BY <1>0 DEF EndPass, Past, Current, rowVars
  <1>7. Owning'
    BY <1>0 DEF EndPass, Go, Owning, rowVars, callVars
  <1> QED  BY <1>1, <1>2, <1>3, <1>4, <1>5, <1>6, <1>7 DEF IInv

LEMMA ClaimRaisesStep ==
    ASSUME IInv, NEW s \in Schedulers, ClaimRaises(s)
    PROVE  IInv'
  <1>0. /\ ColumnTypes /\ CallTypes /\ Positions /\ Witnessed
        /\ Counted /\ Past /\ Owning
    BY DEF IInv
  <1>1. ColumnTypes'
    <2>1. CASE UNCHANGED rowVars
      BY <1>0, <2>1 DEF rowVars, ColumnTypes
    <2>2. CASE \E r \in Runs : Oldest(r) /\ Take(s, r)
      BY <1>0, <2>2, LeaseAssumption DEF Take, ColumnTypes
    <2> QED  BY <2>1, <2>2 DEF ClaimRaises
  <1>2. CallTypes'
    BY <1>0, BoundAssumption
       DEF ClaimRaises, Fault, Go, CallTypes, Places, States, rowVars,
           callVars, effectVars
  <1>3. Positions'
    BY <1>0 DEF ClaimRaises, Go, Positions, WithRun, rowVars, callVars
  <1>4. Witnessed'
    BY <1>0
       DEF ClaimRaises, Take, Go, Witnessed, OutcomesTrue, CallTypes, rowVars,
           callVars, effectVars
  <1>5. Counted'
    <2>1. CASE UNCHANGED rowVars
      BY <1>0, <2>1
         DEF ClaimRaises, callVars, rowVars, Counted, AttemptsBounded, Held
    <2>2. CASE \E r \in Runs : Oldest(r) /\ Take(s, r)
      <3>1. PICK r \in Runs : Oldest(r) /\ Take(s, r)
        BY <2>2
      <3>2. got[s] = 0
        BY <1>0 DEF ClaimRaises, Positions, WithRun
      <3>3. \A t \in Schedulers : got[t] # 0 => t # s /\ got[t] \in Runs
        BY <1>0, <3>2 DEF CallTypes, Runs
      <3> QED
        BY <1>0, <3>1, <3>3
           DEF Take, ClaimRaises, callVars, Counted, AttemptsBounded, Held
    <2> QED  BY <2>1, <2>2 DEF ClaimRaises
  <1>6. Past'
    BY <1>0 DEF ClaimRaises, Take, Past, Current, rowVars
  <1>7. Owning'
    <2>1. CASE UNCHANGED rowVars
      BY <1>0, <2>1 DEF ClaimRaises, Go, callVars, rowVars, Owning
    <2>2. CASE \E r \in Runs : Oldest(r) /\ Take(s, r)
      <3>1. PICK r \in Runs : Oldest(r) /\ Take(s, r)
        BY <2>2
      <3>2. lease[r] = 0 /\ got[s] = 0
        BY <1>0, <3>1 DEF Oldest, Claimable, ClaimRaises, Positions, WithRun
      <3> QED
        BY <1>0, <3>1, <3>2 DEF Take, ClaimRaises, Go, callVars, Owning
    <2> QED  BY <2>1, <2>2 DEF ClaimRaises
  <1> QED  BY <1>1, <1>2, <1>3, <1>4, <1>5, <1>6, <1>7 DEF IInv

LEMMA PublishStep ==
    ASSUME IInv, NEW s \in Schedulers, Publish(s)
    PROVE  IInv'
  <1>0. /\ ColumnTypes /\ CallTypes /\ Positions /\ Witnessed
        /\ Counted /\ Past /\ Owning
    BY DEF IInv
  <1>1. ColumnTypes'
    BY <1>0 DEF Publish, ColumnTypes, rowVars
  <1>2. CallTypes'
    <2>1. clock' \in 0..NRuns
      BY <1>0 DEF Publish, CallTypes, rowVars
    <2>2. at' \in [Schedulers -> Places]
      BY <1>0 DEF Publish, Go, CallTypes, rowVars, Places, WithRun
    <2>3. claims' \in [Schedulers -> 0..PassClaims]
      BY <1>0 DEF Publish, CallTypes, rowVars, callVars
    <2>4. got' \in [Schedulers -> 0..NRuns]
      BY <1>0 DEF Publish, CallTypes, rowVars, callVars
    <2>5. seen' \in [Schedulers -> States]
      BY <1>0 DEF Publish, CallTypes, rowVars, callVars
    <2>6. beat' \in [Schedulers -> 0..HeartbeatEvery]
      BY <1>0 DEF Publish, CallTypes, rowVars, callVars
    <2>7. triggered' \subseteq Runs /\ executed' \subseteq Runs
      <3>1. got[s] \in Runs
        BY <1>0 DEF Publish, Positions, WithRun, CallTypes, Runs
      <3> QED  BY <1>0, <3>1 DEF Publish, CallTypes
    <2>8. faults' \in 0..MaxFaults
      BY <1>0 DEF Publish, CallTypes, rowVars
    <2> QED  BY <2>1, <2>2, <2>3, <2>4, <2>5, <2>6, <2>7, <2>8 DEF CallTypes
  <1>3. Positions'
    BY <1>0 DEF Publish, Go, Positions, WithRun, rowVars, callVars
  <1>4. Witnessed'
    BY <1>0 DEF Publish, Go, Witnessed, OutcomesTrue, rowVars, callVars
  <1>5. Counted'
    BY <1>0 DEF Publish, Counted, AttemptsBounded, Held, rowVars, callVars
  <1>6. Past'
    BY <1>0 DEF Publish, Past, Current, rowVars
  <1>7. Owning'
    BY <1>0 DEF Publish, Go, Owning, rowVars, callVars
  <1> QED  BY <1>1, <1>2, <1>3, <1>4, <1>5, <1>6, <1>7 DEF IInv

LEMMA PublishRaisesStep ==
    ASSUME IInv, NEW s \in Schedulers, PublishRaises(s)
    PROVE  IInv'
  <1>0. /\ ColumnTypes /\ CallTypes /\ Positions /\ Witnessed
        /\ Counted /\ Past /\ Owning
    BY DEF IInv
  <1>1. ColumnTypes'
    BY <1>0 DEF PublishRaises, ColumnTypes, rowVars
  <1>2. CallTypes'
    <2>1. clock' \in 0..NRuns
      BY <1>0 DEF PublishRaises, CallTypes, rowVars
    <2>2. at' \in [Schedulers -> Places]
      BY <1>0 DEF PublishRaises, Go, CallTypes, rowVars, Places, WithRun
    <2>3. claims' \in [Schedulers -> 0..PassClaims]
      BY <1>0 DEF PublishRaises, CallTypes, rowVars, callVars
    <2>4. got' \in [Schedulers -> 0..NRuns]
      BY <1>0 DEF PublishRaises, CallTypes, rowVars, callVars
    <2>5. seen' \in [Schedulers -> States]
      BY <1>0 DEF PublishRaises, CallTypes, rowVars, callVars
    <2>6. beat' \in [Schedulers -> 0..HeartbeatEvery]
      BY <1>0 DEF PublishRaises, CallTypes, rowVars, callVars
    <2>7. triggered' \subseteq Runs /\ executed' \subseteq Runs
      BY <1>0 DEF PublishRaises, CallTypes, rowVars, Positions, WithRun, Runs
    <2>8. faults' \in 0..MaxFaults
      BY <1>0, BoundAssumption DEF PublishRaises, Fault, CallTypes, rowVars
    <2> QED  BY <2>1, <2>2, <2>3, <2>4, <2>5, <2>6, <2>7, <2>8 DEF CallTypes
  <1>3. Positions'
    BY <1>0 DEF PublishRaises, Go, Positions, WithRun, rowVars, callVars
  <1>4. Witnessed'
    BY <1>0 DEF PublishRaises, Go, Witnessed, OutcomesTrue, rowVars, callVars
  <1>5. Counted'
    BY <1>0
       DEF PublishRaises, Counted, AttemptsBounded, Held, rowVars, callVars
  <1>6. Past'
    BY <1>0 DEF PublishRaises, Past, Current, rowVars
  <1>7. Owning'
    BY <1>0 DEF PublishRaises, Go, Owning, rowVars, callVars
  <1> QED  BY <1>1, <1>2, <1>3, <1>4, <1>5, <1>6, <1>7 DEF IInv

LEMMA ExtendStep ==
    ASSUME IInv, NEW s \in Schedulers, Extend(s)
    PROVE  IInv'
  <1>0. /\ ColumnTypes /\ CallTypes /\ Positions /\ Witnessed
        /\ Counted /\ Past /\ Owning
    BY DEF IInv
  <1>1. ColumnTypes'
    BY <1>0, LeaseAssumption
       DEF Extend, ExtendLease, LosesLease, ColumnTypes, States, rowVars
  <1>2. CallTypes'
    <2>1. clock' \in 0..NRuns
      BY <1>0 DEF Extend, CallTypes, rowVars
    <2>2. at' \in [Schedulers -> Places]
      BY <1>0 DEF Extend, Go, CallTypes, rowVars, Places, WithRun
    <2>3. claims' \in [Schedulers -> 0..PassClaims]
      BY <1>0 DEF Extend, CallTypes, rowVars
    <2>4. got' \in [Schedulers -> 0..NRuns]
      BY <1>0 DEF Extend, CallTypes, rowVars
    <2>5. seen' \in [Schedulers -> States]
      BY <1>0 DEF Extend, CallTypes, rowVars
    <2>6. beat' \in [Schedulers -> 0..HeartbeatEvery]
      BY <1>0, LeaseAssumption
         DEF Extend, ExtendLease, LosesLease, CallTypes, rowVars
    <2>7. triggered' \subseteq Runs /\ executed' \subseteq Runs
      BY <1>0 DEF Extend, CallTypes, rowVars, effectVars
    <2>8. faults' \in 0..MaxFaults
      BY <1>0 DEF Extend, CallTypes, rowVars
    <2> QED  BY <2>1, <2>2, <2>3, <2>4, <2>5, <2>6, <2>7, <2>8 DEF CallTypes
  <1>3. Positions'
    BY <1>0 DEF Extend, Go, CallTypes, Positions, WithRun, rowVars
  <1>4. Witnessed'
    <2>1. /\ UNCHANGED <<state, got, triggered, executed>>
          /\ \A t \in Schedulers :
                at'[t] \in {"announce", "complete"} => at'[t] = at[t]
      BY <1>0
         DEF Extend, ExtendLease, LosesLease, Go, CallTypes, rowVars, effectVars
    <2> QED
      BY <1>0, <2>1 DEF Witnessed, OutcomesTrue
  <1>5. Counted'
    BY <1>0
       DEF Extend, ExtendLease, LosesLease, Counted, AttemptsBounded, Held,
           rowVars
  <1>6. Past'
    BY <1>0 DEF Extend, ExtendLease, LosesLease, Past, Current, rowVars
  <1>7. Owning'
    <2> SUFFICES ASSUME Punctual, NEW t \in Schedulers, got'[t] # 0
                 PROVE  /\ claimedBy'[got'[t]] = t
                        /\ state'[got'[t]] = seen'[t]
                        /\ lease'[got'[t]] > 0
                        /\ at'[t] = "work" => lease'[got'[t]] + beat'[t] = NativeLease
      BY DEF Owning
    <2>1. got[t] \in Runs /\ got' = got /\ seen' = seen
      BY <1>0 DEF Extend, CallTypes, Runs
    <2> QED
      BY <1>0, <2>1, LeaseAssumption
         DEF Extend, ExtendLease, LosesLease, Go, Owning, ColumnTypes,
             CallTypes, rowVars
  <1> QED  BY <1>1, <1>2, <1>3, <1>4, <1>5, <1>6, <1>7 DEF IInv

LEMMA HeartbeatStep ==
    ASSUME IInv, NEW s \in Schedulers, Heartbeat(s)
    PROVE  IInv'
  <1>0. /\ ColumnTypes /\ CallTypes /\ Positions /\ Witnessed
        /\ Counted /\ Past /\ Owning
    BY DEF IInv
  <1>1. ColumnTypes'
    BY <1>0, LeaseAssumption
       DEF Heartbeat, ExtendLease, LosesLease, ColumnTypes, rowVars,
           effectVars
  <1>2. CallTypes'
    <2>1. clock' \in 0..NRuns
      BY <1>0 DEF Heartbeat, CallTypes, rowVars
    <2>2. at' \in [Schedulers -> Places]
      BY <1>0 DEF Heartbeat, Go, CallTypes, rowVars, Places, WithRun
    <2>3. claims' \in [Schedulers -> 0..PassClaims]
      BY <1>0 DEF Heartbeat, CallTypes, rowVars
    <2>4. got' \in [Schedulers -> 0..NRuns]
      BY <1>0 DEF Heartbeat, CallTypes, rowVars
    <2>5. seen' \in [Schedulers -> States]
      BY <1>0 DEF Heartbeat, CallTypes, rowVars
    <2>6. beat' \in [Schedulers -> 0..HeartbeatEvery]
      BY <1>0 DEF Heartbeat, ExtendLease, LosesLease, CallTypes, rowVars
    <2>7. triggered' \subseteq Runs /\ executed' \subseteq Runs
      BY <1>0 DEF Heartbeat, CallTypes, rowVars, effectVars
    <2>8. faults' \in 0..MaxFaults
      BY <1>0 DEF Heartbeat, CallTypes, rowVars
    <2> QED  BY <2>1, <2>2, <2>3, <2>4, <2>5, <2>6, <2>7, <2>8 DEF CallTypes
  <1>3. Positions'
    BY <1>0 DEF Heartbeat, Go, CallTypes, Positions, WithRun, rowVars
  <1>4. Witnessed'
    BY <1>0
       DEF Heartbeat, ExtendLease, LosesLease, Go, Witnessed, OutcomesTrue,
           CallTypes, rowVars, effectVars
  <1>5. Counted'
    BY <1>0
       DEF Heartbeat, ExtendLease, LosesLease, Counted, AttemptsBounded, Held,
           rowVars
  <1>6. Past'
    BY <1>0 DEF Heartbeat, ExtendLease, LosesLease, Past, Current, rowVars
  <1>7. Owning'
    <2> SUFFICES ASSUME Punctual, NEW t \in Schedulers, got'[t] # 0
                 PROVE  /\ claimedBy'[got'[t]] = t
                        /\ state'[got'[t]] = seen'[t]
                        /\ lease'[got'[t]] > 0
                        /\ at'[t] = "work" => lease'[got'[t]] + beat'[t] = NativeLease
      BY DEF Owning
    <2>1. got[t] \in Runs /\ got' = got /\ seen' = seen
      BY <1>0 DEF Heartbeat, CallTypes, Runs
    <2>2. Fenced(s)
      BY <1>0 DEF Heartbeat, Owning, Fenced, Positions, WithRun
    <2> QED
      BY <1>0, <2>1, <2>2
         DEF Heartbeat, ExtendLease, LosesLease, Owning, ColumnTypes,
             CallTypes, rowVars
  <1> QED  BY <1>1, <1>2, <1>3, <1>4, <1>5, <1>6, <1>7 DEF IInv

LEMMA ExtendRaisesStep ==
    ASSUME IInv, NEW s \in Schedulers, ExtendRaises(s)
    PROVE  IInv'
  <1>0. /\ ColumnTypes /\ CallTypes /\ Positions /\ Witnessed
        /\ Counted /\ Past /\ Owning
    BY DEF IInv
  <1>1. ColumnTypes'
    BY <1>0, LeaseAssumption
       DEF ExtendRaises, ExtendLease, ColumnTypes, States, rowVars, effectVars
  <1>2. CallTypes'
    <2>1. clock' \in 0..NRuns
      BY <1>0 DEF ExtendRaises, CallTypes, rowVars
    <2>2. at' \in [Schedulers -> Places]
      BY <1>0 DEF ExtendRaises, Go, CallTypes, rowVars, Places, WithRun
    <2>3. claims' \in [Schedulers -> 0..PassClaims]
      BY <1>0 DEF ExtendRaises, CallTypes, rowVars
    <2>4. got' \in [Schedulers -> 0..NRuns]
      BY <1>0 DEF ExtendRaises, CallTypes, rowVars
    <2>5. seen' \in [Schedulers -> States]
      BY <1>0 DEF ExtendRaises, CallTypes, rowVars
    <2>6. beat' \in [Schedulers -> 0..HeartbeatEvery]
      BY <1>0, LeaseAssumption
         DEF ExtendRaises, ExtendLease, CallTypes, rowVars
    <2>7. triggered' \subseteq Runs /\ executed' \subseteq Runs
      BY <1>0 DEF ExtendRaises, CallTypes, rowVars, effectVars
    <2>8. faults' \in 0..MaxFaults
      BY <1>0, BoundAssumption DEF ExtendRaises, Fault, CallTypes, rowVars
    <2> QED  BY <2>1, <2>2, <2>3, <2>4, <2>5, <2>6, <2>7, <2>8 DEF CallTypes
  <1>3. Positions'
    BY <1>0 DEF ExtendRaises, Go, Positions, WithRun, rowVars
  <1>4. Witnessed'
    BY <1>0
       DEF ExtendRaises, ExtendLease, Go, Witnessed, OutcomesTrue, CallTypes,
           rowVars, effectVars
  <1>5. Counted'
    BY <1>0
       DEF ExtendRaises, ExtendLease, Counted, AttemptsBounded, Held, rowVars
  <1>6. Past'
    BY <1>0 DEF ExtendRaises, ExtendLease, Past, Current, rowVars
  <1>7. Owning'
    <2> SUFFICES ASSUME Punctual, NEW t \in Schedulers, got'[t] # 0
                 PROVE  /\ claimedBy'[got'[t]] = t
                        /\ state'[got'[t]] = seen'[t]
                        /\ lease'[got'[t]] > 0
                        /\ at'[t] = "work" => lease'[got'[t]] + beat'[t] = NativeLease
      BY DEF Owning
    <2>1. got[t] \in Runs /\ got' = got /\ seen' = seen
      BY <1>0 DEF ExtendRaises, CallTypes, Runs
    <2> QED
      BY <1>0, <2>1, LeaseAssumption
         DEF ExtendRaises, ExtendLease, Go, Owning, ColumnTypes, CallTypes,
             rowVars
  <1> QED  BY <1>1, <1>2, <1>3, <1>4, <1>5, <1>6, <1>7 DEF IInv

LEMMA ExecuteStep ==
    ASSUME IInv, NEW s \in Schedulers, Execute(s)
    PROVE  IInv'
  <1>0. /\ ColumnTypes /\ CallTypes /\ Positions /\ Witnessed
        /\ Counted /\ Past /\ Owning
    BY DEF IInv
  <1>1. ColumnTypes'
    BY <1>0 DEF Execute, NativeTask, Delete, ColumnTypes, States, rowVars
  <1>2. CallTypes'
    <2>1. clock' \in 0..NRuns
      BY <1>0 DEF Execute, CallTypes, rowVars
    <2>2. at' \in [Schedulers -> Places]
      BY <1>0 DEF Execute, Go, CallTypes, rowVars, Places, WithRun
    <2>3. claims' \in [Schedulers -> 0..PassClaims]
      BY <1>0 DEF Execute, CallTypes, rowVars, callVars
    <2>4. got' \in [Schedulers -> 0..NRuns]
      BY <1>0 DEF Execute, CallTypes, rowVars, callVars
    <2>5. seen' \in [Schedulers -> States]
      BY <1>0 DEF Execute, CallTypes, rowVars, callVars
    <2>6. beat' \in [Schedulers -> 0..HeartbeatEvery]
      BY <1>0 DEF Execute, CallTypes, rowVars, callVars
    <2>7. triggered' \subseteq Runs /\ executed' \subseteq Runs
      BY <1>0
         DEF Execute, NativeTask, Delete, CallTypes, rowVars, Positions,
             WithRun, Runs
    <2>8. faults' \in 0..MaxFaults
      BY <1>0 DEF Execute, CallTypes, rowVars
    <2> QED  BY <2>1, <2>2, <2>3, <2>4, <2>5, <2>6, <2>7, <2>8 DEF CallTypes
  <1>3. Positions'
    BY <1>0 DEF Execute, Go, Positions, WithRun, rowVars, callVars
  <1>4. Witnessed'
    BY <1>0
       DEF Execute, NativeTask, Delete, Go, Witnessed, OutcomesTrue,
           CallTypes, rowVars, callVars
  <1>5. Counted'
    <2>1. /\ UNCHANGED <<attempts, got, seen>>
          /\ \A r \in Runs : state'[r] \in {state[r], "deleted"}
          /\ \A r \in Runs : claimedBy'[r] \in {claimedBy[r], Nobody}
      BY DEF Execute, NativeTask, Delete, rowVars, callVars
    <2>2. \A t \in Schedulers : got[t] # 0 => got[t] \in Runs /\ seen[t] # "deleted"
      BY <1>0 DEF Positions, CallTypes, Runs
    <2> QED
      BY <1>0, <2>1, <2>2, OwnerAssumption DEF Counted, AttemptsBounded, Held
  <1>6. Past'
    <2>1. /\ UNCHANGED clock
          /\ \A r \in Runs : state'[r] = "deleted" =>
                state[r] = "deleted" \/ r \in (1..clock) \ Current
      BY DEF Execute, NativeTask, Delete, Deletable, rowVars
    <2> QED
      BY <1>0, <2>1 DEF Past, Current
  <1>7. Owning'
    <2>a. CASE UNCHANGED rowVars
      BY <1>0, <2>a DEF Execute, Go, rowVars, callVars, Owning
    <2>b. CASE \E gone \in SUBSET Deletable : Delete(gone)
      <3>1. PICK gone \in SUBSET Deletable : Delete(gone)
        BY <2>b
      <3>2. \A r \in gone : lease[r] = 0
        BY DEF Deletable
      <3>3. \A r \in Runs : lease[r] > 0 =>
                state'[r] = state[r] /\ claimedBy'[r] = claimedBy[r]
        BY <3>1, <3>2 DEF Delete
      <3>4. UNCHANGED <<lease, got, seen, beat>>
        BY <3>1 DEF Delete, Execute, callVars
      <3>5. \A t \in Schedulers : at'[t] = "work" => at[t] = "work"
        BY DEF Execute, Go
      <3>6. \A t \in Schedulers : got[t] # 0 => got[t] \in Runs
        BY <1>0 DEF CallTypes, Runs
      <3> QED
        BY <1>0, <3>3, <3>4, <3>5, <3>6 DEF Owning
    <2> QED  BY <2>a, <2>b DEF Execute, NativeTask
  <1> QED  BY <1>1, <1>2, <1>3, <1>4, <1>5, <1>6, <1>7 DEF IInv

LEMMA ExecuteRaisesStep ==
    ASSUME IInv, NEW s \in Schedulers, ExecuteRaises(s)
    PROVE  IInv'
  <1>0. /\ ColumnTypes /\ CallTypes /\ Positions /\ Witnessed
        /\ Counted /\ Past /\ Owning
    BY DEF IInv
  <1>1. ColumnTypes'
    BY <1>0
       DEF ExecuteRaises, NativeTask, Delete, ColumnTypes, States, rowVars
  <1>2. CallTypes'
    <2>1. clock' \in 0..NRuns
      BY <1>0 DEF ExecuteRaises, CallTypes, rowVars
    <2>2. at' \in [Schedulers -> Places]
      BY <1>0 DEF ExecuteRaises, Go, CallTypes, rowVars, Places, WithRun
    <2>3. claims' \in [Schedulers -> 0..PassClaims]
      BY <1>0 DEF ExecuteRaises, CallTypes, rowVars, callVars
    <2>4. got' \in [Schedulers -> 0..NRuns]
      BY <1>0 DEF ExecuteRaises, CallTypes, rowVars, callVars
    <2>5. seen' \in [Schedulers -> States]
      BY <1>0 DEF ExecuteRaises, CallTypes, rowVars, callVars
    <2>6. beat' \in [Schedulers -> 0..HeartbeatEvery]
      BY <1>0 DEF ExecuteRaises, CallTypes, rowVars, callVars
    <2>7. triggered' \subseteq Runs /\ executed' \subseteq Runs
      BY <1>0 DEF ExecuteRaises, CallTypes, rowVars, effectVars
    <2>8. faults' \in 0..MaxFaults
      BY <1>0, BoundAssumption DEF ExecuteRaises, Fault, CallTypes, rowVars
    <2> QED  BY <2>1, <2>2, <2>3, <2>4, <2>5, <2>6, <2>7, <2>8 DEF CallTypes
  <1>3. Positions'
    BY <1>0 DEF ExecuteRaises, Go, Positions, WithRun, rowVars, callVars
  <1>4. Witnessed'
    BY <1>0
       DEF ExecuteRaises, NativeTask, Delete, Go, Witnessed, OutcomesTrue,
           CallTypes, rowVars, callVars, effectVars
  <1>5. Counted'
    <2>1. /\ UNCHANGED <<attempts, got, seen>>
          /\ \A r \in Runs : state'[r] \in {state[r], "deleted"}
          /\ \A r \in Runs : claimedBy'[r] \in {claimedBy[r], Nobody}
      BY DEF ExecuteRaises, NativeTask, Delete, rowVars, callVars
    <2>2. \A t \in Schedulers : got[t] # 0 => got[t] \in Runs /\ seen[t] # "deleted"
      BY <1>0 DEF Positions, CallTypes, Runs
    <2> QED
      BY <1>0, <2>1, <2>2, OwnerAssumption DEF Counted, AttemptsBounded, Held
  <1>6. Past'
    <2>1. /\ UNCHANGED clock
          /\ \A r \in Runs : state'[r] = "deleted" =>
                state[r] = "deleted" \/ r \in (1..clock) \ Current
      BY DEF ExecuteRaises, NativeTask, Delete, Deletable, rowVars
    <2> QED
      BY <1>0, <2>1 DEF Past, Current
  <1>7. Owning'
    <2>a. CASE UNCHANGED rowVars
      BY <1>0, <2>a DEF ExecuteRaises, Go, rowVars, callVars, Owning
    <2>b. CASE \E gone \in SUBSET Deletable : Delete(gone)
      <3>1. PICK gone \in SUBSET Deletable : Delete(gone)
        BY <2>b
      <3>2. \A r \in gone : lease[r] = 0
        BY DEF Deletable
      <3>3. \A r \in Runs : lease[r] > 0 =>
                state'[r] = state[r] /\ claimedBy'[r] = claimedBy[r]
        BY <3>1, <3>2 DEF Delete
      <3>4. UNCHANGED <<lease, got, seen, beat>>
        BY <3>1 DEF Delete, ExecuteRaises, callVars
      <3>5. \A t \in Schedulers : at'[t] = "work" => at[t] = "work"
        BY DEF ExecuteRaises, Go
      <3>6. \A t \in Schedulers : got[t] # 0 => got[t] \in Runs
        BY <1>0 DEF CallTypes, Runs
      <3> QED
        BY <1>0, <3>3, <3>4, <3>5, <3>6 DEF Owning
    <2> QED  BY <2>a, <2>b DEF ExecuteRaises, NativeTask
  <1> QED  BY <1>1, <1>2, <1>3, <1>4, <1>5, <1>6, <1>7 DEF IInv

LEMMA SettleRaisesStep ==
    ASSUME IInv, NEW s \in Schedulers, SettleRaises(s)
    PROVE  IInv'
  <1>0. /\ ColumnTypes /\ CallTypes /\ Positions /\ Witnessed
        /\ Counted /\ Past /\ Owning
    BY DEF IInv
  <1>1. ColumnTypes'
    BY <1>0 DEF SettleRaises, ColumnTypes, rowVars
  <1>2. CallTypes'
    <2>1. clock' \in 0..NRuns
      BY <1>0 DEF SettleRaises, Leave, CallTypes, rowVars
    <2>2. at' \in [Schedulers -> Places]
      BY <1>0 DEF SettleRaises, Leave, Go, CallTypes, rowVars, Places
    <2>3. claims' \in [Schedulers -> 0..PassClaims]
      BY <1>0 DEF SettleRaises, Leave, CallTypes, rowVars
    <2>4. got' \in [Schedulers -> 0..NRuns]
      BY <1>0, TaskAssumption DEF SettleRaises, Leave, CallTypes, rowVars
    <2>5. seen' \in [Schedulers -> States]
      BY <1>0 DEF SettleRaises, Leave, CallTypes, rowVars, States
    <2>6. beat' \in [Schedulers -> 0..HeartbeatEvery]
      BY <1>0, LeaseAssumption DEF SettleRaises, Leave, CallTypes, rowVars
    <2>7. triggered' \subseteq Runs /\ executed' \subseteq Runs
      BY <1>0 DEF SettleRaises, Leave, CallTypes, rowVars, effectVars
    <2>8. faults' \in 0..MaxFaults
      BY <1>0, BoundAssumption DEF SettleRaises, Fault, CallTypes, rowVars
    <2> QED  BY <2>1, <2>2, <2>3, <2>4, <2>5, <2>6, <2>7, <2>8 DEF CallTypes
  <1>3. Positions'
    BY <1>0
       DEF SettleRaises, Leave, Go, CallTypes, Positions, WithRun, rowVars
  <1>4. Witnessed'
    BY <1>0
       DEF SettleRaises, Leave, Go, Witnessed, OutcomesTrue, CallTypes,
           rowVars, effectVars
  <1>5. Counted'
    BY <1>0
       DEF SettleRaises, Leave, Counted, AttemptsBounded, Held, CallTypes,
           rowVars
  <1>6. Past'
    BY <1>0 DEF SettleRaises, Leave, Past, Current, rowVars
  <1>7. Owning'
    BY <1>0 DEF SettleRaises, Leave, Go, Owning, CallTypes, rowVars
  <1> QED  BY <1>1, <1>2, <1>3, <1>4, <1>5, <1>6, <1>7 DEF IInv

LEMMA CrashStep ==
    ASSUME IInv, NEW s \in Schedulers, Crash(s)
    PROVE  IInv'
  <1>0. /\ ColumnTypes /\ CallTypes /\ Positions /\ Witnessed
        /\ Counted /\ Past /\ Owning
    BY DEF IInv
  <1>1. ColumnTypes'
    BY <1>0 DEF Crash, ColumnTypes, rowVars
  <1>2. CallTypes'
    <2>1. clock' \in 0..NRuns
      BY <1>0 DEF Crash, CallTypes, rowVars
    <2>2. at' \in [Schedulers -> Places]
      BY <1>0 DEF Crash, Go, CallTypes, rowVars, Places
    <2>3. claims' \in [Schedulers -> 0..PassClaims]
      BY <1>0, BoundAssumption DEF Crash, CallTypes, rowVars
    <2>4. got' \in [Schedulers -> 0..NRuns]
      BY <1>0, TaskAssumption DEF Crash, CallTypes, rowVars
    <2>5. seen' \in [Schedulers -> States]
      BY <1>0 DEF Crash, CallTypes, rowVars, States
    <2>6. beat' \in [Schedulers -> 0..HeartbeatEvery]
      BY <1>0, LeaseAssumption DEF Crash, CallTypes, rowVars
    <2>7. triggered' \subseteq Runs /\ executed' \subseteq Runs
      BY <1>0 DEF Crash, CallTypes, rowVars, effectVars
    <2>8. faults' \in 0..MaxFaults
      BY <1>0, BoundAssumption DEF Crash, Fault, CallTypes, rowVars
    <2> QED  BY <2>1, <2>2, <2>3, <2>4, <2>5, <2>6, <2>7, <2>8 DEF CallTypes
  <1>3. Positions'
    BY <1>0 DEF Crash, Go, CallTypes, Positions, WithRun, rowVars
  <1>4. Witnessed'
    BY <1>0
       DEF Crash, Go, Witnessed, OutcomesTrue, CallTypes, rowVars, effectVars
  <1>5. Counted'
    BY <1>0, OwnerAssumption
       DEF Crash, Counted, AttemptsBounded, Held, CallTypes, Runs, rowVars
  <1>6. Past'
    BY <1>0 DEF Crash, Past, Current, rowVars
  <1>7. Owning'
    BY <1>0 DEF Crash, Go, Owning, CallTypes, Runs, rowVars
  <1> QED  BY <1>1, <1>2, <1>3, <1>4, <1>5, <1>6, <1>7 DEF IInv

LEMMA NextBucketStep ==
    ASSUME IInv, NextBucket
    PROVE  IInv'
  <1>0. /\ ColumnTypes /\ CallTypes /\ Positions /\ Witnessed
        /\ Counted /\ Past /\ Owning
    BY DEF IInv
  <1>1. ColumnTypes'
    BY <1>0 DEF NextBucket, ColumnTypes, rowVars
  <1>2. CallTypes'
    BY <1>0, TaskAssumption
       DEF NextBucket, CallTypes, rowVars, callVars, effectVars
  <1>3. Positions'
    BY <1>0 DEF NextBucket, Positions, rowVars, callVars
  <1>4. Witnessed'
    BY <1>0
       DEF NextBucket, Witnessed, OutcomesTrue, rowVars, callVars, effectVars
  <1>5. Counted'
    BY <1>0 DEF NextBucket, Counted, AttemptsBounded, Held, rowVars, callVars
  <1>6. Past'
    BY <1>0 DEF NextBucket, Past, CallTypes, Current, rowVars
  <1>7. Owning'
    BY <1>0 DEF NextBucket, Owning, rowVars, callVars
  <1> QED  BY <1>1, <1>2, <1>3, <1>4, <1>5, <1>6, <1>7 DEF IInv

LEMMA TickStep ==
    ASSUME IInv, Tick
    PROVE  IInv'
  <1>0. /\ ColumnTypes /\ CallTypes /\ Positions /\ Witnessed
        /\ Counted /\ Past /\ Owning
    BY DEF IInv
  <1>1. ColumnTypes'
    BY <1>0 DEF Tick, ColumnTypes, rowVars
  <1>2. CallTypes'
    <2>1. beat' \in [Schedulers -> 0..HeartbeatEvery]
      BY <1>0, LeaseAssumption DEF Tick, MayWait, CallTypes
    <2> QED
      BY <1>0, <2>1 DEF Tick, CallTypes, Places, effectVars
  <1>3. Positions'
    BY <1>0 DEF Tick, Positions, WithRun, rowVars
  <1>4. Witnessed'
    BY <1>0 DEF Tick, Witnessed, OutcomesTrue, rowVars, effectVars
  <1>5. Counted'
    BY <1>0 DEF Tick, Counted, AttemptsBounded, Held, rowVars
  <1>6. Past'
    BY <1>0 DEF Tick, Past, Current, rowVars
  <1>7. Owning'
    <2> SUFFICES ASSUME Punctual, NEW t \in Schedulers, got'[t] # 0
                 PROVE  /\ claimedBy'[got'[t]] = t
                        /\ state'[got'[t]] = seen'[t]
                        /\ lease'[got'[t]] > 0
                        /\ at'[t] = "work" => lease'[got'[t]] + beat'[t] = NativeLease
      BY DEF Owning
    <2>1. got[t] \in Runs /\ got' = got /\ seen' = seen /\ state' = state /\ claimedBy' = claimedBy
      BY <1>0 DEF Tick, CallTypes, Runs
    <2>2. at[t] = "work" /\ beat[t] < HeartbeatEvery
      BY <1>0 DEF Tick, MayWait, Positions, WithRun
    <2>3. beat'[t] = beat[t] + 1 /\ lease'[got[t]] = lease[got[t]] - 1
      BY <1>0, <2>1, <2>2 DEF Tick, Owning
    <2>5. beat[t] \in Nat /\ lease[got[t]] \in Nat /\ HeartbeatEvery < NativeLease /\ HeartbeatEvery \in Nat /\ NativeLease \in Nat
      BY <1>0, <2>1, LeaseAssumption DEF CallTypes, ColumnTypes
    <2> QED
      BY <1>0, <2>1, <2>2, <2>3, <2>5 DEF Owning
  <1> QED  BY <1>1, <1>2, <1>3, <1>4, <1>5, <1>6, <1>7 DEF IInv
-----------------------------------------------------------------------------
\* Every step preserves the inductive invariant.
LEMMA Step == IInv /\ [Next]_vars => IInv'
  <1> SUFFICES ASSUME IInv, [Next]_vars
               PROVE  IInv'
    OBVIOUS
  <1>1. ASSUME NEW s \in Schedulers, PassStep(s)
        PROVE  IInv'
    BY <1>1, MaterializeStep, ClaimStep, EndPassStep DEF PassStep
  <1>2. ASSUME NEW s \in Schedulers, RunStep(s)
        PROVE  IInv'
    BY <1>2, PublishStep, AnnounceStep, ExtendStep, HeartbeatStep,
       ExecuteStep, CompleteStep, FailStep
       DEF RunStep
  <1>3. ASSUME NEW s \in Schedulers, FaultStep(s)
        PROVE  IInv'
    BY <1>3, ClaimRaisesStep, PublishRaisesStep, ExtendRaisesStep,
       ExecuteRaisesStep, SettleRaisesStep, CrashStep
       DEF FaultStep
  <1>4. CASE NextBucket
    BY <1>4, NextBucketStep
  <1>5. CASE Tick
    BY <1>5, TickStep
  <1>6. CASE UNCHANGED vars
    BY <1>6
       DEF vars, rowVars, callVars, effectVars, IInv, ColumnTypes, CallTypes,
           Positions, Witnessed, OutcomesTrue, Counted, AttemptsBounded, Held,
           Past, Current, Owning
  <1> QED  BY <1>1, <1>2, <1>3, <1>4, <1>5, <1>6 DEF Next

THEOREM Invariance == Spec => []IInv
  <1>1. Init => IInv
    BY Initially
  <1>2. IInv /\ [Next]_vars => IInv'
    BY Step
  <1> QED  BY <1>1, <1>2, PTL DEF Spec

\* Every variable keeps its type, and whoever is at a run has claimed one.
THEOREM Typed == Spec => []TypeOK
  <1>1. IInv => TypeOK
    BY DEF IInv, Positions, TypeOK
  <1> QED  BY <1>1, Invariance, PTL

\* A row says "published" or "completed" only when its trigger is on the
\* stream or its task came to its end, however late the writer is.
THEOREM Truthful == Spec => []OutcomesTrue
  <1>1. IInv => OutcomesTrue
    BY DEF IInv, Witnessed
  <1> QED  BY <1>1, Invariance, PTL

\* No row counts more than one attempt above MAX_TASK_ATTEMPTS, and none that
\* waits or is published counts more than that.
THEOREM Bounded == Spec => []AttemptsBounded
  <1>1. IInv => AttemptsBounded
    BY DEF IInv, Counted
  <1> QED  BY <1>1, Invariance, PTL

\* As long as only native executions take time, the heartbeat keeps every
\* second replica out of a native task, whatever crashes or fails.
THEOREM Exclusive == Spec => [](Punctual => NativeExclusive)
  <1>1. IInv => (Punctual => NativeExclusive)
    BY DEF IInv, Owning, Positions, WithRun, NativeExclusive
  <1> QED  BY <1>1, Invariance, PTL

-----------------------------------------------------------------------------
\* The change a step makes to the state of a row is made by its claimer, or
\* is the deletion of a settled row; nobody takes a completed row.
DecidedByClaimer ==
    \A r \in Runs :
        state[r] # "none" /\ state'[r] # state[r] =>
           \/ state'[r] = "deleted" /\ lease[r] = 0
           \/ \E s \in Schedulers :
                 claimedBy[r] = s /\ got[s] = r /\ claimedBy'[r] = Nobody

FinalStep ==
    \A r \in Runs :
        state[r] \in {"completed", "deleted"} =>
           /\ state'[r] \in {state[r], "deleted"}
           /\ \A s \in Schedulers : got'[s] = r => got[s] = r

\* What a scheduler writes at the end of a run.
LEMMA SettleDecides ==
    ASSUME IInv, NEW s \in Schedulers, NEW outcome, NEW count, NEW ticks,
           at[s] \in {"announce", "complete", "fail"},
           Settle(s, outcome, count, ticks), Leave(s)
    PROVE  DecidedByClaimer /\ FinalStep
  <1>1. /\ got[s] \in Runs /\ seen[s] \in {"pending", "published", "failed"}
        /\ ColumnTypes
    BY DEF IInv, Positions, WithRun, CallTypes, Runs
  <1>2. \A t \in Schedulers : got'[t] \in {0, got[t]}
    BY DEF Leave
  <1>3. CASE Fenced(s)
    BY <1>1, <1>2, <1>3
       DEF Settle, Fenced, DecidedByClaimer, FinalStep, ColumnTypes, Runs
  <1>4. CASE ~Fenced(s)
    BY <1>2, <1>4 DEF Settle, rowVars, DecidedByClaimer, FinalStep, Runs
  <1> QED  BY <1>3, <1>4

\* The clean-up inside a native task.
LEMMA DeletionDecides ==
    ASSUME IInv, NEW s \in Schedulers, NativeTask(s), UNCHANGED got
    PROVE  DecidedByClaimer /\ FinalStep
  BY DEF NativeTask, Delete, Deletable, rowVars, DecidedByClaimer, FinalStep

\* A step that leaves the states alone and takes no settled row.
LEMMA StateKept ==
    ASSUME UNCHANGED state,
           \A r \in Runs, s \in Schedulers :
              got'[s] = r => got[s] = r \/ state[r] \notin {"completed", "deleted"}
    PROVE  DecidedByClaimer /\ FinalStep
  BY DEF DecidedByClaimer, FinalStep

LEMMA StepDecides == IInv /\ [Next]_vars => DecidedByClaimer /\ FinalStep
  <1> SUFFICES ASSUME IInv, [Next]_vars
               PROVE  DecidedByClaimer /\ FinalStep
    OBVIOUS
  <1>1. ASSUME NEW s \in Schedulers, Materialize(s)
        PROVE  DecidedByClaimer /\ FinalStep
    <2>1. \A r \in Runs : state[r] = "deleted" => r \notin Current
      BY DEF IInv, Past
    <2>2. \A r \in Runs : state[r] # "none" => state'[r] = state[r]
      BY <1>1, <2>1 DEF Materialize, Insert, Missing
    <2> QED
      BY <1>1, <2>2 DEF Materialize, DecidedByClaimer, FinalStep
  <1>2. ASSUME NEW s \in Schedulers, Claim(s)
        PROVE  DecidedByClaimer /\ FinalStep
    <2>1. UNCHANGED state
      BY <1>2 DEF Claim, Take
    <2>2. PICK q \in Runs : q \in Claimable /\ got' = [got EXCEPT ![s] = q]
      BY <1>2 DEF Claim, Oldest
    <2>3. state[q] \notin {"completed", "deleted"}
      BY <2>2 DEF Claimable
    <2> QED
      BY <2>1, <2>2, <2>3, StateKept
  <1>3. ASSUME NEW s \in Schedulers,
               EndPass(s) \/ ClaimRaises(s) \/ Publish(s) \/ PublishRaises(s)
               \/ Extend(s) \/ Heartbeat(s) \/ ExtendRaises(s)
        PROVE  DecidedByClaimer /\ FinalStep
    <2>1. UNCHANGED <<state, got>>
      BY <1>3
         DEF EndPass, ClaimRaises, Take, Publish, PublishRaises, Extend,
             Heartbeat, ExtendRaises, ExtendLease, LosesLease, rowVars,
             callVars
    <2> QED  BY <2>1, StateKept
  <1>4. ASSUME NEW s \in Schedulers, SettleRaises(s) \/ Crash(s)
        PROVE  DecidedByClaimer /\ FinalStep
    <2>1. UNCHANGED state /\ got' = [got EXCEPT ![s] = 0]
      BY <1>4 DEF SettleRaises, Leave, Crash, rowVars
    <2> QED  BY <2>1, StateKept DEF IInv, CallTypes, Runs
  <1>5. ASSUME NEW s \in Schedulers, Announce(s) \/ Complete(s) \/ Fail(s)
        PROVE  DecidedByClaimer /\ FinalStep
    BY <1>5, SettleDecides DEF Announce, Complete, Fail
  <1>6. ASSUME NEW s \in Schedulers, Execute(s) \/ ExecuteRaises(s)
        PROVE  DecidedByClaimer /\ FinalStep
    BY <1>6, DeletionDecides DEF Execute, ExecuteRaises, callVars
  <1>7. CASE NextBucket \/ Tick \/ UNCHANGED vars
    <2>1. UNCHANGED <<state, got>>
      BY <1>7 DEF NextBucket, Tick, vars, rowVars, callVars
    <2> QED  BY <2>1, StateKept
  <1> QED
    BY <1>1, <1>2, <1>3, <1>4, <1>5, <1>6, <1>7
       DEF Next, PassStep, RunStep, FaultStep

\* The state of a row is decided by the scheduler that claimed it last, also
\* when that scheduler is long past its lease.
THEOREM Decided == Spec => OnlyClaimerDecides
  <1>1. IInv /\ [Next]_vars =>
          [\A r \in Runs :
             state[r] # "none" /\ state'[r] # state[r] =>
                \/ state'[r] = "deleted" /\ lease[r] = 0
                \/ \E s \in Schedulers :
                      claimedBy[r] = s /\ got[s] = r /\ claimedBy'[r] = Nobody]_vars
    BY StepDecides DEF DecidedByClaimer
  <1> QED  BY <1>1, Invariance, PTL DEF Spec, OnlyClaimerDecides

\* A completed row stays so until it is deleted, and is not claimed again.
THEOREM Final == Spec => CompletedIsFinal
  <1>1. IInv /\ [Next]_vars =>
          [\A r \in Runs :
             state[r] \in {"completed", "deleted"} =>
                /\ state'[r] \in {state[r], "deleted"}
                /\ \A s \in Schedulers : got'[s] = r => got[s] = r]_vars
    BY StepDecides DEF FinalStep
  <1> QED  BY <1>1, Invariance, PTL DEF Spec, CompletedIsFinal

=============================================================================
