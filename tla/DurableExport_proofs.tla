------------------------- MODULE DurableExport_proofs -------------------------
(***************************************************************************)
(* Theorems about DurableExport, for any number of workers, removals,      *)
(* attempts and faults.                                                    *)
(***************************************************************************)
EXTENDS DurableExport, TLAPS

-----------------------------------------------------------------------------
(* The inductive invariant.                                                *)

\* Workers and removals keep to their own parts.
PlacesInv ==
    /\ \A w \in Workers : at[w] \notin {"unlink", "delete"}
    /\ \A r \in Removers :
          /\ at[r] \in {"idle", "unlink", "delete"}
          /\ at[r] = "unlink" => held[r] # NoKey

\* What a worker at work deletes belongs to its own or an earlier attempt.
HeldInv(w) ==
    /\ at[w] \in {"clean", "clear"} => held[w] # NoKey /\ held[w][1] < num[w]
    /\ at[w] = "render" => held[w] = NoKey
    /\ at[w] \in {"plan", "renew", "store", "finish", "discard"} =>
          held[w] = <<num[w], w>>
    /\ at[w] \in {"abort", "record"} =>
          held[w][1] < num[w] \/ held[w] = <<num[w], w>>

WorkInv ==
    \A w \in Workers :
        at[w] \in AtWork =>
            /\ num[w] \in 1..attempts
            /\ owner = w => num[w] = attempts
            /\ HeldInv(w)

\* The pointer is as old as the attempt that wrote it.
KeyInv ==
    /\ key[1] <= attempts
    /\ status = "completed" => key # NoKey /\ key[1] = attempts
    /\ status = "none" => attempts = 0

\* A sweep is only at work when there is nothing left to win.
SweepersInv ==
    \A w \in Workers :
        at[w] \in {"drop", "mark", "defer"} =>
            status \in {"failed", "expired", "deleted"} \/ (status = "completed" /\ old)

\* A worker that still may complete the job has its artifact in the store.
StoredInv ==
    \A w \in Workers :
        at[w] = "finish" /\ owner = w => held[w] \in objects \cup asked

\* When answers are not lost, a worker that lost the current attempt knows
\* that this attempt did not complete the job.
LostInv ==
    "unheard" \notin Faults =>
        \A w \in Workers :
            at[w] \in AtWork /\ owner # w /\ num[w] = attempts =>
                status \in {"retry_scheduled", "failed", "deleted"}

ReadyInv == "unheard" \notin Faults => ReadyIsDownloadable

Inv ==
    /\ TypeOK
    /\ PlacesInv
    /\ WorkInv
    /\ KeyInv
    /\ SweepersInv
    /\ StoredInv
    /\ LostInv
    /\ ReadyInv

LEMMA KeyFacts ==
    /\ NoKey[1] = 0 /\ NoKey \notin ObjectKeys
    /\ \A k \in ObjectKeys : k[1] \in 1..MaxAttempts
    /\ \A n \in 1..MaxAttempts, w \in Workers :
          <<n, w>> \in ObjectKeys /\ <<n, w>>[1] = n /\ <<n, w>> # NoKey
BY DEF NoKey, ObjectKeys

LEMMA CreateInv ==
    ASSUME Inv, Create
    PROVE  Inv'
<1>1. TypeOK'
  BY AttemptAssumption
     DEF Inv, Create, rowVars, callVars, TypeOK, ColumnTypes, Statuses,
         Waiting, KeyInv
<1>2. PlacesInv'
  BY DEF Inv, Create, rowVars, callVars, PlacesInv
<1>3. WorkInv'
  BY DEF Inv, Create, rowVars, callVars, WorkInv, HeldInv
<1>4. KeyInv'
  BY DEF Inv, Create, rowVars, KeyInv
<1>5. SweepersInv'
  BY DEF Inv, Create, rowVars, SweepersInv
<1>6. StoredInv'
  BY DEF Inv, Create, rowVars, callVars, StoredInv
<1>7. LostInv'
  BY DEF Inv, Create, rowVars, callVars, LostInv
<1>8. ReadyInv'
  BY DEF Create, rowVars, ReadyInv, ReadyIsDownloadable
<1>. QED
  BY <1>1, <1>2, <1>3, <1>4, <1>5, <1>6, <1>7, <1>8 DEF Inv

LEMMA StartTickInv ==
    ASSUME Inv, NEW w \in Workers, StartTick(w)
    PROVE  Inv'
<1>1. TypeOK'
  BY AttemptAssumption
     DEF Inv, StartTick, AfterFailure, rowVars, callVars, Go, TypeOK,
         ColumnTypes, Statuses, Waiting, Actors, Places
<1>2. PlacesInv'
  BY ActorAssumption DEF Inv, StartTick, rowVars, callVars, Go, PlacesInv
<1>3. WorkInv'
  BY ActorAssumption
     DEF Inv, StartTick, rowVars, callVars, Go, WorkInv, HeldInv, AtWork,
         Actors
<1>4. KeyInv'
  BY DEF Inv, StartTick, AfterFailure, rowVars, KeyInv
<1>5. SweepersInv'
  BY DEF Inv, StartTick, rowVars, Go, SweepersInv
<1>6. StoredInv'
  BY ActorAssumption
     DEF Inv, StartTick, rowVars, callVars, Go, StoredInv, Actors
<1>7. LostInv'
  BY DEF Inv, StartTick, AfterFailure, rowVars, callVars, Go, LostInv, AtWork
<1>8. ReadyInv'
  BY DEF Inv, StartTick, AfterFailure, rowVars, ReadyInv, ReadyIsDownloadable
<1>. QED
  BY <1>1, <1>2, <1>3, <1>4, <1>5, <1>6, <1>7, <1>8 DEF Inv

LEMMA ClaimInv ==
    ASSUME Inv, NEW w \in Workers, Claim(w)
    PROVE  Inv'
<1>1. TypeOK'
  <2>1. status' \in Statuses \cup {"none", "deleted"} /\ owner' \in Workers \cup {Nobody}
    BY DEF Claim, rowVars, Statuses
  <2>2. attempts' \in 0..MaxAttempts /\ faults' \in 0..MaxFaults
    BY AttemptAssumption
       DEF Inv, Claim, Claimable, rowVars, TypeOK, ColumnTypes
  <2>3. key' \in ObjectKeys \cup {NoKey}
    BY DEF Inv, Claim, rowVars, TypeOK, ColumnTypes
  <2>4. ripe' \in BOOLEAN /\ old' \in BOOLEAN
    BY DEF Inv, Claim, rowVars, TypeOK, ColumnTypes
  <2>5. objects' \subseteq ObjectKeys /\ asked' \subseteq ObjectKeys
    BY DEF Inv, Claim, rowVars, TypeOK, ColumnTypes
  <2>6. at' \in [Actors -> Places]
    BY DEF Inv, Claim, rowVars, Go, TypeOK, ColumnTypes, Places, AtWork,
           Actors
  <2>7. /\ num' \in [Actors -> 0..MaxAttempts]
        /\ held' \in [Actors -> ObjectKeys \cup {NoKey}]
        /\ cleaned' \in [Actors -> BOOLEAN]
        /\ found' \in [Actors -> Statuses \cup {"none"}]
    BY AttemptAssumption
       DEF Inv, Claim, Claimable, rowVars, Holding, TypeOK, ColumnTypes,
           Actors
  <2>8. /\ (status' = "running") <=> (owner' # Nobody)
        /\ status' \in Waiting => attempts' < MaxAttempts
    BY ActorAssumption DEF Claim, Waiting, rowVars, Actors
  <2>. QED
    BY <2>1, <2>2, <2>3, <2>4, <2>5, <2>6, <2>7, <2>8 DEF TypeOK, ColumnTypes
<1>2. PlacesInv'
  BY DEF Inv, Claim, rowVars, Go, Holding, PlacesInv
<1>3. WorkInv'
  BY KeyFacts
     DEF Inv, Claim, rowVars, Go, Holding, TypeOK, ColumnTypes, WorkInv,
         HeldInv, KeyInv, AtWork
<1>4. KeyInv'
  BY KeyFacts DEF Inv, Claim, rowVars, TypeOK, ColumnTypes, KeyInv
<1>5. SweepersInv'
  BY DEF Inv, Claim, Claimable, Waiting, rowVars, Go, SweepersInv
<1>6. StoredInv'
  BY DEF Claim, rowVars, Go, StoredInv
<1>7. LostInv'
  BY DEF Inv, Claim, rowVars, Go, TypeOK, ColumnTypes, LostInv, WorkInv
<1>8. ReadyInv'
  BY DEF Claim, rowVars, ReadyInv, ReadyIsDownloadable
<1>. QED
  BY <1>1, <1>2, <1>3, <1>4, <1>5, <1>6, <1>7, <1>8 DEF Inv

LEMMA EndClaimsInv ==
    ASSUME Inv, NEW w \in Workers, EndClaims(w)
    PROVE  Inv'
<1>1. TypeOK'
  BY DEF Inv, EndClaims, rowVars, callVars, Go, TypeOK, ColumnTypes, Actors,
         Places
<1>2. PlacesInv'
  BY DEF Inv, EndClaims, rowVars, callVars, Go, PlacesInv
<1>3. WorkInv'
  BY DEF Inv, EndClaims, rowVars, callVars, Go, WorkInv, HeldInv, AtWork
<1>4. KeyInv'
  BY DEF Inv, EndClaims, rowVars, KeyInv
<1>5. SweepersInv'
  BY DEF Inv, EndClaims, rowVars, Go, SweepersInv
<1>6. StoredInv'
  BY DEF Inv, EndClaims, rowVars, callVars, Go, StoredInv
<1>7. LostInv'
  BY DEF Inv, EndClaims, rowVars, callVars, Go, LostInv, AtWork
<1>8. ReadyInv'
  BY DEF Inv, EndClaims, rowVars, ReadyInv, ReadyIsDownloadable
<1>. QED
  BY <1>1, <1>2, <1>3, <1>4, <1>5, <1>6, <1>7, <1>8 DEF Inv

LEMMA SweepInv ==
    ASSUME Inv, NEW w \in Workers, Sweep(w)
    PROVE  Inv'
<1>1. TypeOK'
  BY DEF Inv, Sweep, Sweepable, rowVars, Go, Holding, TypeOK, ColumnTypes,
         Places
<1>2. PlacesInv'
  BY DEF Inv, Sweep, rowVars, Go, Holding, TypeOK, ColumnTypes, PlacesInv,
         Actors
<1>3. WorkInv'
  BY DEF Inv, Sweep, rowVars, Go, Holding, TypeOK, ColumnTypes, WorkInv,
         HeldInv, AtWork, Actors
<1>4. KeyInv'
  BY DEF Inv, Sweep, rowVars, KeyInv
<1>5. SweepersInv'
  BY DEF Inv, Sweep, Sweepable, rowVars, Go, TypeOK, ColumnTypes, SweepersInv,
         Actors
<1>6. StoredInv'
  BY ActorAssumption
     DEF Inv, Sweep, Sweepable, rowVars, Go, TypeOK, ColumnTypes, StoredInv,
         Actors
<1>7. LostInv'
  BY DEF Inv, Sweep, rowVars, Go, TypeOK, ColumnTypes, LostInv, AtWork, Actors
<1>8. ReadyInv'
  BY DEF Inv, Sweep, rowVars, ReadyInv, ReadyIsDownloadable
<1>. QED
  BY <1>1, <1>2, <1>3, <1>4, <1>5, <1>6, <1>7, <1>8 DEF Inv

LEMMA DropInv ==
    ASSUME Inv, NEW w \in Workers, Drop(w)
    PROVE  Inv'
<1>1. TypeOK'
  BY DEF Inv, Drop, rowVars, callVars, Go, TypeOK, ColumnTypes, Actors, Places
<1>2. PlacesInv'
  BY DEF Inv, Drop, rowVars, callVars, Go, PlacesInv
<1>3. WorkInv'
  BY DEF Inv, Drop, rowVars, callVars, Go, WorkInv, HeldInv, AtWork
<1>4. KeyInv'
  BY DEF Inv, Drop, rowVars, KeyInv
<1>5. SweepersInv'
  BY DEF Inv, Drop, rowVars, SweepersInv
<1>6. StoredInv'
  BY ActorAssumption
     DEF Inv, Drop, rowVars, TypeOK, StoredInv, SweepersInv, Actors
<1>7. LostInv'
  BY DEF Inv, Drop, rowVars, callVars, Go, LostInv, AtWork
<1>8. ReadyInv'
  BY DEF Inv, Drop, rowVars, ReadyInv, ReadyIsDownloadable, SweepersInv
<1>. QED
  BY <1>1, <1>2, <1>3, <1>4, <1>5, <1>6, <1>7, <1>8 DEF Inv

LEMMA MarkInv ==
    ASSUME Inv, NEW w \in Workers, Mark(w)
    PROVE  Inv'
<1>1. TypeOK'
  BY DEF Inv, Mark, rowVars, callVars, Go, TypeOK, ColumnTypes, Statuses,
         Waiting, Actors, Places
<1>2. PlacesInv'
  BY DEF Inv, Mark, rowVars, callVars, Go, PlacesInv
<1>3. WorkInv'
  BY DEF Inv, Mark, rowVars, callVars, Go, WorkInv, HeldInv, AtWork
<1>4. KeyInv'
  BY KeyFacts DEF Inv, Mark, rowVars, TypeOK, ColumnTypes, KeyInv
<1>5. SweepersInv'
  BY DEF Inv, Mark, rowVars, SweepersInv
<1>6. StoredInv'
  BY DEF Inv, Mark, rowVars, callVars, Go, StoredInv
<1>7. LostInv'
  BY DEF Inv, Mark, rowVars, callVars, Go, LostInv, AtWork
<1>8. ReadyInv'
  BY DEF Inv, Mark, rowVars, ReadyInv, ReadyIsDownloadable
<1>. QED
  BY <1>1, <1>2, <1>3, <1>4, <1>5, <1>6, <1>7, <1>8 DEF Inv

LEMMA DeferInv ==
    ASSUME Inv, NEW w \in Workers, Defer(w)
    PROVE  Inv'
<1>1. TypeOK'
  BY DEF Inv, Defer, rowVars, callVars, Go, TypeOK, ColumnTypes, Actors,
         Places
<1>2. PlacesInv'
  BY DEF Inv, Defer, rowVars, callVars, Go, PlacesInv
<1>3. WorkInv'
  BY DEF Inv, Defer, rowVars, callVars, Go, WorkInv, HeldInv, AtWork
<1>4. KeyInv'
  BY DEF Inv, Defer, rowVars, KeyInv
<1>5. SweepersInv'
  BY DEF Inv, Defer, rowVars, SweepersInv
<1>6. StoredInv'
  BY DEF Inv, Defer, rowVars, callVars, Go, StoredInv
<1>7. LostInv'
  BY DEF Inv, Defer, rowVars, callVars, Go, LostInv, AtWork
<1>8. ReadyInv'
  BY DEF Inv, Defer, rowVars, ReadyInv, ReadyIsDownloadable
<1>. QED
  BY <1>1, <1>2, <1>3, <1>4, <1>5, <1>6, <1>7, <1>8 DEF Inv

LEMMA CleanStaleInv ==
    ASSUME Inv, NEW w \in Workers, CleanStale(w)
    PROVE  Inv'
<1>1. TypeOK'
  BY DEF Inv, CleanStale, rowVars, callVars, Go, TypeOK, ColumnTypes, Actors,
         AtWork, Places
<1>2. PlacesInv'
  BY DEF Inv, CleanStale, rowVars, callVars, Go, PlacesInv
<1>3. WorkInv'
  BY DEF Inv, CleanStale, rowVars, callVars, Go, WorkInv, HeldInv, AtWork
<1>4. KeyInv'
  BY DEF Inv, CleanStale, rowVars, KeyInv
<1>5. SweepersInv'
  BY DEF Inv, CleanStale, rowVars, Go, SweepersInv
<1>6. StoredInv'
  BY DEF Inv, CleanStale, rowVars, callVars, Go, StoredInv, WorkInv, HeldInv,
         AtWork
<1>7. LostInv'
  BY DEF Inv, CleanStale, rowVars, callVars, Go, LostInv, AtWork
<1>8. ReadyInv'
  BY DEF Inv, CleanStale, rowVars, TypeOK, ColumnTypes, ReadyInv,
         ReadyIsDownloadable, KeyInv, WorkInv, HeldInv, AtWork
<1>. QED
  BY <1>1, <1>2, <1>3, <1>4, <1>5, <1>6, <1>7, <1>8 DEF Inv

LEMMA ClearPointerInv ==
    ASSUME Inv, NEW w \in Workers, ClearPointer(w)
    PROVE  Inv'
<1>1. TypeOK'
  BY DEF Inv, ClearPointer, rowVars, Go, Holding, TypeOK, ColumnTypes, AtWork,
         Places
<1>2. PlacesInv'
  BY DEF Inv, ClearPointer, rowVars, Go, Holding, TypeOK, ColumnTypes,
         PlacesInv, Actors
<1>3. WorkInv'
  BY DEF Inv, ClearPointer, rowVars, Go, Holding, TypeOK, ColumnTypes,
         WorkInv, HeldInv, AtWork, Actors
<1>4. KeyInv'
  BY KeyFacts
     DEF Inv, ClearPointer, Fenced, rowVars, KeyInv, WorkInv, HeldInv, AtWork
<1>5. SweepersInv'
  BY DEF Inv, ClearPointer, rowVars, Go, TypeOK, ColumnTypes, SweepersInv,
         Actors
<1>6. StoredInv'
  BY DEF Inv, ClearPointer, Fenced, rowVars, Go, TypeOK, ColumnTypes,
         StoredInv, Actors
<1>7. LostInv'
  BY DEF Inv, ClearPointer, rowVars, Go, TypeOK, ColumnTypes, LostInv, AtWork,
         Actors
<1>8. ReadyInv'
  BY DEF Inv, ClearPointer, Fenced, rowVars, ReadyInv, ReadyIsDownloadable,
         KeyInv, WorkInv, HeldInv, AtWork
<1>. QED
  BY <1>1, <1>2, <1>3, <1>4, <1>5, <1>6, <1>7, <1>8 DEF Inv

LEMMA RenderInv ==
    ASSUME Inv, NEW w \in Workers, Render(w)
    PROVE  Inv'
<1>1. TypeOK'
  BY KeyFacts
     DEF Inv, Render, ArtifactKey, rowVars, Go, Holding, TypeOK, ColumnTypes,
         Actors, WorkInv, AtWork, Places
<1>2. PlacesInv'
  BY DEF Inv, Render, rowVars, Go, Holding, PlacesInv
<1>3. WorkInv'
  BY DEF Inv, Render, ArtifactKey, rowVars, Go, Holding, TypeOK, ColumnTypes,
         WorkInv, HeldInv, AtWork
<1>4. KeyInv'
  BY DEF Inv, Render, rowVars, KeyInv
<1>5. SweepersInv'
  BY DEF Inv, Render, rowVars, Go, SweepersInv
<1>6. StoredInv'
  BY DEF Inv, Render, rowVars, Go, Holding, StoredInv
<1>7. LostInv'
  BY DEF Inv, Render, rowVars, Go, LostInv, AtWork
<1>8. ReadyInv'
  BY DEF Inv, Render, rowVars, ReadyInv, ReadyIsDownloadable
<1>. QED
  BY <1>1, <1>2, <1>3, <1>4, <1>5, <1>6, <1>7, <1>8 DEF Inv

LEMMA PlanKeyInv ==
    ASSUME Inv, NEW w \in Workers, PlanKey(w)
    PROVE  Inv'
<1>1. TypeOK'
  BY DEF Inv, PlanKey, rowVars, callVars, Go, TypeOK, ColumnTypes, Actors,
         AtWork, Places
<1>2. PlacesInv'
  BY DEF Inv, PlanKey, rowVars, callVars, Go, PlacesInv
<1>3. WorkInv'
  BY DEF Inv, PlanKey, rowVars, callVars, Go, WorkInv, HeldInv, AtWork
<1>4. KeyInv'
  BY KeyFacts
     DEF Inv, PlanKey, Fenced, rowVars, KeyInv, WorkInv, HeldInv, AtWork
<1>5. SweepersInv'
  BY DEF Inv, PlanKey, rowVars, Go, SweepersInv
<1>6. StoredInv'
  BY DEF Inv, PlanKey, rowVars, callVars, Go, StoredInv
<1>7. LostInv'
  BY DEF Inv, PlanKey, rowVars, callVars, Go, LostInv, AtWork
<1>8. ReadyInv'
  BY ActorAssumption
     DEF Inv, PlanKey, Fenced, rowVars, TypeOK, ReadyInv, ReadyIsDownloadable,
         Actors
<1>. QED
  BY <1>1, <1>2, <1>3, <1>4, <1>5, <1>6, <1>7, <1>8 DEF Inv

LEMMA RenewLeaseInv ==
    ASSUME Inv, NEW w \in Workers, RenewLease(w)
    PROVE  Inv'
<1>1. TypeOK'
  BY DEF Inv, RenewLease, rowVars, callVars, Go, TypeOK, ColumnTypes, Actors,
         AtWork, Places
<1>2. PlacesInv'
  BY DEF Inv, RenewLease, rowVars, callVars, Go, PlacesInv
<1>3. WorkInv'
  BY DEF Inv, RenewLease, rowVars, callVars, Go, WorkInv, HeldInv, AtWork
<1>4. KeyInv'
  BY DEF Inv, RenewLease, rowVars, KeyInv
<1>5. SweepersInv'
  BY DEF Inv, RenewLease, rowVars, Go, SweepersInv
<1>6. StoredInv'
  BY DEF Inv, RenewLease, rowVars, callVars, Go, StoredInv
<1>7. LostInv'
  BY DEF Inv, RenewLease, rowVars, callVars, Go, LostInv, AtWork
<1>8. ReadyInv'
  BY DEF Inv, RenewLease, rowVars, ReadyInv, ReadyIsDownloadable
<1>. QED
  BY <1>1, <1>2, <1>3, <1>4, <1>5, <1>6, <1>7, <1>8 DEF Inv

LEMMA StoreArtifactInv ==
    ASSUME Inv, NEW w \in Workers, StoreArtifact(w)
    PROVE  Inv'
<1>1. TypeOK'
  BY KeyFacts
     DEF Inv, StoreArtifact, rowVars, callVars, Go, TypeOK, ColumnTypes,
         Actors, WorkInv, HeldInv, AtWork, Places
<1>2. PlacesInv'
  BY DEF Inv, StoreArtifact, rowVars, callVars, Go, PlacesInv
<1>3. WorkInv'
  BY DEF Inv, StoreArtifact, rowVars, callVars, Go, WorkInv, HeldInv, AtWork
<1>4. KeyInv'
  BY DEF Inv, StoreArtifact, rowVars, KeyInv
<1>5. SweepersInv'
  BY DEF Inv, StoreArtifact, rowVars, Go, SweepersInv
<1>6. StoredInv'
  BY DEF Inv, StoreArtifact, rowVars, callVars, Go, StoredInv
<1>7. LostInv'
  BY DEF Inv, StoreArtifact, rowVars, callVars, Go, LostInv, AtWork
<1>8. ReadyInv'
  BY DEF Inv, StoreArtifact, rowVars, ReadyInv, ReadyIsDownloadable
<1>. QED
  BY <1>1, <1>2, <1>3, <1>4, <1>5, <1>6, <1>7, <1>8 DEF Inv

LEMMA FinishInv ==
    ASSUME Inv, NEW w \in Workers, Finish(w)
    PROVE  Inv'
<1>1. TypeOK'
  <2>1. status' \in Statuses \cup {"none", "deleted"} /\ owner' \in Workers \cup {Nobody}
    BY DEF Inv, Finish, Complete, rowVars, TypeOK, ColumnTypes, Statuses
  <2>2. attempts' \in 0..MaxAttempts /\ faults' \in 0..MaxFaults
    BY DEF Inv, Finish, Complete, rowVars, TypeOK, ColumnTypes
  <2>3. key' \in ObjectKeys \cup {NoKey}
    BY DEF Inv, Finish, Complete, rowVars, TypeOK, ColumnTypes, Actors
  <2>4. ripe' \in BOOLEAN /\ old' \in BOOLEAN
    BY DEF Inv, Finish, Complete, rowVars, TypeOK, ColumnTypes
  <2>5. objects' \subseteq ObjectKeys /\ asked' \subseteq ObjectKeys
    BY DEF Inv, Finish, rowVars, TypeOK, ColumnTypes
  <2>6. at' \in [Actors -> Places]
    BY DEF Inv, Finish, rowVars, Go, TypeOK, ColumnTypes, Places, AtWork
  <2>7. /\ num' \in [Actors -> 0..MaxAttempts]
        /\ held' \in [Actors -> ObjectKeys \cup {NoKey}]
        /\ cleaned' \in [Actors -> BOOLEAN]
        /\ found' \in [Actors -> Statuses \cup {"none"}]
    BY DEF Inv, Finish, rowVars, callVars, TypeOK, ColumnTypes
  <2>8. /\ (status' = "running") <=> (owner' # Nobody)
        /\ status' \in Waiting => attempts' < MaxAttempts
    BY DEF Inv, Finish, Complete, rowVars, TypeOK, Waiting
  <2>. QED
    BY <2>1, <2>2, <2>3, <2>4, <2>5, <2>6, <2>7, <2>8 DEF TypeOK, ColumnTypes
<1>2. PlacesInv'
  BY DEF Inv, Finish, rowVars, callVars, Go, TypeOK, ColumnTypes, PlacesInv,
         Actors
<1>3. WorkInv'
  BY ActorAssumption
     DEF Inv, Finish, Complete, rowVars, callVars, Go, TypeOK, ColumnTypes,
         WorkInv, HeldInv, AtWork, Actors
<1>4. KeyInv'
  BY KeyFacts
     DEF Inv, Finish, Fenced, Complete, rowVars, KeyInv, WorkInv, HeldInv,
         AtWork
<1>5. SweepersInv'
  BY ActorAssumption
     DEF Inv, Finish, Fenced, rowVars, Go, TypeOK, ColumnTypes, SweepersInv,
         Actors
<1>6. StoredInv'
  BY ActorAssumption
     DEF Inv, Finish, Complete, rowVars, callVars, Go, TypeOK, ColumnTypes,
         StoredInv, Actors
<1>7. LostInv'
  BY ActorAssumption
     DEF Inv, Finish, Fenced, Complete, rowVars, callVars, Go, TypeOK,
         ColumnTypes, LostInv, AtWork, Actors
<1>8. ReadyInv'
  BY DEF Inv, Finish, Fenced, Complete, rowVars, ReadyInv,
         ReadyIsDownloadable, StoredInv
<1>. QED
  BY <1>1, <1>2, <1>3, <1>4, <1>5, <1>6, <1>7, <1>8 DEF Inv

LEMMA DiscardInv ==
    ASSUME Inv, NEW w \in Workers, Discard(w)
    PROVE  Inv'
<1>1. TypeOK'
  BY DEF Inv, Discard, rowVars, callVars, Go, TypeOK, ColumnTypes, Actors,
         Places
<1>2. PlacesInv'
  BY DEF Inv, Discard, rowVars, callVars, Go, PlacesInv
<1>3. WorkInv'
  BY DEF Inv, Discard, rowVars, callVars, Go, WorkInv, HeldInv, AtWork
<1>4. KeyInv'
  BY DEF Inv, Discard, rowVars, KeyInv
<1>5. SweepersInv'
  BY DEF Inv, Discard, rowVars, Go, SweepersInv
<1>6. StoredInv'
  BY DEF Inv, Discard, rowVars, callVars, Go, StoredInv, WorkInv, HeldInv,
         AtWork
<1>7. LostInv'
  BY DEF Inv, Discard, rowVars, callVars, Go, LostInv, AtWork
<1>8. ReadyInv'
  BY ActorAssumption
     DEF Inv, Discard, rowVars, TypeOK, ReadyInv, ReadyIsDownloadable, KeyInv,
         LostInv, WorkInv, HeldInv, AtWork, Actors
<1>. QED
  BY <1>1, <1>2, <1>3, <1>4, <1>5, <1>6, <1>7, <1>8 DEF Inv

LEMMA AbortInv ==
    ASSUME Inv, NEW w \in Workers, Abort(w)
    PROVE  Inv'
<1>1. TypeOK'
  BY DEF Inv, Abort, rowVars, Go, TypeOK, ColumnTypes, Actors, AtWork, Places
<1>2. PlacesInv'
  BY DEF Inv, Abort, rowVars, Go, PlacesInv
<1>3. WorkInv'
  BY DEF Inv, Abort, rowVars, Go, WorkInv, HeldInv, AtWork
<1>4. KeyInv'
  BY DEF Inv, Abort, rowVars, KeyInv
<1>5. SweepersInv'
  BY DEF Inv, Abort, rowVars, Go, SweepersInv
<1>6. StoredInv'
  BY DEF Inv, Abort, rowVars, Go, StoredInv, WorkInv, HeldInv, AtWork
<1>7. LostInv'
  BY DEF Inv, Abort, rowVars, Go, LostInv, AtWork
<1>8. ReadyInv'
  BY ActorAssumption
     DEF Inv, Abort, rowVars, TypeOK, ColumnTypes, ReadyInv,
         ReadyIsDownloadable, KeyInv, LostInv, WorkInv, HeldInv, AtWork,
         Actors
<1>. QED
  BY <1>1, <1>2, <1>3, <1>4, <1>5, <1>6, <1>7, <1>8 DEF Inv

LEMMA RecordInv ==
    ASSUME Inv, NEW w \in Workers, Record(w)
    PROVE  Inv'
<1>1. TypeOK'
  <2>1. status' \in Statuses \cup {"none", "deleted"} /\ owner' \in Workers \cup {Nobody}
    BY DEF Inv, Record, AfterFailure, rowVars, TypeOK, ColumnTypes, Statuses,
           Waiting
  <2>2. attempts' \in 0..MaxAttempts /\ faults' \in 0..MaxFaults
    BY DEF Inv, Record, rowVars, TypeOK, ColumnTypes
  <2>3. key' \in ObjectKeys \cup {NoKey}
    BY DEF Inv, Record, PointerAfter, rowVars, TypeOK, ColumnTypes
  <2>4. ripe' \in BOOLEAN /\ old' \in BOOLEAN
    BY DEF Inv, Record, rowVars, TypeOK, ColumnTypes
  <2>5. objects' \subseteq ObjectKeys /\ asked' \subseteq ObjectKeys
    BY DEF Inv, Record, rowVars, TypeOK, ColumnTypes
  <2>6. at' \in [Actors -> Places]
    BY DEF Inv, Record, rowVars, Go, TypeOK, ColumnTypes, Places, Actors
  <2>7. /\ num' \in [Actors -> 0..MaxAttempts]
        /\ held' \in [Actors -> ObjectKeys \cup {NoKey}]
        /\ cleaned' \in [Actors -> BOOLEAN]
        /\ found' \in [Actors -> Statuses \cup {"none"}]
    BY DEF Inv, Record, rowVars, callVars, TypeOK, ColumnTypes
  <2>8. /\ (status' = "running") <=> (owner' # Nobody)
        /\ status' \in Waiting => attempts' < MaxAttempts
    BY AttemptAssumption
       DEF Inv, Record, AfterFailure, rowVars, TypeOK, ColumnTypes, Waiting
  <2>. QED
    BY <2>1, <2>2, <2>3, <2>4, <2>5, <2>6, <2>7, <2>8 DEF TypeOK, ColumnTypes
<1>2. PlacesInv'
  BY DEF Inv, Record, rowVars, callVars, Go, PlacesInv
<1>3. WorkInv'
  BY ActorAssumption
     DEF Inv, Record, rowVars, callVars, Go, WorkInv, HeldInv, AtWork, Actors
<1>4. KeyInv'
  BY KeyFacts
     DEF Inv, Record, AfterFailure, PointerAfter, rowVars, TypeOK,
         ColumnTypes, KeyInv
<1>5. SweepersInv'
  BY ActorAssumption
     DEF Inv, Record, Fenced, rowVars, Go, TypeOK, SweepersInv, Actors
<1>6. StoredInv'
  BY ActorAssumption DEF Inv, Record, rowVars, callVars, Go, StoredInv, Actors
<1>7. LostInv'
  BY DEF Inv, Record, AfterFailure, rowVars, callVars, Go, LostInv, AtWork
<1>8. ReadyInv'
  BY DEF Inv, Record, AfterFailure, rowVars, ReadyInv, ReadyIsDownloadable
<1>. QED
  BY <1>1, <1>2, <1>3, <1>4, <1>5, <1>6, <1>7, <1>8 DEF Inv

LEMMA HeartbeatInv ==
    ASSUME Inv, NEW w \in Workers, Heartbeat(w)
    PROVE  Inv'
<1>1. TypeOK'
  BY DEF Inv, Heartbeat, rowVars, callVars, TypeOK, ColumnTypes
<1>2. PlacesInv'
  BY DEF Inv, Heartbeat, rowVars, callVars, PlacesInv
<1>3. WorkInv'
  BY DEF Inv, Heartbeat, rowVars, callVars, WorkInv, HeldInv
<1>4. KeyInv'
  BY DEF Inv, Heartbeat, rowVars, KeyInv
<1>5. SweepersInv'
  BY DEF Inv, Heartbeat, rowVars, SweepersInv
<1>6. StoredInv'
  BY DEF Inv, Heartbeat, rowVars, callVars, StoredInv
<1>7. LostInv'
  BY DEF Inv, Heartbeat, rowVars, callVars, LostInv
<1>8. ReadyInv'
  BY DEF Inv, Heartbeat, rowVars, ReadyInv, ReadyIsDownloadable
<1>. QED
  BY <1>1, <1>2, <1>3, <1>4, <1>5, <1>6, <1>7, <1>8 DEF Inv

LEMMA UnheardInv ==
    ASSUME Inv, NEW w \in Workers, Unheard(w)
    PROVE  Inv'
<1>1. TypeOK'
  <2>1. status' \in Statuses \cup {"none", "deleted"} /\ owner' \in Workers \cup {Nobody}
    BY DEF Unheard, Complete, rowVars, Statuses
  <2>2. attempts' \in 0..MaxAttempts /\ faults' \in 0..MaxFaults
    BY FaultAssumption
       DEF Inv, Unheard, Complete, Fault, rowVars, TypeOK, ColumnTypes
  <2>3. key' \in ObjectKeys \cup {NoKey}
    BY DEF Inv, Unheard, Complete, rowVars, TypeOK, ColumnTypes, Actors
  <2>4. ripe' \in BOOLEAN /\ old' \in BOOLEAN
    BY DEF Unheard, Complete, rowVars
  <2>5. objects' \subseteq ObjectKeys /\ asked' \subseteq ObjectKeys
    BY DEF Inv, Unheard, rowVars, TypeOK, ColumnTypes
  <2>6. at' \in [Actors -> Places]
    BY DEF Inv, Unheard, rowVars, Go, TypeOK, ColumnTypes, Places, AtWork,
           Actors
  <2>7. /\ num' \in [Actors -> 0..MaxAttempts]
        /\ held' \in [Actors -> ObjectKeys \cup {NoKey}]
        /\ cleaned' \in [Actors -> BOOLEAN]
        /\ found' \in [Actors -> Statuses \cup {"none"}]
    BY DEF Inv, Unheard, rowVars, callVars, TypeOK, ColumnTypes
  <2>8. /\ (status' = "running") <=> (owner' # Nobody)
        /\ status' \in Waiting => attempts' < MaxAttempts
    BY DEF Unheard, Complete, rowVars, Waiting
  <2>. QED
    BY <2>1, <2>2, <2>3, <2>4, <2>5, <2>6, <2>7, <2>8 DEF TypeOK, ColumnTypes
<1>2. PlacesInv'
  BY DEF Inv, Unheard, rowVars, callVars, Go, PlacesInv
<1>3. WorkInv'
  BY ActorAssumption
     DEF Inv, Unheard, Complete, rowVars, callVars, Go, WorkInv, HeldInv,
         AtWork, Actors
<1>4. KeyInv'
  BY KeyFacts
     DEF Inv, Unheard, Fenced, Complete, rowVars, KeyInv, WorkInv, HeldInv,
         AtWork
<1>5. SweepersInv'
  BY ActorAssumption
     DEF Inv, Unheard, Fenced, rowVars, Go, TypeOK, SweepersInv, Actors
<1>6. StoredInv'
  BY ActorAssumption DEF Unheard, Complete, rowVars, StoredInv, Actors
<1>7. LostInv'
  BY DEF Unheard, Fault, rowVars, LostInv
<1>8. ReadyInv'
  BY DEF Unheard, Fault, rowVars, ReadyInv
<1>. QED
  BY <1>1, <1>2, <1>3, <1>4, <1>5, <1>6, <1>7, <1>8 DEF Inv

LEMMA LookInv ==
    ASSUME Inv, NEW r \in Removers, Look(r)
    PROVE  Inv'
<1>1. TypeOK'
  BY DEF Inv, Look, rowVars, Go, Holding, TypeOK, ColumnTypes, Actors, Places
<1>2. PlacesInv'
  BY ActorAssumption
     DEF Inv, Look, rowVars, Go, Holding, TypeOK, ColumnTypes, PlacesInv
<1>3. WorkInv'
  BY ActorAssumption DEF Inv, Look, rowVars, Go, Holding, WorkInv, HeldInv
<1>4. KeyInv'
  BY DEF Inv, Look, rowVars, KeyInv
<1>5. SweepersInv'
  BY DEF Inv, Look, rowVars, Go, SweepersInv
<1>6. StoredInv'
  BY DEF Inv, Look, rowVars, Go, Holding, StoredInv
<1>7. LostInv'
  BY ActorAssumption DEF Inv, Look, rowVars, Go, LostInv
<1>8. ReadyInv'
  BY DEF Inv, Look, rowVars, ReadyInv, ReadyIsDownloadable
<1>. QED
  BY <1>1, <1>2, <1>3, <1>4, <1>5, <1>6, <1>7, <1>8 DEF Inv

LEMMA UnlinkInv ==
    ASSUME Inv, NEW r \in Removers, Unlink(r)
    PROVE  Inv'
<1>1. TypeOK'
  BY DEF Inv, Unlink, rowVars, callVars, Go, TypeOK, ColumnTypes, Actors,
         PlacesInv, Places
<1>2. PlacesInv'
  BY DEF Inv, Unlink, rowVars, callVars, Go, PlacesInv
<1>3. WorkInv'
  BY ActorAssumption DEF Inv, Unlink, rowVars, callVars, Go, WorkInv, HeldInv
<1>4. KeyInv'
  BY DEF Inv, Unlink, rowVars, KeyInv
<1>5. SweepersInv'
  BY DEF Inv, Unlink, rowVars, Go, SweepersInv
<1>6. StoredInv'
  BY DEF Inv, Unlink, rowVars, callVars, Go, StoredInv
<1>7. LostInv'
  BY ActorAssumption DEF Inv, Unlink, rowVars, callVars, Go, LostInv
<1>8. ReadyInv'
  BY DEF Inv, Unlink, rowVars, ReadyInv, ReadyIsDownloadable
<1>. QED
  BY <1>1, <1>2, <1>3, <1>4, <1>5, <1>6, <1>7, <1>8 DEF Inv

LEMMA DeleteRowInv ==
    ASSUME Inv, NEW r \in Removers, DeleteRow(r)
    PROVE  Inv'
<1>1. TypeOK'
  BY DEF Inv, DeleteRow, rowVars, callVars, Go, TypeOK, ColumnTypes, Waiting,
         Places
<1>2. PlacesInv'
  BY DEF Inv, DeleteRow, rowVars, callVars, Go, PlacesInv
<1>3. WorkInv'
  BY ActorAssumption
     DEF Inv, DeleteRow, rowVars, callVars, Go, WorkInv, HeldInv, Actors
<1>4. KeyInv'
  BY KeyFacts DEF Inv, DeleteRow, rowVars, TypeOK, ColumnTypes, KeyInv
<1>5. SweepersInv'
  BY DEF Inv, DeleteRow, rowVars, Go, SweepersInv
<1>6. StoredInv'
  BY ActorAssumption
     DEF Inv, DeleteRow, rowVars, callVars, Go, StoredInv, Actors
<1>7. LostInv'
  BY ActorAssumption DEF Inv, DeleteRow, rowVars, callVars, Go, LostInv
<1>8. ReadyInv'
  BY DEF Inv, DeleteRow, rowVars, ReadyInv, ReadyIsDownloadable
<1>. QED
  BY <1>1, <1>2, <1>3, <1>4, <1>5, <1>6, <1>7, <1>8 DEF Inv

LEMMA RaiseInv ==
    ASSUME Inv, NEW a \in Actors, Raise(a)
    PROVE  Inv'
<1>1. TypeOK'
  <2>1. status' \in Statuses \cup {"none", "deleted"} /\ owner' \in Workers \cup {Nobody}
    BY DEF Inv, Raise, rowVars, TypeOK, ColumnTypes
  <2>2. attempts' \in 0..MaxAttempts /\ faults' \in 0..MaxFaults
    BY FaultAssumption DEF Inv, Raise, Fault, rowVars, TypeOK, ColumnTypes
  <2>3. key' \in ObjectKeys \cup {NoKey}
    BY DEF Inv, Raise, rowVars, TypeOK, ColumnTypes
  <2>4. ripe' \in BOOLEAN /\ old' \in BOOLEAN
    BY DEF Inv, Raise, rowVars, TypeOK, ColumnTypes
  <2>5. objects' \subseteq ObjectKeys /\ asked' \subseteq ObjectKeys
    BY KeyFacts
       DEF Inv, Raise, Effects, rowVars, TypeOK, ColumnTypes, WorkInv,
           HeldInv, Actors, PlacesInv
  <2>6. at' \in [Actors -> Places]
    BY DEF Inv, Raise, rowVars, Go, TypeOK, ColumnTypes, Places, AtWork
  <2>7. /\ num' \in [Actors -> 0..MaxAttempts]
        /\ held' \in [Actors -> ObjectKeys \cup {NoKey}]
        /\ cleaned' \in [Actors -> BOOLEAN]
        /\ found' \in [Actors -> Statuses \cup {"none"}]
    BY DEF Inv, Raise, rowVars, TypeOK, ColumnTypes
  <2>8. /\ (status' = "running") <=> (owner' # Nobody)
        /\ status' \in Waiting => attempts' < MaxAttempts
    BY DEF Inv, Raise, rowVars, TypeOK
  <2>. QED
    BY <2>1, <2>2, <2>3, <2>4, <2>5, <2>6, <2>7, <2>8 DEF TypeOK, ColumnTypes
<1>2. PlacesInv'
  BY DEF Inv, Raise, rowVars, Go, TypeOK, ColumnTypes, PlacesInv, AtWork,
         Actors
<1>3. WorkInv'
  BY KeyFacts
     DEF Inv, Raise, rowVars, Go, TypeOK, ColumnTypes, WorkInv, HeldInv,
         AtWork, Actors
<1>4. KeyInv'
  BY DEF Inv, Raise, rowVars, KeyInv
<1>5. SweepersInv'
  BY DEF Inv, Raise, rowVars, Go, TypeOK, ColumnTypes, SweepersInv, Actors
<1>6. StoredInv'
  BY ActorAssumption
     DEF Inv, Raise, Effects, rowVars, Go, TypeOK, ColumnTypes, StoredInv,
         WorkInv, HeldInv, SweepersInv, AtWork, Actors, PlacesInv
<1>7. LostInv'
  BY DEF Inv, Raise, rowVars, Go, TypeOK, ColumnTypes, LostInv, AtWork, Actors
<1>8. ReadyInv'
  BY ActorAssumption
     DEF Inv, Raise, Effects, rowVars, TypeOK, ColumnTypes, ReadyInv,
         ReadyIsDownloadable, KeyInv, LostInv, WorkInv, HeldInv, SweepersInv,
         AtWork, Actors, PlacesInv
<1>. QED
  BY <1>1, <1>2, <1>3, <1>4, <1>5, <1>6, <1>7, <1>8 DEF Inv

LEMMA CrashInv ==
    ASSUME Inv, NEW a \in Actors, Crash(a)
    PROVE  Inv'
<1>1. TypeOK'
  BY FaultAssumption
     DEF Inv, Crash, Fault, rowVars, callVars, Go, TypeOK, ColumnTypes, Places
<1>2. PlacesInv'
  BY DEF Inv, Crash, rowVars, callVars, Go, PlacesInv
<1>3. WorkInv'
  BY DEF Inv, Crash, rowVars, callVars, Go, WorkInv, HeldInv, AtWork
<1>4. KeyInv'
  BY DEF Inv, Crash, rowVars, KeyInv
<1>5. SweepersInv'
  BY DEF Inv, Crash, rowVars, Go, SweepersInv
<1>6. StoredInv'
  BY DEF Inv, Crash, rowVars, callVars, Go, StoredInv
<1>7. LostInv'
  BY DEF Inv, Crash, rowVars, callVars, Go, LostInv, AtWork
<1>8. ReadyInv'
  BY DEF Inv, Crash, rowVars, ReadyInv, ReadyIsDownloadable
<1>. QED
  BY <1>1, <1>2, <1>3, <1>4, <1>5, <1>6, <1>7, <1>8 DEF Inv

LEMMA RipenInv ==
    ASSUME Inv, Ripen
    PROVE  Inv'
<1>1. TypeOK'
  BY FaultAssumption
     DEF Inv, Ripen, Fault, rowVars, callVars, TypeOK, ColumnTypes
<1>2. PlacesInv'
  BY DEF Inv, Ripen, rowVars, callVars, PlacesInv
<1>3. WorkInv'
  BY DEF Inv, Ripen, rowVars, callVars, WorkInv, HeldInv
<1>4. KeyInv'
  BY DEF Inv, Ripen, rowVars, KeyInv
<1>5. SweepersInv'
  BY DEF Inv, Ripen, rowVars, SweepersInv
<1>6. StoredInv'
  BY DEF Inv, Ripen, rowVars, callVars, StoredInv
<1>7. LostInv'
  BY DEF Inv, Ripen, rowVars, callVars, LostInv
<1>8. ReadyInv'
  BY DEF Inv, Ripen, rowVars, ReadyInv, ReadyIsDownloadable
<1>. QED
  BY <1>1, <1>2, <1>3, <1>4, <1>5, <1>6, <1>7, <1>8 DEF Inv

LEMMA AgeInv ==
    ASSUME Inv, Age
    PROVE  Inv'
<1>1. TypeOK'
  BY DEF Inv, Age, rowVars, callVars, TypeOK, ColumnTypes
<1>2. PlacesInv'
  BY DEF Inv, Age, rowVars, callVars, PlacesInv
<1>3. WorkInv'
  BY DEF Inv, Age, rowVars, callVars, WorkInv, HeldInv
<1>4. KeyInv'
  BY DEF Inv, Age, rowVars, KeyInv
<1>5. SweepersInv'
  BY DEF Age, rowVars, SweepersInv
<1>6. StoredInv'
  BY DEF Inv, Age, rowVars, callVars, StoredInv
<1>7. LostInv'
  BY DEF Inv, Age, rowVars, callVars, LostInv
<1>8. ReadyInv'
  BY DEF Age, rowVars, ReadyInv, ReadyIsDownloadable
<1>. QED
  BY <1>1, <1>2, <1>3, <1>4, <1>5, <1>6, <1>7, <1>8 DEF Inv

-----------------------------------------------------------------------------
(* The invariant holds, and with it the safety properties.                 *)

LEMMA InitInv == Init => Inv
<1>. SUFFICES ASSUME Init PROVE Inv
  OBVIOUS
<1>1. TypeOK
  <2>1. /\ status \in Statuses \cup {"none", "deleted"}
        /\ owner \in Workers \cup {Nobody} /\ key \in ObjectKeys \cup {NoKey}
        /\ objects \subseteq ObjectKeys /\ asked \subseteq ObjectKeys
        /\ attempts \in 0..MaxAttempts /\ faults \in 0..MaxFaults
    BY AttemptAssumption, FaultAssumption DEF Init
  <2>2. /\ at \in [Actors -> Places] /\ num \in [Actors -> 0..MaxAttempts]
        /\ held \in [Actors -> ObjectKeys \cup {NoKey}]
        /\ cleaned \in [Actors -> BOOLEAN]
        /\ found \in [Actors -> Statuses \cup {"none"}]
    BY AttemptAssumption DEF Init, Places
  <2>3. ripe \in BOOLEAN /\ old \in BOOLEAN
    BY DEF Init
  <2>4. status \notin Waiting \cup {"running"} /\ owner = Nobody
    BY DEF Init, Waiting
  <2>. QED
    BY <2>1, <2>2, <2>3, <2>4 DEF TypeOK, ColumnTypes
<1>2. PlacesInv /\ WorkInv /\ KeyInv /\ SweepersInv /\ StoredInv /\ LostInv
      /\ ReadyInv
  BY KeyFacts
     DEF Init, PlacesInv, WorkInv, KeyInv, SweepersInv, StoredInv, LostInv,
         ReadyInv, ReadyIsDownloadable, AtWork, Actors
<1>. QED
  BY <1>1, <1>2 DEF Inv

LEMMA WorkerStepInv ==
    ASSUME Inv, NEW w \in Workers,
           TickStep(w) \/ JobStep(w) \/ Heartbeat(w) \/ Unheard(w)
    PROVE  Inv'
BY StartTickInv, ClaimInv, EndClaimsInv, SweepInv, DropInv, MarkInv, DeferInv,
   CleanStaleInv, ClearPointerInv, RenderInv, PlanKeyInv, RenewLeaseInv,
   StoreArtifactInv, FinishInv, DiscardInv, AbortInv, RecordInv, HeartbeatInv,
   UnheardInv
   DEF TickStep, JobStep

LEMMA RemovalStepInv ==
    ASSUME Inv, NEW r \in Removers, RemovalStep(r)
    PROVE  Inv'
BY LookInv, UnlinkInv, DeleteRowInv DEF RemovalStep

LEMMA StutterInv ==
    ASSUME Inv, UNCHANGED vars
    PROVE  Inv'
BY DEF vars, rowVars, callVars, Inv, TypeOK, ColumnTypes, PlacesInv, WorkInv,
       HeldInv, KeyInv, SweepersInv, StoredInv, LostInv, ReadyInv,
       ReadyIsDownloadable

LEMMA StepInv == Inv /\ [Next]_vars => Inv'
<1>. SUFFICES ASSUME Inv, [Next]_vars PROVE Inv'
  OBVIOUS
<1>1. CASE Next
  BY <1>1, CreateInv, WorkerStepInv, RemovalStepInv, RaiseInv, CrashInv,
     RipenInv, AgeInv
     DEF Next
<1>2. CASE UNCHANGED vars
  BY <1>2, StutterInv
<1>. QED
  BY <1>1, <1>2

\* The inductive invariant holds in every reachable state.
THEOREM Invariance == Spec => []Inv
BY InitInv, StepInv, PTL DEF Spec

\* The row satisfies the CHECK constraints of export_jobs, and a waiting job
\* always has an attempt left.
THEOREM RowTyped == Spec => []TypeOK
<1>1. Inv => TypeOK
  BY DEF Inv
<1>. QED
  BY <1>1, Invariance, PTL

\* If the answers to committed statements arrive, nothing takes the artifact of a
\* completed export away before it expires or its removal is asked for.
THEOREM Downloadable ==
    ASSUME "unheard" \notin Faults
    PROVE  Spec => []ReadyIsDownloadable
<1>1. Inv => ReadyIsDownloadable
  BY DEF Inv, ReadyInv
<1>. QED
  BY <1>1, Invariance, PTL

LEMMA LeavesRunning ==
    ASSUME Inv, Next, status = "running", status' # "running"
    PROVE  \/ \E w \in Workers : Finish(w) \/ Record(w) \/ Unheard(w) \/ StartTick(w)
           \/ \E r \in Removers : DeleteRow(r)
BY DEF Next, TickStep, JobStep, RemovalStep, Create, Claim, EndClaims, Sweep,
       Drop, Mark, Defer, CleanStale, ClearPointer, Render, PlanKey,
       RenewLease, StoreArtifact, Discard, Abort, Heartbeat, Look, Unlink,
       Raise, Crash, Ripen, Age, rowVars

\* Only the worker of the current attempt completes or fails a running job;
\* recovery and removal are the only other ways out.
THEOREM LeaseFenced == Spec => OnlyLeaseHolderDecides
<1>. DEFINE Decided ==
        \/ /\ at[owner] \in {"finish", "record"}
           /\ num[owner] = attempts
           /\ status' = "completed" => at[owner] = "finish"
        \/ ripe /\ status' \in {"retry_scheduled", "failed"}
        \/ status' = "deleted"
<1>1. ASSUME Inv, Next, status = "running", status' # "running"
      PROVE  Decided
  <2>1. ASSUME NEW w \in Workers, Finish(w) \/ Unheard(w)
        PROVE  Decided
    BY <1>1, <2>1 DEF Inv, WorkInv, AtWork, Finish, Unheard, Fenced, rowVars
  <2>2. ASSUME NEW w \in Workers, Record(w)
        PROVE  Decided
    BY <1>1, <2>2
       DEF Inv, WorkInv, AtWork, Record, Fenced, AfterFailure, rowVars
  <2>3. ASSUME NEW w \in Workers, StartTick(w)
        PROVE  Decided
    BY <1>1, <2>3 DEF StartTick, AfterFailure, rowVars
  <2>4. ASSUME NEW r \in Removers, DeleteRow(r)
        PROVE  Decided
    BY <1>1, <2>4 DEF DeleteRow
  <2>. QED
    BY <1>1, <2>1, <2>2, <2>3, <2>4, LeavesRunning
<1>2. Inv /\ [Next]_vars => [status = "running" /\ status' # "running" => Decided]_vars
  BY <1>1
<1>. QED
  BY <1>2, Invariance, PTL DEF OnlyLeaseHolderDecides, Spec

-----------------------------------------------------------------------------
(* Without stalled leases and removals, the row always points at what is   *)
(* in object storage.                                                      *)

\* Where the pointer and the store stand while a worker is at the job.
PointedAt(w) ==
    /\ at[w] \in AtWork =>
          owner = w \/ (at[w] \in {"abort", "record"} /\ status \in {"completed", "expired"})
    /\ at[w] \in {"clean", "clear"} => held[w] = key
    /\ at[w] = "clear" => key \notin objects
    /\ at[w] \in {"render", "plan"} => key = NoKey
    /\ at[w] \in {"renew", "store", "finish"} => key = held[w]
    /\ at[w] = "record" /\ cleaned[w] /\ owner = w => held[w] \notin objects
    /\ at[w] \in {"drop", "mark"} /\ status \in {"completed", "failed"} =>
          key \in {held[w], NoKey}
    /\ at[w] = "mark" => held[w] \notin objects

PointInv ==
    /\ objects \subseteq {key}
    /\ status = "running" /\ ripe => ~Attended
    /\ \A w \in Workers : PointedAt(w)

LEMMA CreatePoints ==
    ASSUME Inv, PointInv, "stall" \notin Faults, Removers = {}, Create
    PROVE  PointInv'
<1>1. objects' \subseteq {key'}
  BY DEF PointInv, Create, rowVars
<1>2. (status = "running" /\ ripe => ~Attended)'
  BY DEF Create, rowVars
<1>3. ASSUME NEW x \in Workers PROVE PointedAt(x)'
  BY DEF PointInv, Create, rowVars, callVars, PointedAt
<1>. QED
  BY <1>1, <1>2, <1>3 DEF PointInv

LEMMA StartTickPoints ==
    ASSUME Inv, PointInv, "stall" \notin Faults, Removers = {}, NEW w \in Workers, StartTick(w)
    PROVE  PointInv'
<1>1. objects' \subseteq {key'}
  BY DEF PointInv, StartTick, rowVars
<1>2. (status = "running" /\ ripe => ~Attended)'
  BY DEF StartTick, AfterFailure, rowVars
<1>3. ASSUME NEW x \in Workers PROVE PointedAt(x)'
  BY DEF Inv, PointInv, StartTick, rowVars, callVars, Go, PointedAt, AtWork,
         SweepersInv, Attended
<1>. QED
  BY <1>1, <1>2, <1>3 DEF PointInv

LEMMA ClaimPoints ==
    ASSUME Inv, PointInv, "stall" \notin Faults, Removers = {}, NEW w \in Workers, Claim(w)
    PROVE  PointInv'
<1>1. objects' \subseteq {key'}
  BY DEF PointInv, Claim, rowVars
<1>2. (status = "running" /\ ripe => ~Attended)'
  BY DEF Claim, rowVars
<1>3. ASSUME NEW x \in Workers PROVE PointedAt(x)'
  BY ActorAssumption
     DEF Inv, PointInv, Claim, Claimable, Waiting, rowVars, Go, Holding,
         TypeOK, ColumnTypes, Actors, PointedAt
<1>. QED
  BY <1>1, <1>2, <1>3 DEF PointInv

LEMMA EndClaimsPoints ==
    ASSUME Inv, PointInv, "stall" \notin Faults, Removers = {}, NEW w \in Workers, EndClaims(w)
    PROVE  PointInv'
<1>1. objects' \subseteq {key'}
  BY DEF PointInv, EndClaims, rowVars
<1>2. (status = "running" /\ ripe => ~Attended)'
  BY DEF PointInv, EndClaims, rowVars, Go, Attended, AtWork
<1>3. ASSUME NEW x \in Workers PROVE PointedAt(x)'
  BY DEF PointInv, EndClaims, rowVars, callVars, Go, PointedAt, AtWork
<1>. QED
  BY <1>1, <1>2, <1>3 DEF PointInv

LEMMA SweepPoints ==
    ASSUME Inv, PointInv, "stall" \notin Faults, Removers = {}, NEW w \in Workers, Sweep(w)
    PROVE  PointInv'
<1>1. objects' \subseteq {key'}
  BY DEF PointInv, Sweep, rowVars
<1>2. (status = "running" /\ ripe => ~Attended)'
  BY DEF Inv, PointInv, Sweep, rowVars, Go, TypeOK, ColumnTypes, Actors,
         Attended, AtWork
<1>3. ASSUME NEW x \in Workers PROVE PointedAt(x)'
  BY DEF Inv, PointInv, Sweep, rowVars, Go, Holding, TypeOK, ColumnTypes,
         Actors, PointedAt, AtWork
<1>. QED
  BY <1>1, <1>2, <1>3 DEF PointInv

LEMMA DropPoints ==
    ASSUME Inv, PointInv, "stall" \notin Faults, Removers = {}, NEW w \in Workers, Drop(w)
    PROVE  PointInv'
<1>1. objects' \subseteq {key'}
  BY DEF PointInv, Drop, rowVars
<1>2. (status = "running" /\ ripe => ~Attended)'
  BY DEF PointInv, Drop, rowVars, Go, Attended, AtWork
<1>3. ASSUME NEW x \in Workers PROVE PointedAt(x)'
  BY DEF PointInv, Drop, rowVars, callVars, Go, PointedAt, AtWork
<1>. QED
  BY <1>1, <1>2, <1>3 DEF PointInv

LEMMA MarkPoints ==
    ASSUME Inv, PointInv, "stall" \notin Faults, Removers = {}, NEW w \in Workers, Mark(w)
    PROVE  PointInv'
<1>1. objects' \subseteq {key'}
  BY DEF PointInv, Mark, rowVars, PointedAt
<1>2. (status = "running" /\ ripe => ~Attended)'
  BY DEF PointInv, Mark, rowVars, Go, Attended, AtWork
<1>3. ASSUME NEW x \in Workers PROVE PointedAt(x)'
  BY ActorAssumption
     DEF Inv, PointInv, Mark, rowVars, callVars, Go, TypeOK, Actors,
         PointedAt, AtWork
<1>. QED
  BY <1>1, <1>2, <1>3 DEF PointInv

LEMMA DeferPoints ==
    ASSUME Inv, PointInv, "stall" \notin Faults, Removers = {}, NEW w \in Workers, Defer(w)
    PROVE  PointInv'
<1>1. objects' \subseteq {key'}
  BY DEF PointInv, Defer, rowVars
<1>2. (status = "running" /\ ripe => ~Attended)'
  BY DEF Inv, PointInv, Defer, rowVars, Go, TypeOK, ColumnTypes, Attended,
         AtWork
<1>3. ASSUME NEW x \in Workers PROVE PointedAt(x)'
  BY DEF PointInv, Defer, rowVars, callVars, Go, PointedAt, AtWork
<1>. QED
  BY <1>1, <1>2, <1>3 DEF PointInv

LEMMA CleanStalePoints ==
    ASSUME Inv, PointInv, "stall" \notin Faults, Removers = {}, NEW w \in Workers, CleanStale(w)
    PROVE  PointInv'
<1>1. objects' \subseteq {key'}
  BY DEF PointInv, CleanStale, rowVars
<1>2. (status = "running" /\ ripe => ~Attended)'
  BY DEF PointInv, CleanStale, rowVars, Go, Attended, AtWork
<1>3. ASSUME NEW x \in Workers PROVE PointedAt(x)'
  BY DEF PointInv, CleanStale, rowVars, callVars, Go, PointedAt, AtWork
<1>. QED
  BY <1>1, <1>2, <1>3 DEF PointInv

LEMMA ClearPointerPoints ==
    ASSUME Inv, PointInv, "stall" \notin Faults, Removers = {}, NEW w \in Workers, ClearPointer(w)
    PROVE  PointInv'
<1>1. objects' \subseteq {key'}
  BY DEF PointInv, ClearPointer, rowVars, PointedAt
<1>2. (status = "running" /\ ripe => ~Attended)'
  BY DEF Inv, PointInv, ClearPointer, rowVars, Go, TypeOK, ColumnTypes,
         Actors, Attended, AtWork
<1>3. ASSUME NEW x \in Workers PROVE PointedAt(x)'
  BY DEF Inv, PointInv, ClearPointer, rowVars, Go, TypeOK, ColumnTypes,
         Actors, PointedAt, AtWork
<1>. QED
  BY <1>1, <1>2, <1>3 DEF PointInv

LEMMA RenderPoints ==
    ASSUME Inv, PointInv, "stall" \notin Faults, Removers = {}, NEW w \in Workers, Render(w)
    PROVE  PointInv'
<1>1. objects' \subseteq {key'}
  BY DEF PointInv, Render, rowVars
<1>2. (status = "running" /\ ripe => ~Attended)'
  BY DEF PointInv, Render, rowVars, Go, Attended, AtWork
<1>3. ASSUME NEW x \in Workers PROVE PointedAt(x)'
  BY DEF PointInv, Render, rowVars, Go, Holding, PointedAt, AtWork
<1>. QED
  BY <1>1, <1>2, <1>3 DEF PointInv

LEMMA PlanKeyPoints ==
    ASSUME Inv, PointInv, "stall" \notin Faults, Removers = {}, NEW w \in Workers, PlanKey(w)
    PROVE  PointInv'
<1>1. objects' \subseteq {key'}
  BY KeyFacts
     DEF Inv, PointInv, PlanKey, rowVars, TypeOK, ColumnTypes, PointedAt
<1>2. (status = "running" /\ ripe => ~Attended)'
  BY DEF PointInv, PlanKey, rowVars, Go, Attended, AtWork
<1>3. ASSUME NEW x \in Workers PROVE PointedAt(x)'
  BY ActorAssumption
     DEF Inv, PointInv, PlanKey, rowVars, callVars, Go, TypeOK, ColumnTypes,
         Actors, PointedAt, AtWork
<1>. QED
  BY <1>1, <1>2, <1>3 DEF PointInv

LEMMA RenewLeasePoints ==
    ASSUME Inv, PointInv, "stall" \notin Faults, Removers = {}, NEW w \in Workers, RenewLease(w)
    PROVE  PointInv'
<1>1. objects' \subseteq {key'}
  BY DEF PointInv, RenewLease, rowVars
<1>2. (status = "running" /\ ripe => ~Attended)'
  BY DEF Inv, PointInv, RenewLease, rowVars, Go, TypeOK, ColumnTypes,
         Attended, AtWork
<1>3. ASSUME NEW x \in Workers PROVE PointedAt(x)'
  BY DEF PointInv, RenewLease, rowVars, callVars, Go, PointedAt, AtWork
<1>. QED
  BY <1>1, <1>2, <1>3 DEF PointInv

LEMMA StoreArtifactPoints ==
    ASSUME Inv, PointInv, "stall" \notin Faults, Removers = {}, NEW w \in Workers, StoreArtifact(w)
    PROVE  PointInv'
<1>1. objects' \subseteq {key'}
  BY DEF PointInv, StoreArtifact, rowVars, PointedAt
<1>2. (status = "running" /\ ripe => ~Attended)'
  BY DEF PointInv, StoreArtifact, rowVars, Go, Attended, AtWork
<1>3. ASSUME NEW x \in Workers PROVE PointedAt(x)'
  BY ActorAssumption
     DEF Inv, PointInv, StoreArtifact, rowVars, callVars, Go, TypeOK, Actors,
         PointedAt, AtWork, SweepersInv
<1>. QED
  BY <1>1, <1>2, <1>3 DEF PointInv

LEMMA FinishPoints ==
    ASSUME Inv, PointInv, "stall" \notin Faults, Removers = {}, NEW w \in Workers, Finish(w)
    PROVE  PointInv'
<1>1. objects' \subseteq {key'}
  BY DEF PointInv, Finish, Complete, rowVars, PointedAt
<1>2. (status = "running" /\ ripe => ~Attended)'
  BY DEF PointInv, Finish, Fenced, Complete, rowVars, AtWork, PointedAt
<1>3. ASSUME NEW x \in Workers PROVE PointedAt(x)'
  BY ActorAssumption
     DEF Inv, PointInv, Finish, rowVars, Go, TypeOK, ColumnTypes, Actors,
         PointedAt, AtWork, SweepersInv
<1>. QED
  BY <1>1, <1>2, <1>3 DEF PointInv

LEMMA DiscardPoints ==
    ASSUME Inv, PointInv, "stall" \notin Faults, Removers = {}, NEW w \in Workers, Discard(w)
    PROVE  PointInv'
<1>1. objects' \subseteq {key'}
  BY DEF PointInv, Discard, rowVars
<1>2. (status = "running" /\ ripe => ~Attended)'
  BY DEF PointInv, Discard, rowVars, Go, Attended, AtWork
<1>3. ASSUME NEW x \in Workers PROVE PointedAt(x)'
  BY DEF PointInv, Discard, rowVars, callVars, Go, PointedAt, AtWork
<1>. QED
  BY <1>1, <1>2, <1>3 DEF PointInv

LEMMA AbortPoints ==
    ASSUME Inv, PointInv, "stall" \notin Faults, Removers = {}, NEW w \in Workers, Abort(w)
    PROVE  PointInv'
<1>1. objects' \subseteq {key'}
  BY DEF PointInv, Abort, rowVars
<1>2. (status = "running" /\ ripe => ~Attended)'
  BY DEF PointInv, Abort, rowVars, Go, Attended, AtWork
<1>3. ASSUME NEW x \in Workers PROVE PointedAt(x)'
  BY DEF PointInv, Abort, rowVars, Go, PointedAt, AtWork
<1>. QED
  BY <1>1, <1>2, <1>3 DEF PointInv

LEMMA RecordPoints ==
    ASSUME Inv, PointInv, "stall" \notin Faults, Removers = {}, NEW w \in Workers, Record(w)
    PROVE  PointInv'
<1>1. objects' \subseteq {key'}
  BY DEF PointInv, Record, Fenced, PointerAfter, rowVars, PointedAt
<1>2. (status = "running" /\ ripe => ~Attended)'
  BY DEF PointInv, Record, Fenced, rowVars, AtWork, PointedAt
<1>3. ASSUME NEW x \in Workers PROVE PointedAt(x)'
  BY ActorAssumption
     DEF Inv, PointInv, Record, Fenced, rowVars, callVars, Go, TypeOK,
         ColumnTypes, Actors, PointedAt, AtWork, SweepersInv
<1>. QED
  BY <1>1, <1>2, <1>3 DEF PointInv

LEMMA HeartbeatPoints ==
    ASSUME Inv, PointInv, "stall" \notin Faults, Removers = {}, NEW w \in Workers, Heartbeat(w)
    PROVE  PointInv'
<1>1. objects' \subseteq {key'}
  BY DEF PointInv, Heartbeat, rowVars
<1>2. (status = "running" /\ ripe => ~Attended)'
  BY DEF Heartbeat, rowVars
<1>3. ASSUME NEW x \in Workers PROVE PointedAt(x)'
  BY DEF PointInv, Heartbeat, rowVars, callVars, PointedAt
<1>. QED
  BY <1>1, <1>2, <1>3 DEF PointInv

LEMMA UnheardPoints ==
    ASSUME Inv, PointInv, "stall" \notin Faults, Removers = {}, NEW w \in Workers, Unheard(w)
    PROVE  PointInv'
<1>1. objects' \subseteq {key'}
  BY DEF PointInv, Unheard, Complete, rowVars, PointedAt
<1>2. (status = "running" /\ ripe => ~Attended)'
  BY DEF Unheard, Complete, rowVars
<1>3. ASSUME NEW x \in Workers PROVE PointedAt(x)'
  BY ActorAssumption
     DEF Inv, PointInv, Unheard, Fenced, Complete, rowVars, callVars, Go,
         TypeOK, ColumnTypes, Actors, PointedAt, SweepersInv
<1>. QED
  BY <1>1, <1>2, <1>3 DEF PointInv

LEMMA RaisePoints ==
    ASSUME Inv, PointInv, "stall" \notin Faults, Removers = {}, NEW a \in Actors, Raise(a)
    PROVE  PointInv'
<1>1. objects' \subseteq {key'}
  BY DEF PointInv, Raise, Effects, rowVars, Actors, PointedAt
<1>2. (status = "running" /\ ripe => ~Attended)'
  BY DEF Inv, PointInv, Raise, rowVars, Go, TypeOK, ColumnTypes, Actors,
         Attended, AtWork
<1>3. ASSUME NEW x \in Workers PROVE PointedAt(x)'
  BY ActorAssumption
     DEF Inv, PointInv, Raise, Effects, rowVars, Go, TypeOK, ColumnTypes,
         Actors, PointedAt, AtWork, SweepersInv
<1>. QED
  BY <1>1, <1>2, <1>3 DEF PointInv

LEMMA CrashPoints ==
    ASSUME Inv, PointInv, "stall" \notin Faults, Removers = {}, NEW a \in Actors, Crash(a)
    PROVE  PointInv'
<1>1. objects' \subseteq {key'}
  BY DEF PointInv, Crash, rowVars
<1>2. (status = "running" /\ ripe => ~Attended)'
  BY DEF PointInv, Crash, rowVars, Go, Attended, AtWork
<1>3. ASSUME NEW x \in Workers PROVE PointedAt(x)'
  BY DEF PointInv, Crash, rowVars, callVars, Go, PointedAt, AtWork
<1>. QED
  BY <1>1, <1>2, <1>3 DEF PointInv

LEMMA RipenPoints ==
    ASSUME Inv, PointInv, "stall" \notin Faults, Removers = {}, Ripen
    PROVE  PointInv'
<1>1. objects' \subseteq {key'}
  BY DEF PointInv, Ripen, rowVars
<1>2. (status = "running" /\ ripe => ~Attended)'
  BY DEF Ripen, Fault, Attended, rowVars
<1>3. ASSUME NEW x \in Workers PROVE PointedAt(x)'
  BY DEF PointInv, Ripen, rowVars, callVars, PointedAt
<1>. QED
  BY <1>1, <1>2, <1>3 DEF PointInv

LEMMA AgePoints ==
    ASSUME Inv, PointInv, "stall" \notin Faults, Removers = {}, Age
    PROVE  PointInv'
<1>1. objects' \subseteq {key'}
  BY DEF PointInv, Age, rowVars
<1>2. (status = "running" /\ ripe => ~Attended)'
  BY DEF Age, rowVars
<1>3. ASSUME NEW x \in Workers PROVE PointedAt(x)'
  BY DEF PointInv, Age, rowVars, callVars, PointedAt
<1>. QED
  BY <1>1, <1>2, <1>3 DEF PointInv

LEMMA StepPoints ==
    ASSUME "stall" \notin Faults, Removers = {}
    PROVE  Inv /\ PointInv /\ [Next]_vars => PointInv'
<1>. SUFFICES ASSUME Inv, PointInv, [Next]_vars PROVE PointInv'
  OBVIOUS
<1>1. ASSUME NEW w \in Workers, TickStep(w)
      PROVE  PointInv'
  BY <1>1, StartTickPoints, ClaimPoints, EndClaimsPoints, SweepPoints,
     DropPoints, MarkPoints, DeferPoints
     DEF TickStep
<1>2. ASSUME NEW w \in Workers, JobStep(w)
      PROVE  PointInv'
  BY <1>2, CleanStalePoints, ClearPointerPoints, RenderPoints, PlanKeyPoints,
     RenewLeasePoints, StoreArtifactPoints, FinishPoints, DiscardPoints,
     AbortPoints, RecordPoints
     DEF JobStep
<1>3. CASE UNCHANGED vars
  BY <1>3 DEF vars, rowVars, callVars, PointInv, PointedAt, Attended
<1>. QED
  BY <1>1, <1>2, <1>3, CreatePoints, HeartbeatPoints, UnheardPoints,
     RaisePoints, CrashPoints, RipenPoints, AgePoints
     DEF Next

\* If leases do not lapse under working owners and nobody removes the job, the
\* row points at whatever is in object storage, through all crashes and failures.
THEOREM Pointed ==
    ASSUME "stall" \notin Faults, Removers = {}
    PROVE  Spec => []NoOrphans
<1>1. Init => PointInv
  BY DEF Init, PointInv, PointedAt, AtWork, Actors
<1>2. Inv /\ PointInv /\ [Next]_vars => PointInv'
  BY StepPoints
<1>3. PointInv => NoOrphans
  BY DEF PointInv, NoOrphans
<1>. QED
  BY <1>1, <1>2, <1>3, Invariance, PTL DEF Spec

-----------------------------------------------------------------------------
(* The job implements ExportContract when answers are not lost.            *)

File == status = "completed" /\ key \in objects
Void == status = "completed" /\ (old \/ key \in asked)

\* Steps that leave the job's status alone, and its artifact too unless it
\* may go, are steps of the contract or none.
LEMMA SameStatus ==
    ASSUME status' = status, old' \in {old, TRUE}, asked \subseteq asked',
           status = "completed" => key' = key,
           File' => File,
           ~File' /\ File => Void',
           old \in BOOLEAN, old' \in BOOLEAN
    PROVE  [Contract!Next]_<<Phase, File, Void>>
<1>1. Phase' = Phase
  BY DEF Phase
<1>2. CASE status # "completed"
  BY <1>1, <1>2 DEF File, Void
<1>3. CASE status = "completed" /\ File' = File /\ Void' = Void
  BY <1>1, <1>3
<1>4. CASE status = "completed" /\ Void' # Void
  <2>. QED
    BY DEF Contract!Next, Contract!Invalidate, Phase, Waiting, File, Void
<1>5. CASE status = "completed" /\ Void' = Void /\ File' # File
  <2>. QED
    BY <1>5 DEF Contract!Next, Contract!Withdraw, Phase, Waiting, File, Void
<1>. QED
  BY <1>2, <1>3, <1>4, <1>5

LEMMA FencedRuns ==
    ASSUME Inv
    PROVE  \A w \in Workers : Fenced(w) => status = "running"
BY ActorAssumption DEF Inv, TypeOK, Fenced, Actors

LEMMA ContractFacts ==
    ASSUME Inv
    PROVE  /\ File \in BOOLEAN /\ Void \in BOOLEAN
           /\ status # "completed" => ~File /\ ~Void
           /\ "unheard" \notin Faults => (status = "completed" => File \/ Void)
BY DEF Inv, ReadyInv, ReadyIsDownloadable, File, Void

\* Who moves the job from one status to another.
LEMMA StatusWriters ==
    ASSUME Next, status' # status
    PROVE  \/ Create
           \/ \E w \in Workers : \/ StartTick(w) \/ Claim(w) \/ Mark(w)
                                 \/ Finish(w) \/ Record(w) \/ Unheard(w)
           \/ \E r \in Removers : DeleteRow(r)
BY DEF Next, TickStep, JobStep, RemovalStep, EndClaims, Sweep, Drop, Defer,
       CleanStale, ClearPointer, Render, PlanKey, RenewLease, StoreArtifact,
       Discard, Abort, Heartbeat, Look, Unlink, Raise, Crash, Ripen, Age,
       rowVars

\* Who changes what is in object storage, and what was asked.
Writes(a) == objects' \in {objects, objects \cup {held[a]}, objects \ {held[a]}}

LEMMA ObjectWriters ==
    ASSUME Next, PlacesInv
    PROVE  \/ objects' = objects /\ asked' = asked
           \/ \E w \in Workers : /\ at[w] \in AtWork /\ Writes(w)
                                 /\ asked' = asked
           \/ \E w \in Workers : /\ at[w] = "drop" /\ asked' = asked
                                 /\ objects' \in {objects, objects \ {held[w]}}
           \/ \E r \in Removers :
                 /\ objects' \in {objects, objects \ {held[r]}}
                 /\ asked' = asked \cup {held[r]}
<1>1. ASSUME NEW a \in Actors, Raise(a)
      PROVE  \/ objects' = objects /\ asked' = asked
             \/ a \in Workers /\ at[a] \in AtWork /\ Writes(a) /\ asked' = asked
             \/ a \in Workers /\ at[a] = "drop" /\ asked' = asked
                   /\ objects' \in {objects, objects \ {held[a]}}
             \/ a \in Removers /\ objects' \in {objects, objects \ {held[a]}}
                   /\ asked' = asked \cup {held[a]}
  BY <1>1 DEF Raise, Effects, Writes, PlacesInv, Actors, AtWork
<1>. QED
  BY <1>1
     DEF Next, TickStep, JobStep, RemovalStep, Create, StartTick, Claim,
         EndClaims, Sweep, Drop, Mark, Defer, CleanStale, ClearPointer,
         Render, PlanKey, RenewLease, StoreArtifact, Finish, Discard, Abort,
         Record, Heartbeat, Unheard, Look, Unlink, DeleteRow, Crash, Ripen,
         Age, AtWork, Writes

LEMMA RowOfCompleted ==
    ASSUME Inv, Next, status = "completed", status' = "completed"
    PROVE  key' = key /\ old' \in {old, TRUE}
<1>1. owner = Nobody /\ (\A w \in Workers : owner # w) /\ status \notin Waiting
  BY ActorAssumption DEF Inv, TypeOK, Waiting, Actors
<1>. QED
  BY <1>1
     DEF Next, TickStep, JobStep, RemovalStep, Create, StartTick, Claim,
         EndClaims, Sweep, Drop, Mark, Defer, CleanStale, ClearPointer,
         Render, PlanKey, RenewLease, StoreArtifact, Finish, Discard, Abort,
         Record, Heartbeat, Unheard, Look, Unlink, DeleteRow, Raise, Crash,
         Ripen, Age, rowVars, Fenced

\* What happens to a completed job that stays completed.
LEMMA Shelved ==
    ASSUME Inv, Next, "unheard" \notin Faults,
           status = "completed", status' = "completed"
    PROVE  /\ key' = key /\ old' \in {old, TRUE} /\ asked \subseteq asked'
           /\ key \in objects' => key \in objects
           /\ key \in objects \ objects' => old \/ key \in asked'
<1>1. ASSUME NEW w \in Workers, at[w] \in AtWork
      PROVE  held[w] # key
  <2>1. num[w] \in 1..attempts /\ HeldInv(w)
    BY <1>1 DEF Inv, WorkInv
  <2>2. owner # w
    BY ActorAssumption DEF Inv, TypeOK, Actors
  <2>3. num[w] # attempts
    BY <1>1, <2>2 DEF Inv, LostInv
  <2>4. key # NoKey /\ key[1] = attempts /\ attempts \in Nat
    BY DEF Inv, KeyInv, TypeOK, ColumnTypes
  <2>5. num[w] \in Nat /\ num[w] < attempts
    BY <2>1, <2>3, <2>4
  <2>6. held[w] = NoKey \/ held[w][1] < num[w] \/ held[w] = <<num[w], w>>
    BY <1>1, <2>1 DEF HeldInv, AtWork
  <2>. QED
    BY <2>4, <2>5, <2>6
<1>2. ASSUME NEW w \in Workers, at[w] = "drop"
      PROVE  old
  BY <1>2 DEF Inv, SweepersInv
<1>3. key' = key /\ old' \in {old, TRUE}
  BY RowOfCompleted
<1>4. asked \subseteq asked' /\ (key \in objects \ objects' => old \/ key \in asked')
  BY <1>1, <1>2, ObjectWriters DEF Inv, Writes
<1>5. key \in objects' => key \in objects
  BY <1>1, ObjectWriters DEF Inv, Writes
<1>. QED
  BY <1>3, <1>4, <1>5

\* A sweep that is about to mark a completed job has deleted its artifact.
GoneInv ==
    \A w \in Workers :
        status = "completed" =>
            /\ at[w] \in {"drop", "mark"} => held[w] = key
            /\ at[w] = "mark" => key \notin objects

LEMMA SweepSteps ==
    ASSUME Inv, Next, NEW w \in Workers, at'[w] \in {"drop", "mark"}
    PROVE  \/ Sweep(w) /\ at'[w] = "drop" /\ status' = status /\ held'[w] = key
           \/ Drop(w) /\ at[w] = "drop" /\ held'[w] = held[w]
           \/ at'[w] = at[w] /\ held'[w] = held[w]
<1>. USE DEF Inv, TypeOK, ColumnTypes, Actors, PlacesInv, Go, Holding, callVars
<1>1. ASSUME NEW v \in Workers, TickStep(v)
      PROVE  \/ Sweep(w) /\ at'[w] = "drop" /\ status' = status /\ held'[w] = key
             \/ Drop(w) /\ at[w] = "drop" /\ held'[w] = held[w]
             \/ at'[w] = at[w] /\ held'[w] = held[w]
  <2>1. CASE Sweep(v)
    BY <2>1 DEF Sweep, rowVars
  <2>2. CASE Drop(v)
    BY <2>2 DEF Drop
  <2>3. CASE StartTick(v) \/ Claim(v) \/ EndClaims(v)
    BY <2>3 DEF StartTick, Claim, EndClaims
  <2>4. CASE Mark(v) \/ Defer(v)
    BY <2>4 DEF Mark, Defer
  <2>. QED
    BY <1>1, <2>1, <2>2, <2>3, <2>4 DEF TickStep
<1>2. ASSUME NEW v \in Workers, JobStep(v)
      PROVE  at'[w] = at[w] /\ held'[w] = held[w]
  BY <1>2
     DEF JobStep, CleanStale, ClearPointer, Render, PlanKey, RenewLease,
         StoreArtifact, Finish, Discard, Abort, Record
<1>3. ASSUME NEW v \in Workers, Heartbeat(v) \/ Unheard(v)
      PROVE  at'[w] = at[w] /\ held'[w] = held[w]
  BY <1>3 DEF Heartbeat, Unheard
<1>4. ASSUME NEW r \in Removers, RemovalStep(r)
      PROVE  at'[w] = at[w] /\ held'[w] = held[w]
  BY <1>4 DEF RemovalStep, Look, Unlink, DeleteRow
<1>5. ASSUME NEW a \in Actors, Raise(a) \/ Crash(a)
      PROVE  at'[w] = at[w] /\ held'[w] = held[w]
  BY <1>5 DEF Raise, Crash
<1>6. CASE Create \/ Ripen \/ Age
  BY <1>6 DEF Create, Ripen, Age
<1>. QED
  BY <1>1, <1>2, <1>3, <1>4, <1>5, <1>6 DEF Next

LEMMA GoneStep ==
    ASSUME "unheard" \notin Faults, Inv, Inv', GoneInv, [Next]_vars
    PROVE  GoneInv'
<1>1. CASE UNCHANGED vars
  BY <1>1 DEF vars, rowVars, callVars, GoneInv
<1>2. ASSUME Next, NEW w \in Workers, status' = "completed",
             at'[w] \in {"drop", "mark"}
      PROVE  held'[w] = key' /\ (at'[w] = "mark" => key' \notin objects')
  <2>1. CASE status # "completed"
    <3>1. status = "running"
      <4>1. \E v \in Workers : Finish(v) \/ Unheard(v)
        BY <1>2, <2>1, StatusWriters
           DEF Create, StartTick, AfterFailure, Claim, Mark, Record,
               DeleteRow, rowVars
      <4>2. ASSUME NEW v \in Workers, Fenced(v)
            PROVE  status = "running"
        BY <4>2, FencedRuns
      <4>. QED
        BY <2>1, <1>2, <4>1, <4>2 DEF Finish, Unheard, rowVars
    <3>2. at[w] \notin {"drop", "mark"}
      BY <3>1 DEF Inv, SweepersInv
    <3>. QED
      BY <1>2, <2>1, <3>2, SweepSteps
  <2>2. CASE status = "completed"
    <3>1. key' = key /\ (key \in objects' => key \in objects)
      BY <1>2, <2>2, Shelved
    <3>2. CASE Sweep(w) /\ at'[w] = "drop" /\ held'[w] = key
      BY <3>1, <3>2
    <3>3. CASE Drop(w) /\ at[w] = "drop" /\ held'[w] = held[w]
      BY <2>2, <3>1, <3>3 DEF Drop, GoneInv
    <3>4. CASE at'[w] = at[w] /\ held'[w] = held[w]
      BY <1>2, <2>2, <3>1, <3>4 DEF GoneInv
    <3>. QED
      BY <1>2, <3>2, <3>3, <3>4, SweepSteps
  <2>. QED
    BY <2>1, <2>2
<1>. QED
  BY <1>1, <1>2 DEF GoneInv

LEMMA ContractStep ==
    ASSUME "unheard" \notin Faults, Inv, Inv', GoneInv, Next
    PROVE  [Contract!Next]_<<Phase, File, Void>>
<1>1. CASE status' = status /\ status = "completed"
  <2>1. old \in BOOLEAN /\ old' \in BOOLEAN
    BY DEF Inv, TypeOK, ColumnTypes
  <2>. QED
    BY <1>1, <2>1, Shelved, SameStatus DEF File, Void
<1>2. CASE status' = status /\ status # "completed"
  BY <1>2 DEF Phase, File, Void
<1>3. CASE status' # status
  <2>2. CASE Create
    BY <2>2
       DEF Create, Contract!Next, Contract!Request, Contract!Becomes, Phase,
           Waiting
  <2>3. ASSUME NEW w \in Workers, StartTick(w) \/ Record(w)
        PROVE  [Contract!Next]_<<Phase, File, Void>>
    <3>1. status = "running" /\ status' \in {"retry_scheduled", "failed"}
      BY <1>3, <2>3, FencedRuns DEF StartTick, Record, AfterFailure, rowVars
    <3>. QED
      BY <3>1
         DEF Contract!Next, Contract!GiveUp, Contract!Becomes, Phase, File,
             Void, Waiting
  <2>4. ASSUME NEW w \in Workers, Claim(w)
        PROVE  UNCHANGED <<Phase, File, Void>>
    BY <2>4 DEF Claim, Claimable, Phase, File, Void, Waiting
  <2>5. ASSUME NEW w \in Workers, Mark(w)
        PROVE  Contract!Next
    <3>1. /\ status = "completed" /\ old /\ status' = "expired"
          /\ at[w] = "mark"
      BY <1>3, <2>5 DEF Mark
    <3>2. ~File /\ Void
      BY <3>1 DEF GoneInv, File, Void
    <3>. QED
      BY <3>1, <3>2
         DEF Contract!Next, Contract!Expire, Contract!Becomes, Phase, File,
             Waiting
  <2>6. ASSUME NEW w \in Workers, Finish(w)
        PROVE  Contract!Next
    <3>1. status = "running" /\ status' = "completed"
      BY <1>3, <2>6, FencedRuns DEF Finish, Complete, rowVars
    <3>2. File' \in BOOLEAN /\ Void' \in BOOLEAN /\ (File' \/ Void')
      BY <3>1 DEF File, Void, Inv, ReadyInv, ReadyIsDownloadable
    <3>. QED
      BY <3>1, <3>2
         DEF Contract!Next, Contract!Deliver, Phase, File, Void, Waiting
  <2>7. ASSUME NEW r \in Removers, DeleteRow(r)
        PROVE  Contract!Next
    <3>1. status \notin {"none", "deleted"} /\ status' = "deleted"
      BY <1>3, <2>7 DEF DeleteRow, Exists
    <3>. QED
      BY <3>1
         DEF Contract!Next, Contract!Delete, Contract!Becomes, Phase, Waiting
  <2>8. ASSUME NEW w \in Workers, Unheard(w)
        PROVE  FALSE
    BY <2>8 DEF Unheard, Fault
  <2>. QED
    BY <1>3, <2>2, <2>3, <2>4, <2>5, <2>6, <2>7, <2>8, StatusWriters
<1>. QED
  BY <1>1, <1>2, <1>3

\* If the answers to committed statements arrive, the job does what
\* ExportContract promises.
THEOREM Refinement ==
    ASSUME "unheard" \notin Faults
    PROVE  Spec => ImplementsContract
<1>1. Init => Contract!Init /\ GoneInv
  BY DEF Init, Contract!Init, Phase, Waiting, GoneInv
<1>2. Inv /\ Inv' /\ GoneInv /\ [Next]_vars => GoneInv'
  BY GoneStep
<1>3. Inv /\ Inv' /\ GoneInv /\ [Next]_vars =>
         [Contract!Next]_Contract!contractVars
  <2>1. UNCHANGED vars => UNCHANGED <<Phase, File, Void>>
    BY DEF vars, rowVars, Phase, File, Void
  <2>2. Inv /\ Inv' /\ GoneInv /\ [Next]_vars =>
           [Contract!Next]_<<Phase, File, Void>>
    BY <2>1, ContractStep
  <2>. QED
    BY <2>2 DEF Contract!contractVars, File, Void
<1>. QED
  BY <1>1, <1>2, <1>3, Invariance, PTL
     DEF Spec, ImplementsContract, Contract!Spec
=============================================================================
