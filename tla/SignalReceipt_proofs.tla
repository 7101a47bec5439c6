------------------------- MODULE SignalReceipt_proofs -------------------------
(***************************************************************************)
(* What holds of a signal's receipt for every number of requests, contents *)
(* and playbooks, every interruption and every edit.                       *)
(***************************************************************************)
EXTENDS SignalReceipt, TLAPS

\* What a request holds is true, in as far as it has got.
FoundInv ==
    \A r \in Requests :
       /\ at[r] \in {"resolve", "case", "list", "run", "insert", "complete"} =>
             \A p \in Playbooks : found[r].runs[p] # NoRun =>
                runs[p] # NoRun /\ runs[p].version = found[r].runs[p].version
       /\ at[r] \in {"list", "run", "insert", "complete"} =>
             /\ found[r].case # "none" => case # "none"
             /\ Correlates(r) => found[r].case # "none"

\* Who comes second finds the receipt completed, and who replies holds it.
ReplyInv ==
    /\ status = "completed" => stored # Absent
    /\ \A r \in Requests :
          /\ at[r] = "reload" => status = "completed"
          /\ at[r] = "reply" => status = "completed" /\ found[r] = result

\* A playbook that was there from the start and is still at its first version
\* has been active all along: whoever lists, finds it.
WalkInv ==
    /\ \A p \in Existing : version[p] # 0
    /\ \A r \in Requests :
          at[r] \in {"run", "insert", "complete"} /\ sent[r].run_playbooks =>
             \A p \in Existing \cap active :
                version[p] = 1 => p \in todo[r] \/ found[r].runs[p] # NoRun

\* Only who asked for automation walks over playbooks.
WalkAsked ==
    \A r \in Requests :
        todo[r] # {} \/ at[r] = "insert" => sent[r].run_playbooks

IInv ==
    /\ TypeOK /\ FoundInv /\ ReplyInv /\ WalkInv /\ WalkAsked /\ ResultTrue
    /\ OtherContentRefused

\* What carrying on one run changes.
LEMMA Pursuing ==
    ASSUME TypeOK, NEW r \in Requests, NEW p \in Playbooks, NEW row \in Rows,
           Pursue(r, p, row)
    PROVE  /\ runs' \in [Playbooks -> Rows]
           /\ runs'[p] # NoRun /\ runs'[p].version = row.version
           /\ \A q \in Playbooks : q # p => runs'[q] = runs[q]
           /\ found' \in [Requests -> Results]
           /\ found'[r].case = found[r].case
           /\ found'[r].runs[p] = runs'[p]
           /\ \A q \in Playbooks : q # p => found'[r].runs[q] = found[r].runs[q]
           /\ \A x \in Requests : x # r => found'[x] = found[x]
           /\ todo' = [todo EXCEPT ![r] = todo[r] \ {p}]
<1>1. PICK s \in {"running", "settled"} :
         /\ runs' = [runs EXCEPT ![p] = [row EXCEPT !.status = s]]
         /\ found' = [found EXCEPT ![r].runs[p] = [row EXCEPT !.status = s]]
         /\ todo' = [todo EXCEPT ![r] = todo[r] \ {p}]
  BY DEF Pursue
<1> DEFINE new == [row EXCEPT !.status = s]
<1>2. new \in Rows /\ new.version = row.version /\ new # NoRun
  BY DEF Rows, NoRun
<1>3. /\ runs' \in [Playbooks -> Rows] /\ runs'[p] = new
      /\ \A q \in Playbooks : q # p => runs'[q] = runs[q]
  <2>1. runs' = [runs EXCEPT ![p] = new]
    BY <1>1
  <2> HIDE DEF new
  <2> QED
    BY <1>2, <2>1 DEF TypeOK
<1>4. /\ found[r] \in Results
      /\ found[r].runs \in [Playbooks -> Rows]
  BY DEF TypeOK, Results
<1>5. /\ found' \in [Requests -> Results]
      /\ found'[r].case = found[r].case
      /\ found'[r].runs[p] = new
      /\ \A q \in Playbooks : q # p => found'[r].runs[q] = found[r].runs[q]
      /\ \A x \in Requests : x # r => found'[x] = found[x]
  <2>1. found' = [found EXCEPT ![r].runs[p] = new]
    BY <1>1
  <2> HIDE DEF new
  <2>2. found' = [found EXCEPT ![r] =
                    [found[r] EXCEPT !.runs = [found[r].runs EXCEPT ![p] = new]]]
    BY <2>1
  <2>3. [found[r].runs EXCEPT ![p] = new] \in [Playbooks -> Rows]
    BY <1>2, <1>4
  <2> QED
    BY <1>2, <1>4, <2>2, <2>3 DEF TypeOK, Results
<1> QED
  BY <1>1, <1>2, <1>3, <1>5

\* The effect of carrying on a run, found or inserted.
Carried(r) ==
    \E p \in Playbooks :
       /\ runs' \in [Playbooks -> Rows]
       /\ runs'[p] # NoRun
       /\ runs[p] # NoRun => runs'[p].version = runs[p].version
       /\ \A q \in Playbooks : q # p => runs'[q] = runs[q]
       /\ found' \in [Requests -> Results]
       /\ found'[r].case = found[r].case
       /\ found'[r].runs[p] = runs'[p]
       /\ \A q \in Playbooks : q # p => found'[r].runs[q] = found[r].runs[q]
       /\ \A x \in Requests : x # r => found'[x] = found[x]
       /\ todo' = [todo EXCEPT ![r] = todo[r] \ {p}]

LEMMA Carrying ==
    ASSUME TypeOK, NEW r \in Requests, ResumeRun(r) \/ InsertRun(r)
    PROVE  Carried(r)
<1>1. CASE ResumeRun(r)
  <2>1. PICK p \in todo[r] : runs[p] # NoRun /\ Pursue(r, p, runs[p])
    BY <1>1 DEF ResumeRun
  <2>2. p \in Playbooks /\ runs[p] \in Rows
    BY DEF TypeOK
  <2> QED
    BY <2>1, <2>2, Pursuing DEF Carried
<1>2. CASE InsertRun(r)
  <2> DEFINE p == draft[r].playbook
             row == IF runs[p] = NoRun
                    THEN [version |-> draft[r].version, status |-> "running"]
                    ELSE runs[p]
  <2>1. p \in Playbooks /\ draft[r].version \in Nat
    BY <1>2 DEF InsertRun, TypeOK, Drafts
  <2>2. row \in Rows /\ (runs[p] # NoRun => row = runs[p])
    BY <2>1 DEF TypeOK, Rows
  <2>3. Pursue(r, p, row)
    BY <1>2 DEF InsertRun
  <2> HIDE DEF p, row
  <2> QED
    BY <2>1, <2>2, <2>3, Pursuing DEF Carried
<1> QED
  BY <1>1, <1>2

\* The state stays well formed.
LEMMA KeepsTypes ==
    ASSUME TypeOK, [Next]_vars
    PROVE  TypeOK'
<1>1. ASSUME NEW r \in Requests, Submit(r)
      PROVE  TypeOK'
  BY <1>1, SignalAssumption
     DEF Submit, Go, effectVars, bookVars, boundVars, TypeOK, Places, Working,
         Results, NoResult, NoRuns, NoRun, Rows, CaseStates
<1>2. ASSUME NEW r \in Requests, Resolve(r)
      PROVE  TypeOK'
  BY <1>2
     DEF Resolve, Go, rowVars, effectVars, bookVars, boundVars, TypeOK,
         Places, Working, Results
<1>3. ASSUME NEW r \in Requests, OpenCase(r)
      PROVE  TypeOK'
  BY <1>3, SignalAssumption
     DEF OpenCase, Go, rowVars, bookVars, boundVars, TypeOK, Places, Working,
         Results, CaseStates
<1>4. ASSUME NEW r \in Requests, List(r)
      PROVE  TypeOK'
  BY <1>4
     DEF List, Go, rowVars, effectVars, bookVars, boundVars, TypeOK, Places,
         Working
<1>5. ASSUME NEW r \in Requests, ResumeRun(r)
      PROVE  TypeOK'
  <2>1. Carried(r)
    BY <1>5, Carrying
  <2> QED
    BY <1>5, <2>1
       DEF ResumeRun, Carried, rowVars, bookVars, boundVars, TypeOK, Places
<1>6. ASSUME NEW r \in Requests, ReadPlaybook(r)
      PROVE  TypeOK'
  BY <1>6
     DEF ReadPlaybook, Go, rowVars, effectVars, bookVars, boundVars, TypeOK,
         Places, Working, Drafts
<1>7. ASSUME NEW r \in Requests, RunRefused(r)
      PROVE  TypeOK'
  BY <1>7
     DEF RunRefused, Go, rowVars, effectVars, bookVars, boundVars, TypeOK,
         Places
<1>8. ASSUME NEW r \in Requests, InsertRun(r)
      PROVE  TypeOK'
  <2>1. Carried(r)
    BY <1>8, Carrying
  <2> QED
    BY <1>8, <2>1
       DEF InsertRun, Carried, Go, rowVars, bookVars, boundVars, TypeOK, Places,
           Working
<1>9. ASSUME NEW r \in Requests, EndRuns(r)
      PROVE  TypeOK'
  BY <1>9
     DEF EndRuns, Go, rowVars, effectVars, bookVars, callVars, boundVars,
         TypeOK, Places, Working
<1>10. ASSUME NEW r \in Requests, Complete(r)
      PROVE  TypeOK'
  BY <1>10
     DEF Complete, Go, effectVars, bookVars, callVars, boundVars, TypeOK,
         Places, Working
<1>11. ASSUME NEW r \in Requests, Reload(r)
      PROVE  TypeOK'
  BY <1>11
     DEF Reload, Go, rowVars, effectVars, bookVars, boundVars, TypeOK, Places
<1>12. ASSUME NEW r \in Requests, Reply(r)
      PROVE  TypeOK'
  BY <1>12
     DEF Reply, Go, rowVars, effectVars, bookVars, callVars, boundVars,
         TypeOK, Places
<1>13. ASSUME NEW r \in Requests, Interrupt(r)
      PROVE  TypeOK'
  BY <1>13, SignalAssumption
     DEF Interrupt, Go, rowVars, effectVars, bookVars, TypeOK, Places
<1>14. ASSUME NEW r \in Requests, Resend(r)
      PROVE  TypeOK'
  BY <1>14
     DEF Resend, Go, rowVars, effectVars, bookVars, callVars, boundVars,
         TypeOK, Places
<1>15. ASSUME NEW p \in Playbooks, Refresh(p)
      PROVE  TypeOK'
  BY <1>15
     DEF Refresh, rowVars, bookVars, callVars, boundVars, TypeOK, Places, Rows
<1>16. ASSUME NEW p \in Playbooks, CreatePlaybook(p)
      PROVE  TypeOK'
  BY <1>16, SignalAssumption
     DEF CreatePlaybook, rowVars, effectVars, callVars, TypeOK, Places
<1>17. ASSUME NEW p \in Playbooks, UpdatePlaybook(p)
      PROVE  TypeOK'
  BY <1>17, SignalAssumption
     DEF UpdatePlaybook, rowVars, effectVars, callVars, TypeOK, Places
<1>18. CASE UpdateCase
  BY <1>18, SignalAssumption
     DEF UpdateCase, rowVars, bookVars, callVars, TypeOK, Places, CaseStates
<1>19. CASE UNCHANGED vars
  BY <1>19
     DEF vars, rowVars, effectVars, bookVars, callVars, boundVars, TypeOK,
         Places
<1> QED
  BY <1>1, <1>2, <1>3, <1>4, <1>5, <1>6, <1>7, <1>8, <1>9, <1>10, <1>11,
     <1>12, <1>13, <1>14, <1>15, <1>16, <1>17, <1>18, <1>19
     DEF Next, RequestStep

\* The row keeps the content of whoever is at it.
LEMMA KeepsContent ==
    ASSUME TypeOK, OtherContentRefused, [Next]_vars
    PROVE  OtherContentRefused'
<1>1. ASSUME NEW r \in Requests, Submit(r)
      PROVE  OtherContentRefused'
  BY <1>1, SignalAssumption
     DEF Submit, Go, bookVars, OtherContentRefused, Working, TypeOK
<1>2. ASSUME NEW r \in Requests, Resolve(r)
      PROVE  OtherContentRefused'
  BY <1>2
     DEF Resolve, Go, rowVars, bookVars, OtherContentRefused, SameContent,
         Working, TypeOK
<1>3. ASSUME NEW r \in Requests, OpenCase(r)
      PROVE  OtherContentRefused'
  BY <1>3 DEF OpenCase, Go, rowVars, bookVars, OtherContentRefused, Working
<1>4. ASSUME NEW r \in Requests, List(r)
      PROVE  OtherContentRefused'
  BY <1>4 DEF List, Go, rowVars, bookVars, OtherContentRefused, Working
<1>5. ASSUME NEW r \in Requests, ResumeRun(r)
      PROVE  OtherContentRefused'
  BY <1>5 DEF ResumeRun, Pursue, rowVars, bookVars, OtherContentRefused
<1>6. ASSUME NEW r \in Requests, ReadPlaybook(r)
      PROVE  OtherContentRefused'
  BY <1>6 DEF ReadPlaybook, Go, rowVars, bookVars, OtherContentRefused, Working
<1>7. ASSUME NEW r \in Requests, RunRefused(r)
      PROVE  OtherContentRefused'
  BY <1>7 DEF RunRefused, Go, rowVars, bookVars, OtherContentRefused, Working
<1>8. ASSUME NEW r \in Requests, InsertRun(r)
      PROVE  OtherContentRefused'
  BY <1>8
     DEF InsertRun, Pursue, Go, rowVars, bookVars, OtherContentRefused,
         Working
<1>9. ASSUME NEW r \in Requests, EndRuns(r)
      PROVE  OtherContentRefused'
  BY <1>9 DEF EndRuns, Go, rowVars, bookVars, OtherContentRefused, Working
<1>10. ASSUME NEW r \in Requests, Complete(r)
      PROVE  OtherContentRefused'
  BY <1>10 DEF Complete, Go, bookVars, OtherContentRefused, Working, TypeOK
<1>11. ASSUME NEW r \in Requests, Reload(r)
      PROVE  OtherContentRefused'
  BY <1>11 DEF Reload, Go, rowVars, bookVars, OtherContentRefused, Working
<1>12. ASSUME NEW r \in Requests, Reply(r)
      PROVE  OtherContentRefused'
  BY <1>12 DEF Reply, Go, rowVars, bookVars, OtherContentRefused
<1>13. ASSUME NEW r \in Requests, Interrupt(r)
      PROVE  OtherContentRefused'
  BY <1>13 DEF Interrupt, Go, rowVars, bookVars, OtherContentRefused, Working
<1>14. ASSUME NEW r \in Requests, Resend(r)
      PROVE  OtherContentRefused'
  BY <1>14 DEF Resend, Go, rowVars, bookVars, OtherContentRefused
<1>15. ASSUME NEW p \in Playbooks, Refresh(p)
      PROVE  OtherContentRefused'
  BY <1>15 DEF Refresh, rowVars, bookVars, OtherContentRefused
<1>16. ASSUME NEW p \in Playbooks, CreatePlaybook(p)
      PROVE  OtherContentRefused'
  BY <1>16 DEF CreatePlaybook, rowVars, OtherContentRefused
<1>17. ASSUME NEW p \in Playbooks, UpdatePlaybook(p)
      PROVE  OtherContentRefused'
  BY <1>17 DEF UpdatePlaybook, rowVars, OtherContentRefused
<1>18. CASE UpdateCase
  BY <1>18 DEF UpdateCase, rowVars, bookVars, OtherContentRefused
<1>19. CASE UNCHANGED vars
  BY <1>19 DEF vars, rowVars, bookVars, OtherContentRefused
<1> QED
  BY <1>1, <1>2, <1>3, <1>4, <1>5, <1>6, <1>7, <1>8, <1>9, <1>10, <1>11,
     <1>12, <1>13, <1>14, <1>15, <1>16, <1>17, <1>18, <1>19
     DEF Next, RequestStep

\* A run stays, and stays with the version its plan was taken from.
LEMMA KeepsRuns ==
    ASSUME TypeOK, [Next]_vars
    PROVE  \A q \in Playbooks : runs[q] # NoRun =>
              runs'[q] # NoRun /\ runs'[q].version = runs[q].version
<1>1. ASSUME NEW r \in Requests, Submit(r)
      PROVE  \A q \in Playbooks : runs[q] # NoRun =>
              runs'[q] # NoRun /\ runs'[q].version = runs[q].version
  BY <1>1 DEF Submit, effectVars
<1>2. ASSUME NEW r \in Requests, Resolve(r)
      PROVE  \A q \in Playbooks : runs[q] # NoRun =>
              runs'[q] # NoRun /\ runs'[q].version = runs[q].version
  BY <1>2 DEF Resolve, effectVars
<1>3. ASSUME NEW r \in Requests, OpenCase(r)
      PROVE  \A q \in Playbooks : runs[q] # NoRun =>
              runs'[q] # NoRun /\ runs'[q].version = runs[q].version
  BY <1>3 DEF OpenCase
<1>4. ASSUME NEW r \in Requests, List(r)
      PROVE  \A q \in Playbooks : runs[q] # NoRun =>
              runs'[q] # NoRun /\ runs'[q].version = runs[q].version
  BY <1>4 DEF List, effectVars
<1>5. ASSUME NEW r \in Requests, ResumeRun(r)
      PROVE  \A q \in Playbooks : runs[q] # NoRun =>
              runs'[q] # NoRun /\ runs'[q].version = runs[q].version
  <2>1. Carried(r)
    BY <1>5, Carrying
  <2> QED
    BY <1>5, <2>1 DEF ResumeRun, Carried, TypeOK
<1>6. ASSUME NEW r \in Requests, ReadPlaybook(r)
      PROVE  \A q \in Playbooks : runs[q] # NoRun =>
              runs'[q] # NoRun /\ runs'[q].version = runs[q].version
  BY <1>6 DEF ReadPlaybook, effectVars
<1>7. ASSUME NEW r \in Requests, RunRefused(r)
      PROVE  \A q \in Playbooks : runs[q] # NoRun =>
              runs'[q] # NoRun /\ runs'[q].version = runs[q].version
  BY <1>7 DEF RunRefused, effectVars
<1>8. ASSUME NEW r \in Requests, InsertRun(r)
      PROVE  \A q \in Playbooks : runs[q] # NoRun =>
              runs'[q] # NoRun /\ runs'[q].version = runs[q].version
  <2>1. Carried(r)
    BY <1>8, Carrying
  <2> QED
    BY <1>8, <2>1 DEF InsertRun, Carried
<1>9. ASSUME NEW r \in Requests, EndRuns(r)
      PROVE  \A q \in Playbooks : runs[q] # NoRun =>
              runs'[q] # NoRun /\ runs'[q].version = runs[q].version
  BY <1>9 DEF EndRuns, effectVars
<1>10. ASSUME NEW r \in Requests, Complete(r)
      PROVE  \A q \in Playbooks : runs[q] # NoRun =>
              runs'[q] # NoRun /\ runs'[q].version = runs[q].version
  BY <1>10 DEF Complete, effectVars
<1>11. ASSUME NEW r \in Requests, Reload(r)
      PROVE  \A q \in Playbooks : runs[q] # NoRun =>
              runs'[q] # NoRun /\ runs'[q].version = runs[q].version
  BY <1>11 DEF Reload, effectVars
<1>12. ASSUME NEW r \in Requests, Reply(r)
      PROVE  \A q \in Playbooks : runs[q] # NoRun =>
              runs'[q] # NoRun /\ runs'[q].version = runs[q].version
  BY <1>12 DEF Reply, effectVars
<1>13. ASSUME NEW r \in Requests, Interrupt(r)
      PROVE  \A q \in Playbooks : runs[q] # NoRun =>
              runs'[q] # NoRun /\ runs'[q].version = runs[q].version
  BY <1>13 DEF Interrupt, effectVars
<1>14. ASSUME NEW r \in Requests, Resend(r)
      PROVE  \A q \in Playbooks : runs[q] # NoRun =>
              runs'[q] # NoRun /\ runs'[q].version = runs[q].version
  BY <1>14 DEF Resend, effectVars
<1>15. ASSUME NEW p \in Playbooks, Refresh(p)
      PROVE  \A q \in Playbooks : runs[q] # NoRun =>
              runs'[q] # NoRun /\ runs'[q].version = runs[q].version
  BY <1>15 DEF Refresh, TypeOK, NoRun, Rows
<1>16. ASSUME NEW p \in Playbooks, CreatePlaybook(p)
      PROVE  \A q \in Playbooks : runs[q] # NoRun =>
              runs'[q] # NoRun /\ runs'[q].version = runs[q].version
  BY <1>16 DEF CreatePlaybook, effectVars
<1>17. ASSUME NEW p \in Playbooks, UpdatePlaybook(p)
      PROVE  \A q \in Playbooks : runs[q] # NoRun =>
              runs'[q] # NoRun /\ runs'[q].version = runs[q].version
  BY <1>17 DEF UpdatePlaybook, effectVars
<1>18. CASE UpdateCase
  BY <1>18 DEF UpdateCase
<1>19. CASE UNCHANGED vars
  BY <1>19 DEF vars, effectVars
<1> QED
  BY <1>1, <1>2, <1>3, <1>4, <1>5, <1>6, <1>7, <1>8, <1>9, <1>10, <1>11,
     <1>12, <1>13, <1>14, <1>15, <1>16, <1>17, <1>18, <1>19
     DEF Next, RequestStep

\* What the requests carry never changes, and the row is inserted once: which
\* deliveries are of its content is then known.
LEMMA KeepsSent ==
    ASSUME TypeOK, [Next]_vars
    PROVE  /\ sent' = sent
           /\ stored # Absent => stored' = stored /\ Deliveries' = Deliveries
<1>1. sent' = sent
  BY DEF Next, RequestStep, Submit, Resolve, OpenCase, List, ResumeRun,
         ReadPlaybook, RunRefused, InsertRun, EndRuns, Complete, Reload, Reply,
         Interrupt, Resend, Refresh, CreatePlaybook, UpdatePlaybook, UpdateCase,
         vars, bookVars
<1>2. stored # Absent => stored' = stored
  BY DEF Next, RequestStep, Submit, Resolve, OpenCase, List, ResumeRun,
         ReadPlaybook, RunRefused, InsertRun, EndRuns, Complete, Reload, Reply,
         Interrupt, Resend, Refresh, CreatePlaybook, UpdatePlaybook, UpdateCase,
         vars, rowVars
<1> QED
  BY <1>1, <1>2 DEF Deliveries

\* What was opened stays open.
LEMMA KeepsFound ==
    ASSUME TypeOK, FoundInv, [Next]_vars
    PROVE  FoundInv'
<1>. USE DEF Correlates
<1>0. sent' = sent
  BY KeepsSent
<1>1. ASSUME NEW r \in Requests, Submit(r)
      PROVE  FoundInv'
  BY <1>0, <1>1 DEF Submit, Go, effectVars, FoundInv, TypeOK, NoResult, NoRuns
<1>2. ASSUME NEW r \in Requests, Resolve(r)
      PROVE  FoundInv'
  BY <1>0, <1>2 DEF Resolve, Go, effectVars, FoundInv, TypeOK
<1>3. ASSUME NEW r \in Requests, OpenCase(r)
      PROVE  FoundInv'
  BY <1>0, <1>3, SignalAssumption
     DEF OpenCase, Go, FoundInv, TypeOK, Results, CaseStates
<1>4. ASSUME NEW r \in Requests, List(r)
      PROVE  FoundInv'
  BY <1>0, <1>4 DEF List, Go, effectVars, FoundInv
<1>5. ASSUME NEW r \in Requests, ResumeRun(r)
      PROVE  FoundInv'
  <2>1. Carried(r)
    BY <1>0, <1>5, Carrying
  <2> QED
    <3>1. case' = case /\ at[r] \in {"run", "insert"}
          /\ (at' = at \/ at' = [at EXCEPT ![r] = "run"])
      BY <1>5 DEF ResumeRun, Go
    <3>2. ASSUME NEW x \in Requests, x # r
          PROVE  found'[x] = found[x] /\ at'[x] = at[x]
      BY <2>1, <3>1, <3>2 DEF Carried, TypeOK
    <3>3. /\ found'[r].case = found[r].case
          /\ \A p \in Playbooks : found'[r].runs[p] # NoRun =>
                runs'[p] # NoRun /\ runs'[p].version = found'[r].runs[p].version
      BY <2>1, <3>1, KeepsRuns DEF Carried, FoundInv
    <3> QED
      BY <1>0, <3>1, <3>2, <3>3, KeepsRuns DEF FoundInv
<1>6. ASSUME NEW r \in Requests, ReadPlaybook(r)
      PROVE  FoundInv'
  BY <1>0, <1>6 DEF ReadPlaybook, Go, effectVars, FoundInv
<1>7. ASSUME NEW r \in Requests, RunRefused(r)
      PROVE  FoundInv'
  BY <1>0, <1>7 DEF RunRefused, Go, effectVars, FoundInv
<1>8. ASSUME NEW r \in Requests, InsertRun(r)
      PROVE  FoundInv'
  <2>1. Carried(r)
    BY <1>0, <1>8, Carrying
  <2> QED
    <3>1. case' = case /\ at[r] \in {"run", "insert"}
          /\ (at' = at \/ at' = [at EXCEPT ![r] = "run"])
      BY <1>8 DEF InsertRun, Go
    <3>2. ASSUME NEW x \in Requests, x # r
          PROVE  found'[x] = found[x] /\ at'[x] = at[x]
      BY <2>1, <3>1, <3>2 DEF Carried, TypeOK
    <3>3. /\ found'[r].case = found[r].case
          /\ \A p \in Playbooks : found'[r].runs[p] # NoRun =>
                runs'[p] # NoRun /\ runs'[p].version = found'[r].runs[p].version
      BY <2>1, <3>1, KeepsRuns DEF Carried, FoundInv
    <3> QED
      BY <1>0, <3>1, <3>2, <3>3, KeepsRuns DEF FoundInv
<1>9. ASSUME NEW r \in Requests, EndRuns(r)
      PROVE  FoundInv'
  BY <1>0, <1>9 DEF EndRuns, Go, effectVars, callVars, FoundInv
<1>10. ASSUME NEW r \in Requests, Complete(r)
      PROVE  FoundInv'
  BY <1>0, <1>10 DEF Complete, Go, effectVars, callVars, FoundInv, TypeOK
<1>11. ASSUME NEW r \in Requests, Reload(r)
      PROVE  FoundInv'
  BY <1>0, <1>11 DEF Reload, Go, effectVars, FoundInv
<1>12. ASSUME NEW r \in Requests, Reply(r)
      PROVE  FoundInv'
  BY <1>0, <1>12 DEF Reply, Go, effectVars, callVars, FoundInv
<1>13. ASSUME NEW r \in Requests, Interrupt(r)
      PROVE  FoundInv'
  BY <1>0, <1>13 DEF Interrupt, Go, effectVars, FoundInv
<1>14. ASSUME NEW r \in Requests, Resend(r)
      PROVE  FoundInv'
  BY <1>0, <1>14 DEF Resend, Go, effectVars, callVars, FoundInv
<1>15. ASSUME NEW p \in Playbooks, Refresh(p)
      PROVE  FoundInv'
  BY <1>0, <1>15, KeepsRuns DEF Refresh, callVars, FoundInv
<1>16. ASSUME NEW p \in Playbooks, CreatePlaybook(p)
      PROVE  FoundInv'
  BY <1>0, <1>16 DEF CreatePlaybook, effectVars, callVars, FoundInv
<1>17. ASSUME NEW p \in Playbooks, UpdatePlaybook(p)
      PROVE  FoundInv'
  BY <1>0, <1>17 DEF UpdatePlaybook, effectVars, callVars, FoundInv
<1>18. CASE UpdateCase
  BY <1>0, <1>18 DEF UpdateCase, callVars, FoundInv
<1>19. CASE UNCHANGED vars
  BY <1>0, <1>19 DEF vars, effectVars, callVars, FoundInv
<1> QED
  BY <1>1, <1>2, <1>3, <1>4, <1>5, <1>6, <1>7, <1>8, <1>9, <1>10, <1>11,
     <1>12, <1>13, <1>14, <1>15, <1>16, <1>17, <1>18, <1>19
     DEF Next, RequestStep

\* A completed receipt does not change under who replies.
LEMMA KeepsReply ==
    ASSUME TypeOK, OtherContentRefused, ReplyInv, [Next]_vars
    PROVE  ReplyInv'
<1>1. ASSUME NEW r \in Requests, Submit(r)
      PROVE  ReplyInv'
  BY <1>1 DEF Submit, Go, ReplyInv
<1>2. ASSUME NEW r \in Requests, Resolve(r)
      PROVE  ReplyInv'
  BY <1>2 DEF Resolve, Go, rowVars, ReplyInv, TypeOK, SameContent
<1>3. ASSUME NEW r \in Requests, OpenCase(r)
      PROVE  ReplyInv'
  BY <1>3 DEF OpenCase, Go, rowVars, ReplyInv
<1>4. ASSUME NEW r \in Requests, List(r)
      PROVE  ReplyInv'
  BY <1>4 DEF List, Go, rowVars, ReplyInv
<1>5. ASSUME NEW r \in Requests, ResumeRun(r)
      PROVE  ReplyInv'
  <2>1. Carried(r)
    BY <1>5, Carrying
  <2> QED
    BY <1>5, <2>1 DEF ResumeRun, Carried, rowVars, ReplyInv, TypeOK
<1>6. ASSUME NEW r \in Requests, ReadPlaybook(r)
      PROVE  ReplyInv'
  BY <1>6 DEF ReadPlaybook, Go, rowVars, ReplyInv
<1>7. ASSUME NEW r \in Requests, RunRefused(r)
      PROVE  ReplyInv'
  BY <1>7 DEF RunRefused, Go, rowVars, ReplyInv
<1>8. ASSUME NEW r \in Requests, InsertRun(r)
      PROVE  ReplyInv'
  <2>1. Carried(r)
    BY <1>8, Carrying
  <2> QED
    BY <1>8, <2>1 DEF InsertRun, Carried, Go, rowVars, ReplyInv, TypeOK
<1>9. ASSUME NEW r \in Requests, EndRuns(r)
      PROVE  ReplyInv'
  BY <1>9 DEF EndRuns, Go, rowVars, callVars, ReplyInv
<1>10. ASSUME NEW r \in Requests, Complete(r)
      PROVE  ReplyInv'
  BY <1>10, SignalAssumption
     DEF Complete, Go, callVars, ReplyInv, Working, TypeOK,
         OtherContentRefused
<1>11. ASSUME NEW r \in Requests, Reload(r)
      PROVE  ReplyInv'
  BY <1>11 DEF Reload, Go, rowVars, ReplyInv, TypeOK
<1>12. ASSUME NEW r \in Requests, Reply(r)
      PROVE  ReplyInv'
  BY <1>12 DEF Reply, Go, rowVars, callVars, ReplyInv
<1>13. ASSUME NEW r \in Requests, Interrupt(r)
      PROVE  ReplyInv'
  BY <1>13 DEF Interrupt, Go, rowVars, ReplyInv
<1>14. ASSUME NEW r \in Requests, Resend(r)
      PROVE  ReplyInv'
  BY <1>14 DEF Resend, Go, rowVars, callVars, ReplyInv
<1>15. ASSUME NEW p \in Playbooks, Refresh(p)
      PROVE  ReplyInv'
  BY <1>15 DEF Refresh, rowVars, callVars, ReplyInv
<1>16. ASSUME NEW p \in Playbooks, CreatePlaybook(p)
      PROVE  ReplyInv'
  BY <1>16 DEF CreatePlaybook, rowVars, callVars, ReplyInv
<1>17. ASSUME NEW p \in Playbooks, UpdatePlaybook(p)
      PROVE  ReplyInv'
  BY <1>17 DEF UpdatePlaybook, rowVars, callVars, ReplyInv
<1>18. CASE UpdateCase
  BY <1>18 DEF UpdateCase, rowVars, callVars, ReplyInv
<1>19. CASE UNCHANGED vars
  BY <1>19 DEF vars, rowVars, callVars, ReplyInv
<1> QED
  BY <1>1, <1>2, <1>3, <1>4, <1>5, <1>6, <1>7, <1>8, <1>9, <1>10, <1>11,
     <1>12, <1>13, <1>14, <1>15, <1>16, <1>17, <1>18, <1>19
     DEF Next, RequestStep

\* No step loses a playbook of a walk.
LEMMA KeepsWalk ==
    ASSUME TypeOK, WalkInv, [Next]_vars
    PROVE  WalkInv'
<1>1. ASSUME NEW r \in Requests, Submit(r)
      PROVE  WalkInv'
  BY <1>1 DEF Submit, Go, bookVars, WalkInv, TypeOK
<1>2. ASSUME NEW r \in Requests, Resolve(r)
      PROVE  WalkInv'
  BY <1>2 DEF Resolve, Go, bookVars, WalkInv, TypeOK
<1>3. ASSUME NEW r \in Requests, OpenCase(r)
      PROVE  WalkInv'
  BY <1>3 DEF OpenCase, Go, bookVars, WalkInv, TypeOK
<1>4. ASSUME NEW r \in Requests, List(r)
      PROVE  WalkInv'
  BY <1>4 DEF List, Go, bookVars, WalkInv, TypeOK
<1>5. ASSUME NEW r \in Requests, ResumeRun(r)
      PROVE  WalkInv'
  <2>1. Carried(r)
    BY <1>5, Carrying
  <2> QED
    BY <1>5, <2>1 DEF ResumeRun, Carried, bookVars, WalkInv, TypeOK
<1>6. ASSUME NEW r \in Requests, ReadPlaybook(r)
      PROVE  WalkInv'
  BY <1>6 DEF ReadPlaybook, Go, bookVars, WalkInv, TypeOK
<1>7. ASSUME NEW r \in Requests, RunRefused(r)
      PROVE  WalkInv'
  BY <1>7 DEF RunRefused, Go, bookVars, WalkInv, TypeOK
<1>8. ASSUME NEW r \in Requests, InsertRun(r)
      PROVE  WalkInv'
  <2>1. Carried(r)
    BY <1>8, Carrying
  <2> QED
    BY <1>8, <2>1 DEF InsertRun, Carried, Go, bookVars, WalkInv, TypeOK
<1>9. ASSUME NEW r \in Requests, EndRuns(r)
      PROVE  WalkInv'
  BY <1>9 DEF EndRuns, Go, bookVars, callVars, WalkInv, TypeOK
<1>10. ASSUME NEW r \in Requests, Complete(r)
      PROVE  WalkInv'
  BY <1>10 DEF Complete, Go, bookVars, callVars, WalkInv, TypeOK
<1>11. ASSUME NEW r \in Requests, Reload(r)
      PROVE  WalkInv'
  BY <1>11 DEF Reload, Go, bookVars, WalkInv, TypeOK
<1>12. ASSUME NEW r \in Requests, Reply(r)
      PROVE  WalkInv'
  BY <1>12 DEF Reply, Go, bookVars, callVars, WalkInv
<1>13. ASSUME NEW r \in Requests, Interrupt(r)
      PROVE  WalkInv'
  BY <1>13 DEF Interrupt, Go, bookVars, WalkInv, TypeOK
<1>14. ASSUME NEW r \in Requests, Resend(r)
      PROVE  WalkInv'
  BY <1>14 DEF Resend, Go, bookVars, callVars, WalkInv
<1>15. ASSUME NEW p \in Playbooks, Refresh(p)
      PROVE  WalkInv'
  BY <1>15 DEF Refresh, bookVars, callVars, WalkInv
<1>16. ASSUME NEW p \in Playbooks, CreatePlaybook(p)
      PROVE  WalkInv'
  BY <1>16 DEF CreatePlaybook, callVars, WalkInv, TypeOK
<1>17. ASSUME NEW p \in Playbooks, UpdatePlaybook(p)
      PROVE  WalkInv'
  BY <1>17 DEF UpdatePlaybook, callVars, WalkInv, TypeOK
<1>18. CASE UpdateCase
  BY <1>18 DEF UpdateCase, bookVars, callVars, WalkInv
<1>19. CASE UNCHANGED vars
  BY <1>19 DEF vars, bookVars, callVars, WalkInv
<1> QED
  BY <1>1, <1>2, <1>3, <1>4, <1>5, <1>6, <1>7, <1>8, <1>9, <1>10, <1>11,
     <1>12, <1>13, <1>14, <1>15, <1>16, <1>17, <1>18, <1>19
     DEF Next, RequestStep

\* A request has playbooks to walk over only once it listed some.
LEMMA KeepsWalkAsked ==
    ASSUME TypeOK, WalkAsked, [Next]_vars
    PROVE  WalkAsked'
<1>0. sent' = sent
  BY KeepsSent
<1>1. ASSUME NEW r \in Requests, Submit(r)
      PROVE  WalkAsked'
  BY <1>0, <1>1 DEF Submit, Go, callVars, WalkAsked, TypeOK
<1>2. ASSUME NEW r \in Requests, Resolve(r)
      PROVE  WalkAsked'
  BY <1>0, <1>2 DEF Resolve, Go, callVars, WalkAsked, TypeOK
<1>3. ASSUME NEW r \in Requests, OpenCase(r)
      PROVE  WalkAsked'
  BY <1>0, <1>3 DEF OpenCase, Go, callVars, WalkAsked, TypeOK
<1>4. ASSUME NEW r \in Requests, List(r)
      PROVE  WalkAsked'
  BY <1>0, <1>4 DEF List, Go, callVars, WalkAsked, TypeOK
<1>5. ASSUME NEW r \in Requests, ResumeRun(r)
      PROVE  WalkAsked'
  <2>1. Carried(r)
    BY <1>5, Carrying
  <2> QED
    BY <1>0, <1>5, <2>1 DEF ResumeRun, Carried, Go, WalkAsked, TypeOK
<1>6. ASSUME NEW r \in Requests, ReadPlaybook(r)
      PROVE  WalkAsked'
  BY <1>0, <1>6 DEF ReadPlaybook, Go, callVars, WalkAsked, TypeOK
<1>7. ASSUME NEW r \in Requests, RunRefused(r)
      PROVE  WalkAsked'
  BY <1>0, <1>7 DEF RunRefused, Go, callVars, WalkAsked, TypeOK
<1>8. ASSUME NEW r \in Requests, InsertRun(r)
      PROVE  WalkAsked'
  <2>1. Carried(r)
    BY <1>8, Carrying
  <2> QED
    BY <1>0, <1>8, <2>1 DEF InsertRun, Carried, Go, WalkAsked, TypeOK
<1>9. ASSUME NEW r \in Requests, EndRuns(r)
      PROVE  WalkAsked'
  BY <1>0, <1>9 DEF EndRuns, Go, callVars, WalkAsked, TypeOK
<1>10. ASSUME NEW r \in Requests, Complete(r)
      PROVE  WalkAsked'
  BY <1>0, <1>10 DEF Complete, Go, callVars, WalkAsked, TypeOK
<1>11. ASSUME NEW r \in Requests, Reload(r)
      PROVE  WalkAsked'
  BY <1>0, <1>11 DEF Reload, Go, callVars, WalkAsked, TypeOK
<1>12. ASSUME NEW r \in Requests, Reply(r)
      PROVE  WalkAsked'
  BY <1>0, <1>12 DEF Reply, Go, callVars, WalkAsked, TypeOK
<1>13. ASSUME NEW r \in Requests, Interrupt(r)
      PROVE  WalkAsked'
  BY <1>0, <1>13 DEF Interrupt, Go, callVars, WalkAsked, TypeOK
<1>14. ASSUME NEW r \in Requests, Resend(r)
      PROVE  WalkAsked'
  BY <1>0, <1>14 DEF Resend, Go, callVars, WalkAsked, TypeOK
<1>15. ASSUME NEW p \in Playbooks, Refresh(p)
      PROVE  WalkAsked'
  BY <1>0, <1>15 DEF Refresh, Go, callVars, WalkAsked, TypeOK
<1>16. ASSUME NEW p \in Playbooks, CreatePlaybook(p)
      PROVE  WalkAsked'
  BY <1>0, <1>16 DEF CreatePlaybook, Go, callVars, WalkAsked, TypeOK
<1>17. ASSUME NEW p \in Playbooks, UpdatePlaybook(p)
      PROVE  WalkAsked'
  BY <1>0, <1>17 DEF UpdatePlaybook, Go, callVars, WalkAsked, TypeOK
<1>18. CASE UpdateCase
  BY <1>0, <1>18 DEF UpdateCase, Go, callVars, WalkAsked, TypeOK
<1>19. CASE UNCHANGED vars
  BY <1>0, <1>19 DEF vars, callVars, WalkAsked, TypeOK
<1> QED
  BY <1>1, <1>2, <1>3, <1>4, <1>5, <1>6, <1>7, <1>8, <1>9, <1>10, <1>11,
     <1>12, <1>13, <1>14, <1>15, <1>16, <1>17, <1>18, <1>19
     DEF Next, RequestStep

\* A case is opened and a run is made by a delivery of this content that asked
\* for it.
LEMMA KeepsEffects ==
    ASSUME TypeOK, OtherContentRefused, WalkAsked, EffectsAsked, [Next]_vars
    PROVE  EffectsAsked'
<1>0. sent' = sent /\ (stored # Absent => Deliveries' = Deliveries)
  BY KeepsSent
<1>a. case # "none" \/ runs # NoRuns => stored # Absent
  BY SignalAssumption DEF EffectsAsked, Deliveries, TypeOK
<1>1. ASSUME NEW r \in Requests, Submit(r)
      PROVE  EffectsAsked'
  BY <1>0, <1>1, <1>a DEF Submit, effectVars, EffectsAsked
<1>2. ASSUME NEW r \in Requests, Resolve(r)
      PROVE  EffectsAsked'
  BY <1>0, <1>2, <1>a DEF Resolve, effectVars, EffectsAsked
<1>3. ASSUME NEW r \in Requests, OpenCase(r)
      PROVE  EffectsAsked'
  <2>1. stored = sent[r].content
    BY <1>3 DEF OpenCase, OtherContentRefused, Working
  <2>2. r \in Deliveries /\ stored # Absent
    BY <2>1, SignalAssumption DEF Deliveries, TypeOK
  <2> QED
    BY <1>0, <1>3, <2>2 DEF OpenCase, Correlates, EffectsAsked
<1>4. ASSUME NEW r \in Requests, List(r)
      PROVE  EffectsAsked'
  BY <1>0, <1>4, <1>a DEF List, effectVars, EffectsAsked
<1>5. ASSUME NEW r \in Requests, ResumeRun(r)
      PROVE  EffectsAsked'
  <2>1. r \in Deliveries /\ stored # Absent
    BY <1>5, SignalAssumption
       DEF ResumeRun, OtherContentRefused, Working, Deliveries, TypeOK
  <2>2. sent[r].run_playbooks
    BY <1>5 DEF ResumeRun, WalkAsked
  <2>3. case' = case
    BY <1>5 DEF ResumeRun
  <2> QED
    BY <1>0, <2>1, <2>2, <2>3 DEF EffectsAsked
<1>6. ASSUME NEW r \in Requests, ReadPlaybook(r)
      PROVE  EffectsAsked'
  BY <1>0, <1>6, <1>a DEF ReadPlaybook, effectVars, EffectsAsked
<1>7. ASSUME NEW r \in Requests, RunRefused(r)
      PROVE  EffectsAsked'
  BY <1>0, <1>7, <1>a DEF RunRefused, effectVars, EffectsAsked
<1>8. ASSUME NEW r \in Requests, InsertRun(r)
      PROVE  EffectsAsked'
  <2>1. r \in Deliveries /\ stored # Absent
    BY <1>8, SignalAssumption
       DEF InsertRun, OtherContentRefused, Working, Deliveries, TypeOK
  <2>2. sent[r].run_playbooks
    BY <1>8 DEF InsertRun, WalkAsked
  <2>3. case' = case
    BY <1>8 DEF InsertRun
  <2> QED
    BY <1>0, <2>1, <2>2, <2>3 DEF EffectsAsked
<1>9. ASSUME NEW r \in Requests, EndRuns(r)
      PROVE  EffectsAsked'
  BY <1>0, <1>9, <1>a DEF EndRuns, effectVars, EffectsAsked
<1>10. ASSUME NEW r \in Requests, Complete(r)
      PROVE  EffectsAsked'
  BY <1>0, <1>10, <1>a DEF Complete, effectVars, EffectsAsked
<1>11. ASSUME NEW r \in Requests, Reload(r)
      PROVE  EffectsAsked'
  BY <1>0, <1>11, <1>a DEF Reload, effectVars, EffectsAsked
<1>12. ASSUME NEW r \in Requests, Reply(r)
      PROVE  EffectsAsked'
  BY <1>0, <1>12, <1>a DEF Reply, effectVars, EffectsAsked
<1>13. ASSUME NEW r \in Requests, Interrupt(r)
      PROVE  EffectsAsked'
  BY <1>0, <1>13, <1>a DEF Interrupt, effectVars, EffectsAsked
<1>14. ASSUME NEW r \in Requests, Resend(r)
      PROVE  EffectsAsked'
  BY <1>0, <1>14, <1>a DEF Resend, effectVars, EffectsAsked
<1>15. ASSUME NEW p \in Playbooks, Refresh(p)
      PROVE  EffectsAsked'
  BY <1>0, <1>15, <1>a DEF Refresh, EffectsAsked, NoRuns
<1>16. ASSUME NEW p \in Playbooks, CreatePlaybook(p)
      PROVE  EffectsAsked'
  BY <1>0, <1>16, <1>a DEF CreatePlaybook, effectVars, EffectsAsked
<1>17. ASSUME NEW p \in Playbooks, UpdatePlaybook(p)
      PROVE  EffectsAsked'
  BY <1>0, <1>17, <1>a DEF UpdatePlaybook, effectVars, EffectsAsked
<1>18. CASE UpdateCase
  BY <1>0, <1>18, <1>a DEF UpdateCase, EffectsAsked
<1>19. CASE UNCHANGED vars
  BY <1>0, <1>19, <1>a DEF vars, effectVars, EffectsAsked
<1> QED
  BY <1>1, <1>2, <1>3, <1>4, <1>5, <1>6, <1>7, <1>8, <1>9, <1>10, <1>11,
     <1>12, <1>13, <1>14, <1>15, <1>16, <1>17, <1>18, <1>19
     DEF Next, RequestStep

\* The snapshot is taken of what a request has found.
LEMMA KeepsResult ==
    ASSUME TypeOK, OtherContentRefused, FoundInv, ReplyInv, SnapshotTrue,
           AnswersTrue, [Next]_vars
    PROVE  SnapshotTrue' /\ AnswersTrue'
<1>0. sent' = sent /\ (status = "completed" => Deliveries' = Deliveries)
  BY KeepsSent DEF ReplyInv
<1>1. ASSUME NEW r \in Requests, Submit(r)
      PROVE  SnapshotTrue' /\ AnswersTrue'
  BY <1>0, <1>1 DEF Submit, effectVars, SnapshotTrue, AnswersTrue
<1>2. ASSUME NEW r \in Requests, Resolve(r)
      PROVE  SnapshotTrue' /\ AnswersTrue'
  BY <1>0, <1>2 DEF Resolve, rowVars, effectVars, SnapshotTrue, AnswersTrue
<1>3. ASSUME NEW r \in Requests, OpenCase(r)
      PROVE  SnapshotTrue' /\ AnswersTrue'
  BY <1>0, <1>3 DEF OpenCase, rowVars, SnapshotTrue, AnswersTrue
<1>4. ASSUME NEW r \in Requests, List(r)
      PROVE  SnapshotTrue' /\ AnswersTrue'
  BY <1>0, <1>4 DEF List, rowVars, effectVars, SnapshotTrue, AnswersTrue
<1>5. ASSUME NEW r \in Requests, ResumeRun(r)
      PROVE  SnapshotTrue' /\ AnswersTrue'
  BY <1>0, <1>5, KeepsRuns DEF ResumeRun, Pursue, rowVars, SnapshotTrue, AnswersTrue
<1>6. ASSUME NEW r \in Requests, ReadPlaybook(r)
      PROVE  SnapshotTrue' /\ AnswersTrue'
  BY <1>0, <1>6 DEF ReadPlaybook, rowVars, effectVars, SnapshotTrue, AnswersTrue
<1>7. ASSUME NEW r \in Requests, RunRefused(r)
      PROVE  SnapshotTrue' /\ AnswersTrue'
  BY <1>0, <1>7 DEF RunRefused, rowVars, effectVars, SnapshotTrue, AnswersTrue
<1>8. ASSUME NEW r \in Requests, InsertRun(r)
      PROVE  SnapshotTrue' /\ AnswersTrue'
  BY <1>0, <1>8, KeepsRuns DEF InsertRun, Pursue, rowVars, SnapshotTrue, AnswersTrue
<1>9. ASSUME NEW r \in Requests, EndRuns(r)
      PROVE  SnapshotTrue' /\ AnswersTrue'
  BY <1>0, <1>9 DEF EndRuns, rowVars, effectVars, SnapshotTrue, AnswersTrue
<1>10. ASSUME NEW r \in Requests, Complete(r)
      PROVE  SnapshotTrue' /\ AnswersTrue'
  <2>1. r \in Deliveries /\ Deliveries' = Deliveries
    BY <1>0, <1>10
       DEF Complete, OtherContentRefused, Working, Deliveries
  <2>2. /\ found[r].case # "none" => case # "none"
        /\ Correlates(r) => found[r].case # "none"
        /\ \A p \in Playbooks : found[r].runs[p] # NoRun =>
              runs[p] # NoRun /\ runs[p].version = found[r].runs[p].version
    BY <1>10 DEF Complete, FoundInv
  <2> QED
    BY <1>0, <1>10, <2>1, <2>2
       DEF Complete, effectVars, SnapshotTrue, AnswersTrue, Correlates
<1>11. ASSUME NEW r \in Requests, Reload(r)
      PROVE  SnapshotTrue' /\ AnswersTrue'
  BY <1>0, <1>11 DEF Reload, rowVars, effectVars, SnapshotTrue, AnswersTrue
<1>12. ASSUME NEW r \in Requests, Reply(r)
      PROVE  SnapshotTrue' /\ AnswersTrue'
  BY <1>0, <1>12 DEF Reply, rowVars, effectVars, SnapshotTrue, AnswersTrue, ReplyInv
<1>13. ASSUME NEW r \in Requests, Interrupt(r)
      PROVE  SnapshotTrue' /\ AnswersTrue'
  BY <1>0, <1>13 DEF Interrupt, rowVars, effectVars, SnapshotTrue, AnswersTrue
<1>14. ASSUME NEW r \in Requests, Resend(r)
      PROVE  SnapshotTrue' /\ AnswersTrue'
  BY <1>0, <1>14 DEF Resend, rowVars, effectVars, SnapshotTrue, AnswersTrue
<1>15. ASSUME NEW p \in Playbooks, Refresh(p)
      PROVE  SnapshotTrue' /\ AnswersTrue'
  BY <1>0, <1>15, KeepsRuns DEF Refresh, rowVars, SnapshotTrue, AnswersTrue
<1>16. ASSUME NEW p \in Playbooks, CreatePlaybook(p)
      PROVE  SnapshotTrue' /\ AnswersTrue'
  BY <1>0, <1>16 DEF CreatePlaybook, rowVars, effectVars, SnapshotTrue, AnswersTrue
<1>17. ASSUME NEW p \in Playbooks, UpdatePlaybook(p)
      PROVE  SnapshotTrue' /\ AnswersTrue'
  BY <1>0, <1>17 DEF UpdatePlaybook, rowVars, effectVars, SnapshotTrue, AnswersTrue
<1>18. CASE UpdateCase
  BY <1>0, <1>18 DEF UpdateCase, rowVars, SnapshotTrue, AnswersTrue
<1>19. CASE UNCHANGED vars
  BY <1>0, <1>19 DEF vars, rowVars, effectVars, SnapshotTrue, AnswersTrue
<1> QED
  BY <1>1, <1>2, <1>3, <1>4, <1>5, <1>6, <1>7, <1>8, <1>9, <1>10, <1>11,
     <1>12, <1>13, <1>14, <1>15, <1>16, <1>17, <1>18, <1>19
     DEF Next, RequestStep

\* Only the first completion writes the receipt.
LEMMA Written ==
    ASSUME status = "completed", stored # Absent, [Next]_vars
    PROVE  UNCHANGED rowVars
<1>1. ASSUME NEW r \in Requests, Submit(r)
      PROVE  UNCHANGED rowVars
  BY <1>1 DEF Submit, rowVars
<1>2. ASSUME NEW r \in Requests, Resolve(r)
      PROVE  UNCHANGED rowVars
  BY <1>2 DEF Resolve, rowVars
<1>3. ASSUME NEW r \in Requests, OpenCase(r)
      PROVE  UNCHANGED rowVars
  BY <1>3 DEF OpenCase, rowVars
<1>4. ASSUME NEW r \in Requests, List(r)
      PROVE  UNCHANGED rowVars
  BY <1>4 DEF List, rowVars
<1>5. ASSUME NEW r \in Requests, ResumeRun(r)
      PROVE  UNCHANGED rowVars
  BY <1>5 DEF ResumeRun, Pursue, rowVars
<1>6. ASSUME NEW r \in Requests, ReadPlaybook(r)
      PROVE  UNCHANGED rowVars
  BY <1>6 DEF ReadPlaybook, rowVars
<1>7. ASSUME NEW r \in Requests, RunRefused(r)
      PROVE  UNCHANGED rowVars
  BY <1>7 DEF RunRefused, rowVars
<1>8. ASSUME NEW r \in Requests, InsertRun(r)
      PROVE  UNCHANGED rowVars
  BY <1>8 DEF InsertRun, Pursue, rowVars
<1>9. ASSUME NEW r \in Requests, EndRuns(r)
      PROVE  UNCHANGED rowVars
  BY <1>9 DEF EndRuns, rowVars
<1>10. ASSUME NEW r \in Requests, Complete(r)
      PROVE  UNCHANGED rowVars
  BY <1>10 DEF Complete, rowVars
<1>11. ASSUME NEW r \in Requests, Reload(r)
      PROVE  UNCHANGED rowVars
  BY <1>11 DEF Reload, rowVars
<1>12. ASSUME NEW r \in Requests, Reply(r)
      PROVE  UNCHANGED rowVars
  BY <1>12 DEF Reply, rowVars
<1>13. ASSUME NEW r \in Requests, Interrupt(r)
      PROVE  UNCHANGED rowVars
  BY <1>13 DEF Interrupt, rowVars
<1>14. ASSUME NEW r \in Requests, Resend(r)
      PROVE  UNCHANGED rowVars
  BY <1>14 DEF Resend, rowVars
<1>15. ASSUME NEW p \in Playbooks, Refresh(p)
      PROVE  UNCHANGED rowVars
  BY <1>15 DEF Refresh, rowVars
<1>16. ASSUME NEW p \in Playbooks, CreatePlaybook(p)
      PROVE  UNCHANGED rowVars
  BY <1>16 DEF CreatePlaybook, rowVars
<1>17. ASSUME NEW p \in Playbooks, UpdatePlaybook(p)
      PROVE  UNCHANGED rowVars
  BY <1>17 DEF UpdatePlaybook, rowVars
<1>18. CASE UpdateCase
  BY <1>18 DEF UpdateCase, rowVars
<1>19. CASE UNCHANGED vars
  BY <1>19 DEF vars, rowVars
<1> QED
  BY <1>1, <1>2, <1>3, <1>4, <1>5, <1>6, <1>7, <1>8, <1>9, <1>10, <1>11,
     <1>12, <1>13, <1>14, <1>15, <1>16, <1>17, <1>18, <1>19
     DEF Next, RequestStep

-----------------------------------------------------------------------------
(* The theorems                                                            *)
LEMMA Start ==
    ASSUME Init
    PROVE  IInv
<1>1. NoRuns \in [Playbooks -> Rows] /\ NoResult \in Results
  BY DEF NoResult, NoRuns, NoRun, Rows, Results, CaseStates
<1>2. TypeOK
  <2>1. 0 \in 0..MaxEdits /\ 0 \in 0..MaxFaults
    BY SignalAssumption
  <2>2. version \in [Playbooks -> Nat] /\ active \subseteq Playbooks
    BY SignalAssumption DEF Init
  <2>3. /\ found \in [Requests -> Results] /\ result \in Results
        /\ runs \in [Playbooks -> Rows]
        /\ at \in [Requests -> Places]
        /\ todo \in [Requests -> SUBSET Playbooks]
        /\ draft \in [Requests -> Drafts \cup {NoDraft}]
        /\ \A r \in Requests : todo[r] = {} /\ at[r] = "ready"
    BY <1>1 DEF Init, Places
  <2> QED
    BY <2>1, <2>2, <2>3 DEF Init, TypeOK, CaseStates
<1>3. FoundInv /\ ReplyInv /\ WalkAsked /\ ResultTrue /\ OtherContentRefused
  BY DEF Init, Working, FoundInv, ReplyInv, WalkAsked, ResultTrue, SnapshotTrue,
         AnswersTrue, EffectsAsked, OtherContentRefused
<1>4. WalkInv
  BY SignalAssumption DEF Init, WalkInv
<1> QED
  BY <1>2, <1>3, <1>4 DEF IInv

\* The invariant is inductive.
THEOREM Invariance == Spec => []IInv
<1>1. ASSUME IInv, [Next]_vars
      PROVE  IInv'
  BY <1>1, KeepsTypes, KeepsContent, KeepsFound, KeepsReply, KeepsWalk,
     KeepsWalkAsked, KeepsEffects, KeepsResult
     DEF IInv, ResultTrue
<1> QED
  BY Start, <1>1, PTL DEF Spec

\* The state is well formed, and only a request in the walk has playbooks
\* left to execute.
THEOREM Typed == Spec => []TypeOK
  BY Invariance, PTL DEF IInv

\* The snapshot and every answer are the same and name only what exists.
THEOREM Truthful == Spec => []ResultTrue
  BY Invariance, PTL DEF IInv

\* All clients of a signal are told the same.
THEOREM Agreed == Spec => []AnswersAgree
<1>1. IInv => AnswersAgree
  BY DEF IInv, ResultTrue, AnswersTrue, AnswersAgree
<1> QED
  BY Invariance, <1>1, PTL

\* Automation that was asked for leaves out no playbook that was there all
\* the time.
THEOREM Whole == Spec => []NoneLeftOut
<1>1. IInv => NoneLeftOut
  BY SignalAssumption DEF IInv, TypeOK, WalkInv, NoneLeftOut
<1> QED
  BY Invariance, <1>1, PTL

\* The plan of a run is the one it was created with.
THEOREM Frozen == Spec => PlanFrozen
<1>1. IInv /\ [Next]_vars =>
         [\A p \in Playbooks :
            runs[p] # NoRun => runs'[p].version = runs[p].version]_vars
  BY KeepsRuns DEF IInv
<1> QED
  BY Invariance, <1>1, PTL DEF Spec, PlanFrozen

\* No request with other content is processed or answered.
THEOREM Refused == Spec => []OtherContentRefused
  BY Invariance, PTL DEF IInv

\* A completed receipt does not change.
THEOREM Final == Spec => ResultFinal
<1>1. ASSUME IInv, [Next]_vars
      PROVE  status = "completed" => UNCHANGED rowVars
  <2>1. SUFFICES ASSUME status = "completed"
                 PROVE  UNCHANGED rowVars
    OBVIOUS
  <2> QED
    BY <1>1, <2>1, Written DEF IInv, ReplyInv
<1>2. IInv /\ [Next]_vars => [status = "completed" => UNCHANGED rowVars]_vars
  BY <1>1
<1> QED
  BY Invariance, <1>2, PTL DEF Spec, ResultFinal
=============================================================================
