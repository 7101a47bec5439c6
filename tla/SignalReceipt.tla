---------------------------- MODULE SignalReceipt ----------------------------
(***************************************************************************)
(* One security signal and every request that submits it                   *)
(* (backend/app/services/siem.py create_signal): its row is an idempotency *)
(* receipt, the case (services/soc.py) and the playbook runs               *)
(* (services/playbooks.py) are opened once under its id, and the result is *)
(* kept as a snapshot for all later requests.  (The receipt of             *)
(* api/v1/threat_intel.py's correlate works the same way.)                 *)
(*                                                                         *)
(* An action is one statement or one call that commits by itself; a        *)
(* request may end between any two and be sent again.  What a run does is  *)
(* SoarRun's subject: here it has its playbook's version and a status.     *)
(***************************************************************************)
EXTENDS Naturals, FiniteSets

CONSTANTS
    Requests,       \* deliveries of the client's signal
    Contents,       \* normalized contents, by digest
    Submissions,    \* what a delivery carries: content, two flags, the caller's scopes
    Playbooks,      \* playbooks whose conditions the signal meets
    Existing,       \* those that exist from the start
    OpensCase,      \* a correlation rule matches
    Absent,         \* no row yet
    MaxFaults,      \* bound on interrupted requests
    MaxEdits        \* bound on edits of playbooks by operators

\* cases:write and playbooks:execute.
Scopes == {"cases", "playbooks"}

\* A flag without the scope it needs is refused before anything is inserted.
ASSUME SignalAssumption ==
    /\ Submissions \subseteq [content : Contents, correlate : BOOLEAN,
                             run_playbooks : BOOLEAN, scopes : SUBSET Scopes]
    /\ \A s \in Submissions :
          /\ s.correlate => "cases" \in s.scopes
          /\ s.run_playbooks => "playbooks" \in s.scopes
    /\ Existing \subseteq Playbooks
    /\ OpensCase \in BOOLEAN
    /\ Absent \notin Contents
    /\ MaxFaults \in Nat /\ MaxEdits \in Nat

\* A run by the version of the playbook its plan was taken from.
Rows == [version : Nat, status : {"none", "running", "settled"}]
NoRun == [version |-> 0, status |-> "none"]
NoRuns == [p \in Playbooks |-> NoRun]
CaseStates == {"none", "open", "closed"}
Results == [case : CaseStates, runs : [Playbooks -> Rows]]
NoResult == [case |-> "none", runs |-> NoRuns]

\* What one read of a playbook returned, before the run is inserted.
Drafts == [playbook : Playbooks, version : Nat]
NoDraft == [playbook |-> Absent, version |-> 0]

Working == {"case", "list", "run", "insert", "complete", "reload"}
Places == Working \cup {"ready", "resolve", "reply", "answered", "refused"}

VARIABLES
    stored,   \* content_sha256 of the row, Absent before it
    status,   \* processing_status
    result,   \* processing_result
    case,     \* the case with this source_signal_id
    runs,     \* the run under this signal's key, for each playbook
    version,  \* of each playbook, 0 before it is created
    active,   \* playbooks that are active and match
    sent,     \* what each request carries
    at,       \* where each request is
    todo,     \* playbooks it found active and has still to execute
    draft,    \* the playbook it has read and not yet inserted a run for
    found,    \* its own result so far, then the one it answers
    answers,  \* results that clients have been given
    edits, faults

rowVars == <<stored, status, result>>
effectVars == <<case, runs>>
bookVars == <<version, active, sent>>
callVars == <<todo, draft, found>>
boundVars == <<edits, faults>>
vars == <<rowVars, effectVars, bookVars, at, callVars, answers, boundVars>>

Init ==
    /\ stored = Absent
    /\ status = "processing"
    /\ result = NoResult
    /\ case = "none"
    /\ runs = NoRuns
    /\ version = [p \in Playbooks |-> IF p \in Existing THEN 1 ELSE 0]
    /\ active \in SUBSET Existing
    /\ sent \in [Requests -> Submissions]
    /\ at = [r \in Requests |-> "ready"]
    /\ todo = [r \in Requests |-> {}]
    /\ draft = [r \in Requests |-> NoDraft]
    /\ found = [r \in Requests |-> NoResult]
    /\ answers = {}
    /\ edits = 0
    /\ faults = 0

Go(r, place) == at' = [at EXCEPT ![r] = place]

-----------------------------------------------------------------------------
(* The receipt                                                             *)
\* INSERT ... ON CONFLICT (tenant_id, client_signal_id) DO NOTHING.
Submit(r) ==
    /\ at[r] = "ready"
    /\ stored' = IF stored = Absent THEN sent[r].content ELSE stored
    /\ Go(r, IF stored = Absent THEN "case" ELSE "resolve")
    /\ found' = [found EXCEPT ![r] = NoResult]
    /\ UNCHANGED <<status, result, effectVars, bookVars, todo, draft, answers,
                   boundVars>>

\* The signal of that id is this one: the digest is of all but the two flags.
SameContent(r) == sent[r].content = stored

\* A case and runs in the result are shown to callers who may open and run them
\* themselves, whatever their flags.
Authorized(r) ==
    /\ result.case # "none" => "cases" \in sent[r].scopes
    /\ result.runs # NoRuns => "playbooks" \in sent[r].scopes

\* Mutant: a duplicate is answered whether or not it was processed.
ResolveAtOnce(r) ==
    /\ at[r] = "resolve"
    /\ \/ ~SameContent(r) /\ Go(r, "refused") /\ UNCHANGED found
       \/ /\ SameContent(r)
          /\ found' = [found EXCEPT ![r] = result]
          /\ Go(r, "reply")
    /\ UNCHANGED <<rowVars, effectVars, bookVars, todo, draft, answers, boundVars>>

\* The row another request inserted: refused with other content, answered if
\* completed, otherwise processed once more.
Resolve(r) ==
    /\ at[r] = "resolve"
    /\ \/ ~SameContent(r) /\ Go(r, "refused") /\ UNCHANGED found
       \/ /\ SameContent(r) /\ status = "completed" /\ Authorized(r)
          /\ found' = [found EXCEPT ![r] = result]
          /\ Go(r, "reply")
       \/ /\ SameContent(r) /\ status = "completed" /\ ~Authorized(r)
          /\ Go(r, "refused") /\ UNCHANGED found
       \/ /\ SameContent(r) /\ status # "completed"
          /\ Go(r, "case") /\ UNCHANGED found
    /\ UNCHANGED <<rowVars, effectVars, bookVars, todo, draft, answers, boundVars>>

\* UPDATE ... WHERE processing_status = 'processing'.
Complete(r) ==
    /\ at[r] = "complete"
    /\ \/ /\ status = "processing"
          /\ status' = "completed"
          /\ result' = found[r]
          /\ Go(r, "reply")
       \/ status = "completed" /\ Go(r, "reload") /\ UNCHANGED <<status, result>>
    /\ UNCHANGED <<stored, effectVars, bookVars, callVars, answers, boundVars>>

\* Another request completed it first: its result is the answer.
Reload(r) ==
    /\ at[r] = "reload"
    /\ found' = [found EXCEPT ![r] = result]
    /\ Go(r, "reply")
    /\ UNCHANGED <<rowVars, effectVars, bookVars, todo, draft, answers, boundVars>>

Reply(r) ==
    /\ at[r] = "reply"
    /\ answers' = answers \cup {found[r]}
    /\ Go(r, "answered")
    /\ UNCHANGED <<rowVars, effectVars, bookVars, callVars, boundVars>>

-----------------------------------------------------------------------------
(* The case and the runs                                                   *)
\* A rule matched and the delivery wants a case.
Correlates(r) == sent[r].correlate /\ OpensCase

\* Mutant: a case that exists is not read back.
OpenCaseOnly(r) ==
    /\ at[r] = "case"
    /\ case' = IF Correlates(r) /\ case = "none" THEN "open" ELSE case
    /\ found' = [found EXCEPT ![r].case =
                    IF Correlates(r) /\ case = "none" THEN case' ELSE "none"]
    /\ Go(r, "list")
    /\ UNCHANGED <<rowVars, runs, bookVars, todo, draft, answers, boundVars>>

\* open_case_from_context: the case of this signal, opened now, or as
\* operators left it; a delivery that does not correlate looks for none.
OpenCase(r) ==
    /\ at[r] = "case"
    /\ case' = IF Correlates(r) /\ case = "none" THEN "open" ELSE case
    /\ found' = [found EXCEPT ![r].case = IF Correlates(r) THEN case' ELSE "none"]
    /\ Go(r, "list")
    /\ UNCHANGED <<rowVars, runs, bookVars, todo, draft, answers, boundVars>>

\* run_matching_playbooks reads what is active now.
List(r) ==
    /\ at[r] = "list"
    /\ todo' = [todo EXCEPT ![r] = IF sent[r].run_playbooks THEN active ELSE {}]
    /\ Go(r, "run")
    /\ UNCHANGED <<rowVars, effectVars, bookVars, draft, found, answers, boundVars>>

\* Mutant: a run under the key is brought to the version just read.
PursueOver(r, p, row) ==
    LET read == [row EXCEPT !.version = version[p]] IN
    \E s \in {"running", "settled"} :
       /\ runs' = [runs EXCEPT ![p] = [read EXCEPT !.status = s]]
       /\ found' = [found EXCEPT ![r].runs[p] = runs'[p]]
       /\ todo' = [todo EXCEPT ![r] = todo[r] \ {p}]

\* The stored plan of run row is carried on; the run as it is shown is what
\* the request has found.
Pursue(r, p, row) ==
    \E s \in {"running", "settled"} :
       /\ runs' = [runs EXCEPT ![p] = [row EXCEPT !.status = s]]
       /\ found' = [found EXCEPT ![r].runs[p] = [row EXCEPT !.status = s]]
       /\ todo' = [todo EXCEPT ![r] = todo[r] \ {p}]

\* A run under this signal's key is resumed whatever became of the playbook.
ResumeRun(r) ==
    /\ at[r] = "run"
    /\ \E p \in todo[r] : runs[p] # NoRun /\ Pursue(r, p, runs[p])
    /\ UNCHANGED <<rowVars, case, bookVars, at, draft, answers, boundVars>>

\* The playbook's version and plan, in one statement.
ReadPlaybook(r) ==
    /\ at[r] = "run"
    /\ \E p \in todo[r] \cap active :
          /\ runs[p] = NoRun
          /\ draft' = [draft EXCEPT ![r] = [playbook |-> p, version |-> version[p]]]
    /\ Go(r, "insert")
    /\ UNCHANGED <<rowVars, effectVars, bookVars, todo, found, answers, boundVars>>

\* It is inactive by now: 409, and the client may send the signal again.
RunRefused(r) ==
    /\ at[r] = "run"
    /\ \E p \in todo[r] \ active : runs[p] = NoRun
    /\ todo' = [todo EXCEPT ![r] = {}]
    /\ Go(r, "ready")
    /\ UNCHANGED <<rowVars, effectVars, bookVars, draft, found, answers, boundVars>>

\* INSERT ... ON CONFLICT (tenant_id, idempotency_key) DO NOTHING: the run is
\* this request's, or another inserted it meanwhile and it is resumed.
InsertRun(r) ==
    LET d == draft[r] IN
    /\ at[r] = "insert"
    /\ Pursue(r, d.playbook,
              IF runs[d.playbook] = NoRun
              THEN [version |-> d.version, status |-> "running"]
              ELSE runs[d.playbook])
    /\ draft' = [draft EXCEPT ![r] = NoDraft]
    /\ Go(r, "run")
    /\ UNCHANGED <<rowVars, case, bookVars, answers, boundVars>>

\* Mutant: the walk ends at the first playbook that was executed.
EndRunsEarly(r) ==
    /\ at[r] = "run" /\ (todo[r] = {} \/ found[r].runs # NoRuns)
    /\ Go(r, "complete")
    /\ UNCHANGED <<rowVars, effectVars, bookVars, callVars, answers, boundVars>>

EndRuns(r) ==
    /\ at[r] = "run" /\ todo[r] = {}
    /\ Go(r, "complete")
    /\ UNCHANGED <<rowVars, effectVars, bookVars, callVars, answers, boundVars>>

-----------------------------------------------------------------------------
(* Interruptions, and everyone else                                        *)
\* A statement or an audit record fails, the process stops, or the answer is
\* lost; the client may send the request again.
Interrupt(r) ==
    /\ at[r] \in Working \cup {"resolve", "reply"}
    /\ faults < MaxFaults /\ faults' = faults + 1
    /\ todo' = [todo EXCEPT ![r] = {}]
    /\ draft' = [draft EXCEPT ![r] = NoDraft]
    /\ Go(r, "ready")
    /\ UNCHANGED <<rowVars, effectVars, bookVars, found, answers, edits>>

\* The client sends an answered request again.
Resend(r) ==
    /\ at[r] = "answered"
    /\ Go(r, "ready")
    /\ UNCHANGED <<rowVars, effectVars, bookVars, callVars, answers, boundVars>>

\* A retry worker, an acknowledgement or a late refresh writes the run's status
\* (read in a statement of its own, so a settled run may show running again).
Refresh(p) ==
    /\ runs[p] # NoRun
    /\ \E s \in {"running", "settled"} : runs' = [runs EXCEPT ![p].status = s]
    /\ UNCHANGED <<rowVars, case, bookVars, at, callVars, answers, boundVars>>

\* A new playbook is active and at version 1.
CreatePlaybook(p) ==
    /\ version[p] = 0
    /\ edits < MaxEdits /\ edits' = edits + 1
    /\ version' = [version EXCEPT ![p] = 1]
    /\ active' = active \cup {p}
    /\ UNCHANGED <<rowVars, effectVars, sent, at, callVars, answers, faults>>

\* Every update raises the version; it may (de)activate the playbook or change
\* what it matches.
UpdatePlaybook(p) ==
    /\ version[p] > 0
    /\ edits < MaxEdits /\ edits' = edits + 1
    /\ version' = [version EXCEPT ![p] = @ + 1]
    /\ active' \in {active \cup {p}, active \ {p}}
    /\ UNCHANGED <<rowVars, effectVars, sent, at, callVars, answers, faults>>

\* Operators close and reopen the case.
UpdateCase ==
    /\ case # "none"
    /\ edits < MaxEdits /\ edits' = edits + 1
    /\ case' \in {"open", "closed"}
    /\ UNCHANGED <<rowVars, runs, bookVars, at, callVars, answers, faults>>

RequestStep(r) ==
    \/ Submit(r) \/ Resolve(r) \/ OpenCase(r) \/ List(r) \/ ResumeRun(r)
    \/ ReadPlaybook(r) \/ RunRefused(r) \/ InsertRun(r) \/ EndRuns(r)
    \/ Complete(r) \/ Reload(r) \/ Reply(r)

Next ==
    \/ \E r \in Requests : RequestStep(r) \/ Interrupt(r) \/ Resend(r)
    \/ \E p \in Playbooks : Refresh(p) \/ CreatePlaybook(p) \/ UpdatePlaybook(p)
    \/ UpdateCase

Spec == Init /\ [][Next]_vars

\* The client sends again what was not answered.
LiveSpec == Spec /\ \A r \in Requests : WF_vars(RequestStep(r))

-----------------------------------------------------------------------------
(* Properties                                                              *)
\* Types; only a request in the walk has playbooks left to execute.
TypeOK ==
    /\ stored \in Contents \cup {Absent}
    /\ status \in {"processing", "completed"}
    /\ result \in Results
    /\ case \in CaseStates
    /\ runs \in [Playbooks -> Rows]
    /\ version \in [Playbooks -> Nat]
    /\ active \subseteq Playbooks
    /\ sent \in [Requests -> Submissions]
    /\ at \in [Requests -> Places]
    /\ todo \in [Requests -> SUBSET Playbooks]
    /\ draft \in [Requests -> Drafts \cup {NoDraft}]
    /\ \A r \in Requests :
          /\ todo[r] # {} => at[r] \in {"run", "insert"}
          /\ at[r] = "insert" => draft[r] \in Drafts
    /\ found \in [Requests -> Results]
    /\ answers \subseteq Results
    /\ edits \in 0..MaxEdits
    /\ faults \in 0..MaxFaults

\* A client that sends a signal twice is told the same twice, whichever
\* request processed it and whatever operators and runs did in between.
AnswersAgree == \A a, b \in answers : a = b

\* Deliveries that may process the row: those with its content.
Deliveries == {r \in Requests : sent[r].content = stored}

\* What the snapshot of a completed signal says is so.
SnapshotTrue ==
    status = "completed" =>
        /\ result.case # "none" => case # "none"
        /\ OpensCase /\ (\A r \in Deliveries : sent[r].correlate) =>
              result.case # "none"
        /\ \A p \in Playbooks : result.runs[p] # NoRun =>
              runs[p] # NoRun /\ runs[p].version = result.runs[p].version

AnswersTrue == \A a \in answers : status = "completed" /\ a = result

EffectsAsked ==
    /\ case # "none" => OpensCase /\ \E r \in Deliveries : sent[r].correlate
    /\ runs # NoRuns => \E r \in Deliveries : sent[r].run_playbooks

\* The snapshot names only a case and runs that exist, a run by the version its
\* plan was taken from; if a rule matched and no delivery does without a case,
\* it names the case; what clients are told is the snapshot; and a case or a
\* run exists only if a delivery of this very content asked for it.
ResultTrue == SnapshotTrue /\ AnswersTrue /\ EffectsAsked

\* Automation that was asked for leaves out no playbook that was there, active
\* and unedited all the time.
NoneLeftOut ==
    \A r \in Requests :
        at[r] = "complete" /\ sent[r].run_playbooks =>
            \A p \in Existing \cap active :
                version[p] = 1 => found[r].runs[p] # NoRun

\* A retry resumes the plan a run was created with, never a newer one.
PlanFrozen ==
    [][\A p \in Playbooks :
          runs[p] # NoRun => runs'[p].version = runs[p].version]_vars

\* Only requests with the content of the row are processed or answered.
OtherContentRefused ==
    \A r \in Requests :
        at[r] \in Working \cup {"reply", "answered"} => sent[r].content = stored

\* Nothing changes a completed receipt.
ResultFinal == [][status = "completed" => UNCHANGED rowVars]_vars

\* A retry heals a crash: a signal once stored is processed to the end.
RetryHeals == (stored # Absent) ~> (status = "completed")
=============================================================================
