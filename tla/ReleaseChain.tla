---------------------------- MODULE ReleaseChain ----------------------------
(***************************************************************************)
(* Phases 6 to 10 of a variant whose strict gate passed: clock tree, route *)
(* after the clock tree, detailed route, GDS, overlay, merged GDS and the  *)
(* completion audit that seals the chain.                                  *)
(*                                                                         *)
(* Every phase is one run of one script that may happen once: its          *)
(* preflight and invocation records are opened with "x" and its execution  *)
(* report is what the next phase reads.  B3 and B5 have the older scripts; *)
(* B6 and B7 add a permission before every OpenROAD run, traps in the      *)
(* runners, and an audit that hashes the recorded inputs again.            *)
(***************************************************************************)
EXTENDS Integers, FiniteSets

CONSTANTS
    Variants,       \* variants whose scripts run: a subset of DOMAIN Audit
    Procs,          \* processes of the operator
    Contents,       \* what a tool file can contain: 0 at first, others after an edit
    MaxFaults       \* bound on signals, kills, failures, reboots and edits

None == "none"

-----------------------------------------------------------------------------
(* The scripts, one record each.                                           *)

\* Permission to run a stage.  source: the report that must PASS; clean: zero congestion and
\* untouched protected databases asked for; idle: no OpenROAD may exist; strict: a missing
\* input raises instead of BLOCKED, and the file is opened with "x".
Permission(s, doc) ==
    [stage |-> s, source |-> doc, clean |-> FALSE, idle |-> FALSE, strict |-> FALSE]

AuthorizeB6Phase6Cts == Permission("cts", "gate")
AuthorizeB7Phase6Cts == Permission("cts", "gate")
AuthorizeB6Phase6PostCtsRoute == Permission("post", "cts")
AuthorizeB7Phase6PostCtsRoute == Permission("post", "cts")
AuthorizeB6Phase7DetailedRoute ==
    [Permission("detail", "post") EXCEPT !.clean = TRUE, !.idle = TRUE, !.strict = TRUE]
AuthorizeB7Phase7DetailedRoute ==
    [Permission("detail", "post") EXCEPT !.clean = TRUE, !.idle = TRUE, !.strict = TRUE]

Permissions == [
    B6 |-> {AuthorizeB6Phase6Cts, AuthorizeB6Phase6PostCtsRoute, AuthorizeB6Phase7DetailedRoute},
    B7 |-> {AuthorizeB7Phase6Cts, AuthorizeB7Phase6PostCtsRoute, AuthorizeB7Phase7DetailedRoute},
    B3 |-> {}, B5 |-> {}]

\* Readback of the streamed GDS; inputs: technology, cells and converter are hashed there.
CheckB3Phase7RtlGds == [inputs |-> FALSE]
CheckB5Phase7RtlGds == [inputs |-> FALSE]
CheckB6Phase7RtlGds == [inputs |-> TRUE]
CheckB7Phase7RtlGds == [inputs |-> TRUE]

Readback == [B3 |-> CheckB3Phase7RtlGds, B5 |-> CheckB5Phase7RtlGds,
             B6 |-> CheckB6Phase7RtlGds, B7 |-> CheckB7Phase7RtlGds]

\* The completion audit.  inputs: recorded inputs and permissions are part of the chain and
\* hashed again; html: it writes the report shared by all variants; tools: an independent
\* KLayout readback and the tool versions must succeed.
AuditB3Completion == [inputs |-> FALSE, html |-> FALSE, tools |-> FALSE]
AuditB5Completion == [inputs |-> FALSE, html |-> FALSE, tools |-> FALSE]
AuditB6Completion == [inputs |-> TRUE, html |-> TRUE, tools |-> TRUE]
AuditB7Completion == [inputs |-> TRUE, html |-> TRUE, tools |-> TRUE]

Audit == [B3 |-> AuditB3Completion, B5 |-> AuditB5Completion,
          B6 |-> AuditB6Completion, B7 |-> AuditB7Completion]

-----------------------------------------------------------------------------

ASSUME ReleaseAssumption ==
    /\ Variants \subseteq DOMAIN Audit
    /\ 0 \in Contents
    /\ MaxFaults \in Nat

OpenroadStages == {"cts", "post", "detail"}
Stages == OpenroadStages \cup {"gds", "overlay", "final"}

\* The report each stage goes on from, and the artifacts it hashes before it starts.
Source == [cts |-> "gate", post |-> "cts", detail |-> "post", gds |-> "detail",
           overlay |-> "gds", final |-> "overlay"]
Reads(s) ==
    CASE s = "cts" -> {"place"} [] s = "final" -> {"gds", "overlay"} [] OTHER -> {Source[s]}

\* B6 and B7: permissions, traps, recorded process ids.
Permitted(v) == Permissions[v] # {}
PermissionFor(v, s) == CHOOSE a \in Permissions[v] : a.stage = s

VARIABLES
    gate,       \* phase6_decision_gate.json
    auth,       \* authorization of each OpenROAD stage: verdict, pinned tool content, writer
    attempt,    \* preflight and invocation record of each stage
    recorded,   \* inputs the record (for "gds" the report) names: tool content and permission
    report,     \* execution report of each stage
    clean,      \* zero congestion after the clock tree
    completion, \* phase10 preflight and completion report
    html,       \* variant whose audit wrote the shared HTML report
    files,      \* intact artifacts: databases in tmpfs, the merged GDS of B6 and B7 on disk
    tool,       \* content of the scripts a stage runs
    live,       \* OpenROAD processes: variant, stage, compute or reopen audit
    finished,   \* OpenROAD processes that ended with exit code 0
    proc,       \* the operator's processes
    faults,     \* faults so far
    launches,   \* history: runs of each stage
    used,       \* history: tool content each stage ran
    edits       \* history: edits of the scripts of each stage

documents == <<gate, auth, attempt, recorded, report, clean>>
sealed == <<completion, html>>
machine == <<files, tool, live, finished>>
history == <<launches, used, edits>>
vars == <<documents, sealed, machine, proc, faults, history>>

NoAuth == [status |-> "absent", pin |-> 0, by |-> None]
NoInputs == [tool |-> 0, auth |-> NoAuth]
Idle == [at |-> "idle", v |-> None, s |-> None, verdict |-> None, pin |-> 0,
         pid |-> {}, known |-> {}, rc |-> 0, signal |-> FALSE]

\* At most one variant passed: the next one is selected only after a blocked gate.
Init ==
    /\ gate \in {g \in [Variants -> {"PASS", "BLOCKED"}] :
                   Cardinality({v \in Variants : g[v] = "PASS"}) <= 1}
    /\ auth = [v \in Variants |-> [s \in OpenroadStages |-> NoAuth]]
    /\ attempt = [v \in Variants |-> [s \in Stages |-> "absent"]]
    /\ recorded = [v \in Variants |-> [s \in OpenroadStages \cup {"gds"} |-> NoInputs]]
    /\ report = [v \in Variants |-> [s \in Stages |-> "absent"]]
    /\ clean = [v \in Variants |-> FALSE]
    /\ completion = [v \in Variants |-> "absent"]
    /\ html = None
    /\ files = [v \in Variants |-> {"place"}]
    /\ tool = [v \in Variants |-> [s \in OpenroadStages \cup {"gds"} |-> 0]]
    /\ live = {}
    /\ finished = {}
    /\ proc = [p \in Procs |-> Idle]
    /\ faults = 0
    /\ launches = [v \in Variants |-> [s \in Stages |-> 0]]
    /\ used = [v \in Variants |-> [s \in OpenroadStages \cup {"gds"} |-> 0]]
    /\ edits = [v \in Variants |-> [s \in OpenroadStages \cup {"gds"} |-> 0]]

\* The verdict of the report a stage goes on from.
Verdict(v, doc) == IF doc = "gate" THEN gate[v] ELSE report[v][doc]

\* Any file a runner refuses to overwrite.
Touched(v, s) == attempt[v][s] # "absent" \/ report[v][s] # "absent" \/ s \in files[v]

-----------------------------------------------------------------------------
(* tools/authorize_bN_phase6_*.py, authorize_bN_phase7_detailed_route.py:   *)
(* the evidence is read and hashed, then the permission is written.         *)

PermissionConditions(v, a) ==
    /\ Verdict(v, a.source) = "PASS"
    /\ Reads(a.stage) \subseteq files[v]
    /\ a.clean => clean[v]
    /\ a.idle => live = {}
    /\ ~ Touched(v, a.stage)

\* Mutant: the verdict of the execution reports.
PermissionFailed(v, a) == IF PermissionConditions(v, a) THEN "PASS" ELSE "FAIL"

PermissionVerdict(v, a) == IF PermissionConditions(v, a) THEN "PASS" ELSE "BLOCKED"

AuthorizeReads(p, v, s) ==
    LET a == PermissionFor(v, s) IN
    /\ proc[p].at = "idle"
    /\ Permitted(v)
    /\ auth[v][s].status = "absent"
    /\ Verdict(v, a.source) \in {"PASS", "FAIL", "BLOCKED"}
    /\ a.strict => Reads(s) \subseteq files[v]
    /\ proc' = [proc EXCEPT ![p] = [Idle EXCEPT !.at = "authorizing", !.v = v, !.s = s,
         !.verdict = PermissionVerdict(v, a), !.pin = tool[v][s]]]
    /\ UNCHANGED <<documents, sealed, machine, faults, history>>

\* write_text overwrites what a process that started at the same time wrote; "x" does not.
AuthorizeWrites(p) ==
    LET v == proc[p].v
        s == proc[p].s
    IN  /\ proc[p].at = "authorizing"
        /\ auth' = IF PermissionFor(v, s).strict /\ auth[v][s].status # "absent" THEN auth
             ELSE [auth EXCEPT ![v][s] =
                     [status |-> proc[p].verdict, pin |-> proc[p].pin, by |-> p]]
        /\ proc' = [proc EXCEPT ![p] = Idle]
        /\ UNCHANGED <<gate, attempt, recorded, report, clean, sealed, machine, faults, history>>

-----------------------------------------------------------------------------
(* The runners: run_wbq_bN_phase6_cts.sh, ..._post_cts_global_route.sh,     *)
(* run_wbq_bN_phase7_detailed_route.sh, run_bN_phase7_rtl_gds_streamout.sh, *)
(* run_bN_phase8_overlay.sh, run_bN_phase9_final_gds.sh.                    *)

\* Input gate, duplicate check, pgrep.
RunnerChecks(p, v, s) ==
    /\ proc[p].at = "idle"
    /\ Verdict(v, Source[s]) = "PASS"
    /\ s = "final" => report[v]["gds"] = "PASS"
    /\ Reads(s) \subseteq files[v]
    /\ s \in OpenroadStages /\ Permitted(v) =>
         auth[v][s].status = "PASS" /\ auth[v][s].pin = tool[v][s]
    /\ ~ Touched(v, s)
    /\ s \in OpenroadStages \cup {"gds"} => live = {}
    /\ proc' = [proc EXCEPT ![p] = [Idle EXCEPT !.at = "checked", !.v = v, !.s = s]]
    /\ UNCHANGED <<documents, sealed, machine, faults, history>>

\* Mutant: the records are opened with "w".
CreateAttemptAnyway(p) ==
    LET v == proc[p].v
        s == proc[p].s
    IN  /\ proc[p].at = "checked"
        /\ attempt' = [attempt EXCEPT ![v][s] = "started"]
        /\ recorded' = IF s \notin OpenroadStages THEN recorded
             ELSE [recorded EXCEPT ![v][s] = [tool |-> tool[v][s], auth |-> auth[v][s]]]
        /\ proc' = [proc EXCEPT ![p].at = "attempted"]
        /\ UNCHANGED <<gate, auth, report, clean, sealed, machine, faults, history>>

\* Preflight (and invocation record), open("x"), with the hashes of the inputs at this moment.
CreateAttempt(p) ==
    LET v == proc[p].v
        s == proc[p].s
    IN  /\ proc[p].at = "checked"
        /\ IF attempt[v][s] = "absent"
           THEN /\ attempt' = [attempt EXCEPT ![v][s] = "started"]
                /\ recorded' = IF s \notin OpenroadStages THEN recorded
                     ELSE [recorded EXCEPT ![v][s] = [tool |-> tool[v][s], auth |-> auth[v][s]]]
                /\ proc' = [proc EXCEPT ![p].at = "attempted"]
           ELSE /\ proc' = [proc EXCEPT ![p] = Idle]
                /\ UNCHANGED <<attempt, recorded>>
        /\ UNCHANGED <<gate, auth, report, clean, sealed, machine, faults, history>>

\* OpenROAD is started; B6 and B7 have their traps installed by now.
Launch(p) ==
    LET v == proc[p].v
        s == proc[p].s
    IN  /\ proc[p].at = "attempted"
        /\ s \in OpenroadStages
        /\ live' = live \cup {<<v, s, "compute">>}
        /\ launches' = [launches EXCEPT ![v][s] = @ + 1]
        /\ used' = [used EXCEPT ![v][s] = tool[v][s]]
        /\ proc' = [proc EXCEPT ![p].at = "computing"]
        /\ UNCHANGED <<documents, sealed, files, tool, finished, faults, edits>>

\* refresh_compute_pid: the one process named openroad, whoever started it.
RefreshComputePid(p) == IF Cardinality(live) = 1 THEN live ELSE proc[p].pid

\* The polling loop of B6 and B7 writes the pid it finds into the invocation record.
PollComputePid(p) ==
    /\ proc[p].at = "computing"
    /\ Permitted(proc[p].v)
    /\ "compute" \notin proc[p].known
    /\ Cardinality(live) = 1
    /\ proc' = [proc EXCEPT ![p].pid = live, ![p].known = @ \cup {"compute"}]
    /\ UNCHANGED <<documents, sealed, machine, faults, history>>

\* An OpenROAD process ends by itself, with its databases or without.
OpenroadEnds(l) ==
    /\ l \in live
    /\ live' = live \ {l}
    /\ \/ /\ finished' = finished \cup {l}
          /\ files' = IF l[3] = "compute" THEN [files EXCEPT ![l[1]] = @ \cup {l[2]}] ELSE files
          /\ IF l[2] = "post" /\ l[3] = "compute"
             THEN \E zero \in BOOLEAN : clean' = [clean EXCEPT ![l[1]] = zero]
             ELSE UNCHANGED clean
       \/ UNCHANGED <<finished, files, clean>>
    /\ UNCHANGED <<gate, auth, attempt, recorded, report, sealed, tool, proc, faults, history>>

\* wait returns; the reopen audit runs only on a complete result, and its pid is $!.
WaitReturns(p) ==
    LET v == proc[p].v
        s == proc[p].s
        ok == <<v, s, "compute">> \in finished /\ s \in files[v]
    IN  /\ proc[p].at = "computing"
        /\ <<v, s, "compute">> \notin live
        /\ live' = IF ok THEN live \cup {<<v, s, "audit">>} ELSE live
        /\ proc' = [proc EXCEPT ![p].at = "auditing", ![p].pid = {},
                                ![p].known = IF ok THEN @ \cup {"audit"} ELSE @,
                                ![p].rc = IF ok THEN 0 ELSE 1]
        /\ UNCHANGED <<documents, sealed, files, tool, finished, faults, history>>

AuditReturns(p) ==
    LET v == proc[p].v
        s == proc[p].s
    IN  /\ proc[p].at = "auditing"
        /\ <<v, s, "audit">> \notin live
        /\ proc' = [proc EXCEPT ![p].at = "sealing",
                                ![p].rc = IF <<v, s, "audit">> \in finished THEN @ ELSE 1]
        /\ UNCHANGED <<documents, sealed, machine, faults, history>>

\* KLayout and the Python tools of a later stage; one that fails leaves the record alone.
BuildGds(p) ==
    LET v == proc[p].v
        s == proc[p].s
    IN  /\ proc[p].at = "attempted"
        /\ s \notin OpenroadStages
        /\ launches' = [launches EXCEPT ![v][s] = @ + 1]
        /\ used' = IF s = "gds" THEN [used EXCEPT ![v][s] = tool[v][s]] ELSE used
        /\ \/ /\ Reads(s) \subseteq files[v]
              /\ files' = [files EXCEPT ![v] = @ \cup {s}]
              /\ proc' = [proc EXCEPT ![p].at = "sealing"]
           \/ /\ proc' = [proc EXCEPT ![p] = Idle]
              /\ UNCHANGED files
        /\ UNCHANGED <<documents, sealed, tool, live, finished, faults, edits>>

\* Mutant: a detailed route accepted whatever its reopen audit says.
RunPassedUnaudited(p) ==
    LET v == proc[p].v
        s == proc[p].s
    IN  CASE s = "cts" -> proc[p].rc = 0 /\ ~ proc[p].signal
          [] s = "post" -> proc[p].rc = 0 /\ ~ proc[p].signal /\ clean[v]
          [] s = "detail" -> <<v, s, "compute">> \in finished
          [] OTHER -> TRUE

\* What each runner asks of its own run; only the detailed route does not look at the signal.
RunPassed(p) ==
    LET v == proc[p].v
        s == proc[p].s
    IN  /\ s \in OpenroadStages => proc[p].rc = 0
        /\ s \in OpenroadStages /\ Permitted(v) => proc[p].known = {"compute", "audit"}
        /\ s \in {"cts", "post"} => ~ proc[p].signal
        /\ s = "post" => clean[v]

\* The execution report, open("x"); the readback of the GDS may also fail it.  The traps
\* are removed only afterwards.
SealReport(p) ==
    LET v == proc[p].v
        s == proc[p].s
    IN  /\ proc[p].at = "sealing"
        /\ report[v][s] = "absent"
        /\ \/ report' = [report EXCEPT ![v][s] = IF RunPassed(p) THEN "PASS" ELSE "FAIL"]
           \/ s = "gds" /\ report' = [report EXCEPT ![v][s] = "FAIL"]
        /\ recorded' = IF s = "gds" /\ Readback[v].inputs
                       THEN [recorded EXCEPT ![v][s].tool = tool[v][s]] ELSE recorded
        /\ proc' = [proc EXCEPT ![p].at = "sealed"]
        /\ UNCHANGED <<gate, auth, attempt, clean, sealed, machine, faults, history>>

Finalize(p) ==
    /\ proc[p].at = "sealed" \/ (proc[p].at = "sealing" /\ report[proc[p].v][proc[p].s] # "absent")
    /\ proc' = [proc EXCEPT ![p] = Idle]
    /\ UNCHANGED <<documents, sealed, machine, faults, history>>

-----------------------------------------------------------------------------
(* tools/audit_bN_phase10_completion.py                                     *)

\* The statuses of the loaded documents.
PhaseChecks(v) ==
    /\ gate[v] = "PASS"
    /\ \A s \in Stages : report[v][s] = "PASS"
    /\ clean[v]
    /\ Audit[v].inputs => \A s \in OpenroadStages : auth[v][s].status = "PASS"

AuditReads(p, v) ==
    /\ proc[p].at = "idle"
    /\ completion[v] = "absent"
    /\ Audit[v].html => html = None
    /\ live = {}
    /\ \A s \in Stages : report[v][s] \in {"PASS", "FAIL"}
    /\ Audit[v].inputs => \A s \in OpenroadStages : auth[v][s].status \in {"PASS", "BLOCKED"}
    /\ report[v]["final"] = "PASS"
    /\ proc' = [proc EXCEPT ![p] = [Idle EXCEPT !.at = "loaded", !.v = v,
         !.verdict = IF PhaseChecks(v) THEN "PASS" ELSE "FAIL"]]
    /\ UNCHANGED <<documents, sealed, machine, faults, history>>

\* PREFLIGHT, open("x").
AuditPreflight(p) ==
    LET v == proc[p].v IN
    /\ proc[p].at = "loaded"
    /\ IF completion[v] = "absent"
       THEN /\ completion' = [completion EXCEPT ![v] = "preflight"]
            /\ proc' = [proc EXCEPT ![p].at = "verifying"]
       ELSE /\ proc' = [proc EXCEPT ![p] = Idle]
            /\ UNCHANGED completion
    /\ UNCHANGED <<documents, html, machine, faults, history>>

\* Mutant: only the documents among the recorded inputs are hashed again.
InputsTrusted(v) == \A s \in OpenroadStages : recorded[v][s].auth = auth[v][s]

\* verify_recorded_artifacts over "inputs": every recorded hash is that of the file now.
InputsMatch(v) ==
    /\ \A s \in OpenroadStages :
         /\ recorded[v][s].auth = auth[v][s]
         /\ recorded[v][s].tool = tool[v][s]
         /\ auth[v][s].pin = tool[v][s]
    /\ Readback[v].inputs => recorded[v]["gds"].tool = tool[v]["gds"]

\* Artifacts and inputs hashed again, clean regeneration, readback, no OpenROAD left.  The
\* regeneration raises when the GDS files it merges are gone: only the preflight remains.
AuditVerifies(p) ==
    LET v == proc[p].v
        intact == {"place"} \cup Stages \subseteq files[v]
    IN  /\ proc[p].at = "verifying"
        /\ \/ /\ {"gds", "overlay", "final"} \subseteq files[v]
              /\ \E rebuilt \in BOOLEAN : \E tools \in {TRUE} \cup {~ Audit[v].tools} :
                   proc' = [proc EXCEPT ![p].at = "concluding",
                     ![p].verdict =
                       IF @ = "PASS" /\ intact /\ (Audit[v].inputs => InputsMatch(v))
                            /\ rebuilt /\ tools /\ live = {}
                       THEN "PASS" ELSE "FAIL"]
           \/ /\ ~ {"gds", "overlay", "final"} \subseteq files[v]
              /\ proc' = [proc EXCEPT ![p] = Idle]
        /\ UNCHANGED <<documents, sealed, machine, faults, history>>

\* COMPLETION, open("x").
AuditConcludes(p) ==
    LET v == proc[p].v IN
    /\ proc[p].at = "concluding"
    /\ completion' = IF completion[v] = "preflight"
                     THEN [completion EXCEPT ![v] = proc[p].verdict] ELSE completion
    /\ proc' = [proc EXCEPT ![p] = IF Audit[v].html /\ completion[v] = "preflight"
                                   THEN [@ EXCEPT !.at = "publishing"] ELSE Idle]
    /\ UNCHANGED <<documents, html, machine, faults, history>>

\* The shared HTML report, write_text.
AuditPublishes(p) ==
    /\ proc[p].at = "publishing"
    /\ html' = proc[p].v
    /\ proc' = [proc EXCEPT ![p].at = "rewriting"]
    /\ UNCHANGED <<documents, completion, machine, faults, history>>

\* The completion report once more, with the hash of the HTML report: write_text over it.
AuditRewrites(p) ==
    /\ proc[p].at = "rewriting"
    /\ completion' = [completion EXCEPT ![proc[p].v] = proc[p].verdict]
    /\ proc' = [proc EXCEPT ![p] = Idle]
    /\ UNCHANGED <<documents, html, machine, faults, history>>

-----------------------------------------------------------------------------
(* Faults.                                                                  *)

Fault == faults < MaxFaults /\ faults' = faults + 1

Trapped(p) ==
    /\ proc[p].at \in {"computing", "auditing", "sealing", "sealed"}
    /\ proc[p].s \in OpenroadStages
    /\ Permitted(proc[p].v)

\* on_signal: TERM to the process it finds, else to its own reopen audit; wait returns.
SignalRunner(p) ==
    LET v == proc[p].v
        s == proc[p].s
        pid == RefreshComputePid(p)
        target == IF pid \cap live # {} THEN pid ELSE {<<v, s, "audit">>}
        waits == proc[p].at \in {"computing", "auditing"}
    IN  /\ Trapped(p)
        /\ Fault
        /\ live' = live \ target
        /\ proc' = [proc EXCEPT ![p].signal = TRUE, ![p].pid = IF waits THEN {} ELSE pid,
                                ![p].rc = IF waits THEN 1 ELSE @,
                                ![p].at = IF waits THEN "sealing" ELSE @]
        /\ UNCHANGED <<documents, sealed, files, tool, finished, history>>

\* Mutant: the EXIT trap writes its manifest without looking for one.
RunnerFailsAnyway(p) ==
    /\ Trapped(p)
    /\ Fault
    /\ live' = live \ RefreshComputePid(p)
    /\ report' = [report EXCEPT ![proc[p].v][proc[p].s] = "FAIL"]
    /\ proc' = [proc EXCEPT ![p] = Idle]
    /\ UNCHANGED <<gate, auth, attempt, recorded, clean, sealed, files, tool, finished, history>>

\* A command fails under set -e: on_exit terminates what it finds and writes the fail-closed
\* report unless there is one.
RunnerFails(p) ==
    LET v == proc[p].v
        s == proc[p].s
    IN  /\ Trapped(p)
        /\ Fault
        /\ live' = live \ RefreshComputePid(p)
        /\ report' = IF report[v][s] # "absent" THEN report
                     ELSE [report EXCEPT ![v][s] = "FAIL"]
        /\ proc' = [proc EXCEPT ![p] = Idle]
        /\ UNCHANGED <<gate, auth, attempt, recorded, clean, sealed, files, tool, finished, history>>

\* kill -9, or any signal or failure where no trap is: what was being written is torn, also
\* the completion report that was sealed before.
KillProc(p) ==
    LET v == proc[p].v
        s == proc[p].s
    IN  /\ proc[p].at # "idle"
        /\ Fault
        /\ auth' = IF proc[p].at = "authorizing" /\
                        (PermissionFor(v, s).strict => auth[v][s].status = "absent")
                   THEN [auth EXCEPT ![v][s].status = "torn"] ELSE auth
        /\ attempt' = IF proc[p].at = "checked" /\ attempt[v][s] = "absent"
                      THEN [attempt EXCEPT ![v][s] = "preflight"] ELSE attempt
        /\ report' = IF proc[p].at = "sealing" /\ report[v][s] = "absent"
                     THEN [report EXCEPT ![v][s] = "torn"] ELSE report
        /\ completion' = IF proc[p].at = "rewriting" \/
                              (proc[p].at = "concluding" /\ completion[v] = "preflight")
                         THEN [completion EXCEPT ![v] = "torn"] ELSE completion
        /\ html' = IF proc[p].at = "publishing" THEN "torn" ELSE html
        /\ proc' = [proc EXCEPT ![p] = Idle]
        /\ UNCHANGED <<gate, recorded, clean, machine, history>>

\* Processes and tmpfs are gone; reports stay, and the merged GDS of B6 and B7.  A process
\* that was in the middle of a write is killed first.
Reboot ==
    /\ Fault
    /\ files' = [v \in Variants |-> IF Permitted(v) THEN files[v] \cap {"final"} ELSE {}]
    /\ live' = {}
    /\ proc' = [p \in Procs |-> Idle]
    /\ UNCHANGED <<documents, sealed, tool, finished, history>>

\* Somebody edits a script, TCL file or converter that a stage runs, or takes an edit back,
\* which counts as one fault with the edit.
EditTool(v, s) ==
    /\ \E c \in Contents \ {tool[v][s]} :
         /\ tool' = [tool EXCEPT ![v][s] = c]
         /\ IF c = 0 THEN UNCHANGED faults ELSE Fault
    /\ edits' = [edits EXCEPT ![v][s] = @ + 1]
    /\ UNCHANGED <<documents, sealed, files, live, finished, proc, launches, used>>

-----------------------------------------------------------------------------

\* The steps a process takes by itself once it was started.
ProcessStep(p) ==
    \/ AuthorizeWrites(p)
    \/ CreateAttempt(p)
    \/ Launch(p)
    \/ PollComputePid(p)
    \/ WaitReturns(p)
    \/ AuditReturns(p)
    \/ BuildGds(p)
    \/ SealReport(p)
    \/ Finalize(p)
    \/ AuditPreflight(p)
    \/ AuditVerifies(p)
    \/ AuditConcludes(p)
    \/ AuditPublishes(p)
    \/ AuditRewrites(p)

Next ==
    \/ \E p \in Procs, v \in Variants, s \in OpenroadStages : AuthorizeReads(p, v, s)
    \/ \E p \in Procs, v \in Variants, s \in Stages : RunnerChecks(p, v, s)
    \/ \E p \in Procs, v \in Variants : AuditReads(p, v)
    \/ \E p \in Procs : ProcessStep(p)
    \/ \E l \in live : OpenroadEnds(l)
    \/ \E p \in Procs : SignalRunner(p) \/ RunnerFails(p) \/ KillProc(p)
    \/ Reboot
    \/ \E v \in Variants, s \in OpenroadStages \cup {"gds"} : EditTool(v, s)

Spec == Init /\ [][Next]_vars

-----------------------------------------------------------------------------
(* Properties.                                                              *)

\* Every file holds one of the verdicts its script writes, or is torn by a kill; a permission
\* names a content its tool had.
TypeOK ==
    /\ auth \in [Variants -> [OpenroadStages ->
         [status : {"absent", "PASS", "BLOCKED", "torn"}, pin : Contents,
          by : Procs \cup {None}]]]
    /\ attempt \in [Variants -> [Stages -> {"absent", "preflight", "started"}]]
    /\ report \in [Variants -> [Stages -> {"absent", "PASS", "FAIL", "torn"}]]
    /\ completion \in [Variants -> {"absent", "preflight", "PASS", "FAIL", "torn"}]
    /\ html \in Variants \cup {None, "torn"}
    /\ files \in [Variants -> SUBSET (Stages \cup {"place"})]
    /\ live \subseteq Variants \X OpenroadStages \X {"compute", "audit"}
    /\ faults \in 0..MaxFaults

\* Whatever two operators start at the same time, and whatever fails in between, a stage of
\* a variant runs at most once ("openroad_compute_invocation_limit": 1, open("x")).
OneInvocation == \A v \in Variants, s \in Stages : launches[v][s] <= 1

\* PHASE10_COMPLETE is said only of a chain whose gate passed, whose OpenROAD runs and reopen
\* audits all ended with exit code 0, whose route after the clock tree is without congestion,
\* and of which no stage was signalled into a failure or lost its report.
CompleteChain ==
    \A v \in Variants : completion[v] = "PASS" =>
        /\ gate[v] = "PASS"
        /\ clean[v]
        /\ \A s \in OpenroadStages, kind \in {"compute", "audit"} : <<v, s, kind>> \in finished
        /\ \A s \in Stages : report[v][s] = "PASS" /\ launches[v][s] = 1

\* Where the audit hashes the inputs again, a complete chain's records name the tool contents
\* its permissions were given for, though the tool may be edited after the runner compared it
\* and before it hashed it.  And OpenROAD ran the recorded content, unless somebody edited the
\* tool between the hash and OpenROAD's own read and took that edit back before the audit: one
\* edit is always seen.
CompleteOnPinnedTools ==
    \A v \in Variants : completion[v] = "PASS" /\ Audit[v].inputs =>
        \A s \in OpenroadStages :
            /\ recorded[v][s].tool = recorded[v][s].auth.pin
            /\ used[v][s] # recorded[v][s].tool => edits[v][s] >= 2

\* A stage's report never says anything else later, whichever EXIT trap or second process
\* comes after it.  A completion report may be torn by a kill in its rewrite, but it never
\* turns into the other verdict, and a torn one into none.
VerdictsFinal ==
    [][\A v \in Variants :
         /\ \A s \in Stages : report[v][s] # "absent" => report'[v][s] = report[v][s]
         /\ completion[v] \in {"PASS", "FAIL", "torn"} =>
              completion'[v] \in {completion[v], "torn"}]_vars

=============================================================================
