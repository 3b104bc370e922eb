----------------------------- MODULE VariantFlow -----------------------------
(***************************************************************************)
(* The evidence flow of the quad-local variants: select -> smoke ->        *)
(* permission to place -> placement -> permission to route -> the one      *)
(* global route -> strict Phase 6 gate -> next variant.                    *)
(*                                                                         *)
(* Every step is a separate operating-system process that reads the JSON   *)
(* files of earlier steps and writes its own; nothing locks them.  Reports *)
(* are in the repository, the databases OpenROAD writes are in tmpfs       *)
(* (/dev/shm).  What the copies of a script have of their own is in the    *)
(* records of VariantTable; this module gives the records their meaning.   *)
(***************************************************************************)
EXTENDS VariantTable

CONSTANTS
    Variants,       \* variants whose scripts run
    History,        \* variants whose files are only read: their steps are over
    Procs,          \* processes of the operator: authorize, placement and route runner, decide
    Totals,         \* congestion totals a finished route can have
    MaxFaults       \* bound on signals, kills, failures, reboots and edits

None == "none"

\* The totals a select script names as its reason: residual and overflow both positive.
Named == [residual |-> 1, overflow |-> 1]
Clean == [residual |-> 0, overflow |-> 0]
NoTotals == [residual |-> -1, overflow |-> -1]

\* The variants whose files the scripts of Variants read.
Sources ==
    {Selection[v].predecessor : v \in Variants} \cup (UNION {Selection[v].also : v \in Variants})
      \cup {Selection[v].rudyOf : v \in Variants}
      \cup {Physical[v].cheapOf : v \in Variants \cap DOMAIN Physical}
      \cup {RouteAuth[v].placement : v \in Variants \cap DOMAIN RouteAuth}

All == Variants \cup History

ASSUME FlowAssumption ==
    /\ Variants \subseteq DOMAIN Selection
    /\ Variants \cap History = {}
    /\ Sources \subseteq All \cup {None}
    /\ Totals \subseteq [residual : Nat, overflow : Nat]
    /\ {Named, Clean} \subseteq Totals
    /\ MaxFaults \in Nat

VARIABLES
    dir,        \* variants whose report directory exists
    decision,   \* bN_eco_decision.json
    cheap,      \* cheap_gate_manifest.json
    smoke,      \* bN_*smoke_execution_report.json
    permit,     \* bN_physical_run / placement authorization, and whether its pins still match
    placeAttempt, \* variants whose bN_place_invocation.json exists
    placed,     \* bN_placement_execution_report.json: PASS, or the failure as later scripts read it
    numeric,    \* bN_placement_numeric_analysis.json
    reopen,     \* bN_targeted_placement_reopen_audit.json
    auth,       \* bN_global_route_authorization.json, and whether its pins still match
    attempt,    \* bN_global_route_invocation.json; "pid" once compute_pid is recorded, where it is
    manifest,   \* bN_global_route_execution_report.json
    report,     \* congestion report of the route
    analysis,   \* bN_residual_congestion_analysis.json
    gate,       \* phase6_decision_gate.json
    tmpfs,      \* intact artifacts in /dev/shm
    live,       \* OpenROAD processes of routes
    placing,    \* OpenROAD processes of placements: the placement and the audit after it
    proc,       \* the operator's processes
    faults,     \* faults so far
    launches,   \* history: OpenROAD invocations for the route of each variant
    ended,      \* history: how the last of them ended
    placements, \* history: OpenROAD invocations for the placement of each variant
    placeEnded, \* history: how the last of them ended
    orphaned    \* history: "place" or "route" of a variant whose runner died without an EXIT trap

documents == <<dir, decision, cheap, smoke, permit, placeAttempt, placed, numeric, reopen, auth>>
route == <<attempt, manifest, report, analysis, gate>>
compute == <<live, placing>>
machine == <<tmpfs, compute, proc, faults>>
history == <<launches, ended, placements, placeEnded, orphaned>>
vars == <<documents, route, machine, history>>

NoManifest == [status |-> "absent", class |-> None, exit |-> 0, preserved |-> FALSE]
NoPermit == [status |-> "absent", current |-> FALSE]
Idle == [at |-> "idle", v |-> None, verdict |-> None, signal |-> FALSE, pid |-> {},
         rc |-> 0, parsed |-> FALSE]

-----------------------------------------------------------------------------
(* Init: the variants of History left the evidence their readers ask for.  *)

\* How the placement of a finished variant ended: as some selection reads it, otherwise PASS.
PastPlacement(w) ==
    LET readers == {v \in Variants : Selection[v].predecessor = w
                        /\ Selection[v].evidence \in {"legality", "divergence", "interrupted"}}
    IN  IF readers = {} THEN "PASS" ELSE Selection[CHOOSE v \in readers : TRUE].evidence

PastToolError(w) ==
    \E v \in Variants : Selection[v].predecessor = w /\ Selection[v].evidence = "toolError"

Init ==
    /\ dir = History
    /\ decision = [w \in All |-> IF w \in History THEN "selected" ELSE "absent"]
    /\ cheap = [w \in All |-> IF w \in History THEN "PASS" ELSE "absent"]
    /\ smoke = [w \in All |-> IF w \in History THEN "PASS" ELSE "absent"]
    /\ permit = [w \in All |-> NoPermit]
    /\ placeAttempt = History
    /\ placed = [w \in All |-> IF w \in History THEN PastPlacement(w) ELSE "absent"]
    /\ numeric = [w \in All |-> IF w \in History THEN "PASS" ELSE "absent"]
    /\ reopen = [w \in All |-> IF w \in History THEN "PASS" ELSE "absent"]
    /\ auth = [w \in All |-> NoPermit]
    /\ attempt = [w \in All |-> IF w \in History THEN "pid" ELSE "absent"]
    /\ manifest = [w \in All |->
         IF w \in History /\ PastToolError(w)
         THEN [status |-> "FAIL", class |-> "tool_error", exit |-> 134, preserved |-> TRUE]
         ELSE NoManifest]
    /\ report = [w \in All |-> NoTotals]
    /\ analysis = [w \in All |-> IF w \in History THEN Named ELSE NoTotals]
    /\ gate = [w \in All |->
         IF w \in History /\ ~ PastToolError(w) THEN "BLOCKED" ELSE "absent"]
    /\ tmpfs = History \X {"rudy", "place"}
    /\ live = {}
    /\ placing = {}
    /\ proc = [p \in Procs |-> Idle]
    /\ faults = 0
    /\ launches = [w \in All |-> 0]
    /\ ended = [w \in All |-> None]
    /\ placements = [w \in All |-> 0]
    /\ placeEnded = [w \in All |-> None]
    /\ orphaned = {}

-----------------------------------------------------------------------------
(* tools/select_bN_*.py *)

\* Mutants: any failed route, any blocked gate.
AbortedByAnything(w) == manifest[w].status = "FAIL"
BlockedByAnything(w) == gate[w] = "BLOCKED"

\* The strict gate of w is BLOCKED and its analysis has the totals the script names.
BlockedByCongestion(w) == gate[w] = "BLOCKED" /\ analysis[w] = Named

\* The route of w ended in OpenROAD's own abort, with the protected databases intact.
AbortedByTool(w) ==
    manifest[w] = [status |-> "FAIL", class |-> "tool_error", exit |-> 134, preserved |-> TRUE]

Supports(s) ==
    /\ CASE s.evidence = "blocked" -> BlockedByCongestion(s.predecessor)
         [] s.evidence = "toolError" -> AbortedByTool(s.predecessor)
         [] OTHER -> placed[s.predecessor] = s.evidence
    /\ \A w \in s.also : BlockedByCongestion(w)
    /\ s.rudyOf # None => <<s.rudyOf, "rudy">> \in tmpfs

\* The select script of v; killed in the middle of its write it leaves a torn file.
Select(v) ==
    /\ decision[v] = "absent" \/ Selection[v].overwrites
    /\ Selection[v].freshDir => v \notin dir
    /\ Supports(Selection[v])
    /\ dir' = dir \cup {v}
    /\ \/ decision' = [decision EXCEPT ![v] = "selected"] /\ UNCHANGED faults
       \/ /\ faults < MaxFaults
          /\ faults' = faults + 1
          /\ decision' = [decision EXCEPT ![v] = "torn"]
    /\ UNCHANGED <<cheap, smoke, permit, placeAttempt, placed, numeric, reopen, auth, route,
                   tmpfs, compute, proc, history>>

-----------------------------------------------------------------------------
(* Cheap gate, smoke, permission to place, placement.                       *)

\* collect_wbq_quad_local_cheap_gate.py: overwrites; a permission that pinned it is stale.
\* Runs after the first one are bounded with the faults.
CollectCheapGate(v) ==
    /\ decision[v] = "selected"
    /\ \E u \in DOMAIN Physical : Physical[u].cheapOf = v
    /\ faults' = IF cheap[v] = "absent" THEN faults ELSE faults + 1
    /\ faults' <= MaxFaults
    /\ \E result \in {"PASS", "FAIL"} : cheap' = [cheap EXCEPT ![v] = result]
    /\ permit' = [w \in All |->
         IF w \in DOMAIN Physical /\ Physical[w].cheapOf = v
         THEN [permit[w] EXCEPT !.current = FALSE] ELSE permit[w]]
    /\ UNCHANGED <<dir, decision, smoke, placeAttempt, placed, numeric, reopen, auth, route,
                   tmpfs, compute, proc, history>>

\* pgrep -x openroad finds nothing.
NoOpenroad == live = {} /\ placing = {}

\* The placement this variant's route starts from.
PlacementOf(v) == IF v \in DOMAIN RouteAuth THEN RouteAuth[v].placement ELSE v

NeedsSmoke(v) ==
    \/ v \in DOMAIN Physical /\ Physical[v].smoke
    \/ v \in DOMAIN RouteAuth /\ RouteAuth[v].permit = "smoke"

\* A route-pin smoke opens the sealed placement, a placement smoke the RUDY checkpoint.
SmokeInput(v) ==
    IF v \in DOMAIN RouteAuth /\ RouteAuth[v].permit = "smoke"
    THEN placed[PlacementOf(v)] = "PASS" /\ <<PlacementOf(v), "place">> \in tmpfs
    ELSE Physical[v].rudyOf # None => <<Physical[v].rudyOf, "rudy">> \in tmpfs

RunSmoke(v) ==
    /\ NeedsSmoke(v)
    /\ smoke[v] = "absent"
    /\ decision[v] = "selected"
    /\ SmokeInput(v)
    /\ NoOpenroad
    /\ \E result \in {"PASS", "FAIL"} :
         /\ smoke' = [smoke EXCEPT ![v] = result]
         /\ tmpfs' = IF result = "PASS" THEN tmpfs \cup {<<v, "smoke">>} ELSE tmpfs
    /\ UNCHANGED <<dir, decision, cheap, permit, placeAttempt, placed, numeric, reopen, auth,
                   route, compute, proc, faults, history>>

\* The decision of v agrees with the change a permission expects, in the fields it compares.
ExpectedChange(v, expected) ==
    \A f \in expected.checks : Selection[v].eco[f] = expected.eco[f]

\* authorize_bN_physical_run.py, authorize_b25_placement.py, in two steps: the script looks
\* whether its output exists, loads the evidence and judges it; then it hashes the files on
\* disk and writes.  A cheap gate collected in between is pinned unread.
PhysicalConditions(v) ==
    LET r == Physical[v] IN
    /\ decision[v] # "absent"
    /\ ExpectedChange(v, r)
    /\ cheap[r.cheapOf] = "PASS"
    /\ r.smoke => smoke[v] = "PASS" /\ <<v, "smoke">> \in tmpfs
    /\ r.sealed # None => placed[r.sealed] = Selection[v].evidence
    /\ r.rudyOf # None => <<r.rudyOf, "rudy">> \in tmpfs
    /\ r.noPrior => v \notin placeAttempt /\ placed[v] = "absent"

AuthorizePhysicalReads(p, v) ==
    /\ proc[p].at = "idle"
    /\ v \in DOMAIN Physical
    /\ permit[v].status = "absent"
    /\ Physical[v].checks # {} => decision[v] = "selected"
    /\ cheap[Physical[v].cheapOf] # "absent"
    /\ Physical[v].smoke => smoke[v] # "absent"
    /\ Physical[v].sealed # None => placed[Physical[v].sealed] \notin {"absent", "torn"}
    /\ proc' = [proc EXCEPT ![p] = [Idle EXCEPT !.at = "permitting", !.v = v,
         !.verdict = IF PhysicalConditions(v) THEN "PASS" ELSE "BLOCKED"]]
    /\ UNCHANGED <<documents, route, tmpfs, compute, faults, history>>

\* B3 and B4 write with open("x"), the others over a file that appeared meanwhile.
AuthorizePhysicalWrites(p) ==
    LET v == proc[p].v IN
    /\ proc[p].at = "permitting"
    /\ permit' = IF Physical[v].exclusive /\ permit[v].status # "absent" THEN permit
         ELSE [permit EXCEPT ![v] = [status |-> proc[p].verdict, current |-> TRUE]]
    /\ proc' = [proc EXCEPT ![p] = Idle]
    /\ UNCHANGED <<dir, decision, cheap, smoke, placeAttempt, placed, numeric, reopen, auth,
                   route, tmpfs, compute, faults, history>>

-----------------------------------------------------------------------------
(* verification/groot_normalization/run_wbq_quad_local_bN_placement.sh      *)

\* Input gate with the pins, duplicate check and pgrep.
PlacementChecks(p, v) ==
    LET r == PlacementRun[v] IN
    /\ proc[p].at = "idle"
    /\ v \in DOMAIN PlacementRun
    /\ permit[v].status = "PASS"
    /\ r.cheap => cheap[Physical[v].cheapOf] = "PASS"
    /\ r.pinned => permit[v].current
    /\ Physical[v].rudyOf # None => <<Physical[v].rudyOf, "rudy">> \in tmpfs
    /\ v \notin placeAttempt
    /\ placed[v] = "absent"
    /\ NoOpenroad
    /\ proc' = [proc EXCEPT ![p] = [Idle EXCEPT !.at = "placeChecked", !.v = v]]
    /\ UNCHANGED <<documents, route, tmpfs, compute, faults, history>>

\* Mutant: the placement's invocation record written without open("x").
CreatePlacementAnyway(p) ==
    /\ proc[p].at = "placeChecked"
    /\ placeAttempt' = placeAttempt \cup {proc[p].v}
    /\ proc' = [proc EXCEPT ![p].at = "placeAttempted"]
    /\ UNCHANGED <<dir, decision, cheap, smoke, permit, placed, numeric, reopen, auth, route,
                   tmpfs, compute, faults, history>>

\* The invocation record, open("x"): a placement is attempted once, by one runner.
CreatePlacement(p) ==
    /\ proc[p].at = "placeChecked"
    /\ placeAttempt' = placeAttempt \cup {proc[p].v}
    /\ proc' = [proc EXCEPT ![p] =
         IF @.v \in placeAttempt THEN Idle ELSE [@ EXCEPT !.at = "placeAttempted"]]
    /\ UNCHANGED <<dir, decision, cheap, smoke, permit, placed, numeric, reopen, auth, route,
                   tmpfs, compute, faults, history>>

LaunchPlacement(p) ==
    /\ proc[p].at = "placeAttempted"
    /\ placing' = placing \cup {<<p, proc[p].v>>}
    /\ placements' = [placements EXCEPT ![proc[p].v] = @ + 1]
    /\ proc' = [proc EXCEPT ![p].at = "placing"]
    /\ UNCHANGED <<documents, route, tmpfs, live, faults, launches, ended, placeEnded, orphaned>>

\* OpenROAD ends by itself.  A legality failure leaves the RUDY checkpoint written before it.
PlacementEnds(l) ==
    /\ l \in placing
    /\ placing' = placing \ {l}
    /\ \E how \in {"ok", "legality", "divergence", "error"} :
         /\ placeEnded' = [placeEnded EXCEPT ![l[2]] = how]
         /\ tmpfs' = tmpfs
              \cup (IF how = "ok" THEN {<<l[2], "place">>} ELSE {})
              \cup (IF PlacementRun[l[2]].writesRudy /\ how \in {"ok", "legality"}
                    THEN {<<l[2], "rudy">>} ELSE {})
    /\ UNCHANGED <<documents, route, live, proc, faults, launches, ended, placements, orphaned>>

PlacementExit(how) == CASE how = "ok" -> 0 [] how = "killed" -> 143 [] OTHER -> 1

PlacementReturns(p) ==
    /\ proc[p].at = "placing"
    /\ <<p, proc[p].v>> \notin placing
    /\ proc' = [proc EXCEPT ![p].at = "placeReturned",
                            ![p].rc = PlacementExit(placeEnded[proc[p].v])]
    /\ UNCHANGED <<documents, route, tmpfs, compute, faults, history>>

\* What the report and the log show the selection of the next variant.  The exit code in the
\* log is OpenROAD's own only if no signal ended the wait; where a failure has a class, a
\* signal comes first.  Without traps a stopped OpenROAD shows in the log alone.
PlacementOutcome(p) ==
    LET r == PlacementRun[proc[p].v]
        how == placeEnded[proc[p].v]
    IN  CASE proc[p].rc = 0 /\ ~ proc[p].signal -> "PASS"
          [] proc[p].rc = 1 /\ how \in {"legality", "divergence"}
                /\ (proc[p].signal => ~ r.classed) -> how
          [] proc[p].signal \/ (proc[p].rc = 143 /\ r.pid = "none") -> "interrupted"
          [] OTHER -> "error"

\* The placement report, open("x").
SealPlacement(p) ==
    /\ proc[p].at = "placeReturned"
    /\ placed' = IF placed[proc[p].v] # "absent" THEN placed
         ELSE [placed EXCEPT ![proc[p].v] = PlacementOutcome(p)]
    /\ proc' = [proc EXCEPT ![p] = Idle]
    /\ UNCHANGED <<dir, decision, cheap, smoke, permit, placeAttempt, numeric, reopen, auth,
                   route, tmpfs, compute, faults, history>>

-----------------------------------------------------------------------------
(* The placement looked at once more.                                       *)

\* analyze_bN_placement_log.py: PASS when the report is PASS and the log verifies its anchors.
AnalyzePlacement(v) ==
    /\ v \in DOMAIN PlacementLog
    /\ numeric[v] = "absent"
    /\ placed[v] \notin {"absent", "torn"}
    /\ \E verified \in 0..PlacementLog[v].anchors :
         numeric' = [numeric EXCEPT ![v] =
           IF placed[v] = "PASS" /\ verified = PlacementLog[v].anchors THEN "PASS" ELSE "FAIL"]
    /\ UNCHANGED <<dir, decision, cheap, smoke, permit, placeAttempt, placed, reopen, auth, route,
                   machine, history>>

\* run_wbq_bN_targeted_placement_audit.sh: the sealed placement opened once more.
AuditReopen(v) ==
    /\ v \in DOMAIN PlacementLog
    /\ reopen[v] = "absent"
    /\ placed[v] = "PASS"
    /\ <<v, "place">> \in tmpfs
    /\ NoOpenroad
    /\ \E result \in {"PASS", "FAIL"} : reopen' = [reopen EXCEPT ![v] = result]
    /\ UNCHANGED <<dir, decision, cheap, smoke, permit, placeAttempt, placed, numeric, auth,
                   route, machine, history>>

-----------------------------------------------------------------------------
(* tools/authorize_bN_global_route.py, in two steps: it looks whether its   *)
(* output exists and evaluates its conditions, then it writes the file,     *)
(* over one that appeared meanwhile.                                        *)

NoPriorRoute(v) ==
    /\ attempt[v] = "absent"
    /\ manifest[v].status = "absent"
    /\ analysis[v] = NoTotals
    /\ <<v, "routed">> \notin tmpfs

\* The files the script loads are there and are JSON.
RouteEvidenceLoads(v) ==
    LET r == RouteAuth[v] IN
    /\ placed[r.placement] \notin {"absent", "torn"}
    /\ r.numeric => numeric[r.placement] # "absent"
    /\ r.reopenAnchors > 0 => reopen[r.placement] # "absent"
    /\ decision[v] = "selected"
    /\ IF r.permit = "smoke" THEN smoke[v] # "absent"
       ELSE permit[v].status \notin {"absent", "torn"}
    /\ r.cheap => cheap[v] # "absent"

RouteConditions(v) ==
    LET r == RouteAuth[v] IN
    /\ placed[r.placement] = "PASS"
    /\ <<r.placement, "place">> \in tmpfs
    /\ r.numeric => numeric[r.placement] = "PASS"
    /\ r.reopenAnchors > 0 =>
         reopen[r.placement] = "PASS" /\ PlacementLog[r.placement].anchors = r.reopenAnchors
    /\ IF r.permit = "smoke" THEN smoke[v] = "PASS" ELSE permit[v].status = "PASS"
    /\ r.cheap => cheap[v] = "PASS" /\ <<v, "smoke">> \in tmpfs
    /\ ExpectedChange(v, r)
    /\ NoPriorRoute(v)

AuthorizeRouteReads(p, v) ==
    /\ proc[p].at = "idle"
    /\ v \in DOMAIN RouteAuth
    /\ auth[v].status = "absent"
    /\ RouteEvidenceLoads(v)
    /\ proc' = [proc EXCEPT ![p] = [Idle EXCEPT !.at = "authorizing", !.v = v,
         !.verdict = IF RouteConditions(v) THEN "PASS" ELSE "BLOCKED"]]
    /\ UNCHANGED <<documents, route, tmpfs, compute, faults, history>>

AuthorizeRouteWrites(p) ==
    /\ proc[p].at = "authorizing"
    /\ auth' = [auth EXCEPT ![proc[p].v] = [status |-> proc[p].verdict, current |-> TRUE]]
    /\ proc' = [proc EXCEPT ![p] = Idle]
    /\ UNCHANGED <<dir, decision, cheap, smoke, permit, placeAttempt, placed, numeric, reopen,
                   route, tmpfs, compute, faults, history>>

-----------------------------------------------------------------------------
(* verification/groot_normalization/run_wbq_quad_local_bN_global_route.sh  *)

\* Input gate, duplicate check and pgrep; without a permission script the report permits.
RunnerChecks(p, v) ==
    /\ proc[p].at = "idle"
    /\ v \in DOMAIN Gate
    /\ placed[PlacementOf(v)] = "PASS"
    /\ <<PlacementOf(v), "place">> \in tmpfs
    /\ v \in DOMAIN RouteAuth => auth[v] = [status |-> "PASS", current |-> TRUE]
    /\ NoPriorRoute(v)
    /\ NoOpenroad
    /\ proc' = [proc EXCEPT ![p] = [Idle EXCEPT !.at = "checked", !.v = v]]
    /\ UNCHANGED <<documents, route, tmpfs, compute, faults, history>>

\* The runner makes the variant's directory before it checks anything.
RunnerTooEarly(v) ==
    /\ v \in DOMAIN Gate
    /\ v \notin dir
    /\ faults < MaxFaults
    /\ faults' = faults + 1
    /\ dir' = dir \cup {v}
    /\ UNCHANGED <<decision, cheap, smoke, permit, placeAttempt, placed, numeric, reopen, auth,
                   route, tmpfs, compute, proc, history>>

\* Mutant: the invocation record written without open("x").
CreateAttemptAnyway(p) ==
    /\ proc[p].at = "checked"
    /\ attempt' = [attempt EXCEPT ![proc[p].v] = "started"]
    /\ proc' = [proc EXCEPT ![p].at = "attempted"]
    /\ UNCHANGED <<documents, manifest, report, analysis, gate, tmpfs, compute, faults, history>>

\* The invocation record, open("x"): of two runners one goes on, the other exits.
CreateAttempt(p) ==
    /\ proc[p].at = "checked"
    /\ IF attempt[proc[p].v] = "absent"
       THEN /\ attempt' = [attempt EXCEPT ![proc[p].v] = "started"]
            /\ proc' = [proc EXCEPT ![p].at = "attempted"]
       ELSE /\ proc' = [proc EXCEPT ![p] = Idle]
            /\ UNCHANGED attempt
    /\ UNCHANGED <<documents, manifest, report, analysis, gate, tmpfs, compute, faults, history>>

\* OpenROAD is started: in the background once the traps are installed, or in the foreground.
Launch(p) ==
    /\ proc[p].at = "attempted"
    /\ live' = live \cup {<<p, proc[p].v>>}
    /\ launches' = [launches EXCEPT ![proc[p].v] = @ + 1]
    /\ proc' = [proc EXCEPT ![p].at =
         IF RouteRun[proc[p].v].pid = "none" THEN "waiting" ELSE "launched"]
    /\ UNCHANGED <<documents, route, tmpfs, placing, faults, ended, placements, placeEnded,
                   orphaned>>

\* What pgrep sees, whoever started it.
Openroads == ({"route"} \X live) \cup ({"place"} \X placing)

\* refresh_compute_pid: the one process named openroad.  B25 knows its own child.
RefreshComputePid(p) ==
    CASE RouteRun[proc[p].v].pid = "child" -> {<<"route", <<p, proc[p].v>>>>}
      [] RouteRun[proc[p].v].pid = "named" /\ Cardinality(Openroads) = 1 -> Openroads
      [] OTHER -> proc[p].pid

\* The polling loop ends with a pid recorded, or without one (launcher gone, 120 polls over).
PollComputePid(p) ==
    LET pid == RefreshComputePid(p) IN
    /\ proc[p].at = "launched"
    /\ attempt' = IF pid # {} THEN [attempt EXCEPT ![proc[p].v] = "pid"] ELSE attempt
    /\ proc' = [proc EXCEPT ![p].at = "waiting", ![p].pid = pid]
    /\ UNCHANGED <<documents, manifest, report, analysis, gate, tmpfs, compute, faults, history>>

\* OpenROAD ends by itself; only a finished route leaves databases and a congestion report.
OpenroadEnds(l) ==
    /\ l \in live
    /\ live' = live \ {l}
    /\ \/ \E t \in Totals :
            /\ ended' = [ended EXCEPT ![l[2]] = "ok"]
            /\ report' = [report EXCEPT ![l[2]] = t]
            /\ tmpfs' = tmpfs \cup {<<l[2], "routed">>}
       \/ /\ \E how \in {"abort", "error"} : ended' = [ended EXCEPT ![l[2]] = how]
          /\ UNCHANGED <<report, tmpfs>>
    /\ UNCHANGED <<documents, attempt, manifest, analysis, gate, placing, proc, faults, launches,
                   placements, placeEnded, orphaned>>

ExitCode(how) ==
    CASE how = "ok" -> 0 [] how = "abort" -> 134 [] how = "killed" -> 143 [] OTHER -> 1

\* wait returns the status of the launcher, which passes OpenROAD's on.
WaitReturns(p) ==
    /\ proc[p].at = "waiting"
    /\ <<p, proc[p].v>> \notin live
    /\ proc' = [proc EXCEPT ![p].at = "returned", ![p].pid = {},
                            ![p].rc = ExitCode(ended[proc[p].v])]
    /\ UNCHANGED <<documents, route, tmpfs, compute, faults, history>>

\* analyze_variant_residual_congestion.py, called only for a complete route.
ParseCongestion(p) ==
    LET v == proc[p].v
        runs == proc[p].rc = 0 /\ <<v, "routed">> \in tmpfs /\ analysis[v] = NoTotals
    IN  /\ proc[p].at = "returned"
        /\ analysis' = IF runs THEN [analysis EXCEPT ![v] = report[v]] ELSE analysis
        /\ proc' = [proc EXCEPT ![p].at = "parsed", ![p].parsed = runs]
        /\ UNCHANGED <<documents, attempt, manifest, report, gate, tmpfs, compute, faults,
                       history>>

\* Mutant: a run that was signalled after OpenROAD ended is sealed by its exit codes alone.
RunPassedUnlessFailed(p) == proc[p].rc = 0 /\ proc[p].parsed /\ attempt[proc[p].v] = "pid"

\* The runners of B3, B4 and B5 know neither a signal nor a pid.
RunPassed(p) ==
    /\ proc[p].rc = 0
    /\ proc[p].parsed
    /\ ~ proc[p].signal
    /\ RouteRun[proc[p].v].pid # "none" => attempt[proc[p].v] = "pid"

\* Mutant: the class named by the exit code.
FailureClassByCode(p) == IF proc[p].rc = 143 THEN "terminated" ELSE "tool_error"

FailureClass(p) ==
    CASE RouteRun[proc[p].v].pid = "none" -> None
      [] proc[p].signal -> "interrupted"
      [] OTHER -> "tool_error"

\* The execution report, open("x").
SealManifest(p) ==
    /\ proc[p].at = "parsed"
    /\ manifest' = IF manifest[proc[p].v].status # "absent" THEN manifest
         ELSE [manifest EXCEPT ![proc[p].v] =
           [status |-> IF RunPassed(p) THEN "PASS" ELSE "FAIL",
            class |-> IF RunPassed(p) THEN None ELSE FailureClass(p),
            exit |-> proc[p].rc, preserved |-> RouteRun[proc[p].v].preserved]]
    /\ proc' = [proc EXCEPT ![p] = Idle]
    /\ UNCHANGED <<documents, attempt, report, analysis, gate, tmpfs, compute, faults, history>>

-----------------------------------------------------------------------------
(* Faults of a run: signals, failing commands, kill -9, reboot, edits.      *)

Fault == faults < MaxFaults /\ faults' = faults + 1

\* TERM to the processes in pid that still exist.
Terminate(pid) ==
    LET routes == {l \in live : <<"route", l>> \in pid}
        places == {l \in placing : <<"place", l>> \in pid}
    IN  /\ live' = live \ routes
        /\ placing' = placing \ places
        /\ ended' = [w \in All |-> IF \E l \in routes : l[2] = w THEN "killed" ELSE ended[w]]
        /\ placeEnded' = [w \in All |->
             IF \E l \in places : l[2] = w THEN "killed" ELSE placeEnded[w]]

\* The operator stops an OpenROAD that does not come to an end, and not its runner.
TerminateOpenroad(l) ==
    /\ Terminate({l})
    /\ UNCHANGED <<documents, route, tmpfs, proc, faults, launches, placements, orphaned>>

\* on_signal: TERM to the pid it finds; wait itself returns at once with 143.
SignalRunner(p) ==
    LET pid == RefreshComputePid(p) IN
    /\ proc[p].at \in {"launched", "waiting", "returned", "parsed"}
    /\ RouteRun[proc[p].v].pid # "none"
    /\ Fault
    /\ Terminate(pid)
    /\ proc' = [proc EXCEPT ![p].signal = TRUE,
         ![p].pid = IF proc[p].at = "waiting" THEN {} ELSE pid,
         ![p].at = IF @ = "waiting" THEN "returned" ELSE @,
         ![p].rc = IF proc[p].at = "waiting" THEN 143 ELSE @]
    /\ UNCHANGED <<documents, route, tmpfs, launches, placements, orphaned>>

\* Mutant: the EXIT trap does not write the fail-closed manifest.
RunnerFailsSilently(p) ==
    /\ proc[p].at \in {"launched", "returned", "parsed"}
    /\ RouteRun[proc[p].v].pid # "none"
    /\ Fault
    /\ Terminate(RefreshComputePid(p))
    /\ proc' = [proc EXCEPT ![p] = Idle]
    /\ UNCHANGED <<documents, route, tmpfs, launches, placements, orphaned>>

\* A command of a runner with traps fails under set -e: on_exit stops the OpenROAD it finds
\* (B25 leaves its child alone) and writes the fail-closed manifest.  It reads the invocation
\* record for that: if the command that failed is a rewrite of the record, there is none.
RunnerFails(p) ==
    LET v == proc[p].v
        stopped == IF RouteRun[v].pid = "named" THEN RefreshComputePid(p) ELSE {}
    IN  /\ proc[p].at \in {"launched", "returned", "parsed"}
        /\ RouteRun[v].pid # "none"
        /\ Fault
        /\ Terminate(stopped)
        /\ \/ /\ manifest' = IF manifest[v].status # "absent" THEN manifest
                  ELSE [manifest EXCEPT ![v] = [status |-> "FAIL", class |-> FailureClass(p),
                                                exit |-> 1, preserved |-> FALSE]]
              /\ UNCHANGED orphaned
           \/ /\ proc[p].at = "launched"
              /\ orphaned' = orphaned \cup {<<"route", v>>}
              /\ UNCHANGED manifest
        /\ proc' = [proc EXCEPT ![p] = Idle]
        /\ UNCHANGED <<documents, attempt, report, analysis, gate, tmpfs, launches, placements>>

\* on_signal of a placement runner: TERM to its own OpenROAD (B25: to the newest one), unless
\* the signal comes before its pid is known.
SignalPlacement(p) ==
    LET v == proc[p].v
        own == <<"place", <<p, v>>>>
    IN  /\ proc[p].at \in {"placing", "placeReturned"}
        /\ PlacementRun[v].pid # "none"
        /\ Fault
        /\ \/ /\ \E l \in {own} \cup (IF PlacementRun[v].pid = "newest" THEN Openroads ELSE {}) :
                   Terminate({l})
              /\ proc' = [proc EXCEPT ![p].signal = TRUE, ![p].at = "placeReturned",
                   ![p].rc = IF proc[p].at = "placing" THEN 143 ELSE @]
           \/ /\ proc[p].at = "placing"
              /\ proc' = [proc EXCEPT ![p].signal = TRUE]
              /\ UNCHANGED <<compute, ended, placeEnded>>
        /\ UNCHANGED <<documents, route, tmpfs, launches, placements, orphaned>>

\* A command of a placement runner with traps fails: the EXIT trap seals a failure from the
\* invocation record, if that can be read, and leaves OpenROAD alone.
PlacementFails(p) ==
    LET v == proc[p].v IN
    /\ proc[p].at \in {"placing", "placeReturned"}
    /\ PlacementRun[v].pid # "none"
    /\ Fault
    /\ \/ /\ placed' = IF placed[v] # "absent" THEN placed
              ELSE [placed EXCEPT ![v] = IF proc[p].signal THEN "interrupted" ELSE "error"]
          /\ UNCHANGED orphaned
       \/ /\ orphaned' = orphaned \cup {<<"place", v>>}
          /\ UNCHANGED placed
    /\ proc' = [proc EXCEPT ![p] = Idle]
    /\ UNCHANGED <<dir, decision, cheap, smoke, permit, placeAttempt, numeric, reopen, auth,
                   route, tmpfs, compute, launches, ended, placements, placeEnded>>

\* The run of p that nobody seals any more when p is gone.
Unsealed(p) ==
    CASE proc[p].at \in {"placeAttempted", "placing", "placeReturned"} -> {<<"place", proc[p].v>>}
      [] proc[p].at \in {"attempted", "launched", "waiting", "returned", "parsed"} ->
           {<<"route", proc[p].v>>}
      [] OTHER -> {}

\* The files p may be writing, torn: over an existing one only without open("x").
Torn(file, v, exclusive) ==
    IF exclusive /\ file[v] # "absent" THEN file ELSE [file EXCEPT ![v] = "torn"]

TornPermit(file, v, exclusive) ==
    IF exclusive /\ file[v].status # "absent" THEN file ELSE [file EXCEPT ![v].status = "torn"]

\* kill -9, a signal before the traps, any signal or failing command of a runner without them:
\* no report, and OpenROAD goes on.  A process killed while it writes its JSON file leaves a
\* torn one; a runner is killed in that moment or before.
KillProc(p) ==
    LET v == proc[p].v  at == proc[p].at IN
    /\ at # "idle"
    /\ Fault
    /\ orphaned' = orphaned \cup Unsealed(p)
    /\ permit' = IF at = "permitting" THEN TornPermit(permit, v, Physical[v].exclusive) ELSE permit
    /\ auth' = IF at = "authorizing" THEN TornPermit(auth, v, FALSE) ELSE auth
    /\ gate' = IF at = "deciding" THEN Torn(gate, v, Gate[v].exclusive) ELSE gate
    /\ placed' \in {placed} \cup (IF at = "placeReturned" THEN {Torn(placed, v, TRUE)} ELSE {})
    /\ manifest' \in {manifest}
         \cup (IF at = "parsed" THEN {TornPermit(manifest, v, TRUE)} ELSE {})
    /\ proc' = [proc EXCEPT ![p] = Idle]
    /\ UNCHANGED <<dir, decision, cheap, smoke, placeAttempt, numeric, reopen, attempt, report,
                   analysis, tmpfs, compute, launches, ended, placements, placeEnded>>

\* A reboot ends every process and empties /dev/shm; the reports stay.
Reboot ==
    /\ Fault
    /\ tmpfs' = {}
    /\ Terminate(Openroads)
    /\ orphaned' = orphaned \cup UNION {Unsealed(p) : p \in Procs}
    /\ proc' = [p \in Procs |-> Idle]
    /\ UNCHANGED <<documents, route, launches, placements>>

\* Somebody edits a script or TCL file that the permission to route pins.
EditTool(v) ==
    /\ Fault
    /\ auth[v].current
    /\ auth' = [auth EXCEPT ![v].current = FALSE]
    /\ UNCHANGED <<dir, decision, cheap, smoke, permit, placeAttempt, placed, numeric, reopen,
                   route, tmpfs, compute, proc, history>>

-----------------------------------------------------------------------------
(* tools/decide_bN_phase6_strict_gate.py, in the same two steps.            *)

\* Mutant: the overflow of the report not looked at.
GateConditionsResidualOnly(v) ==
    /\ analysis[v].residual = 0
    /\ placed[Gate[v].placement] = "PASS"
    /\ manifest[v].status = "PASS"
    /\ <<v, "routed">> \in tmpfs

GateConditions(v) ==
    LET g == Gate[v] IN
    /\ analysis[v] = Clean
    /\ placed[g.placement] = "PASS"
    /\ g.permission => auth[v].status = "PASS"
    /\ manifest[v].status = "PASS"
    /\ g.protected => manifest[v].preserved
    /\ <<v, "routed">> \in tmpfs

\* Mutant: an existing gate decided again.
DecideGateAgain(p, v) ==
    /\ proc[p].at = "idle"
    /\ v \in DOMAIN Gate
    /\ manifest[v].status \notin {"absent", "torn"}
    /\ analysis[v] # NoTotals
    /\ proc' = [proc EXCEPT ![p] = [Idle EXCEPT !.at = "deciding", !.v = v,
         !.verdict = IF GateConditions(v) THEN "PASS" ELSE "BLOCKED"]]
    /\ UNCHANGED <<documents, route, tmpfs, compute, faults, history>>

DecideGateReads(p, v) ==
    /\ proc[p].at = "idle"
    /\ v \in DOMAIN Gate
    /\ gate[v] = "absent"
    /\ placed[Gate[v].placement] \notin {"absent", "torn"}
    /\ Gate[v].permission => auth[v].status \notin {"absent", "torn"}
    /\ manifest[v].status \notin {"absent", "torn"}
    /\ analysis[v] # NoTotals
    /\ proc' = [proc EXCEPT ![p] = [Idle EXCEPT !.at = "deciding", !.v = v,
         !.verdict = IF GateConditions(v) THEN "PASS" ELSE "BLOCKED"]]
    /\ UNCHANGED <<documents, route, tmpfs, compute, faults, history>>

DecideGateWrites(p) ==
    LET v == proc[p].v IN
    /\ proc[p].at = "deciding"
    /\ gate' = IF Gate[v].exclusive /\ gate[v] # "absent" THEN gate
               ELSE [gate EXCEPT ![v] = proc[p].verdict]
    /\ proc' = [proc EXCEPT ![p] = Idle]
    /\ UNCHANGED <<documents, attempt, manifest, report, analysis, tmpfs, compute, faults,
                   history>>

-----------------------------------------------------------------------------
\* The steps a runner takes by itself once it goes to consume its attempt.
RunnerStep(p) ==
    \/ CreatePlacement(p) \/ LaunchPlacement(p) \/ PlacementReturns(p) \/ SealPlacement(p)
    \/ CreateAttempt(p) \/ Launch(p) \/ PollComputePid(p) \/ WaitReturns(p)
    \/ ParseCongestion(p) \/ SealManifest(p)

Next ==
    \/ \E v \in Variants :
         \/ Select(v) \/ CollectCheapGate(v) \/ RunSmoke(v) \/ AnalyzePlacement(v)
         \/ AuditReopen(v) \/ RunnerTooEarly(v) \/ EditTool(v)
    \/ \E p \in Procs, v \in Variants :
         \/ AuthorizePhysicalReads(p, v) \/ PlacementChecks(p, v)
         \/ AuthorizeRouteReads(p, v) \/ RunnerChecks(p, v) \/ DecideGateReads(p, v)
    \/ \E p \in Procs :
         \/ AuthorizePhysicalWrites(p) \/ AuthorizeRouteWrites(p) \/ DecideGateWrites(p)
         \/ RunnerStep(p) \/ SignalPlacement(p) \/ PlacementFails(p)
         \/ SignalRunner(p) \/ RunnerFails(p) \/ KillProc(p)
    \/ \E l \in placing : PlacementEnds(l)
    \/ \E l \in live : OpenroadEnds(l)
    \/ \E l \in Openroads : TerminateOpenroad(l)
    \/ Reboot

\* A runner that is not killed goes on; how long OpenROAD runs is not assumed.
Spec == Init /\ [][Next]_vars /\ \A p \in Procs : WF_vars(RunnerStep(p))

-----------------------------------------------------------------------------
(* Properties *)

Verdicts == {"absent", "torn", "PASS", "BLOCKED"}

\* Every file has one of the contents its script writes, or is torn by a kill.
TypeOK ==
    /\ dir \subseteq All
    /\ decision \in [All -> {"absent", "torn", "selected"}]
    /\ {cheap, smoke, numeric, reopen} \subseteq [All -> {"absent", "PASS", "FAIL"}]
    /\ {permit, auth} \subseteq [All -> [status : Verdicts, current : BOOLEAN]]
    /\ placeAttempt \subseteq All
    /\ placed \in [All -> {"absent", "torn", "PASS", "legality", "divergence", "interrupted",
                           "error"}]
    /\ attempt \in [All -> {"absent", "started", "pid"}]
    /\ manifest \in [All -> [status : {"absent", "torn", "PASS", "FAIL"},
                             class : {None, "interrupted", "tool_error"},
                             exit : {0, 1, 134, 143}, preserved : BOOLEAN]]
    /\ {report, analysis} \subseteq [All -> Totals \cup {NoTotals}]
    /\ gate \in [All -> Verdicts]
    /\ tmpfs \subseteq All \X {"rudy", "place", "smoke", "routed"}
    /\ live \subseteq Procs \X Variants
    /\ placing \subseteq Procs \X Variants
    /\ faults \in 0..MaxFaults
    /\ {launches, placements} \subseteq [All -> Nat]
    /\ orphaned \subseteq {"place", "route"} \X Variants
    /\ placeEnded \in [All -> {None, "ok", "legality", "divergence", "error", "killed"}]
    /\ ended \in [All -> {None, "ok", "abort", "error", "killed"}]
    /\ \A p \in Procs :
         /\ proc[p].at \in {"idle", "permitting", "placeChecked", "placeAttempted", "placing",
                            "placeReturned", "authorizing", "checked", "attempted", "launched",
                            "waiting", "returned", "parsed", "deciding"}
         /\ proc[p].v \in Variants \cup {None}
         /\ proc[p].pid \subseteq {"place", "route"} \X (Procs \X Variants)

\* A variant's global route is invoked once, whatever runners start and however they end:
\* "The marker and every route output are immutable evidence that this variant has consumed
\* its sole global-route allowance" (run_wbq_quad_local_b3_global_route.sh).
SingleInvocation == \A v \in Variants : launches[v] <= 1

\* A variant is placed once, whatever runners start and however they end: "A B3 physical
\* attempt is single-shot.  Even a failed invocation leaves this marker behind so the same
\* variant cannot silently be retried" (run_wbq_quad_local_b3_placement.sh).
SinglePlacement == \A v \in Variants : placements[v] <= 1

\* A PASS of the strict gate stands on a route that OpenROAD finished itself, without a kill,
\* whose report has neither residual nor overflow, from a legal placement.
PassGrounded ==
    \A v \in Variants : gate[v] = "PASS" =>
        /\ ended[v] = "ok"
        /\ report[v] = Clean
        /\ placed[PlacementOf(v)] = "PASS"
        /\ manifest[v].class # "interrupted"

\* A sealed run that was told to stop is never reported as PASS, also when the signal came
\* after OpenROAD had finished.
SignalSealsFailure ==
    [][\A p \in Procs : proc[p].signal /\ proc'[p].at = "idle" =>
         /\ proc[p].at = "parsed" => manifest'[proc[p].v].status # "PASS"
         /\ proc[p].at = "placeReturned" => placed'[proc[p].v] # "PASS"]_vars

\* The next variant is opened only by a real failure of the last one: OpenROAD aborted by
\* itself, or it finished and left congestion, or the placement failed.  A route that was
\* interrupted, killed by the signal of another runner, or lost in a reboot opens nothing.
SuccessorOnTrueFailure ==
    \A v \in Variants : LET w == Selection[v].predecessor IN
        decision[v] = "selected" /\ w \in Variants =>
            CASE Selection[v].evidence = "toolError" -> ended[w] = "abort"
              [] Selection[v].evidence = "blocked" -> ended[w] = "ok" /\ report[w] # Clean
              [] Selection[v].evidence = "interrupted" -> placeEnded[w] = "killed"
              [] OTHER -> placeEnded[w] = Selection[v].evidence

\* A strict gate that passed does not turn into a refusal, nor a refusal into a pass: a second
\* decide process that started before the first wrote can only write the same, or be killed
\* in its write.  Not so where a permission to route depends on a cheap gate that is collected
\* again between two permissions under way: that of B25 reads it, those of B6, B7 and B9 read
\* the permission to place, which pins the gate of B5.  The later may refuse what was routed.
VerdictStable ==
    [][\A v \in Variants : gate[v] \in {"PASS", "BLOCKED"} => gate'[v] \in {gate[v], "torn"}]_vars

\* A placement or route that was attempted and whose OpenROAD does not run is sealed, unless
\* its runner died without a trap (those of B3, B4 and B5 have none; the placement runner of
\* B6 neither) or could not read the invocation record it was rewriting.
StartedRunSeals ==
    \A v \in Variants :
        /\ (v \in placeAttempt /\ \A p \in Procs : <<p, v>> \notin placing)
             ~> (placed[v] # "absent" \/ <<"place", v>> \in orphaned
                   \/ \E p \in Procs : <<p, v>> \in placing)
        /\ (attempt[v] # "absent" /\ \A p \in Procs : <<p, v>> \notin live)
             ~> (manifest[v].status # "absent" \/ <<"route", v>> \in orphaned
                   \/ \E p \in Procs : <<p, v>> \in live)

\* The route of a variant differs from that of its predecessor in the one variable its decision
\* declares ("single_independent_variable", select_b23_bump_origin_eco.py).
OneVariableEco ==
    \A v \in Variants : LET w == Selection[v].predecessor IN
        launches[v] > 0 /\ {v, w} \subseteq DOMAIN RouteTcl =>
            {f \in DOMAIN RouteTcl[v] : RouteTcl[v][f] # RouteTcl[w][f]}
                \subseteq {Selection[v].eco.variable}
=============================================================================
