---------------------------- MODULE WbqEvidence ----------------------------
(***************************************************************************)
(* The wbq pipeline from placement to the route after the clock tree,      *)
(* whose files are overwritten in place.                                   *)
(*                                                                         *)
(* Three scripted sequences run beside each other: phase 3 (placement, its *)
(* audit and its manifest), phase 4 (global route and the transition that  *)
(* decides what comes next) and phase 6 (clock tree and second route).     *)
(* They meet only in the files.  A manifest records hashes of what lay on  *)
(* disk when it was collected, a log the hashes of what its run was given, *)
(* and a later phase starts when the two agree.  A file is modelled by a   *)
(* record, equal to another exactly when the hashes are.                   *)
(***************************************************************************)
EXTENDS Naturals, FiniteSets

CONSTANTS
    MaxPlacements, MaxCollections, MaxRoutes, MaxTransitions, MaxClockTrees, MaxFaults,
    MaxRepeated     \* bound on the kinds of runs there are more than one of

ASSUME WbqAssumption ==
    {MaxPlacements, MaxCollections, MaxRoutes, MaxTransitions, MaxClockTrees,
     MaxFaults, MaxRepeated} \subseteq Nat

Scripts == {"phase3", "phase4", "phase6"}
FlowStages == {"cts", "post"}

VARIABLES
    \* phase 3
    placed,     \* 3_place.odb and 3_place.sdc
    runLog,     \* log of the placement run
    recovery,   \* the recovery log is the newer one
    resize,     \* 3_4_place_resized.log: "complete", "partial" or "absent"
    partial,    \* 3_4_place_resized.tmp.log of an interrupted run is there
    placeAudit, \* audit log: database it opened, PASS or not
    placeMan,   \* wbq_placement_manifest.json
    archive,    \* wbq_placement_manifest.route_input_*.json
    \* phase 4
    routeLog,   \* log of the control route, with the databases it wrote
    routeMan,   \* wbq_global_route_manifest.json
    decision,   \* wbq_post_route_decision.json
    status,     \* wbq_pipeline_status.json
    read,       \* what the collector or the transition holds in memory
    \* phase 6
    gate,       \* wbq_phase6_input_gate.json
    log, out, audit, man,   \* of every stage: run log, databases, audit log, manifest
    \* all
    pc,         \* where each sequence is
    runs,       \* runs, collections and transitions so far, by kind
    faults,
    reopened    \* history: databases an audit opened and found legal

phase3 == <<placed, runLog, recovery, resize, partial, placeAudit, placeMan>>
phase4 == <<routeLog, routeMan, decision, status, read>>
phase6 == <<gate, log, out, audit, man>>
vars == <<phase3, archive, phase4, phase6, pc, runs, faults, reopened>>

\* Not written yet, or torn: a process that loads it as JSON stops.
Absent == [n |-> 0]
Exists(file) == file.n > 0

NoDecision == [kind |-> "absent", source |-> Absent]
NoGate == [pass |-> FALSE, decision |-> NoDecision, man |-> Absent]

Nothing == [verdict |-> "none", launch |-> Absent, archived |-> FALSE]

\* An earlier placement was interrupted: its log has no end and its repair log is partial.
Init ==
    /\ placed = Absent
    /\ runLog = "open"
    /\ recovery = FALSE
    /\ resize = "absent"
    /\ partial = TRUE
    /\ placeAudit = [n |-> 0, pass |-> FALSE]
    /\ placeMan = Absent
    /\ archive = {}
    /\ routeLog = Absent
    /\ routeMan = Absent
    /\ decision = NoDecision
    /\ status = [status |-> "absent", next |-> "none"]
    /\ read = Nothing
    /\ gate = NoGate
    /\ log = [s \in FlowStages |-> Absent]
    /\ out = [s \in FlowStages |-> Absent]
    /\ audit = [s \in FlowStages |-> [n |-> 0, pass |-> FALSE]]
    /\ man = [s \in FlowStages |-> Absent]
    /\ pc = [q \in Scripts |-> "idle"]
    /\ runs = [k \in {"place", "placeMan", "route", "routeMan"} \cup FlowStages |-> 0]
    /\ faults = 0
    /\ reopened = {}

Repeated == {k \in DOMAIN runs : runs[k] > 1}

Bump(k, bound) ==
    /\ runs[k] < bound
    /\ runs' = [runs EXCEPT ![k] = @ + 1]
    /\ Cardinality(Repeated') <= MaxRepeated
GoTo(q, label) == pc' = [pc EXCEPT ![q] = label]
At(q, label) == pc[q] = label

\* pgrep '[o]penroad.*normalization_hbm_wbq': any run of the pipeline.
WbqOpenroad == \/ pc["phase3"] \in {"placing", "recovering"}
               \/ pc["phase4"] = "routing"
               \/ pc["phase6"] \in FlowStages

\* A kill in the middle of a write_text leaves a torn file.
KilledWriting == faults < MaxFaults /\ faults' = faults + 1

-----------------------------------------------------------------------------
(* Phase 3.                                                                 *)

\* run_normalization_hbm_wbq_place.sh: the log is begun again.
Place ==
    /\ At("phase3", "idle")
    /\ ~ WbqOpenroad
    /\ Bump("place", MaxPlacements)
    /\ runLog' = "open"
    /\ recovery' = FALSE
    /\ GoTo("phase3", "placing")
    /\ UNCHANGED <<placed, resize, partial, placeAudit, placeMan, archive,
                   phase4, phase6, faults, reopened>>

\* make builds a new database, from the unrepaired one where a recovery left that, or finds
\* everything up to date, or fails while it resizes.
PlaceEnds ==
    /\ At("phase3", "placing")
    /\ \/ /\ \E ok \in BOOLEAN :
               placed' = [n |-> runs["place"], repaired |-> TRUE, legal |-> ok]
          /\ resize' = "complete"
          /\ partial' = FALSE
          /\ runLog' = "pass"
       \/ /\ resize = "partial"
          /\ \E ok \in BOOLEAN :
               placed' = [n |-> runs["place"], repaired |-> FALSE, legal |-> ok]
          /\ runLog' = "pass"
          /\ UNCHANGED <<resize, partial>>
       \/ /\ Exists(placed)
          /\ runLog' = "pass"
          /\ UNCHANGED <<placed, resize, partial>>
       \/ /\ runLog' = "failed"
          /\ partial' = TRUE
          /\ UNCHANGED <<placed, resize>>
    /\ GoTo("phase3", "idle")
    /\ UNCHANGED <<recovery, placeAudit, placeMan, archive, phase4, phase6, runs, faults, reopened>>

\* run_normalization_hbm_wbq_place_recovery.sh: the placement before repair is legalised.
Recover ==
    /\ At("phase3", "idle")
    /\ ~ WbqOpenroad
    /\ partial
    /\ Bump("place", MaxPlacements)
    /\ recovery' = TRUE
    /\ resize' = "partial"
    /\ GoTo("phase3", "recovering")
    /\ UNCHANGED <<placed, runLog, partial, placeAudit, placeMan, archive,
                   phase4, phase6, faults, reopened>>

\* The collector at its write_text: the old manifest is gone, the new one not there yet.
OpenPlaceManifest ==
    /\ Bump("placeMan", MaxCollections)
    /\ placeMan' = Absent
    /\ GoTo("phase3", "collecting")

\* make, which may find the database up to date (timestamps are preserved); then audit and,
\* on a legal database, collector.
RecoverEnds ==
    /\ At("phase3", "recovering")
    /\ \/ /\ placed' \in (IF Exists(placed) THEN {placed} ELSE {}) \cup
                [n : {runs["place"]}, repaired : {FALSE}, legal : BOOLEAN]
          /\ placeAudit' = [n |-> placed'.n, pass |-> placed'.legal]
          /\ IF placed'.legal THEN OpenPlaceManifest
             ELSE GoTo("phase3", "idle") /\ UNCHANGED <<placeMan, runs>>
       \/ GoTo("phase3", "idle") /\ UNCHANGED <<placed, placeAudit, placeMan, runs>>
    /\ UNCHANGED <<runLog, recovery, resize, partial, archive, phase4, phase6,
                   faults, reopened>>

\* run_normalization_hbm_wbq_place_audit.sh
AuditPlace ==
    /\ At("phase3", "idle")
    /\ Exists(placed)
    /\ placeAudit' = [n |-> placed.n, pass |-> placed.legal]
    /\ placeAudit' # placeAudit
    /\ UNCHANGED <<placed, runLog, recovery, resize, partial, placeMan,
                   archive, phase4, phase6, pc, runs, faults, reopened>>

\* Mutant: a placement is taken for repaired because the recovery log is the older one.
PlacementGateByLog ==
    /\ runLog = "pass"
    /\ placeAudit = [n |-> placed.n, pass |-> TRUE]
    /\ ~ recovery

\* gate_checks that depend on what ran: terminal completion, audit of the database there is,
\* no recovery, a repair that left nothing.
PlacementGate ==
    /\ runLog = "pass"
    /\ placeAudit = [n |-> placed.n, pass |-> TRUE]
    /\ ~ recovery /\ resize = "complete"

CollectPlacement ==
    /\ At("phase3", "idle")
    /\ Exists(placed)
    /\ placeAudit.n > 0
    /\ resize # "absent"
    /\ OpenPlaceManifest
    /\ UNCHANGED <<placed, runLog, recovery, resize, partial, placeAudit,
                   archive, phase4, phase6, faults, reopened>>

\* What the collector writes: nothing it read can have changed, phase 3 waits for it.
WritePlaceManifest ==
    /\ At("phase3", "collecting")
    /\ placeMan' = [n |-> runs["placeMan"], bytes |-> placed, pass |-> PlacementGate]
    /\ GoTo("phase3", "idle")
    /\ UNCHANGED <<placed, runLog, recovery, resize, partial, placeAudit,
                   archive, phase4, phase6, runs, faults, reopened>>

\* The operator keeps a copy of the manifest a route was launched with.
ArchiveManifest ==
    /\ Exists(routeLog)
    /\ Exists(placeMan) /\ placeMan = routeLog.man
    /\ placeMan \notin archive
    /\ archive' = archive \cup {placeMan}
    /\ UNCHANGED <<phase3, phase4, phase6, pc, runs, faults, reopened>>

-----------------------------------------------------------------------------
(* Phase 4: run_normalization_hbm_wbq_v4_control_route.sh.  Its pgrep looks  *)
(* for another route only, so a placement may run meanwhile.                 *)

RouteChecks ==
    /\ At("phase4", "idle")
    /\ Exists(placed) /\ Exists(placeMan)
    /\ placeMan.pass
    /\ placeMan.bytes = placed
    /\ GoTo("phase4", "preflighted")
    /\ UNCHANGED <<phase3, archive, phase4, phase6, runs, faults, reopened>>

\* The header with the hashes, and later the databases as OpenROAD reads them.
RouteHeader ==
    /\ At("phase4", "preflighted")
    /\ Bump("route", MaxRoutes)
    /\ routeLog' = [n |-> runs["route"] + 1, man |-> placeMan, bytes |-> placed,
                    loaded |-> Absent, state |-> "open", zero |-> FALSE]
    /\ GoTo("phase4", "loading")
    /\ UNCHANGED <<phase3, archive, routeMan, decision, status, read, phase6, faults,
                   reopened>>

RouteLoads ==
    /\ At("phase4", "loading")
    /\ routeLog' = [routeLog EXCEPT !.loaded = placed]
    /\ GoTo("phase4", "routing")
    /\ UNCHANGED <<phase3, archive, routeMan, decision, status, read, phase6, runs,
                   faults, reopened>>

RouteEnds ==
    /\ At("phase4", "routing")
    /\ \/ \E z \in BOOLEAN : routeLog' = [routeLog EXCEPT !.state = "pass", !.zero = z]
       \/ routeLog' = [routeLog EXCEPT !.state = "failed"]
    /\ GoTo("phase4", "idle")
    /\ UNCHANGED <<phase3, archive, routeMan, decision, status, read, phase6, runs,
                   faults, reopened>>

-----------------------------------------------------------------------------
(* tools/run_wbq_post_route_transition.py: collector and decision, each      *)
(* between two writes of the status file.  No other sequence reads that      *)
(* file: writes that follow each other are one step, with the last value.    *)

\* Mutant: a stage that begins keeps the next stage named by the one before.
SetStageKeepsNext(state, next) ==
    status' = [status |-> state, next |-> IF state = "RUNNING" THEN status.next ELSE next]

SetStage(state, next) == status' = [status |-> state, next |-> next]

\* The manifest whose hash the log names: the current one, else an archived one.
LaunchManifest ==
    IF placeMan # routeLog.man /\ routeLog.man \in archive THEN routeLog.man ELSE placeMan

\* IMPROVED_NOT_CLOSED and NO_IMPROVEMENT lead to the same decision.
RouteVerdict(m) ==
    IF routeLog.state = "pass" /\ m.pass /\ m.bytes = routeLog.bytes /\ m = routeLog.man
    THEN IF routeLog.zero THEN "PASS_PF4" ELSE "NOT_CLOSED"
    ELSE "INVALID_RUN"

\* run_command writes RUNNING and starts collect_wbq_global_route_evidence.py, which raises on
\* a missing, empty or torn file (a route that failed may have left some out) and else reads
\* log and manifest ...
CollectRouteReads ==
    /\ At("phase4", "idle")
    /\ \/ /\ Exists(routeLog) /\ Exists(LaunchManifest)
          /\ Bump("routeMan", MaxTransitions)
          /\ SetStage("RUNNING", "decide_post_route")
          /\ read' = [verdict |-> RouteVerdict(LaunchManifest), launch |-> LaunchManifest,
                      archived |-> LaunchManifest # placeMan]
          /\ GoTo("phase4", "hashing")
       \/ /\ ~ (Exists(routeLog) /\ Exists(placeMan) /\ routeLog.state = "pass")
          /\ SetStage("FAIL", "STOP")
          /\ UNCHANGED <<read, pc, runs>>
    /\ UNCHANGED <<phase3, archive, routeLog, routeMan, decision, phase6, faults, reopened>>

\* ... and hashes all artifacts at the end: the current manifest may be another by now.
CollectRouteWrites ==
    /\ At("phase4", "hashing")
    /\ routeMan' = [n |-> runs["routeMan"], log |-> routeLog, verdict |-> read.verdict,
                    archived |-> read.archived,
                    launch |-> IF read.archived THEN read.launch ELSE placeMan]
    /\ read' = Nothing
    /\ GoTo("phase4", "collected")
    /\ UNCHANGED <<phase3, archive, routeLog, decision, status, phase6, runs, faults, reopened>>

\* FAIL, or PASS and RUNNING of the decision.
CollectorReturns ==
    /\ At("phase4", "collected")
    /\ IF routeMan.verdict = "INVALID_RUN"
       THEN SetStage("FAIL", "STOP") /\ GoTo("phase4", "idle")
       ELSE SetStage("RUNNING", "READ_DECISION") /\ GoTo("phase4", "deciding")
    /\ UNCHANGED <<phase3, archive, routeLog, routeMan, decision, read, phase6, runs, faults,
                   reopened>>

\* decide_wbq_post_route.decide: every recorded artifact must have its recorded hash.
ArtifactsMatch ==
    /\ routeMan.log = routeLog
    /\ IF routeMan.archived THEN routeMan.launch \in archive ELSE routeMan.launch = placeMan

\* Mutant: the verdict is passed on as the decision.
DecisionKindRaw == IF ArtifactsMatch THEN routeMan.verdict ELSE "STOP"

DecisionKind ==
    IF ArtifactsMatch /\ routeMan.verdict # "INVALID_RUN"
    THEN IF routeMan.verdict = "PASS_PF4" THEN "PHASE6" ELSE "PHASE5"
    ELSE "STOP"

\* The decision is written even when it is STOP.
Decide ==
    /\ At("phase4", "deciding")
    /\ decision' = [kind |-> DecisionKind, source |-> routeMan]
    /\ GoTo("phase4", "decided")
    /\ UNCHANGED <<phase3, archive, routeLog, routeMan, status, read, phase6, runs, faults,
                   reopened>>

\* FAIL, or PASS, the decision read back, and PASS with the next phase (written twice, the
\* second time with the key "decision").
DecisionReturns ==
    /\ At("phase4", "decided")
    /\ IF decision.kind = "STOP"
       THEN SetStage("FAIL", "STOP")
       ELSE SetStage("PASS", decision.kind)
    /\ GoTo("phase4", "idle")
    /\ UNCHANGED <<phase3, archive, routeLog, routeMan, decision, read, phase6, runs, faults,
                   reopened>>

-----------------------------------------------------------------------------
(* Phase 6: clock tree, and the route after the clock tree.                  *)

\* verify_wbq_phase6_gate.verify: the decision, its source recomputed, the placement manifest
\* and the databases it describes.
Phase6Gate ==
    /\ decision.kind = "PHASE6"
    /\ decision.source = routeMan
    /\ DecisionKind = "PHASE6"
    /\ placeMan.pass
    /\ placeMan.bytes = placed

\* run_normalization_hbm_wbq_phase6_cts.sh: pgrep, no outputs yet, the gate, written in place.
VerifyGate ==
    /\ At("phase6", "idle")
    /\ ~ WbqOpenroad
    /\ decision.kind # "absent" /\ Exists(routeMan)
    /\ Exists(placeMan) /\ Exists(placed)
    /\ ~ Exists(out["cts"])
    /\ runs["cts"] < MaxClockTrees
    /\ \/ /\ gate' = [pass |-> Phase6Gate, decision |-> decision, man |-> placeMan]
          /\ GoTo("phase6", IF Phase6Gate THEN "gated" ELSE "idle")
          /\ UNCHANGED faults
       \/ KilledWriting /\ gate' = NoGate /\ UNCHANGED pc
    /\ UNCHANGED <<phase3, archive, phase4, log, out, audit, man, runs, reopened>>

\* The header with the hashes, and later the placement as make reads it: a placement that was
\* started after the pgrep may have replaced it.
CtsHeader ==
    /\ At("phase6", "gated")
    /\ Bump("cts", MaxClockTrees)
    /\ log' = [log EXCEPT !["cts"] =
         [n |-> runs["cts"] + 1, decision |-> decision, gate |-> gate, from |-> placed,
          loaded |-> Absent, state |-> "open"]]
    /\ GoTo("phase6", "building")
    /\ UNCHANGED <<phase3, archive, phase4, gate, out, audit, man, faults, reopened>>

CtsLoads ==
    /\ At("phase6", "building")
    /\ log' = [log EXCEPT !["cts"].loaded = placed]
    /\ GoTo("phase6", "cts")
    /\ UNCHANGED <<phase3, archive, phase4, gate, out, audit, man, runs, faults, reopened>>

\* run_normalization_hbm_wbq_phase6_post_cts_route.sh: no output of its own, a clock tree
\* manifest that passed and describes the databases there are.  Only this sequence replaces
\* those, so header and OpenROAD find the same.
LaunchPostCtsRoute ==
    /\ At("phase6", "idle")
    /\ ~ WbqOpenroad
    /\ ~ Exists(log["post"]) /\ ~ Exists(out["post"])
    /\ Exists(man["cts"]) /\ Exists(out["cts"])
    /\ man["cts"].pass
    /\ man["cts"].out = out["cts"]
    /\ Bump("post", MaxRoutes)
    /\ log' = [log EXCEPT !["post"] =
         [n |-> runs["post"] + 1, man |-> man["cts"], from |-> out["cts"],
          loaded |-> out["cts"], state |-> "open"]]
    /\ GoTo("phase6", "post")
    /\ UNCHANGED <<phase3, archive, phase4, gate, out, audit, man, faults, reopened>>

Results == [cts |-> {"good", "illegal"}, post |-> {"good", "illegal", "congested"}]

\* A stage ends with its databases, whatever they are worth, or fails.
StageEnds(s) ==
    /\ At("phase6", s)
    /\ \/ \E r \in Results[s] :
            /\ out' = [out EXCEPT ![s] =
                 [n |-> log[s].n, from |-> log[s].loaded, result |-> r]]
            /\ log' = [log EXCEPT ![s].state = "pass"]
       \/ /\ log' = [log EXCEPT ![s].state = "failed"]
          /\ UNCHANGED out
    /\ GoTo("phase6", "idle")
    /\ UNCHANGED <<phase3, archive, phase4, gate, audit, man, runs, faults, reopened>>

\* run_normalization_hbm_wbq_phase*_audit.sh reopens the databases.
AuditStage(s) ==
    /\ At("phase6", "idle")
    /\ ~ WbqOpenroad
    /\ Exists(out[s])
    /\ Exists(log[s]) /\ log[s].state = "pass"
    /\ audit' = [audit EXCEPT ![s] = [n |-> out[s].n, pass |-> out[s].result # "illegal"]]
    /\ reopened' = reopened \cup {<<s, out[s].n>>}
    /\ audit' # audit
    /\ UNCHANGED <<phase3, archive, phase4, gate, log, out, man, pc, runs, faults>>

\* Mutant: PASS in the audit log is enough.
AuditMatchesMarker(s) == audit[s].pass

\* The audit passed and names the hashes of the databases there are.
AuditMatches(s) == audit[s].pass /\ audit[s].n = out[s].n

\* gate_pass of collect_wbq_phase6_cts_evidence.py: the run was given what placement manifest,
\* decision and input gate say today.
CtsGate ==
    /\ log["cts"].state = "pass"
    /\ AuditMatches("cts")
    /\ placeMan.pass
    /\ log["cts"].from = placeMan.bytes
    /\ decision.kind = "PHASE6" /\ log["cts"].decision = decision
    /\ gate.pass /\ log["cts"].gate = gate

\* gate_pass of collect_wbq_phase6_post_cts_route_evidence.py
PostCtsRouteGate ==
    /\ log["post"].state = "pass"
    /\ AuditMatches("post")
    /\ man["cts"].pass
    /\ log["post"].man = man["cts"]
    /\ log["post"].from = man["cts"].out
    /\ out["post"].result # "congested"

\* write_text: the manifest, or what a kill leaves of it.
WriteManifest(s, verdict) ==
    /\ \/ /\ man' = [man EXCEPT ![s] =
               [n |-> log[s].n, out |-> out[s], log |-> log[s], pass |-> verdict]]
          /\ UNCHANGED faults
       \/ KilledWriting /\ man' = [man EXCEPT ![s] = Absent]
    /\ man' # man
    /\ UNCHANGED <<phase3, archive, phase4, gate, log, out, audit, pc, runs, reopened>>

CollectCts ==
    /\ At("phase6", "idle")
    /\ Exists(log["cts"]) /\ Exists(out["cts"]) /\ audit["cts"].n > 0
    /\ Exists(placeMan) /\ decision # NoDecision /\ gate # NoGate
    /\ WriteManifest("cts", CtsGate)

CollectPostCtsRoute ==
    /\ At("phase6", "idle")
    /\ Exists(log["post"]) /\ Exists(out["post"]) /\ audit["post"].n > 0
    /\ Exists(man["cts"])
    /\ WriteManifest("post", PostCtsRouteGate)

\* "must first be audited and explicitly archived by the operator", by moving the databases:
\* run log, audit log and manifest stay.
ArchiveCts ==
    /\ At("phase6", "idle")
    /\ Exists(out["cts"])
    /\ audit["cts"].n = out["cts"].n
    /\ out' = [out EXCEPT !["cts"] = Absent]
    /\ UNCHANGED <<phase3, archive, phase4, gate, log, audit, man, pc, runs, faults, reopened>>

-----------------------------------------------------------------------------
(* A sequence and the OpenROAD run it waits for disappear.  What it was      *)
(* writing is torn (the placement manifest is already, while it is written); *)
(* an interrupted placement leaves its partial repair log.                   *)

Interrupt(q) ==
    /\ ~ At(q, "idle")
    /\ faults < MaxFaults
    /\ faults' = faults + 1
    /\ partial' = (partial \/ At(q, "placing"))
    /\ routeMan' \in {routeMan} \cup IF At(q, "hashing") THEN {Absent} ELSE {}
    /\ decision' \in {decision} \cup IF At(q, "deciding") THEN {NoDecision} ELSE {}
    /\ read' = IF q = "phase4" THEN Nothing ELSE read
    /\ GoTo(q, "idle")
    /\ UNCHANGED <<placed, runLog, recovery, resize, placeAudit, placeMan,
                   archive, routeLog, status, phase6, runs, reopened>>

-----------------------------------------------------------------------------

Phase3 ==
    \/ Place \/ PlaceEnds \/ Recover \/ RecoverEnds \/ AuditPlace
    \/ CollectPlacement \/ WritePlaceManifest \/ ArchiveManifest

Phase4 ==
    \/ RouteChecks \/ RouteHeader \/ RouteLoads \/ RouteEnds
    \/ CollectRouteReads \/ CollectRouteWrites \/ CollectorReturns
    \/ Decide \/ DecisionReturns

Phase6 ==
    \/ VerifyGate \/ CtsHeader \/ CtsLoads
    \/ LaunchPostCtsRoute
    \/ \E s \in FlowStages : StageEnds(s) \/ AuditStage(s)
    \/ CollectCts \/ CollectPostCtsRoute
    \/ ArchiveCts

Next == Phase3 \/ Phase4 \/ Phase6 \/ \E q \in Scripts : Interrupt(q)

Spec == Init /\ [][Next]_vars

-----------------------------------------------------------------------------
(* Properties.                                                               *)

Placements == [n : 1..MaxPlacements, repaired : BOOLEAN, legal : BOOLEAN]
PlaceManifests == [n : 1..MaxCollections, bytes : Placements, pass : BOOLEAN]

\* Every file is absent, torn or of the shape its writer gives it, and the strings that later
\* programs compare are among those they know.
TypeOK ==
    /\ placed \in {Absent} \cup Placements
    /\ runLog \in {"open", "pass", "failed"}
    /\ resize \in {"absent", "partial", "complete"}
    /\ {recovery, partial} \subseteq BOOLEAN
    /\ placeAudit \in [n : 0..MaxPlacements, pass : BOOLEAN]
    /\ placeMan \in {Absent} \cup PlaceManifests
    /\ archive \subseteq PlaceManifests
    /\ Exists(routeLog) => /\ routeLog.man \in {Absent} \cup PlaceManifests
                           /\ routeLog.bytes \in Placements
                           /\ routeLog.loaded \in {Absent} \cup Placements
                           /\ routeLog.state \in {"open", "pass", "failed"}
    /\ Exists(routeMan) => /\ routeMan.launch \in {Absent} \cup PlaceManifests
                           /\ routeMan.verdict \in {"INVALID_RUN", "PASS_PF4", "NOT_CLOSED"}
    /\ decision.kind \in {"absent", "STOP", "PHASE5", "PHASE6"}
    /\ status.status \in {"absent", "RUNNING", "FAIL", "PASS"}
    /\ status.next \in {"none", "decide_post_route", "READ_DECISION", "STOP", "PHASE5", "PHASE6"}
    /\ \A s \in FlowStages :
         /\ Exists(log[s]) => log[s].state \in {"open", "pass", "failed"}
         /\ Exists(out[s]) => out[s].result \in Results[s]
         /\ audit[s].pass \in BOOLEAN
         /\ Exists(man[s]) => man[s].pass \in BOOLEAN
    /\ pc \in [Scripts -> {"idle", "placing", "recovering", "collecting", "preflighted",
                           "loading", "routing", "hashing", "collected", "deciding", "decided",
                           "gated", "building", "cts", "post"}]
    /\ faults \in 0..MaxFaults

\* A clock tree manifest passes only if the placement whose hash its run logged was repaired
\* and legal, and authorised by a route without congestion, although placements, recoveries and
\* collections go on meanwhile and their manifests are written in place.  It does not say that
\* make read that placement: between the header and make another one may have come.
CtsGrounded ==
    Exists(man["cts"]) /\ man["cts"].pass =>
        /\ man["cts"].log.from.repaired /\ man["cts"].log.from.legal
        /\ man["cts"].log.decision.source.log.state = "pass"
        /\ man["cts"].log.decision.source.log.zero

\* A post-CTS route is launched only on a clock tree that an audit reopened and found legal,
\* although audit log and manifest of an archived tree survive it.
ReopenedBeforeUse ==
    Exists(log["post"]) => /\ <<"cts", log["post"].from.n>> \in reopened
                           /\ log["post"].from.result = "good"

\* While the status file names phase 5 or 6 as next, the decision file says the same, even
\* when the transition was interrupted and run again.
StatusAgrees == status.next \in {"PHASE5", "PHASE6"} => decision.kind = status.next

\* The module docstring of verify_wbq_phase6_gate.py: phase 6 is authorised "from exact
\* placement bytes", those that were routed.
Phase6ExactBytes == gate.pass => gate.decision.source.log.loaded = gate.man.bytes

=============================================================================
