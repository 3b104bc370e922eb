------------------------ MODULE WbqEvidence_proofs ------------------------
(***************************************************************************)
(* Theorems about WbqEvidence for every bound on placements, collections,   *)
(* routes, transitions, clock trees and interruptions.                      *)
(*                                                                         *)
(* Files are overwritten in place, so nothing but the hashes ties a report  *)
(* to what it is about.  The invariant Inv follows them: a number is given  *)
(* to one placement or clock tree only (PlacementInv, StageInv), the two    *)
(* scripts of phase 4 work on one log (RouteInv), and so each manifest that *)
(* passed holds records of what the collector saw.                          *)
(***************************************************************************)
EXTENDS WbqEvidence, TLAPS

Kinds == {"place", "placeMan", "route", "routeMan"} \cup FlowStages

(* The shapes of the files.                                                 *)
RouteLogs ==
    [n : Nat \ {0}, man : {Absent} \cup PlaceManifests, bytes : Placements,
     loaded : {Absent} \cup Placements, state : {"open", "pass", "failed"}, zero : BOOLEAN]
Verdicts == {"INVALID_RUN", "PASS_PF4", "NOT_CLOSED"}
RouteMans ==
    [n : Nat \ {0}, log : RouteLogs, verdict : Verdicts, archived : BOOLEAN,
     launch : {Absent} \cup PlaceManifests]
Decisions == [kind : {"STOP", "PHASE5", "PHASE6"}, source : RouteMans]
Gates ==
    [pass : BOOLEAN, decision : {NoDecision} \cup Decisions,
     man : {Absent} \cup PlaceManifests]

CtsLogs ==
    [n : Nat \ {0}, decision : {NoDecision} \cup Decisions, gate : Gates,
     from : {Absent} \cup Placements, loaded : {Absent} \cup Placements,
     state : {"open", "pass", "failed"}]
CtsOuts ==
    [n : Nat \ {0}, from : {Absent} \cup Placements, result : Results["cts"]]
CtsMans == [n : Nat \ {0}, out : CtsOuts, log : CtsLogs, pass : BOOLEAN]
PostLogs ==
    [n : Nat \ {0}, man : CtsMans, from : CtsOuts, loaded : CtsOuts,
     state : {"open", "pass", "failed"}]
PostOuts == [n : Nat \ {0}, from : CtsOuts, result : Results["post"]]
PostMans == [n : Nat \ {0}, out : PostOuts, log : PostLogs, pass : BOOLEAN]

Logs(s) == IF s = "cts" THEN CtsLogs ELSE PostLogs
Outs(s) == IF s = "cts" THEN CtsOuts ELSE PostOuts
Mans(s) == IF s = "cts" THEN CtsMans ELSE PostMans

Statuses ==
    [status : {"absent", "RUNNING", "FAIL", "PASS"},
     next : {"none", "decide_post_route", "READ_DECISION", "STOP", "PHASE5", "PHASE6"}]
Reads == [verdict : Verdicts, launch : PlaceManifests, archived : BOOLEAN]

Phase3Type ==
    /\ placed \in {Absent} \cup Placements
    /\ runLog \in {"open", "pass", "failed"}
    /\ resize \in {"absent", "partial", "complete"}
    /\ recovery \in BOOLEAN /\ partial \in BOOLEAN
    /\ placeAudit \in [n : 0..MaxPlacements, pass : BOOLEAN]
    /\ placeMan \in {Absent} \cup PlaceManifests
    /\ archive \subseteq PlaceManifests

Phase4Type ==
    /\ routeLog \in {Absent} \cup RouteLogs
    /\ routeMan \in {Absent} \cup RouteMans
    /\ decision \in {NoDecision} \cup Decisions
    /\ status \in Statuses
    /\ read \in {Nothing} \cup Reads

StageType(s) ==
    /\ log[s] \in {Absent} \cup Logs(s)
    /\ out[s] \in {Absent} \cup Outs(s)
    /\ man[s] \in {Absent} \cup Mans(s)
    /\ audit[s] \in [n : Nat, pass : BOOLEAN]

Phase6Type ==
    /\ gate \in Gates
    /\ DOMAIN log = FlowStages /\ DOMAIN out = FlowStages /\ DOMAIN man = FlowStages
    /\ DOMAIN audit = FlowStages
    /\ \A s \in FlowStages : StageType(s)

ScriptType ==
    /\ pc = [p \in Scripts |-> pc[p]]
    /\ pc["phase3"] \in {"idle", "placing", "recovering", "collecting"}
    /\ pc["phase4"] \in {"idle", "preflighted", "loading", "routing", "hashing", "collected",
                         "deciding", "decided"}
    /\ pc["phase6"] \in {"idle", "gated", "building", "cts", "post"}
    /\ runs \in [Kinds -> Nat]
    /\ runs["place"] <= MaxPlacements /\ runs["placeMan"] <= MaxCollections
    /\ faults \in 0..MaxFaults

TypeInv == Phase3Type /\ Phase4Type /\ Phase6Type /\ ScriptType

-----------------------------------------------------------------------------
(* A placement keeps its number, so the audit that names the number is an   *)
(* audit of it; a repair log that is complete is of the database there is.  *)
PlacementInv ==
    /\ placed.n <= runs["place"] /\ placeAudit.n <= runs["place"]
    /\ At("phase3", "placing") => placed.n < runs["place"] /\ placeAudit.n < runs["place"]
    /\ At("phase3", "recovering") => runs["place"] > 0 /\ resize = "partial"
    /\ At("phase3", "collecting") => placed # Absent /\ runs["placeMan"] > 0
    /\ resize = "complete" => placed # Absent /\ placed.repaired
    /\ placed # Absent /\ placeAudit.n = placed.n => placeAudit.pass = placed.legal
    /\ placeMan # Absent /\ placeMan.pass => placeMan.bytes.repaired /\ placeMan.bytes.legal

(* The scripts of phase 4 work on one route log, and what they publish is   *)
(* of a route without congestion.                                           *)
Closed(l) == l.state = "pass" /\ l.zero

RouteInv ==
    /\ At("phase4", "preflighted") => placed # Absent
    /\ pc["phase4"] \in {"loading", "routing", "hashing"} => routeLog # Absent
    /\ At("phase4", "hashing") => read # Nothing /\ runs["routeMan"] > 0
    /\ pc["phase4"] \in {"collected", "deciding", "decided"} => routeMan # Absent
    /\ pc["phase4"] \in {"hashing", "collected"} => status.next = "decide_post_route"
    /\ pc["phase4"] \in {"deciding", "decided"} => status.next = "READ_DECISION"
    /\ At("phase4", "hashing") /\ read.verdict = "PASS_PF4" => Closed(routeLog)
    /\ routeMan # Absent /\ routeMan.verdict = "PASS_PF4" => Closed(routeMan.log)
    /\ At("phase4", "decided") => decision # NoDecision
    /\ decision # NoDecision /\ decision.kind = "PHASE6" => Closed(decision.source.log)
    /\ StatusAgrees

(* A stage of phase 6 starts without databases of its own and numbers those *)
(* it leaves.                                                               *)
StageOk(s) ==
    /\ At("phase6", s) \/ (s = "cts" /\ At("phase6", "building")) =>
         log[s] # Absent /\ out[s] = Absent /\ audit[s].n < log[s].n
    /\ log[s].n <= runs[s] /\ audit[s].n <= runs[s]
    /\ out[s] # Absent => log[s] # Absent /\ out[s].n = log[s].n
    /\ audit[s].n > 0 => <<s, audit[s].n>> \in reopened
    /\ out[s] # Absent /\ audit[s].n = out[s].n =>
         audit[s].pass = (out[s].result # "illegal")

StageInv ==
    /\ At("phase6", "gated") => out["cts"] = Absent
    /\ \A s \in FlowStages : StageOk(s)

(* What a clock tree manifest that passed holds.                            *)
CtsPassed(m) ==
    /\ m.log.from # Absent /\ m.log.from.repaired /\ m.log.from.legal
    /\ m.log.decision # NoDecision /\ Closed(m.log.decision.source.log)
    /\ <<"cts", m.out.n>> \in reopened
    /\ m.out.result = "good"

ManifestInv ==
    /\ man["cts"] # Absent /\ man["cts"].pass => CtsPassed(man["cts"])
    /\ log["post"] # Absent => <<"cts", log["post"].from.n>> \in reopened
                               /\ log["post"].from.result = "good"

Inv == TypeInv /\ PlacementInv /\ RouteInv /\ StageInv /\ ManifestInv

-----------------------------------------------------------------------------
(* What is known of a file from its shape.                                  *)
LEMMA Shapes ==
    /\ \A p \in Placements :
         /\ p # Absent /\ p.n \in 1..MaxPlacements /\ p.repaired \in BOOLEAN /\ p.legal \in BOOLEAN
    /\ \A m \in PlaceManifests :
         /\ m # Absent /\ m.n > 0 /\ m.bytes \in Placements /\ m.pass \in BOOLEAN
    /\ \A l \in RouteLogs :
         /\ l # Absent /\ l.n > 0 /\ l.man \in {Absent} \cup PlaceManifests /\ l.bytes \in Placements
         /\ l.loaded \in {Absent} \cup Placements /\ l.state \in {"open", "pass", "failed"}
    /\ \A m \in RouteMans :
         /\ m # Absent /\ m.n > 0 /\ m.log \in RouteLogs /\ m.verdict \in Verdicts
         /\ m.archived \in BOOLEAN /\ m.launch \in {Absent} \cup PlaceManifests
    /\ \A d \in Decisions :
         /\ d # NoDecision /\ d.kind \in {"STOP", "PHASE5", "PHASE6"} /\ d.source \in RouteMans
<1> USE WbqAssumption
<1>1. \A p \in Placements :
        /\ p # Absent /\ p.n \in 1..MaxPlacements /\ p.repaired \in BOOLEAN /\ p.legal \in BOOLEAN
  BY DEF Placements, Absent
<1>2. \A m \in PlaceManifests :
        /\ m # Absent /\ m.n > 0 /\ m.bytes \in Placements /\ m.pass \in BOOLEAN
  BY DEF PlaceManifests, Absent
<1>3. \A l \in RouteLogs :
        /\ l # Absent /\ l.n > 0 /\ l.man \in {Absent} \cup PlaceManifests /\ l.bytes \in Placements
        /\ l.loaded \in {Absent} \cup Placements /\ l.state \in {"open", "pass", "failed"}
  BY DEF RouteLogs, Absent
<1>4. \A m \in RouteMans :
        /\ m # Absent /\ m.n > 0 /\ m.log \in RouteLogs /\ m.verdict \in Verdicts
        /\ m.archived \in BOOLEAN /\ m.launch \in {Absent} \cup PlaceManifests
  BY DEF RouteMans, Absent
<1>5. \A d \in Decisions :
        /\ d # NoDecision /\ d.kind \in {"STOP", "PHASE5", "PHASE6"} /\ d.source \in RouteMans
  BY DEF Decisions, NoDecision
<1> QED
  BY <1>1, <1>2, <1>3, <1>4, <1>5

(* The files of a stage of phase 6.                                         *)
LEMMA FlowShapes ==
    ASSUME NEW s \in FlowStages
    PROVE  /\ \A l \in Logs(s) : /\ l # Absent /\ l.n \in Nat \ {0}
                                 /\ l.state \in {"open", "pass", "failed"}
           /\ \A o \in Outs(s) : o # Absent /\ o.n \in Nat \ {0} /\ o.result \in Results[s]
           /\ \A m \in Mans(s) : /\ m # Absent /\ m.n \in Nat \ {0} /\ m.pass \in BOOLEAN
                                 /\ m.out \in Outs(s) /\ m.log \in Logs(s)
<1>1. CASE s = "cts"
  BY <1>1 DEF Logs, Outs, Mans, CtsLogs, CtsOuts, CtsMans, Absent
<1>2. CASE s = "post"
  BY <1>2 DEF Logs, Outs, Mans, PostLogs, PostOuts, PostMans, Absent
<1> QED
  BY <1>1, <1>2 DEF FlowStages

(* A file exists where it is not absent.                                    *)
LEMMA FilesExist ==
    ASSUME TypeInv
    PROVE  /\ Exists(placed) <=> placed # Absent
           /\ Exists(placeMan) <=> placeMan # Absent
           /\ Exists(routeLog) <=> routeLog # Absent
           /\ Exists(routeMan) <=> routeMan # Absent
           /\ \A s \in FlowStages : /\ Exists(log[s]) <=> log[s] # Absent
                                    /\ Exists(out[s]) <=> out[s] # Absent
                                    /\ Exists(man[s]) <=> man[s] # Absent
<1>1. ~ Exists(Absent)
  BY DEF Exists, Absent
<1>2. /\ \A p \in Placements : Exists(p)
      /\ \A m \in PlaceManifests : Exists(m)
      /\ \A l \in RouteLogs : Exists(l)
      /\ \A m \in RouteMans : Exists(m)
  BY Shapes DEF Exists
<1>3. ASSUME NEW s \in FlowStages
      PROVE  /\ \A l \in Logs(s) : Exists(l)
             /\ \A o \in Outs(s) : Exists(o)
             /\ \A m \in Mans(s) : Exists(m)
  BY FlowShapes DEF Exists
<1> QED
  BY <1>1, <1>2, <1>3 DEF TypeInv, Phase3Type, Phase4Type, Phase6Type, StageType

-----------------------------------------------------------------------------
(* The three sequences meet in the files only.                              *)

(* Phase 3 counts placements and collections and moves its own label.       *)
LEMMA Phase3Frame ==
    ASSUME ScriptType, Phase3
    PROVE  /\ UNCHANGED <<phase4, phase6, reopened, faults>>
           /\ pc'["phase4"] = pc["phase4"] /\ pc'["phase6"] = pc["phase6"]
           /\ \A k \in Kinds \ {"place", "placeMan"} : runs'[k] = runs[k]
  BY DEF ScriptType, Scripts, Phase3, Place, PlaceEnds, Recover, RecoverEnds, AuditPlace,
     OpenPlaceManifest, CollectPlacement, WritePlaceManifest, ArchiveManifest, GoTo, Bump

(* Phase 4 counts routes and transitions and moves its own label.           *)
LEMMA Phase4Frame ==
    ASSUME ScriptType, Phase4
    PROVE  /\ UNCHANGED <<phase3, archive, phase6, reopened, faults>>
           /\ pc'["phase3"] = pc["phase3"] /\ pc'["phase6"] = pc["phase6"]
           /\ \A k \in Kinds \ {"route", "routeMan"} : runs'[k] = runs[k]
  BY DEF ScriptType, Scripts, Phase4, RouteChecks, RouteHeader, RouteLoads, RouteEnds,
     CollectRouteReads, CollectRouteWrites, CollectorReturns, Decide, DecisionReturns, GoTo, Bump

(* Phase 6 counts its stages and moves its own label.                       *)
LEMMA Phase6Frame ==
    ASSUME ScriptType, Phase6
    PROVE  /\ UNCHANGED <<phase3, archive, phase4>> /\ faults' \in 0..MaxFaults
           /\ pc'["phase3"] = pc["phase3"] /\ pc'["phase4"] = pc["phase4"]
           /\ \A k \in Kinds \ FlowStages : runs'[k] = runs[k]
<1>1. /\ UNCHANGED <<phase3, archive, phase4>>
      /\ pc'["phase3"] = pc["phase3"] /\ pc'["phase4"] = pc["phase4"]
      /\ \A k \in Kinds \ FlowStages : runs'[k] = runs[k]
  BY DEF ScriptType, Scripts, Phase6, VerifyGate, CtsHeader, CtsLoads, LaunchPostCtsRoute,
     StageEnds, AuditStage, CollectCts, CollectPostCtsRoute, ArchiveCts, WriteManifest, GoTo, Bump,
     FlowStages, Kinds
<1>2. faults' = faults \/ KilledWriting
  BY DEF Phase6, VerifyGate, CtsHeader, CtsLoads, LaunchPostCtsRoute, StageEnds, AuditStage,
     CollectCts, CollectPostCtsRoute, ArchiveCts, WriteManifest
<1> QED
  BY <1>1, <1>2, WbqAssumption DEF KilledWriting, ScriptType

-----------------------------------------------------------------------------
(* Types.                                                                   *)

(* A recovery leaves everything, or a placement and its audit, and then may  *)
(* begin to write the manifest.                                             *)
LEMMA RecoveryOutcome ==
    ASSUME TypeInv, PlacementInv, RecoverEnds
    PROVE  \/ UNCHANGED <<placed, placeAudit, placeMan, runs>> /\ GoTo("phase3", "idle")
           \/ /\ placed' \in Placements
              /\ placed' = placed \/ (placed'.n = runs["place"] /\ ~ placed'.repaired)
              /\ placeAudit' = [n |-> placed'.n, pass |-> placed'.legal]
              /\ \/ UNCHANGED <<placeMan, runs>> /\ GoTo("phase3", "idle")
                 \/ OpenPlaceManifest
<1>1. runs["place"] \in 1..MaxPlacements
  BY WbqAssumption DEF RecoverEnds, PlacementInv, TypeInv, ScriptType, Kinds
<1>2. ASSUME NEW p \in [n : {runs["place"]}, repaired : {FALSE}, legal : BOOLEAN]
      PROVE  p \in Placements /\ p.n = runs["place"] /\ ~ p.repaired
  BY <1>1 DEF Placements
<1>3. ASSUME NEW p \in IF Exists(placed) THEN {placed} ELSE {}
      PROVE  p = placed /\ p \in Placements
  <2>1. Exists(placed) /\ p = placed
    OBVIOUS
  <2> QED
    BY <2>1, FilesExist DEF TypeInv, Phase3Type
<1>4. ASSUME NEW p \in (IF Exists(placed) THEN {placed} ELSE {}) \cup
                       [n : {runs["place"]}, repaired : {FALSE}, legal : BOOLEAN]
      PROVE  /\ p \in Placements
             /\ p = placed \/ (p.n = runs["place"] /\ ~ p.repaired)
  BY <1>2, <1>3
<1> QED
  BY <1>4 DEF RecoverEnds

(* Phase 3 numbers what it writes within the bounds.                        *)
LEMMA Phase3Types ==
    ASSUME TypeInv, PlacementInv, Phase3
    PROVE  Phase3Type' /\ ScriptType'
<1> USE WbqAssumption
<1>1. /\ Phase3Type /\ ScriptType
      /\ placed = Absent \/ placed \in Placements
      /\ runs["place"] \in Nat /\ runs["placeMan"] \in Nat /\ placed.n \in Nat
  <2>1. placed = Absent \/ (placed \in Placements /\ placed.n \in Nat)
    BY Shapes DEF TypeInv, Phase3Type
  <2> QED
    BY <2>1 DEF TypeInv, ScriptType, Kinds, Absent, Phase3Type
<1>2. ASSUME NEW r \in BOOLEAN, NEW l \in BOOLEAN, runs["place"] > 0
      PROVE  [n |-> runs["place"], repaired |-> r, legal |-> l] \in Placements
  BY <1>1, <1>2 DEF Placements, ScriptType
<1>3. pc' \in {[pc EXCEPT !["phase3"] = l] :
                 l \in {"idle", "placing", "recovering", "collecting"}} \cup {pc} =>
        /\ pc' = [p \in Scripts |-> pc'[p]]
        /\ pc'["phase3"] \in {"idle", "placing", "recovering", "collecting"}
        /\ pc'["phase4"] = pc["phase4"] /\ pc'["phase6"] = pc["phase6"]
  BY <1>1 DEF ScriptType, Scripts
<1>4. ASSUME NEW k \in {"place", "placeMan"}, NEW b \in Nat, Bump(k, b)
      PROVE  /\ runs' \in [Kinds -> Nat] /\ runs'[k] = runs[k] + 1 /\ runs'[k] <= b
             /\ \A j \in Kinds \ {k} : runs'[j] = runs[j]
  BY <1>1, <1>4 DEF Bump, ScriptType, Kinds
<1>5. "place" \in Kinds /\ "placeMan" \in Kinds
  BY DEF Kinds
<1>6. CASE Place
  <2>1. ScriptType'
    BY <1>1, <1>3, <1>4, <1>5, <1>6 DEF Place, ScriptType, GoTo
  <2> QED
    BY <1>1, <1>6, <2>1 DEF Place, Phase3Type
<1>7. CASE PlaceEnds
  <2>1. runs["place"] > 0
    BY <1>1, <1>7 DEF PlaceEnds, PlacementInv
  <2>2. placed' \in {Absent} \cup Placements
    BY <1>1, <1>2, <1>7, <2>1 DEF PlaceEnds, Phase3Type
  <2>3. ScriptType'
    BY <1>1, <1>3, <1>7 DEF PlaceEnds, ScriptType, GoTo
  <2> QED
    BY <1>1, <1>7, <2>2, <2>3 DEF PlaceEnds, Phase3Type
<1>8. CASE Recover
  <2>1. ScriptType'
    BY <1>1, <1>3, <1>4, <1>5, <1>8 DEF Recover, ScriptType, GoTo
  <2> QED
    BY <1>1, <1>8, <2>1 DEF Recover, Phase3Type
<1>9. CASE RecoverEnds
  <2>1. runs["place"] > 0
    BY <1>9 DEF RecoverEnds, PlacementInv
  <2>2. placed' \in {Absent} \cup Placements
    BY <1>1, <1>9, RecoveryOutcome DEF Phase3Type
  <2>3. placeAudit' \in [n : 0..MaxPlacements, pass : BOOLEAN]
    <3>1. placed' \in Placements => placed'.n \in 0..MaxPlacements /\ placed'.legal \in BOOLEAN
      BY Shapes
    <3> QED
      BY <1>1, <1>9, <3>1, RecoveryOutcome DEF Phase3Type
  <2>4. placeMan' \in {Absent} \cup PlaceManifests
    BY <1>1, <1>9, RecoveryOutcome DEF OpenPlaceManifest, Phase3Type
  <2>5. ScriptType'
    <3>1. ScriptType /\ runs' \in [Kinds -> Nat] /\ runs'["place"] = runs["place"]
          /\ runs'["placeMan"] <= MaxCollections
      BY <1>1, <1>4, <1>5, <1>9, RecoveryOutcome DEF OpenPlaceManifest, ScriptType
    <3> QED
      BY <1>1, <1>3, <1>9, <3>1 DEF RecoverEnds, OpenPlaceManifest, ScriptType, GoTo
  <2> QED
    BY <1>1, <1>9, <2>2, <2>3, <2>4, <2>5 DEF RecoverEnds, Phase3Type
<1>10. CASE AuditPlace
  <2>1. placed \in Placements
    BY <1>1, <1>10, FilesExist DEF AuditPlace
  <2> QED
    BY <1>1, <1>10, <2>1, Shapes DEF AuditPlace, Phase3Type, ScriptType
<1>11. CASE CollectPlacement
  <2>1. ScriptType'
    BY <1>1, <1>3, <1>4, <1>5, <1>11 DEF CollectPlacement, OpenPlaceManifest, ScriptType, GoTo
  <2> QED
    BY <1>1, <1>11, <2>1 DEF CollectPlacement, OpenPlaceManifest, Phase3Type
<1>12. CASE WritePlaceManifest
  <2>1. placed \in Placements /\ runs["placeMan"] \in 1..MaxCollections
    BY <1>1, <1>12 DEF WritePlaceManifest, PlacementInv, ScriptType
  <2>2. PlacementGate \in BOOLEAN
    BY DEF PlacementGate
  <2>3. placeMan' \in PlaceManifests
    BY <1>12, <2>1, <2>2 DEF WritePlaceManifest, PlaceManifests
  <2>4. ScriptType'
    BY <1>1, <1>3, <1>12 DEF WritePlaceManifest, ScriptType, GoTo
  <2> QED
    BY <1>1, <1>12, <2>3, <2>4 DEF WritePlaceManifest, Phase3Type
<1>13. CASE ArchiveManifest
  <2>1. placeMan \in PlaceManifests
    BY <1>1, <1>13, FilesExist DEF ArchiveManifest, Phase3Type
  <2> QED
    BY <1>1, <1>13, <2>1 DEF ArchiveManifest, Phase3Type, ScriptType, phase3
<1> QED
  BY <1>6, <1>7, <1>8, <1>9, <1>10, <1>11, <1>12, <1>13 DEF Phase3

(* What the gate of the placement promises to every later phase.            *)
LEMMA Phase3Promises ==
    ASSUME TypeInv, PlacementInv, Phase3
    PROVE  /\ PlacementInv'
           /\ placed # Absent => placed' # Absent
<1>1. /\ placed # Absent => placed \in Placements
      /\ placed.n \in Nat /\ placeAudit.n \in Nat /\ runs["place"] \in Nat
      /\ placed = Absent => placed.n = 0
  BY Shapes, WbqAssumption DEF TypeInv, Phase3Type, ScriptType, Kinds, Absent
<1>2. /\ pc = [p \in Scripts |-> pc[p]] /\ "phase3" \in Scripts
      /\ "place" \in Kinds /\ runs \in [Kinds -> Nat]
  BY DEF TypeInv, ScriptType, Scripts, Kinds
<1> USE DEF At, GoTo, Bump
<1>3. CASE Place
  BY <1>1, <1>2, <1>3 DEF Place, PlacementInv
<1>4. CASE PlaceEnds
  BY <1>1, <1>2, <1>4, Shapes DEF PlaceEnds, PlacementInv, Absent
<1>5. CASE Recover
  BY <1>1, <1>2, <1>5 DEF Recover, PlacementInv
<1>6. CASE RecoverEnds
  <2>1. runs["place"] > 0 /\ resize = "partial" /\ resize' = "partial"
    BY <1>6 DEF RecoverEnds, PlacementInv
  <2>2. CASE UNCHANGED <<placed, placeAudit, placeMan, runs>> /\ GoTo("phase3", "idle")
    BY <1>1, <1>2, <2>1, <2>2 DEF PlacementInv
  <2>3. CASE /\ placed' \in Placements
             /\ placed' = placed \/ (placed'.n = runs["place"] /\ ~ placed'.repaired)
             /\ placeAudit' = [n |-> placed'.n, pass |-> placed'.legal]
             /\ \/ UNCHANGED <<placeMan, runs>> /\ GoTo("phase3", "idle")
                \/ OpenPlaceManifest
    <3>1. /\ runs'["place"] = runs["place"] /\ pc'["phase3"] \in {"idle", "collecting"}
          /\ pc'["phase3"] = "collecting" => runs'["placeMan"] > 0
          /\ placeMan' = placeMan \/ placeMan' = Absent
      BY <1>2, <2>3 DEF OpenPlaceManifest, Kinds
    <3>2. placed' # Absent /\ placed'.n <= runs'["place"]
      BY <1>1, <2>1, <2>3, <3>1, Shapes DEF PlacementInv
    <3> QED
      BY <2>1, <2>3, <3>1, <3>2 DEF PlacementInv
  <2> QED
    BY <1>6, <2>2, <2>3, RecoveryOutcome
<1>7. CASE AuditPlace
  BY <1>1, <1>2, <1>7 DEF AuditPlace, PlacementInv
<1>8. CASE CollectPlacement
  <2>1. placed # Absent
    BY <1>8, FilesExist DEF CollectPlacement
  <2>2. /\ runs'["place"] = runs["place"] /\ runs'["placeMan"] > 0 /\ placeMan' = Absent
        /\ pc'["phase3"] = "collecting"
    BY <1>2, <1>8 DEF CollectPlacement, OpenPlaceManifest, Kinds
  <2> QED
    BY <1>8, <2>1, <2>2 DEF CollectPlacement, PlacementInv
<1>9. CASE WritePlaceManifest
  <2>1. placeMan'.bytes = placed /\ placeMan'.pass = PlacementGate
    BY <1>9 DEF WritePlaceManifest
  <2>2. pc'["phase3"] = "idle"
    BY <1>2, <1>9 DEF WritePlaceManifest
  <2>3. ASSUME PlacementGate PROVE placed.repaired /\ placed.legal
    <3>1. placeAudit.n = placed.n /\ placeAudit.pass = TRUE /\ resize = "complete"
      BY <2>3 DEF PlacementGate
    <3>2. placed # Absent /\ placed.repaired /\ placed.legal \in BOOLEAN
      BY <1>1, <3>1, Shapes DEF PlacementInv
    <3> QED
      BY <3>1, <3>2 DEF PlacementInv
  <2> QED
    BY <1>9, <2>1, <2>2, <2>3 DEF WritePlaceManifest, PlacementInv
<1>10. CASE ArchiveManifest
  BY <1>10 DEF ArchiveManifest, PlacementInv, phase3
<1> QED
  BY <1>3, <1>4, <1>5, <1>6, <1>7, <1>8, <1>9, <1>10 DEF Phase3

(* The verdict of the collector says that the route is closed only of one   *)
(* whose log ends, without congestion.                                      *)
LEMMA VerdictGrounded ==
    ASSUME NEW m
    PROVE  /\ RouteVerdict(m) \in Verdicts
           /\ RouteVerdict(m) = "PASS_PF4" => Closed(routeLog)
  BY DEF RouteVerdict, Verdicts, Closed

(* The decision goes on to the clock tree on that verdict only.             *)
LEMMA DecisionGrounded ==
    /\ DecisionKind \in {"STOP", "PHASE5", "PHASE6"}
    /\ DecisionKind = "PHASE6" => routeMan.verdict = "PASS_PF4"
  BY DEF DecisionKind

(* A step of phase 4 moves one label and counts a route or a transition.    *)
LEMMA Phase4Moves ==
    ASSUME ScriptType
    PROVE  /\ \A l : GoTo("phase4", l) =>
                /\ pc' = [p \in Scripts |-> pc'[p]] /\ pc'["phase4"] = l
                /\ pc'["phase3"] = pc["phase3"] /\ pc'["phase6"] = pc["phase6"]
           /\ \A k \in {"route", "routeMan"}, b \in Nat : Bump(k, b) =>
                /\ runs' \in [Kinds -> Nat] /\ runs'[k] = runs[k] + 1
                /\ \A j \in Kinds \ {k} : runs'[j] = runs[j]
<1>1. ASSUME NEW l, GoTo("phase4", l)
      PROVE  /\ pc' = [p \in Scripts |-> pc'[p]] /\ pc'["phase4"] = l
             /\ pc'["phase3"] = pc["phase3"] /\ pc'["phase6"] = pc["phase6"]
  BY <1>1 DEF GoTo, ScriptType, Scripts
<1>2. ASSUME NEW k \in {"route", "routeMan"}, NEW b \in Nat, Bump(k, b)
      PROVE  /\ runs' \in [Kinds -> Nat] /\ runs'[k] = runs[k] + 1
             /\ \A j \in Kinds \ {k} : runs'[j] = runs[j]
  BY <1>2 DEF Bump, ScriptType, Kinds
<1> QED
  BY <1>1, <1>2

(* Phase 4 writes files of the shapes their readers expect.                 *)
LEMMA Phase4Types ==
    ASSUME TypeInv, RouteInv, Phase4
    PROVE  Phase4Type' /\ ScriptType'
<1>1. /\ Phase3Type /\ Phase4Type /\ ScriptType
      /\ runs["route"] \in Nat /\ runs["routeMan"] \in Nat /\ faults \in Nat
      /\ MaxRoutes \in Nat /\ MaxTransitions \in Nat
  BY WbqAssumption DEF TypeInv, ScriptType, Kinds
<1>2. ScriptType'
  <2>1. /\ pc'["phase4"] \in {"idle", "preflighted", "loading", "routing", "hashing", "collected",
                              "deciding", "decided"}
        /\ pc' = [p \in Scripts |-> pc'[p]]
        /\ pc'["phase3"] = pc["phase3"] /\ pc'["phase6"] = pc["phase6"]
    BY <1>1, Phase4Moves DEF Phase4, RouteChecks, RouteHeader, RouteLoads, RouteEnds,
       CollectRouteReads, CollectRouteWrites, CollectorReturns, Decide, DecisionReturns, ScriptType
  <2>2. /\ runs' \in [Kinds -> Nat]
        /\ runs'["place"] = runs["place"] /\ runs'["placeMan"] = runs["placeMan"]
    <3>1. runs' = runs \/ Bump("route", MaxRoutes) \/ Bump("routeMan", MaxTransitions)
      BY DEF Phase4, RouteChecks, RouteHeader, RouteLoads, RouteEnds,
         CollectRouteReads, CollectRouteWrites, CollectorReturns, Decide, DecisionReturns
    <3> QED
      BY <1>1, <3>1, Phase4Moves DEF ScriptType, Kinds
  <2>3. faults' = faults
    BY <1>1, Phase4Frame
  <2> QED
    BY <1>1, <2>1, <2>2, <2>3 DEF ScriptType
<1>3. CASE RouteChecks
  BY <1>1, <1>2, <1>3 DEF RouteChecks, Phase4Type, phase4
<1>4. CASE RouteHeader
  <2>1. placed \in Placements /\ placeMan \in {Absent} \cup PlaceManifests
    BY <1>1, <1>4 DEF At, RouteHeader, RouteInv, Phase3Type
  <2>2. routeLog' \in RouteLogs
    BY <1>1, <1>4, <2>1 DEF RouteHeader, RouteLogs
  <2> QED
    BY <1>1, <1>2, <1>4, <2>2 DEF RouteHeader, Phase4Type
<1>5. CASE RouteLoads
  <2>1. routeLog \in RouteLogs /\ placed \in {Absent} \cup Placements
    BY <1>1, <1>2, <1>5 DEF At, RouteLoads, RouteInv, Phase3Type, Phase4Type
  <2>2. routeLog' \in RouteLogs
    BY <1>5, <2>1 DEF RouteLoads, RouteLogs
  <2> QED
    BY <1>1, <1>2, <1>5, <2>2 DEF RouteLoads, Phase4Type
<1>6. CASE RouteEnds
  <2>1. routeLog \in RouteLogs
    BY <1>1, <1>2, <1>6 DEF At, RouteEnds, RouteInv, Phase4Type
  <2>2. routeLog' \in RouteLogs
    BY <1>6, <2>1 DEF RouteEnds, RouteLogs
  <2> QED
    BY <1>1, <1>2, <1>6, <2>2 DEF RouteEnds, Phase4Type
<1>7. CASE CollectRouteReads
  <2>1. status' \in Statuses
    BY <1>7 DEF CollectRouteReads, SetStage, Statuses
  <2>2. ASSUME Exists(LaunchManifest) PROVE LaunchManifest \in PlaceManifests
    <3>1. LaunchManifest # Absent
      BY <2>2 DEF Exists, Absent
    <3> QED
      BY <1>1, <3>1 DEF LaunchManifest, Phase3Type
  <2>3. ASSUME Exists(LaunchManifest)
        PROVE  [verdict |-> RouteVerdict(LaunchManifest), launch |-> LaunchManifest,
                archived |-> LaunchManifest # placeMan] \in Reads
    BY <2>2, <2>3, VerdictGrounded DEF Reads
  <2>4. read' \in {Nothing} \cup Reads
    BY <1>1, <1>2, <1>7, <2>3 DEF CollectRouteReads, Phase4Type
  <2> QED
    BY <1>1, <1>2, <1>7, <2>1, <2>4 DEF CollectRouteReads, Phase4Type
<1>8. CASE CollectRouteWrites
  <2>1. /\ routeLog \in RouteLogs /\ placeMan \in {Absent} \cup PlaceManifests
        /\ read \in Reads /\ runs["routeMan"] \in Nat \ {0}
    BY <1>1, <1>2, <1>8 DEF At, CollectRouteWrites, RouteInv, Phase3Type, Phase4Type
  <2>2. routeMan' \in RouteMans
    BY <1>1, <1>8, <2>1 DEF CollectRouteWrites, Reads, RouteMans
  <2> QED
    BY <1>1, <1>2, <1>8, <2>2 DEF CollectRouteWrites, Phase4Type
<1>9. CASE CollectorReturns
  BY <1>1, <1>2, <1>9 DEF CollectorReturns, SetStage, Statuses, Phase4Type
<1>10. CASE Decide
  <2>1. routeMan \in RouteMans
    BY <1>1, <1>2, <1>10 DEF At, Decide, RouteInv, Phase4Type
  <2>2. decision' \in Decisions
    BY <1>10, <2>1, DecisionGrounded DEF Decide, Decisions
  <2> QED
    BY <1>1, <1>2, <1>10, <2>2 DEF Decide, Phase4Type
<1>11. CASE DecisionReturns
  <2>1. decision \in Decisions
    BY <1>1, <1>2, <1>11 DEF At, DecisionReturns, RouteInv, Phase4Type
  <2>2. decision.kind \in {"STOP", "PHASE5", "PHASE6"}
    BY <2>1, Shapes
  <2> QED
    BY <1>1, <1>2, <1>11, <2>2 DEF DecisionReturns, SetStage, Statuses, Phase4Type
<1> QED
  BY <1>2, <1>3, <1>4, <1>5, <1>6, <1>7, <1>8, <1>9, <1>10, <1>11 DEF Phase4

(* Collector, decision and status of one transition are of one route log.   *)
LEMMA Phase4KeepsRoute ==
    ASSUME TypeInv, RouteInv, Phase4
    PROVE  RouteInv'
<1>1. /\ placed \in {Absent} \cup Placements /\ placeMan \in {Absent} \cup PlaceManifests
      /\ ScriptType /\ pc'["phase3"] = pc["phase3"] /\ UNCHANGED <<placed, placeMan>>
  BY Phase4Frame DEF TypeInv, Phase3Type, phase3
<1> USE DEF At
<1>2. CASE RouteChecks
  <2>1. placed # Absent
    BY <1>2, FilesExist DEF RouteChecks
  <2>2. pc'["phase4"] = "preflighted" /\ UNCHANGED <<routeLog, routeMan, decision, status, read>>
    BY <1>1, <1>2, Phase4Moves DEF RouteChecks, phase4
  <2> QED
    BY <1>1, <2>1, <2>2 DEF RouteInv, StatusAgrees
<1>3. CASE RouteHeader
  <2>1. pc'["phase4"] = "loading" /\ UNCHANGED <<routeMan, decision, status, read>>
    BY <1>1, <1>3, Phase4Moves DEF RouteHeader
  <2>2. routeLog' # Absent
    BY <1>3 DEF RouteHeader, Absent
  <2> QED
    BY <1>1, <2>1, <2>2 DEF RouteInv, StatusAgrees
<1>4. CASE RouteLoads \/ RouteEnds
  <2>1. /\ pc["phase4"] \in {"loading", "routing"} /\ pc'["phase4"] \in {"routing", "idle"}
        /\ UNCHANGED <<routeMan, decision, status, read>>
    BY <1>1, <1>4, Phase4Moves DEF RouteLoads, RouteEnds
  <2>2. routeLog' # Absent
    BY <1>4, <2>1, Phase4Types, Shapes DEF RouteInv, RouteLoads, RouteEnds, RouteLogs, TypeInv,
       Phase4Type, Absent
  <2> QED
    BY <1>1, <2>1, <2>2 DEF RouteInv, StatusAgrees
<1>5. CASE CollectRouteReads
  <2>1. CASE ~ (SetStage("FAIL", "STOP") /\ UNCHANGED <<read, pc>>)
    <3>1. /\ routeLog # Absent /\ runs'["routeMan"] > 0
          /\ status'.next = "decide_post_route" /\ pc'["phase4"] = "hashing"
          /\ read' = [verdict |-> RouteVerdict(LaunchManifest), launch |-> LaunchManifest,
                      archived |-> LaunchManifest # placeMan]
          /\ UNCHANGED <<routeLog, routeMan, decision>>
      BY <1>1, <1>5, <2>1, FilesExist, Phase4Moves, WbqAssumption
         DEF CollectRouteReads, SetStage, ScriptType, Kinds
    <3>2. read'.verdict = RouteVerdict(LaunchManifest)
      BY <3>1
    <3>3. read' # Nothing
      BY <3>2, VerdictGrounded DEF Nothing, Verdicts
    <3>4. read'.verdict = "PASS_PF4" => Closed(routeLog')
      BY <3>1, <3>2, VerdictGrounded
    <3> QED
      BY <1>1, <3>1, <3>3, <3>4 DEF RouteInv, StatusAgrees
  <2>2. CASE SetStage("FAIL", "STOP") /\ UNCHANGED <<read, pc>>
    <3>1. /\ UNCHANGED <<routeLog, routeMan, decision, read, pc>> /\ pc["phase4"] = "idle"
          /\ status'.next = "STOP"
      BY <1>5, <2>2 DEF CollectRouteReads, SetStage
    <3> QED
      BY <1>1, <3>1 DEF RouteInv, StatusAgrees
  <2> QED
    BY <2>1, <2>2
<1>6. CASE CollectRouteWrites
  <2>1. /\ pc["phase4"] = "hashing" /\ pc'["phase4"] = "collected"
        /\ UNCHANGED <<routeLog, decision, status>>
        /\ routeMan'.verdict = read.verdict /\ routeMan'.log = routeLog
        /\ routeMan' = [n |-> runs["routeMan"], log |-> routeLog,
                        verdict |-> read.verdict, archived |-> read.archived,
                        launch |-> IF read.archived THEN read.launch ELSE placeMan]
    BY <1>1, <1>6, Phase4Moves DEF CollectRouteWrites
  <2>2. routeMan' # Absent
    <3>1. DOMAIN routeMan' # DOMAIN Absent
      BY <2>1 DEF Absent
    <3> QED
      BY <3>1
  <2>3. routeMan'.verdict = "PASS_PF4" => Closed(routeMan'.log)
    BY <2>1 DEF RouteInv
  <2> QED
    BY <1>1, <2>1, <2>2, <2>3 DEF RouteInv, StatusAgrees
<1>7. CASE CollectorReturns
  <2>1. /\ UNCHANGED <<routeLog, routeMan, decision, read>> /\ pc["phase4"] = "collected"
        /\ \/ status'.next = "STOP" /\ pc'["phase4"] = "idle"
           \/ status'.next = "READ_DECISION" /\ pc'["phase4"] = "deciding"
    BY <1>1, <1>7, Phase4Moves DEF CollectorReturns, SetStage
  <2> QED
    BY <1>1, <2>1 DEF RouteInv, StatusAgrees
<1>8. CASE Decide
  <2>1. /\ UNCHANGED <<routeLog, routeMan, status, read>> /\ pc["phase4"] = "deciding"
        /\ pc'["phase4"] = "decided" /\ decision' = [kind |-> DecisionKind, source |-> routeMan]
    BY <1>1, <1>8, Phase4Moves DEF Decide
  <2>2. decision' # NoDecision /\ decision'.kind = DecisionKind /\ decision'.source = routeMan
    BY <2>1, DecisionGrounded DEF NoDecision
  <2>3. decision'.kind = "PHASE6" => Closed(decision'.source.log)
    BY <2>1, <2>2, DecisionGrounded DEF RouteInv
  <2> QED
    BY <1>1, <2>1, <2>2, <2>3 DEF RouteInv, StatusAgrees
<1>9. CASE DecisionReturns
  <2>1. /\ UNCHANGED <<routeLog, routeMan, decision, read>> /\ pc'["phase4"] = "idle"
        /\ status'.next = "STOP" \/ status'.next = decision.kind
    BY <1>1, <1>9, Phase4Moves DEF DecisionReturns, SetStage
  <2> QED
    BY <1>1, <2>1 DEF RouteInv, StatusAgrees
<1> QED
  BY <1>2, <1>3, <1>4, <1>5, <1>6, <1>7, <1>8, <1>9 DEF Phase4

(* Phases 3 and 6 write no file of phase 4, and phase 3 removes none.       *)
LEMMA OthersKeepRoute ==
    ASSUME TypeInv, PlacementInv, RouteInv, Phase3 \/ Phase6
    PROVE  RouteInv'
<1>1. /\ UNCHANGED phase4 /\ pc'["phase4"] = pc["phase4"]
      /\ placed # Absent => placed' # Absent
      /\ runs'["routeMan"] = runs["routeMan"]
  BY Phase3Frame, Phase6Frame, Phase3Promises DEF TypeInv, phase3, Kinds, FlowStages
<1> QED
  BY <1>1 DEF RouteInv, StatusAgrees, phase4, At

(* A step of phase 6 moves one label and counts a launch.                   *)
LEMMA Phase6Moves ==
    ASSUME ScriptType
    PROVE  /\ \A l : GoTo("phase6", l) =>
                /\ pc' = [p \in Scripts |-> pc'[p]] /\ pc'["phase6"] = l
                /\ pc'["phase3"] = pc["phase3"] /\ pc'["phase4"] = pc["phase4"]
           /\ \A k \in FlowStages, b \in Nat : Bump(k, b) =>
                /\ runs' \in [Kinds -> Nat] /\ runs'[k] = runs[k] + 1
                /\ \A j \in Kinds \ {k} : runs'[j] = runs[j]
<1>1. ASSUME NEW l, GoTo("phase6", l)
      PROVE  /\ pc' = [p \in Scripts |-> pc'[p]] /\ pc'["phase6"] = l
             /\ pc'["phase3"] = pc["phase3"] /\ pc'["phase4"] = pc["phase4"]
  BY <1>1 DEF GoTo, ScriptType, Scripts
<1>2. ASSUME NEW k \in FlowStages, NEW b \in Nat, Bump(k, b)
      PROVE  /\ runs' \in [Kinds -> Nat] /\ runs'[k] = runs[k] + 1
             /\ \A j \in Kinds \ {k} : runs'[j] = runs[j]
  BY <1>2 DEF Bump, ScriptType, Kinds
<1> QED
  BY <1>1, <1>2

(* A file of one stage is written and those of the other stage stay.        *)
LEMMA StageUpdate ==
    ASSUME NEW f, DOMAIN f = FlowStages, NEW s \in FlowStages, NEW x
    PROVE  /\ DOMAIN [f EXCEPT ![s] = x] = FlowStages
           /\ [f EXCEPT ![s] = x][s] = x
           /\ \A t \in FlowStages \ {s} : [f EXCEPT ![s] = x][t] = f[t]
  OBVIOUS

(* A stage that ends seals its log and may leave databases.                 *)
LEMMA StageOutcome ==
    ASSUME TypeInv, StageInv, NEW s \in FlowStages, StageEnds(s)
    PROVE  /\ DOMAIN log' = FlowStages /\ DOMAIN out' = FlowStages
           /\ \A t \in FlowStages \ {s} : log'[t] = log[t] /\ out'[t] = out[t]
           /\ log[s] \in Logs(s) /\ log'[s] \in Logs(s)
           /\ log'[s].n = log[s].n /\ log'[s].from = log[s].from
           /\ \/ out'[s] = Absent
              \/ /\ out'[s] \in Outs(s) /\ out'[s].n = log[s].n
<1>1. log[s] \in Logs(s) /\ out[s] = Absent /\ DOMAIN log = FlowStages /\ DOMAIN out = FlowStages
  BY DEF StageEnds, At, StageInv, StageOk, TypeInv, Phase6Type, StageType
<1>2. ASSUME NEW e \in {"pass", "failed"}, log' = [log EXCEPT ![s].state = e]
      PROVE  /\ DOMAIN log' = FlowStages /\ \A t \in FlowStages \ {s} : log'[t] = log[t]
             /\ log'[s] \in Logs(s) /\ log'[s].n = log[s].n /\ log'[s].from = log[s].from
  <2>1. log'[s] = [log[s] EXCEPT !.state = e]
    BY <1>1, <1>2
  <2>2. DOMAIN log' = FlowStages /\ \A t \in FlowStages \ {s} : log'[t] = log[t]
    BY <1>1, <1>2
  <2>3. CASE s = "cts"
    BY <1>1, <2>1, <2>2, <2>3 DEF Logs, CtsLogs
  <2>4. CASE s = "post"
    BY <1>1, <2>1, <2>2, <2>4 DEF Logs, PostLogs
  <2> QED
    BY <2>3, <2>4 DEF FlowStages
<1>3. ASSUME NEW r \in Results[s]
      PROVE  [n |-> log[s].n, from |-> log[s].loaded, result |-> r] \in Outs(s)
  <2>1. CASE s = "cts"
    BY <1>1, <1>3, <2>1 DEF Logs, CtsLogs, Outs, CtsOuts
  <2>2. CASE s = "post"
    BY <1>1, <1>3, <2>2 DEF Logs, PostLogs, Outs, PostOuts
  <2> QED
    BY <2>1, <2>2 DEF FlowStages
<1>4. CASE log' = [log EXCEPT ![s].state = "failed"] /\ UNCHANGED out
  BY <1>1, <1>2, <1>4
<1>5. CASE log' = [log EXCEPT ![s].state = "pass"] /\ \E r \in Results[s] :
             out' = [out EXCEPT ![s] = [n |-> log[s].n, from |-> log[s].loaded, result |-> r]]
  <2>1. PICK r \in Results[s] :
          out' = [out EXCEPT ![s] = [n |-> log[s].n, from |-> log[s].loaded, result |-> r]]
    BY <1>5
  <2>2. /\ DOMAIN out' = FlowStages
        /\ out'[s] = [n |-> log[s].n, from |-> log[s].loaded, result |-> r]
        /\ \A t \in FlowStages \ {s} : out'[t] = out[t]
    BY <1>1, <2>1
  <2>3. out'[s] \in Outs(s) /\ out'[s].n = log[s].n
    BY <1>3, <2>2
  <2> QED
    BY <1>1, <1>2, <1>5, <2>2, <2>3
<1> QED
  BY <1>4, <1>5 DEF StageEnds

(* The databases of a stage are audited under the number they have.         *)
LEMMA AuditOutcome ==
    ASSUME TypeInv, StageInv, NEW s \in FlowStages, AuditStage(s)
    PROVE  /\ out[s] \in Outs(s) /\ out[s].n \in Nat \ {0}
           /\ DOMAIN audit' = FlowStages
           /\ audit'[s].n = out[s].n /\ audit'[s].pass = (out[s].result # "illegal")
           /\ audit'[s] \in [n : Nat, pass : BOOLEAN]
           /\ \A t \in FlowStages \ {s} : audit'[t] = audit[t]
<1>1. out[s] \in Outs(s) /\ DOMAIN audit = FlowStages
  BY FilesExist DEF AuditStage, TypeInv, Phase6Type, StageType
<1>2. out[s].n \in Nat \ {0}
  BY <1>1, FlowShapes
<1>3. audit' = [audit EXCEPT ![s] = [n |-> out[s].n, pass |-> out[s].result # "illegal"]]
  BY DEF AuditStage
<1> QED
  BY <1>1, <1>2, <1>3

(* A manifest names the log and the databases of its stage.                 *)
LEMMA ManifestOutcome ==
    ASSUME TypeInv, NEW s \in FlowStages, NEW verdict \in BOOLEAN, WriteManifest(s, verdict),
           Exists(log[s]), Exists(out[s])
    PROVE  /\ DOMAIN man' = FlowStages
           /\ man'[s] \in {Absent} \cup Mans(s)
           /\ \/ man'[s] = Absent
              \/ man'[s] = [n |-> log[s].n, out |-> out[s], log |-> log[s], pass |-> verdict]
           /\ \A t \in FlowStages \ {s} : man'[t] = man[t]
<1>1. log[s] \in Logs(s) /\ out[s] \in Outs(s) /\ DOMAIN man = FlowStages
  BY FilesExist DEF TypeInv, Phase6Type, StageType
<1>2. \/ man' = [man EXCEPT ![s] = Absent]
      \/ man' = [man EXCEPT ![s] =
                   [n |-> log[s].n, out |-> out[s], log |-> log[s], pass |-> verdict]]
  BY DEF WriteManifest
<1>3. [n |-> log[s].n, out |-> out[s], log |-> log[s], pass |-> verdict] \in Mans(s)
  <2>1. log[s].n \in Nat \ {0}
    BY <1>1, FlowShapes
  <2>2. CASE s = "cts"
    BY <1>1, <2>1, <2>2 DEF Logs, Outs, Mans, CtsMans
  <2>3. CASE s = "post"
    BY <1>1, <2>1, <2>3 DEF Logs, Outs, Mans, PostMans
  <2> QED
    BY <2>2, <2>3 DEF FlowStages
<1> QED
  BY <1>1, <1>2, <1>3

(* A stage whose files stay has the types it had.                           *)
LEMMA StageTypeKept ==
    ASSUME NEW s \in FlowStages, StageType(s),
           log'[s] = log[s], out'[s] = out[s], man'[s] = man[s], audit'[s] = audit[s]
    PROVE  StageType(s)'
  BY DEF StageType

(* Phase 6 writes files of the shapes their readers expect.                 *)
LEMMA Phase6Types ==
    ASSUME TypeInv, StageInv, Phase6
    PROVE  Phase6Type' /\ ScriptType'
<1>1. /\ ScriptType /\ Phase6Type /\ \A s \in FlowStages : StageType(s)
      /\ DOMAIN log = FlowStages /\ DOMAIN out = FlowStages /\ DOMAIN man = FlowStages
      /\ gate \in Gates /\ DOMAIN audit = FlowStages
      /\ \A s \in FlowStages : runs[s] \in Nat
      /\ MaxClockTrees \in Nat /\ MaxRoutes \in Nat
      /\ "cts" \in FlowStages /\ "post" \in FlowStages
  BY WbqAssumption DEF TypeInv, Phase6Type, ScriptType, Kinds, FlowStages
<1>2. ScriptType'
  <2>1. /\ pc'["phase6"] \in {"idle", "gated", "building", "cts", "post"}
        /\ pc' = [p \in Scripts |-> pc'[p]]
        /\ pc'["phase3"] = pc["phase3"] /\ pc'["phase4"] = pc["phase4"]
    BY <1>1, Phase6Moves DEF Phase6, VerifyGate, CtsHeader, CtsLoads, LaunchPostCtsRoute,
       StageEnds, AuditStage, CollectCts, CollectPostCtsRoute, ArchiveCts, WriteManifest,
       FlowStages, ScriptType
  <2>2. runs' \in [Kinds -> Nat] /\ \A k \in Kinds \ FlowStages : runs'[k] = runs[k]
    <3>1. runs' = runs \/ Bump("cts", MaxClockTrees) \/ Bump("post", MaxRoutes)
      BY DEF Phase6, VerifyGate, CtsHeader, CtsLoads, LaunchPostCtsRoute, StageEnds,
         AuditStage, CollectCts, CollectPostCtsRoute, ArchiveCts, WriteManifest
    <3> QED
      BY <1>1, <3>1, Phase6Moves, Phase6Frame DEF ScriptType
  <2>3. faults' \in 0..MaxFaults /\ "place" \in Kinds \ FlowStages /\ "placeMan" \in Kinds \ FlowStages
    BY <1>1, Phase6Frame DEF Kinds, FlowStages
  <2> QED
    BY <1>1, <2>1, <2>2, <2>3 DEF ScriptType
<1>3. CASE VerifyGate
  <2>1. Phase6Gate \in BOOLEAN
    BY DEF Phase6Gate
  <2>2. gate' \in Gates
    <3>1. NoGate \in Gates
      BY DEF NoGate, Gates
    <3> QED
      BY <1>3, <2>1, <3>1 DEF VerifyGate, Gates, TypeInv, Phase3Type, Phase4Type
  <2>3. UNCHANGED <<log, out, audit, man>>
    BY <1>3 DEF VerifyGate
  <2> QED
    BY <1>1, <1>2, <2>2, <2>3 DEF Phase6Type, StageType
<1>4. CASE CtsHeader \/ CtsLoads
  <2>1. UNCHANGED <<gate, out, audit, man>>
    BY <1>4 DEF CtsHeader, CtsLoads
  <2>2. /\ DOMAIN log' = FlowStages /\ log'["cts"] \in Logs("cts")
        /\ \A t \in FlowStages \ {"cts"} : log'[t] = log[t]
    <3>1. CASE CtsHeader
      <4>1. [n |-> runs["cts"] + 1, decision |-> decision, gate |-> gate, from |-> placed,
             loaded |-> Absent, state |-> "open"] \in Logs("cts")
        BY <1>1 DEF Logs, CtsLogs, TypeInv, Phase3Type, Phase4Type
      <4> QED
        BY <1>1, <3>1, <4>1 DEF CtsHeader
    <3>2. CASE CtsLoads
      <4>1. log["cts"] \in CtsLogs
        BY <1>1, <3>2 DEF CtsLoads, StageInv, StageOk, At, StageType, Logs
      <4>2. [log["cts"] EXCEPT !.loaded = placed] \in Logs("cts")
        BY <4>1 DEF Logs, CtsLogs, TypeInv, Phase3Type
      <4>3. log' = [log EXCEPT !["cts"] = [log["cts"] EXCEPT !.loaded = placed]]
        BY <1>1, <3>2 DEF CtsLoads
      <4> QED
        BY <1>1, <4>2, <4>3
    <3> QED
      BY <1>4, <3>1, <3>2
  <2>3. ASSUME NEW t \in FlowStages PROVE StageType(t)'
    BY <1>1, <2>1, <2>2 DEF StageType
  <2> QED
    BY <1>1, <1>2, <2>1, <2>2, <2>3 DEF Phase6Type
<1>5. CASE LaunchPostCtsRoute
  <2>1. UNCHANGED <<gate, out, audit, man>>
    BY <1>5 DEF LaunchPostCtsRoute
  <2>2. man["cts"] \in CtsMans /\ out["cts"] \in CtsOuts
    BY <1>1, <1>5, FilesExist DEF LaunchPostCtsRoute, StageType, Mans, Outs
  <2>3. [n |-> runs["post"] + 1, man |-> man["cts"], from |-> out["cts"],
         loaded |-> out["cts"], state |-> "open"] \in Logs("post")
    BY <1>1, <2>2 DEF Logs, PostLogs
  <2>4. /\ DOMAIN log' = FlowStages /\ log'["post"] \in Logs("post")
        /\ \A t \in FlowStages \ {"post"} : log'[t] = log[t]
    BY <1>1, <1>5, <2>3 DEF LaunchPostCtsRoute
  <2>5. ASSUME NEW t \in FlowStages PROVE StageType(t)'
    BY <1>1, <2>1, <2>4 DEF StageType
  <2> QED
    BY <1>1, <1>2, <2>1, <2>4, <2>5 DEF Phase6Type
<1>6. ASSUME NEW s \in FlowStages, StageEnds(s)
      PROVE  Phase6Type'
  <2>1. UNCHANGED <<gate, audit, man>>
    BY <1>6 DEF StageEnds
  <2>2. ASSUME NEW t \in FlowStages PROVE StageType(t)'
    BY <1>1, <1>6, <2>1, StageOutcome DEF StageType
  <2> QED
    BY <1>1, <1>6, <2>1, <2>2, StageOutcome DEF Phase6Type
<1>7. ASSUME NEW s \in FlowStages, AuditStage(s)
      PROVE  Phase6Type'
  <2>1. UNCHANGED <<gate, log, out, man>>
    BY <1>7 DEF AuditStage
  <2>2. ASSUME NEW t \in FlowStages PROVE StageType(t)'
    BY <1>1, <1>7, <2>1, AuditOutcome DEF StageType
  <2> QED
    BY <1>1, <1>7, <2>1, <2>2, AuditOutcome DEF Phase6Type
<1>8. ASSUME NEW s \in FlowStages, NEW verdict \in BOOLEAN, WriteManifest(s, verdict),
             Exists(log[s]), Exists(out[s])
      PROVE  Phase6Type'
  <2>1. UNCHANGED <<gate, log, out, audit>>
    BY <1>8 DEF WriteManifest, phase6
  <2>2. ASSUME NEW t \in FlowStages PROVE StageType(t)'
    BY <1>1, <1>8, <2>1, ManifestOutcome DEF StageType
  <2> QED
    BY <1>1, <1>8, <2>1, <2>2, ManifestOutcome DEF Phase6Type
<1>9. CASE CollectCts \/ CollectPostCtsRoute
  <2>1. CtsGate \in BOOLEAN /\ PostCtsRouteGate \in BOOLEAN
    BY DEF CtsGate, PostCtsRouteGate
  <2> QED
    BY <1>1, <1>2, <1>8, <1>9, <2>1 DEF CollectCts, CollectPostCtsRoute
<1>10. CASE ArchiveCts
  <2>1. UNCHANGED <<gate, log, audit, man>> /\ out' = [out EXCEPT !["cts"] = Absent]
    BY <1>10 DEF ArchiveCts
  <2>2. DOMAIN out' = FlowStages /\ \A t \in FlowStages : out'[t] = Absent \/ out'[t] = out[t]
    BY <1>1, <2>1
  <2>3. ASSUME NEW t \in FlowStages PROVE StageType(t)'
    BY <1>1, <2>1, <2>2 DEF StageType
  <2> QED
    BY <1>1, <1>2, <2>1, <2>2, <2>3 DEF Phase6Type
<1> QED
  BY <1>2, <1>3, <1>4, <1>5, <1>6, <1>7, <1>9, <1>10 DEF Phase6

(* A stage whose files stay keeps what is known of them, unless it starts.  *)
LEMMA StageKept ==
    ASSUME NEW s \in FlowStages, StageOk(s), runs[s] \in Nat, runs'[s] \in Nat,
           runs[s] <= runs'[s], reopened \subseteq reopened',
           log[s].n \in Nat, audit[s].n \in Nat,
           log'[s] = log[s], out'[s] = out[s], audit'[s] = audit[s],
           pc'["phase6"] \in {s, "building"} => pc'["phase6"] = pc["phase6"]
    PROVE  StageOk(s)'
  BY DEF StageOk, At

(* The numbers of phase 6 are numbers.                                      *)
LEMMA StageNumbers ==
    ASSUME TypeInv
    PROVE  \A s \in FlowStages :
             /\ log[s].n \in Nat /\ out[s].n \in Nat /\ audit[s].n \in Nat /\ runs[s] \in Nat
             /\ StageType(s)
<1>1. ASSUME NEW s \in FlowStages
      PROVE  /\ log[s].n \in Nat /\ out[s].n \in Nat /\ audit[s].n \in Nat /\ runs[s] \in Nat
             /\ StageType(s)
  <2>1. StageType(s) /\ runs[s] \in Nat
    BY DEF TypeInv, Phase6Type, ScriptType, Kinds
  <2>2. Absent.n \in Nat
    BY DEF Absent
  <2> QED
    BY <2>1, <2>2, FlowShapes DEF StageType
<1> QED
  BY <1>1

(* A database of phase 6 has the number of its run, and an audit that names *)
(* a number reopened that database.                                         *)
LEMMA Phase6KeepsStages ==
    ASSUME TypeInv, StageInv, Phase6
    PROVE  StageInv'
<1>1. /\ ScriptType /\ DOMAIN log = FlowStages /\ DOMAIN out = FlowStages
      /\ MaxClockTrees \in Nat /\ MaxRoutes \in Nat
      /\ "cts" \in FlowStages /\ "post" \in FlowStages /\ FlowStages \subseteq Kinds
      /\ \A s \in FlowStages : StageOk(s)
  BY WbqAssumption DEF TypeInv, Phase6Type, FlowStages, Kinds, StageInv
<1> USE DEF At
<1>2. CASE VerifyGate
  <2>1. /\ UNCHANGED <<log, out, audit, runs, reopened>> /\ out["cts"] = Absent
        /\ pc'["phase6"] \in {"gated", "idle"}
    BY <1>1, <1>2, FilesExist, Phase6Moves DEF VerifyGate
  <2>2. ASSUME NEW s \in FlowStages PROVE StageOk(s)'
    BY <1>1, <2>1, StageKept, StageNumbers DEF FlowStages
  <2> QED
    BY <2>1, <2>2 DEF StageInv
<1>3. CASE CtsHeader \/ LaunchPostCtsRoute
  <2>1. PICK s \in FlowStages, b \in Nat :
          /\ Bump(s, b) /\ log'[s].n = runs[s] + 1
          /\ \A t \in FlowStages \ {s} : log'[t] = log[t]
          /\ pc'["phase6"] = s \/ (s = "cts" /\ pc'["phase6"] = "building")
          /\ out[s] = Absent /\ UNCHANGED <<out, audit, reopened>>
    <3>1. CASE CtsHeader
      BY <1>1, <3>1, Phase6Moves DEF CtsHeader, StageInv
    <3>2. CASE LaunchPostCtsRoute
      BY <1>1, <3>2, Phase6Moves, FilesExist DEF LaunchPostCtsRoute
    <3> QED
      BY <1>3, <3>1, <3>2
  <2>2. runs'[s] = runs[s] + 1 /\ \A t \in FlowStages \ {s} : runs'[t] = runs[t]
    BY <1>1, <2>1, Phase6Moves
  <2>3. ASSUME NEW t \in FlowStages \ {s} PROVE StageOk(t)'
    <3>1. pc'["phase6"] # t /\ ~ (t = "cts" /\ pc'["phase6"] = "building")
      BY <2>1 DEF FlowStages
    <3> QED
      BY <1>1, <2>1, <2>2, <3>1, StageKept, StageNumbers DEF StageOk
  <2>4. StageOk(s)'
    <3>1. /\ log'[s].n \in Nat \ {0} /\ log'[s].n = runs'[s]
          /\ audit[s].n < log'[s].n /\ audit[s].n <= runs'[s]
      <4>1. runs[s] \in Nat /\ audit[s].n \in Nat /\ audit[s].n <= runs[s]
        BY <1>1, StageNumbers DEF StageOk
      <4> QED
        BY <2>1, <2>2, <4>1
    <3>2. log'[s] # Absent
      BY <3>1 DEF Absent
    <3>3. /\ out'[s] = Absent /\ audit'[s] = audit[s] /\ reopened' = reopened
          /\ log'[s].n <= runs'[s]
      BY <2>1, <2>2, <3>1
    <3>4. audit[s].n > 0 => <<s, audit[s].n>> \in reopened
      BY <1>1 DEF StageOk
    <3> QED
      BY <3>1, <3>2, <3>3, <3>4 DEF StageOk
  <2> QED
    BY <2>1, <2>3, <2>4 DEF StageInv, FlowStages
<1>4. CASE CtsLoads
  <2>1. /\ pc["phase6"] = "building" /\ pc'["phase6"] = "cts"
        /\ UNCHANGED <<out, audit, runs, reopened>> /\ log'["post"] = log["post"]
    BY <1>1, <1>4, Phase6Moves DEF CtsLoads
  <2>2. log'["cts"] # Absent /\ log'["cts"].n = log["cts"].n
    <3>1. log["cts"] \in CtsLogs
      BY <1>1, <2>1, StageNumbers DEF StageOk, StageType, Logs
    <3>2. log'["cts"] = [log["cts"] EXCEPT !.loaded = placed]
      BY <1>1, <1>4 DEF CtsLoads
    <3>3. log'["cts"].n = log["cts"].n /\ log["cts"].n \in Nat \ {0}
      BY <3>1, <3>2 DEF CtsLogs
    <3> QED
      BY <3>3 DEF Absent
  <2>3. StageOk("cts")' /\ StageOk("post")'
    BY <1>1, <2>1, <2>2 DEF StageOk
  <2> QED
    BY <2>1, <2>3 DEF StageInv, FlowStages
<1>5. ASSUME NEW s \in FlowStages, StageEnds(s)
      PROVE  StageInv'
  <2>1. pc["phase6"] = s /\ pc'["phase6"] = "idle" /\ UNCHANGED <<audit, runs, reopened>>
    BY <1>1, <1>5, Phase6Moves DEF StageEnds
  <2>2. ASSUME NEW t \in FlowStages \ {s} PROVE StageOk(t)'
    BY <1>1, <1>5, <2>1, StageOutcome, StageKept, StageNumbers DEF FlowStages
  <2>3. StageOk(s)'
    <3>1. log'[s] # Absent /\ log'[s].n = log[s].n /\ audit[s].n < log[s].n
      <4>1. log'[s] \in Logs(s) /\ log'[s].n = log[s].n
        BY <1>5, StageOutcome
      <4>2. StageOk(s) /\ pc["phase6"] = s
        BY <1>1, <2>1
      <4> QED
        BY <4>1, <4>2, FlowShapes DEF StageOk
    <3>2. out'[s] = Absent \/ out'[s].n = log'[s].n
      BY <1>5, StageOutcome
    <3>3. /\ log[s].n \in Nat /\ audit[s].n \in Nat
          /\ log[s].n <= runs[s] /\ audit[s].n <= runs[s]
          /\ audit[s].n > 0 => <<s, audit[s].n>> \in reopened
      BY <1>1, StageNumbers DEF StageOk
    <3>4. /\ pc'["phase6"] # s /\ pc'["phase6"] # "building"
          /\ audit'[s] = audit[s] /\ runs'[s] = runs[s] /\ reopened' = reopened
          /\ log'[s].n <= runs'[s] /\ audit[s].n # log'[s].n
      <4>1. pc'["phase6"] # s
        BY <2>1 DEF FlowStages
      <4> QED
        BY <2>1, <3>1, <3>3, <4>1
    <3> QED
      BY <3>1, <3>2, <3>3, <3>4 DEF StageOk
  <2> QED
    BY <2>1, <2>2, <2>3 DEF StageInv
<1>6. ASSUME NEW s \in FlowStages, AuditStage(s)
      PROVE  StageInv'
  <2>1. /\ UNCHANGED <<log, out, pc, runs>> /\ reopened' = reopened \cup {<<s, out[s].n>>}
        /\ pc["phase6"] = "idle"
    BY <1>6 DEF AuditStage
  <2>2. ASSUME NEW t \in FlowStages \ {s} PROVE StageOk(t)'
    BY <1>1, <1>6, <2>1, AuditOutcome, StageKept, StageNumbers DEF FlowStages
  <2>3. StageOk(s)'
    <3>1. out[s] # Absent /\ out[s].n = log[s].n /\ log[s] # Absent
      <4>1. out[s] # Absent
        BY <1>6, AuditOutcome, FlowShapes
      <4> QED
        BY <1>1, <4>1 DEF StageOk
    <3>2. audit'[s].n = out[s].n /\ audit'[s].pass = (out[s].result # "illegal")
      BY <1>6, AuditOutcome
    <3>3. log[s].n <= runs[s]
      BY <1>1 DEF StageOk
    <3> QED
      BY <2>1, <3>1, <3>2, <3>3 DEF StageOk, FlowStages
  <2> QED
    BY <2>1, <2>2, <2>3 DEF StageInv
<1>7. CASE CollectCts \/ CollectPostCtsRoute
  <2>1. UNCHANGED <<log, out, audit, pc, runs, reopened>>
    BY <1>7 DEF CollectCts, CollectPostCtsRoute, WriteManifest
  <2> QED
    BY <2>1 DEF StageInv, StageOk
<1>8. CASE ArchiveCts
  <2>1. /\ UNCHANGED <<log, audit, pc, runs, reopened>> /\ pc["phase6"] = "idle"
        /\ out'["cts"] = Absent /\ out'["post"] = out["post"]
    BY <1>1, <1>8 DEF ArchiveCts
  <2>2. ASSUME NEW t \in FlowStages PROVE StageOk(t)'
    BY <1>1, <2>1 DEF StageOk, FlowStages
  <2> QED
    BY <2>1, <2>2 DEF StageInv
<1> QED
  BY <1>2, <1>3, <1>4, <1>5, <1>6, <1>7, <1>8 DEF Phase6

(* A clock tree manifest that passes was collected when run, audit,         *)
(* placement manifest, decision and gate agreed.                            *)
LEMMA CtsGateGrounds ==
    ASSUME TypeInv, PlacementInv, RouteInv, StageInv, CtsGate, Exists(out["cts"]),
           Exists(placeMan), audit["cts"].n > 0
    PROVE  CtsPassed([n |-> log["cts"].n, out |-> out["cts"], log |-> log["cts"], pass |-> TRUE])
<1>1. /\ "cts" \in FlowStages /\ out["cts"] # Absent /\ out["cts"] \in CtsOuts
      /\ StageOk("cts") /\ placeMan # Absent
  BY FilesExist DEF FlowStages, TypeInv, Phase6Type, StageType, StageInv, Outs, CtsGate
<1>2. audit["cts"].pass /\ audit["cts"].n = out["cts"].n
  BY DEF CtsGate, AuditMatches
<1>3. out["cts"].result = "good" /\ <<"cts", out["cts"].n>> \in reopened
  <2>1. out["cts"].result \in {"good", "illegal"}
    BY <1>1 DEF CtsOuts, Results
  <2> QED
    BY <1>1, <1>2, <2>1 DEF StageOk
<1>4. /\ log["cts"].from # Absent /\ log["cts"].from.repaired /\ log["cts"].from.legal
  <2>1. log["cts"].from = placeMan.bytes
    BY DEF CtsGate
  <2>2. placeMan.bytes \in Placements
    BY <1>1, Shapes DEF TypeInv, Phase3Type
  <2> QED
    BY <1>1, <2>1, <2>2, Shapes DEF PlacementInv, CtsGate
<1>5. log["cts"].decision # NoDecision /\ Closed(log["cts"].decision.source.log)
  <2>1. log["cts"].decision = decision /\ decision.kind = "PHASE6"
    BY DEF CtsGate
  <2>2. decision # NoDecision
    BY <2>1 DEF NoDecision
  <2> QED
    BY <2>1, <2>2 DEF RouteInv
<1> QED
  BY <1>3, <1>4, <1>5 DEF CtsPassed

(* What a manifest that passed holds stays true of it.                      *)
LEMMA ManifestKept ==
    ASSUME TypeInv, ManifestInv, UNCHANGED <<man["cts"], log["post"]>>, reopened \subseteq reopened'
    PROVE  ManifestInv'
<1>1. ASSUME man["cts"] # Absent, man["cts"].pass
      PROVE  CtsPassed(man["cts"])'
  BY <1>1 DEF ManifestInv, CtsPassed, Closed
<1> QED
  BY <1>1 DEF ManifestInv

(* Clock tree and route after it are grounded in what was on disk.          *)
LEMMA Phase6KeepsManifests ==
    ASSUME TypeInv, PlacementInv, RouteInv, StageInv, ManifestInv, Phase6
    PROVE  ManifestInv'
<1>1. /\ "cts" \in FlowStages /\ "post" \in FlowStages /\ "cts" # "post"
      /\ DOMAIN log = FlowStages /\ DOMAIN man = FlowStages
  BY DEF FlowStages, TypeInv, Phase6Type
<1>2. CASE VerifyGate \/ ArchiveCts \/ \E s \in FlowStages : AuditStage(s)
  <2>1. UNCHANGED <<man["cts"], log["post"]>> /\ reopened \subseteq reopened'
    BY <1>2 DEF VerifyGate, ArchiveCts, AuditStage
  <2> QED
    BY <2>1, ManifestKept
<1>3. CASE CtsHeader \/ CtsLoads
  <2>1. UNCHANGED <<man["cts"], log["post"]>> /\ reopened \subseteq reopened'
    BY <1>1, <1>3 DEF CtsHeader, CtsLoads
  <2> QED
    BY <2>1, ManifestKept
<1>4. CASE LaunchPostCtsRoute
  <2>1. /\ man["cts"] # Absent /\ man["cts"].pass /\ man["cts"].out = out["cts"]
        /\ UNCHANGED <<man, reopened>>
        /\ log'["post"] = [n |-> runs["post"] + 1, man |-> man["cts"], from |-> out["cts"],
                           loaded |-> out["cts"], state |-> "open"]
    BY <1>1, <1>4, FilesExist DEF LaunchPostCtsRoute
  <2>2. CtsPassed(man["cts"])
    BY <2>1 DEF ManifestInv
  <2>3. log'["post"].from = man["cts"].out
    BY <2>1
  <2>4. <<"cts", log'["post"].from.n>> \in reopened' /\ log'["post"].from.result = "good"
    BY <2>1, <2>2, <2>3 DEF CtsPassed
  <2>5. CtsPassed(man["cts"])'
    BY <2>1, <2>2 DEF CtsPassed, Closed
  <2> QED
    BY <2>1, <2>4, <2>5 DEF ManifestInv
<1>5. ASSUME NEW s \in FlowStages, StageEnds(s)
      PROVE  ManifestInv'
  <2>1. UNCHANGED <<man, reopened>>
    BY <1>5 DEF StageEnds
  <2>2. CASE s = "cts"
    <3>1. log'["post"] = log["post"]
      BY <1>1, <1>5, <2>2, StageOutcome
    <3> QED
      BY <2>1, <3>1, ManifestKept
  <2>3. CASE s = "post"
    <3>1. log'["post"].from = log["post"].from /\ log["post"] \in Logs("post")
      BY <1>5, <2>3, StageOutcome
    <3>2. log["post"] # Absent
      BY <1>1, <3>1, FlowShapes
    <3>3. log["post"] # Absent =>
            <<"cts", log'["post"].from.n>> \in reopened' /\ log'["post"].from.result = "good"
      BY <2>1, <3>1 DEF ManifestInv
    <3>4. man["cts"] # Absent /\ man["cts"].pass => CtsPassed(man["cts"])'
      BY <2>1 DEF ManifestInv, CtsPassed, Closed
    <3> QED
      BY <2>1, <3>2, <3>3, <3>4 DEF ManifestInv
  <2> QED
    BY <2>2, <2>3 DEF FlowStages
<1>6. CASE CollectCts
  <2>1. /\ Exists(log["cts"]) /\ Exists(out["cts"]) /\ audit["cts"].n > 0
        /\ Exists(placeMan)
        /\ UNCHANGED <<log, reopened>> /\ WriteManifest("cts", CtsGate)
    BY <1>6 DEF CollectCts, WriteManifest
  <2>2. CtsGate \in BOOLEAN
    BY DEF CtsGate
  <2>3. \/ man'["cts"] = Absent
        \/ man'["cts"] = [n |-> log["cts"].n, out |-> out["cts"], log |-> log["cts"],
                          pass |-> CtsGate]
    BY <1>1, <2>1, <2>2, ManifestOutcome
  <2>4. ASSUME man'["cts"] # Absent, man'["cts"].pass PROVE CtsPassed(man["cts"])'
    <3>1. CtsGate
      BY <2>2, <2>3, <2>4
    <3>2. man'["cts"] = [n |-> log["cts"].n, out |-> out["cts"], log |-> log["cts"],
                         pass |-> TRUE]
      BY <2>3, <2>4, <3>1
    <3>3. CtsPassed(man'["cts"])
      BY <2>1, <3>1, <3>2, CtsGateGrounds
    <3> QED
      BY <2>1, <3>3 DEF CtsPassed, Closed
  <2>5. log["post"] # Absent =>
          <<"cts", log'["post"].from.n>> \in reopened' /\ log'["post"].from.result = "good"
    BY <2>1 DEF ManifestInv
  <2> QED
    BY <2>1, <2>4, <2>5 DEF ManifestInv
<1>7. CASE CollectPostCtsRoute
  <2>1. PostCtsRouteGate \in BOOLEAN
    BY DEF PostCtsRouteGate
  <2>2. man'["cts"] = man["cts"] /\ UNCHANGED <<log, reopened>>
    BY <1>1, <1>7, <2>1, ManifestOutcome DEF CollectPostCtsRoute, WriteManifest
  <2> QED
    BY <2>2, ManifestKept
<1> QED
  BY <1>2, <1>3, <1>4, <1>5, <1>6, <1>7 DEF Phase6

-----------------------------------------------------------------------------
(* Steps of the whole pipeline.                                             *)

(* A step of placement, recovery, audit or collection.                      *)
LEMMA Phase3Step ==
    ASSUME Inv, Phase3
    PROVE  Inv'
<1>1. /\ TypeInv /\ PlacementInv /\ RouteInv /\ StageInv /\ ManifestInv /\ ScriptType
      /\ Phase4Type /\ Phase6Type
  BY DEF Inv, TypeInv
<1>2. /\ UNCHANGED <<phase4, phase6, reopened, faults>>
      /\ pc'["phase4"] = pc["phase4"] /\ pc'["phase6"] = pc["phase6"]
      /\ \A s \in FlowStages : runs'[s] = runs[s]
  BY <1>1, Phase3Frame DEF Kinds, FlowStages
<1>3. TypeInv'
  <2>1. Phase4Type'
    BY <1>1, <1>2 DEF Phase4Type, phase4
  <2>2. Phase6Type'
    BY <1>1, <1>2 DEF Phase6Type, StageType, phase6
  <2> QED
    BY <1>1, <2>1, <2>2, Phase3Types DEF TypeInv
<1>4. PlacementInv' /\ RouteInv'
  BY <1>1, Phase3Promises, OthersKeepRoute
<1>5. StageInv'
  BY <1>1, <1>2 DEF StageInv, StageOk, phase6, At
<1>6. ManifestInv'
  BY <1>1, <1>2, ManifestKept DEF phase6
<1> QED
  BY <1>3, <1>4, <1>5, <1>6 DEF Inv

(* A step of the route, its collector or the transition.                    *)
LEMMA Phase4Step ==
    ASSUME Inv, Phase4
    PROVE  Inv'
<1>1. /\ TypeInv /\ PlacementInv /\ RouteInv /\ StageInv /\ ManifestInv /\ ScriptType
      /\ Phase3Type /\ Phase6Type
  BY DEF Inv, TypeInv
<1>2. /\ UNCHANGED <<phase3, archive, phase6, reopened, faults>>
      /\ pc'["phase3"] = pc["phase3"] /\ pc'["phase6"] = pc["phase6"]
      /\ runs'["place"] = runs["place"] /\ runs'["placeMan"] = runs["placeMan"]
      /\ \A s \in FlowStages : runs'[s] = runs[s]
  BY <1>1, Phase4Frame DEF Kinds, FlowStages
<1>3. TypeInv'
  <2>1. Phase3Type'
    BY <1>1, <1>2 DEF Phase3Type, phase3
  <2>2. Phase6Type'
    BY <1>1, <1>2 DEF Phase6Type, StageType, phase6
  <2> QED
    BY <1>1, <2>1, <2>2, Phase4Types DEF TypeInv
<1>4. PlacementInv'
  BY <1>1, <1>2 DEF PlacementInv, phase3, At
<1>5. RouteInv'
  BY <1>1, Phase4KeepsRoute
<1>6. StageInv'
  BY <1>1, <1>2 DEF StageInv, StageOk, phase6, At
<1>7. ManifestInv'
  BY <1>1, <1>2, ManifestKept DEF phase6
<1> QED
  BY <1>3, <1>4, <1>5, <1>6, <1>7 DEF Inv

(* A step of clock tree, route after it, their audits and collectors.       *)
LEMMA Phase6Step ==
    ASSUME Inv, Phase6
    PROVE  Inv'
<1>1. /\ TypeInv /\ PlacementInv /\ RouteInv /\ StageInv /\ ManifestInv /\ ScriptType
      /\ Phase3Type /\ Phase4Type
  BY DEF Inv, TypeInv
<1>2. /\ UNCHANGED <<phase3, archive, phase4>>
      /\ pc'["phase3"] = pc["phase3"] /\ pc'["phase4"] = pc["phase4"]
      /\ runs'["place"] = runs["place"] /\ runs'["placeMan"] = runs["placeMan"]
  BY <1>1, Phase6Frame DEF Kinds, FlowStages
<1>3. TypeInv'
  <2>1. Phase3Type'
    BY <1>1, <1>2 DEF Phase3Type, phase3
  <2>2. Phase4Type'
    BY <1>1, <1>2 DEF Phase4Type, phase4
  <2> QED
    BY <1>1, <2>1, <2>2, Phase6Types DEF TypeInv
<1>4. PlacementInv'
  BY <1>1, <1>2 DEF PlacementInv, phase3, At
<1>5. RouteInv' /\ StageInv' /\ ManifestInv'
  BY <1>1, OthersKeepRoute, Phase6KeepsStages, Phase6KeepsManifests
<1> QED
  BY <1>3, <1>4, <1>5 DEF Inv

(* A sequence that disappears tears at most the file it was writing, which  *)
(* no status and no other sequence relies on at that time.                  *)
LEMMA InterruptStep ==
    ASSUME Inv, NEW q \in Scripts, Interrupt(q)
    PROVE  Inv'
<1>1. /\ TypeInv /\ PlacementInv /\ RouteInv /\ StageInv /\ ManifestInv /\ ScriptType
      /\ Phase3Type /\ Phase4Type /\ Phase6Type
  BY DEF Inv, TypeInv
<1>2. /\ UNCHANGED <<placed, runLog, recovery, resize, placeAudit, placeMan, archive, routeLog,
                     status, runs, reopened>>
      /\ UNCHANGED phase6
      /\ partial' = (partial \/ At(q, "placing"))
  BY DEF Interrupt
<1>3. /\ pc' = [p \in Scripts |-> pc'[p]] /\ pc'[q] = "idle"
      /\ \A p \in Scripts \ {q} : pc'[p] = pc[p]
  BY <1>1 DEF Interrupt, GoTo, ScriptType
<1>4. /\ routeMan' = routeMan \/ (routeMan' = Absent /\ q = "phase4")
      /\ decision' = decision \/ (decision' = NoDecision /\ q = "phase4" /\ At(q, "deciding"))
      /\ read' = read \/ (read' = Nothing /\ q = "phase4")
  <2>1. At(q, "hashing") \/ At(q, "deciding") => q = "phase4"
    BY <1>1 DEF At, ScriptType, Scripts
  <2> QED
    BY <2>1 DEF Interrupt
<1>5. TypeInv'
  <2>1. Phase3Type'
    <3>1. partial' \in BOOLEAN
      BY <1>2 DEF At
    <3> QED
      BY <1>1, <1>2, <3>1 DEF Phase3Type
  <2>2. Phase4Type'
    BY <1>1, <1>2, <1>4 DEF Phase4Type
  <2>3. Phase6Type'
    BY <1>1, <1>2 DEF Phase6Type, StageType, phase6
  <2>4. faults' \in 0..MaxFaults
    BY <1>1, WbqAssumption DEF Interrupt, ScriptType
  <2>5. ScriptType'
    BY <1>1, <1>2, <1>3, <2>4 DEF ScriptType, Scripts
  <2> QED
    BY <2>1, <2>2, <2>3, <2>5 DEF TypeInv
<1>6. PlacementInv'
  BY <1>1, <1>2, <1>3 DEF PlacementInv, At, Scripts
<1>7. RouteInv'
  <2>1. CASE q = "phase4"
    <3>1. StatusAgrees'
      BY <1>1, <1>2, <1>4, <2>1 DEF RouteInv, StatusAgrees, At
    <3> QED
      BY <1>1, <1>2, <1>3, <1>4, <2>1, <3>1 DEF RouteInv, At
  <2>2. CASE q # "phase4"
    <3>1. pc'["phase4"] = pc["phase4"] /\ UNCHANGED <<routeMan, decision, read>>
      BY <1>3, <1>4, <2>2 DEF Scripts
    <3> QED
      BY <1>1, <1>2, <3>1 DEF RouteInv, StatusAgrees, At
  <2> QED
    BY <2>1, <2>2
<1>8. StageInv'
  <2>1. pc'["phase6"] = "idle" \/ pc'["phase6"] = pc["phase6"]
    BY <1>3 DEF Scripts
  <2>2. ASSUME NEW s \in FlowStages PROVE StageOk(s)'
    <3>1. pc'["phase6"] \in {s, "building"} => pc'["phase6"] = pc["phase6"]
      BY <2>1 DEF FlowStages
    <3>2. log' = log /\ out' = out /\ audit' = audit /\ StageOk(s)
      BY <1>1, <1>2 DEF phase6, StageInv
    <3> QED
      BY <1>1, <1>2, <3>1, <3>2, StageKept, StageNumbers
  <2> QED
    BY <1>1, <1>2, <2>1, <2>2 DEF StageInv, At, phase6
<1>9. ManifestInv'
  BY <1>1, <1>2, ManifestKept DEF phase6
<1> QED
  BY <1>5, <1>6, <1>7, <1>8, <1>9 DEF Inv

-----------------------------------------------------------------------------
(* Theorems.                                                                *)

(* Nothing is on disk but an interrupted placement.                         *)
LEMMA Initially == Init => Inv
<1> SUFFICES ASSUME Init PROVE Inv
  OBVIOUS
<1>1. Absent.n = 0 /\ Nothing # [n |-> 0]
  BY DEF Absent, Nothing
<1>2. Phase3Type
  <2>1. MaxPlacements \in Nat
    BY WbqAssumption
  <2>2. [n |-> 0, pass |-> FALSE] \in [n : 0..MaxPlacements, pass : BOOLEAN]
    BY <2>1
  <2> QED
    BY <2>2 DEF Init, Phase3Type
<1>3. Phase4Type
  BY DEF Init, Phase4Type, Statuses
<1>4. Phase6Type
  <2>1. gate \in Gates
    BY DEF Init, Gates, NoGate
  <2> QED
    BY <2>1 DEF Init, Phase6Type, StageType
<1>5. ScriptType
  BY WbqAssumption DEF Init, ScriptType, Scripts, Kinds
<1>6. PlacementInv
  BY <1>1 DEF Init, PlacementInv, At, Scripts
<1>7. RouteInv
  BY DEF Init, RouteInv, StatusAgrees, At, Scripts
<1>8. StageInv
  BY <1>1 DEF Init, StageInv, StageOk, At, Scripts, FlowStages
<1>9. ManifestInv
  BY DEF Init, ManifestInv, FlowStages
<1> QED
  BY <1>2, <1>3, <1>4, <1>5, <1>6, <1>7, <1>8, <1>9 DEF Inv, TypeInv

(* A step that changes nothing.                                             *)
LEMMA Stutter ==
    ASSUME Inv, UNCHANGED vars
    PROVE  Inv'
<1>1. UNCHANGED <<phase3, archive, phase4, phase6, pc, runs, faults, reopened>>
  BY DEF vars
<1>2. /\ UNCHANGED <<placed, runLog, recovery, resize, partial, placeAudit, placeMan>>
      /\ UNCHANGED <<routeLog, routeMan, decision, status, read>>
      /\ UNCHANGED <<gate, log, out, audit, man>>
  BY <1>1 DEF phase3, phase4, phase6
<1>3. TypeInv'
  BY <1>1, <1>2 DEF Inv, TypeInv, Phase3Type, Phase4Type, Phase6Type, StageType, ScriptType
<1>4. PlacementInv' /\ RouteInv'
  BY <1>1, <1>2 DEF Inv, PlacementInv, RouteInv, StatusAgrees, At
<1>5. StageInv' /\ ManifestInv'
  BY <1>1, <1>2 DEF Inv, StageInv, StageOk, ManifestInv, CtsPassed, Closed, At
<1> QED
  BY <1>3, <1>4, <1>5 DEF Inv

(* Inv is inductive.                                                        *)
THEOREM Invariance == Spec => []Inv
<1>1. Inv /\ [Next]_vars => Inv'
  BY Phase3Step, Phase4Step, Phase6Step, InterruptStep, Stutter DEF Next
<1> QED
  BY <1>1, Initially, PTL DEF Spec

(* TypeOK: every file is absent, torn or of the shape its writer gives it,  *)
(* and the strings that later programs compare are among those they know,   *)
(* although the manifests, the gate and the decision are written in place   *)
(* and a kill can leave them torn.                                          *)
THEOREM TypeCorrect == Spec => []TypeOK
<1>1. ASSUME Inv PROVE TypeOK
  <2>1. TypeInv
    BY <1>1 DEF Inv
  <2>2. Exists(routeLog) => routeLog \in RouteLogs
    BY <2>1, FilesExist DEF TypeInv, Phase4Type
  <2>3. Exists(routeMan) => routeMan \in RouteMans
    BY <2>1, FilesExist DEF TypeInv, Phase4Type
  <2>4. decision.kind \in {"absent", "STOP", "PHASE5", "PHASE6"}
    BY <2>1, Shapes DEF TypeInv, Phase4Type, NoDecision
  <2>5. status.status \in {"absent", "RUNNING", "FAIL", "PASS"} /\ status.next \in
          {"none", "decide_post_route", "READ_DECISION", "STOP", "PHASE5", "PHASE6"}
    BY <2>1 DEF TypeInv, Phase4Type, Statuses
  <2>6. ASSUME NEW s \in FlowStages
        PROVE  /\ Exists(log[s]) => log[s].state \in {"open", "pass", "failed"}
               /\ Exists(out[s]) => out[s].result \in Results[s]
               /\ audit[s].pass \in BOOLEAN
               /\ Exists(man[s]) => man[s].pass \in BOOLEAN
    BY <2>1, FilesExist, FlowShapes DEF TypeInv, Phase6Type, StageType
  <2>7. pc \in [Scripts -> {"idle", "placing", "recovering", "collecting", "preflighted",
                            "loading", "routing", "hashing", "collected", "deciding", "decided",
                            "gated", "building", "cts", "post"}]
    BY <2>1 DEF TypeInv, ScriptType, Scripts
  <2> QED
    BY <2>1, <2>2, <2>3, <2>4, <2>5, <2>6, <2>7, Shapes
       DEF TypeOK, TypeInv, Phase3Type, ScriptType, Verdicts
<1> QED
  BY <1>1, Invariance, PTL

(* CtsGrounded: a clock tree manifest passes only if the placement whose    *)
(* hash its run logged was repaired and legal and authorised by a route     *)
(* without congestion (collect_wbq_phase6_cts_evidence.py, gate_pass).      *)
THEOREM ClockTreeGrounded == Spec => []CtsGrounded
<1>1. ASSUME Inv PROVE CtsGrounded
  <2>1. SUFFICES ASSUME Exists(man["cts"]), man["cts"].pass
                 PROVE  /\ man["cts"].log.from.repaired /\ man["cts"].log.from.legal
                        /\ man["cts"].log.decision.source.log.state = "pass"
                        /\ man["cts"].log.decision.source.log.zero
    BY DEF CtsGrounded
  <2>2. man["cts"] # Absent
    BY <1>1, <2>1, FilesExist DEF Inv, FlowStages
  <2>3. CtsPassed(man["cts"])
    BY <1>1, <2>1, <2>2 DEF Inv, ManifestInv
  <2> QED
    BY <2>3 DEF CtsPassed, Closed
<1> QED
  BY <1>1, Invariance, PTL

(* ReopenedBeforeUse: a post-CTS route is launched only on a clock tree     *)
(* that an audit reopened and found legal.                                  *)
THEOREM ReopenedFirst == Spec => []ReopenedBeforeUse
<1>1. Inv => ReopenedBeforeUse
  BY FilesExist DEF Inv, ManifestInv, ReopenedBeforeUse, TypeInv, Phase6Type, FlowStages
<1> QED
  BY <1>1, Invariance, PTL

(* StatusAgrees: while the status file names phase 5 or 6 as next, the      *)
(* decision file says the same (run_wbq_post_route_transition.py).          *)
THEOREM StatusFollowsDecision == Spec => []StatusAgrees
<1>1. Inv => StatusAgrees
  BY DEF Inv, RouteInv
<1> QED
  BY <1>1, Invariance, PTL

=============================================================================
