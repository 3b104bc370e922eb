-------------------------- MODULE VariantFlow_proofs --------------------------
(***************************************************************************)
(* Theorems about VariantFlow for every choice of running and finished      *)
(* variants, operator processes, congestion totals and bound on faults.     *)
(*                                                                         *)
(* The files a variant leaves are written once, which nothing but the       *)
(* scripts' own checks ensures.  The layers of the invariant follow them:   *)
(* PlacerInv and OwnerInv (one runner has the placement, one the route),    *)
(* PlacedInv and RunInv (report, exit code and manifest are of that run),   *)
(* PlaceInv (what is routed was placed), GateInv (a verdict still holds     *)
(* when it is written), SelectInv (what a selection read stays true) and,   *)
(* for variants whose permission to route reads a smoke and no cheap gate,  *)
(* VerdictInv (all who hold a verdict hold the same).                       *)
(***************************************************************************)
EXTENDS VariantFlow, TLAPS

\* A placement runner from its invocation record to its report.
Placing == {"placeAttempted", "placing", "placeReturned"}

\* A route runner from its invocation record to its manifest.
Running == {"attempted", "launched", "waiting", "returned", "parsed"}

\* Where a script has just read what it decides on.
Started == {"permitting", "placeChecked", "authorizing", "checked", "deciding"}

\* The values of the fields.
Ats == {"idle"} \cup Started \cup Placing \cup Running

Codes == {0, 1, 134, 143}
Pids == {"place", "route"} \X (Procs \X Variants)
Permits == [status : Verdicts, current : BOOLEAN]
Manifests ==
    [status : {"absent", "torn", "PASS", "FAIL"}, class : {None, "interrupted", "tool_error"},
     exit : {0, 1, 134, 143}, preserved : BOOLEAN]
Outcomes == {"absent", "torn", "PASS", "legality", "divergence", "interrupted", "error"}
RouteEnds == {None, "ok", "abort", "error", "killed"}
PlaceEnds == {None, "ok", "legality", "divergence", "error", "killed"}
ProcRecs ==
    [at : Ats, v : Variants \cup {None}, verdict : {None, "PASS", "BLOCKED"}, signal : BOOLEAN,
     pid : SUBSET Pids, rc : Codes, parsed : BOOLEAN]

DocType ==
    /\ dir \subseteq All
    /\ decision \in [All -> {"absent", "torn", "selected"}]
    /\ cheap \in [All -> {"absent", "PASS", "FAIL"}]
    /\ smoke \in [All -> {"absent", "PASS", "FAIL"}]
    /\ numeric \in [All -> {"absent", "PASS", "FAIL"}]
    /\ reopen \in [All -> {"absent", "PASS", "FAIL"}]
    /\ permit \in [All -> Permits]
    /\ auth \in [All -> Permits]
    /\ placeAttempt \subseteq All
    /\ placed \in [All -> Outcomes]

RouteType ==
    /\ attempt \in [All -> {"absent", "started", "pid"}]
    /\ manifest \in [All -> Manifests]
    /\ report \in [All -> Totals \cup {NoTotals}]
    /\ analysis \in [All -> Totals \cup {NoTotals}]
    /\ gate \in [All -> Verdicts]

MachineType ==
    /\ tmpfs \subseteq All \X {"rudy", "place", "smoke", "routed"}
    /\ live \subseteq Procs \X Variants
    /\ placing \subseteq Procs \X Variants
    /\ faults \in 0..MaxFaults

HistoryType ==
    /\ launches \in [All -> Nat]
    /\ ended \in [All -> RouteEnds]
    /\ placements \in [All -> Nat]
    /\ placeEnded \in [All -> PlaceEnds]
    /\ orphaned \subseteq {"place", "route"} \X Variants

\* What is known of a process: whose script it runs, and that it is one of this kind.
Busy(r) ==
    /\ r.at # "idle" => r.v \in Variants
    /\ r.at \in {"permitting", "authorizing", "deciding"} => r.verdict # None
    /\ r.at \in Running \cup {"checked"} => r.v \in DOMAIN Gate

ProcType ==
    /\ proc \in [Procs -> ProcRecs]
    /\ \A p \in Procs : Busy(proc[p])

TypeInv == DocType /\ RouteType /\ MachineType /\ HistoryType /\ ProcType

\* Runner p has consumed the placement of v and has not sealed it.
Places(p, v) == proc[p].at \in Placing /\ proc[p].v = v

\* The placement belongs to one runner, and nothing is sealed while that one runs.
PlacerOf(v) ==
    /\ v \notin placeAttempt => placements[v] = 0
    /\ placements[v] = 0 => placeEnded[v] = None /\ placed[v] = "absent"
    /\ placements[v] <= 1
    /\ \A p \in Procs : Places(p, v) => v \in placeAttempt /\ placed[v] = "absent"
    /\ \A p, q \in Procs : Places(p, v) /\ Places(q, v) => p = q
    /\ \A p \in Procs : Places(p, v) /\ proc[p].at = "placeAttempted" => placements[v] = 0
    /\ \A p \in Procs : Places(p, v) /\ proc[p].at # "placeAttempted" => placements[v] = 1
    /\ \A p \in Procs : <<p, v>> \in placing => placements[v] = 1 /\ placeEnded[v] = None
    /\ \A p, q \in Procs : <<p, v>> \in placing /\ <<q, v>> \in placing => p = q

PlacerInv == \A v \in Variants : PlacerOf(v)

\* The report of a placement is of the one OpenROAD process, and of how that one ended.
PlacedOf(v) ==
    /\ \A p \in Procs : proc[p].at = "placeReturned" /\ proc[p].v = v =>
         /\ proc[p].rc = 0 => placeEnded[v] = "ok"
         /\ proc[p].rc = 143 /\ PlacementRun[v].pid = "none" => placeEnded[v] = "killed"
    /\ \A p \in Procs : proc[p].at \in Placing \cup {"placeChecked"} /\ proc[p].v = v =>
         (proc[p].signal => PlacementRun[v].pid # "none")
    /\ placed[v] = "PASS" => placeEnded[v] = "ok"
    /\ placed[v] \in {"legality", "divergence"} => placeEnded[v] = placed[v]
    /\ placed[v] = "interrupted" /\ PlacementRun[v].pid = "none" => placeEnded[v] = "killed"

PlacedInv == \A v \in Variants : PlacedOf(v)

\* Runner p has consumed the attempt of v and has not sealed it.
Runs(p, v) == proc[p].at \in Running /\ proc[p].v = v

\* The attempt belongs to one runner, and nothing is sealed while that one runs.
OwnerOf(v) ==
    /\ attempt[v] = "absent" => launches[v] = 0 /\ manifest[v].status = "absent"
    /\ launches[v] = 0 => ended[v] = None /\ report[v] = NoTotals /\ analysis[v] = NoTotals
    /\ launches[v] <= 1
    /\ \A p \in Procs : Runs(p, v) => attempt[v] # "absent" /\ manifest[v].status = "absent"
    /\ \A p, q \in Procs : Runs(p, v) /\ Runs(q, v) => p = q
    /\ \A p \in Procs : Runs(p, v) /\ proc[p].at = "attempted" => launches[v] = 0
    /\ \A p \in Procs : <<p, v>> \in live => launches[v] = 1 /\ ended[v] = None
    /\ \A p, q \in Procs : <<p, v>> \in live /\ <<q, v>> \in live => p = q

OwnerInv == \A v \in Variants : OwnerOf(v)

\* What is written of a route is of the one OpenROAD process, and of how that one ended.
RunOf(v) ==
    /\ \A p \in Procs : proc[p].at \in {"returned", "parsed"} /\ proc[p].v = v =>
         /\ proc[p].rc = 0 => ended[v] = "ok"
         /\ proc[p].rc = 134 => ended[v] = "abort"
    /\ analysis[v] # NoTotals => ended[v] = "ok" /\ analysis[v] = report[v]
    /\ manifest[v].status = "PASS" => ended[v] = "ok" /\ manifest[v].class = None
    /\ manifest[v].status = "FAIL" /\ manifest[v].exit = 134 => ended[v] = "abort"

RunInv == \A v \in Variants : RunOf(v)

\* What is routed was placed.
PlaceInv ==
    /\ \A p \in Procs : proc[p].at = "checked" => placed[PlacementOf(proc[p].v)] = "PASS"
    /\ \A v \in Variants : attempt[v] # "absent" => placed[PlacementOf(v)] = "PASS"

\* What a PASS of the gate of v stands on, and nothing takes away again.
Grounds(v) ==
    /\ ended[v] = "ok" /\ report[v] = Clean
    /\ placed[PlacementOf(v)] = "PASS"
    /\ manifest[v].status = "PASS"

GateInv ==
    /\ \A p \in Procs, v \in Variants :
         proc[p].at = "deciding" /\ proc[p].v = v /\ proc[p].verdict = "PASS" => Grounds(v)
    /\ \A v \in Variants : gate[v] = "PASS" => Grounds(v)

\* What the selection of v read of its predecessor is true and stays so.
OpenedBy(v) ==
    LET w == Selection[v].predecessor IN
    CASE Selection[v].evidence = "toolError" -> ended[w] = "abort"
      [] Selection[v].evidence = "blocked" -> ended[w] = "ok" /\ report[w] # Clean
      [] Selection[v].evidence = "interrupted" -> placeEnded[w] = "killed"
      [] OTHER -> placeEnded[w] = Selection[v].evidence

SelectInv ==
    \A v \in Variants :
        decision[v] = "selected" /\ Selection[v].predecessor \in Variants => OpenedBy(v)

RunsInv == PlacerInv /\ OwnerInv
Inv == TypeInv /\ RunsInv /\ PlacedInv /\ RunInv /\ PlaceInv /\ GateInv /\ SelectInv

-----------------------------------------------------------------------------
\* What two processes that hold a verdict about the same variant agree on.

\* The conditions of a permission to route that no later step changes, but a reboot.
Settled(v) ==
    LET r == RouteAuth[v] IN
    /\ placed[r.placement] = "PASS"
    /\ <<r.placement, "place">> \in tmpfs
    /\ r.numeric => numeric[r.placement] = "PASS"
    /\ r.reopenAnchors > 0 =>
         reopen[r.placement] = "PASS" /\ PlacementLog[r.placement].anchors = r.reopenAnchors
    /\ smoke[v] = "PASS"
    /\ ExpectedChange(v, r)

\* The reports they are read from, which are written once.
Loaded(v) ==
    LET r == RouteAuth[v] IN
    /\ placed[r.placement] # "absent"
    /\ r.numeric => numeric[r.placement] # "absent"
    /\ r.reopenAnchors > 0 => reopen[r.placement] # "absent"
    /\ smoke[v] # "absent"

\* A permission was given, and nobody is about to write another verdict.
Permitted(v) ==
    /\ auth[v].status \in {"PASS", "torn"}
    /\ \A q \in Procs : proc[q].at = "authorizing" /\ proc[q].v = v => proc[q].verdict = "PASS"

PermitHeld(v) ==
    /\ \A p \in Procs : proc[p].at = "authorizing" /\ proc[p].v = v =>
         /\ v \in DOMAIN RouteAuth
         /\ Loaded(v)
         /\ proc[p].verdict = IF Settled(v) THEN "PASS" ELSE "BLOCKED"
         /\ auth[v].status \in {"absent", "torn", proc[p].verdict}
    /\ v \in DOMAIN RouteAuth =>
         /\ \A p \in Procs : proc[p].at = "checked" /\ proc[p].v = v => Permitted(v)
         /\ attempt[v] # "absent" => Permitted(v)
    /\ <<v, "routed">> \in tmpfs => launches[v] > 0

\* The conditions of the strict gate but the permission, which a decider found to be PASS.
Routed(v) ==
    /\ analysis[v] = Clean
    /\ placed[Gate[v].placement] = "PASS"
    /\ manifest[v].status = "PASS"
    /\ Gate[v].protected => manifest[v].preserved
    /\ <<v, "routed">> \in tmpfs

VerdictHeld(v) ==
    \A p \in Procs : proc[p].at = "deciding" /\ proc[p].v = v =>
        /\ v \in DOMAIN Gate
        /\ placed[Gate[v].placement] # "absent"
        /\ manifest[v].status # "absent"
        /\ analysis[v] # NoTotals
        /\ proc[p].verdict = IF Routed(v) THEN "PASS" ELSE "BLOCKED"
        /\ gate[v] \in {"absent", "torn", proc[p].verdict}

VerdictInv == \A v \in Variants : PermitHeld(v) /\ VerdictHeld(v)

-----------------------------------------------------------------------------
(* The variants of a table are those of its records.                        *)
LEMMA TableRow ==
    ASSUME NEW table, NEW v \in DOMAIN ByVariant(table)
    PROVE  ByVariant(table)[v] \in table /\ ByVariant(table)[v].variant = v
<1>1. v \in {r.variant : r \in table}
  BY DEF ByVariant
<1>2. \E r \in table : r.variant = v
  BY <1>1
<1>3. ByVariant(table)[v] = CHOOSE r \in table : r.variant = v
  BY <1>1 DEF ByVariant
<1> QED
  BY <1>2, <1>3

(* Every route of a variant but B6, B7 and B25 starts from the placement of *)
(* B9; each of the scripts is a row of the table.                           *)
LEMMA RoutedPlacements ==
    /\ \A r \in RoutePermits :
         r.placement = IF r.variant \in {"B6", "B7", "B25"} THEN r.variant ELSE "B9"
    /\ \A v \in {"B6", "B7", "B9"} \cup
              {"B10", "B11", "B12", "B13", "B14", "B15", "B16", "B17", "B18", "B19", "B20", "B21",
               "B22", "B23", "B24", "B25"} : v \in DOMAIN RouteAuth
    /\ "B3" \notin DOMAIN RouteAuth /\ "B4" \notin DOMAIN RouteAuth
    /\ "B5" \notin DOMAIN RouteAuth /\ "B8" \notin DOMAIN RouteAuth
<1>1. /\ AuthorizeB6GlobalRoute.variant = "B6" /\ AuthorizeB6GlobalRoute.placement = "B6"
      /\ AuthorizeB7GlobalRoute.variant = "B7" /\ AuthorizeB7GlobalRoute.placement = "B7"
      /\ AuthorizeB9GlobalRoute.variant = "B9" /\ AuthorizeB9GlobalRoute.placement = "B9"
      /\ AuthorizeB10GlobalRoute.variant = "B10" /\ AuthorizeB10GlobalRoute.placement = "B9"
      /\ AuthorizeB11GlobalRoute.variant = "B11" /\ AuthorizeB11GlobalRoute.placement = "B9"
      /\ AuthorizeB12GlobalRoute.variant = "B12" /\ AuthorizeB12GlobalRoute.placement = "B9"
      /\ AuthorizeB13GlobalRoute.variant = "B13" /\ AuthorizeB13GlobalRoute.placement = "B9"
      /\ AuthorizeB14GlobalRoute.variant = "B14" /\ AuthorizeB14GlobalRoute.placement = "B9"
      /\ AuthorizeB15GlobalRoute.variant = "B15" /\ AuthorizeB15GlobalRoute.placement = "B9"
      /\ AuthorizeB16GlobalRoute.variant = "B16" /\ AuthorizeB16GlobalRoute.placement = "B9"
      /\ AuthorizeB17GlobalRoute.variant = "B17" /\ AuthorizeB17GlobalRoute.placement = "B9"
      /\ AuthorizeB18GlobalRoute.variant = "B18" /\ AuthorizeB18GlobalRoute.placement = "B9"
      /\ AuthorizeB19GlobalRoute.variant = "B19" /\ AuthorizeB19GlobalRoute.placement = "B9"
      /\ AuthorizeB20GlobalRoute.variant = "B20" /\ AuthorizeB20GlobalRoute.placement = "B9"
      /\ AuthorizeB21GlobalRoute.variant = "B21" /\ AuthorizeB21GlobalRoute.placement = "B9"
      /\ AuthorizeB22GlobalRoute.variant = "B22" /\ AuthorizeB22GlobalRoute.placement = "B9"
      /\ AuthorizeB23GlobalRoute.variant = "B23" /\ AuthorizeB23GlobalRoute.placement = "B9"
      /\ AuthorizeB24GlobalRoute.variant = "B24" /\ AuthorizeB24GlobalRoute.placement = "B9"
      /\ AuthorizeB25GlobalRoute.variant = "B25" /\ AuthorizeB25GlobalRoute.placement = "B25"
  BY DEF AuthorizeB6GlobalRoute, AuthorizeB7GlobalRoute, AuthorizeB9GlobalRoute,
     AuthorizeB10GlobalRoute, AuthorizeB11GlobalRoute, AuthorizeB12GlobalRoute,
     AuthorizeB13GlobalRoute, AuthorizeB14GlobalRoute, AuthorizeB15GlobalRoute,
     AuthorizeB16GlobalRoute, AuthorizeB17GlobalRoute, AuthorizeB18GlobalRoute,
     AuthorizeB19GlobalRoute, AuthorizeB20GlobalRoute, AuthorizeB21GlobalRoute,
     AuthorizeB22GlobalRoute, AuthorizeB23GlobalRoute, AuthorizeB24GlobalRoute,
     AuthorizeB25GlobalRoute, SharedPlacementRoute, RoutePermit
<1>2. DOMAIN RouteAuth = {r.variant : r \in RoutePermits}
  BY DEF RouteAuth, ByVariant
<1>3. \A r \in RoutePermits :
        r.placement = IF r.variant \in {"B6", "B7", "B25"} THEN r.variant ELSE "B9"
  BY <1>1 DEF RoutePermits
<1>4. \A v \in {"B6", "B7", "B9"} \cup
           {"B10", "B11", "B12", "B13", "B14", "B15", "B16", "B17", "B18", "B19", "B20", "B21",
            "B22", "B23", "B24", "B25"} : v \in DOMAIN RouteAuth
  BY <1>1, <1>2 DEF RoutePermits
<1>5. \A r \in RoutePermits : r.variant \notin {"B3", "B4", "B5", "B8"}
  BY <1>1 DEF RoutePermits
<1> QED
  BY <1>2, <1>3, <1>4, <1>5

(* A strict gate reads the placement its variant was routed from.           *)
LEMMA GatePlacements ==
    \A g \in StrictGates :
        /\ g.variant \in {"B3", "B4", "B5", "B25"} \cup
             {"B6", "B7", "B9", "B10", "B11", "B12", "B13", "B14", "B15", "B16", "B17", "B18",
              "B19", "B20", "B21", "B22", "B23", "B24"}
        /\ \/ g.variant \in {"B3", "B4", "B5"} /\ g.placement = g.variant
           \/ /\ g.variant \in DOMAIN RouteAuth
              /\ g.placement = IF g.variant \in {"B6", "B7", "B25"} THEN g.variant ELSE "B9"
<1>1. /\ DecideB3StrictGate.variant = "B3" /\ DecideB3StrictGate.placement = "B3"
      /\ DecideB4StrictGate.variant = "B4" /\ DecideB4StrictGate.placement = "B4"
      /\ DecideB5StrictGate.variant = "B5" /\ DecideB5StrictGate.placement = "B5"
      /\ DecideB6StrictGate.variant = "B6" /\ DecideB6StrictGate.placement = "B6"
      /\ DecideB7StrictGate.variant = "B7" /\ DecideB7StrictGate.placement = "B7"
      /\ DecideB9StrictGate.variant = "B9" /\ DecideB9StrictGate.placement = "B9"
      /\ DecideB10StrictGate.variant = "B10" /\ DecideB10StrictGate.placement = "B9"
      /\ DecideB11StrictGate.variant = "B11" /\ DecideB11StrictGate.placement = "B9"
      /\ DecideB12StrictGate.variant = "B12" /\ DecideB12StrictGate.placement = "B9"
      /\ DecideB13StrictGate.variant = "B13" /\ DecideB13StrictGate.placement = "B9"
      /\ DecideB14StrictGate.variant = "B14" /\ DecideB14StrictGate.placement = "B9"
      /\ DecideB15StrictGate.variant = "B15" /\ DecideB15StrictGate.placement = "B9"
      /\ DecideB16StrictGate.variant = "B16" /\ DecideB16StrictGate.placement = "B9"
      /\ DecideB17StrictGate.variant = "B17" /\ DecideB17StrictGate.placement = "B9"
      /\ DecideB18StrictGate.variant = "B18" /\ DecideB18StrictGate.placement = "B9"
      /\ DecideB19StrictGate.variant = "B19" /\ DecideB19StrictGate.placement = "B9"
      /\ DecideB20StrictGate.variant = "B20" /\ DecideB20StrictGate.placement = "B9"
      /\ DecideB21StrictGate.variant = "B21" /\ DecideB21StrictGate.placement = "B9"
      /\ DecideB22StrictGate.variant = "B22" /\ DecideB22StrictGate.placement = "B9"
      /\ DecideB23StrictGate.variant = "B23" /\ DecideB23StrictGate.placement = "B9"
      /\ DecideB24StrictGate.variant = "B24" /\ DecideB24StrictGate.placement = "B9"
      /\ DecideB25StrictGate.variant = "B25" /\ DecideB25StrictGate.placement = "B25"
  BY DEF DecideB3StrictGate, DecideB4StrictGate, DecideB5StrictGate, DecideB6StrictGate,
     DecideB7StrictGate, DecideB9StrictGate, DecideB10StrictGate, DecideB11StrictGate,
     DecideB12StrictGate, DecideB13StrictGate, DecideB14StrictGate, DecideB15StrictGate,
     DecideB16StrictGate, DecideB17StrictGate, DecideB18StrictGate, DecideB19StrictGate,
     DecideB20StrictGate, DecideB21StrictGate, DecideB22StrictGate, DecideB23StrictGate,
     DecideB24StrictGate, DecideB25StrictGate, StrictGate
<1> QED
  BY <1>1, RoutedPlacements DEF StrictGates

(* A selection reads a failed route or a failed placement; an interrupted   *)
(* one only of B5.                                                          *)
LEMMA SelectionEvidence ==
    \A s \in Selections :
        \/ s.evidence \in {"blocked", "toolError"}
        \/ s.evidence \in {"legality", "divergence"}
        \/ s.evidence = "interrupted" /\ s.predecessor = "B5"
<1>1. /\ SelectB3.evidence = "blocked" /\ SelectB3.predecessor = "B2"
      /\ SelectB4.evidence = "blocked" /\ SelectB4.predecessor = "B3"
      /\ SelectB5.evidence = "legality" /\ SelectB5.predecessor = "B4"
      /\ SelectB6.evidence = "interrupted" /\ SelectB6.predecessor = "B5"
      /\ SelectB7.evidence = "divergence" /\ SelectB7.predecessor = "B6"
      /\ SelectB8.evidence = "legality" /\ SelectB8.predecessor = "B7"
      /\ SelectB9.evidence = "legality" /\ SelectB9.predecessor = "B8"
      /\ SelectB10.evidence = "blocked" /\ SelectB10.predecessor = "B9"
      /\ SelectB11.evidence = "blocked" /\ SelectB11.predecessor = "B9"
      /\ SelectB12.evidence = "blocked" /\ SelectB12.predecessor = "B11"
      /\ SelectB13.evidence = "blocked" /\ SelectB13.predecessor = "B12"
      /\ SelectB14.evidence = "toolError" /\ SelectB14.predecessor = "B13"
      /\ SelectB15.evidence = "toolError" /\ SelectB15.predecessor = "B14"
      /\ SelectB16.evidence = "toolError" /\ SelectB16.predecessor = "B15"
      /\ SelectB17.evidence = "blocked" /\ SelectB17.predecessor = "B16"
      /\ SelectB18.evidence = "blocked" /\ SelectB18.predecessor = "B17"
      /\ SelectB19.evidence = "toolError" /\ SelectB19.predecessor = "B18"
      /\ SelectB20.evidence = "toolError" /\ SelectB20.predecessor = "B19"
      /\ SelectB21.evidence = "toolError" /\ SelectB21.predecessor = "B20"
      /\ SelectB22.evidence = "blocked" /\ SelectB22.predecessor = "B21"
      /\ SelectB23.evidence = "blocked" /\ SelectB23.predecessor = "B21"
      /\ SelectB24.evidence = "blocked" /\ SelectB24.predecessor = "B21"
      /\ SelectB25.evidence = "blocked" /\ SelectB25.predecessor = "B24"
  BY DEF SelectB3, SelectB4, SelectB5, SelectB6, SelectB7, SelectB8, SelectB9, SelectB10,
     SelectB11, SelectB12, SelectB13, SelectB14, SelectB15, SelectB16, SelectB17, SelectB18,
     SelectB19, SelectB20, SelectB21, SelectB22, SelectB23, SelectB24, SelectB25, AfterBlocked,
     AfterBlockedFresh, AfterToolError, AfterPlacementFailure
<1> QED
  BY <1>1 DEF Selections

(* Every strict gate is of a variant with a route runner, whose report says *)
(* whether the protected databases were preserved.                          *)
LEMMA RouteRows ==
    /\ \A r \in RouteRunners : r.preserved \in BOOLEAN
    /\ \A g \in StrictGates : \E r \in RouteRunners : r.variant = g.variant
<1> DEFINE b3 == [RouteRunner("B3", "none") EXCEPT !.preserved = FALSE]
<1>1. b3.variant = "B3" /\ b3.preserved = FALSE
  BY DEF RouteRunner
<1>2. \A v, pid : RouteRunner(v, pid).variant = v /\ RouteRunner(v, pid).preserved = TRUE
  BY DEF RouteRunner
<1> DEFINE named == {"B6", "B7", "B9", "B10", "B11", "B12", "B13", "B14", "B15", "B16", "B17",
                     "B18", "B19", "B20", "B21", "B22", "B23", "B24"}
<1>3. RouteRunners = {b3, RouteRunner("B4", "none"), RouteRunner("B5", "none"),
                      RouteRunner("B25", "child")} \cup {RouteRunner(v, "named") : v \in named}
  BY DEF RouteRunners
<1>4. \A g \in StrictGates : g.variant \in {"B3", "B4", "B5", "B25"} \cup named
  BY GatePlacements
<1> HIDE DEF b3, named
<1>5. ASSUME NEW r \in RouteRunners PROVE r.preserved \in BOOLEAN
  <2>1. r = b3 \/ \E v, pid : r = RouteRunner(v, pid)
    BY <1>3
  <2>2. CASE r = b3
    BY <1>1, <2>2
  <2>3. ASSUME NEW v, NEW pid, r = RouteRunner(v, pid) PROVE r.preserved = TRUE
    BY <1>2, <2>3, Zenon
  <2> QED
    BY <2>1, <2>2, <2>3
<1>6. \A v \in {"B3", "B4", "B5", "B25"} \cup named : \E r \in RouteRunners : r.variant = v
  BY <1>1, <1>2, <1>3
<1> QED
  BY <1>4, <1>5, <1>6

(* The placement runner of B5 has no traps.                                 *)
LEMMA PlacementRowB5 == PlacementRun["B5"].pid = "none"
<1> DEFINE b5 == [PlacementRunner("B5", "none") EXCEPT !.cheap = TRUE]
<1>1. b5.variant = "B5" /\ b5 \in PlacementRunners
  BY DEF PlacementRunner, PlacementRunners
<1>2. \A r \in PlacementRunners : r.variant = "B5" => r.pid = "none"
  BY DEF PlacementRunner, PlacementRunners
<1>3. "B5" \in {r.variant : r \in PlacementRunners}
  BY <1>1
<1>4. "B5" \in DOMAIN PlacementRun
  BY <1>3 DEF PlacementRun, ByVariant
<1> QED
  BY <1>2, <1>4, TableRow DEF PlacementRun

(* What the flow relies on of its tables.                                   *)
LEMMA TableFacts ==
    /\ \A v \in Variants : PlacementOf(v) \in All
    /\ \A v \in DOMAIN Gate : Gate[v].placement = PlacementOf(v)
    /\ \A v \in Variants :
         \/ Selection[v].evidence \in {"blocked", "toolError"}
         \/ Selection[v].evidence \in {"legality", "divergence"}
         \/ /\ Selection[v].evidence = "interrupted"
            /\ PlacementRun[Selection[v].predecessor].pid = "none"
    /\ \A v \in DOMAIN Gate : RouteRun[v].preserved \in BOOLEAN
<1>1. \A v \in DOMAIN RouteAuth :
        RouteAuth[v].placement = IF v \in {"B6", "B7", "B25"} THEN v ELSE "B9"
  BY TableRow, RoutedPlacements DEF RouteAuth
<1>2. \A v \in DOMAIN Gate : \/ v \in {"B3", "B4", "B5"} /\ Gate[v].placement = v
                             \/ /\ v \in DOMAIN RouteAuth
                                /\ Gate[v].placement =
                                     IF v \in {"B6", "B7", "B25"} THEN v ELSE "B9"
  BY TableRow, GatePlacements DEF Gate
<1>3. ASSUME NEW v \in Variants PROVE PlacementOf(v) \in All
  <2>1. CASE v \in DOMAIN RouteAuth
    <3>1. RouteAuth[v].placement \in All \cup {None}
      <4>1. RouteAuth[v].placement \in
              {RouteAuth[w].placement : w \in Variants \cap DOMAIN RouteAuth}
        BY <2>1
      <4>2. RouteAuth[v].placement \in Sources
        BY <4>1 DEF Sources
      <4> QED
        BY <4>2, FlowAssumption
    <3>2. RouteAuth[v].placement # None
      BY <1>1, <2>1 DEF None
    <3> QED
      BY <2>1, <3>1, <3>2 DEF PlacementOf
  <2>2. CASE v \notin DOMAIN RouteAuth
    BY <2>2 DEF PlacementOf, All
  <2> QED
    BY <2>1, <2>2
<1>4. ASSUME NEW v \in DOMAIN Gate PROVE Gate[v].placement = PlacementOf(v)
  BY <1>1, <1>2, RoutedPlacements DEF PlacementOf
<1>5. ASSUME NEW v \in Variants
      PROVE  \/ Selection[v].evidence \in {"blocked", "toolError"}
             \/ Selection[v].evidence \in {"legality", "divergence"}
             \/ /\ Selection[v].evidence = "interrupted"
                /\ PlacementRun[Selection[v].predecessor].pid = "none"
  <2>1. Selection[v] \in Selections
    BY TableRow, FlowAssumption DEF Selection
  <2> QED
    BY <2>1, SelectionEvidence, PlacementRowB5
<1>6. ASSUME NEW v \in DOMAIN Gate PROVE RouteRun[v].preserved \in BOOLEAN
  <2>1. Gate[v] \in StrictGates /\ Gate[v].variant = v
    BY TableRow DEF Gate
  <2>2. v \in {r.variant : r \in RouteRunners}
    BY <2>1, RouteRows
  <2>3. v \in DOMAIN RouteRun
    BY <2>2 DEF RouteRun, ByVariant
  <2> QED
    BY <2>3, TableRow, RouteRows DEF RouteRun
<1> QED
  BY <1>3, <1>4, <1>5, <1>6

-----------------------------------------------------------------------------
(* The steps, by what they leave alone.                                     *)

DocStep(v) ==
    \/ Select(v) \/ CollectCheapGate(v) \/ RunSmoke(v) \/ AnalyzePlacement(v)
    \/ AuditReopen(v) \/ RunnerTooEarly(v) \/ EditTool(v)

\* A process starts a script,
StartStep(p, v) ==
    \/ AuthorizePhysicalReads(p, v) \/ PlacementChecks(p, v)
    \/ AuthorizeRouteReads(p, v) \/ RunnerChecks(p, v) \/ DecideGateReads(p, v)

\* goes on,
MoveStep(p) ==
    \/ CreatePlacement(p) /\ proc[p].v \notin placeAttempt
    \/ LaunchPlacement(p) \/ PlacementReturns(p) \/ SignalPlacement(p)
    \/ CreateAttempt(p) /\ attempt[proc[p].v] = "absent"
    \/ Launch(p) \/ PollComputePid(p) \/ WaitReturns(p) \/ ParseCongestion(p) \/ SignalRunner(p)

\* or ends.
EndStep(p) ==
    \/ AuthorizePhysicalWrites(p) \/ AuthorizeRouteWrites(p) \/ DecideGateWrites(p)
    \/ CreatePlacement(p) /\ proc[p].v \in placeAttempt
    \/ CreateAttempt(p) /\ attempt[proc[p].v] # "absent"
    \/ SealPlacement(p) \/ PlacementFails(p) \/ SealManifest(p) \/ RunnerFails(p) \/ KillProc(p)

ProcStep(p) == (\E v \in Variants : StartStep(p, v)) \/ MoveStep(p) \/ EndStep(p)

(* What Next does.                                                          *)
LEMMA NextSteps ==
    ASSUME Next
    PROVE  \/ \E v \in Variants : DocStep(v)
           \/ \E p \in Procs : ProcStep(p)
           \/ \E l \in placing : PlacementEnds(l)
           \/ \E l \in live : OpenroadEnds(l)
           \/ \E l \in Openroads : TerminateOpenroad(l)
           \/ Reboot
<1>1. \A p \in Procs : RunnerStep(p) => MoveStep(p) \/ EndStep(p)
  BY DEF RunnerStep, MoveStep, EndStep
<1> QED
  BY <1>1 DEF Next, DocStep, ProcStep, StartStep, MoveStep, EndStep

(* Reports and permissions are written beside the runs.                     *)
LEMMA DocFrame ==
    ASSUME NEW v \in Variants, DocStep(v)
    PROVE  UNCHANGED <<placeAttempt, placed, route, compute, proc, history>>
  BY DEF DocStep, Select, CollectCheapGate, RunSmoke, AnalyzePlacement, AuditReopen,
     RunnerTooEarly, EditTool, route, machine

(* What a step of a process does not write, and which step writes the rest. *)
LEMMA ProcFrame ==
    ASSUME NEW p \in Procs, ProcStep(p)
    PROVE  /\ UNCHANGED <<dir, decision, cheap, smoke, numeric, reopen, tmpfs, report>>
           /\ permit' = permit \/ AuthorizePhysicalWrites(p) \/ KillProc(p)
           /\ auth' = auth \/ AuthorizeRouteWrites(p) \/ KillProc(p)
           /\ gate' = gate \/ DecideGateWrites(p) \/ KillProc(p)
           /\ placeAttempt' = placeAttempt \/ CreatePlacement(p)
           /\ placed' = placed \/ SealPlacement(p) \/ PlacementFails(p) \/ KillProc(p)
           /\ attempt' = attempt \/ CreateAttempt(p) \/ PollComputePid(p)
           /\ manifest' = manifest \/ SealManifest(p) \/ RunnerFails(p) \/ KillProc(p)
           /\ analysis' = analysis \/ ParseCongestion(p)
           /\ launches' = launches \/ Launch(p)
           /\ placements' = placements \/ LaunchPlacement(p)
           /\ UNCHANGED <<live, ended>> \/ Launch(p) \/ \E pid : Terminate(pid)
           /\ UNCHANGED <<placing, placeEnded>> \/ LaunchPlacement(p) \/ \E pid : Terminate(pid)
           /\ faults' = faults \/ Fault
           /\ orphaned' = orphaned \/ PlacementFails(p) \/ RunnerFails(p) \/ KillProc(p)
<1>1. CASE \E v \in Variants : StartStep(p, v)
  <2>1. UNCHANGED <<documents, route, tmpfs, compute, faults, history>>
    BY <1>1 DEF StartStep, AuthorizePhysicalReads, PlacementChecks, AuthorizeRouteReads,
       RunnerChecks, DecideGateReads
  <2> QED
    BY <2>1 DEF documents, route, compute, history
<1>2. CASE AuthorizePhysicalWrites(p)
  BY <1>2 DEF AuthorizePhysicalWrites, route, compute, history
<1>3. CASE CreatePlacement(p)
  BY <1>3 DEF CreatePlacement, route, compute, history
<1>4. CASE LaunchPlacement(p)
  BY <1>4 DEF LaunchPlacement, documents, route
<1>5. CASE PlacementReturns(p)
  BY <1>5 DEF PlacementReturns, documents, route, compute, history
<1>6. CASE SealPlacement(p)
  BY <1>6 DEF SealPlacement, route, compute, history
<1>7. CASE SignalPlacement(p)
  BY <1>7 DEF SignalPlacement, documents, route, compute
<1>8. CASE PlacementFails(p)
  BY <1>8 DEF PlacementFails, documents, route, compute
<1>9. CASE AuthorizeRouteWrites(p)
  BY <1>9 DEF AuthorizeRouteWrites, route, compute, history
<1>10. CASE DecideGateWrites(p)
  BY <1>10 DEF DecideGateWrites, documents, compute, history
<1>11. CASE CreateAttempt(p)
  BY <1>11 DEF CreateAttempt, documents, compute, history
<1>12. CASE Launch(p)
  BY <1>12 DEF Launch, documents, route
<1>13. CASE PollComputePid(p)
  BY <1>13 DEF PollComputePid, documents, compute, history
<1>14. CASE WaitReturns(p)
  BY <1>14 DEF WaitReturns, documents, route, compute, history
<1>15. CASE ParseCongestion(p)
  BY <1>15 DEF ParseCongestion, documents, compute, history
<1>16. CASE SealManifest(p)
  BY <1>16 DEF SealManifest, documents, compute, history
<1>17. CASE SignalRunner(p)
  BY <1>17 DEF SignalRunner, documents, route
<1>18. CASE RunnerFails(p)
  BY <1>18 DEF RunnerFails, documents
<1>19. CASE KillProc(p)
  BY <1>19 DEF KillProc, compute
<1> QED
  BY <1>1, <1>2, <1>3, <1>4, <1>5, <1>6, <1>7, <1>8, <1>9, <1>10, <1>11, <1>12, <1>13, <1>14,
     <1>15, <1>16, <1>17, <1>18, <1>19 DEF ProcStep, MoveStep, EndStep

(* One entry of a file is written.                                          *)
LEMMA EntryUpdate ==
    ASSUME NEW S, NEW T, NEW f \in [S -> T], NEW s \in S, NEW x \in T
    PROVE  /\ [f EXCEPT ![s] = x] \in [S -> T]
           /\ [f EXCEPT ![s] = x][s] = x
           /\ \A t \in S \ {s} : [f EXCEPT ![s] = x][t] = f[t]
  OBVIOUS

(* What is known of the fields of a process, of a manifest, of a permission.*)
LEMMA ProcShape ==
    \A r \in ProcRecs :
        /\ r.at \in Ats /\ r.v \in Variants \cup {None} /\ r.verdict \in {None, "PASS", "BLOCKED"}
        /\ r.signal \in BOOLEAN /\ r.pid \subseteq Pids
        /\ r.rc \in Codes /\ r.parsed \in BOOLEAN
  BY DEF ProcRecs

LEMMA ManifestShape ==
    \A m \in Manifests :
        /\ m.status \in {"absent", "torn", "PASS", "FAIL"}
        /\ m.class \in {None, "interrupted", "tool_error"}
        /\ m.exit \in {0, 1, 134, 143} /\ m.preserved \in BOOLEAN
        /\ [m EXCEPT !.status = "torn"] \in Manifests
        /\ [m EXCEPT !.status = "torn"].status = "torn"
  BY DEF Manifests

\* What a kill leaves of a permission, of a manifest.
TornOf(m) == [m EXCEPT !.status = "torn"]

LEMMA PermitShape ==
    \A m \in Permits :
        /\ m.status \in Verdicts /\ m.current \in BOOLEAN
        /\ TornOf(m) \in Permits /\ TornOf(m).status = "torn"
        /\ [m EXCEPT !.current = FALSE] \in Permits
        /\ [m EXCEPT !.current = FALSE].status = m.status
  BY DEF Permits, Verdicts, TornOf

(* Documents keep their types.                                              *)
LEMMA DocTypes ==
    ASSUME TypeInv, NEW v \in Variants, DocStep(v)
    PROVE  DocType' /\ MachineType'
<1>1. DocType /\ MachineType /\ v \in All /\ MaxFaults \in Nat
  BY FlowAssumption DEF TypeInv, All
<1>2. UNCHANGED <<placeAttempt, placed, live, placing, proc>>
  BY DocFrame DEF compute
<1>3. CASE Select(v)
  <2>1. UNCHANGED <<cheap, smoke, permit, numeric, reopen, auth, tmpfs>>
        /\ dir' = dir \cup {v}
    BY <1>3 DEF Select
  <2>2. decision' \in [All -> {"absent", "torn", "selected"}]
    BY <1>1, <1>3 DEF Select, DocType
  <2>3. faults' \in 0..MaxFaults
    BY <1>1, <1>3 DEF Select, MachineType
  <2> QED
    BY <1>1, <1>2, <2>1, <2>2, <2>3 DEF DocType, MachineType
<1>4. CASE CollectCheapGate(v)
  <2>1. UNCHANGED <<dir, decision, smoke, numeric, reopen, auth, tmpfs>>
    BY <1>4 DEF CollectCheapGate
  <2>2. cheap' \in [All -> {"absent", "PASS", "FAIL"}]
    BY <1>1, <1>4 DEF CollectCheapGate, DocType
  <2>3. permit' \in [All -> Permits]
    <3>1. \A w \in All : [permit[w] EXCEPT !.current = FALSE] \in Permits /\ permit[w] \in Permits
      BY <1>1, PermitShape DEF DocType
    <3>2. permit' = [w \in All |-> IF w \in DOMAIN Physical /\ Physical[w].cheapOf = v
                                   THEN [permit[w] EXCEPT !.current = FALSE] ELSE permit[w]]
      BY <1>4 DEF CollectCheapGate
    <3> QED
      BY <3>1, <3>2
  <2>4. faults' \in 0..MaxFaults
    BY <1>1, <1>4 DEF CollectCheapGate, MachineType
  <2> QED
    BY <1>1, <1>2, <2>1, <2>2, <2>3, <2>4 DEF DocType, MachineType
<1>5. CASE RunSmoke(v)
  <2>1. UNCHANGED <<dir, decision, cheap, permit, numeric, reopen, auth, faults>>
    BY <1>5 DEF RunSmoke
  <2>2. /\ smoke' \in [All -> {"absent", "PASS", "FAIL"}]
        /\ tmpfs' \subseteq All \X {"rudy", "place", "smoke", "routed"}
    BY <1>1, <1>5 DEF RunSmoke, DocType, MachineType
  <2> QED
    BY <1>1, <1>2, <2>1, <2>2 DEF DocType, MachineType
<1>6. CASE AnalyzePlacement(v)
  <2>1. UNCHANGED <<dir, decision, cheap, smoke, permit, reopen, auth, tmpfs, faults>>
    BY <1>6 DEF AnalyzePlacement, machine
  <2>2. \E x \in {"PASS", "FAIL"} : numeric' = [numeric EXCEPT ![v] = x]
    BY <1>6 DEF AnalyzePlacement
  <2>3. numeric' \in [All -> {"absent", "PASS", "FAIL"}]
    BY <1>1, <2>2 DEF DocType
  <2> QED
    BY <1>1, <1>2, <2>1, <2>3 DEF DocType, MachineType
<1>7. CASE AuditReopen(v)
  <2>1. UNCHANGED <<dir, decision, cheap, smoke, permit, numeric, auth, tmpfs, faults>>
    BY <1>7 DEF AuditReopen, machine
  <2>2. reopen' \in [All -> {"absent", "PASS", "FAIL"}]
    BY <1>1, <1>7 DEF AuditReopen, DocType
  <2> QED
    BY <1>1, <1>2, <2>1, <2>2 DEF DocType, MachineType
<1>8. CASE RunnerTooEarly(v)
  <2>1. UNCHANGED <<decision, cheap, smoke, permit, numeric, reopen, auth, tmpfs>>
        /\ dir' = dir \cup {v} /\ faults' \in 0..MaxFaults
    BY <1>1, <1>8 DEF RunnerTooEarly, MachineType
  <2> QED
    BY <1>1, <1>2, <2>1 DEF DocType, MachineType
<1>9. CASE EditTool(v)
  <2>1. UNCHANGED <<dir, decision, cheap, smoke, permit, numeric, reopen, tmpfs>>
        /\ faults' \in 0..MaxFaults
    BY <1>1, <1>9 DEF EditTool, Fault, MachineType
  <2>2. auth' = [auth EXCEPT ![v] = [auth[v] EXCEPT !.current = FALSE]]
    BY <1>9 DEF EditTool
  <2>3. auth' \in [All -> Permits]
    BY <1>1, <2>2, PermitShape DEF DocType
  <2> QED
    BY <1>1, <1>2, <2>1, <2>3 DEF DocType, MachineType
<1> QED
  BY <1>3, <1>4, <1>5, <1>6, <1>7, <1>8, <1>9 DEF DocStep

-----------------------------------------------------------------------------
(* Processes.                                                               *)

(* The process that steps is the only one whose record changes.             *)
LEMMA ProcUpdate ==
    ASSUME ProcType, NEW p \in Procs, NEW r \in ProcRecs, proc' = [proc EXCEPT ![p] = r], Busy(r)
    PROVE  ProcType' /\ proc'[p] = r /\ \A q \in Procs \ {p} : proc'[q] = proc[q]
<1>1. proc' \in [Procs -> ProcRecs] /\ proc'[p] = r /\ \A q \in Procs \ {p} : proc'[q] = proc[q]
  BY DEF ProcType
<1> QED
  BY <1>1 DEF ProcType

(* Every process steps from a record of its type.                           *)
LEMMA ProcIs ==
    ASSUME TypeInv
    PROVE  \A p \in Procs :
             /\ proc[p] \in ProcRecs /\ Busy(proc[p])
             /\ proc[p].at \in Ats /\ proc[p].signal \in BOOLEAN /\ proc[p].parsed \in BOOLEAN
             /\ proc[p].pid \subseteq Pids /\ proc[p].rc \in Codes
             /\ proc[p].verdict \in {None, "PASS", "BLOCKED"}
             /\ proc[p].at # "idle" => proc[p].v \in Variants /\ proc[p].v \in All
             /\ proc[p].at \in {"permitting", "authorizing", "deciding"} =>
                  proc[p].verdict \in {"PASS", "BLOCKED"}
<1>1. \A p \in Procs : proc[p] \in ProcRecs /\ Busy(proc[p])
  BY DEF TypeInv, ProcType
<1> QED
  BY <1>1, ProcShape DEF Busy, All

(* A process that is idle has the record of one that never ran.             *)
LEMMA IdleShape ==
    /\ Idle \in ProcRecs /\ Busy(Idle)
    /\ Idle.at = "idle" /\ Idle.rc = 0 /\ Idle.parsed = FALSE /\ Idle.signal = FALSE
<1>1. Idle \in ProcRecs /\ Idle.at = "idle"
  BY DEF Idle, ProcRecs, Ats, None, Codes
<1>2. Idle.rc = 0 /\ Idle.parsed = FALSE /\ Idle.signal = FALSE
  BY DEF Idle
<1> QED
  BY <1>1, <1>2 DEF Busy, Running

(* A process that is not idle has left the steps that start a script.       *)
LEMMA StartsIdle ==
    ASSUME NEW p \in Procs, NEW v \in Variants, StartStep(p, v)
    PROVE  proc[p].at = "idle"
  BY DEF StartStep, AuthorizePhysicalReads, PlacementChecks, AuthorizeRouteReads, RunnerChecks,
     DecideGateReads

\* The records of a script that starts: with a verdict, or without one.
Judging(a, v, x) == [Idle EXCEPT !.at = a, !.v = v, !.verdict = x]
Checking(a, v) == [Idle EXCEPT !.at = a, !.v = v]

LEMMA StartedRecords ==
    ASSUME NEW v \in Variants
    PROVE  /\ \A a \in {"permitting", "authorizing", "deciding"}, x \in {"PASS", "BLOCKED"} :
                /\ Judging(a, v, x) \in ProcRecs /\ Busy(Judging(a, v, x))
                /\ Judging(a, v, x).at = a /\ Judging(a, v, x).v = v
                /\ Judging(a, v, x).verdict = x
           /\ \A a \in {"placeChecked", "checked"} :
                /\ Checking(a, v) \in ProcRecs
                /\ Checking(a, v).at = a /\ Checking(a, v).v = v /\ ~ Checking(a, v).signal
                /\ a = "placeChecked" \/ v \in DOMAIN Gate => Busy(Checking(a, v))
<1>1. ASSUME NEW a \in {"permitting", "authorizing", "deciding"}, NEW x \in {"PASS", "BLOCKED"}
      PROVE  /\ Judging(a, v, x) \in ProcRecs /\ Busy(Judging(a, v, x))
             /\ Judging(a, v, x).at = a /\ Judging(a, v, x).v = v
             /\ Judging(a, v, x).verdict = x
  <2>1. /\ Judging(a, v, x) \in ProcRecs
        /\ Judging(a, v, x).at = a /\ Judging(a, v, x).v = v
        /\ Judging(a, v, x).verdict = x /\ x # None
    BY DEF Judging, Idle, ProcRecs, Ats, Started, None, Codes
  <2> QED
    BY <2>1 DEF Busy, Running
<1>2. ASSUME NEW a \in {"placeChecked", "checked"}
      PROVE  /\ Checking(a, v) \in ProcRecs
             /\ Checking(a, v).at = a /\ Checking(a, v).v = v /\ ~ Checking(a, v).signal
             /\ a = "placeChecked" \/ v \in DOMAIN Gate => Busy(Checking(a, v))
  <2>1. Checking(a, v) \in ProcRecs /\ Checking(a, v).at = a /\ Checking(a, v).v = v
    BY DEF Checking, Idle, ProcRecs, Ats, Started, None, Codes
  <2>2. ~ Checking(a, v).signal
    BY DEF Checking, Idle
  <2> QED
    BY <2>1, <2>2 DEF Busy, Running
<1> QED
  BY <1>1, <1>2

(* The steps that start a script.                                           *)
LEMMA Starts ==
    ASSUME TypeInv, NEW p \in Procs, NEW v \in Variants, StartStep(p, v)
    PROVE  /\ ProcType' /\ \A q \in Procs \ {p} : proc'[q] = proc[q]
           /\ proc'[p].v = v
           /\ \/ AuthorizePhysicalReads(p, v) /\ proc'[p].at = "permitting"
              \/ PlacementChecks(p, v) /\ proc'[p].at = "placeChecked" /\ ~ proc'[p].signal
              \/ /\ AuthorizeRouteReads(p, v) /\ proc'[p].at = "authorizing"
                 /\ proc'[p].verdict = IF RouteConditions(v) THEN "PASS" ELSE "BLOCKED"
              \/ RunnerChecks(p, v) /\ proc'[p].at = "checked"
              \/ /\ DecideGateReads(p, v) /\ proc'[p].at = "deciding"
                 /\ proc'[p].verdict = IF GateConditions(v) THEN "PASS" ELSE "BLOCKED"
<1>1. ProcType
  BY DEF TypeInv
<1>2. ASSUME NEW a \in {"permitting", "authorizing", "deciding"}, NEW x \in {"PASS", "BLOCKED"},
             proc' = [proc EXCEPT ![p] = Judging(a, v, x)]
      PROVE  /\ ProcType' /\ \A q \in Procs \ {p} : proc'[q] = proc[q]
             /\ proc'[p].at = a /\ proc'[p].v = v /\ proc'[p].verdict = x
  <2> DEFINE r == Judging(a, v, x)
  <2>1. r \in ProcRecs /\ Busy(r) /\ r.at = a /\ r.v = v /\ r.verdict = x
    BY StartedRecords
  <2>2. proc' = [proc EXCEPT ![p] = r]
    BY <1>2
  <2> HIDE DEF r
  <2>3. ProcType' /\ proc'[p] = r /\ \A q \in Procs \ {p} : proc'[q] = proc[q]
    BY <1>1, <2>1, <2>2, ProcUpdate, Zenon
  <2> QED
    BY <2>1, <2>3
<1>3. ASSUME NEW a \in {"placeChecked", "checked"}, a = "checked" => v \in DOMAIN Gate,
             proc' = [proc EXCEPT ![p] = Checking(a, v)]
      PROVE  /\ ProcType' /\ \A q \in Procs \ {p} : proc'[q] = proc[q]
             /\ proc'[p].at = a /\ proc'[p].v = v /\ ~ proc'[p].signal
  <2> DEFINE r == Checking(a, v)
  <2>1. r \in ProcRecs /\ r.at = a /\ r.v = v /\ ~ r.signal
    BY StartedRecords
  <2>2. Busy(r)
    BY <1>3, StartedRecords
  <2>3. proc' = [proc EXCEPT ![p] = r]
    BY <1>3
  <2> HIDE DEF r
  <2>4. ProcType' /\ proc'[p] = r /\ \A q \in Procs \ {p} : proc'[q] = proc[q]
    BY <1>1, <2>1, <2>2, <2>3, ProcUpdate, Zenon
  <2> QED
    BY <2>1, <2>4
<1>4. /\ AuthorizePhysicalReads(p, v) => proc' = [proc EXCEPT ![p] =
           Judging("permitting", v, IF PhysicalConditions(v) THEN "PASS" ELSE "BLOCKED")]
      /\ AuthorizeRouteReads(p, v) => proc' = [proc EXCEPT ![p] =
           Judging("authorizing", v, IF RouteConditions(v) THEN "PASS" ELSE "BLOCKED")]
      /\ DecideGateReads(p, v) => proc' = [proc EXCEPT ![p] =
           Judging("deciding", v, IF GateConditions(v) THEN "PASS" ELSE "BLOCKED")]
      /\ PlacementChecks(p, v) => proc' = [proc EXCEPT ![p] = Checking("placeChecked", v)]
      /\ RunnerChecks(p, v) =>
           proc' = [proc EXCEPT ![p] = Checking("checked", v)] /\ v \in DOMAIN Gate
  BY DEF AuthorizePhysicalReads, AuthorizeRouteReads, DecideGateReads, PlacementChecks,
     RunnerChecks, Judging, Checking
<1> QED
  BY <1>2, <1>3, <1>4 DEF StartStep

(* The steps after which a process is idle.                                 *)
LEMMA Ends ==
    ASSUME TypeInv, NEW p \in Procs, EndStep(p)
    PROVE  /\ ProcType' /\ \A q \in Procs \ {p} : proc'[q] = proc[q]
           /\ proc'[p] = Idle /\ proc[p].at # "idle"
<1>1. proc[p].at # "idle"
  BY DEF EndStep, AuthorizePhysicalWrites, AuthorizeRouteWrites, DecideGateWrites, CreatePlacement,
     CreateAttempt, SealPlacement, PlacementFails, SealManifest, RunnerFails, KillProc
<1>2. proc' = [proc EXCEPT ![p] = Idle]
  <2>1. CASE CreatePlacement(p) /\ proc[p].v \in placeAttempt
    <3>1. proc' = [proc EXCEPT ![p] = IF proc[p].v \in placeAttempt THEN Idle
                                      ELSE [proc[p] EXCEPT !.at = "placeAttempted"]]
      BY <2>1 DEF CreatePlacement
    <3> QED
      BY <2>1, <3>1
  <2> QED
    BY <2>1 DEF EndStep, AuthorizePhysicalWrites, AuthorizeRouteWrites, DecideGateWrites,
       CreateAttempt, SealPlacement, PlacementFails, SealManifest, RunnerFails, KillProc
<1> QED
  BY <1>1, <1>2, ProcUpdate, IdleShape DEF TypeInv

\* The records a runner moves to.
At(r, a) == [r EXCEPT !.at = a]
PlaceReturned(r, c) == [r EXCEPT !.at = "placeReturned", !.rc = c]
PlaceStopped(r, c) == [r EXCEPT !.signal = TRUE, !.at = "placeReturned", !.rc = c]
Told(r) == [r EXCEPT !.signal = TRUE]
Polled(r, i) == [r EXCEPT !.at = "waiting", !.pid = i]
Returned(r, c) == [r EXCEPT !.at = "returned", !.pid = {}, !.rc = c]
Parsed(r, b) == [r EXCEPT !.at = "parsed", !.parsed = b]
Signalled(r, a, i, c) == [r EXCEPT !.signal = TRUE, !.pid = i, !.at = a, !.rc = c]

(* They are records of a process, of the same variant.                      *)
LEMMA AtRecord ==
    ASSUME NEW r \in ProcRecs, NEW a \in Ats
    PROVE  /\ At(r, a) \in ProcRecs /\ At(r, a).at = a /\ At(r, a).v = r.v
           /\ At(r, a).signal = r.signal /\ At(r, a).rc = r.rc
<1>1. At(r, a) \in ProcRecs /\ At(r, a).at = a /\ At(r, a).v = r.v /\ At(r, a).rc = r.rc
  BY DEF ProcRecs, At
<1>2. At(r, a).signal = r.signal
  BY DEF ProcRecs, At
<1> QED
  BY <1>1, <1>2

LEMMA PlaceReturnedRecord ==
    ASSUME NEW r \in ProcRecs, NEW c \in Codes
    PROVE  /\ PlaceReturned(r, c) \in ProcRecs /\ PlaceReturned(r, c).at = "placeReturned"
           /\ PlaceReturned(r, c).v = r.v /\ PlaceReturned(r, c).signal = r.signal
           /\ PlaceReturned(r, c).rc = c
<1>1. /\ PlaceReturned(r, c) \in ProcRecs /\ PlaceReturned(r, c).at = "placeReturned"
      /\ PlaceReturned(r, c).v = r.v /\ PlaceReturned(r, c).rc = c
  BY DEF ProcRecs, Ats, Placing, PlaceReturned
<1>2. PlaceReturned(r, c).signal = r.signal
  BY DEF ProcRecs, PlaceReturned
<1> QED
  BY <1>1, <1>2

LEMMA PlaceStoppedRecord ==
    ASSUME NEW r \in ProcRecs, NEW c \in Codes
    PROVE  /\ PlaceStopped(r, c) \in ProcRecs /\ PlaceStopped(r, c).at = "placeReturned"
           /\ PlaceStopped(r, c).v = r.v /\ PlaceStopped(r, c).signal = TRUE
           /\ PlaceStopped(r, c).rc = c
<1>1. /\ PlaceStopped(r, c) \in ProcRecs /\ PlaceStopped(r, c).at = "placeReturned"
      /\ PlaceStopped(r, c).v = r.v /\ PlaceStopped(r, c).rc = c
  BY DEF ProcRecs, Ats, Placing, PlaceStopped
<1>2. PlaceStopped(r, c).signal = TRUE
  BY DEF ProcRecs, PlaceStopped
<1> QED
  BY <1>1, <1>2

LEMMA ToldRecord ==
    ASSUME NEW r \in ProcRecs
    PROVE  Told(r) \in ProcRecs /\ Told(r).at = r.at /\ Told(r).v = r.v /\ Told(r).signal = TRUE
  BY DEF ProcRecs, Told

LEMMA PolledRecord ==
    ASSUME NEW r \in ProcRecs, NEW i \in SUBSET Pids
    PROVE  Polled(r, i) \in ProcRecs /\ Polled(r, i).at = "waiting" /\ Polled(r, i).v = r.v
  BY DEF ProcRecs, Ats, Running, Polled

LEMMA ReturnedRecords ==
    ASSUME NEW r \in ProcRecs, NEW c \in Codes
    PROVE  /\ Returned(r, c) \in ProcRecs /\ Returned(r, c).at = "returned"
           /\ Returned(r, c).v = r.v /\ Returned(r, c).rc = c
  BY DEF ProcRecs, Ats, Running, Returned

LEMMA ParsedRecord ==
    ASSUME NEW r \in ProcRecs, NEW b \in BOOLEAN
    PROVE  /\ Parsed(r, b) \in ProcRecs /\ Parsed(r, b).at = "parsed"
           /\ Parsed(r, b).v = r.v /\ Parsed(r, b).rc = r.rc
  BY DEF ProcRecs, Ats, Running, Parsed

LEMMA SignalledRecord ==
    ASSUME NEW r \in ProcRecs, NEW a \in {"launched", "returned", "parsed"},
           NEW i \in SUBSET Pids, NEW c \in Codes
    PROVE  /\ Signalled(r, a, i, c) \in ProcRecs /\ Signalled(r, a, i, c).at = a
           /\ Signalled(r, a, i, c).v = r.v /\ Signalled(r, a, i, c).rc = c
  BY DEF ProcRecs, Ats, Running, Signalled
(* What pgrep sees are processes of the machine.                            *)
LEMMA PidsSeen ==
    ASSUME TypeInv, NEW p \in Procs, proc[p].at # "idle"
    PROVE  RefreshComputePid(p) \in SUBSET Pids
<1>1. live \subseteq Procs \X Variants /\ placing \subseteq Procs \X Variants
  BY DEF TypeInv, MachineType
<1>2. proc[p].v \in Variants /\ proc[p].pid \subseteq Pids
  BY ProcIs
<1>3. Openroads \subseteq Pids
  BY <1>1 DEF Openroads, Pids
<1>4. <<"route", <<p, proc[p].v>>>> \in Pids
  BY <1>2 DEF Pids
<1> QED
  BY <1>2, <1>3, <1>4 DEF RefreshComputePid

\* Process p is one step on in its script.
RunnerMoves(p, to) ==
    /\ ProcType' /\ \A q \in Procs \ {p} : proc'[q] = proc[q]
    /\ proc'[p].at = to /\ proc'[p].v = proc[p].v

\* Where a step of a runner may lead.
Onward(p) ==
    Placing \cup (IF proc[p].at \in Running \cup {"checked"} THEN Running ELSE {})

LEMMA MoveTo ==
    ASSUME TypeInv, NEW p \in Procs, proc[p].at # "idle", NEW r \in ProcRecs,
           proc' = [proc EXCEPT ![p] = r], r.v = proc[p].v, r.at \in Onward(p)
    PROVE  RunnerMoves(p, r.at) /\ proc'[p] = r
<1>1. Busy(proc[p]) /\ proc[p].v \in Variants
  BY ProcIs
<1>2. Busy(r)
  BY <1>1 DEF Busy, Onward, Placing, Running
<1> QED
  BY <1>2, ProcUpdate DEF RunnerMoves, TypeInv

LEMMA PlacementMoves ==
    ASSUME TypeInv, NEW p \in Procs
    PROVE  /\ CreatePlacement(p) /\ proc[p].v \notin placeAttempt =>
                RunnerMoves(p, "placeAttempted") /\ proc'[p].signal = proc[p].signal
           /\ LaunchPlacement(p) =>
                RunnerMoves(p, "placing") /\ proc'[p].signal = proc[p].signal
           /\ PlacementReturns(p) =>
                /\ RunnerMoves(p, "placeReturned") /\ proc'[p].signal = proc[p].signal
                /\ proc'[p].rc = PlacementExit(placeEnded[proc[p].v])
           /\ SignalPlacement(p) =>
                /\ proc'[p].signal
                /\ \/ /\ RunnerMoves(p, "placeReturned")
                      /\ proc'[p].rc = IF proc[p].at = "placing" THEN 143 ELSE proc[p].rc
                   \/ RunnerMoves(p, "placing") /\ proc[p].at = "placing"
<1>1. proc[p] \in ProcRecs /\ proc[p].rc \in Codes
  BY ProcIs
<1>2. ASSUME CreatePlacement(p), proc[p].v \notin placeAttempt
      PROVE  RunnerMoves(p, "placeAttempted") /\ proc'[p].signal = proc[p].signal
  <2>1. proc[p].at = "placeChecked"
    BY <1>2 DEF CreatePlacement
  <2>2. proc' = [proc EXCEPT ![p] = IF proc[p].v \in placeAttempt THEN Idle
                                    ELSE [proc[p] EXCEPT !.at = "placeAttempted"]]
    BY <1>2 DEF CreatePlacement
  <2>3. proc' = [proc EXCEPT ![p] = At(proc[p], "placeAttempted")]
    BY <1>2, <2>2 DEF At
  <2>4. "placeAttempted" \in Ats /\ "placeAttempted" \in Onward(p)
    BY DEF Ats, Placing, Onward
  <2> QED
    <3> DEFINE r == At(proc[p], "placeAttempted")
    <3>1. r \in ProcRecs /\ r.at = "placeAttempted" /\ r.v = proc[p].v /\ r.signal = proc[p].signal
      BY <1>1, <2>1, <2>3, <2>4, AtRecord
    <3>2. proc[p].at # "idle" /\ proc' = [proc EXCEPT ![p] = r] /\ r.at \in Onward(p)
      BY <1>1, <2>1, <2>3, <2>4, <3>1
    <3> HIDE DEF r
    <3>3. RunnerMoves(p, r.at) /\ proc'[p] = r
      BY <3>1, <3>2, MoveTo, Zenon
    <3> QED
      BY <3>1, <3>3
<1>3. ASSUME LaunchPlacement(p)
      PROVE  RunnerMoves(p, "placing") /\ proc'[p].signal = proc[p].signal
  <2>1. proc[p].at = "placeAttempted" /\ proc' = [proc EXCEPT ![p] = At(proc[p], "placing")]
    BY <1>3 DEF LaunchPlacement, At
  <2>2. "placing" \in Ats /\ "placing" \in Onward(p)
    BY DEF Ats, Placing, Onward
  <2> QED
    <3> DEFINE r == At(proc[p], "placing")
    <3>1. r \in ProcRecs /\ r.at = "placing" /\ r.v = proc[p].v /\ r.signal = proc[p].signal
      BY <1>1, <2>1, <2>2, AtRecord
    <3>2. proc[p].at # "idle" /\ proc' = [proc EXCEPT ![p] = r] /\ r.at \in Onward(p)
      BY <1>1, <2>1, <2>2, <3>1
    <3> HIDE DEF r
    <3>3. RunnerMoves(p, r.at) /\ proc'[p] = r
      BY <3>1, <3>2, MoveTo, Zenon
    <3> QED
      BY <3>1, <3>3
<1>4. ASSUME PlacementReturns(p)
      PROVE  /\ RunnerMoves(p, "placeReturned") /\ proc'[p].signal = proc[p].signal
             /\ proc'[p].rc = PlacementExit(placeEnded[proc[p].v])
  <2> DEFINE c == PlacementExit(placeEnded[proc[p].v])
  <2>1. proc[p].at = "placing" /\ proc' = [proc EXCEPT ![p] = PlaceReturned(proc[p], c)]
    BY <1>4 DEF PlacementReturns, PlaceReturned
  <2>2. c \in Codes
    BY DEF PlacementExit, Codes
  <2>3. "placeReturned" \in Onward(p)
    BY DEF Placing, Onward
  <2> HIDE DEF c
  <2>4. /\ RunnerMoves(p, "placeReturned") /\ proc'[p].signal = proc[p].signal
        /\ proc'[p].rc = c
    <3> DEFINE r == PlaceReturned(proc[p], c)
    <3>1. /\ r \in ProcRecs /\ r.at = "placeReturned" /\ r.v = proc[p].v
          /\ r.signal = proc[p].signal /\ r.rc = c
      BY <1>1, <2>1, <2>2, <2>3, PlaceReturnedRecord
    <3>2. proc[p].at # "idle" /\ proc' = [proc EXCEPT ![p] = r] /\ r.at \in Onward(p)
      BY <1>1, <2>1, <2>2, <2>3, <3>1
    <3> HIDE DEF r
    <3>3. RunnerMoves(p, r.at) /\ proc'[p] = r
      BY <3>1, <3>2, MoveTo, Zenon
    <3> QED
      BY <3>1, <3>3
  <2> QED
    BY <2>4 DEF c
<1>5. ASSUME SignalPlacement(p)
      PROVE  /\ proc'[p].signal
             /\ \/ /\ RunnerMoves(p, "placeReturned")
                   /\ proc'[p].rc = IF proc[p].at = "placing" THEN 143 ELSE proc[p].rc
                \/ RunnerMoves(p, "placing") /\ proc[p].at = "placing"
  <2> DEFINE c == IF proc[p].at = "placing" THEN 143 ELSE proc[p].rc
  <2>1. /\ proc[p].at \in {"placing", "placeReturned"}
        /\ \/ proc' = [proc EXCEPT ![p] = PlaceStopped(proc[p], c)]
           \/ proc[p].at = "placing" /\ proc' = [proc EXCEPT ![p] = Told(proc[p])]
    BY <1>5 DEF SignalPlacement, PlaceStopped, Told
  <2>2. c \in Codes
    BY <1>1 DEF Codes
  <2>3. "placeReturned" \in Onward(p) /\ "placing" \in Onward(p)
    BY DEF Placing, Onward
  <2> HIDE DEF c
  <2>4. CASE proc' = [proc EXCEPT ![p] = PlaceStopped(proc[p], c)]
    <3>1. RunnerMoves(p, "placeReturned") /\ proc'[p].rc = c /\ proc'[p].signal
      <4> DEFINE r == PlaceStopped(proc[p], c)
      <4>1. /\ r \in ProcRecs /\ r.at = "placeReturned" /\ r.v = proc[p].v
            /\ r.signal = TRUE /\ r.rc = c
        BY <1>1, <2>1, <2>2, <2>3, <2>4, PlaceStoppedRecord
      <4>2. proc[p].at # "idle" /\ proc' = [proc EXCEPT ![p] = r] /\ r.at \in Onward(p)
        BY <1>1, <2>1, <2>2, <2>3, <2>4, <4>1
      <4> HIDE DEF r
      <4>3. RunnerMoves(p, r.at) /\ proc'[p] = r
        BY <4>1, <4>2, MoveTo, Zenon
      <4> QED
        BY <4>1, <4>3
    <3> QED
      BY <3>1 DEF c
  <2>5. CASE proc[p].at = "placing" /\ proc' = [proc EXCEPT ![p] = Told(proc[p])]
    <3> DEFINE r == Told(proc[p])
    <3>1. r \in ProcRecs /\ r.at = "placing" /\ r.v = proc[p].v /\ r.signal = TRUE
      BY <1>1, <2>3, <2>5, ToldRecord
    <3>2. proc[p].at # "idle" /\ proc' = [proc EXCEPT ![p] = r] /\ r.at \in Onward(p)
      BY <1>1, <2>3, <2>5, <3>1
    <3> HIDE DEF r
    <3>3. RunnerMoves(p, r.at) /\ proc'[p] = r
      BY <3>1, <3>2, MoveTo, Zenon
    <3> QED
      BY <2>5, <3>1, <3>3
  <2> QED
    BY <2>1, <2>4, <2>5
<1> QED
  BY <1>2, <1>3, <1>4, <1>5

LEMMA RouteMoves ==
    ASSUME TypeInv, NEW p \in Procs
    PROVE  /\ CreateAttempt(p) /\ attempt[proc[p].v] = "absent" => RunnerMoves(p, "attempted")
           /\ Launch(p) => RunnerMoves(p, "launched") \/ RunnerMoves(p, "waiting")
           /\ PollComputePid(p) => RunnerMoves(p, "waiting")
           /\ WaitReturns(p) =>
                RunnerMoves(p, "returned") /\ proc'[p].rc = ExitCode(ended[proc[p].v])
           /\ ParseCongestion(p) => RunnerMoves(p, "parsed") /\ proc'[p].rc = proc[p].rc
           /\ SignalRunner(p) =>
                /\ RunnerMoves(p, IF proc[p].at = "waiting" THEN "returned" ELSE proc[p].at)
                /\ proc'[p].rc = IF proc[p].at = "waiting" THEN 143 ELSE proc[p].rc
<1>1. proc[p] \in ProcRecs /\ proc[p].rc \in Codes
  BY ProcIs
<1>2. \A a \in Running : a \in Ats /\ (proc[p].at \in Running \cup {"checked"} => a \in Onward(p))
  BY DEF Ats, Onward
<1>3. ASSUME CreateAttempt(p), attempt[proc[p].v] = "absent"
      PROVE  RunnerMoves(p, "attempted")
  <2>1. proc[p].at = "checked" /\ proc' = [proc EXCEPT ![p] = At(proc[p], "attempted")]
    BY <1>3 DEF CreateAttempt, At
  <2>2. "attempted" \in Running
    BY DEF Running
  <2> QED
    <3> DEFINE r == At(proc[p], "attempted")
    <3>1. r \in ProcRecs /\ r.at = "attempted" /\ r.v = proc[p].v
      BY <1>1, <1>2, <2>1, <2>2, AtRecord
    <3>2. proc[p].at # "idle" /\ proc' = [proc EXCEPT ![p] = r] /\ r.at \in Onward(p)
      BY <1>1, <1>2, <2>1, <2>2, <3>1
    <3> HIDE DEF r
    <3>3. RunnerMoves(p, r.at) /\ proc'[p] = r
      BY <3>1, <3>2, MoveTo, Zenon
    <3> QED
      BY <3>1, <3>3
<1>4. ASSUME Launch(p) PROVE RunnerMoves(p, "launched") \/ RunnerMoves(p, "waiting")
  <2> DEFINE a == IF RouteRun[proc[p].v].pid = "none" THEN "waiting" ELSE "launched"
  <2>1. proc[p].at = "attempted" /\ proc' = [proc EXCEPT ![p] = At(proc[p], a)]
    BY <1>4 DEF Launch, At
  <2>2. a \in Running /\ proc[p].at \in Running /\ (a = "launched" \/ a = "waiting")
    BY <2>1 DEF Running
  <2> HIDE DEF a
  <2>3. RunnerMoves(p, a)
    <3> DEFINE r == At(proc[p], a)
    <3>1. r \in ProcRecs /\ r.at = a /\ r.v = proc[p].v
      BY <1>1, <1>2, <2>1, <2>2, AtRecord
    <3>2. proc[p].at # "idle" /\ proc' = [proc EXCEPT ![p] = r] /\ r.at \in Onward(p)
      BY <1>1, <1>2, <2>1, <2>2, <3>1
    <3> HIDE DEF r
    <3>3. RunnerMoves(p, r.at) /\ proc'[p] = r
      BY <3>1, <3>2, MoveTo, Zenon
    <3> QED
      BY <3>1, <3>3
  <2> QED
    BY <2>2, <2>3
<1>5. ASSUME PollComputePid(p) PROVE RunnerMoves(p, "waiting")
  <2> DEFINE i == RefreshComputePid(p)
  <2>1. proc[p].at = "launched" /\ proc' = [proc EXCEPT ![p] = Polled(proc[p], i)]
    BY <1>5 DEF PollComputePid, Polled
  <2>2. i \in SUBSET Pids
    BY <2>1, PidsSeen
  <2>3. "waiting" \in Running /\ proc[p].at \in Running
    BY <2>1 DEF Running
  <2> HIDE DEF i
  <2> QED
    <3> DEFINE r == Polled(proc[p], i)
    <3>1. r \in ProcRecs /\ r.at = "waiting" /\ r.v = proc[p].v
      BY <1>1, <1>2, <2>1, <2>2, <2>3, PolledRecord
    <3>2. proc[p].at # "idle" /\ proc' = [proc EXCEPT ![p] = r] /\ r.at \in Onward(p)
      BY <1>1, <1>2, <2>1, <2>2, <2>3, <3>1
    <3> HIDE DEF r
    <3>3. RunnerMoves(p, r.at) /\ proc'[p] = r
      BY <3>1, <3>2, MoveTo, Zenon
    <3> QED
      BY <3>1, <3>3
<1>6. ASSUME WaitReturns(p)
      PROVE  RunnerMoves(p, "returned") /\ proc'[p].rc = ExitCode(ended[proc[p].v])
  <2> DEFINE c == ExitCode(ended[proc[p].v])
  <2>1. proc[p].at = "waiting" /\ proc' = [proc EXCEPT ![p] = Returned(proc[p], c)]
    BY <1>6 DEF WaitReturns, Returned
  <2>2. c \in Codes
    BY DEF ExitCode, Codes
  <2>3. "returned" \in Running /\ proc[p].at \in Running
    BY <2>1 DEF Running
  <2> HIDE DEF c
  <2>4. RunnerMoves(p, "returned") /\ proc'[p].rc = c
    <3> DEFINE r == Returned(proc[p], c)
    <3>1. r \in ProcRecs /\ r.at = "returned" /\ r.v = proc[p].v /\ r.rc = c
      BY <1>1, <1>2, <2>1, <2>2, <2>3, ReturnedRecords
    <3>2. proc[p].at # "idle" /\ proc' = [proc EXCEPT ![p] = r] /\ r.at \in Onward(p)
      BY <1>1, <1>2, <2>1, <2>2, <2>3, <3>1
    <3> HIDE DEF r
    <3>3. RunnerMoves(p, r.at) /\ proc'[p] = r
      BY <3>1, <3>2, MoveTo, Zenon
    <3> QED
      BY <3>1, <3>3
  <2> QED
    BY <2>4 DEF c
<1>7. ASSUME ParseCongestion(p) PROVE RunnerMoves(p, "parsed") /\ proc'[p].rc = proc[p].rc
  <2> DEFINE runs == proc[p].rc = 0 /\ <<proc[p].v, "routed">> \in tmpfs
                       /\ analysis[proc[p].v] = NoTotals
  <2>1. proc[p].at = "returned" /\ proc' = [proc EXCEPT ![p] = Parsed(proc[p], runs)]
    BY <1>7 DEF ParseCongestion, Parsed
  <2>2. runs \in BOOLEAN
    OBVIOUS
  <2>3. "parsed" \in Running /\ proc[p].at \in Running
    BY <2>1 DEF Running
  <2> HIDE DEF runs
  <2> QED
    <3> DEFINE r == Parsed(proc[p], runs)
    <3>1. r \in ProcRecs /\ r.at = "parsed" /\ r.v = proc[p].v /\ r.rc = proc[p].rc
      BY <1>1, <1>2, <2>1, <2>2, <2>3, ParsedRecord
    <3>2. proc[p].at # "idle" /\ proc' = [proc EXCEPT ![p] = r] /\ r.at \in Onward(p)
      BY <1>1, <1>2, <2>1, <2>2, <2>3, <3>1
    <3> HIDE DEF r
    <3>3. RunnerMoves(p, r.at) /\ proc'[p] = r
      BY <3>1, <3>2, MoveTo, Zenon
    <3> QED
      BY <3>1, <3>3
<1>8. ASSUME SignalRunner(p)
      PROVE  /\ RunnerMoves(p, IF proc[p].at = "waiting" THEN "returned" ELSE proc[p].at)
             /\ proc'[p].rc = IF proc[p].at = "waiting" THEN 143 ELSE proc[p].rc
  <2> DEFINE i == IF proc[p].at = "waiting" THEN {} ELSE RefreshComputePid(p)
             a == IF proc[p].at = "waiting" THEN "returned" ELSE proc[p].at
             c == IF proc[p].at = "waiting" THEN 143 ELSE proc[p].rc
  <2>1. proc[p].at \in {"launched", "waiting", "returned", "parsed"}
        /\ proc' = [proc EXCEPT ![p] = Signalled(proc[p], a, i, c)]
    BY <1>8 DEF SignalRunner, Signalled
  <2>2. /\ i \in SUBSET Pids /\ c \in Codes
        /\ a \in {"launched", "returned", "parsed"} /\ a \in Running /\ proc[p].at \in Running
    BY <1>1, <2>1, PidsSeen DEF Codes, Running
  <2> HIDE DEF i, a, c
  <2>3. RunnerMoves(p, a) /\ proc'[p].rc = c
    <3> DEFINE r == Signalled(proc[p], a, i, c)
    <3>1. r \in ProcRecs /\ r.at = a /\ r.v = proc[p].v /\ r.rc = c
      BY <1>1, <1>2, <2>1, <2>2, SignalledRecord
    <3>2. proc[p].at # "idle" /\ proc' = [proc EXCEPT ![p] = r] /\ r.at \in Onward(p)
      BY <1>1, <1>2, <2>1, <2>2, <3>1
    <3> HIDE DEF r
    <3>3. RunnerMoves(p, r.at) /\ proc'[p] = r
      BY <3>1, <3>2, MoveTo, Zenon
    <3> QED
      BY <3>1, <3>3
  <2> QED
    BY <2>3 DEF a, c
<1> QED
  BY <1>3, <1>4, <1>5, <1>6, <1>7, <1>8

-----------------------------------------------------------------------------
(* Types.                                                                   *)

(* A fault is counted.                                                      *)
LEMMA FaultCounts ==
    ASSUME TypeInv, Fault
    PROVE  faults' \in 0..MaxFaults
  BY FlowAssumption DEF TypeInv, MachineType, Fault

(* A process that ends OpenROAD ends processes that ran.                    *)
LEMMA TerminateTypes ==
    ASSUME TypeInv, NEW pid, Terminate(pid)
    PROVE  /\ live' \subseteq live /\ placing' \subseteq placing
           /\ live' \subseteq Procs \X Variants /\ placing' \subseteq Procs \X Variants
           /\ ended' \in [All -> RouteEnds] /\ placeEnded' \in [All -> PlaceEnds]
<1>1. /\ live \subseteq Procs \X Variants /\ placing \subseteq Procs \X Variants
      /\ ended \in [All -> RouteEnds] /\ placeEnded \in [All -> PlaceEnds]
  BY DEF TypeInv, MachineType, HistoryType
<1>2. live' \subseteq live /\ placing' \subseteq placing
  BY DEF Terminate
<1>3. \E S : ended' = [w \in All |-> IF \E l \in S : l[2] = w THEN "killed" ELSE ended[w]]
  BY DEF Terminate
<1>4. \E S : placeEnded' =
               [w \in All |-> IF \E l \in S : l[2] = w THEN "killed" ELSE placeEnded[w]]
  BY DEF Terminate
<1>5. ended' \in [All -> RouteEnds]
  BY <1>1, <1>3 DEF RouteEnds
<1>6. placeEnded' \in [All -> PlaceEnds]
  BY <1>1, <1>4 DEF PlaceEnds
<1> QED
  BY <1>1, <1>2, <1>5, <1>6

\* A placement runner goes on, a route runner.
PlacerGoesOn(p) ==
    /\ proc[p].at \in Placing \cup {"placeChecked"} /\ proc'[p].at \in Placing
    /\ proc'[p].at = "placeAttempted" =>
         CreatePlacement(p) /\ proc[p].v \notin placeAttempt
    /\ proc'[p].at # "placeAttempted" /\ proc[p].at = "placeAttempted" => LaunchPlacement(p)
    /\ proc'[p].at # "placeAttempted" => proc[p].at # "placeChecked"

OwnerGoesOn(p) ==
    /\ proc[p].at \in Running \cup {"checked"} /\ proc'[p].at \in Running
    /\ proc'[p].at = "attempted" => CreateAttempt(p) /\ attempt[proc[p].v] = "absent"
    /\ proc'[p].at # "attempted" /\ proc[p].at = "attempted" => Launch(p)
    /\ proc'[p].at # "attempted" => proc[p].at # "checked"

(* What a step of a process makes of it.                                    *)
LEMMA NextRecord ==
    ASSUME TypeInv, NEW p \in Procs, ProcStep(p)
    PROVE  /\ ProcType' /\ \A q \in Procs \ {p} : proc'[q] = proc[q]
           /\ \/ /\ \E v \in Variants : StartStep(p, v) /\ proc'[p].v = v
                 /\ proc[p].at = "idle" /\ proc'[p].at \in Started
              \/ EndStep(p) /\ proc'[p] = Idle /\ proc[p].at # "idle"
              \/ /\ MoveStep(p) /\ proc'[p].v = proc[p].v /\ proc[p].v \in Variants
                 /\ PlacerGoesOn(p) \/ OwnerGoesOn(p)
<1>1. CASE \E v \in Variants : StartStep(p, v)
  BY <1>1, Starts, StartsIdle DEF Started
<1>2. CASE EndStep(p)
  BY <1>2, Ends
<1>3. CASE MoveStep(p)
  <2>1. CASE \/ CreatePlacement(p) /\ proc[p].v \notin placeAttempt
             \/ LaunchPlacement(p) \/ PlacementReturns(p) \/ SignalPlacement(p)
    <3>1. /\ proc[p].at \in Placing \cup {"placeChecked"}
          /\ proc[p].at = "placeChecked" => CreatePlacement(p)
          /\ proc[p].at = "placeAttempted" => LaunchPlacement(p)
      BY <2>1 DEF CreatePlacement, LaunchPlacement, PlacementReturns, SignalPlacement, Placing
    <3>2. proc[p].v \in Variants
      BY <3>1, ProcIs DEF Placing
    <3>3. \E a \in Placing : RunnerMoves(p, a)
      BY <2>1, PlacementMoves DEF Placing
    <3>4. /\ proc'[p].at = "placeAttempted" => CreatePlacement(p) /\ proc[p].v \notin placeAttempt
          /\ CreatePlacement(p) => proc'[p].at = "placeAttempted"
      BY <2>1, PlacementMoves DEF RunnerMoves, LaunchPlacement, CreatePlacement,
         PlacementReturns, SignalPlacement
    <3> QED
      BY <1>3, <3>1, <3>2, <3>3, <3>4 DEF RunnerMoves, PlacerGoesOn
  <2>2. CASE \/ CreateAttempt(p) /\ attempt[proc[p].v] = "absent"
             \/ Launch(p) \/ PollComputePid(p) \/ WaitReturns(p) \/ ParseCongestion(p)
             \/ SignalRunner(p)
    <3>1. /\ proc[p].at \in Running \cup {"checked"}
          /\ proc[p].at = "checked" => CreateAttempt(p)
          /\ proc[p].at = "attempted" => Launch(p)
          /\ SignalRunner(p) => proc[p].at \in Running \ {"attempted"}
      BY <2>2 DEF CreateAttempt, Launch, PollComputePid, WaitReturns, ParseCongestion,
         SignalRunner, Running
    <3>2. proc[p].v \in Variants
      BY <3>1, ProcIs DEF Running
    <3>3. \/ /\ RunnerMoves(p, "attempted") /\ CreateAttempt(p)
             /\ attempt[proc[p].v] = "absent"
          \/ /\ \E a \in Running \ {"attempted"} : RunnerMoves(p, a)
             /\ ~ CreateAttempt(p)
      <4>1. CASE CreateAttempt(p) /\ attempt[proc[p].v] = "absent"
        BY <4>1, RouteMoves
      <4>2. CASE ~ CreateAttempt(p)
        <5>1. \E a \in Running \ {"attempted"} : RunnerMoves(p, a)
          BY <2>2, <3>1, <4>2, RouteMoves DEF Running
        <5> QED
          BY <4>2, <5>1
      <4> QED
        BY <2>2, <4>1, <4>2 DEF CreateAttempt, Launch, PollComputePid, WaitReturns,
           ParseCongestion, SignalRunner
    <3>4. "attempted" \in Running
      BY DEF Running
    <3> QED
      BY <1>3, <3>1, <3>2, <3>3, <3>4 DEF RunnerMoves, OwnerGoesOn
  <2> QED
    BY <1>3, <2>1, <2>2 DEF MoveStep
<1> QED
  BY <1>1, <1>2, <1>3 DEF ProcStep

(* A step of a process keeps the types of the documents,                    *)
LEMMA ProcDocTypes ==
    ASSUME TypeInv, NEW p \in Procs, ProcStep(p)
    PROVE  DocType'
<1>1. DocType /\ (proc[p].at # "idle" => proc[p].v \in All)
  BY ProcIs DEF TypeInv
<1>2. permit' \in [All -> Permits]
  <2>1. CASE AuthorizePhysicalWrites(p)
    <3>1. [status |-> proc[p].verdict, current |-> TRUE] \in Permits /\ proc[p].at # "idle"
      BY <2>1, ProcIs DEF AuthorizePhysicalWrites, Permits, Verdicts
    <3> QED
      BY <1>1, <2>1, <3>1 DEF AuthorizePhysicalWrites, DocType
  <2>2. CASE KillProc(p)
    <3>1. permit' = permit \/ permit' = [permit EXCEPT ![proc[p].v] = TornOf(permit[proc[p].v])]
      BY <2>2 DEF KillProc, TornPermit, TornOf
    <3>2. proc[p].at # "idle"
      BY <2>2 DEF KillProc
    <3>3. permit \in [All -> Permits]
      BY <1>1 DEF DocType
    <3>4. proc[p].v \in All /\ TornOf(permit[proc[p].v]) \in Permits
      BY <1>1, <3>2, <3>3, PermitShape
    <3> QED
      BY <3>1, <3>3, <3>4
  <2> QED
    BY <1>1, <2>1, <2>2, ProcFrame DEF DocType
<1>3. auth' \in [All -> Permits]
  <2>1. CASE AuthorizeRouteWrites(p)
    <3>1. [status |-> proc[p].verdict, current |-> TRUE] \in Permits /\ proc[p].at # "idle"
      BY <2>1, ProcIs DEF AuthorizeRouteWrites, Permits, Verdicts
    <3> QED
      BY <1>1, <2>1, <3>1 DEF AuthorizeRouteWrites, DocType
  <2>2. CASE KillProc(p)
    <3>1. auth' = auth \/ auth' = [auth EXCEPT ![proc[p].v] = TornOf(auth[proc[p].v])]
      BY <2>2 DEF KillProc, TornPermit, TornOf
    <3>2. proc[p].at # "idle"
      BY <2>2 DEF KillProc
    <3>3. auth \in [All -> Permits]
      BY <1>1 DEF DocType
    <3>4. proc[p].v \in All /\ TornOf(auth[proc[p].v]) \in Permits
      BY <1>1, <3>2, <3>3, PermitShape
    <3> QED
      BY <3>1, <3>3, <3>4
  <2> QED
    BY <1>1, <2>1, <2>2, ProcFrame DEF DocType
<1>4. placeAttempt' \subseteq All
  <2>1. CASE CreatePlacement(p)
    BY <1>1, <2>1 DEF CreatePlacement, DocType
  <2> QED
    BY <1>1, <2>1, ProcFrame DEF DocType
<1>5. placed' \in [All -> Outcomes]
  <2>1. CASE SealPlacement(p) \/ PlacementFails(p) \/ KillProc(p)
    <3>1. placed' = placed \/ \E x \in Outcomes : placed' = [placed EXCEPT ![proc[p].v] = x]
      <4>1. CASE SealPlacement(p)
        <5>1. PlacementOutcome(p) \in Outcomes
          BY DEF PlacementOutcome, Outcomes
        <5> QED
          BY <4>1, <5>1 DEF SealPlacement
      <4>2. CASE PlacementFails(p)
        BY <4>2 DEF PlacementFails, Outcomes
      <4>3. CASE KillProc(p)
        BY <4>3 DEF KillProc, Torn, Outcomes
      <4> QED
        BY <2>1, <4>1, <4>2, <4>3
    <3> QED
      BY <1>1, <3>1 DEF DocType
  <2> QED
    BY <1>1, <2>1, ProcFrame DEF DocType
<1> QED
  BY <1>1, <1>2, <1>3, <1>4, <1>5, ProcFrame DEF DocType

(* of what is written of routes,                                            *)
LEMMA ProcRouteTypes ==
    ASSUME TypeInv, NEW p \in Procs, ProcStep(p)
    PROVE  RouteType'
<1>1. RouteType /\ (proc[p].at # "idle" => proc[p].v \in All /\ proc[p].v \in Variants)
  BY ProcIs DEF TypeInv
<1>2. attempt' \in [All -> {"absent", "started", "pid"}]
  <2>1. CASE CreateAttempt(p) \/ PollComputePid(p)
    BY <1>1, <2>1 DEF CreateAttempt, PollComputePid, RouteType
  <2> QED
    BY <1>1, <2>1, ProcFrame DEF RouteType
<1>3. manifest' \in [All -> Manifests]
  <2>1. manifest \in [All -> Manifests]
    BY <1>1 DEF RouteType
  <2>2. CASE SealManifest(p)
    <3>1. proc[p].at = "parsed"
      BY <2>2 DEF SealManifest
    <3>2. proc[p].rc \in Codes /\ RouteRun[proc[p].v].preserved \in BOOLEAN
      BY <3>1, ProcIs, TableFacts DEF Busy, Running
    <3> DEFINE s == IF RunPassed(p) THEN "PASS" ELSE "FAIL"
               c == IF RunPassed(p) THEN None ELSE FailureClass(p)
               m == [status |-> s, class |-> c, exit |-> proc[p].rc,
                     preserved |-> RouteRun[proc[p].v].preserved]
    <3>3. manifest' = manifest \/ manifest' = [manifest EXCEPT ![proc[p].v] = m]
      BY <2>2 DEF SealManifest
    <3>4. s \in {"PASS", "FAIL"} /\ c \in {None, "interrupted", "tool_error"}
      BY DEF FailureClass
    <3> HIDE DEF s, c
    <3>5. m \in Manifests
      BY <3>2, <3>4 DEF Manifests, Codes
    <3> HIDE DEF m
    <3> QED
      BY <2>1, <3>3, <3>5
  <2>3. CASE RunnerFails(p)
    <3> DEFINE c == FailureClass(p)
               m == [status |-> "FAIL", class |-> c, exit |-> 1, preserved |-> FALSE]
    <3>1. manifest' = manifest \/ manifest' = [manifest EXCEPT ![proc[p].v] = m]
      BY <2>3 DEF RunnerFails
    <3>2. c \in {None, "interrupted", "tool_error"}
      BY DEF FailureClass
    <3> HIDE DEF c
    <3>3. m \in Manifests
      BY <3>2 DEF Manifests
    <3> HIDE DEF m
    <3> QED
      BY <2>1, <3>1, <3>3
  <2>4. CASE KillProc(p)
    <3>1. manifest' = manifest \/ manifest' =
            [manifest EXCEPT ![proc[p].v] = [manifest[proc[p].v] EXCEPT !.status = "torn"]]
      BY <2>4 DEF KillProc, TornPermit
    <3>2. proc[p].at # "idle"
      BY <2>4 DEF KillProc
    <3> QED
      BY <1>1, <2>1, <3>1, <3>2, ManifestShape, EntryUpdate
  <2> QED
    BY <2>1, <2>2, <2>3, <2>4, ProcFrame
<1>4. analysis' \in [All -> Totals \cup {NoTotals}]
  <2>1. CASE ParseCongestion(p)
    <3>1. proc[p].v \in All
      BY <1>1, <2>1 DEF ParseCongestion
    <3>2. analysis' = analysis \/ analysis' = [analysis EXCEPT ![proc[p].v] = report[proc[p].v]]
      BY <2>1 DEF ParseCongestion
    <3> QED
      BY <1>1, <3>1, <3>2 DEF RouteType
  <2> QED
    BY <1>1, <2>1, ProcFrame DEF RouteType
<1>5. gate' \in [All -> Verdicts]
  <2>1. CASE DecideGateWrites(p)
    <3>1. proc[p].verdict \in Verdicts
      BY <2>1, ProcIs DEF DecideGateWrites, Verdicts
    <3> QED
      BY <1>1, <2>1, <3>1 DEF DecideGateWrites, RouteType
  <2>2. CASE KillProc(p)
    <3>1. gate' = gate \/ gate' = [gate EXCEPT ![proc[p].v] = "torn"]
      BY <2>2 DEF KillProc, Torn
    <3> QED
      BY <1>1, <3>1 DEF RouteType, Verdicts
  <2> QED
    BY <1>1, <2>1, <2>2, ProcFrame DEF RouteType
<1> QED
  BY <1>1, <1>2, <1>3, <1>4, <1>5, ProcFrame DEF RouteType

(* of the machine and the history.                                          *)
LEMMA ProcMachineTypes ==
    ASSUME TypeInv, NEW p \in Procs, ProcStep(p)
    PROVE  MachineType' /\ HistoryType'
<1>1. /\ MachineType /\ HistoryType
      /\ proc[p].at # "idle" => proc[p].v \in All /\ proc[p].v \in Variants
  BY ProcIs DEF TypeInv
<1>2. faults' \in 0..MaxFaults
  BY <1>1, FaultCounts, ProcFrame DEF MachineType
<1>3. live' \subseteq Procs \X Variants /\ ended' \in [All -> RouteEnds]
  <2>1. CASE Launch(p)
    BY <1>1, <2>1 DEF Launch, MachineType, HistoryType
  <2> QED
    BY <1>1, <2>1, ProcFrame, TerminateTypes DEF MachineType, HistoryType
<1>4. placing' \subseteq Procs \X Variants /\ placeEnded' \in [All -> PlaceEnds]
  <2>1. CASE LaunchPlacement(p)
    BY <1>1, <2>1 DEF LaunchPlacement, MachineType, HistoryType
  <2> QED
    BY <1>1, <2>1, ProcFrame, TerminateTypes DEF MachineType, HistoryType
<1>5. launches' \in [All -> Nat]
  <2>1. CASE Launch(p)
    <3>1. proc[p].v \in All /\ launches' = [launches EXCEPT ![proc[p].v] = launches[proc[p].v] + 1]
      BY <1>1, <2>1 DEF Launch
    <3>2. launches[proc[p].v] + 1 \in Nat
      BY <1>1, <3>1 DEF HistoryType
    <3> QED
      BY <1>1, <3>1, <3>2 DEF HistoryType
  <2> QED
    BY <1>1, <2>1, ProcFrame DEF HistoryType
<1>6. placements' \in [All -> Nat]
  <2>1. CASE LaunchPlacement(p)
    <3>1. proc[p].v \in All
          /\ placements' = [placements EXCEPT ![proc[p].v] = placements[proc[p].v] + 1]
      BY <1>1, <2>1 DEF LaunchPlacement
    <3>2. placements[proc[p].v] + 1 \in Nat
      BY <1>1, <3>1 DEF HistoryType
    <3> QED
      BY <1>1, <3>1, <3>2 DEF HistoryType
  <2> QED
    BY <1>1, <2>1, ProcFrame DEF HistoryType
<1>7. orphaned' \subseteq {"place", "route"} \X Variants
  <2>1. CASE PlacementFails(p) \/ RunnerFails(p) \/ KillProc(p)
    <3>1. proc[p].v \in Variants
      BY <1>1, <2>1 DEF PlacementFails, RunnerFails, KillProc
    <3>2. orphaned' \subseteq orphaned \cup {<<"place", proc[p].v>>, <<"route", proc[p].v>>}
      BY <2>1 DEF PlacementFails, RunnerFails, KillProc, Unsealed
    <3> QED
      BY <1>1, <3>1, <3>2 DEF HistoryType
  <2> QED
    BY <1>1, <2>1, ProcFrame DEF HistoryType
<1> QED
  BY <1>1, <1>2, <1>3, <1>4, <1>5, <1>6, <1>7, ProcFrame DEF MachineType, HistoryType

(* So do the end of an OpenROAD process                                     *)
LEMMA EndTypes ==
    ASSUME TypeInv,
           \/ \E l \in live : OpenroadEnds(l)
           \/ \E l \in placing : PlacementEnds(l)
           \/ \E l \in Openroads : TerminateOpenroad(l)
    PROVE  TypeInv'
<1>1. DocType /\ RouteType /\ MachineType /\ HistoryType /\ ProcType
  BY DEF TypeInv
<1>2. ASSUME NEW l \in live, OpenroadEnds(l) PROVE TypeInv'
  <2>1. UNCHANGED <<documents, attempt, manifest, analysis, gate, placing, proc, faults, launches,
                    placements, placeEnded, orphaned>>
        /\ live' = live \ {l} /\ l[2] \in All
    BY <1>1, <1>2 DEF OpenroadEnds, MachineType, All
  <2>2. \E how \in {"ok", "abort", "error"} : ended' = [ended EXCEPT ![l[2]] = how]
    BY <1>2 DEF OpenroadEnds
  <2>3. ended' \in [All -> RouteEnds]
    BY <1>1, <2>2 DEF HistoryType, RouteEnds
  <2>4. \/ report' = report /\ tmpfs' = tmpfs
        \/ /\ tmpfs' = tmpfs \cup {<<l[2], "routed">>}
           /\ \E t \in Totals : report' = [report EXCEPT ![l[2]] = t]
    BY <1>2 DEF OpenroadEnds
  <2>5. report' \in [All -> Totals \cup {NoTotals}]
    BY <1>1, <2>4 DEF RouteType
  <2>6. tmpfs' \subseteq All \X {"rudy", "place", "smoke", "routed"}
    BY <1>1, <2>1, <2>4 DEF MachineType
  <2> QED
    BY <1>1, <2>1, <2>3, <2>5, <2>6 DEF TypeInv, DocType, RouteType, MachineType, HistoryType,
       ProcType, documents
<1>3. ASSUME NEW l \in placing, PlacementEnds(l) PROVE TypeInv'
  <2>1. UNCHANGED <<documents, route, live, proc, faults, launches, ended, placements, orphaned>>
        /\ placing' = placing \ {l} /\ l[2] \in All
    BY <1>1, <1>3 DEF PlacementEnds, MachineType, All
  <2>2. \E how \in {"ok", "legality", "divergence", "error"} :
          placeEnded' = [placeEnded EXCEPT ![l[2]] = how]
    BY <1>3 DEF PlacementEnds
  <2>3. placeEnded' \in [All -> PlaceEnds]
    BY <1>1, <2>2 DEF HistoryType, PlaceEnds
  <2>4. tmpfs' \subseteq tmpfs \cup {<<l[2], "place">>, <<l[2], "rudy">>}
    BY <1>3 DEF PlacementEnds
  <2>5. tmpfs' \subseteq All \X {"rudy", "place", "smoke", "routed"}
    BY <1>1, <2>1, <2>4 DEF MachineType
  <2> QED
    BY <1>1, <2>1, <2>3, <2>5 DEF TypeInv, DocType, RouteType, MachineType, HistoryType,
       ProcType, documents, route
<1>4. ASSUME NEW l \in Openroads, TerminateOpenroad(l) PROVE TypeInv'
  <2>1. UNCHANGED <<documents, route, tmpfs, proc, faults, launches, placements, orphaned>>
        /\ Terminate({l})
    BY <1>4 DEF TerminateOpenroad
  <2>2. /\ live' \subseteq Procs \X Variants /\ placing' \subseteq Procs \X Variants
        /\ ended' \in [All -> RouteEnds] /\ placeEnded' \in [All -> PlaceEnds]
    BY <2>1, TerminateTypes
  <2> QED
    BY <1>1, <2>1, <2>2 DEF TypeInv, DocType, RouteType, MachineType, HistoryType,
       ProcType, documents, route
<1> QED
  BY <1>2, <1>3, <1>4

(* and a reboot.                                                            *)
LEMMA RebootTypes ==
    ASSUME TypeInv, Reboot
    PROVE  TypeInv' /\ \A p \in Procs : proc'[p] = Idle
<1>1. DocType /\ RouteType /\ MachineType /\ HistoryType
  BY DEF TypeInv
<1>2. UNCHANGED <<documents, route, launches, placements>> /\ tmpfs' = {}
      /\ Terminate(Openroads) /\ Fault /\ proc' = [p \in Procs |-> Idle]
  BY DEF Reboot
<1>3. /\ live' \subseteq Procs \X Variants /\ placing' \subseteq Procs \X Variants
      /\ ended' \in [All -> RouteEnds] /\ placeEnded' \in [All -> PlaceEnds]
  BY <1>2, TerminateTypes
<1>4. orphaned' \subseteq {"place", "route"} \X Variants
  <2>1. \A p \in Procs : proc[p].at # "idle" => proc[p].v \in Variants
    BY ProcIs
  <2>2. \A p \in Procs : Unsealed(p) \subseteq {"place", "route"} \X Variants
    BY <2>1 DEF Unsealed
  <2>3. orphaned' = orphaned \cup UNION {Unsealed(p) : p \in Procs}
    BY DEF Reboot
  <2> QED
    BY <1>1, <2>2, <2>3 DEF HistoryType
<1>5. ProcType' /\ \A p \in Procs : proc'[p] = Idle
  BY <1>2, IdleShape DEF ProcType
<1>6. faults' \in 0..MaxFaults
  BY <1>2, FaultCounts
<1> QED
  BY <1>1, <1>2, <1>3, <1>4, <1>5, <1>6 DEF TypeInv, DocType, RouteType, MachineType, HistoryType,
     documents, route

(* Types are kept.                                                          *)
LEMMA TypeStep ==
    ASSUME TypeInv, Next
    PROVE  TypeInv'
<1>1. ASSUME NEW v \in Variants, DocStep(v) PROVE TypeInv'
  <2>1. UNCHANGED <<route, proc, history>> /\ DocType' /\ MachineType'
    BY <1>1, DocFrame, DocTypes
  <2> QED
    BY <2>1 DEF TypeInv, RouteType, HistoryType, ProcType, route, history
<1>2. ASSUME NEW p \in Procs, ProcStep(p) PROVE TypeInv'
  BY <1>2, NextRecord, ProcDocTypes, ProcRouteTypes, ProcMachineTypes DEF TypeInv
<1> QED
  BY <1>1, <1>2, NextSteps, EndTypes, RebootTypes

-----------------------------------------------------------------------------
(* OwnerInv and PlacerInv.                                                  *)

(* A script that starts has written nothing.                                *)
LEMMA StartFrame ==
    ASSUME NEW p \in Procs, NEW v \in Variants, StartStep(p, v)
    PROVE  UNCHANGED <<documents, route, tmpfs, compute, faults, history>>
  BY DEF StartStep, AuthorizePhysicalReads, PlacementChecks, AuthorizeRouteReads, RunnerChecks,
     DecideGateReads

(* A runner that goes on has written no report yet,                         *)
LEMMA MoveFrame ==
    ASSUME NEW p \in Procs, MoveStep(p)
    PROVE  UNCHANGED <<permit, placed, auth, manifest, gate>>
  BY DEF MoveStep, CreatePlacement, LaunchPlacement, PlacementReturns, SignalPlacement,
     CreateAttempt, Launch, PollComputePid, WaitReturns, ParseCongestion, SignalRunner,
     documents, route

(* and a process that ends has claimed nothing.                             *)
LEMMA EndFrame ==
    ASSUME NEW p \in Procs, EndStep(p)
    PROVE  /\ attempt' = attempt /\ placeAttempt' = placeAttempt
           /\ analysis' = analysis /\ launches' = launches /\ placements' = placements
           /\ live' \subseteq live /\ placing' \subseteq placing
           /\ manifest' = manifest \/ proc[p].at \in Running \ {"attempted"}
           /\ placed' = placed \/ proc[p].at \in {"placing", "placeReturned"}
<1>1. CASE AuthorizePhysicalWrites(p)
  BY <1>1 DEF AuthorizePhysicalWrites, route, compute, history
<1>2. CASE AuthorizeRouteWrites(p)
  BY <1>2 DEF AuthorizeRouteWrites, route, compute, history
<1>3. CASE DecideGateWrites(p)
  BY <1>3 DEF DecideGateWrites, documents, compute, history
<1>4. CASE CreatePlacement(p) /\ proc[p].v \in placeAttempt
  BY <1>4 DEF CreatePlacement, route, compute, history
<1>5. CASE CreateAttempt(p) /\ attempt[proc[p].v] # "absent"
  BY <1>5 DEF CreateAttempt, documents, compute, history
<1>6. CASE SealPlacement(p)
  BY <1>6 DEF SealPlacement, route, compute, history
<1>7. CASE PlacementFails(p)
  BY <1>7 DEF PlacementFails, route, compute
<1>8. CASE SealManifest(p)
  BY <1>8 DEF SealManifest, documents, compute, history, Running
<1>9. CASE RunnerFails(p)
  BY <1>9 DEF RunnerFails, documents, Terminate, Running
<1>10. CASE KillProc(p)
  BY <1>10 DEF KillProc, compute, Running
<1> QED
  BY <1>1, <1>2, <1>3, <1>4, <1>5, <1>6, <1>7, <1>8, <1>9, <1>10 DEF EndStep

(* A process writes only what belongs to its variant, but for the processes *)
(* it ends and the fault that is counted.                                   *)
LEMMA OtherVariants ==
    ASSUME TypeInv, NEW p \in Procs, ProcStep(p), NEW w \in All,
           proc[p].at = "idle" \/ w # proc[p].v
    PROVE  /\ attempt'[w] = attempt[w] /\ manifest'[w] = manifest[w] /\ report'[w] = report[w]
           /\ analysis'[w] = analysis[w] /\ gate'[w] = gate[w] /\ auth'[w] = auth[w]
           /\ launches'[w] = launches[w] /\ placements'[w] = placements[w]
           /\ placed'[w] = placed[w] /\ (w \in placeAttempt' <=> w \in placeAttempt)
<1>1. /\ attempt \in [All -> {"absent", "started", "pid"}] /\ manifest \in [All -> Manifests]
      /\ analysis \in [All -> Totals \cup {NoTotals}] /\ gate \in [All -> Verdicts]
      /\ auth \in [All -> Permits] /\ launches \in [All -> Nat] /\ placements \in [All -> Nat]
      /\ placed \in [All -> Outcomes]
  BY DEF TypeInv, DocType, RouteType, HistoryType
<1>2. /\ attempt' = attempt \/ \E x : attempt' = [attempt EXCEPT ![proc[p].v] = x]
      /\ CreateAttempt(p) \/ PollComputePid(p) => proc[p].at # "idle"
  BY ProcFrame DEF CreateAttempt, PollComputePid
<1>3. /\ manifest' = manifest \/ \E x : manifest' = [manifest EXCEPT ![proc[p].v] = x]
      /\ SealManifest(p) \/ RunnerFails(p) \/ KillProc(p) => proc[p].at # "idle"
  BY ProcFrame DEF SealManifest, RunnerFails, KillProc, TornPermit
<1>4. /\ analysis' = analysis \/ \E x : analysis' = [analysis EXCEPT ![proc[p].v] = x]
      /\ ParseCongestion(p) => proc[p].at # "idle"
  BY ProcFrame DEF ParseCongestion
<1>5. /\ gate' = gate \/ \E x : gate' = [gate EXCEPT ![proc[p].v] = x]
      /\ DecideGateWrites(p) => proc[p].at # "idle"
  BY ProcFrame DEF DecideGateWrites, KillProc, Torn
<1>6. /\ auth' = auth \/ \E x : auth' = [auth EXCEPT ![proc[p].v] = x]
      /\ AuthorizeRouteWrites(p) => proc[p].at # "idle"
  BY ProcFrame DEF AuthorizeRouteWrites, KillProc, TornPermit
<1>7. /\ launches' = launches \/ \E x : launches' = [launches EXCEPT ![proc[p].v] = x]
      /\ Launch(p) => proc[p].at # "idle"
  BY ProcFrame DEF Launch
<1>8. /\ placements' = placements \/ \E x : placements' = [placements EXCEPT ![proc[p].v] = x]
      /\ LaunchPlacement(p) => proc[p].at # "idle"
  BY ProcFrame DEF LaunchPlacement
<1>9. /\ placed' = placed \/ \E x : placed' = [placed EXCEPT ![proc[p].v] = x]
      /\ SealPlacement(p) \/ PlacementFails(p) => proc[p].at # "idle"
  BY ProcFrame DEF SealPlacement, PlacementFails, KillProc, Torn
<1>10. /\ placeAttempt' = placeAttempt \/ placeAttempt' = placeAttempt \cup {proc[p].v}
       /\ CreatePlacement(p) => proc[p].at # "idle"
  BY ProcFrame DEF CreatePlacement
<1>11. report' = report
  BY ProcFrame
<1>12. CASE proc[p].at = "idle"
  BY <1>2, <1>3, <1>4, <1>5, <1>6, <1>7, <1>8, <1>9, <1>10, <1>11, <1>12, ProcFrame
<1>13. CASE w # proc[p].v
  BY <1>1, <1>2, <1>3, <1>4, <1>5, <1>6, <1>7, <1>8, <1>9, <1>10, <1>11, <1>13
<1> QED
  BY <1>12, <1>13

\* What w's route may go through without another claim on it.
OwnerKept(w) ==
    /\ attempt'[w] = "absent" <=> attempt[w] = "absent"
    /\ launches'[w] = launches[w]
    /\ \/ manifest'[w] = manifest[w]
       \/ attempt[w] # "absent" /\ \A q \in Procs : ~ Runs(q, w)'
    /\ report'[w] = report[w] \/ launches[w] = 1
    /\ analysis'[w] = analysis[w] \/ launches[w] = 1 \/ analysis'[w] = report[w]
    /\ \/ ended'[w] = ended[w]
       \/ launches[w] = 1 /\ \A q \in Procs : <<q, w>> \notin live'
    /\ \A q \in Procs : <<q, w>> \in live' => <<q, w>> \in live
    /\ \A q \in Procs : Runs(q, w)' =>
         Runs(q, w) /\ (proc'[q].at = "attempted" => proc[q].at = "attempted")

\* The same of its placement.
PlacerKept(w) ==
    /\ w \in placeAttempt' <=> w \in placeAttempt
    /\ placements'[w] = placements[w]
    /\ \/ placed'[w] = placed[w]
       \/ placements[w] = 1 /\ \A q \in Procs : ~ Places(q, w)'
    /\ \/ placeEnded'[w] = placeEnded[w]
       \/ placements[w] = 1 /\ \A q \in Procs : <<q, w>> \notin placing'
    /\ \A q \in Procs : <<q, w>> \in placing' => <<q, w>> \in placing
    /\ \A q \in Procs : Places(q, w)' =>
         Places(q, w) /\ (proc'[q].at = "placeAttempted" <=> proc[q].at = "placeAttempted")

(* Then its owner keeps it,                                                 *)
LEMMA OwnerStays ==
    ASSUME TypeInv, NEW w \in Variants, OwnerOf(w), OwnerKept(w)
    PROVE  OwnerOf(w)'
<1>1. attempt'[w] = "absent" => launches'[w] = 0 /\ manifest'[w].status = "absent"
  BY DEF OwnerOf, OwnerKept
<1>2. launches'[w] = 0 => ended'[w] = None /\ report'[w] = NoTotals /\ analysis'[w] = NoTotals
  BY DEF OwnerOf, OwnerKept
<1>3. launches'[w] <= 1
  BY DEF OwnerOf, OwnerKept
<1>4. \A q \in Procs : Runs(q, w)' => attempt'[w] # "absent" /\ manifest'[w].status = "absent"
  BY DEF OwnerOf, OwnerKept
<1>5. \A q, r \in Procs : Runs(q, w)' /\ Runs(r, w)' => q = r
  BY DEF OwnerOf, OwnerKept
<1>6. \A q \in Procs : Runs(q, w)' /\ proc'[q].at = "attempted" => launches'[w] = 0
  BY DEF OwnerOf, OwnerKept
<1>7. \A q \in Procs : <<q, w>> \in live' => launches'[w] = 1 /\ ended'[w] = None
  BY DEF OwnerOf, OwnerKept
<1>8. \A q, r \in Procs : <<q, w>> \in live' /\ <<r, w>> \in live' => q = r
  BY DEF OwnerOf, OwnerKept
<1> QED
  BY <1>1, <1>2, <1>3, <1>4, <1>5, <1>6, <1>7, <1>8 DEF OwnerOf

(* and its placer.                                                          *)
LEMMA PlacerStays ==
    ASSUME TypeInv, NEW w \in Variants, PlacerOf(w), PlacerKept(w)
    PROVE  PlacerOf(w)'
<1>1. w \notin placeAttempt' => placements'[w] = 0
  BY DEF PlacerOf, PlacerKept
<1>2. placements'[w] = 0 => placeEnded'[w] = None /\ placed'[w] = "absent"
  BY DEF PlacerOf, PlacerKept
<1>3. placements'[w] <= 1
  BY DEF PlacerOf, PlacerKept
<1>4. \A q \in Procs : Places(q, w)' => w \in placeAttempt' /\ placed'[w] = "absent"
  BY DEF PlacerOf, PlacerKept
<1>5. \A q, r \in Procs : Places(q, w)' /\ Places(r, w)' => q = r
  BY DEF PlacerOf, PlacerKept
<1>6. \A q \in Procs : Places(q, w)' /\ proc'[q].at = "placeAttempted" => placements'[w] = 0
  BY DEF PlacerOf, PlacerKept
<1>7. \A q \in Procs : Places(q, w)' /\ proc'[q].at # "placeAttempted" => placements'[w] = 1
  BY DEF PlacerOf, PlacerKept
<1>8. \A q \in Procs : <<q, w>> \in placing' => placements'[w] = 1 /\ placeEnded'[w] = None
  BY DEF PlacerOf, PlacerKept
<1>9. \A q, r \in Procs : <<q, w>> \in placing' /\ <<r, w>> \in placing' => q = r
  BY DEF PlacerOf, PlacerKept
<1> QED
  BY <1>1, <1>2, <1>3, <1>4, <1>5, <1>6, <1>7, <1>8, <1>9 DEF PlacerOf

(* Processes that are ended are the only ones of their routes or placements.*)
LEMMA TerminateOne ==
    ASSUME TypeInv, NEW w \in Variants, OwnerOf(w), PlacerOf(w), NEW pid, Terminate(pid)
    PROVE  /\ live' \subseteq live /\ placing' \subseteq placing
           /\ \/ ended'[w] = ended[w]
              \/ /\ ended[w] = None /\ launches[w] = 1
                 /\ \A q \in Procs : <<q, w>> \notin live'
           /\ \/ placeEnded'[w] = placeEnded[w]
              \/ /\ placeEnded[w] = None /\ placements[w] = 1
                 /\ \A q \in Procs : <<q, w>> \notin placing'
<1>1. live \subseteq Procs \X Variants /\ placing \subseteq Procs \X Variants /\ w \in All
  BY DEF TypeInv, MachineType, All
<1> DEFINE routes == {l \in live : <<"route", l>> \in pid}
           places == {l \in placing : <<"place", l>> \in pid}
<1>2. /\ live' = live \ routes /\ placing' = placing \ places
      /\ ended' = [x \in All |-> IF \E l \in routes : l[2] = x THEN "killed" ELSE ended[x]]
      /\ placeEnded' =
           [x \in All |-> IF \E l \in places : l[2] = x THEN "killed" ELSE placeEnded[x]]
  BY DEF Terminate
<1>3. routes \subseteq live /\ places \subseteq placing
  OBVIOUS
<1> HIDE DEF routes, places
<1>4. \/ ended'[w] = ended[w]
      \/ /\ ended[w] = None /\ launches[w] = 1
         /\ \A q \in Procs : <<q, w>> \notin live'
  <2>1. ASSUME NEW l \in routes, l[2] = w
        PROVE  /\ ended[w] = None /\ launches[w] = 1
               /\ \A q \in Procs : <<q, w>> \notin live'
    <3>1. l[1] \in Procs /\ l = <<l[1], w>> /\ l \in live
      BY <1>1, <1>3, <2>1
    <3>2. \A q \in Procs : <<q, w>> \in live => q = l[1]
      BY <3>1 DEF OwnerOf
    <3>3. \A q \in Procs : <<q, w>> \notin live'
      BY <1>2, <2>1, <3>1, <3>2
    <3> QED
      BY <3>1, <3>3 DEF OwnerOf
  <2> QED
    BY <1>1, <1>2, <2>1
<1>5. \/ placeEnded'[w] = placeEnded[w]
      \/ /\ placeEnded[w] = None /\ placements[w] = 1
         /\ \A q \in Procs : <<q, w>> \notin placing'
  <2>1. ASSUME NEW l \in places, l[2] = w
        PROVE  /\ placeEnded[w] = None /\ placements[w] = 1
               /\ \A q \in Procs : <<q, w>> \notin placing'
    <3>1. l[1] \in Procs /\ l = <<l[1], w>> /\ l \in placing
      BY <1>1, <1>3, <2>1
    <3>2. \A q \in Procs : <<q, w>> \in placing => q = l[1]
      BY <3>1 DEF PlacerOf
    <3>3. \A q \in Procs : <<q, w>> \notin placing'
      BY <1>2, <2>1, <3>1, <3>2
    <3> QED
      BY <3>1, <3>3 DEF PlacerOf
  <2> QED
    BY <1>1, <1>2, <2>1
<1> QED
  BY <1>2, <1>4, <1>5

(* What a step of a process does to the OpenROAD of another variant.        *)
LEMMA ProcEnds ==
    ASSUME TypeInv, NEW w \in Variants, OwnerOf(w), PlacerOf(w), NEW p \in Procs, ProcStep(p)
    PROVE  /\ \/ ended'[w] = ended[w]
              \/ /\ ended[w] = None /\ launches[w] = 1
                 /\ \A q \in Procs : <<q, w>> \notin live'
           /\ \/ placeEnded'[w] = placeEnded[w]
              \/ /\ placeEnded[w] = None /\ placements[w] = 1
                 /\ \A q \in Procs : <<q, w>> \notin placing'
           /\ \A q \in Procs : <<q, w>> \in live' =>
                <<q, w>> \in live \/ (Launch(p) /\ w = proc[p].v)
           /\ \A q \in Procs : <<q, w>> \in placing' =>
                <<q, w>> \in placing \/ (LaunchPlacement(p) /\ w = proc[p].v)
<1>1. CASE Launch(p)
  BY <1>1 DEF Launch
<1>2. CASE LaunchPlacement(p)
  BY <1>2 DEF LaunchPlacement
<1>3. CASE ~ Launch(p) /\ ~ LaunchPlacement(p)
  BY <1>3, ProcFrame, TerminateOne
<1> QED
  BY <1>1, <1>2, <1>3

(* One owner for every route in the steps of the processes,                 *)
LEMMA OwnerProc ==
    ASSUME TypeInv, NEW p \in Procs, ProcStep(p), NEW w \in Variants, OwnerOf(w), PlacerOf(w)
    PROVE  OwnerOf(w)'
<1>1. w \in All
  BY DEF All
<1>2. \A q \in Procs \ {p} : proc'[q] = proc[q]
  BY NextRecord
<1>3. \A q \in Procs \ {p} : Runs(q, w)' =>
        Runs(q, w) /\ (proc'[q].at = "attempted" => proc[q].at = "attempted")
  BY <1>2 DEF Runs
<1>4. \/ ended'[w] = ended[w]
      \/ launches[w] = 1 /\ \A q \in Procs : <<q, w>> \notin live'
  BY ProcEnds
<1>5. \A q \in Procs : <<q, w>> \in live' => <<q, w>> \in live \/ (Launch(p) /\ w = proc[p].v)
  BY ProcEnds
<1>6. CASE proc[p].at = "idle" \/ w # proc[p].v
  <2>1. ~ Runs(p, w)'
    BY <1>6, NextRecord, IdleShape DEF Runs, Running, Started, PlacerGoesOn, OwnerGoesOn, Placing
  <2>2. \A q \in Procs : <<q, w>> \in live' => <<q, w>> \in live
    BY <1>5, <1>6 DEF Launch
  <2>3. OwnerKept(w)
    BY <1>1, <1>3, <1>4, <1>6, <2>1, <2>2, OtherVariants DEF OwnerKept
  <2> QED
    BY <2>3, OwnerStays
<1>7. CASE EndStep(p) /\ w = proc[p].v
  <2>1. ~ Runs(p, w)'
    BY <1>7, Ends, IdleShape DEF Runs, Running
  <2>2. \/ manifest'[w] = manifest[w]
        \/ attempt[w] # "absent" /\ \A q \in Procs : ~ Runs(q, w)'
    <3>1. CASE proc[p].at \in Running
      <4>1. Runs(p, w)
        BY <1>7, <3>1 DEF Runs
      <4>2. attempt[w] # "absent" /\ \A q \in Procs \ {p} : ~ Runs(q, w)
        BY <4>1 DEF OwnerOf
      <4> QED
        BY <1>3, <2>1, <4>2
    <3>2. CASE proc[p].at \notin Running
      <4>1. manifest' = manifest
        BY <1>7, <3>2, EndFrame
      <4> QED
        BY <4>1
    <3> QED
      BY <3>1, <3>2
  <2>3. OwnerKept(w)
    BY <1>3, <1>4, <1>7, <2>1, <2>2, EndFrame, ProcFrame DEF OwnerKept
  <2> QED
    BY <2>3, OwnerStays
<1>8. CASE MoveStep(p) /\ PlacerGoesOn(p) /\ w = proc[p].v
  <2>1. /\ ~ Runs(p, w)'
        /\ ~ CreateAttempt(p) /\ ~ PollComputePid(p) /\ ~ ParseCongestion(p) /\ ~ Launch(p)
    BY <1>8 DEF Runs, Running, PlacerGoesOn, Placing, CreateAttempt, PollComputePid,
       ParseCongestion, Launch
  <2>2. UNCHANGED <<attempt, analysis, launches, report, manifest>>
    BY <1>8, <2>1, ProcFrame, MoveFrame
  <2>3. \A q \in Procs : <<q, w>> \in live' => <<q, w>> \in live
    BY <1>5, <2>1
  <2>4. OwnerKept(w)
    BY <1>3, <1>4, <2>1, <2>2, <2>3 DEF OwnerKept
  <2> QED
    BY <2>4, OwnerStays
<1>9. CASE MoveStep(p) /\ OwnerGoesOn(p) /\ w = proc[p].v
  <2>1. UNCHANGED <<manifest, report>>
    BY <1>9, MoveFrame, ProcFrame
  <2>2. CASE proc'[p].at = "attempted"
    <3>1. /\ UNCHANGED <<launches, analysis, ended, live>>
          /\ attempt' = [attempt EXCEPT ![w] = "started"] /\ attempt[w] = "absent"
      BY <1>9, <2>2 DEF OwnerGoesOn, CreateAttempt, compute, history
    <3>2. attempt'[w] = "started"
      BY <1>1, <3>1 DEF TypeInv, RouteType
    <3>3. \A q \in Procs : ~ Runs(q, w)
      BY <3>1 DEF OwnerOf
    <3>4. \A q \in Procs : Runs(q, w)' => q = p
      BY <1>3, <3>3
    <3>5. launches[w] = 0 /\ manifest[w].status = "absent"
      BY <3>1 DEF OwnerOf
    <3> QED
      BY <2>1, <3>1, <3>2, <3>4, <3>5 DEF OwnerOf
  <2>3. CASE proc'[p].at # "attempted" /\ proc[p].at = "attempted"
    <3>1. /\ UNCHANGED <<attempt, analysis, ended>> /\ live' = live \cup {<<p, w>>}
          /\ launches' = [launches EXCEPT ![w] = launches[w] + 1]
      BY <1>9, <2>3 DEF OwnerGoesOn, Launch, route
    <3>2. Runs(p, w) /\ launches[w] = 0
      BY <1>9, <2>3 DEF Runs, Running, OwnerOf
    <3>3. launches'[w] = 1
      BY <1>1, <3>1, <3>2 DEF TypeInv, HistoryType
    <3>4. \A q \in Procs : <<q, w>> \notin live
      BY <3>2 DEF OwnerOf
    <3>5. \A q \in Procs : Runs(q, w)' => Runs(q, w) /\ proc'[q].at # "attempted"
      <4>1. \A q \in Procs \ {p} : ~ Runs(q, w)
        BY <3>2 DEF OwnerOf
      <4> QED
        BY <1>3, <2>3, <3>2, <4>1
    <3>6. \A q \in Procs : <<q, w>> \in live' => q = p
      BY <3>1, <3>4
    <3> QED
      BY <2>1, <3>1, <3>3, <3>5, <3>6, <3>2 DEF OwnerOf
  <2>4. CASE proc'[p].at # "attempted" /\ proc[p].at # "attempted"
    <3>1. Runs(p, w) /\ ~ CreateAttempt(p) /\ ~ Launch(p)
      BY <1>9, <2>4 DEF Runs, OwnerGoesOn, CreateAttempt, Launch
    <3>2. attempt[w] # "absent"
      BY <3>1 DEF OwnerOf
    <3>3. attempt'[w] # "absent"
      <4>1. attempt' = attempt \/ attempt' = [attempt EXCEPT ![w] = "pid"]
        BY <1>9, <3>1, ProcFrame DEF PollComputePid
      <4> QED
        BY <1>1, <3>2, <4>1 DEF TypeInv, RouteType
    <3>4. analysis'[w] = analysis[w] \/ analysis'[w] = report[w]
      <4>1. analysis' = analysis \/ analysis' = [analysis EXCEPT ![w] = report[w]]
        BY <1>9, ProcFrame DEF ParseCongestion
      <4> QED
        BY <1>1, <4>1 DEF TypeInv, RouteType
    <3>5. launches' = launches
      BY <3>1, ProcFrame
    <3>6. \A q \in Procs : <<q, w>> \in live' => <<q, w>> \in live
      BY <1>5, <3>1
    <3>7. OwnerKept(w)
      BY <1>3, <1>4, <2>1, <2>4, <3>1, <3>2, <3>3, <3>4, <3>5, <3>6 DEF OwnerKept
    <3> QED
      BY <3>7, OwnerStays
  <2> QED
    BY <2>2, <2>3, <2>4
<1> QED
  BY <1>6, <1>7, <1>8, <1>9, NextRecord

(* one placer for every placement,                                          *)
LEMMA PlacerProc ==
    ASSUME TypeInv, NEW p \in Procs, ProcStep(p), NEW w \in Variants, OwnerOf(w), PlacerOf(w)
    PROVE  PlacerOf(w)'
<1>1. w \in All
  BY DEF All
<1>2. \A q \in Procs \ {p} : proc'[q] = proc[q]
  BY NextRecord
<1>3. \A q \in Procs \ {p} : Places(q, w)' =>
        Places(q, w) /\ (proc'[q].at = "placeAttempted" <=> proc[q].at = "placeAttempted")
  BY <1>2 DEF Places
<1>4. \/ placeEnded'[w] = placeEnded[w]
      \/ placements[w] = 1 /\ \A q \in Procs : <<q, w>> \notin placing'
  BY ProcEnds
<1>5. \A q \in Procs : <<q, w>> \in placing' =>
        <<q, w>> \in placing \/ (LaunchPlacement(p) /\ w = proc[p].v)
  BY ProcEnds
<1>6. CASE proc[p].at = "idle" \/ w # proc[p].v
  <2>1. ~ Places(p, w)'
    BY <1>6, NextRecord, IdleShape DEF Places, Placing, Started, PlacerGoesOn, OwnerGoesOn, Running
  <2>2. \A q \in Procs : <<q, w>> \in placing' => <<q, w>> \in placing
    BY <1>5, <1>6 DEF LaunchPlacement
  <2>3. PlacerKept(w)
    BY <1>1, <1>3, <1>4, <1>6, <2>1, <2>2, OtherVariants DEF PlacerKept
  <2> QED
    BY <2>3, PlacerStays
<1>7. CASE EndStep(p) /\ w = proc[p].v
  <2>1. ~ Places(p, w)'
    BY <1>7, Ends, IdleShape DEF Places, Placing
  <2>2. \/ placed'[w] = placed[w]
        \/ placements[w] = 1 /\ \A q \in Procs : ~ Places(q, w)'
    <3>1. CASE proc[p].at \in {"placing", "placeReturned"}
      <4>1. Places(p, w) /\ proc[p].at # "placeAttempted"
        BY <1>7, <3>1 DEF Places, Placing
      <4>2. placements[w] = 1 /\ \A q \in Procs \ {p} : ~ Places(q, w)
        BY <4>1 DEF PlacerOf
      <4> QED
        BY <1>3, <2>1, <4>2
    <3>2. CASE proc[p].at \notin {"placing", "placeReturned"}
      <4>1. placed' = placed
        BY <1>7, <3>2, EndFrame
      <4> QED
        BY <4>1
    <3> QED
      BY <3>1, <3>2
  <2>3. PlacerKept(w)
    BY <1>3, <1>4, <1>7, <2>1, <2>2, EndFrame DEF PlacerKept
  <2> QED
    BY <2>3, PlacerStays
<1>8. CASE MoveStep(p) /\ OwnerGoesOn(p) /\ w = proc[p].v
  <2>1. ~ Places(p, w)' /\ ~ CreatePlacement(p) /\ ~ LaunchPlacement(p)
    BY <1>8 DEF Places, Running, OwnerGoesOn, Placing, CreatePlacement, LaunchPlacement
  <2>2. UNCHANGED <<placeAttempt, placements, placed>>
    BY <1>8, <2>1, ProcFrame, MoveFrame
  <2>3. \A q \in Procs : <<q, w>> \in placing' => <<q, w>> \in placing
    BY <1>5, <2>1
  <2>4. PlacerKept(w)
    BY <1>3, <1>4, <2>1, <2>2, <2>3 DEF PlacerKept
  <2> QED
    BY <2>4, PlacerStays
<1>9. CASE MoveStep(p) /\ PlacerGoesOn(p) /\ w = proc[p].v
  <2>1. placed' = placed
    BY <1>9, MoveFrame
  <2>2. CASE proc'[p].at = "placeAttempted"
    <3>1. /\ UNCHANGED <<placements, placeEnded, placing>>
          /\ placeAttempt' = placeAttempt \cup {w} /\ w \notin placeAttempt
      BY <1>9, <2>2 DEF PlacerGoesOn, CreatePlacement, compute, history
    <3>2. \A q \in Procs : ~ Places(q, w)
      BY <3>1 DEF PlacerOf
    <3>3. \A q \in Procs : Places(q, w)' => q = p
      BY <1>3, <3>2
    <3>4. placements[w] = 0 /\ placed[w] = "absent"
      BY <3>1 DEF PlacerOf
    <3> QED
      BY <2>1, <2>2, <3>1, <3>3, <3>4 DEF PlacerOf
  <2>3. CASE proc'[p].at # "placeAttempted" /\ proc[p].at = "placeAttempted"
    <3>1. /\ UNCHANGED <<placeAttempt, placeEnded>> /\ placing' = placing \cup {<<p, w>>}
          /\ placements' = [placements EXCEPT ![w] = placements[w] + 1]
      BY <1>9, <2>3 DEF PlacerGoesOn, LaunchPlacement, documents
    <3>2. Places(p, w) /\ placements[w] = 0
      BY <1>9, <2>3 DEF Places, Placing, PlacerOf
    <3>3. placements'[w] = 1
      BY <1>1, <3>1, <3>2 DEF TypeInv, HistoryType
    <3>4. \A q \in Procs : <<q, w>> \notin placing
      BY <3>2 DEF PlacerOf
    <3>5. \A q \in Procs : Places(q, w)' => q = p
      <4>1. \A q \in Procs \ {p} : ~ Places(q, w)
        BY <3>2 DEF PlacerOf
      <4> QED
        BY <1>3, <4>1
    <3>6. \A q \in Procs : <<q, w>> \in placing' => q = p
      BY <3>1, <3>4
    <3>7. w \in placeAttempt /\ placed[w] = "absent" /\ placeEnded[w] = None
      BY <3>2 DEF PlacerOf
    <3> QED
      BY <2>1, <2>3, <3>1, <3>3, <3>5, <3>6, <3>7 DEF PlacerOf
  <2>4. CASE proc'[p].at # "placeAttempted" /\ proc[p].at # "placeAttempted"
    <3>1. Places(p, w) /\ ~ CreatePlacement(p) /\ ~ LaunchPlacement(p)
      BY <1>9, <2>4 DEF Places, PlacerGoesOn, CreatePlacement, LaunchPlacement
    <3>2. UNCHANGED <<placeAttempt, placements>>
      BY <3>1, ProcFrame
    <3>3. \A q \in Procs : <<q, w>> \in placing' => <<q, w>> \in placing
      BY <1>5, <3>1
    <3>4. PlacerKept(w)
      BY <1>3, <1>4, <2>1, <2>4, <3>1, <3>2, <3>3 DEF PlacerKept
    <3> QED
      BY <3>4, PlacerStays
  <2> QED
    BY <2>2, <2>3, <2>4
<1> QED
  BY <1>6, <1>7, <1>8, <1>9, NextRecord

(* The end of OpenROAD is that of one process.                              *)
LEMMA EndsOne ==
    ASSUME TypeInv, NEW w \in Variants, OwnerOf(w), PlacerOf(w),
           \/ \E l \in live : OpenroadEnds(l)
           \/ \E l \in placing : PlacementEnds(l)
           \/ \E l \in Openroads : TerminateOpenroad(l)
           \/ Reboot
    PROVE  /\ live' \subseteq live /\ placing' \subseteq placing
           /\ \/ ended'[w] = ended[w] /\ report'[w] = report[w]
              \/ /\ ended[w] = None /\ launches[w] = 1
                 /\ \A q \in Procs : <<q, w>> \notin live'
           /\ \/ placeEnded'[w] = placeEnded[w]
              \/ /\ placeEnded[w] = None /\ placements[w] = 1
                 /\ \A q \in Procs : <<q, w>> \notin placing'
<1>1. w \in All /\ live \subseteq Procs \X Variants /\ placing \subseteq Procs \X Variants
  BY DEF TypeInv, MachineType, All
<1>2. ASSUME NEW l \in live, OpenroadEnds(l)
      PROVE  /\ live' \subseteq live /\ placing' = placing /\ placeEnded' = placeEnded
             /\ \/ ended'[w] = ended[w] /\ report'[w] = report[w]
                \/ /\ ended[w] = None /\ launches[w] = 1
                   /\ \A q \in Procs : <<q, w>> \notin live'
  <2>1. live' = live \ {l} /\ placing' = placing /\ placeEnded' = placeEnded
        /\ l[1] \in Procs /\ l = <<l[1], l[2]>>
    BY <1>1, <1>2 DEF OpenroadEnds
  <2>2. CASE l[2] = w
    <3>1. <<l[1], w>> \in live
      BY <2>1, <2>2
    <3>2. \A q \in Procs : <<q, w>> \in live => q = l[1]
      BY <2>1, <3>1 DEF OwnerOf
    <3> QED
      BY <2>1, <2>2, <3>1, <3>2 DEF OwnerOf
  <2>3. CASE l[2] # w
    <3>1. /\ \E x : ended' = [ended EXCEPT ![l[2]] = x]
          /\ report' = report \/ \E x : report' = [report EXCEPT ![l[2]] = x]
      BY <1>2 DEF OpenroadEnds
    <3> QED
      BY <1>1, <2>1, <2>3, <3>1 DEF TypeInv, RouteType, HistoryType
  <2> QED
    BY <2>2, <2>3, <2>1
<1>3. ASSUME NEW l \in placing, PlacementEnds(l)
      PROVE  /\ live' = live /\ ended' = ended /\ report' = report /\ placing' \subseteq placing
             /\ \/ placeEnded'[w] = placeEnded[w]
                \/ /\ placeEnded[w] = None /\ placements[w] = 1
                   /\ \A q \in Procs : <<q, w>> \notin placing'
  <2>1. placing' = placing \ {l} /\ live' = live /\ ended' = ended /\ report' = report
        /\ l[1] \in Procs /\ l = <<l[1], l[2]>>
    BY <1>1, <1>3 DEF PlacementEnds, route
  <2>2. CASE l[2] = w
    <3>1. <<l[1], w>> \in placing
      BY <2>1, <2>2
    <3>2. \A q \in Procs : <<q, w>> \in placing => q = l[1]
      BY <2>1, <3>1 DEF PlacerOf
    <3> QED
      BY <2>1, <2>2, <3>1, <3>2 DEF PlacerOf
  <2>3. CASE l[2] # w
    <3>1. \E x : placeEnded' = [placeEnded EXCEPT ![l[2]] = x]
      BY <1>3 DEF PlacementEnds
    <3> QED
      BY <1>1, <2>1, <2>3, <3>1 DEF TypeInv, HistoryType
  <2> QED
    BY <2>2, <2>3, <2>1
<1>4. CASE (\E l \in Openroads : TerminateOpenroad(l)) \/ Reboot
  <2>1. report' = report /\ \E pid : Terminate(pid)
    BY <1>4 DEF TerminateOpenroad, Reboot, route
  <2> QED
    BY <2>1, TerminateOne
<1> QED
  BY <1>2, <1>3, <1>4

(* and one of each in every step.                                           *)
LEMMA RunsStep ==
    ASSUME TypeInv, RunsInv, Next
    PROVE  RunsInv'
<1> SUFFICES ASSUME NEW w \in Variants PROVE OwnerOf(w)' /\ PlacerOf(w)'
  BY DEF RunsInv, OwnerInv, PlacerInv
<1>1. OwnerOf(w) /\ PlacerOf(w)
  BY DEF RunsInv, OwnerInv, PlacerInv
<1>2. ASSUME NEW v \in Variants, DocStep(v) PROVE OwnerOf(w)' /\ PlacerOf(w)'
  <2>1. UNCHANGED <<placeAttempt, placed, route, compute, proc, history>>
    BY <1>2, DocFrame
  <2>2. OwnerKept(w) /\ PlacerKept(w)
    BY <2>1 DEF OwnerKept, PlacerKept, Runs, Places, route, compute, history
  <2> QED
    BY <1>1, <2>2, OwnerStays, PlacerStays
<1>3. CASE \/ \E l \in live : OpenroadEnds(l)
           \/ \E l \in placing : PlacementEnds(l)
           \/ \E l \in Openroads : TerminateOpenroad(l)
           \/ Reboot
  <2>1. UNCHANGED <<documents, attempt, manifest, analysis, gate, launches, placements>>
    BY <1>3 DEF OpenroadEnds, PlacementEnds, TerminateOpenroad, Reboot, route
  <2>2. \A q \in Procs : proc'[q] = proc[q] \/ proc'[q] = Idle
    BY <1>3, RebootTypes DEF OpenroadEnds, PlacementEnds, TerminateOpenroad
  <2>3. \A q \in Procs :
          /\ Runs(q, w)' => Runs(q, w) /\ proc'[q].at = proc[q].at
          /\ Places(q, w)' => Places(q, w) /\ proc'[q].at = proc[q].at
    BY <2>2, IdleShape DEF Runs, Running, Places, Placing
  <2>4. OwnerKept(w) /\ PlacerKept(w)
    BY <1>1, <1>3, <2>1, <2>3, EndsOne, Zenon DEF OwnerKept, PlacerKept, documents
  <2> QED
    BY <1>1, <2>4, OwnerStays, PlacerStays
<1>4. ASSUME NEW p \in Procs, ProcStep(p) PROVE OwnerOf(w)' /\ PlacerOf(w)'
  BY <1>1, <1>4, OwnerProc, PlacerProc
<1> QED
  BY <1>2, <1>3, <1>4, NextSteps

-----------------------------------------------------------------------------
(* Files of a run are written once, and by whom.                            *)

(* What no script does: OpenROAD ends, is ended, or the machine reboots.    *)
EnvStep ==
    \/ \E l \in live : OpenroadEnds(l)
    \/ \E l \in placing : PlacementEnds(l)
    \/ \E l \in Openroads : TerminateOpenroad(l)
    \/ Reboot

LEMMA EnvFrame ==
    ASSUME TypeInv, EnvStep
    PROVE  /\ UNCHANGED <<documents, attempt, manifest, analysis, gate, launches, placements>>
           /\ proc' = proc \/ \A q \in Procs : proc'[q] = Idle
  BY RebootTypes DEF EnvStep, OpenroadEnds, PlacementEnds, TerminateOpenroad, Reboot, route

(* The attempt is not taken back; only a runner that passed its checks      *)
(* takes it.                                                                *)
LEMMA AttemptWrites ==
    ASSUME TypeInv, RunsInv, Next, NEW w \in Variants
    PROVE  /\ attempt[w] # "absent" => attempt'[w] # "absent"
           /\ attempt[w] = "absent" /\ attempt'[w] # "absent" =>
                \E p \in Procs : CreateAttempt(p) /\ proc[p].at = "checked" /\ proc[p].v = w
<1>1. w \in All /\ attempt \in [All -> {"absent", "started", "pid"}] /\ OwnerOf(w)
  BY DEF TypeInv, RouteType, All, RunsInv, OwnerInv
<1>2. ASSUME NEW v \in Variants, DocStep(v) PROVE attempt' = attempt
  BY <1>2, DocFrame DEF route
<1>3. ASSUME EnvStep PROVE attempt' = attempt
  BY <1>3, EnvFrame
<1>4. ASSUME NEW p \in Procs, ProcStep(p)
      PROVE  \/ attempt'[w] = attempt[w]
             \/ attempt[w] # "absent" /\ attempt'[w] = "pid"
             \/ /\ CreateAttempt(p) /\ proc[p].at = "checked" /\ proc[p].v = w
                /\ attempt'[w] = "started"
  <2>1. CASE proc[p].at = "idle" \/ w # proc[p].v
    BY <1>1, <1>4, <2>1, OtherVariants
  <2>2. CASE w = proc[p].v /\ CreateAttempt(p)
    BY <1>1, <2>2 DEF CreateAttempt
  <2>3. CASE w = proc[p].v /\ PollComputePid(p)
    <3>1. Runs(p, w)
      BY <2>3 DEF PollComputePid, Runs, Running
    <3>2. attempt[w] # "absent"
      BY <1>1, <3>1 DEF OwnerOf
    <3>3. attempt' = attempt \/ attempt' = [attempt EXCEPT ![w] = "pid"]
      BY <2>3 DEF PollComputePid
    <3> QED
      BY <1>1, <3>2, <3>3
  <2> QED
    BY <1>4, <2>1, <2>2, <2>3, ProcFrame
<1> QED
  BY <1>2, <1>3, <1>4, NextSteps DEF EnvStep

(* How the route of a variant ended, and its report, do not change again;   *)
(* nor how its placement ended.                                             *)
LEMMA EndedOnce ==
    ASSUME TypeInv, RunsInv, Next, NEW w \in Variants
    PROVE  /\ ended[w] # None => ended'[w] = ended[w] /\ report'[w] = report[w]
           /\ placeEnded[w] # None => placeEnded'[w] = placeEnded[w]
<1>1. OwnerOf(w) /\ PlacerOf(w)
  BY DEF RunsInv, OwnerInv, PlacerInv
<1>2. ASSUME NEW v \in Variants, DocStep(v) PROVE UNCHANGED <<ended, report, placeEnded>>
  BY <1>2, DocFrame DEF route, history
<1>3. CASE EnvStep
  BY <1>1, <1>3, EndsOne DEF EnvStep
<1>4. ASSUME NEW p \in Procs, ProcStep(p)
      PROVE  /\ ended[w] # None => ended'[w] = ended[w]
             /\ placeEnded[w] # None => placeEnded'[w] = placeEnded[w]
             /\ report' = report
  BY <1>1, <1>4, ProcEnds, ProcFrame
<1> QED
  BY <1>2, <1>3, <1>4, NextSteps DEF EnvStep

(* The analysis is written by the runner whose route returned with 0.       *)
LEMMA AnalysisWrites ==
    ASSUME TypeInv, Next, NEW w \in Variants, analysis'[w] # analysis[w]
    PROVE  /\ analysis[w] = NoTotals /\ analysis'[w] = report[w]
           /\ \E p \in Procs : proc[p].at = "returned" /\ proc[p].v = w /\ proc[p].rc = 0
<1>1. w \in All /\ analysis \in [All -> Totals \cup {NoTotals}]
  BY DEF TypeInv, RouteType, All
<1>2. ASSUME NEW v \in Variants, DocStep(v) PROVE FALSE
  BY <1>2, DocFrame DEF route
<1>3. ASSUME EnvStep PROVE FALSE
  BY <1>3, EnvFrame
<1>4. ASSUME NEW p \in Procs, ProcStep(p)
      PROVE  /\ analysis[w] = NoTotals /\ analysis'[w] = report[w]
             /\ proc[p].at = "returned" /\ proc[p].v = w /\ proc[p].rc = 0
  <2>1. w = proc[p].v
    BY <1>1, <1>4, OtherVariants
  <2>2. ParseCongestion(p)
    BY <1>4, ProcFrame
  <2> QED
    BY <1>1, <2>1, <2>2 DEF ParseCongestion
<1> QED
  BY <1>2, <1>3, <1>4, NextSteps DEF EnvStep

(* The manifest is written by the runner, and not over another: PASS only   *)
(* by one that parsed a finished route and was not told to stop, the abort  *)
(* of OpenROAD only by one that saw it; a kill tears it.                    *)
LEMMA ManifestWrites ==
    ASSUME TypeInv, Next, NEW w \in Variants, manifest'[w] # manifest[w]
    PROVE  /\ manifest[w].status = "absent" /\ manifest'[w].status # "absent"
           /\ \E p \in Procs :
                /\ Runs(p, w)
                /\ manifest'[w].status = "PASS" =>
                     /\ proc[p].at = "parsed" /\ proc[p].rc = 0 /\ ~ proc[p].signal
                     /\ manifest'[w].class = None
                /\ manifest'[w].status = "FAIL" /\ manifest'[w].exit = 134 =>
                     proc[p].at = "parsed" /\ proc[p].rc = 134
<1>1. w \in All /\ manifest \in [All -> Manifests]
  BY DEF TypeInv, RouteType, All
<1>2. ASSUME NEW v \in Variants, DocStep(v) PROVE FALSE
  BY <1>2, DocFrame DEF route
<1>3. ASSUME EnvStep PROVE FALSE
  BY <1>3, EnvFrame
<1>4. ASSUME NEW p \in Procs, ProcStep(p)
      PROVE  /\ manifest[w].status = "absent" /\ manifest'[w].status # "absent"
             /\ Runs(p, w)
             /\ manifest'[w].status = "PASS" =>
                  /\ proc[p].at = "parsed" /\ proc[p].rc = 0 /\ ~ proc[p].signal
                  /\ manifest'[w].class = None
             /\ manifest'[w].status = "FAIL" /\ manifest'[w].exit = 134 =>
                  proc[p].at = "parsed" /\ proc[p].rc = 134
  <2>1. w = proc[p].v
    BY <1>1, <1>4, OtherVariants
  <2>2. SealManifest(p) \/ RunnerFails(p) \/ KillProc(p)
    BY <1>4, ProcFrame
  <2>3. CASE SealManifest(p)
    <3>1. /\ proc[p].at = "parsed" /\ manifest[w].status = "absent"
          /\ manifest' = [manifest EXCEPT ![w] =
               [status |-> IF RunPassed(p) THEN "PASS" ELSE "FAIL",
                class |-> IF RunPassed(p) THEN None ELSE FailureClass(p),
                exit |-> proc[p].rc, preserved |-> RouteRun[w].preserved]]
      BY <2>1, <2>3 DEF SealManifest
    <3>2. /\ manifest'[w].status = IF RunPassed(p) THEN "PASS" ELSE "FAIL"
          /\ manifest'[w].class = IF RunPassed(p) THEN None ELSE FailureClass(p)
          /\ manifest'[w].exit = proc[p].rc
      BY <1>1, <3>1
    <3> QED
      BY <2>1, <3>1, <3>2 DEF RunPassed, Runs, Running
  <2>4. CASE RunnerFails(p)
    <3>1. /\ proc[p].at \in {"launched", "returned", "parsed"} /\ manifest[w].status = "absent"
          /\ manifest' = [manifest EXCEPT ![w] =
               [status |-> "FAIL", class |-> FailureClass(p), exit |-> 1, preserved |-> FALSE]]
      BY <2>1, <2>4 DEF RunnerFails
    <3>2. manifest'[w].status = "FAIL" /\ manifest'[w].exit = 1
      BY <1>1, <3>1
    <3> QED
      BY <2>1, <3>1, <3>2 DEF Runs, Running
  <2>5. CASE KillProc(p)
    <3>1. /\ proc[p].at = "parsed" /\ manifest[w].status = "absent"
          /\ manifest' = [manifest EXCEPT ![w] = [manifest[w] EXCEPT !.status = "torn"]]
      BY <2>1, <2>5 DEF KillProc, TornPermit
    <3>2. manifest'[w].status = "torn"
      BY <1>1, <3>1, ManifestShape, EntryUpdate
    <3> QED
      BY <2>1, <3>1, <3>2 DEF Runs, Running
  <2> QED
    BY <2>2, <2>3, <2>4, <2>5
<1> QED
  BY <1>2, <1>3, <1>4, NextSteps DEF EnvStep

(* A placement has one report,                                              *)
LEMMA PlacedOnce ==
    ASSUME TypeInv, Next, NEW w \in All, placed[w] # "absent"
    PROVE  placed'[w] = placed[w]
<1>1. placed \in [All -> Outcomes]
  BY DEF TypeInv, DocType
<1>2. ASSUME NEW v \in Variants, DocStep(v) PROVE placed' = placed
  BY <1>2, DocFrame
<1>3. ASSUME EnvStep PROVE placed' = placed
  BY <1>3, EnvFrame DEF documents
<1>4. ASSUME NEW p \in Procs, ProcStep(p) PROVE placed'[w] = placed[w]
  <2>1. CASE SealPlacement(p)
    BY <1>1, <2>1 DEF SealPlacement
  <2>2. CASE PlacementFails(p)
    BY <1>1, <2>2 DEF PlacementFails
  <2>3. CASE KillProc(p)
    BY <1>1, <2>3 DEF KillProc, Torn
  <2> QED
    BY <1>4, <2>1, <2>2, <2>3, ProcFrame
<1> QED
  BY <1>2, <1>3, <1>4, NextSteps DEF EnvStep

(* written by its runner of how OpenROAD ended: PASS only by one that saw 0 *)
(* and was not told to stop.                                                *)
LEMMA PlacedWrites ==
    ASSUME TypeInv, Next, NEW w \in Variants, placed'[w] # placed[w]
    PROVE  \E p \in Procs :
             /\ Places(p, w)
             /\ placed'[w] = "PASS" =>
                  proc[p].at = "placeReturned" /\ proc[p].rc = 0 /\ ~ proc[p].signal
             /\ placed'[w] \in {"legality", "divergence"} => placeEnded[w] = placed'[w]
             /\ placed'[w] = "interrupted" /\ PlacementRun[w].pid = "none" =>
                  proc[p].at = "placeReturned" /\ (proc[p].signal \/ proc[p].rc = 143)
<1>1. w \in All /\ placed \in [All -> Outcomes]
  BY DEF TypeInv, DocType, All
<1>2. ASSUME NEW v \in Variants, DocStep(v) PROVE FALSE
  BY <1>2, DocFrame
<1>3. ASSUME EnvStep PROVE FALSE
  BY <1>3, EnvFrame DEF documents
<1>4. ASSUME NEW p \in Procs, ProcStep(p)
      PROVE  /\ Places(p, w)
             /\ placed'[w] = "PASS" =>
                  proc[p].at = "placeReturned" /\ proc[p].rc = 0 /\ ~ proc[p].signal
             /\ placed'[w] \in {"legality", "divergence"} => placeEnded[w] = placed'[w]
             /\ placed'[w] = "interrupted" /\ PlacementRun[w].pid = "none" =>
                  proc[p].at = "placeReturned" /\ (proc[p].signal \/ proc[p].rc = 143)
  <2>1. w = proc[p].v
    BY <1>1, <1>4, OtherVariants
  <2>2. CASE SealPlacement(p)
    <3>1. /\ proc[p].at = "placeReturned"
          /\ placed' = [placed EXCEPT ![w] = PlacementOutcome(p)]
      BY <2>1, <2>2 DEF SealPlacement
    <3>2. placed'[w] = PlacementOutcome(p)
      BY <1>1, <3>1
    <3>3. /\ PlacementOutcome(p) = "PASS" => proc[p].rc = 0 /\ ~ proc[p].signal
          /\ PlacementOutcome(p) \in {"legality", "divergence"} =>
               placeEnded[w] = PlacementOutcome(p)
          /\ PlacementOutcome(p) = "interrupted" => proc[p].signal \/ proc[p].rc = 143
      BY <2>1 DEF PlacementOutcome
    <3> QED
      BY <2>1, <3>1, <3>2, <3>3 DEF Places, Placing
  <2>3. CASE PlacementFails(p)
    <3>1. /\ proc[p].at \in {"placing", "placeReturned"} /\ PlacementRun[w].pid # "none"
          /\ \E x \in {"interrupted", "error"} : placed' = [placed EXCEPT ![w] = x]
      BY <2>1, <2>3 DEF PlacementFails
    <3> QED
      BY <1>1, <2>1, <3>1 DEF Places, Placing
  <2>4. CASE KillProc(p)
    <3>1. proc[p].at = "placeReturned" /\ placed' = [placed EXCEPT ![w] = "torn"]
      BY <2>1, <2>4 DEF KillProc, Torn
    <3> QED
      BY <1>1, <2>1, <3>1 DEF Places, Placing
  <2> QED
    BY <1>4, <2>2, <2>3, <2>4, ProcFrame
<1> QED
  BY <1>2, <1>3, <1>4, NextSteps DEF EnvStep

-----------------------------------------------------------------------------
(* RunInv, PlacedInv and PlaceInv.                                          *)

(* Whose record changes.                                                    *)
LEMMA RecordChanges ==
    ASSUME TypeInv, Next
    PROVE  \A p \in Procs : proc'[p] = proc[p] \/ proc'[p] = Idle \/ ProcStep(p)
<1> SUFFICES ASSUME NEW p \in Procs PROVE proc'[p] = proc[p] \/ proc'[p] = Idle \/ ProcStep(p)
  OBVIOUS
<1>1. ASSUME NEW v \in Variants, DocStep(v) PROVE proc' = proc
  BY <1>1, DocFrame
<1>2. ASSUME EnvStep PROVE proc'[p] = proc[p] \/ proc'[p] = Idle
  BY <1>2, EnvFrame
<1>3. ASSUME NEW q \in Procs, ProcStep(q) PROVE proc'[p] = proc[p] \/ q = p
  BY <1>3, NextRecord
<1> QED
  BY <1>1, <1>2, <1>3, NextSteps DEF EnvStep

(* A process that has just started a script, or is as it was.               *)
LEMMA StartedRecord ==
    ASSUME TypeInv, Next, NEW p \in Procs, proc'[p].at \in Started
    PROVE  \/ proc'[p] = proc[p]
           \/ /\ proc'[p].v \in Variants
              /\ \/ AuthorizePhysicalReads(p, proc'[p].v) /\ proc'[p].at = "permitting"
                 \/ /\ PlacementChecks(p, proc'[p].v) /\ proc'[p].at = "placeChecked"
                    /\ ~ proc'[p].signal
                 \/ /\ AuthorizeRouteReads(p, proc'[p].v) /\ proc'[p].at = "authorizing"
                    /\ proc'[p].verdict = IF RouteConditions(proc'[p].v) THEN "PASS" ELSE "BLOCKED"
                 \/ RunnerChecks(p, proc'[p].v) /\ proc'[p].at = "checked"
                 \/ /\ DecideGateReads(p, proc'[p].v) /\ proc'[p].at = "deciding"
                    /\ proc'[p].verdict = IF GateConditions(proc'[p].v) THEN "PASS" ELSE "BLOCKED"
<1>1. CASE proc'[p] = Idle
  BY <1>1, IdleShape DEF Started
<1>2. CASE ProcStep(p)
  <2>1. PICK v \in Variants : StartStep(p, v)
    BY <1>2, NextRecord, IdleShape DEF PlacerGoesOn, OwnerGoesOn, Started, Placing, Running
  <2> QED
    BY <2>1, Starts, Zenon
<1> QED
  BY <1>1, <1>2, RecordChanges

(* A route runner that returned has the exit code of its route, or that of  *)
(* the signal that interrupted its wait.                                    *)
LEMMA ReturnedRecord ==
    ASSUME TypeInv, Next, NEW p \in Procs, proc'[p].at \in {"returned", "parsed"}
    PROVE  /\ proc'[p].v = proc[p].v
           /\ \/ proc[p].at \in {"returned", "parsed"} /\ proc'[p].rc = proc[p].rc
              \/ proc'[p].rc = 143
              \/ proc'[p].rc = ExitCode(ended[proc[p].v])
<1>1. CASE proc'[p] = Idle
  BY <1>1, IdleShape
<1>2. CASE ProcStep(p)
  <2>1. MoveStep(p) /\ OwnerGoesOn(p) /\ proc'[p].v = proc[p].v
    BY <1>2, NextRecord, IdleShape DEF Started, PlacerGoesOn, Placing
  <2>2. WaitReturns(p) \/ ParseCongestion(p) \/ SignalRunner(p)
    <3>1. /\ CreateAttempt(p) /\ attempt[proc[p].v] = "absent" => proc'[p].at = "attempted"
          /\ Launch(p) => proc'[p].at \in {"launched", "waiting"}
          /\ PollComputePid(p) => proc'[p].at = "waiting"
      BY RouteMoves DEF RunnerMoves
    <3>2. ~ CreatePlacement(p) /\ ~ LaunchPlacement(p) /\ ~ PlacementReturns(p)
          /\ ~ SignalPlacement(p)
      BY <2>1 DEF OwnerGoesOn, Running, CreatePlacement, LaunchPlacement, PlacementReturns,
         SignalPlacement
    <3> QED
      BY <2>1, <3>1, <3>2 DEF MoveStep
  <2>3. /\ ParseCongestion(p) => proc[p].at = "returned"
        /\ SignalRunner(p) => proc[p].at \in {"launched", "waiting", "returned", "parsed"}
    BY DEF ParseCongestion, SignalRunner
  <2>4. SignalRunner(p) => proc[p].at # "launched"
    BY <2>3, RouteMoves DEF RunnerMoves
  <2> QED
    BY <2>1, <2>2, <2>3, <2>4, RouteMoves
<1> QED
  BY <1>1, <1>2, RecordChanges

(* A placement runner that returned likewise; one without traps was never   *)
(* told to stop.                                                            *)
LEMMA PlacingRecord ==
    ASSUME TypeInv, Next, NEW p \in Procs, proc'[p].at \in Placing
    PROVE  /\ proc'[p].v = proc[p].v
           /\ proc[p].at \in Placing \cup {"placeChecked"}
           /\ \/ proc'[p].signal = proc[p].signal
              \/ proc'[p].signal /\ PlacementRun[proc[p].v].pid # "none"
           /\ proc'[p].at = "placeReturned" =>
                \/ proc[p].at = "placeReturned" /\ proc'[p].rc = proc[p].rc
                \/ proc'[p].rc = 143 /\ PlacementRun[proc[p].v].pid # "none"
                \/ proc'[p].rc = PlacementExit(placeEnded[proc[p].v])
<1>1. CASE proc'[p] = proc[p]
  BY <1>1
<1>2. CASE proc'[p] = Idle
  BY <1>2, IdleShape DEF Placing
<1>3. CASE ProcStep(p)
  <2>1. MoveStep(p) /\ PlacerGoesOn(p) /\ proc'[p].v = proc[p].v
    BY <1>3, NextRecord, IdleShape DEF Started, OwnerGoesOn, Placing, Running
  <2>2. \/ CreatePlacement(p) /\ proc[p].v \notin placeAttempt
        \/ LaunchPlacement(p) \/ PlacementReturns(p) \/ SignalPlacement(p)
    BY <2>1 DEF MoveStep, PlacerGoesOn, Placing, CreateAttempt, Launch, PollComputePid,
       WaitReturns, ParseCongestion, SignalRunner
  <2>3. proc[p].at \in Placing \cup {"placeChecked"}
    BY <2>1 DEF PlacerGoesOn
  <2>4. CASE (CreatePlacement(p) /\ proc[p].v \notin placeAttempt) \/ LaunchPlacement(p)
    BY <2>1, <2>3, <2>4, PlacementMoves DEF RunnerMoves
  <2>5. CASE PlacementReturns(p)
    BY <2>1, <2>3, <2>5, PlacementMoves
  <2>6. CASE SignalPlacement(p)
    <3>1. PlacementRun[proc[p].v].pid # "none" /\ proc[p].at \in {"placing", "placeReturned"}
      BY <2>6 DEF SignalPlacement
    <3>2. /\ proc'[p].signal
          /\ proc'[p].at = "placeReturned" =>
               proc'[p].rc = IF proc[p].at = "placing" THEN 143 ELSE proc[p].rc
      BY <2>6, PlacementMoves DEF RunnerMoves
    <3> QED
      BY <2>1, <2>3, <3>1, <3>2
  <2> QED
    BY <2>2, <2>4, <2>5, <2>6
<1> QED
  BY <1>1, <1>2, <1>3, RecordChanges

(* What is written of a route stays of the one OpenROAD process.            *)
LEMMA RunStep ==
    ASSUME TypeInv, RunsInv, RunInv, Next
    PROVE  RunInv'
<1> SUFFICES ASSUME NEW w \in Variants PROVE RunOf(w)'
  BY DEF RunInv
<1>1. RunOf(w) /\ None # "ok" /\ None # "abort"
  BY DEF RunInv, None
<1>2. ended[w] # None => ended'[w] = ended[w] /\ report'[w] = report[w]
  BY EndedOnce
<1>3. ASSUME NEW p \in Procs, proc'[p].at \in {"returned", "parsed"}, proc'[p].v = w
      PROVE  /\ proc'[p].rc = 0 => ended'[w] = "ok"
             /\ proc'[p].rc = 134 => ended'[w] = "abort"
  <2>1. proc[p].v = w
        /\ \/ proc[p].at \in {"returned", "parsed"} /\ proc'[p].rc = proc[p].rc
           \/ proc'[p].rc = 143
           \/ proc'[p].rc = ExitCode(ended[w])
    BY <1>3, ReturnedRecord
  <2>2. /\ ExitCode(ended[w]) = 0 => ended[w] = "ok"
        /\ ExitCode(ended[w]) = 134 => ended[w] = "abort"
    BY DEF ExitCode
  <2> QED
    BY <1>1, <1>2, <2>1, <2>2 DEF RunOf
<1>4. analysis'[w] # NoTotals => ended'[w] = "ok" /\ analysis'[w] = report'[w]
  <2>1. CASE analysis'[w] = analysis[w]
    BY <1>1, <1>2, <2>1 DEF RunOf
  <2>2. CASE analysis'[w] # analysis[w]
    <3>1. ended[w] = "ok" /\ analysis'[w] = report[w]
      BY <1>1, <2>2, AnalysisWrites DEF RunOf
    <3> QED
      BY <1>1, <1>2, <3>1
  <2> QED
    BY <2>1, <2>2
<1>5. /\ manifest'[w].status = "PASS" => ended'[w] = "ok" /\ manifest'[w].class = None
      /\ manifest'[w].status = "FAIL" /\ manifest'[w].exit = 134 => ended'[w] = "abort"
  <2>1. CASE manifest'[w] = manifest[w]
    BY <1>1, <1>2, <2>1 DEF RunOf
  <2>2. CASE manifest'[w] # manifest[w]
    <3>1. PICK p \in Procs :
            /\ Runs(p, w)
            /\ manifest'[w].status = "PASS" =>
                 /\ proc[p].at = "parsed" /\ proc[p].rc = 0 /\ ~ proc[p].signal
                 /\ manifest'[w].class = None
            /\ manifest'[w].status = "FAIL" /\ manifest'[w].exit = 134 =>
                 proc[p].at = "parsed" /\ proc[p].rc = 134
      BY <2>2, ManifestWrites
    <3>2. /\ manifest'[w].status = "PASS" => ended[w] = "ok" /\ manifest'[w].class = None
          /\ manifest'[w].status = "FAIL" /\ manifest'[w].exit = 134 => ended[w] = "abort"
      BY <1>1, <3>1 DEF RunOf, Runs
    <3> QED
      BY <1>1, <1>2, <3>2
  <2> QED
    BY <2>1, <2>2
<1> QED
  BY <1>3, <1>4, <1>5 DEF RunOf

(* The report of a placement stays of the one OpenROAD process.             *)
LEMMA PlacedStep ==
    ASSUME TypeInv, RunsInv, PlacedInv, Next
    PROVE  PlacedInv'
<1> SUFFICES ASSUME NEW w \in Variants PROVE PlacedOf(w)'
  BY DEF PlacedInv
<1>1. /\ PlacedOf(w) /\ None \notin {"ok", "killed", "legality", "divergence"}
      /\ PlacerOf(w)
  BY DEF PlacedInv, None, RunsInv, PlacerInv
<1>2. placeEnded[w] # None => placeEnded'[w] = placeEnded[w]
  BY EndedOnce
<1>3. ASSUME NEW p \in Procs, proc'[p].at = "placeReturned", proc'[p].v = w
      PROVE  /\ proc'[p].rc = 0 => placeEnded'[w] = "ok"
             /\ proc'[p].rc = 143 /\ PlacementRun[w].pid = "none" => placeEnded'[w] = "killed"
  <2>1. /\ proc[p].v = w
        /\ \/ proc[p].at = "placeReturned" /\ proc'[p].rc = proc[p].rc
           \/ proc'[p].rc = 143 /\ PlacementRun[w].pid # "none"
           \/ proc'[p].rc = PlacementExit(placeEnded[w])
    BY <1>3, PlacingRecord DEF Placing
  <2>2. /\ PlacementExit(placeEnded[w]) = 0 => placeEnded[w] = "ok"
        /\ PlacementExit(placeEnded[w]) = 143 => placeEnded[w] = "killed"
    BY DEF PlacementExit
  <2> QED
    BY <1>1, <1>2, <2>1, <2>2 DEF PlacedOf
<1>4. ASSUME NEW p \in Procs, proc'[p].at \in Placing \cup {"placeChecked"}, proc'[p].v = w,
             proc'[p].signal
      PROVE  PlacementRun[w].pid # "none"
  <2>1. CASE proc'[p] = proc[p]
    BY <1>1, <1>4, <2>1 DEF PlacedOf
  <2>2. CASE proc'[p] # proc[p] /\ proc'[p].at = "placeChecked"
    BY <1>4, <2>2, StartedRecord DEF Started
  <2>3. CASE proc'[p].at \in Placing
    <3>1. /\ proc[p].v = w /\ proc[p].at \in Placing \cup {"placeChecked"}
          /\ proc[p].signal \/ PlacementRun[w].pid # "none"
      BY <1>4, <2>3, PlacingRecord
    <3> QED
      BY <1>1, <3>1 DEF PlacedOf
  <2> QED
    BY <1>4, <2>1, <2>2, <2>3
<1>5. /\ placed'[w] = "PASS" => placeEnded'[w] = "ok"
      /\ placed'[w] \in {"legality", "divergence"} => placeEnded'[w] = placed'[w]
      /\ placed'[w] = "interrupted" /\ PlacementRun[w].pid = "none" => placeEnded'[w] = "killed"
  <2>1. CASE placed'[w] = placed[w]
    BY <1>1, <1>2, <2>1 DEF PlacedOf
  <2>2. CASE placed'[w] # placed[w]
    <3>1. PICK p \in Procs :
            /\ Places(p, w)
            /\ placed'[w] = "PASS" => proc[p].at = "placeReturned" /\ proc[p].rc = 0
            /\ placed'[w] \in {"legality", "divergence"} => placeEnded[w] = placed'[w]
            /\ placed'[w] = "interrupted" /\ PlacementRun[w].pid = "none" =>
                 proc[p].at = "placeReturned" /\ (proc[p].signal \/ proc[p].rc = 143)
      BY <2>2, PlacedWrites
    <3>2. /\ placed'[w] = "PASS" => placeEnded[w] = "ok"
          /\ placed'[w] = "interrupted" /\ PlacementRun[w].pid = "none" => placeEnded[w] = "killed"
      BY <1>1, <3>1 DEF PlacedOf, Places
    <3> QED
      BY <1>1, <1>2, <3>1, <3>2
  <2> QED
    BY <2>1, <2>2
<1> QED
  BY <1>3, <1>4, <1>5 DEF PlacedOf

(* What is routed stays placed.                                             *)
LEMMA PlaceStep ==
    ASSUME TypeInv, RunsInv, PlaceInv, Next
    PROVE  PlaceInv'
<1>1. \A v \in Variants : placed[PlacementOf(v)] = "PASS" => placed'[PlacementOf(v)] = "PASS"
  BY PlacedOnce, TableFacts
<1>2. ASSUME NEW p \in Procs, proc'[p].at = "checked"
      PROVE  placed'[PlacementOf(proc'[p].v)] = "PASS"
  <2>1. CASE proc'[p] = proc[p]
    <3>1. proc[p].at = "checked" /\ proc[p].v \in Variants
      BY <1>2, <2>1, ProcIs
    <3> QED
      BY <1>1, <2>1, <3>1 DEF PlaceInv
  <2>2. CASE proc'[p] # proc[p]
    <3>1. RunnerChecks(p, proc'[p].v) /\ proc'[p].v \in Variants
      BY <1>2, <2>2, StartedRecord DEF Started
    <3>2. placed[PlacementOf(proc'[p].v)] = "PASS"
      BY <3>1 DEF RunnerChecks
    <3> QED
      BY <1>1, <3>1, <3>2
  <2> QED
    BY <2>1, <2>2
<1>3. ASSUME NEW v \in Variants, attempt'[v] # "absent"
      PROVE  placed'[PlacementOf(v)] = "PASS"
  BY <1>1, <1>3, AttemptWrites DEF PlaceInv
<1> QED
  BY <1>2, <1>3 DEF PlaceInv

-----------------------------------------------------------------------------
(* GateInv and SelectInv.                                                   *)

(* Who writes a gate: a decider its verdict, or a kill a torn file.         *)
LEMMA GateWrites ==
    ASSUME TypeInv, Next, NEW w \in Variants, gate'[w] # gate[w]
    PROVE  \/ gate'[w] = "torn"
           \/ \E p \in Procs :
                proc[p].at = "deciding" /\ proc[p].v = w /\ gate'[w] = proc[p].verdict
<1>1. w \in All /\ gate \in [All -> Verdicts]
  BY DEF TypeInv, RouteType, All
<1>2. ASSUME NEW v \in Variants, DocStep(v) PROVE FALSE
  BY <1>2, DocFrame DEF route
<1>3. ASSUME EnvStep PROVE FALSE
  BY <1>3, EnvFrame
<1>4. ASSUME NEW p \in Procs, ProcStep(p)
      PROVE  \/ gate'[w] = "torn"
             \/ proc[p].at = "deciding" /\ proc[p].v = w /\ gate'[w] = proc[p].verdict
  <2>1. w = proc[p].v
    BY <1>1, <1>4, OtherVariants
  <2>2. CASE DecideGateWrites(p)
    BY <1>1, <2>1, <2>2 DEF DecideGateWrites
  <2>3. CASE KillProc(p)
    <3>1. gate' = gate \/ gate' = [gate EXCEPT ![w] = "torn"]
      BY <2>1, <2>3 DEF KillProc, Torn
    <3> QED
      BY <1>1, <3>1
  <2> QED
    BY <1>4, <2>2, <2>3, ProcFrame
<1> QED
  BY <1>2, <1>3, <1>4, NextSteps DEF EnvStep

(* What a PASS stands on is not taken away again.                           *)
LEMMA GroundsStay ==
    ASSUME TypeInv, RunsInv, Next, NEW w \in Variants, Grounds(w)
    PROVE  Grounds(w)'
<1>1. ended'[w] = "ok" /\ report'[w] = Clean
  BY EndedOnce DEF Grounds, None
<1>2. placed'[PlacementOf(w)] = "PASS"
  BY PlacedOnce, TableFacts DEF Grounds
<1>3. manifest'[w].status = "PASS"
  BY ManifestWrites DEF Grounds
<1> QED
  BY <1>1, <1>2, <1>3 DEF Grounds

(* The verdict of a decider holds, and the gate it writes.                  *)
LEMMA GateStep ==
    ASSUME TypeInv, RunsInv, RunInv, GateInv, Next
    PROVE  GateInv'
<1>1. ASSUME NEW p \in Procs, NEW w \in Variants, proc'[p].at = "deciding", proc'[p].v = w,
             proc'[p].verdict = "PASS"
      PROVE  Grounds(w)'
  <2>1. CASE proc'[p] = proc[p]
    <3>1. Grounds(w)
      BY <1>1, <2>1 DEF GateInv
    <3> QED
      BY <3>1, GroundsStay
  <2>2. CASE proc'[p] # proc[p]
    <3>1. DecideGateReads(p, w) /\ GateConditions(w)
      BY <1>1, <2>2, StartedRecord DEF Started
    <3>2. /\ analysis[w] = Clean /\ placed[Gate[w].placement] = "PASS"
          /\ manifest[w].status = "PASS" /\ w \in DOMAIN Gate
      BY <3>1 DEF GateConditions, DecideGateReads
    <3>3. placed[PlacementOf(w)] = "PASS"
      BY <3>2, TableFacts
    <3>4. ended[w] = "ok" /\ report[w] = Clean
      BY <3>2 DEF RunInv, RunOf, Clean, NoTotals
    <3>5. Grounds(w)
      BY <3>2, <3>3, <3>4 DEF Grounds
    <3> QED
      BY <3>5, GroundsStay
  <2> QED
    BY <2>1, <2>2
<1>2. ASSUME NEW v \in Variants, gate'[v] = "PASS"
      PROVE  Grounds(v)'
  <2>1. Grounds(v)
    BY <1>2, GateWrites DEF GateInv
  <2> QED
    BY <2>1, GroundsStay
<1> QED
  BY <1>1, <1>2 DEF GateInv

(* What a selection read stays true.                                        *)
LEMMA OpenedStays ==
    ASSUME TypeInv, RunsInv, Next, NEW v \in Variants, Selection[v].predecessor \in Variants,
           OpenedBy(v)
    PROVE  OpenedBy(v)'
<1> DEFINE w == Selection[v].predecessor
<1>1. /\ ended[w] # None => ended'[w] = ended[w] /\ report'[w] = report[w]
      /\ placeEnded[w] # None => placeEnded'[w] = placeEnded[w]
  BY EndedOnce
<1>2. CASE Selection[v].evidence = "toolError"
  BY <1>1, <1>2 DEF OpenedBy, None
<1>3. CASE Selection[v].evidence = "blocked"
  BY <1>1, <1>3 DEF OpenedBy, None
<1>4. CASE Selection[v].evidence = "interrupted"
  BY <1>1, <1>4 DEF OpenedBy, None
<1>5. CASE Selection[v].evidence \in {"legality", "divergence"}
  BY <1>1, <1>5 DEF OpenedBy, None
<1> QED
  BY <1>2, <1>3, <1>4, <1>5, TableFacts

(* Only a selection whose evidence was read selects.                        *)
LEMMA SelectionWrites ==
    ASSUME TypeInv, Next, NEW v \in Variants, decision'[v] = "selected", decision[v] # "selected"
    PROVE  Select(v)
<1>1. decision \in [All -> {"absent", "torn", "selected"}]
  BY DEF TypeInv, DocType
<1>2. ASSUME NEW u \in Variants, DocStep(u) PROVE Select(v)
  <2>1. Select(u)
    BY <1>2 DEF DocStep, CollectCheapGate, RunSmoke, AnalyzePlacement, AuditReopen,
       RunnerTooEarly, EditTool
  <2>2. \E x : decision' = [decision EXCEPT ![u] = x]
    BY <2>1 DEF Select
  <2> QED
    BY <1>1, <2>1, <2>2
<1>3. ASSUME NEW p \in Procs, ProcStep(p) PROVE FALSE
  BY <1>3, ProcFrame
<1>4. ASSUME EnvStep PROVE FALSE
  BY <1>4, EnvFrame DEF documents
<1> QED
  BY <1>2, <1>3, <1>4, NextSteps DEF EnvStep

(* A variant stays opened by what opened it.                                *)
LEMMA SelectStep ==
    ASSUME TypeInv, RunsInv, RunInv, PlacedInv, SelectInv, Next
    PROVE  SelectInv'
<1> SUFFICES ASSUME NEW v \in Variants, decision'[v] = "selected",
                    Selection[v].predecessor \in Variants
             PROVE  OpenedBy(v)'
  BY DEF SelectInv
<1>1. CASE decision[v] = "selected"
  BY <1>1, OpenedStays DEF SelectInv
<1>2. CASE decision[v] # "selected"
  <2> DEFINE w == Selection[v].predecessor
  <2>1. Select(v)
    BY <1>2, SelectionWrites
  <2>2. CASE Selection[v].evidence = "blocked"
    <3>1. BlockedByCongestion(w)
      BY <2>1, <2>2 DEF Select, Supports
    <3>2. analysis[w] = Named
      BY <3>1 DEF BlockedByCongestion
    <3>3. ended[w] = "ok" /\ report[w] # Clean
      BY <3>2 DEF RunInv, RunOf, Named, Clean, NoTotals
    <3> QED
      BY <2>2, <3>3, OpenedStays DEF OpenedBy
  <2>3. CASE Selection[v].evidence = "toolError"
    <3>1. AbortedByTool(w)
      BY <2>1, <2>3 DEF Select, Supports
    <3>2. manifest[w].status = "FAIL" /\ manifest[w].exit = 134
      BY <3>1 DEF AbortedByTool
    <3>3. ended[w] = "abort"
      BY <3>2 DEF RunInv, RunOf
    <3> QED
      BY <2>3, <3>3, OpenedStays DEF OpenedBy
  <2>4. CASE Selection[v].evidence \in {"legality", "divergence"}
    <3>1. placed[w] = Selection[v].evidence
      BY <2>1, <2>4 DEF Select, Supports
    <3>2. placeEnded[w] = Selection[v].evidence
      BY <2>4, <3>1 DEF PlacedInv, PlacedOf
    <3> QED
      BY <2>4, <3>2, OpenedStays DEF OpenedBy
  <2>5. CASE Selection[v].evidence = "interrupted" /\ PlacementRun[w].pid = "none"
    <3>1. placed[w] = "interrupted"
      BY <2>1, <2>5 DEF Select, Supports
    <3>2. placeEnded[w] = "killed"
      BY <2>5, <3>1 DEF PlacedInv, PlacedOf
    <3> QED
      BY <2>5, <3>2, OpenedStays DEF OpenedBy
  <2> QED
    BY <2>2, <2>3, <2>4, <2>5, TableFacts
<1> QED
  BY <1>1, <1>2

-----------------------------------------------------------------------------
(* Inv.                                                                     *)

(* Initially.                                                               *)
LEMMA InitInv == Init => Inv
<1> SUFFICES ASSUME Init PROVE Inv
  OBVIOUS
<1>1. proc = [p \in Procs |-> Idle]
  BY DEF Init
<1>2. \A p \in Procs : proc[p] = Idle
  BY <1>1
<1>3. TypeInv
  <2>1. \A w : PastPlacement(w) \in Outcomes
    <3> SUFFICES ASSUME NEW w PROVE PastPlacement(w) \in Outcomes
      OBVIOUS
    <3> DEFINE readers == {v \in Variants : Selection[v].predecessor = w
                            /\ Selection[v].evidence \in {"legality", "divergence", "interrupted"}}
    <3>1. CASE readers = {}
      BY <3>1 DEF PastPlacement, Outcomes
    <3>2. CASE readers # {}
      <4>1. (CHOOSE v \in readers : TRUE) \in readers
        BY <3>2
      <4> QED
        BY <3>2, <4>1 DEF PastPlacement, Outcomes
    <3> QED
      BY <3>1, <3>2
  <2>2. DocType
    <3>1. /\ dir = History
          /\ decision = [w \in All |-> IF w \in History THEN "selected" ELSE "absent"]
          /\ cheap = [w \in All |-> IF w \in History THEN "PASS" ELSE "absent"]
          /\ smoke = [w \in All |-> IF w \in History THEN "PASS" ELSE "absent"]
          /\ numeric = [w \in All |-> IF w \in History THEN "PASS" ELSE "absent"]
          /\ reopen = [w \in All |-> IF w \in History THEN "PASS" ELSE "absent"]
          /\ placeAttempt = History
      BY DEF Init
    <3>2. permit \in [All -> Permits] /\ auth \in [All -> Permits]
      BY DEF Init, NoPermit, Permits, Verdicts
    <3>3. placed \in [All -> Outcomes]
      BY <2>1 DEF Init, Outcomes
    <3> QED
      BY <3>1, <3>2, <3>3 DEF DocType, All
  <2>3. RouteType
    <3>1. manifest \in [All -> Manifests]
      <4>1. /\ NoManifest \in Manifests
            /\ [status |-> "FAIL", class |-> "tool_error", exit |-> 134, preserved |-> TRUE]
                 \in Manifests
        BY DEF NoManifest, Manifests
      <4> QED
        BY <4>1 DEF Init
    <3>2. report \in [All -> Totals \cup {NoTotals}] /\ analysis \in [All -> Totals \cup {NoTotals}]
      BY FlowAssumption DEF Init
    <3>3. attempt \in [All -> {"absent", "started", "pid"}] /\ gate \in [All -> Verdicts]
      BY DEF Init, Verdicts
    <3> QED
      BY <3>1, <3>2, <3>3 DEF RouteType
  <2>4. MachineType /\ HistoryType
    BY FlowAssumption DEF Init, MachineType, HistoryType, RouteEnds, PlaceEnds, All
  <2>5. ProcType
    BY <1>1, <1>2, IdleShape DEF ProcType
  <2> QED
    BY <2>2, <2>3, <2>4, <2>5 DEF TypeInv
<1>4. ASSUME NEW w \in Variants
      PROVE  /\ attempt[w] = "absent" /\ manifest[w].status = "absent" /\ launches[w] = 0
             /\ ended[w] = None /\ report[w] = NoTotals /\ analysis[w] = NoTotals
             /\ gate[w] = "absent" /\ decision[w] = "absent"
             /\ w \notin placeAttempt /\ placed[w] = "absent"
             /\ placements[w] = 0 /\ placeEnded[w] = None
  <2>1. w \in All /\ w \notin History
    BY FlowAssumption DEF All
  <2>2. manifest[w] = NoManifest
    BY <2>1 DEF Init
  <2> QED
    BY <2>1, <2>2 DEF Init, NoManifest
<1>5. RunsInv
  <2>1. \A p \in Procs, w \in Variants : ~ Runs(p, w)
    BY <1>2, IdleShape DEF Runs, Running
  <2>2. \A p \in Procs, w \in Variants : ~ Places(p, w)
    BY <1>2, IdleShape DEF Places, Placing
  <2>3. live = {} /\ placing = {}
    BY DEF Init
  <2>4. OwnerInv
    BY <1>4, <2>1, <2>3 DEF OwnerInv, OwnerOf
  <2>5. PlacerInv
    BY <1>4, <2>2, <2>3 DEF PlacerInv, PlacerOf
  <2> QED
    BY <2>4, <2>5 DEF RunsInv
<1>6. RunInv /\ PlacedInv
  <2>1. RunInv
    BY <1>2, <1>4, IdleShape DEF RunInv, RunOf
  <2>2. PlacedInv
    BY <1>2, <1>4, IdleShape DEF PlacedInv, PlacedOf, Placing
  <2> QED
    BY <2>1, <2>2
<1>7. PlaceInv
  BY <1>2, <1>4, IdleShape DEF PlaceInv
<1>8. GateInv
  BY <1>2, <1>4, IdleShape DEF GateInv
<1>9. SelectInv
  BY <1>4 DEF SelectInv
<1> QED
  BY <1>3, <1>5, <1>6, <1>7, <1>8, <1>9 DEF Inv

(* Steps that change nothing.                                               *)
LEMMA StutterInv ==
    ASSUME Inv, UNCHANGED vars
    PROVE  Inv'
<1>1. /\ UNCHANGED <<dir, decision, cheap, smoke, permit, placeAttempt, placed>>
      /\ UNCHANGED <<numeric, reopen, auth>>
      /\ UNCHANGED <<attempt, manifest, report, analysis, gate>>
      /\ UNCHANGED <<tmpfs, live, placing, proc, faults>>
      /\ UNCHANGED <<launches, ended, placements, placeEnded, orphaned>>
  BY DEF vars, documents, route, compute, machine, history
<1>2. TypeInv'
  BY <1>1 DEF Inv, TypeInv, DocType, RouteType, MachineType, HistoryType, ProcType
<1>3. RunsInv'
  BY <1>1 DEF Inv, RunsInv, PlacerInv, PlacerOf, Places, OwnerInv, OwnerOf, Runs
<1>4. PlacedInv' /\ RunInv'
  BY <1>1 DEF Inv, PlacedInv, PlacedOf, RunInv, RunOf
<1>5. PlaceInv' /\ GateInv' /\ SelectInv'
  BY <1>1 DEF Inv, PlaceInv, GateInv, Grounds, SelectInv, OpenedBy
<1> QED
  BY <1>2, <1>3, <1>4, <1>5 DEF Inv

(* Every step keeps every layer.                                            *)
THEOREM Invariance == Spec => []Inv
<1>1. Inv /\ [Next]_vars => Inv'
  <2> SUFFICES ASSUME Inv, [Next]_vars PROVE Inv'
    OBVIOUS
  <2>1. CASE Next
    BY <2>1, TypeStep, RunsStep, PlacedStep, RunStep, PlaceStep, GateStep, SelectStep DEF Inv
  <2>2. CASE UNCHANGED vars
    BY <2>2, StutterInv
  <2> QED
    BY <2>1, <2>2
<1> QED
  BY <1>1, InitInv, PTL DEF Spec

-----------------------------------------------------------------------------
(* The properties.                                                          *)

(* Every file has one of the contents its script writes.                    *)
THEOREM TypeCorrect == Spec => []TypeOK
<1>1. Inv => TypeOK
  <2> SUFFICES ASSUME Inv PROVE TypeOK
    OBVIOUS
  <2>1. TypeInv
    BY DEF Inv
  <2>2. \A p \in Procs : proc[p].at \in Ats /\ proc[p].v \in Variants \cup {None}
                         /\ proc[p].pid \subseteq Pids
    BY <2>1, ProcShape DEF TypeInv, ProcType
  <2> QED
    BY <2>1, <2>2 DEF TypeInv, TypeOK, DocType, RouteType, MachineType, HistoryType, Permits,
       Manifests, Outcomes, RouteEnds, PlaceEnds, Pids, Ats, Started, Placing, Running
<1> QED
  BY <1>1, Invariance, PTL

(* A variant's one global route: whatever runners start, are signalled or   *)
(* killed, only the one that created the invocation record starts OpenROAD. *)
THEOREM OneRoute == Spec => []SingleInvocation
<1>1. Inv => SingleInvocation
  BY DEF Inv, RunsInv, OwnerInv, OwnerOf, SingleInvocation
<1> QED
  BY <1>1, Invariance, PTL

(* A variant's one placement: only the runner that created its invocation   *)
(* record starts OpenROAD.                                                  *)
THEOREM OnePlacement == Spec => []SinglePlacement
<1>1. Inv => SinglePlacement
  BY DEF Inv, RunsInv, PlacerInv, PlacerOf, SinglePlacement
<1> QED
  BY <1>1, Invariance, PTL

(* A strict gate that passed stands on a route that OpenROAD finished, of   *)
(* a legal placement, and whose report is clean.                            *)
THEOREM GroundedPass == Spec => []PassGrounded
<1>1. Inv => PassGrounded
  <2> SUFFICES ASSUME Inv, NEW v \in Variants, gate[v] = "PASS"
               PROVE  /\ ended[v] = "ok" /\ report[v] = Clean
                      /\ placed[PlacementOf(v)] = "PASS" /\ manifest[v].class # "interrupted"
    BY DEF PassGrounded
  <2>1. Grounds(v)
    BY DEF Inv, GateInv
  <2>2. manifest[v].class = None
    BY <2>1 DEF Inv, RunInv, RunOf, Grounds
  <2> QED
    BY <2>1, <2>2 DEF Grounds, None
<1> QED
  BY <1>1, Invariance, PTL

(* The next variant is opened by a real failure of the last one.            *)
THEOREM SuccessorGrounded == Spec => []SuccessorOnTrueFailure
<1>1. Inv => SuccessorOnTrueFailure
  BY DEF Inv, SelectInv, OpenedBy, SuccessorOnTrueFailure
<1> QED
  BY <1>1, Invariance, PTL

(* A run that was told to stop is not sealed as PASS, whatever OpenROAD did *)
(* before the signal arrived: neither a route,                              *)
LEMMA SignalledRoute ==
    ASSUME Inv, Next, NEW p \in Procs, proc[p].at = "parsed", proc[p].signal
    PROVE  manifest'[proc[p].v].status # "PASS"
<1>1. TypeInv /\ OwnerInv /\ proc[p].v \in Variants
  BY ProcIs DEF Inv, RunsInv
<1>2. Runs(p, proc[p].v)
  BY DEF Runs, Running
<1>3. /\ manifest[proc[p].v].status = "absent"
      /\ \A q \in Procs : Runs(q, proc[p].v) => q = p
  BY <1>1, <1>2 DEF OwnerInv, OwnerOf
<1>4. CASE manifest'[proc[p].v] = manifest[proc[p].v]
  BY <1>3, <1>4
<1>5. CASE manifest'[proc[p].v] # manifest[proc[p].v]
  <2>1. PICK q \in Procs : Runs(q, proc[p].v)
           /\ (manifest'[proc[p].v].status = "PASS" => ~ proc[q].signal)
    BY <1>1, <1>5, ManifestWrites
  <2> QED
    BY <1>3, <2>1
<1> QED
  BY <1>4, <1>5

(* nor a placement.                                                         *)
LEMMA SignalledPlacement ==
    ASSUME Inv, Next, NEW p \in Procs, proc[p].at = "placeReturned", proc[p].signal
    PROVE  placed'[proc[p].v] # "PASS"
<1>1. TypeInv /\ PlacerInv /\ proc[p].v \in Variants
  BY ProcIs DEF Inv, RunsInv
<1>2. Places(p, proc[p].v)
  BY DEF Places, Placing
<1>3. placed[proc[p].v] = "absent" /\ \A q \in Procs : Places(q, proc[p].v) => q = p
  BY <1>1, <1>2 DEF PlacerInv, PlacerOf
<1>4. CASE placed'[proc[p].v] = placed[proc[p].v]
  BY <1>3, <1>4
<1>5. CASE placed'[proc[p].v] # placed[proc[p].v]
  <2>1. PICK q \in Procs : Places(q, proc[p].v)
           /\ (placed'[proc[p].v] = "PASS" => ~ proc[q].signal)
    BY <1>1, <1>5, PlacedWrites
  <2> QED
    BY <1>3, <2>1
<1> QED
  BY <1>4, <1>5

THEOREM SignalIsFailure == Spec => SignalSealsFailure
<1>1. Inv /\ [Next]_vars =>
        [\A p \in Procs : proc[p].signal /\ proc'[p].at = "idle" =>
           /\ proc[p].at = "parsed" => manifest'[proc[p].v].status # "PASS"
           /\ proc[p].at = "placeReturned" => placed'[proc[p].v] # "PASS"]_vars
  BY SignalledRoute, SignalledPlacement
<1> QED
  BY <1>1, Invariance, PTL DEF Spec, SignalSealsFailure

-----------------------------------------------------------------------------
(* VerdictInv, for variants whose permission to route reads the smoke of    *)
(* this variant, and no cheap gate (nor a permission that pinned one): B10  *)
(* to B24, and B3 to B5 and B8, which have no such permission.              *)

SmokePermission ==
    \A v \in Variants \cap DOMAIN RouteAuth :
        RouteAuth[v].permit = "smoke" /\ ~ RouteAuth[v].cheap

(* A gate that reads the permission to route is of a variant that has one.  *)
LEMMA PermissionRows ==
    /\ \A v \in DOMAIN Gate : Gate[v].permission => v \in DOMAIN RouteAuth
    /\ \A v \in DOMAIN RouteAuth : RouteAuth[v].placement = PlacementOf(v)
<1>1. ~ DecideB3StrictGate.permission /\ ~ DecideB4StrictGate.permission
      /\ ~ DecideB5StrictGate.permission
  BY DEF DecideB3StrictGate, DecideB4StrictGate, DecideB5StrictGate, StrictGate
<1>2. /\ DecideB6StrictGate.variant = "B6" /\ DecideB7StrictGate.variant = "B7"
      /\ DecideB9StrictGate.variant = "B9" /\ DecideB10StrictGate.variant = "B10"
      /\ DecideB11StrictGate.variant = "B11" /\ DecideB12StrictGate.variant = "B12"
      /\ DecideB13StrictGate.variant = "B13" /\ DecideB14StrictGate.variant = "B14"
      /\ DecideB15StrictGate.variant = "B15" /\ DecideB16StrictGate.variant = "B16"
      /\ DecideB17StrictGate.variant = "B17" /\ DecideB18StrictGate.variant = "B18"
      /\ DecideB19StrictGate.variant = "B19" /\ DecideB20StrictGate.variant = "B20"
      /\ DecideB21StrictGate.variant = "B21" /\ DecideB22StrictGate.variant = "B22"
      /\ DecideB23StrictGate.variant = "B23" /\ DecideB24StrictGate.variant = "B24"
      /\ DecideB25StrictGate.variant = "B25"
  BY DEF DecideB6StrictGate, DecideB7StrictGate, DecideB9StrictGate, DecideB10StrictGate,
     DecideB11StrictGate, DecideB12StrictGate, DecideB13StrictGate, DecideB14StrictGate,
     DecideB15StrictGate, DecideB16StrictGate, DecideB17StrictGate, DecideB18StrictGate,
     DecideB19StrictGate, DecideB20StrictGate, DecideB21StrictGate, DecideB22StrictGate,
     DecideB23StrictGate, DecideB24StrictGate, DecideB25StrictGate, StrictGate
<1>3. \A g \in StrictGates : g.permission => g.variant \in DOMAIN RouteAuth
  BY <1>1, <1>2, RoutedPlacements DEF StrictGates
<1>4. \A v \in DOMAIN Gate : Gate[v].permission => v \in DOMAIN RouteAuth
  BY <1>3, TableRow DEF Gate
<1> QED
  BY <1>4 DEF PlacementOf

(* A placement that passed is over: no OpenROAD writes its database again.  *)
LEMMA NobodyPlaces ==
    ASSUME TypeInv, RunsInv, PlacedInv, NEW w \in All, placed[w] = "PASS"
    PROVE  \A l \in placing : l[2] # w
<1>1. placing \subseteq Procs \X Variants
  BY DEF TypeInv, MachineType
<1>2. SUFFICES ASSUME NEW l \in placing, l[2] = w PROVE FALSE
  OBVIOUS
<1>3. l[1] \in Procs /\ w \in Variants /\ <<l[1], w>> \in placing
  BY <1>1, <1>2
<1>4. placeEnded[w] = None
  BY <1>3 DEF RunsInv, PlacerInv, PlacerOf
<1>5. placeEnded[w] = "ok"
  BY <1>3 DEF PlacedInv, PlacedOf
<1> QED
  BY <1>4, <1>5 DEF None

(* What OpenROAD leaves in /dev/shm when it ends.                           *)
LEMMA PlacementLeaves ==
    ASSUME NEW l \in placing, PlacementEnds(l)
    PROVE  \A x : /\ x \in tmpfs => x \in tmpfs'
                  /\ x \in tmpfs' => x \in tmpfs \/ x \in {<<l[2], "place">>, <<l[2], "rudy">>}
<1>1. PICK how : tmpfs' = tmpfs
          \cup (IF how = "ok" THEN {<<l[2], "place">>} ELSE {})
          \cup (IF PlacementRun[l[2]].writesRudy /\ how \in {"ok", "legality"}
                THEN {<<l[2], "rudy">>} ELSE {})
  BY DEF PlacementEnds
<1> QED
  BY <1>1

(* Databases in /dev/shm are written by OpenROAD only, and stay until a     *)
(* reboot.                                                                  *)
LEMMA TmpfsWrites ==
    ASSUME TypeInv, Next, ~ Reboot, NEW w
    PROVE  /\ <<w, "place">> \in tmpfs => <<w, "place">> \in tmpfs'
           /\ <<w, "routed">> \in tmpfs => <<w, "routed">> \in tmpfs'
           /\ <<w, "place">> \in tmpfs' /\ <<w, "place">> \notin tmpfs =>
                \E l \in placing : l[2] = w
           /\ <<w, "routed">> \in tmpfs' /\ <<w, "routed">> \notin tmpfs =>
                \E l \in live : l[2] = w
<1>1. ASSUME NEW v \in Variants, DocStep(v)
      PROVE  tmpfs' = tmpfs \/ tmpfs' = tmpfs \cup {<<v, "smoke">>}
  BY <1>1 DEF DocStep, Select, CollectCheapGate, RunSmoke, AnalyzePlacement, AuditReopen,
     RunnerTooEarly, EditTool, machine
<1>2. ASSUME NEW p \in Procs, ProcStep(p) PROVE tmpfs' = tmpfs
  BY <1>2, ProcFrame
<1>3. ASSUME NEW l \in live, OpenroadEnds(l)
      PROVE  tmpfs' = tmpfs \/ tmpfs' = tmpfs \cup {<<l[2], "routed">>}
  BY <1>3 DEF OpenroadEnds
<1>4. ASSUME NEW l \in placing, PlacementEnds(l)
      PROVE  /\ <<w, "place">> \in tmpfs => <<w, "place">> \in tmpfs'
             /\ <<w, "routed">> \in tmpfs' <=> <<w, "routed">> \in tmpfs
             /\ <<w, "place">> \in tmpfs' /\ <<w, "place">> \notin tmpfs => l[2] = w
  BY <1>4, PlacementLeaves
<1>5. ASSUME NEW l \in Openroads, TerminateOpenroad(l) PROVE tmpfs' = tmpfs
  BY <1>5 DEF TerminateOpenroad
<1> QED
  BY <1>1, <1>2, <1>3, <1>4, <1>5, NextSteps

(* Reports are written once, and a database that is there stays until a     *)
(* reboot.                                                                  *)
LEMMA ReportsOnce ==
    ASSUME TypeInv, RunsInv, PlacedInv, Next, ~ Reboot, NEW w \in All
    PROVE  /\ numeric[w] # "absent" => numeric'[w] = numeric[w]
           /\ reopen[w] # "absent" => reopen'[w] = reopen[w]
           /\ smoke[w] # "absent" => smoke'[w] = smoke[w]
           /\ placed[w] # "absent" => placed'[w] = placed[w]
           /\ placed[w] = "PASS" => (<<w, "place">> \in tmpfs' <=> <<w, "place">> \in tmpfs)
<1>1. /\ numeric \in [All -> {"absent", "PASS", "FAIL"}]
      /\ reopen \in [All -> {"absent", "PASS", "FAIL"}]
      /\ smoke \in [All -> {"absent", "PASS", "FAIL"}]
  BY DEF TypeInv, DocType
<1>2. placed[w] # "absent" => placed'[w] = placed[w]
  BY PlacedOnce
<1>3. placed[w] = "PASS" => (<<w, "place">> \in tmpfs' <=> <<w, "place">> \in tmpfs)
  BY NobodyPlaces, TmpfsWrites
<1>4. ASSUME NEW p \in Procs, ProcStep(p) PROVE UNCHANGED <<numeric, reopen, smoke>>
  BY <1>4, ProcFrame
<1>5. ASSUME EnvStep PROVE UNCHANGED <<numeric, reopen, smoke>>
  BY <1>5, EnvFrame DEF documents
<1>6. ASSUME NEW v \in Variants, DocStep(v)
      PROVE  /\ numeric[w] # "absent" => numeric'[w] = numeric[w]
             /\ reopen[w] # "absent" => reopen'[w] = reopen[w]
             /\ smoke[w] # "absent" => smoke'[w] = smoke[w]
  <2>1. CASE Select(v) \/ RunnerTooEarly(v) \/ EditTool(v) \/ CollectCheapGate(v)
    BY <2>1 DEF Select, RunnerTooEarly, EditTool, CollectCheapGate
  <2>2. CASE RunSmoke(v)
    BY <1>1, <2>2 DEF RunSmoke
  <2>3. CASE AnalyzePlacement(v)
    <3>1. /\ UNCHANGED <<reopen, smoke>> /\ numeric[v] = "absent"
          /\ \E x : numeric' = [numeric EXCEPT ![v] = x]
      BY <2>3 DEF AnalyzePlacement
    <3> QED
      BY <1>1, <3>1
  <2>4. CASE AuditReopen(v)
    BY <1>1, <2>4 DEF AuditReopen
  <2> QED
    BY <1>6, <2>1, <2>2, <2>3, <2>4 DEF DocStep
<1> QED
  BY <1>2, <1>3, <1>4, <1>5, <1>6, NextSteps DEF EnvStep

(* So two readers of the same reports find the same.                        *)
LEMMA SettledStays ==
    ASSUME TypeInv, RunsInv, PlacedInv, Next, ~ Reboot, NEW v \in Variants, v \in DOMAIN RouteAuth,
           Loaded(v)
    PROVE  Loaded(v)' /\ (Settled(v)' <=> Settled(v))
<1> DEFINE w == PlacementOf(v)
<1>1. v \in All /\ w \in All /\ RouteAuth[v].placement = w
  BY TableFacts, PermissionRows DEF All
<1> HIDE DEF w
<1>2. /\ numeric[w] # "absent" => numeric'[w] = numeric[w]
      /\ reopen[w] # "absent" => reopen'[w] = reopen[w]
      /\ smoke[v] # "absent" => smoke'[v] = smoke[v]
      /\ placed[w] # "absent" => placed'[w] = placed[w]
      /\ placed[w] = "PASS" => (<<w, "place">> \in tmpfs' <=> <<w, "place">> \in tmpfs)
  BY <1>1, ReportsOnce
<1>3. Loaded(v)'
  BY <1>1, <1>2 DEF Loaded
<1>4. Settled(v)' <=> Settled(v)
  BY <1>1, <1>2 DEF Loaded, Settled, ExpectedChange
<1> QED
  BY <1>3, <1>4

(* Who writes a permission to route.                                        *)
LEMMA PermissionWrites ==
    ASSUME TypeInv, Next, NEW w \in Variants
    PROVE  \/ auth'[w].status = auth[w].status
           \/ \E p \in Procs : /\ proc[p].at = "authorizing" /\ proc[p].v = w
                               /\ auth'[w].status \in {"torn", proc[p].verdict}
<1>1. w \in All /\ auth \in [All -> Permits]
  BY DEF TypeInv, DocType, All
<1>2. ASSUME NEW v \in Variants, DocStep(v) PROVE auth'[w].status = auth[w].status
  <2>1. CASE EditTool(v)
    <3>1. auth'[w] = auth[w] \/ auth'[w] = [auth[w] EXCEPT !.current = FALSE]
      BY <1>1, <2>1 DEF EditTool
    <3>2. \A m \in Permits : [m EXCEPT !.current = FALSE].status = m.status
      BY DEF Permits
    <3> QED
      BY <1>1, <3>1, <3>2
  <2>2. CASE ~ EditTool(v)
    BY <1>2, <2>2 DEF DocStep, Select, CollectCheapGate, RunSmoke, AnalyzePlacement, AuditReopen,
       RunnerTooEarly
  <2> QED
    BY <2>1, <2>2
<1>3. ASSUME EnvStep PROVE auth' = auth
  BY <1>3, EnvFrame DEF documents
<1>4. ASSUME NEW p \in Procs, ProcStep(p)
      PROVE  \/ auth'[w] = auth[w]
             \/ /\ proc[p].at = "authorizing" /\ proc[p].v = w
                /\ auth'[w].status \in {"torn", proc[p].verdict}
  <2>1. CASE proc[p].at = "idle" \/ w # proc[p].v
    BY <1>1, <1>4, <2>1, OtherVariants
  <2>2. CASE w = proc[p].v /\ AuthorizeRouteWrites(p)
    BY <1>1, <2>2 DEF AuthorizeRouteWrites
  <2>3. CASE w = proc[p].v /\ KillProc(p)
    <3>1. \/ auth' = auth
          \/ /\ proc[p].at = "authorizing"
             /\ auth' = [auth EXCEPT ![w] = TornOf(auth[w])]
      BY <2>3 DEF KillProc, TornPermit, TornOf
    <3>2. \/ auth' = auth
          \/ proc[p].at = "authorizing" /\ auth'[w] = TornOf(auth[w])
      BY <1>1, <3>1
    <3>3. TornOf(auth[w]).status = "torn"
      BY <1>1, PermitShape
    <3> QED
      BY <2>3, <3>2, <3>3
  <2> QED
    BY <1>4, <2>1, <2>2, <2>3, ProcFrame
<1> QED
  BY <1>2, <1>3, <1>4, NextSteps DEF EnvStep

(* A permission that was given is not refused later.                        *)
LEMMA PermittedStays ==
    ASSUME TypeInv, Next, NEW w \in Variants, Permitted(w)
    PROVE  Permitted(w)'
<1>1. auth[w].status \in {"PASS", "torn"}
      /\ \A q \in Procs : proc[q].at = "authorizing" /\ proc[q].v = w => proc[q].verdict = "PASS"
  BY DEF Permitted
<1>2. auth'[w].status \in {"PASS", "torn"}
  BY <1>1, PermissionWrites
<1>3. ASSUME NEW q \in Procs, proc'[q].at = "authorizing", proc'[q].v = w
      PROVE  proc'[q].verdict = "PASS"
  <2>1. CASE proc'[q] = proc[q]
    BY <1>1, <1>3, <2>1
  <2>2. CASE proc'[q] # proc[q]
    <3>1. AuthorizeRouteReads(q, w)
      BY <1>3, <2>2, StartedRecord DEF Started
    <3>2. auth[w].status = "absent"
      BY <3>1 DEF AuthorizeRouteReads
    <3> QED
      BY <1>1, <3>2
  <2> QED
    BY <2>1, <2>2
<1> QED
  BY <1>2, <1>3 DEF Permitted

(* A finished route's databases are those OpenROAD left.                    *)
LEMMA RoutedDatabases ==
    ASSUME TypeInv, RunsInv, Next, NEW w \in Variants
    PROVE  /\ <<w, "routed">> \in tmpfs' /\ <<w, "routed">> \notin tmpfs => launches[w] = 1
           /\ launches[w] > 0 => launches'[w] > 0
           /\ ended[w] # None /\ ~ Reboot =>
                (<<w, "routed">> \in tmpfs' <=> <<w, "routed">> \in tmpfs)
<1>1. w \in All /\ OwnerOf(w) /\ launches \in [All -> Nat] /\ live \subseteq Procs \X Variants
  BY DEF TypeInv, HistoryType, MachineType, All, RunsInv, OwnerInv
<1>2. ASSUME NEW l \in live, l[2] = w PROVE launches[w] = 1 /\ ended[w] = None
  <2>1. l[1] \in Procs /\ <<l[1], w>> \in live
    BY <1>1, <1>2
  <2> QED
    BY <1>1, <2>1 DEF OwnerOf
<1>3. launches[w] > 0 => launches'[w] > 0
  <2>1. ASSUME NEW v \in Variants, DocStep(v) PROVE launches' = launches
    BY <2>1, DocFrame DEF history
  <2>2. ASSUME EnvStep PROVE launches' = launches
    BY <2>2, EnvFrame
  <2>3. ASSUME NEW p \in Procs, ProcStep(p) PROVE launches[w] > 0 => launches'[w] > 0
    <3>1. CASE Launch(p)
      <4>1. launches' = [launches EXCEPT ![proc[p].v] = launches[proc[p].v] + 1]
        BY <3>1 DEF Launch
      <4>2. launches'[w] = launches[w] \/ launches'[w] = launches[w] + 1
        BY <1>1, <4>1
      <4> QED
        BY <1>1, <4>2
    <3> QED
      BY <2>3, <3>1, ProcFrame
  <2> QED
    BY <2>1, <2>2, <2>3, NextSteps DEF EnvStep
<1>4. CASE Reboot
  BY <1>3, <1>4 DEF Reboot
<1>5. CASE ~ Reboot
  BY <1>2, <1>3, <1>5, TmpfsWrites
<1> QED
  BY <1>4, <1>5

(* Everyone who holds a verdict about a permission holds the same.          *)
LEMMA PermitStep ==
    ASSUME TypeInv, RunsInv, PlacedInv, Next, SmokePermission, NEW w \in Variants, PermitHeld(w)
    PROVE  PermitHeld(w)'
<1>1. w \in All /\ OwnerOf(w) /\ launches \in [All -> Nat]
  BY DEF TypeInv, HistoryType, All, RunsInv, OwnerInv
<1>2. ASSUME NEW p \in Procs, proc'[p].at = "authorizing", proc'[p].v = w
      PROVE  /\ w \in DOMAIN RouteAuth
             /\ Loaded(w)'
             /\ proc'[p].verdict = IF Settled(w)' THEN "PASS" ELSE "BLOCKED"
             /\ auth'[w].status \in {"absent", "torn", proc'[p].verdict}
  <2>1. ~ Reboot
    BY <1>2, RebootTypes, IdleShape
  <2>2. CASE proc'[p] = proc[p]
    <3>1. /\ w \in DOMAIN RouteAuth /\ Loaded(w)
          /\ proc[p].verdict = IF Settled(w) THEN "PASS" ELSE "BLOCKED"
          /\ auth[w].status \in {"absent", "torn", proc[p].verdict}
      BY <1>2, <2>2 DEF PermitHeld
    <3>2. \A q \in Procs : proc[q].at = "authorizing" /\ proc[q].v = w =>
            proc[q].verdict = proc[p].verdict
      BY <3>1 DEF PermitHeld
    <3>3. auth'[w].status \in {"absent", "torn", proc[p].verdict}
      BY <3>1, <3>2, PermissionWrites
    <3>4. Loaded(w)' /\ (Settled(w)' <=> Settled(w))
      BY <2>1, <3>1, SettledStays
    <3> QED
      BY <2>2, <3>1, <3>3, <3>4
  <2>3. CASE proc'[p] # proc[p]
    <3>1. /\ AuthorizeRouteReads(p, w)
          /\ proc'[p].verdict = IF RouteConditions(w) THEN "PASS" ELSE "BLOCKED"
      BY <1>2, <2>3, StartedRecord DEF Started
    <3>2. /\ w \in DOMAIN RouteAuth /\ auth[w].status = "absent" /\ RouteEvidenceLoads(w)
          /\ UNCHANGED documents
      BY <3>1 DEF AuthorizeRouteReads
    <3>3. attempt[w] = "absent"
      BY <3>2 DEF PermitHeld, Permitted
    <3>4. NoPriorRoute(w)
      <4>1. manifest[w].status = "absent" /\ launches[w] = 0
        BY <1>1, <3>3 DEF OwnerOf
      <4>2. analysis[w] = NoTotals
        BY <1>1, <4>1 DEF OwnerOf
      <4>3. <<w, "routed">> \notin tmpfs
        BY <4>1 DEF PermitHeld
      <4> QED
        BY <3>3, <4>1, <4>2, <4>3 DEF NoPriorRoute
    <3>5. RouteAuth[w].permit = "smoke" /\ ~ RouteAuth[w].cheap
      BY <3>2 DEF SmokePermission
    <3>6. Loaded(w)
      BY <3>2, <3>5 DEF RouteEvidenceLoads, Loaded
    <3>7. RouteConditions(w) <=> Settled(w)
      BY <3>4, <3>5 DEF RouteConditions, Settled
    <3>8. Loaded(w)' /\ (Settled(w)' <=> Settled(w))
      BY <2>1, <3>2, <3>6, SettledStays
    <3>9. auth'[w].status = "absent"
      BY <3>2 DEF documents
    <3> QED
      BY <3>1, <3>2, <3>7, <3>8, <3>9
  <2> QED
    BY <2>2, <2>3
<1>3. ASSUME w \in DOMAIN RouteAuth, NEW p \in Procs, proc'[p].at = "checked", proc'[p].v = w
      PROVE  Permitted(w)'
  <2>1. CASE proc'[p] = proc[p]
    <3>1. Permitted(w)
      BY <1>3, <2>1 DEF PermitHeld
    <3> QED
      BY <3>1, PermittedStays
  <2>2. CASE proc'[p] # proc[p]
    <3>1. RunnerChecks(p, w)
      BY <1>3, <2>2, StartedRecord DEF Started
    <3>2. auth[w].status = "PASS"
      BY <1>3, <3>1 DEF RunnerChecks
    <3>3. Permitted(w)
      BY <3>2 DEF PermitHeld, Permitted
    <3> QED
      BY <3>3, PermittedStays
  <2> QED
    BY <2>1, <2>2
<1>4. ASSUME w \in DOMAIN RouteAuth, attempt'[w] # "absent"
      PROVE  Permitted(w)'
  <2>1. Permitted(w)
    <3>1. CASE attempt[w] # "absent"
      BY <1>4, <3>1 DEF PermitHeld
    <3>2. CASE attempt[w] = "absent"
      BY <1>4, <3>2, AttemptWrites DEF PermitHeld
    <3> QED
      BY <3>1, <3>2
  <2> QED
    BY <2>1, PermittedStays
<1>5. <<w, "routed">> \in tmpfs' => launches'[w] > 0
  BY <1>1, RoutedDatabases DEF PermitHeld
<1> QED
  BY <1>2, <1>3, <1>4, <1>5 DEF PermitHeld

(* Everyone who is about to write a gate writes the same.                   *)
LEMMA VerdictStep ==
    ASSUME TypeInv, RunsInv, RunInv, Next, NEW w \in Variants, PermitHeld(w), VerdictHeld(w)
    PROVE  VerdictHeld(w)'
<1>1. w \in All /\ OwnerOf(w) /\ RunOf(w)
  BY DEF All, RunsInv, OwnerInv, RunInv
<1> SUFFICES ASSUME NEW p \in Procs, proc'[p].at = "deciding", proc'[p].v = w
             PROVE  /\ w \in DOMAIN Gate
                    /\ placed'[Gate[w].placement] # "absent"
                    /\ manifest'[w].status # "absent"
                    /\ analysis'[w] # NoTotals
                    /\ proc'[p].verdict = IF Routed(w)' THEN "PASS" ELSE "BLOCKED"
                    /\ gate'[w] \in {"absent", "torn", proc'[p].verdict}
  BY DEF VerdictHeld
<1>2. ~ Reboot
  BY RebootTypes, IdleShape
<1>3. ASSUME w \in DOMAIN Gate, placed[Gate[w].placement] # "absent",
             manifest[w].status # "absent", analysis[w] # NoTotals
      PROVE  /\ placed'[Gate[w].placement] # "absent"
             /\ manifest'[w].status # "absent"
             /\ analysis'[w] # NoTotals
             /\ Routed(w)' <=> Routed(w)
  <2>1. placed'[Gate[w].placement] = placed[Gate[w].placement]
    BY <1>3, PlacedOnce, TableFacts
  <2>2. manifest'[w] = manifest[w]
    BY <1>3, ManifestWrites
  <2>3. analysis'[w] = analysis[w]
    BY <1>3, AnalysisWrites
  <2>4. ended[w] # None
    BY <1>1, <1>3 DEF RunOf, None
  <2>5. <<w, "routed">> \in tmpfs' <=> <<w, "routed">> \in tmpfs
    BY <1>2, <2>4, RoutedDatabases
  <2> QED
    BY <1>3, <2>1, <2>2, <2>3, <2>5 DEF Routed
<1>4. CASE proc'[p] = proc[p]
  <2>1. /\ w \in DOMAIN Gate /\ placed[Gate[w].placement] # "absent"
        /\ manifest[w].status # "absent" /\ analysis[w] # NoTotals
        /\ proc[p].verdict = IF Routed(w) THEN "PASS" ELSE "BLOCKED"
        /\ gate[w] \in {"absent", "torn", proc[p].verdict}
    BY <1>4 DEF VerdictHeld
  <2>2. \A q \in Procs : proc[q].at = "deciding" /\ proc[q].v = w =>
          proc[q].verdict = proc[p].verdict
    BY <2>1 DEF VerdictHeld
  <2>3. gate'[w] \in {"absent", "torn", proc[p].verdict}
    BY <2>1, <2>2, GateWrites
  <2> QED
    BY <1>3, <1>4, <2>1, <2>3
<1>5. CASE proc'[p] # proc[p]
  <2>1. /\ DecideGateReads(p, w)
        /\ proc'[p].verdict = IF GateConditions(w) THEN "PASS" ELSE "BLOCKED"
    BY <1>5, StartedRecord DEF Started
  <2>2. /\ w \in DOMAIN Gate /\ placed[Gate[w].placement] # "absent"
        /\ manifest[w].status # "absent" /\ analysis[w] # NoTotals
        /\ gate[w] = "absent" /\ gate' = gate
        /\ Gate[w].permission => auth[w].status \notin {"absent", "torn"}
    BY <2>1 DEF DecideGateReads, route
  <2>3. attempt[w] # "absent"
    BY <1>1, <2>2 DEF OwnerOf
  <2>4. Gate[w].permission => auth[w].status = "PASS"
    BY <2>2, <2>3, PermissionRows DEF PermitHeld, Permitted
  <2>5. GateConditions(w) <=> Routed(w)
    BY <2>4 DEF GateConditions, Routed
  <2> QED
    BY <1>3, <2>1, <2>2, <2>5
<1> QED
  BY <1>4, <1>5

(* No two verdicts, in every reachable state.                               *)
THEOREM VerdictInvariance ==
    ASSUME SmokePermission
    PROVE  Spec => [](Inv /\ VerdictInv)
<1>1. Init => VerdictInv
  <2> SUFFICES ASSUME Init, NEW w \in Variants PROVE PermitHeld(w) /\ VerdictHeld(w)
    BY DEF VerdictInv
  <2>1. \A p \in Procs : proc[p] = Idle
    BY DEF Init
  <2>2. w \in All /\ w \notin History
    BY FlowAssumption DEF All
  <2>3. attempt[w] = "absent"
    BY <2>2 DEF Init
  <2>4. <<w, "routed">> \notin tmpfs
    BY <2>2 DEF Init
  <2> QED
    BY <2>1, <2>3, <2>4, IdleShape DEF PermitHeld, VerdictHeld
<1>2. Inv /\ VerdictInv /\ [Next]_vars => VerdictInv'
  <2> SUFFICES ASSUME Inv, VerdictInv, [Next]_vars PROVE VerdictInv'
    OBVIOUS
  <2>1. CASE Next
    BY <2>1, PermitStep, VerdictStep DEF Inv, VerdictInv
  <2>2. CASE UNCHANGED vars
    <3>1. /\ UNCHANGED <<smoke, placed, numeric, reopen, auth, attempt, manifest, analysis, gate>>
          /\ UNCHANGED <<tmpfs, proc, launches>>
      BY <2>2 DEF vars, documents, route, machine, history
    <3>2. ASSUME NEW w \in Variants PROVE PermitHeld(w)'
      <4>1. Loaded(w)' <=> Loaded(w)
        BY <3>1 DEF Loaded
      <4>2. Settled(w)' <=> Settled(w)
        BY <3>1 DEF Settled, ExpectedChange
      <4>3. Permitted(w)' <=> Permitted(w)
        BY <3>1 DEF Permitted
      <4> QED
        BY <3>1, <4>1, <4>2, <4>3 DEF VerdictInv, PermitHeld
    <3>3. \A w \in Variants : VerdictHeld(w)'
      BY <3>1 DEF VerdictInv, VerdictHeld, Routed
    <3> QED
      BY <3>2, <3>3 DEF VerdictInv
  <2> QED
    BY <2>1, <2>2
<1> QED
  BY <1>1, <1>2, Invariance, PTL DEF Spec

(* A verdict of the strict gate is not overwritten by another, where the    *)
(* permission to route depends on no cheap gate: such a gate can be         *)
(* collected again between two permissions, and the later refuse what was   *)
(* routed on the earlier.                                                   *)
THEOREM OneVerdict ==
    ASSUME SmokePermission
    PROVE  Spec => VerdictStable
<1>1. Inv /\ VerdictInv /\ [Next]_vars =>
        [\A v \in Variants : gate[v] \in {"PASS", "BLOCKED"} => gate'[v] \in {gate[v], "torn"}]_vars
  <2> SUFFICES ASSUME Inv, VerdictInv, Next, NEW v \in Variants, gate[v] \in {"PASS", "BLOCKED"}
               PROVE  gate'[v] \in {gate[v], "torn"}
    OBVIOUS
  <2>1. CASE gate'[v] # gate[v] /\ gate'[v] # "torn"
    <3>1. PICK p \in Procs :
            proc[p].at = "deciding" /\ proc[p].v = v /\ gate'[v] = proc[p].verdict
      BY <2>1, GateWrites DEF Inv
    <3>2. gate[v] \in {"absent", "torn", proc[p].verdict}
      BY <3>1 DEF VerdictInv, VerdictHeld
    <3> QED
      BY <3>1, <3>2
  <2> QED
    BY <2>1
<1> QED
  BY <1>1, VerdictInvariance, PTL DEF Spec, VerdictStable

=============================================================================
