---------------------------- MODULE VariantTable ----------------------------
(***************************************************************************)
(* The scripts of the quad-local variant flow, one definition per script.  *)
(* Every variant B3 ... B25 of the physical design has its own copies of   *)
(* select_bN_*.py, authorize_bN_*.py and decide_bN_phase6_strict_gate.py   *)
(* in tools/.  What the copies of one kind share is the constructor        *)
(* operator; what each copy has of its own (the evidence it reads, the     *)
(* change it selects or expects, the files it insists on) are its          *)
(* arguments.  VariantFlow gives these records their meaning.              *)
(*                                                                         *)
(* Values that the scripts spell as text are numbers here: metal layers by *)
(* their index, max_phi_coef in hundredths, pitches and origins in um, the *)
(* completion boundary of B25 by its width in bits.                        *)
(***************************************************************************)
EXTENDS Integers, FiniteSets, TLC

Eco(name, variable, before, after) ==
    [decision |-> name, variable |-> variable, before |-> before, after |-> after]

Whole == {"decision", "variable", "before", "after"}

-----------------------------------------------------------------------------
(* tools/select_bN_*.py: what a variant's selection reads of its            *)
(* predecessor, and the change it selects.                                  *)

\* The predecessor was routed and its strict gate is BLOCKED with the totals the script names.
AfterBlocked(v, pred, eco) ==
    [variant |-> v, predecessor |-> pred, evidence |-> "blocked", also |-> {},
     rudyOf |-> "none", overwrites |-> FALSE, freshDir |-> FALSE, eco |-> eco]

\* B13 and B17 ... B24 also insist on creating the variant's report directory themselves.
AfterBlockedFresh(v, pred, eco) ==
    [AfterBlocked(v, pred, eco) EXCEPT !.freshDir = TRUE]

\* The predecessor's OpenROAD aborted with exit code 134 before it wrote a route.
AfterToolError(v, pred, eco) ==
    [AfterBlockedFresh(v, pred, eco) EXCEPT !.evidence = "toolError"]

\* The predecessor's placement failed in the named way before any route.
AfterPlacementFailure(v, pred, how, eco) ==
    [AfterBlocked(v, pred, eco) EXCEPT !.evidence = how]

SelectB3 ==
    [AfterBlocked("B3", "B2", Eco("SELECT_B3_ROUTE_EFFORT_ECO", "cugrIterations", 1, 10))
        EXCEPT !.overwrites = TRUE]

SelectB4 ==
    AfterBlocked("B4", "B3", Eco("SELECT_B4_RUDY_ROUTABILITY_RESPREAD_ECO", "rudyRespread", 0, 1))

SelectB5 ==
    AfterPlacementFailure("B5", "B4", "legality",
        Eco("SELECT_B5_DIAMOND_LEGALIZER_ECO", "diamondLegalizer", 0, 1))

SelectB6 ==
    AfterPlacementFailure("B6", "B5", "interrupted",
        Eco("SELECT_B6_TARGETED_ANCHOR_LOCK_ECO", "lockedAnchors", 0, 2))

SelectB7 ==
    AfterPlacementFailure("B7", "B6", "divergence",
        Eco("SELECT_B7_LOWER_MAX_PHI_ECO", "maxPhi", 105, 101))

SelectB8 ==
    [AfterPlacementFailure("B8", "B7", "legality",
        Eco("SELECT_B8_HIGHER_DRC_PENALTY_ECO", "drcPenalty", 20, 100)) EXCEPT !.rudyOf = "B7"]

SelectB9 ==
    [AfterPlacementFailure("B9", "B8", "legality",
        Eco("SELECT_B9_SEVEN_ADDITIONAL_ANCHORS_ECO", "lockedAnchors", 2, 9)) EXCEPT !.rudyOf = "B7"]

SelectB10 ==
    AfterBlocked("B10", "B9", Eco("SELECT_B10_ROUTE_PIN_GRID_COLUMNS_ECO", "columns", 25, 29))

SelectB11 ==
    AfterBlocked("B11", "B9", Eco("SELECT_B11_ROUTE_PIN_GRID_COLUMNS_ECO", "columns", 25, 21))

SelectB12 ==
    AfterBlocked("B12", "B11", Eco("SELECT_B12_SIGNAL_LAYER_BOTTOM_ECO", "signalBottom", 1, 2))

SelectB13 ==
    AfterBlockedFresh("B13", "B12", Eco("SELECT_B13_BUMP_GRID_WIDER_ECO", "columns", 21, 33))

SelectB14 ==
    AfterToolError("B14", "B13", Eco("SELECT_B14_BUMP_GRID_WIDER_ECO", "columns", 33, 17))

SelectB15 ==
    AfterToolError("B15", "B14", Eco("SELECT_B15_CLOCK_LAYER_RESTORE_ECO", "clockBottom", 1, 2))

SelectB16 ==
    AfterToolError("B16", "B15", Eco("SELECT_B16_BUMP_GRID_COLUMNS_ECO", "columns", 17, 23))

SelectB17 ==
    AfterBlockedFresh("B17", "B16", Eco("SELECT_B17_BUMP_PITCH_ECO", "pitch", 250, 300))

SelectB18 ==
    AfterBlockedFresh("B18", "B17", Eco("SELECT_B18_BUMP_PITCH_ECO", "pitch", 300, 350))

SelectB19 ==
    AfterToolError("B19", "B18", Eco("SELECT_B19_BUMP_PITCH_ECO", "pitch", 350, 340))

SelectB20 ==
    AfterToolError("B20", "B19", Eco("SELECT_B20_BUMP_Y_ORIGIN_ECO", "yOrigin", 1500, 1000))

SelectB21 ==
    AfterToolError("B21", "B20", Eco("SELECT_B21_BUMP_ORIGIN_ECO", "yOrigin", 1500, 1000))

SelectB22 ==
    AfterBlockedFresh("B22", "B21", Eco("SELECT_B22_BUMP_ORIGIN_ECO", "yOrigin", 1000, 500))

SelectB23 ==
    AfterBlockedFresh("B23", "B21", Eco("SELECT_B23_BUMP_ORIGIN_ECO", "yOrigin", 1000, 750))

SelectB24 ==
    AfterBlockedFresh("B24", "B21", Eco("SELECT_B24_BUMP_ORIGIN_ECO", "yOrigin", 1000, 1250))

SelectB25 ==
    [AfterBlocked("B25", "B24",
        Eco("SELECT_B25_AGGREGATED_COMPLETION_DESCRIPTOR_ECO", "completionTransport", 68, 17))
        EXCEPT !.also = {"B21"}]

Selections ==
    {SelectB3, SelectB4, SelectB5, SelectB6, SelectB7, SelectB8, SelectB9, SelectB10,
     SelectB11, SelectB12, SelectB13, SelectB14, SelectB15, SelectB16, SelectB17,
     SelectB18, SelectB19, SelectB20, SelectB21, SelectB22, SelectB23, SelectB24, SelectB25}

-----------------------------------------------------------------------------
(* tools/authorize_bN_physical_run.py, authorize_b25_placement.py: what the *)
(* permission to place asks for.  cheapOf is the variant whose cheap gate   *)
(* is read, sealed the predecessor whose placement failure is re-checked,   *)
(* rudyOf the variant whose RUDY checkpoint must still have its hash,       *)
(* exclusive whether the permission is created with open("x").              *)

PlacementPermit(v, cheapOf, checks, eco) ==
    [variant |-> v, cheapOf |-> cheapOf, smoke |-> FALSE, sealed |-> "none", rudyOf |-> "none",
     noPrior |-> FALSE, exclusive |-> FALSE, checks |-> checks, eco |-> eco]

AuthorizeB3PhysicalRun ==
    [PlacementPermit("B3", "B3", {"decision", "after"},
        Eco("SELECT_B3_ROUTE_EFFORT_ECO", "cugrIterations", 1, 10)) EXCEPT !.exclusive = TRUE]

AuthorizeB4PhysicalRun ==
    [PlacementPermit("B4", "B4", {"decision", "variable"},
        Eco("SELECT_B4_RUDY_ROUTABILITY_RESPREAD_ECO", "rudyRespread", 0, 1)) EXCEPT !.exclusive = TRUE]

AuthorizeB5PhysicalRun ==
    PlacementPermit("B5", "B5", {"decision"},
        Eco("SELECT_B5_DIAMOND_LEGALIZER_ECO", "diamondLegalizer", 0, 1))

AuthorizeB6PhysicalRun ==
    [PlacementPermit("B6", "B5", {"decision", "after"},
        Eco("SELECT_B6_TARGETED_ANCHOR_LOCK_ECO", "lockedAnchors", 0, 2))
        EXCEPT !.sealed = "B5"]

\* From B7 on a fresh smoke is required, and that no placement was attempted before.
SmokedPermit(v, pred, checks, eco) ==
    [PlacementPermit(v, "B5", checks, eco)
        EXCEPT !.smoke = TRUE, !.sealed = pred, !.noPrior = TRUE]

AuthorizeB7PhysicalRun ==
    SmokedPermit("B7", "B6", Whole, Eco("SELECT_B7_LOWER_MAX_PHI_ECO", "maxPhi", 105, 101))

AuthorizeB8PhysicalRun ==
    [SmokedPermit("B8", "B7", Whole, Eco("SELECT_B8_HIGHER_DRC_PENALTY_ECO", "drcPenalty", 20, 100))
        EXCEPT !.rudyOf = "B7"]

AuthorizeB9PhysicalRun ==
    [SmokedPermit("B9", "B8", Whole,
        Eco("SELECT_B9_SEVEN_ADDITIONAL_ANCHORS_ECO", "lockedAnchors", 2, 9))
        EXCEPT !.rudyOf = "B7"]

\* B25 asks for its cheap gate and the inputs' existence, not for a decision of a given name.
AuthorizeB25Placement ==
    [PlacementPermit("B25", "B25", {},
        Eco("SELECT_B25_AGGREGATED_COMPLETION_DESCRIPTOR_ECO", "completionTransport", 68, 17))
        EXCEPT !.noPrior = TRUE]

PlacementPermits ==
    {AuthorizeB3PhysicalRun, AuthorizeB4PhysicalRun, AuthorizeB5PhysicalRun,
     AuthorizeB6PhysicalRun, AuthorizeB7PhysicalRun, AuthorizeB8PhysicalRun,
     AuthorizeB9PhysicalRun, AuthorizeB25Placement}

-----------------------------------------------------------------------------
(* run_wbq_quad_local_bN_placement.sh: whether the runner reads the cheap   *)
(* gate once more (cheap) and compares the hashes the permission recorded   *)
(* (pinned), which OpenROAD its traps stop (pid; "none" is a runner without *)
(* traps), whether the report names a legality failure by a class of its    *)
(* own (classed), whether the placement keeps a RUDY checkpoint.            *)

PlacementRunner(v, pid) ==
    [variant |-> v, cheap |-> FALSE, pinned |-> pid # "none", pid |-> pid, classed |-> FALSE,
     writesRudy |-> FALSE]

PlacementRunners ==
    {[PlacementRunner(v, "none") EXCEPT !.cheap = TRUE] : v \in {"B3", "B4", "B5"}}
      \cup {[PlacementRunner("B6", "none") EXCEPT !.writesRudy = TRUE],
            [PlacementRunner("B7", "child") EXCEPT !.writesRudy = TRUE],
            [PlacementRunner("B8", "child") EXCEPT !.classed = TRUE],
            [PlacementRunner("B9", "child") EXCEPT !.classed = TRUE],
            [PlacementRunner("B25", "newest") EXCEPT !.cheap = TRUE]}

-----------------------------------------------------------------------------
(* tools/analyze_bN_placement_log.py: how many locked anchors the log must  *)
(* verify, and whether the RUDY stage is part of this placement.            *)

AnalyzeB6PlacementLog == [variant |-> "B6", anchors |-> 2, rudyStage |-> TRUE]
AnalyzeB7PlacementLog == [variant |-> "B7", anchors |-> 2, rudyStage |-> TRUE]
AnalyzeB9PlacementLog == [variant |-> "B9", anchors |-> 9, rudyStage |-> FALSE]

PlacementLogs == {AnalyzeB6PlacementLog, AnalyzeB7PlacementLog, AnalyzeB9PlacementLog}

-----------------------------------------------------------------------------
(* tools/authorize_bN_global_route.py: the permission for the one global    *)
(* route of a variant.  placement is the variant whose sealed placement is  *)
(* routed, permit the document that must be PASS (the placement permit or   *)
(* the route-pin smoke), checks the fields of the decision compared with    *)
(* the change this script expects.                                          *)

RoutePermit(v, placement, document, checks, eco) ==
    [variant |-> v, placement |-> placement, permit |-> document, numeric |-> TRUE,
     reopenAnchors |-> 9, cheap |-> FALSE, checks |-> checks, eco |-> eco]

\* B10 ... B24 re-route the sealed placement of B9 with one changed route parameter.
SharedPlacementRoute(v, eco) == RoutePermit(v, "B9", "smoke", Whole, eco)

AuthorizeB6GlobalRoute ==
    [RoutePermit("B6", "B6", "physical", {"decision"},
        Eco("SELECT_B6_TARGETED_ANCHOR_LOCK_ECO", "lockedAnchors", 0, 2))
        EXCEPT !.numeric = FALSE, !.reopenAnchors = 2]

AuthorizeB7GlobalRoute ==
    [RoutePermit("B7", "B7", "physical", {"decision"},
        Eco("SELECT_B7_LOWER_MAX_PHI_ECO", "maxPhi", 105, 101))
        EXCEPT !.reopenAnchors = 2]

AuthorizeB9GlobalRoute ==
    RoutePermit("B9", "B9", "physical", Whole,
        Eco("SELECT_B9_SEVEN_ADDITIONAL_ANCHORS_ECO", "lockedAnchors", 2, 9))

AuthorizeB10GlobalRoute ==
    SharedPlacementRoute("B10", Eco("SELECT_B10_ROUTE_PIN_GRID_COLUMNS_ECO", "columns", 25, 29))

AuthorizeB11GlobalRoute ==
    SharedPlacementRoute("B11", Eco("SELECT_B11_ROUTE_PIN_GRID_COLUMNS_ECO", "columns", 25, 21))

AuthorizeB12GlobalRoute ==
    SharedPlacementRoute("B12", Eco("SELECT_B12_SIGNAL_LAYER_BOTTOM_ECO", "signalBottom", 1, 2))

AuthorizeB13GlobalRoute ==
    SharedPlacementRoute("B13", Eco("SELECT_B13_BUMP_GRID_WIDER_ECO", "columns", 21, 33))

AuthorizeB14GlobalRoute ==
    SharedPlacementRoute("B14", Eco("SELECT_B14_BUMP_GRID_WIDER_ECO", "columns", 33, 17))

AuthorizeB15GlobalRoute ==
    SharedPlacementRoute("B15", Eco("SELECT_B15_CLOCK_LAYER_RESTORE_ECO", "clockBottom", 1, 2))

AuthorizeB16GlobalRoute ==
    SharedPlacementRoute("B16", Eco("SELECT_B16_BUMP_GRID_COLUMNS_ECO", "columns", 17, 23))

AuthorizeB17GlobalRoute ==
    SharedPlacementRoute("B17", Eco("SELECT_B17_BUMP_PITCH_ECO", "pitch", 250, 300))

AuthorizeB18GlobalRoute ==
    SharedPlacementRoute("B18", Eco("SELECT_B18_BUMP_PITCH_ECO", "pitch", 300, 350))

AuthorizeB19GlobalRoute ==
    SharedPlacementRoute("B19", Eco("SELECT_B19_BUMP_PITCH_ECO", "pitch", 350, 340))

AuthorizeB20GlobalRoute ==
    SharedPlacementRoute("B20", Eco("SELECT_B20_BUMP_Y_ORIGIN_ECO", "yOrigin", 1500, 1000))

AuthorizeB21GlobalRoute ==
    SharedPlacementRoute("B21", Eco("SELECT_B21_BUMP_ORIGIN_ECO", "yOrigin", 1500, 1000))

AuthorizeB22GlobalRoute ==
    SharedPlacementRoute("B22", Eco("SELECT_B22_BUMP_ORIGIN_ECO", "yOrigin", 1000, 500))

AuthorizeB23GlobalRoute ==
    SharedPlacementRoute("B23", Eco("SELECT_B23_BUMP_ORIGIN_ECO", "yOrigin", 1000, 750))

AuthorizeB24GlobalRoute ==
    SharedPlacementRoute("B24", Eco("SELECT_B24_BUMP_ORIGIN_ECO", "yOrigin", 1000, 1250))

\* B25 has its own placement and reads its cheap gate instead of a reopen audit (0 anchors asked).
AuthorizeB25GlobalRoute ==
    [RoutePermit("B25", "B25", "smoke", {"decision", "variable"},
        Eco("SELECT_B25_AGGREGATED_COMPLETION_DESCRIPTOR_ECO", "completionTransport", 68, 17))
        EXCEPT !.numeric = FALSE, !.reopenAnchors = 0, !.cheap = TRUE]

RoutePermits ==
    {AuthorizeB6GlobalRoute, AuthorizeB7GlobalRoute, AuthorizeB9GlobalRoute,
     AuthorizeB10GlobalRoute, AuthorizeB11GlobalRoute, AuthorizeB12GlobalRoute,
     AuthorizeB13GlobalRoute, AuthorizeB14GlobalRoute, AuthorizeB15GlobalRoute,
     AuthorizeB16GlobalRoute, AuthorizeB17GlobalRoute, AuthorizeB18GlobalRoute,
     AuthorizeB19GlobalRoute, AuthorizeB20GlobalRoute, AuthorizeB21GlobalRoute,
     AuthorizeB22GlobalRoute, AuthorizeB23GlobalRoute, AuthorizeB24GlobalRoute,
     AuthorizeB25GlobalRoute}

-----------------------------------------------------------------------------
(* run_wbq_quad_local_bN_global_route.sh: how the runner finds the OpenROAD *)
(* it started: not at all (in the foreground and without traps), as the one *)
(* process of that name, or as its own child; and whether its report says   *)
(* that the protected databases were preserved.                             *)

RouteRunner(v, pid) == [variant |-> v, pid |-> pid, preserved |-> TRUE]

RouteRunners ==
    {[RouteRunner("B3", "none") EXCEPT !.preserved = FALSE],
     RouteRunner("B4", "none"), RouteRunner("B5", "none"), RouteRunner("B25", "child")}
      \cup {RouteRunner(v, "named") : v \in
              {"B6", "B7", "B9", "B10", "B11", "B12", "B13", "B14", "B15", "B16", "B17", "B18",
               "B19", "B20", "B21", "B22", "B23", "B24"}}

-----------------------------------------------------------------------------
(* tools/decide_bN_phase6_strict_gate.py: which placement report the gate   *)
(* reads, whether it reads the route permission and the protected-artifact  *)
(* flag, and whether it is created with open("x") or overwrites.            *)

StrictGate(v, placement) ==
    [variant |-> v, placement |-> placement, permission |-> TRUE, protected |-> TRUE,
     exclusive |-> FALSE]

DecideB3StrictGate ==
    [StrictGate("B3", "B3") EXCEPT !.permission = FALSE, !.protected = FALSE, !.exclusive = TRUE]
DecideB4StrictGate ==
    [StrictGate("B4", "B4") EXCEPT !.permission = FALSE, !.exclusive = TRUE]
DecideB5StrictGate ==
    [StrictGate("B5", "B5") EXCEPT !.permission = FALSE, !.exclusive = TRUE]
DecideB6StrictGate == StrictGate("B6", "B6")
DecideB7StrictGate == StrictGate("B7", "B7")
DecideB9StrictGate == StrictGate("B9", "B9")
DecideB10StrictGate == StrictGate("B10", "B9")
DecideB11StrictGate == StrictGate("B11", "B9")
DecideB12StrictGate == StrictGate("B12", "B9")
DecideB13StrictGate == StrictGate("B13", "B9")
DecideB14StrictGate == StrictGate("B14", "B9")
DecideB15StrictGate == StrictGate("B15", "B9")
DecideB16StrictGate == StrictGate("B16", "B9")
DecideB17StrictGate == StrictGate("B17", "B9")
DecideB18StrictGate == StrictGate("B18", "B9")
DecideB19StrictGate == StrictGate("B19", "B9")
DecideB20StrictGate == StrictGate("B20", "B9")
DecideB21StrictGate == StrictGate("B21", "B9")
DecideB22StrictGate == StrictGate("B22", "B9")
DecideB23StrictGate == StrictGate("B23", "B9")
DecideB24StrictGate == StrictGate("B24", "B9")
DecideB25StrictGate == StrictGate("B25", "B25")

StrictGates ==
    {DecideB3StrictGate, DecideB4StrictGate, DecideB5StrictGate, DecideB6StrictGate,
     DecideB7StrictGate, DecideB9StrictGate, DecideB10StrictGate, DecideB11StrictGate,
     DecideB12StrictGate, DecideB13StrictGate, DecideB14StrictGate, DecideB15StrictGate,
     DecideB16StrictGate, DecideB17StrictGate, DecideB18StrictGate, DecideB19StrictGate,
     DecideB20StrictGate, DecideB21StrictGate, DecideB22StrictGate, DecideB23StrictGate,
     DecideB24StrictGate, DecideB25StrictGate}

-----------------------------------------------------------------------------
(* verification/groot_normalization/wbq_quad_local_bN_global_route.tcl: the *)
(* parameters the route really runs with.                                   *)

RouteSetup(columns, pitch, xOrigin, yOrigin, signalBottom, clockBottom) ==
    [columns |-> columns, pitch |-> pitch, xOrigin |-> xOrigin, yOrigin |-> yOrigin,
     signalBottom |-> signalBottom, clockBottom |-> clockBottom]

RouteTcl ==
       "B9" :> RouteSetup(25, 250, 1500, 1500, 1, 2)
    @@ "B10" :> RouteSetup(29, 250, 1500, 1500, 1, 2)
    @@ "B11" :> RouteSetup(21, 250, 1500, 1500, 1, 2)
    @@ "B12" :> RouteSetup(21, 250, 1500, 1500, 2, 2)
    @@ "B13" :> RouteSetup(33, 250, 1500, 1500, 1, 1)
    @@ "B14" :> RouteSetup(17, 250, 1500, 1500, 1, 1)
    @@ "B15" :> RouteSetup(17, 250, 1500, 1500, 1, 2)
    @@ "B16" :> RouteSetup(23, 250, 1500, 1500, 1, 2)
    @@ "B17" :> RouteSetup(25, 300, 1500, 1500, 1, 2)
    @@ "B18" :> RouteSetup(25, 350, 1500, 1500, 1, 2)
    @@ "B19" :> RouteSetup(25, 340, 1500, 1500, 1, 2)
    @@ "B20" :> RouteSetup(25, 350, 1500, 1000, 1, 2)
    @@ "B21" :> RouteSetup(25, 300, 1500, 1000, 1, 2)
    @@ "B22" :> RouteSetup(25, 300, 1500, 500, 1, 2)
    @@ "B23" :> RouteSetup(25, 300, 1750, 750, 1, 2)
    @@ "B24" :> RouteSetup(25, 300, 1500, 1250, 1, 2)
    @@ "B25" :> RouteSetup(25, 300, 1500, 1000, 1, 2)

-----------------------------------------------------------------------------
\* The records of a table, indexed by variant.
ByVariant(table) ==
    [v \in {r.variant : r \in table} |-> CHOOSE r \in table : r.variant = v]

Selection == ByVariant(Selections)
Physical == ByVariant(PlacementPermits)
PlacementRun == ByVariant(PlacementRunners)
PlacementLog == ByVariant(PlacementLogs)
RouteAuth == ByVariant(RoutePermits)
RouteRun == ByVariant(RouteRunners)
Gate == ByVariant(StrictGates)

=============================================================================
