---------------------------- MODULE GpOutputsProofs ----------------------------
(* For any paths, outputs and bounds: GpOutputs is type correct, a call destroys    *)
(* nothing of others but what NothingLost names, and a handler that looks before    *)
(* and afterwards delivers.                                                         *)
(*                                                                                  *)
(* The argument: a path that a fresh handler may write was free when the handler    *)
(* looked last, and since then only others, or the call itself for that output,     *)
(* have changed it.                                                                 *)
EXTENDS GpOutputs, TLAPS

\* A path that a fresh handler is about to write was not taken when it looked last.
WasFree ==
    /\ phase = "checked" /\ style.makes = "new" /\ style.fresh =>
         \A k \in DOMAIN outs : outs[k] \notin there
    /\ phase = "export" => outs[next] \notin there

Working == phase \in {"checked", "export", "ran"}

\* At the path of each output is that output or nothing, unless others have been there.
OwnOrNone ==
    Working /\ style.fresh /\ Distinct(outs) =>
        \A k \in DOMAIN outs : outs[k] \in touched \/ store[outs[k]] \in {None, k}

\* What was exported and looked for is there.
Exports ==
    Working /\ style.fresh /\ style.verified /\ Distinct(outs) /\ style.makes = "each" =>
        \A k \in DOMAIN outs : k < next => outs[k] \in touched \/ store[outs[k]] = k

NotAnswered == phase # "idle" => answer = "none"
InList == phase # "idle" => next \in DOMAIN outs

Parts == WasFree /\ OwnOrNone /\ Exports /\ NotAnswered /\ InList

-----------------------------------------------------------------------------
(* The calls.                                                                     *)

LEMMA StylesOfCalls ==
  /\ Thin \in Styles /\ Looked \in Styles /\ Fresh \in Styles /\ FreshLooked \in Styles
  /\ Apart \in Styles /\ Exported \in Styles /\ InPlace \in Styles /\ Changed \in Styles /\ Solved \in Styles
  /\ [Fresh EXCEPT !.writer = "never"] \in Styles /\ [FreshLooked EXCEPT !.writer = "never"] \in Styles
  /\ [Exported EXCEPT !.verified = TRUE] \in Styles /\ [Looked EXCEPT !.writer = "always"] \in Styles
BY DEF Thin, Looked, Fresh, FreshLooked, Apart, Exported, InPlace, Changed, Solved, Styles

\* Every handler is a call with a style, but for three.
LEMMA Handlers ==
  ASSUME NEW os \in OutputLists, VectorCall(os) \/ RasterCall(os) \/ ModelCall(os) \/ ExportCall(os)
  PROVE  (\E s \in Styles : Call(s, os)) \/ SolveRouteOverwriting(os)
<1>. USE StylesOfCalls
<1>1. CASE VectorCall(os)
  BY <1>1 DEF VectorCall, GeometryTools, OverlapTools, GeometryChecks, SplitByAttributes, RepairGeometry,
     ExtractTools, OverlayTools, TableTools, MergeAndExportTools, GenerateNearTable, Near,
     ConversionTools, FolderTools, CreationTools, ClusterStatistics, PatternStatistics,
     Regressions, Forests, Distributions, Geocodings, CreateLasDataset
<1>2. CASE RasterCall(os)
  BY <1>2 DEF RasterCall, SurfaceTools, DensityTools, RasterConversionTools, RasterManagementTools,
     HydrologyTools, Reclassify, RasterCalculator, CopyRaster, LocalStatistics, Distances,
     StreamsAndPaths, CreateMosaic, RasterMaintenance, MosaicMaintenance, MosaicRemoval, LasPyramid
<1>3. CASE ModelCall(os)
  BY <1>3 DEF ModelCall, WeightsAndPointClusters, MultivariateClusterings, SpaceTimeCubes, TimeSeries,
     EvaluateForecasts, CurveForecasts, ForestForecast, RunTool, RunCurrentAnalysis, SolveRoute,
     SolveServiceArea, SolveClosestFacility, SolveCostMatrix
<1>4. CASE ExportCall(os)
  BY <1>4 DEF ExportCall, LayoutExports, ViewExport, MapSeriesExport, ChartExport, ReportAndMapExports,
     SharingDraft, StageDefinition, RuleExports, LasStatistics, SubnetworkExport, MapAndLayerFiles
<1>. QED
  BY <1>1, <1>2, <1>3, <1>4

LEMMA ListType ==
  ASSUME NEW os \in OutputLists
  PROVE  /\ Len(os) \in 1..MaxOutputs /\ DOMAIN os = 1..Len(os)
         /\ \A k \in DOMAIN os : os[k] \in Paths /\ k \in 1..MaxOutputs
         /\ 1 \in 1..MaxOutputs /\ 1 \in DOMAIN os
<1>1. PICK n \in 1..MaxOutputs : os \in [1..n -> Paths]
  BY DEF OutputLists
<1>2. os \in Seq(Paths) /\ n \in Nat
  BY <1>1, GpOutputsAssumption
<1>3. Len(os) = n
  BY <1>1, <1>2
<1>. QED
  BY <1>1, <1>3, GpOutputsAssumption

-----------------------------------------------------------------------------
(* Types.                                                                         *)

LEMMA InitType == Init => TypeOK
<1>. SUFFICES ASSUME Init PROVE TypeOK
  OBVIOUS
<1>1. 1 \in 1..MaxOutputs
  BY GpOutputsAssumption
<1>2. outs \in OutputLists
  BY <1>1 DEF Init, OutputLists
<1>3. store \in [Paths -> {None, Other} \cup 1..MaxOutputs]
  BY DEF Init
<1>. QED
  BY <1>1, <1>2, <1>3, StylesOfCalls, GpOutputsAssumption DEF Init, TypeOK

LEMMA CallType ==
  ASSUME TypeOK, NEW s \in Styles, NEW os \in OutputLists, Call(s, os)
  PROVE  TypeOK'
<1>1. calls' \in 0..MaxCalls
  BY GpOutputsAssumption DEF Call, Counted, TypeOK
<1>2. Taken \subseteq Paths
  BY DEF Taken
<1>. QED
  BY <1>1, <1>2, ListType DEF Call, call, TypeOK

LEMMA OverwritingType ==
  ASSUME TypeOK, NEW os \in OutputLists, SolveRouteOverwriting(os)
  PROVE  TypeOK'
<1>1. calls' \in 0..MaxCalls
  BY GpOutputsAssumption DEF SolveRouteOverwriting, Counted, TypeOK
<1>2. store' \in [Paths -> {None, Other} \cup 1..MaxOutputs]
  BY DEF SolveRouteOverwriting, TypeOK
<1>. QED
  BY <1>1, <1>2, ListType, StylesOfCalls DEF SolveRouteOverwriting, call, TypeOK

LEMMA DatasetType ==
  ASSUME TypeOK, NEW p \in Paths, NEW q \in Paths, DeleteDataset(p) \/ RenameDataset(p, q)
  PROVE  TypeOK'
<1>1. calls' \in 0..MaxCalls
  BY GpOutputsAssumption DEF DeleteDataset, RenameDataset, Counted, TypeOK
<1>2. store' \in [Paths -> {None, Other} \cup 1..MaxOutputs]
  BY DEF DeleteDataset, RenameDataset, TypeOK
<1>3. answer' \in {"none", "refused", "ok", "failed"}
  BY DEF DeleteDataset, RenameDataset
<1>. QED
  BY <1>1, <1>2, <1>3 DEF DeleteDataset, RenameDataset, call, TypeOK

LEMMA MakesType ==
  ASSUME TypeOK, NEW M, Makes(M)
  PROVE  /\ store' \in [Paths -> {None, Other} \cup 1..MaxOutputs]
         /\ UNCHANGED <<overwrite, style, outs, next, there, touched, calls, writes>>
<1>1. M \subseteq 1..MaxOutputs
  BY ListType DEF Makes, TypeOK
<1>2. \A p \in Paths : Made(M)[p] \in {None, Other} \cup 1..MaxOutputs
  <2>. SUFFICES ASSUME NEW p \in Paths PROVE Made(M)[p] \in {None, Other} \cup 1..MaxOutputs
    OBVIOUS
  <2>1. CASE \E k \in M : outs[k] = p
    <3>1. (CHOOSE k \in M : outs[k] = p) \in M
      BY <2>1
    <3>. QED
      BY <1>1, <2>1, <3>1 DEF Made
  <2>2. CASE ~\E k \in M : outs[k] = p
    BY <2>2 DEF Made, TypeOK
  <2>. QED
    BY <2>1, <2>2
<1>3. store' = Made(M) /\ Made(M) \in [Paths -> {None, Other} \cup 1..MaxOutputs]
  BY <1>2 DEF Makes, Made
<1>. QED
  BY <1>3 DEF Makes, call

LEMMA SettleType ==
  ASSUME TypeOK, NEW result \in {"ok", "failed"}, Settle(result)
  PROVE  TypeOK'
<1>1. store' \in [Paths -> {None, Other} \cup 1..MaxOutputs]
  BY DEF Settle
<1>. QED
  BY <1>1 DEF Settle, call, TypeOK

LEMMA RunType ==
  ASSUME TypeOK, Run
  PROVE  TypeOK'
<1>1. CASE ToolReturns
  BY <1>1, MakesType DEF ToolReturns, TypeOK
<1>2. CASE ToolRaises
  BY <1>2, MakesType DEF ToolRaises, TypeOK
<1>3. CASE AnswerFailed
  BY <1>3, SettleType DEF AnswerFailed
<1>4. CASE ChangeInPlace
  BY <1>4 DEF ChangeInPlace, call, TypeOK
<1>5. CASE Recheck
  <2>1. CASE Settle("failed")
    BY <2>1, SettleType
  <2>2. CASE ~Settle("failed")
    BY <1>5, <2>2 DEF Recheck, Taken, TypeOK
  <2>. QED
    BY <2>1, <2>2
<1>6. CASE Export
  BY <1>6, MakesType DEF Export, TypeOK
<1>7. CASE ExportRaises
  BY <1>7, SettleType DEF ExportRaises
<1>8. CASE Finish
  <2>1. CASE Settle("failed") \/ Settle("ok")
    BY <2>1, SettleType
  <2>2. CASE ~(Settle("failed") \/ Settle("ok"))
    <3>1. next < Len(outs) /\ next' = next + 1
      BY <1>8, <2>2 DEF Finish
    <3>2. next' \in 1..MaxOutputs
      BY <3>1, ListType, GpOutputsAssumption DEF TypeOK
    <3>. QED
      BY <1>8, <2>2, <3>2 DEF Finish, TypeOK
  <2>. QED
    BY <2>1, <2>2
<1>. QED
  BY <1>1, <1>2, <1>3, <1>4, <1>5, <1>6, <1>7, <1>8 DEF Run

LEMMA ForeignType ==
  ASSUME TypeOK, ForeignChange
  PROVE  TypeOK'
<1>1. writes' \in 0..MaxForeign
  BY GpOutputsAssumption DEF ForeignChange, TypeOK
<1>2. store' \in [Paths -> {None, Other} \cup 1..MaxOutputs] /\ touched' \subseteq Paths
  BY DEF ForeignChange, TypeOK
<1>. QED
  BY <1>1, <1>2 DEF ForeignChange, TypeOK

LEMMA NextType == TypeOK /\ [Next]_vars => TypeOK'
<1>. SUFFICES ASSUME TypeOK, [Next]_vars PROVE TypeOK'
  OBVIOUS
<1>1. CASE Begin
  BY <1>1, Handlers, CallType, OverwritingType, DatasetType DEF Begin
<1>2. CASE UNCHANGED vars
  BY <1>2 DEF vars, call, TypeOK
<1>. QED
  BY <1>1, <1>2, RunType, ForeignType DEF Next

\* Every reachable state is well typed.
THEOREM TypeCorrect == Spec => []TypeOK
BY InitType, NextType, PTL DEF Spec

-----------------------------------------------------------------------------
(* What lies at the outputs.                                                      *)

LEMMA InitParts == Init => Parts
BY DEF Init, Parts, WasFree, OwnOrNone, Exports, Working, NotAnswered, InList

LEMMA CallParts ==
  ASSUME TypeOK, Parts, NEW s \in Styles, NEW os \in OutputLists, Call(s, os)
  PROVE  Parts'
<1>1. CASE answer' = "refused"
  <2>1. UNCHANGED <<store, style, outs, next, there, touched, phase>> /\ phase = "idle"
    BY <1>1 DEF Call, Counted, call
  <2>. QED
    BY <2>1 DEF Parts, WasFree, OwnOrNone, Exports, Working, NotAnswered, InList
<1>2. CASE answer' # "refused"
  <2>1. /\ Acceptable(s, os) /\ style' = s /\ outs' = os /\ next' = 1 /\ there' = Taken
        /\ phase' = "checked" /\ answer' = "none" /\ store' = store
    BY <1>2 DEF Call
  <2>2. s.fresh => \A k \in DOMAIN os : store[os[k]] = None /\ os[k] \notin Taken
    BY <2>1, ListType DEF Acceptable, Taken
  <2>3. \A k \in DOMAIN os : ~(k < 1)
    BY ListType, GpOutputsAssumption
  <2>. QED
    BY <2>1, <2>2, <2>3, ListType DEF Parts, WasFree, OwnOrNone, Exports, Working, NotAnswered, InList
<1>. QED
  BY <1>1, <1>2

LEMMA OverwritingParts ==
  ASSUME TypeOK, Parts, NEW os \in OutputLists, SolveRouteOverwriting(os)
  PROVE  Parts'
<1>1. PICK n \in 0..Len(os) :
        /\ store' = [p \in Paths |-> IF \E k \in 1..n : os[k] = p THEN None ELSE store[p]]
        /\ \/ /\ n = Len(os) /\ Distinct(os)
              /\ style' = Solved /\ outs' = os /\ next' = 1 /\ touched' = {}
              /\ there' = {p \in Paths : store'[p] # None}
              /\ phase' = "checked" /\ answer' = "none"
           \/ answer' = "failed" /\ UNCHANGED <<call, phase>>
  BY DEF SolveRouteOverwriting
<1>2. CASE answer' = "failed"
  <2>1. UNCHANGED <<style, outs, next, there, touched, phase>> /\ phase = "idle"
    BY <1>1, <1>2 DEF SolveRouteOverwriting, Counted, call
  <2>. QED
    BY <2>1 DEF Parts, WasFree, OwnOrNone, Exports, Working, NotAnswered, InList
<1>3. CASE answer' # "failed"
  <2>1. \A k \in DOMAIN os : store'[os[k]] = None
    BY <1>1, <1>3, ListType
  <2>2. \A k \in DOMAIN os : ~(k < 1)
    BY ListType, GpOutputsAssumption
  <2>3. /\ outs' = os /\ next' = 1 /\ phase' = "checked" /\ answer' = "none"
        /\ \A k \in DOMAIN os : os[k] \notin there'
    BY <1>1, <1>3, <2>1
  <2>4. WasFree' /\ NotAnswered' /\ InList'
    BY <2>3, ListType DEF WasFree, NotAnswered, InList
  <2>5. OwnOrNone'
    BY <2>1, <2>3 DEF OwnOrNone
  <2>6. Exports'
    BY <2>2, <2>3 DEF Exports
  <2>. QED
    BY <2>4, <2>5, <2>6 DEF Parts
<1>. QED
  BY <1>2, <1>3

\* What a tool or an export has made is the output itself, when no two are at one path.
LEMMA MakesOwn ==
  ASSUME TypeOK, NEW M, Makes(M)
  PROVE  /\ \A p \in Paths : store'[p] = store[p] \/ \E k \in M : outs[k] = p
         /\ Distinct(outs) => \A k \in DOMAIN outs :
              store'[outs[k]] = (IF k \in M THEN k ELSE store[outs[k]])
<1>1. M \subseteq DOMAIN outs /\ store' = Made(M)
  BY DEF Makes
<1>2. ASSUME NEW p \in Paths, ~\E k \in M : outs[k] = p PROVE store'[p] = store[p]
  BY <1>1, <1>2 DEF Made
<1>3. ASSUME Distinct(outs), NEW k \in M PROVE store'[outs[k]] = k
  <2>1. (CHOOSE j \in M : outs[j] = outs[k]) = k
    BY <1>1, <1>3 DEF Distinct
  <2>2. outs[k] \in Paths
    BY <1>1, ListType DEF TypeOK
  <2>. QED
    BY <1>1, <2>1, <2>2 DEF Made
<1>4. ASSUME Distinct(outs), NEW k \in DOMAIN outs, k \notin M PROVE store'[outs[k]] = store[outs[k]]
  BY <1>1, <1>2, <1>4, ListType DEF Distinct, TypeOK
<1>. QED
  BY <1>1, <1>2, <1>3, <1>4

LEMMA SettleParts ==
  ASSUME TypeOK, Parts, NEW result, Settle(result)
  PROVE  Parts'
BY DEF Settle, Parts, WasFree, OwnOrNone, Exports, Working, NotAnswered, InList

LEMMA ToolParts ==
  ASSUME TypeOK, Parts, ToolReturns \/ ToolRaises
  PROVE  Parts'
<1>1. PICK M \in SUBSET DOMAIN outs : Makes(M)
  BY DEF ToolReturns, ToolRaises
<1>2. /\ phase = "checked" /\ phase' \in {"ran", "raised"} /\ style.makes = "new" /\ answer' = answer
      /\ UNCHANGED <<style, outs, next, there, touched>>
  BY <1>1, MakesType DEF ToolReturns, ToolRaises
<1>. QED
  BY <1>1, <1>2, MakesOwn DEF Parts, WasFree, OwnOrNone, Exports, Working, NotAnswered, InList, Distinct

LEMMA ExportParts ==
  ASSUME TypeOK, Parts, Export
  PROVE  Parts'
<1>1. Makes({next})
  BY DEF Export
<1>2. /\ phase = "export" /\ phase' = "ran" /\ answer' = answer
      /\ UNCHANGED <<style, outs, next, there, touched>>
  BY <1>1, MakesType DEF Export
<1>3. next \in Nat
  BY DEF TypeOK
<1>. QED
  BY <1>1, <1>2, <1>3, MakesOwn DEF Parts, WasFree, OwnOrNone, Exports, Working, NotAnswered, InList, Distinct

LEMMA RecheckParts ==
  ASSUME TypeOK, Parts, Recheck
  PROVE  Parts'
<1>1. CASE Settle("failed")
  BY <1>1, SettleParts
<1>2. CASE ~Settle("failed")
  <2>1. /\ outs[next] \notin Taken /\ phase = "checked" /\ phase' = "export" /\ there' = Taken
        /\ UNCHANGED <<store, style, outs, next, touched, answer>>
    BY <1>2 DEF Recheck
  <2>. QED
    BY <2>1 DEF Parts, WasFree, OwnOrNone, Exports, Working, NotAnswered, InList
<1>. QED
  BY <1>1, <1>2

LEMMA FinishParts ==
  ASSUME TypeOK, Parts, Finish
  PROVE  Parts'
<1>1. CASE Settle("failed") \/ Settle("ok")
  BY <1>1, SettleParts
<1>2. CASE ~(Settle("failed") \/ Settle("ok"))
  <2>1. /\ phase = "ran" /\ style.makes = "each" /\ next < Len(outs)
        /\ style.verified => Present
        /\ phase' = "checked" /\ next' = next + 1
        /\ UNCHANGED <<store, style, outs, there, touched, answer>>
    BY <1>2 DEF Finish
  <2>2. next \in Nat /\ next \in DOMAIN outs /\ next' \in DOMAIN outs /\ DOMAIN outs \subseteq Nat
    BY <2>1, ListType, GpOutputsAssumption DEF TypeOK
  <2>3. style.verified => store[outs[next]] # None
    BY <2>1, <2>2 DEF Present
  <2>. QED
    BY <2>1, <2>2, <2>3 DEF Parts, WasFree, OwnOrNone, Exports, Working, NotAnswered, InList
<1>. QED
  BY <1>1, <1>2

LEMMA NextParts == TypeOK /\ Parts /\ [Next]_vars => Parts'
<1>. SUFFICES ASSUME TypeOK, Parts, [Next]_vars PROVE Parts'
  OBVIOUS
<1>1. CASE UNCHANGED vars
  BY <1>1 DEF vars, call, Parts, WasFree, OwnOrNone, Exports, Working, NotAnswered, InList
<1>2. ASSUME NEW p \in Paths, NEW q \in Paths, DeleteDataset(p) \/ RenameDataset(p, q) PROVE Parts'
  <2>1. UNCHANGED <<style, outs, next, there, touched, phase>> /\ phase = "idle"
    BY <1>2 DEF DeleteDataset, RenameDataset, Counted, call
  <2>. QED
    BY <2>1 DEF Parts, WasFree, OwnOrNone, Exports, Working, NotAnswered, InList
<1>3. CASE Begin
  BY <1>2, <1>3, Handlers, CallParts, OverwritingParts DEF Begin
<1>4. CASE ChangeInPlace
  <2>1. /\ UNCHANGED <<store, style, outs, next, there, touched>> /\ phase = "checked"
        /\ \/ phase' = "ran" /\ answer' = answer
           \/ phase' = "idle" /\ answer' = "failed"
    BY <1>4 DEF ChangeInPlace, call
  <2>. QED
    BY <2>1 DEF Parts, WasFree, OwnOrNone, Exports, Working, NotAnswered, InList
<1>5. CASE AnswerFailed \/ ExportRaises
  BY <1>5, SettleParts DEF AnswerFailed, ExportRaises
<1>6. CASE ForeignChange
  <2>1. /\ \A p \in Paths : p \notin touched' => store'[p] = store[p]
        /\ touched \subseteq touched'
        /\ UNCHANGED <<style, outs, next, there, phase, answer>>
    BY <1>6 DEF ForeignChange, TypeOK
  <2>2. \A k \in DOMAIN outs : outs[k] \in Paths
    BY ListType DEF TypeOK
  <2>. QED
    BY <2>1, <2>2 DEF Parts, WasFree, OwnOrNone, Exports, Working, NotAnswered, InList
<1>. QED
  BY <1>1, <1>3, <1>4, <1>5, <1>6, ToolParts, ExportParts, RecheckParts, FinishParts DEF Next, Run

THEOREM Invariance == Spec => [](TypeOK /\ Parts)
<1>1. Init => TypeOK /\ Parts
  BY InitType, InitParts
<1>2. TypeOK /\ Parts /\ [Next]_vars => (TypeOK /\ Parts)'
  BY NextType, NextParts
<1>. QED
  BY <1>1, <1>2, PTL DEF Spec

-----------------------------------------------------------------------------
(* The two promises.                                                              *)

LEMMA MakesKeeps ==
  ASSUME TypeOK, NEW M, Makes(M), NEW p \in Paths, store[p] = Other, store'[p] # Other
  PROVE  /\ style.writer # "never" /\ (style.writer = "session" => overwrite)
         /\ \E k \in M : k \in DOMAIN outs /\ outs[k] = p
<1>1. PICK k \in M : outs[k] = p /\ k \in DOMAIN outs
  BY MakesOwn DEF Makes
<1>2. store[outs[k]] # None
  BY <1>1, GpOutputsAssumption
<1>3. Replaces
  BY <1>1, <1>2 DEF Makes, Makeable
<1>. QED
  BY <1>1, <1>3 DEF Replaces

LEMMA SettleKeeps ==
  ASSUME NEW result, Settle(result), NEW p \in Paths, store[p] = Other
  PROVE  store'[p] = Other
BY GpOutputsAssumption DEF Settle

\* Nothing of others is lost but what NothingLost names.
THEOREM OthersKept == Spec => NothingLost
<1>. DEFINE Kept == \A p \in Paths :
              /\ phase # "idle" /\ writes' = writes
              /\ store[p] = Other /\ store'[p] # Other
              => /\ style.writer # "never"
                 /\ (style.writer = "session" => overwrite)
                 /\ (style.fresh => p \notin there)
<1>1. TypeOK /\ Parts /\ [Next]_vars => [Kept]_vars
  <2>. SUFFICES ASSUME TypeOK, Parts, Next, NEW p \in Paths, phase # "idle", writes' = writes,
                       store[p] = Other, store'[p] # Other
       PROVE  /\ style.writer # "never"
              /\ (style.writer = "session" => overwrite)
              /\ (style.fresh => p \notin there)
    OBVIOUS
  <2>1. ~Begin
    BY Handlers DEF Begin, Call, SolveRouteOverwriting, DeleteDataset, RenameDataset, Counted
  <2>2. ~ForeignChange
    BY DEF ForeignChange, TypeOK
  <2>3. CASE ToolReturns \/ ToolRaises
    <3>1. PICK M \in SUBSET DOMAIN outs : Makes(M)
      BY <2>3 DEF ToolReturns, ToolRaises
    <3>2. style.fresh => \A k \in DOMAIN outs : outs[k] \notin there
      BY <2>3 DEF ToolReturns, ToolRaises, Parts, WasFree
    <3>. QED
      BY <3>1, <3>2, MakesKeeps
  <2>4. CASE Export
    <3>1. Makes({next}) /\ outs[next] \notin there
      BY <2>4 DEF Export, Parts, WasFree
    <3>. QED
      BY <3>1, MakesKeeps
  <2>5. CASE AnswerFailed \/ ChangeInPlace \/ Recheck \/ ExportRaises \/ Finish
    <3>1. store' = store \/ Settle("failed") \/ Settle("ok")
      BY <2>5 DEF AnswerFailed, ChangeInPlace, Recheck, ExportRaises, Finish
    <3>. QED
      BY <3>1, SettleKeeps
  <2>. QED
    BY <2>1, <2>2, <2>3, <2>4, <2>5 DEF Next, Run
<1>. QED
  BY <1>1, Invariance, PTL DEF Spec, NothingLost

\* A handler that looks before and looks afterwards delivers.
THEOREM Delivers == Spec => Delivered
<1>. DEFINE There == phase = "ran" /\ answer' = "ok" /\ style.fresh /\ style.verified /\ Distinct(outs) =>
                       \A k \in DOMAIN outs : outs[k] \in touched \/ store[outs[k]] = k
<1>1. TypeOK /\ Parts /\ [Next]_vars => [There]_vars
  <2>. SUFFICES ASSUME TypeOK, Parts, Next, phase = "ran", answer' = "ok", style.fresh, style.verified,
                       Distinct(outs), NEW k \in DOMAIN outs
       PROVE  outs[k] \in touched \/ store[outs[k]] = k
    OBVIOUS
  <2>1. ~Begin
    BY Handlers DEF Begin, Call, SolveRouteOverwriting, DeleteDataset, RenameDataset, Counted
  <2>2. Finish /\ Settle("ok")
    <3>1. answer = "none"
      BY DEF Parts, NotAnswered
    <3>. QED
      BY <2>1, <3>1 DEF Next, Run, ForeignChange, ToolReturns, ToolRaises, AnswerFailed, ChangeInPlace,
         Recheck, Export, ExportRaises, Finish, Settle
  <2>3. Present /\ ~(style.makes = "each" /\ next < Len(outs))
    BY <2>2 DEF Finish, Settle
  <2>4. next \in DOMAIN outs /\ DOMAIN outs = 1..Len(outs) /\ Len(outs) \in Nat
    BY ListType, GpOutputsAssumption DEF TypeOK, Parts, InList
  <2>5. CASE style.makes # "each" \/ k = next
    BY <2>3, <2>5 DEF Present, Parts, OwnOrNone, Working
  <2>6. CASE style.makes = "each" /\ k # next
    <3>1. k < next
      BY <2>3, <2>4, <2>6
    <3>. QED
      BY <2>6, <3>1 DEF Parts, Exports, Working
  <2>. QED
    BY <2>5, <2>6
<1>. QED
  BY <1>1, Invariance, PTL DEF Spec, Delivered
=============================================================================
