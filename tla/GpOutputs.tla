------------------------------- MODULE GpOutputs -------------------------------
(* The datasets and files that the geoprocessing and export tools of file mode     *)
(* write: gp_*.py, raster_runtime, raster_advanced, spatial_modeling, lidar,       *)
(* geocoding, network_analysis, gp_generic, live_analysis and the exports.         *)
(*                                                                                 *)
(* A handler checks its gates, parameters and output paths, runs one tool of       *)
(* ArcGIS or one export after the other, looks for the outputs and answers.  The   *)
(* handlers differ in what they ask of the paths, in whether the tool may replace  *)
(* a dataset that is there, and in what they look at afterwards: that is a style,  *)
(* and every group of handlers is a call with its style.  The tool is not this     *)
(* code: it may make some outputs and raise, or return without one.  Other         *)
(* programs create and remove datasets at any time.                                *)
EXTENDS Naturals, Sequences

CONSTANTS
    Paths,          \* output paths
    None,           \* nothing is at the path
    Other,          \* a dataset that is not an output of the call in progress
    MaxOutputs,     \* bound: outputs of a call
    MaxCalls,       \* bound: calls
    MaxForeign      \* bound: changes by other programs

ASSUME GpOutputsAssumption ==
    /\ MaxOutputs \in Nat \ {0} /\ MaxCalls \in Nat /\ MaxForeign \in Nat
    /\ None # Other /\ None \notin Nat /\ Other \notin Nat

\* fresh: an output that exists is refused; distinct: so are two outputs at one path;
\* verified: the outputs are looked for afterwards.  The writer replaces what is there
\* always (a file export), never (EnvManager with overwriteOutput=False), or if the
\* ArcPy session says so.  The outputs are new ones of one tool, or exported each in
\* turn, or kept: a dataset that is there is changed in place.
Styles == [fresh : BOOLEAN, distinct : BOOLEAN, verified : BOOLEAN,
           writer : {"session", "never", "always"}, makes : {"new", "each", "kept"}]

Thin == [fresh |-> FALSE, distinct |-> FALSE, verified |-> FALSE, writer |-> "session", makes |-> "new"]
Looked == [Thin EXCEPT !.verified = TRUE]
Fresh == [Thin EXCEPT !.fresh = TRUE]
FreshLooked == [Fresh EXCEPT !.verified = TRUE]
Apart == [FreshLooked EXCEPT !.distinct = TRUE]
Exported == [Fresh EXCEPT !.writer = "always"]
InPlace == [Looked EXCEPT !.makes = "kept"]
Changed == [Thin EXCEPT !.makes = "kept"]

OutputLists == UNION {[1..n -> Paths] : n \in 1..MaxOutputs}

VARIABLES
    store,      \* what is at each path: None, Other, or the number of the output of the call
    overwrite,  \* arcpy.env.overwriteOutput of the session, which no handler sets
    style,      \* the call in progress: its style,
    outs,       \* its outputs,
    next,       \* the output to be exported next,
    there,      \* the paths that were taken when it looked last,
    touched,    \* and those that others have changed since it began
    phase,      \* "idle", "checked", "export" (looked once more), "ran", "raised" (the tool)
    answer,     \* what the last call answered
    calls, writes   \* counters of the bounds

call == <<style, outs, next, there, touched>>
vars == <<store, overwrite, call, phase, answer, calls, writes>>

TypeOK ==
    /\ store \in [Paths -> {None, Other} \cup 1..MaxOutputs]
    /\ overwrite \in BOOLEAN
    /\ style \in Styles /\ outs \in OutputLists /\ next \in 1..MaxOutputs
    /\ there \subseteq Paths /\ touched \subseteq Paths
    /\ phase \in {"idle", "checked", "export", "ran", "raised"}
    /\ answer \in {"none", "refused", "ok", "failed"}
    /\ calls \in 0..MaxCalls /\ writes \in 0..MaxForeign

Init ==
    /\ store \in [Paths -> {None, Other}]
    /\ overwrite \in BOOLEAN
    /\ style = Thin /\ outs \in [1..1 -> Paths] /\ next = 1 /\ there = {} /\ touched = {}
    /\ phase = "idle" /\ answer = "none"
    /\ calls = 0 /\ writes = 0

-----------------------------------------------------------------------------
(* The frame of a call.                                                           *)

\* (Mutant: what is there, and not where.)
TakenValues == {store[p] : p \in Paths}
Taken == {p \in Paths : store[p] # None}

Distinct(os) == \A j, k \in DOMAIN os : os[j] = os[k] => j = k

\* What a handler asks of its output paths before the tool runs (mutant: it does not
\* ask whether they are free).
AcceptableIfTaken(s, os) ==
    /\ s.distinct => Distinct(os)
    /\ s.makes = "kept" /\ s.verified => \A k \in DOMAIN os : store[os[k]] # None
Acceptable(s, os) ==
    /\ s.fresh => \A k \in DOMAIN os : store[os[k]] = None
    /\ s.distinct => Distinct(os)
    /\ s.makes = "kept" /\ s.verified => \A k \in DOMAIN os : store[os[k]] # None

Counted == phase = "idle" /\ calls < MaxCalls /\ calls' = calls + 1

\* A gate, a root, a parameter or a path may refuse the call before anything is done.
Call(s, os) ==
    /\ Counted
    /\ \/ /\ Acceptable(s, os)
          /\ style' = s /\ outs' = os /\ next' = 1 /\ there' = Taken /\ touched' = {}
          /\ phase' = "checked" /\ answer' = "none"
       \/ answer' = "refused" /\ UNCHANGED <<call, phase>>
    /\ UNCHANGED <<store, overwrite, writes>>

\* When the call has ended its outputs are datasets like any other, and so is what a
\* failed call has left behind.
Settle(result) ==
    /\ store' = [p \in Paths |-> IF store[p] = None THEN None ELSE Other]
    /\ phase' = "idle" /\ answer' = result
    /\ UNCHANGED <<overwrite, call, calls, writes>>

-----------------------------------------------------------------------------
(* The tool.                                                                      *)

Replaces == style.writer = "always" \/ (style.writer = "session" /\ overwrite)

\* The tool has made the outputs in M; of two at one path one stays.
Makeable(M) ==
    Replaces \/ \A k \in M : store[outs[k]] = None /\ \A j \in M : outs[j] = outs[k] => j = k
Made(M) == [p \in Paths |-> IF \E k \in M : outs[k] = p THEN CHOOSE k \in M : outs[k] = p ELSE store[p]]

Makes(M) == /\ M \subseteq DOMAIN outs /\ Makeable(M)
            /\ store' = Made(M)
            /\ UNCHANGED <<overwrite, call, calls, writes>>

ToolReturns ==
    /\ phase = "checked" /\ style.makes = "new"
    /\ \E M \in SUBSET DOMAIN outs : Makes(M)
    /\ phase' = "ran" /\ UNCHANGED answer

\* It raises, and what it has made stays.
ToolRaises ==
    /\ phase = "checked" /\ style.makes = "new"
    /\ \E M \in SUBSET DOMAIN outs : Makes(M)
    /\ phase' = "raised" /\ UNCHANGED answer

\* What a handler raises becomes the failure that the call answers.
AnswerFailed == phase = "raised" /\ Settle("failed")

\* The tool raises when the dataset is not there; a handler may leave that to it.
ChangeInPlace ==
    /\ phase = "checked" /\ style.makes = "kept"
    /\ \/ phase' = "ran" /\ UNCHANGED answer /\ \A k \in DOMAIN outs : store[outs[k]] # None
       \/ phase' = "idle" /\ answer' = "failed"
    /\ UNCHANGED <<store, overwrite, call, calls, writes>>

\* _export_outputs: each path is looked at once more, right before its export; the
\* solver may also fail.
Recheck ==
    /\ phase = "checked" /\ style.makes = "each"
    /\ IF outs[next] \in Taken
       THEN Settle("failed")
       ELSE \/ /\ phase' = "export" /\ there' = Taken
               /\ UNCHANGED <<store, overwrite, style, outs, next, touched, answer, calls, writes>>
            \/ Settle("failed")

Export ==
    /\ phase = "export"
    /\ Makes({next})
    /\ phase' = "ran" /\ UNCHANGED answer

ExportRaises == phase = "export" /\ Settle("failed")

\* The outputs, or the one just exported, exist (mutant: that is not asked).
NotLookedFor == TRUE
Present == \A k \in DOMAIN outs :
             (style.makes = "each" => k = next) => store[outs[k]] # None

Finish ==
    /\ phase = "ran"
    /\ IF style.verified /\ ~Present THEN Settle("failed")
       ELSE IF style.makes = "each" /\ next < Len(outs)
       THEN /\ phase' = "checked" /\ next' = next + 1
            /\ UNCHANGED <<store, overwrite, style, outs, there, touched, answer, calls, writes>>
       ELSE Settle("ok")

-----------------------------------------------------------------------------
(* The handlers.  A group has the style its functions share.                      *)

One == {os \in OutputLists : Len(os) = 1}

\* Only a path below the output root is asked for: what is there is replaced or not as
\* the session has it.
GeometryTools(os) == os \in One /\ Call(Thin, os)
OverlapTools(os) == os \in One /\ Call(Thin, os)
GeometryChecks(os) == os \in One /\ Call(Thin, os)
ExtractTools(os) == os \in One /\ Call(Thin, os)
OverlayTools(os) == os \in One /\ Call(Thin, os)
TableTools(os) == os \in One /\ Call(Thin, os)
MergeAndExportTools(os) == os \in One /\ Call(Thin, os)
GenerateNearTable(os) == os \in One /\ Call(Thin, os)
ConversionTools(os) == os \in One /\ Call(Thin, os)
CreationTools(os) == os \in One /\ Call(Thin, os)
SurfaceTools(os) == os \in One /\ Call(Thin, os)
DensityTools(os) == os \in One /\ Call(Thin, os)
RasterConversionTools(os) == os \in One /\ Call(Thin, os)
RasterManagementTools(os) == os \in One /\ Call(Thin, os)
ClusterStatistics(os) == os \in One /\ Call(Thin, os)
PatternStatistics(os) == os \in One /\ Call(Thin, os)
Regressions(os) == Call(Thin, os)
Forests(os) == os \in One /\ Call(Thin, os)
Distributions(os) == os \in One /\ Call(Thin, os)

\* The path is a workspace or a folder, and the tool writes several datasets into it.
SplitByAttributes(os) == Call(Thin, os)
FolderTools(os) == Call(Thin, os)

\* The input itself is changed, and only the tool asks whether it is there.
RepairGeometry(os) == os \in One /\ Call(Changed, os)
Near(os) == os \in One /\ Call(Changed, os)

\* raster_runtime.py looks for the raster it has saved.
HydrologyTools(os) == Call(Looked, os)

\* The path must be free.
Reclassify(os) == os \in One /\ Call(Fresh, os)
RasterCalculator(os) == os \in One /\ Call(Fresh, os)

\* The paths must be free, and the outputs are looked for.
WeightsAndPointClusters(os) == os \in One /\ Call(FreshLooked, os)
MultivariateClusterings(os) == Call(FreshLooked, os)
SpaceTimeCubes(os) == os \in One /\ Call(FreshLooked, os)
TimeSeries(os) == Call(FreshLooked, os)
EvaluateForecasts(os) == Call(FreshLooked, os)
CopyRaster(os) == os \in One /\ Call(FreshLooked, os)
LocalStatistics(os) == os \in One /\ Call(FreshLooked, os)
Distances(os) == Call(FreshLooked, os)
StreamsAndPaths(os) == os \in One /\ Call(FreshLooked, os)
CreateMosaic(os) == os \in One /\ Call(FreshLooked, os)
CreateLasDataset(os) == os \in One /\ Call(FreshLooked, os)
Geocodings(os) == os \in One /\ Call(FreshLooked, os)

\* Two outputs of a forecast must not be at one path.
CurveForecasts(os) == Call(Apart, os)
ForestForecast(os) == Call(Apart, os)

\* The session's setting is turned off for the call.
RunTool(os) == Call([Fresh EXCEPT !.writer = "never"], os)
RunCurrentAnalysis(os) == Call([FreshLooked EXCEPT !.writer = "never"], os)

\* The network solvers export their outputs one by one.
Solved == [Apart EXCEPT !.makes = "each"]
SolveRoute(os) == Call(Solved, os)
SolveServiceArea(os) == Call(Solved, os)
SolveClosestFacility(os) == Call(Solved, os)
SolveCostMatrix(os) == Call(Solved, os)

\* With overwrite and both confirmations the outputs that are there are deleted, one by
\* one; only then is everything else asked, and what is deleted is gone.
SolveRouteOverwriting(os) ==
    /\ Counted
    /\ \E n \in 0..Len(os) :
         /\ store' = [p \in Paths |-> IF \E k \in 1..n : os[k] = p THEN None ELSE store[p]]
         /\ \/ /\ n = Len(os) /\ Distinct(os)
               /\ style' = Solved /\ outs' = os /\ next' = 1 /\ touched' = {}
               /\ there' = {p \in Paths : store'[p] # None}
               /\ phase' = "checked" /\ answer' = "none"
            \/ answer' = "failed" /\ UNCHANGED <<call, phase>>
    /\ UNCHANGED <<overwrite, writes>>

\* The export methods of layouts, views, charts and reports overwrite a file; some
\* handlers look for it afterwards.
LayoutExports(os) == os \in One /\ Call(Exported, os)
ViewExport(os) == os \in One /\ Call(Exported, os)
MapSeriesExport(os) == os \in One /\ Call(Exported, os)
ChartExport(os) == os \in One /\ Call(Exported, os)
ReportAndMapExports(os) == os \in One /\ Call(Exported, os)
SharingDraft(os) == os \in One /\ Call([Exported EXCEPT !.verified = TRUE], os)
StageDefinition(os) == os \in One /\ Call(FreshLooked, os)
RuleExports(os) == os \in One /\ Call(FreshLooked, os)
LasStatistics(os) == os \in One /\ Call(FreshLooked, os)
SubnetworkExport(os) == os \in One /\ Call(FreshLooked, os)

\* A map or layer file that is there may be overwritten with a confirmation.
MapAndLayerFiles(os) ==
    /\ os \in One
    /\ \/ Call([Exported EXCEPT !.verified = TRUE], os)
       \/ Call([Looked EXCEPT !.writer = "always"], os)

\* A dataset is changed where it is, and must be there before and after.
RasterMaintenance(os) == os \in One /\ Call(InPlace, os)
MosaicMaintenance(os) == os \in One /\ Call(InPlace, os)
MosaicRemoval(os) == os \in One /\ Call(InPlace, os)
LasPyramid(os) == os \in One /\ Call(InPlace, os)

\* Delete asks for the destructive gate and a confirmation, and looks afterwards;
\* Rename for the write gate only: it does not replace a dataset.
DeleteDataset(p) ==
    /\ Counted
    /\ \/ store' = [store EXCEPT ![p] = None] /\ answer' = "ok"
       \/ UNCHANGED store /\ answer' \in {"refused", "failed"}
    /\ UNCHANGED <<overwrite, call, phase, writes>>

RenameDataset(p, q) ==
    /\ Counted
    /\ \/ store[p] # None /\ store[q] = None /\ answer' = "ok"
          /\ store' = [store EXCEPT ![p] = None, ![q] = Other]
       \/ UNCHANGED store /\ answer' \in {"refused", "failed"}
    /\ UNCHANGED <<overwrite, call, phase, writes>>

VectorCall(os) ==
    \/ GeometryTools(os) \/ OverlapTools(os) \/ GeometryChecks(os) \/ SplitByAttributes(os) \/ RepairGeometry(os)
    \/ ExtractTools(os) \/ OverlayTools(os) \/ TableTools(os) \/ MergeAndExportTools(os)
    \/ GenerateNearTable(os) \/ Near(os) \/ ConversionTools(os) \/ FolderTools(os) \/ CreationTools(os)
    \/ ClusterStatistics(os) \/ PatternStatistics(os) \/ Regressions(os) \/ Forests(os)
    \/ Distributions(os) \/ Geocodings(os) \/ CreateLasDataset(os)

RasterCall(os) ==
    \/ SurfaceTools(os) \/ DensityTools(os) \/ RasterConversionTools(os) \/ RasterManagementTools(os)
    \/ HydrologyTools(os) \/ Reclassify(os) \/ RasterCalculator(os)
    \/ CopyRaster(os) \/ LocalStatistics(os) \/ Distances(os) \/ StreamsAndPaths(os) \/ CreateMosaic(os)
    \/ RasterMaintenance(os) \/ MosaicMaintenance(os) \/ MosaicRemoval(os) \/ LasPyramid(os)

ModelCall(os) ==
    \/ WeightsAndPointClusters(os) \/ MultivariateClusterings(os) \/ SpaceTimeCubes(os) \/ TimeSeries(os)
    \/ EvaluateForecasts(os) \/ CurveForecasts(os) \/ ForestForecast(os)
    \/ RunTool(os) \/ RunCurrentAnalysis(os)
    \/ SolveRoute(os) \/ SolveServiceArea(os) \/ SolveClosestFacility(os) \/ SolveCostMatrix(os)
    \/ SolveRouteOverwriting(os)

ExportCall(os) ==
    \/ LayoutExports(os) \/ ViewExport(os) \/ MapSeriesExport(os) \/ ChartExport(os) \/ ReportAndMapExports(os)
    \/ SharingDraft(os) \/ StageDefinition(os) \/ RuleExports(os) \/ LasStatistics(os) \/ SubnetworkExport(os)
    \/ MapAndLayerFiles(os)

Begin ==
    \/ \E os \in OutputLists : VectorCall(os) \/ RasterCall(os) \/ ModelCall(os) \/ ExportCall(os)
    \/ \E p, q \in Paths : DeleteDataset(p) \/ RenameDataset(p, q)

Run == ToolReturns \/ ToolRaises \/ AnswerFailed \/ ChangeInPlace \/ Recheck \/ Export \/ ExportRaises \/ Finish

\* Another program creates, replaces or removes a dataset.
ForeignChange ==
    /\ writes < MaxForeign
    /\ \E p \in Paths, v \in {None, Other} :
         store' = [store EXCEPT ![p] = v] /\ touched' = touched \cup {p}
    /\ writes' = writes + 1
    /\ UNCHANGED <<overwrite, style, outs, next, there, phase, answer, calls>>

Next == Begin \/ Run \/ ForeignChange

Spec == Init /\ [][Next]_vars

-----------------------------------------------------------------------------
(* Properties.                                                                    *)

\* What a call that runs destroys of others: nothing at all when it has turned off
\* overwriteOutput; nothing without the session's overwriteOutput, but for a file
\* export; and of a handler that refuses existing outputs only what came to the path
\* after the handler had looked.  Its own earlier outputs, its leftovers and those of
\* other calls count as theirs.
NothingLost ==
    [][\A p \in Paths :
         /\ phase # "idle" /\ writes' = writes
         /\ store[p] = Other /\ store'[p] # Other
         => /\ style.writer # "never"
            /\ (style.writer = "session" => overwrite)
            /\ (style.fresh => p \notin there)]_vars

\* A handler that looked before and looks afterwards delivers: when it answers ok,
\* every output path that no other program has touched holds the output of this call
\* for this path, although only existence is asked.  Two outputs at one path are
\* excluded, which the handlers of spatial_modeling and raster_advanced do not refuse.
Delivered ==
    [][phase = "ran" /\ answer' = "ok" /\ style.fresh /\ style.verified /\ Distinct(outs) =>
         \A k \in DOMAIN outs : outs[k] \in touched \/ store[outs[k]] = k]_vars
=============================================================================
