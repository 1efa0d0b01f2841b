---------------------------- MODULE ProjectSession ----------------------------
(* One project file in file mode: the ArcGISProject the server keeps open and its *)
(* copy in memory (server.py), the edits that the tools of server.py, cartography, *)
(* symbology, charts and project_catalog make to it, and the two-step repair of    *)
(* connections (project_io.py).                                                    *)
(*                                                                                 *)
(* The first call that names the project opens it; every later call finds it in    *)
(* _PROJECT_CACHE, whatever happened to the file meanwhile.  An edit changes the   *)
(* copy; only save_project writes the file.  The stdio server runs one call at a   *)
(* time, so a call is one step; another program may save the file between any two. *)
EXTENDS Naturals, Sequences

CONSTANTS
    Items,          \* the data sources of layers and tables
    Settings,       \* everything else that tools set: the members of a map, a renderer,
                    \* a name, the extent of a map frame, a layout element, ...
    Entries,        \* folder connections (databases, toolboxes likewise)
    Connections,    \* the connections an item may have
    Looks,          \* the values a setting may have
    Broken,         \* those that cannot be opened
    NoProject,      \* the project is not in the cache
    Unset,          \* no acknowledged edit of a part since it was saved
    Files,          \* the project files there may be at first
    Repairs,        \* the lists of repairs a client may ask for
    MaxCalls,       \* bound: calls that edit, save, repair or drop the project
    MaxForeign      \* bound: saves of another program

\* An entry is not listed, listed, or listed and marked as the home folder (as the
\* default database or toolbox).
Marks == {"absent", "listed", "home"}
Parts == Items \cup Settings \cup Entries
Values == Connections \cup Looks \cup Marks
Contents == {f \in [Parts -> Values] :
               /\ \A i \in Items : f[i] \in Connections
               /\ \A s \in Settings : f[s] \in Looks
               /\ \A e \in Entries : f[e] \in Marks}

\* A repair names an item, the connection it is said to have and the one it is to
\* have, and says whether that is to be validated.
Operations == [item : Items, current : Connections, new : Connections, validate : BOOLEAN]

ASSUME ProjectSessionAssumption ==
    /\ Items \cap Entries = {} /\ Settings \cap (Items \cup Entries) = {}
    /\ Broken \subseteq Connections
    /\ NoProject \notin Contents /\ Unset \notin Values
    /\ Files \subseteq Contents /\ Repairs \subseteq Seq(Operations)
    /\ MaxCalls \in Nat /\ MaxForeign \in Nat

VARIABLES
    file,       \* the .aprx
    project,    \* the cached ArcGISProject, or NoProject
    readOnly,   \* its isReadOnly
    tokens,     \* the repair tokens that verify: the digests of repairs and targets
    answer,     \* what the last call answered
    acked,      \* history: the last acknowledged, unsaved edit of each part
    calls, saves   \* counters of the bounds

vars == <<file, project, readOnly, tokens, answer, acked, calls, saves>>

NoneAcked == [p \in Parts |-> Unset]

Tokens == [repairs : Repairs, targets : [Items -> Connections \cup {Unset}]]

TypeOK ==
    /\ file \in Contents
    /\ project \in Contents \cup {NoProject}
    /\ readOnly \in BOOLEAN
    /\ \A t \in tokens : t.repairs \in Repairs /\ t.targets \in [Items -> Connections \cup {Unset}]
    /\ answer \in {"none", "ok", "refused", "failed", "stranded"}
    /\ acked \in [Parts -> Values \cup {Unset}]
    /\ calls \in 0..MaxCalls /\ saves \in 0..MaxForeign

Init ==
    /\ file \in Files
    /\ project = NoProject /\ readOnly = FALSE
    /\ tokens = {} /\ answer = "none"
    /\ acked = NoneAcked
    /\ calls = 0 /\ saves = 0

-----------------------------------------------------------------------------
(* The cache.                                                                     *)

\* _open_project: the copy in the cache, and only without one the file (mutant: the
\* cache is not asked).
OpenedAfresh == file
Opened == IF project = NoProject THEN file ELSE project

\* isReadOnly is decided when the project is opened: another program may have it.
Opening == IF project = NoProject THEN readOnly' \in BOOLEAN ELSE UNCHANGED readOnly

Counted == calls < MaxCalls /\ calls' = calls + 1

\* A call that found the project, answers and leaves p in the cache; the parts it was
\* asked to edit are acknowledged, or, when it did not succeed, no longer are.
Leaves(p, asked, result) ==
    /\ Counted /\ Opening
    /\ project' = p
    /\ answer' = result
    /\ acked' = [q \in Parts |-> IF q \notin asked THEN acked[q]
                                 ELSE IF result = "ok" THEN p[q] ELSE Unset]
    /\ UNCHANGED <<file, saves>>

\* Every tool that only reads a project opens it and leaves it in the cache.
Look ==
    /\ project = NoProject
    /\ project' = Opened /\ Opening
    /\ UNCHANGED <<file, tokens, answer, acked, calls, saves>>

SaveProject ==
    /\ Counted /\ Opening
    /\ project' = Opened
    /\ IF readOnly' THEN answer' = "refused" /\ UNCHANGED <<file, acked>>
                    ELSE answer' = "ok" /\ file' = Opened /\ acked' = NoneAcked
    /\ UNCHANGED <<tokens, saves>>

\* A copy under a new name; the file and what is unsaved stay.
SaveProjectCopy == Leaves(Opened, {}, "ok") /\ UNCHANGED tokens

\* release_project and reload_project: both gates, and the exact echo of the path.
ReleaseProject ==
    /\ Counted
    /\ project' = NoProject /\ acked' = NoneAcked
    /\ answer' = "ok"
    /\ UNCHANGED <<file, readOnly, tokens, saves>>

ReloadProject ==
    /\ Counted
    /\ project' = file /\ readOnly' \in BOOLEAN /\ acked' = NoneAcked
    /\ answer' = "ok"
    /\ UNCHANGED <<file, tokens, saves>>

\* The cached project may lock the data: it is dropped, saved or not, and then the
\* field is altered, which may fail.  The write gate alone is asked.
AddFieldAlias ==
    /\ Counted
    /\ project' = NoProject /\ acked' = NoneAcked
    /\ answer' \in {"ok", "failed"}
    /\ UNCHANGED <<file, readOnly, tokens, saves>>

-----------------------------------------------------------------------------
(* Edits of the copy.                                                             *)

\* A tool that builds the new value and assigns it last, or makes one call, changes
\* all or nothing.
Assign(p, v) ==
    /\ \/ Leaves([Opened EXCEPT ![p] = v], {p}, "ok")
       \/ Leaves(Opened, {}, "refused")
    /\ UNCHANGED tokens

\* A tool that makes one assignment or call after the other, each checked when its
\* turn comes, may fail with some of them done.
AssignEach(p, v, q, w) ==
    LET first == [Opened EXCEPT ![p] = v]
    IN /\ \/ Leaves([first EXCEPT ![q] = w], {p, q}, "ok")
          \/ Leaves(first, {p, q}, "failed")
          \/ Leaves(Opened, {}, "refused")
       /\ UNCHANGED tokens

\* The tools of server.py on maps, layers and map frames.
SetLayerProperty(s, v) == Assign(s, v)
AddLayers(s, v) == Assign(s, v)
ChangeMembers(s, v) == Assign(s, v)
ArrangeLayers(s, v) == Assign(s, v)
SetDefaultCamera(s, v, t, w) == AssignEach(s, v, t, w)
EditJoins(s, v) == Assign(s, v)
SetTextAndExtent(s, v) == Assign(s, v)
ApplySymbology(s, v) == Assign(s, v)
SetScaleRange(s, v, t, w) == AssignEach(s, v, t, w)
ToggleLabels(s, v) == Assign(s, v)
ZoomMapFrame(s, v) == Assign(s, v)
UpdateLayerCim(s, v) == Assign(s, v)
AddBasemap(s, v) == Assign(s, v)
CreateMap(s, v, t, w) == AssignEach(s, v, t, w)
RemoveMap(s, v) == Assign(s, v)
DuplicateMap(s, v, t, w) == AssignEach(s, v, t, w)
RenameMap(s, v) == Assign(s, v)
PanToExtent(s, v) == Assign(s, v)
EnableTime(s, v) == Assign(s, v)
SetMapFrameTime(s, v, t, w) == AssignEach(s, v, t, w)

\* Its tools on layouts.  A new layout is made and named before its map is looked
\* for: when that fails the layout stays.
SetElementPosition(s, v, t, w) == AssignEach(s, v, t, w)
SetElementVisible(s, v) == Assign(s, v)
UpdateLegendItems(s, v, t, w) == AssignEach(s, v, t, w)
CreateLayout(s, v, t, w) == AssignEach(s, v, t, w)
ChangeLayouts(s, v) == Assign(s, v)
SetProjectDefaults(s, v, t, w) == AssignEach(s, v, t, w)

\* cartography.py and project_io.py.
SetDefinitionQueries(s, v) == Assign(s, v)
PasteLayerProperties(s, v) == Assign(s, v)
UpdateReportSection(s, v, t, w) == AssignEach(s, v, t, w)
UpdateBookmark(s, v, t, w) == AssignEach(s, v, t, w)
CreateLayoutFromTemplate(s, v, t, w) == AssignEach(s, v, t, w)
UpsertLayoutElement(s, v, t, w) == AssignEach(s, v, t, w)
UpsertLabelClass(s, v, t, w) == AssignEach(s, v, t, w)
UpdateTableProperties(s, v, t, w) == AssignEach(s, v, t, w)

\* symbology.py: symbology or CIM definition is changed on a copy, and then set.
SetRenderer(s, v) == Assign(s, v)
SetColorizer(s, v) == Assign(s, v)
SetLabelFont(s, v) == Assign(s, v)
UpdateLabelExpression(s, v, t, w) == AssignEach(s, v, t, w)

\* charts.py: all is checked, the chart object is changed, and added or updated last.
UpsertChart(s, v) == Assign(s, v)

\* The data source of a layer is replaced, without a way back.
ReplaceDataSource(i, c) == Assign(i, c)
RepairLayerSource(i, c) == Assign(i, c)

\* The list of connections is written again with the new one; to mark it, the mark
\* of the others is taken away first (mutant of Listed: the entry is left blank).
ListedBlank(p, e, mark) == [p EXCEPT ![e] = Unset]
Listed(p, e, mark) == [p EXCEPT ![e] = mark]
Unmarked(p) == [q \in Parts |-> IF q \in Entries /\ p[q] = "home" THEN "listed" ELSE p[q]]

\* ArcPy leaves out a connection that does not validate, and the answer says so.
AddConnection(e, mark) ==
    LET base == IF mark = "home" THEN Unmarked(Opened) ELSE Opened
    IN /\ IF Opened[e] # "absent" THEN Leaves(Opened, {}, "refused")
          ELSE \/ Leaves(Listed(base, e, mark), Entries, "ok")
               \/ Leaves(base, Entries, "failed")
       /\ UNCHANGED tokens

RemoveConnection(e) ==
    /\ IF Opened[e] = "listed" THEN Leaves([Opened EXCEPT ![e] = "absent"], {e}, "ok")
                               ELSE Leaves(Opened, {}, "refused")
    /\ UNCHANGED tokens

-----------------------------------------------------------------------------
(* Connections.                                                                   *)

\* updateConnectionProperties changes an item that has the connection named first,
\* and does nothing to another one.
Update(p, i, from, to) == IF p[i] = from THEN [p EXCEPT ![i] = to] ELSE p

\* The project when the call returns: ArcPy, asked to validate, may also decline a
\* connection that cannot be opened, and says nothing.
Updated(p, op) ==
    {Update(p, op.item, op.current, op.new)} \cup {q \in {p} : op.validate /\ op.new \in Broken}

\* The way back exchanges the two connections (mutant: in the same order again).
BackTheSameWay(p, op) == Update(p, op.item, op.current, op.new)
Back(p, op) == Update(p, op.item, op.new, op.current)

\* replace_item_connection: a validated item must not be broken afterwards.
BrokenAfter(q, op) == op.validate /\ q[op.item] \in Broken

Repaired(p, op) == {q \in Updated(p, op) : ~BrokenAfter(q, op)}

\* It fails when the update raises, and when the item is broken.  It is then taken back,
\* which may raise too: the error says so, and the item is stranded where it is.
Unrepaired(p, op) ==
    {[project |-> p, answer |-> "failed"]}
    \cup UNION {{[project |-> Back(q, op), answer |-> "failed"], [project |-> q, answer |-> "stranded"]} :
                  q \in {r \in Updated(p, op) : BrokenAfter(r, op)}}

ReplaceItemConnection(op) ==
    /\ \/ \E q \in Repaired(Opened, op) : Leaves(q, {op.item}, "ok")
       \/ \E f \in Unrepaired(Opened, op) : Leaves(f.project, {op.item}, f.answer)
    /\ UNCHANGED tokens

ItemsOf(repairs) == {repairs[k].item : k \in DOMAIN repairs}

\* What the preflight shows, and the token signs, of the targets as they are now.
TargetsOf(repairs) == [i \in Items |-> IF i \in ItemsOf(repairs) THEN Opened[i] ELSE Unset]

ConnectionRepairPreflight(repairs) ==
    /\ tokens' = tokens \cup {[repairs |-> repairs, targets |-> TargetsOf(repairs)]}
    /\ tokens' # tokens
    /\ Leaves(Opened, {}, "ok")

\* What the project may be after the first n repairs, none of them failing, for every n.
Done(repairs) ==
    LET done[n \in 0..Len(repairs)] ==
          IF n = 0 THEN {Opened} ELSE UNION {Repaired(p, repairs[n]) : p \in done[n - 1]}
    IN done

\* The repairs are done one after the other; the first that fails ends the call.
Stops(repairs) ==
    \E n \in DOMAIN repairs : \E p \in Done(repairs)[n - 1] : \E f \in Unrepaired(p, repairs[n]) :
        Leaves(f.project, ItemsOf(repairs), f.answer)

\* A token is good while it verifies and its targets are as it says: it is not used up.
ConnectionRepairApply(t) ==
    /\ t \in tokens
    /\ UNCHANGED tokens
    /\ IF t.targets # TargetsOf(t.repairs) THEN Leaves(Opened, {}, "refused")
       ELSE \/ \E p \in Done(t.repairs)[Len(t.repairs)] : Leaves(p, ItemsOf(t.repairs), "ok")
            \/ Stops(t.repairs)

-----------------------------------------------------------------------------
(* The world outside.                                                             *)

TokenExpires ==
    /\ \E t \in tokens : tokens' = tokens \ {t}
    /\ UNCHANGED <<file, project, readOnly, answer, acked, calls, saves>>

\* Another program saves the project file.
ForeignSave ==
    /\ saves < MaxForeign
    /\ \/ \E i \in Items, c \in Connections : file' = [file EXCEPT ![i] = c]
       \/ \E s \in Settings, v \in Looks : file' = [file EXCEPT ![s] = v]
    /\ saves' = saves + 1
    /\ UNCHANGED <<project, readOnly, tokens, answer, acked, calls>>

\* The server process ends: the copy is lost, and the key that signed the tokens.
Restart ==
    /\ project' = NoProject /\ tokens' = {} /\ acked' = NoneAcked
    /\ answer' = "none"
    /\ UNCHANGED <<file, readOnly, calls, saves>>

EditOne(s, v) ==
    \/ SetLayerProperty(s, v) \/ AddLayers(s, v) \/ ChangeMembers(s, v) \/ ArrangeLayers(s, v)
    \/ EditJoins(s, v) \/ SetTextAndExtent(s, v) \/ ApplySymbology(s, v) \/ ToggleLabels(s, v)
    \/ ZoomMapFrame(s, v) \/ UpdateLayerCim(s, v) \/ AddBasemap(s, v) \/ RemoveMap(s, v) \/ RenameMap(s, v)
    \/ PanToExtent(s, v) \/ EnableTime(s, v) \/ SetElementVisible(s, v) \/ ChangeLayouts(s, v)
    \/ SetDefinitionQueries(s, v) \/ PasteLayerProperties(s, v)
    \/ SetRenderer(s, v) \/ SetColorizer(s, v) \/ SetLabelFont(s, v) \/ UpsertChart(s, v)

EditEach(s, v, t, w) ==
    \/ SetDefaultCamera(s, v, t, w) \/ SetScaleRange(s, v, t, w) \/ CreateMap(s, v, t, w)
    \/ DuplicateMap(s, v, t, w) \/ SetMapFrameTime(s, v, t, w) \/ SetElementPosition(s, v, t, w)
    \/ UpdateLegendItems(s, v, t, w) \/ CreateLayout(s, v, t, w) \/ SetProjectDefaults(s, v, t, w)
    \/ UpdateReportSection(s, v, t, w) \/ UpdateBookmark(s, v, t, w)
    \/ CreateLayoutFromTemplate(s, v, t, w) \/ UpsertLayoutElement(s, v, t, w)
    \/ UpsertLabelClass(s, v, t, w) \/ UpdateTableProperties(s, v, t, w) \/ UpdateLabelExpression(s, v, t, w)

Edit ==
    \/ \E s \in Settings, v \in Looks :
         EditOne(s, v) \/ \E t \in Settings \ {s}, w \in Looks : EditEach(s, v, t, w)
    \/ \E i \in Items, c \in Connections : ReplaceDataSource(i, c) \/ RepairLayerSource(i, c)
    \/ \E e \in Entries : RemoveConnection(e) \/ \E mark \in {"listed", "home"} : AddConnection(e, mark)

Repair ==
    \/ \E op \in Operations : ReplaceItemConnection(op)
    \/ \E repairs \in Repairs : ConnectionRepairPreflight(repairs)
    \/ \E t \in tokens : ConnectionRepairApply(t)

Keep == Look \/ SaveProject \/ SaveProjectCopy \/ ReleaseProject \/ ReloadProject \/ AddFieldAlias

Next == Edit \/ Repair \/ Keep \/ TokenExpires \/ ForeignSave \/ Restart

Spec == Init /\ [][Next]_vars

-----------------------------------------------------------------------------
(* Properties.                                                                    *)

\* An acknowledged edit stays in the copy until the project is saved or dropped, or
\* a later call names the same part: neither the repair of another item, with its
\* way back, nor a save of another program, nor a failing call takes it away.
AckedStays ==
    \A p \in Parts : acked[p] # Unset => project # NoProject /\ project[p] = acked[p]

\* A save that answers ok has written every acknowledged edit, also those of a project
\* file that another program has saved since it was opened.
SaveWritesAcked ==
    [][SaveProject /\ answer' = "ok" =>
         \A p \in Parts : acked[p] # Unset => file'[p] = acked[p]]_vars

\* A token whose repairs name each item once, and its connection rightly.
Honest(t) ==
    /\ \A m, n \in DOMAIN t.repairs : t.repairs[m].item = t.repairs[n].item => m = n
    /\ \A n \in DOMAIN t.repairs : t.targets[t.repairs[n].item] = t.repairs[n].current

\* A repair that was answered for: its item has the new connection, unbroken if that
\* was validated, or ArcPy declined a broken one for an item that was not broken.
Settled(p, op) ==
    \/ p[op.item] = op.new /\ (op.validate => op.new \notin Broken)
    \/ p[op.item] = op.current /\ op.validate /\ op.new \in Broken /\ op.current \notin Broken

\* The repair that ended the call: its item has its connection again; only when the
\* error says that the way back failed too it may have the new one, and is broken.
GivenUp(p, op, result) ==
    \/ result = "failed" /\ p[op.item] = op.current
    \/ result = "stranded" /\ op.validate /\ p[op.item] \in {op.current, op.new} \cap Broken

\* The first n repairs are settled, the next one was given up, the others are to come.
Reported(t) ==
    \E n \in 0..Len(t.repairs) :
        /\ answer' = "ok" <=> n = Len(t.repairs)
        /\ \A m \in DOMAIN t.repairs :
             LET op == t.repairs[m]
             IN /\ m <= n => Settled(project', op)
                /\ m = n + 1 => GivenUp(project', op, answer')
                /\ m > n + 1 => project'[op.item] = op.current

\* The note of connection_repair_apply, "not atomic", is all that can go wrong: the
\* apply of an honest token settles a beginning of the list, all of it if the answer is
\* ok; otherwise the next repair was given up, and later items were not touched.
RepairHonest ==
    [][\A t \in tokens :
         ConnectionRepairApply(t) /\ Honest(t) /\ answer' # "refused" => Reported(t)]_vars

\* README and CHANGELOG: what is unsaved in a cached project is given up only by a
\* call with both gates and an echo of the path (or with the process).
UnsavedGivenUpOnPurpose ==
    [][acked # NoneAcked /\ project' = NoProject => ReleaseProject \/ Restart]_vars

\* What the error of replace_item_connection suggests, "tried to restore the original
\* connection": the item has the connection it had before.
RollbackRestores ==
    [][\A op \in Operations :
         ReplaceItemConnection(op) /\ answer' = "failed" => project'[op.item] = Opened[op.item]]_vars
=============================================================================
