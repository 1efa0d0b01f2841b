----------------------------- MODULE EventRing -----------------------------
(***************************************************************************)
(* The event ring of the SDK add-in (Events/ProEventController.cs) with    *)
(* its long-polling readers, and the wait for a map to be drawn            *)
(* (RefreshAsync in Window/LiveWindowService.cs).                          *)
(*                                                                         *)
(* A lock section is one action; a TaskCompletionSource is completed after *)
(* the lock, in an action of its own.  The signal _changed is replaced by  *)
(* every Publish, so it is named by the number of events published before  *)
(* it was made, and _drawChanged by the number of draws.  Events are their *)
(* sequence numbers.  The names of the specification carry the prefix      *)
(* Events, as SdkBridgeProofs is about this module and SdkBridge.          *)
(***************************************************************************)
EXTENDS Naturals, Sequences, FiniteSets, SequencesExt, FiniteSetsExt

CONSTANTS
  Threads,     \* the threads that publish events
  UiThread,    \* the one that raises DrawComplete
  Readers,     \* the clients of GET /v1/events, one request at a time
  Waiters,     \* the clients of POST /v1/view/refresh
  Maps,
  Capacity,    \* _capacity
  Limit,       \* the limit of a read
  MaxEvents,   \* bound: no event of a thread's own from this number on
  MaxDraws     \* bound: the draws

ASSUME EventRingAssumption ==
  /\ UiThread \in Threads
  /\ Capacity \in Nat \ {0} /\ Limit \in Nat \ {0}
  /\ MaxEvents \in Nat /\ MaxDraws \in Nat

VARIABLES
  sequence,   \* _sequence, and the name of _changed
  ring,       \* _events
  fired,      \* the event signals that are completed
  tpc,        \* where each publishing thread is
  held,       \* the signal it has to complete
  drawGen,    \* _drawGeneration, and the name of _drawChanged
  lastDraw,   \* _lastDrawGenerationByMap, 0 for no entry
  drawFired,  \* the draw signals that are completed
  rpc,        \* where each reader is
  cursor,     \* the cursor it sends: the last of its previous batch
  awaits,     \* the signal it waits for
  delivered,  \* history: the events it was given
  excused,    \* history: the events it was told, or never asked, about
  wpc,        \* where each waiter is
  wmap,       \* its expectedMapUri
  after,      \* its afterGeneration
  drawAwaits, \* the signal it waits for
  drawn       \* history: its map was drawn since

ringVars == <<sequence, ring, fired, tpc, held>>
drawVars == <<drawGen, lastDraw, drawFired>>
readVars == <<rpc, cursor, awaits, delivered, excused>>
waitVars == <<wpc, wmap, after, drawAwaits, drawn>>
eventsVars == <<ringVars, drawVars, readVars, waitVars>>

EventsTypeOK ==
  /\ sequence \in Nat /\ ring \in Seq(Nat) /\ fired \subseteq Nat
  /\ tpc \in [Threads -> {"idle", "fire", "fireDraw", "publish"}]
  /\ held \in [Threads -> Nat]
  /\ drawGen \in Nat /\ lastDraw \in [Maps -> Nat] /\ drawFired \subseteq Nat
  /\ rpc \in [Readers -> {"idle", "waiting", "woken", "timedout"}]
  /\ cursor \in [Readers -> Nat] /\ awaits \in [Readers -> Nat]
  /\ delivered \in [Readers -> SUBSET Nat] /\ excused \in [Readers -> SUBSET Nat]
  /\ wpc \in [Waiters -> {"idle", "check", "waiting", "true", "false"}]
  /\ wmap \in [Waiters -> Maps]
  /\ after \in [Waiters -> Nat] /\ drawAwaits \in [Waiters -> Nat]
  /\ drawn \in [Waiters -> BOOLEAN]

EventsInit ==
  /\ sequence = 0 /\ ring = <<>> /\ fired = {}
  /\ tpc = [t \in Threads |-> "idle"]
  /\ held = [t \in Threads |-> 0]
  /\ drawGen = 0 /\ lastDraw = [m \in Maps |-> 0] /\ drawFired = {}
  /\ rpc = [r \in Readers |-> "idle"]
  /\ cursor = [r \in Readers |-> 0] /\ awaits = [r \in Readers |-> 0]
  /\ delivered = [r \in Readers |-> {}] /\ excused = [r \in Readers |-> {}]
  /\ wpc = [w \in Waiters |-> "idle"]
  /\ wmap \in [Waiters -> Maps]
  /\ after = [w \in Waiters |-> 0] /\ drawAwaits = [w \in Waiters |-> 0]
  /\ drawn = [w \in Waiters |-> FALSE]

-----------------------------------------------------------------------------
(* Publishing.                                                             *)

\* The ring takes event n and drops its oldest one when it is full.
Kept(n) == IF Len(ring) < Capacity THEN Append(ring, n) ELSE Append(Tail(ring), n)

\* Mutant: only the first event of an empty ring signals.
PublishQuietly(t) ==
  /\ \/ tpc[t] = "idle" /\ sequence < MaxEvents
     \/ tpc[t] = "publish"
  /\ sequence' = sequence + 1
  /\ ring' = Kept(sequence + 1)
  /\ held' = [held EXCEPT ![t] = sequence]
  /\ tpc' = [tpc EXCEPT ![t] = IF ring = <<>> THEN "fire" ELSE "idle"]
  /\ UNCHANGED <<fired, drawVars, readVars, waitVars>>

\* Publish under the lock, for an event of its own or at the end of OnDrawComplete.
Publish(t) ==
  /\ \/ tpc[t] = "idle" /\ sequence < MaxEvents
     \/ tpc[t] = "publish"
  /\ sequence' = sequence + 1
  /\ ring' = Kept(sequence + 1)
  /\ held' = [held EXCEPT ![t] = sequence]
  /\ tpc' = [tpc EXCEPT ![t] = "fire"]
  /\ UNCHANGED <<fired, drawVars, readVars, waitVars>>

\* signal.TrySetResult.
Fire(t) ==
  /\ tpc[t] = "fire"
  /\ fired' = fired \cup {held[t]}
  /\ tpc' = [tpc EXCEPT ![t] = "idle"]
  /\ UNCHANGED <<sequence, ring, held, drawVars, readVars, waitVars>>

\* OnDrawComplete of map m under the lock.
DrawComplete(m) ==
  /\ tpc[UiThread] = "idle" /\ drawGen < MaxDraws
  /\ drawGen' = drawGen + 1
  /\ lastDraw' = [lastDraw EXCEPT ![m] = drawGen + 1]
  /\ held' = [held EXCEPT ![UiThread] = drawGen]
  /\ tpc' = [tpc EXCEPT ![UiThread] = "fireDraw"]
  /\ drawn' = [w \in Waiters |-> drawn[w] \/ wmap[w] = m]
  /\ UNCHANGED <<sequence, ring, fired, drawFired, readVars, wpc, wmap, after, drawAwaits>>

\* OnDrawComplete of a view without a map URI: a draw is counted, and no map has it.
DrawWithoutMap ==
  /\ tpc[UiThread] = "idle" /\ drawGen < MaxDraws
  /\ drawGen' = drawGen + 1
  /\ held' = [held EXCEPT ![UiThread] = drawGen]
  /\ tpc' = [tpc EXCEPT ![UiThread] = "fireDraw"]
  /\ UNCHANGED <<sequence, ring, fired, lastDraw, drawFired, readVars, waitVars>>

FireDraw ==
  /\ tpc[UiThread] = "fireDraw"
  /\ drawFired' = drawFired \cup {held[UiThread]}
  /\ tpc' = [tpc EXCEPT ![UiThread] = "publish"]
  /\ UNCHANGED <<sequence, ring, fired, held, drawGen, lastDraw, readVars, waitVars>>

-----------------------------------------------------------------------------
(* ReadAsync of reader r.                                                  *)

\* Mutant: the cursor of a batch is the last event published.
LastPublished(r) == sequence

\* Snapshot: the sequence the ring begins with, the first Limit events after the
\* cursor, the last of the batch, and whether the cursor predates the ring.
First == IF ring = <<>> THEN sequence + 1 ELSE Head(ring)
Newer(r) == {e \in ToSet(ring) : e > cursor[r]}
Batch(r) == {e \in Newer(r) : Cardinality({f \in Newer(r) : f < e}) < Limit}
LastOf(r) == IF Batch(r) = {} THEN cursor[r] ELSE Max(Batch(r))
Truncated(r) == cursor[r] > 0 /\ cursor[r] + 1 < First

\* The client takes the batch and its last sequence as the next cursor.
Respond(r) ==
  /\ cursor' = [cursor EXCEPT ![r] = LastOf(r)]
  /\ delivered' = [delivered EXCEPT ![r] = @ \cup Batch(r)]
  /\ excused' = IF Truncated(r) \/ cursor[r] = 0
                THEN [excused EXCEPT ![r] = @ \cup (cursor[r] + 1) .. (First - 1)] ELSE excused
  /\ rpc' = [rpc EXCEPT ![r] = "idle"]
  /\ UNCHANGED <<awaits, ringVars, drawVars, waitVars>>

\* A read that finds something, or does not wait, is answered at once; otherwise it
\* keeps the signal that was current under the same lock.
Read(r) ==
  /\ rpc[r] = "idle"
  /\ Respond(r)

LongPoll(r) ==
  /\ rpc[r] = "idle"
  /\ Batch(r) = {}
  /\ awaits' = [awaits EXCEPT ![r] = sequence]
  /\ rpc' = [rpc EXCEPT ![r] = "waiting"]
  /\ UNCHANGED <<cursor, delivered, excused, ringVars, drawVars, waitVars>>

Wake(r) ==
  /\ rpc[r] = "waiting" /\ awaits[r] \in fired
  /\ rpc' = [rpc EXCEPT ![r] = "woken"]
  /\ UNCHANGED <<cursor, awaits, delivered, excused, ringVars, drawVars, waitVars>>

\* Mutant: the state is misspelt.
PollMisspelt(r) ==
  /\ rpc[r] = "waiting"
  /\ rpc' = [rpc EXCEPT ![r] = "timeout"]
  /\ UNCHANGED <<cursor, awaits, delivered, excused, ringVars, drawVars, waitVars>>

PollTimeout(r) ==
  /\ rpc[r] = "waiting"
  /\ rpc' = [rpc EXCEPT ![r] = "timedout"]
  /\ UNCHANGED <<cursor, awaits, delivered, excused, ringVars, drawVars, waitVars>>

ReadAgain(r) ==
  /\ rpc[r] \in {"woken", "timedout"}
  /\ Respond(r)

-----------------------------------------------------------------------------
(* RefreshAsync and WaitForDrawAsync of waiter w.                          *)

\* The draw generation is read and the redraw requested, on the main CIM thread.
Refresh(w) ==
  /\ wpc[w] \in {"idle", "true", "false"}
  /\ after' = [after EXCEPT ![w] = drawGen]
  /\ drawn' = [drawn EXCEPT ![w] = FALSE]
  /\ wpc' = [wpc EXCEPT ![w] = "check"]
  /\ UNCHANGED <<ringVars, drawVars, readVars, wmap, drawAwaits>>

\* Mutant: the draw of any map will do.
CheckAnyMap(w) ==
  /\ wpc[w] = "check"
  /\ IF drawGen > after[w]
     THEN wpc' = [wpc EXCEPT ![w] = "true"] /\ UNCHANGED drawAwaits
     ELSE /\ wpc' = [wpc EXCEPT ![w] = "waiting"]
          /\ drawAwaits' = [drawAwaits EXCEPT ![w] = drawGen]
  /\ UNCHANGED <<ringVars, drawVars, readVars, wmap, after, drawn>>

\* Under the lock: the draw has come, or the current signal is kept.
Check(w) ==
  /\ wpc[w] = "check"
  /\ IF lastDraw[wmap[w]] > after[w]
     THEN wpc' = [wpc EXCEPT ![w] = "true"] /\ UNCHANGED drawAwaits
     ELSE /\ wpc' = [wpc EXCEPT ![w] = "waiting"]
          /\ drawAwaits' = [drawAwaits EXCEPT ![w] = drawGen]
  /\ UNCHANGED <<ringVars, drawVars, readVars, wmap, after, drawn>>

WakeDraw(w) ==
  /\ wpc[w] = "waiting" /\ drawAwaits[w] \in drawFired
  /\ wpc' = [wpc EXCEPT ![w] = "check"]
  /\ UNCHANGED <<ringVars, drawVars, readVars, wmap, after, drawAwaits, drawn>>

DrawTimeout(w) ==
  /\ wpc[w] = "waiting"
  /\ wpc' = [wpc EXCEPT ![w] = "false"]
  /\ UNCHANGED <<ringVars, drawVars, readVars, wmap, after, drawAwaits, drawn>>

-----------------------------------------------------------------------------
EventsNext ==
  \/ \E t \in Threads : Publish(t) \/ Fire(t)
  \/ \E m \in Maps : DrawComplete(m)
  \/ DrawWithoutMap \/ FireDraw
  \/ \E r \in Readers : Read(r) \/ LongPoll(r) \/ Wake(r) \/ PollTimeout(r) \/ ReadAgain(r)
  \/ \E w \in Waiters : Refresh(w) \/ Check(w) \/ WakeDraw(w) \/ DrawTimeout(w)

EventsSpec == EventsInit /\ [][EventsNext]_eventsVars

\* Code that is past its lock runs on, and a completed signal wakes its awaiter.
\* Neither timeouts nor events are assumed to come.
Fairness ==
  /\ \A t \in Threads : WF_eventsVars(Fire(t)) /\ WF_eventsVars(tpc[t] = "publish" /\ Publish(t))
  /\ WF_eventsVars(FireDraw)
  /\ \A r \in Readers : WF_eventsVars(Wake(r)) /\ WF_eventsVars(ReadAgain(r))
  /\ \A w \in Waiters : WF_eventsVars(Check(w)) /\ WF_eventsVars(WakeDraw(w))

FairSpec == EventsSpec /\ Fairness

-----------------------------------------------------------------------------
(* Properties.                                                             *)

\* A cursor never passes an event silently: all events up to it were delivered, or
\* had left the ring and "truncated" said so, or the client started with cursor 0.
NoSilentLoss ==
  \A r \in Readers : 1 .. cursor[r] \subseteq delivered[r] \cup excused[r]

\* drawCompleted: true is only answered when that map was drawn after the request, not
\* another one.
DrawnMeansDrawn == \A w \in Waiters : wpc[w] = "true" => drawn[w]

\* A waiting reader is answered once an event beyond its cursor is published: it never
\* sleeps on a signal that nobody will complete.
EventWakesReader ==
  \A r \in Readers : (rpc[r] = "waiting" /\ sequence > cursor[r]) ~> rpc[r] = "idle"

\* No wakeup is lost, the safe part of EventWakesReader and of its counterpart for
\* draws: as soon as there is something for a waiting reader, or the map of a waiting
\* refresh was drawn, the signal it waits for is completed, or a thread that has left
\* the lock is about to complete it.
NoWakeupLost ==
  /\ \A r \in Readers : rpc[r] = "waiting" /\ sequence > cursor[r] =>
       \/ awaits[r] \in fired
       \/ \E t \in Threads : tpc[t] = "fire" /\ held[t] = awaits[r]
  /\ \A w \in Waiters : wpc[w] = "waiting" /\ drawn[w] =>
       \/ drawAwaits[w] \in drawFired
       \/ tpc[UiThread] = "fireDraw" /\ held[UiThread] = drawAwaits[w]
=============================================================================
