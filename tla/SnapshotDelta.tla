---------------------------- MODULE SnapshotDelta ----------------------------
(***************************************************************************)
(* How the server's graph reaches the windows.  A snapshot is broadcast to *)
(* every window; its heavy keyed slices travel as deltas against ONE       *)
(* baseline shared by all of them (server/src/broadcastBus.ts), narrowed   *)
(* to the union of what the windows declare they draw (websocket.ts,       *)
(* projectGraphManager.ts, shared/src/sliceScope.ts).  A window that joins *)
(* or declares gets a full snapshot of its own, outside the baseline, and  *)
(* every window rebuilds full maps from what arrives (useWebSocket.ts).    *)
(*                                                                         *)
(* A slice is a map from keys to values, and a value is compared by        *)
(* reference: here a version, fresh at every change, and 0 for a key that  *)
(* is absent.                                                              *)
(***************************************************************************)
EXTENDS Integers, Sequences, FiniteSets

CONSTANTS
    Clients,         \* windows: desktop renderers and phones
    Tellers,         \* those that can tell which slices they read
    Projects, Keys,
    ProjectOf,       \* the project that owns a key
    Slices,          \* DELTA_SLICE_KEYS
    Scopable,        \* those of SCOPABLE_SLICE_KEYS among them
    AlwaysPresent,   \* slices sent even when empty (the others are optional)
    BootView,        \* projects sent until the first declaration
    MaxChanges,      \* bound: changes of the graph
    MaxWire          \* bound: snapshots under way to one window

ASSUME ScopeAssumption ==
    /\ Tellers \subseteq Clients
    /\ ProjectOf \in [Keys -> Projects]
    /\ Scopable \subseteq Slices /\ AlwaysPresent \subseteq Slices
    /\ BootView \subseteq Projects
    /\ MaxChanges \in Nat /\ MaxWire \in Nat

VARIABLES
    (* server *)
    graph,          \* the value of every key of every slice
    clock,          \* versions handed out so far
    dirty,          \* the graph changed since the last broadcast (one is scheduled)
    baseline,       \* lastSentSlices
    scope,          \* clientScopes, clientSliceScopes
    everDeclared,   \* scopeEverDeclared
    (* transport *)
    link,           \* closed; open: broadcasts arrive; joined: welcomed
    wire,           \* snapshots under way, in order
    (* window *)
    shadow,         \* keyedShadowRef: the map the next delta applies to
    last,           \* lastWireRef: what the window shows
    (* history: keys a full reply showed a window ahead of any broadcast    *)
    ahead

server == <<graph, clock, dirty, baseline, scope, everDeclared>>
window == <<shadow, last>>
history == <<ahead>>
vars   == <<graph, clock, dirty, baseline, scope, everDeclared, link, wire, shadow, last, ahead>>

Map    == [Keys -> Nat]
Empty  == [k \in Keys |-> 0]
NoMap  == <<>>                    \* null, undefined: there is no map at all
Live(m) == {k \in Keys : m[k] # 0}

NotDeclared == [declared |-> FALSE, projects |-> {}, slices |-> {}]

(* What a window may declare: the project it draws and, if it can tell,    *)
(* the slices it reads (a window that cannot tell reads them all).         *)
Declarations(c) ==
    {[declared |-> TRUE, projects |-> {p}, slices |-> ss] :
        p \in Projects, ss \in IF c \in Tellers THEN SUBSET Scopable ELSE {Scopable}}
-----------------------------------------------------------------------------
(* The union of the declarations, and the safe defaults without any:       *)
(* getEffectiveProjectScope(), getBootViewScope(), resolveSliceShipSet().  *)
Declared(sc) == {c \in Clients : sc[c].declared}

EffectiveProjects(sc, ever) ==
    IF Declared(sc) # {} THEN UNION {sc[c].projects : c \in Declared(sc)}
    ELSE IF ever THEN Projects ELSE BootView

Narrowed(sc) == Declared(sc) # {} /\ Declared(sc) \subseteq Tellers

ShipSetReadByAll(sc) == {s \in Scopable : \A c \in Declared(sc) : s \in sc[c].slices}
ShipSet(sc) == UNION {sc[c].slices : c \in Declared(sc)}

(* getBroadcastSnapshot(): the maps of the projects in scope; a slice out  *)
(* of scope has no field, and neither has an optional one that is empty.   *)
Stripped(s, sc) == Narrowed(sc) /\ s \in Scopable \ ShipSet(sc)

BroadcastMap(s, sc, ever) ==
    LET m == [k \in Keys |->
                 IF ProjectOf[k] \in EffectiveProjects(sc, ever) THEN graph[s][k] ELSE 0]
    IN  IF Stripped(s, sc) \/ (m = Empty /\ s \notin AlwaysPresent) THEN NoMap ELSE m

(***************************************************************************)
(* A field of a message on the wire: the whole map, a delta (the changed   *)
(* keys and the removed ones), or nothing.                                 *)
(***************************************************************************)
Absent     == [kind |-> "absent", map |-> Empty, removed |-> {}]
Whole(m)   == IF m = NoMap THEN Absent ELSE [kind |-> "whole", map |-> m, removed |-> {}]

(* diffKeyedSlice(): no delta without a baseline, nor when more than half  *)
(* of the keys changed.                                                    *)
DiffIgnoringRemovals(prev, next) ==
    LET changed == {k \in Live(next) : next[k] # prev[k]}
    IN  IF prev = NoMap \/ next = NoMap \/ 2 * Cardinality(changed) > Cardinality(Live(next))
        THEN Whole(next)
        ELSE [kind |-> "delta",
              map |-> [k \in Keys |-> IF k \in changed THEN next[k] ELSE 0],
              removed |-> {}]
Diff(prev, next) ==
    LET changed == {k \in Live(next) : next[k] # prev[k]}
    IN  IF prev = NoMap \/ next = NoMap \/ 2 * Cardinality(changed) > Cardinality(Live(next))
        THEN Whole(next)
        ELSE [kind |-> "delta",
              map |-> [k \in Keys |-> IF k \in changed THEN next[k] ELSE 0],
              removed |-> Live(prev) \ Live(next)]

(* applyKeyedSliceDelta() *)
ApplyDelta(prev, delta) ==
    [k \in Keys |-> IF delta.map[k] # 0 THEN delta.map[k]
                    ELSE IF k \in delta.removed THEN 0
                    ELSE prev[k]]

Snapshot(fields, sc) ==
    [fields |-> fields, narrowed |-> Narrowed(sc),
     shipped |-> IF Narrowed(sc) THEN ShipSet(sc) ELSE {}]

(* A full snapshot for one window: buildConnectionMessages() and the reply *)
(* to set-project-scope.  It neither reads nor moves the baseline.         *)
DirectReply(sc, ever) ==
    Snapshot([s \in Slices |-> Whole(BroadcastMap(s, sc, ever))], sc)

(* Keys that reply shows although no broadcast has announced them.         *)
Unannounced(sc, ever) ==
    {sk \in Slices \X Keys :
        LET m == BroadcastMap(sk[1], sc, ever)
        IN  /\ m # NoMap /\ m[sk[2]] # 0
            /\ baseline[sk[1]] # NoMap /\ baseline[sk[1]][sk[2]] = 0}
-----------------------------------------------------------------------------
(* materializeSnapshot() for one slice: the map a message means to this    *)
(* window, and the map the next delta applies to.                          *)
Rebuilt(c, s, m) ==
    LET f == m.fields[s]
    IN  CASE f.kind = "delta"  -> ApplyDelta(shadow[c][s], f)
          [] f.kind = "whole"  -> f.map
          [] f.kind = "absent" -> NoMap

ShadowFromDeltasOnly(c, m) ==
    [s \in Slices |-> IF m.fields[s].kind = "delta" THEN Rebuilt(c, s, m) ELSE shadow[c][s]]
NextShadow(c, m) ==
    [s \in Slices |-> IF Rebuilt(c, s, m) = NoMap THEN Empty ELSE Rebuilt(c, s, m)]

(* carryForwardScopedSlices(): what did not come because it is out of      *)
(* scope keeps its last value; what is in scope and did not come is empty. *)
NextLast(c, m) ==
    [s \in Slices |->
        IF Rebuilt(c, s, m) = NoMap /\ m.narrowed /\ s \in Scopable \ m.shipped
        THEN last[c][s]
        ELSE Rebuilt(c, s, m)]

Blank == [s \in Slices |-> NoMap]
-----------------------------------------------------------------------------
Init ==
    /\ graph = [s \in Slices |-> Empty] /\ clock = 0 /\ dirty = FALSE
    /\ baseline = Blank
    /\ scope = [c \in Clients |-> NotDeclared] /\ everDeclared = FALSE
    /\ link = [c \in Clients |-> "closed"]
    /\ wire = [c \in Clients |-> <<>>]
    /\ shadow = [c \in Clients |-> [s \in Slices |-> Empty]]
    /\ last = [c \in Clients |-> Blank]
    /\ ahead = [c \in Clients |-> {}]

(* A key is set or replaced, or removed; a broadcast is scheduled. *)
Change(s, k) ==
    /\ clock < MaxChanges
    /\ clock' = clock + 1
    /\ \/ graph' = [graph EXCEPT ![s][k] = clock + 1]
       \/ graph[s][k] # 0 /\ graph' = [graph EXCEPT ![s][k] = 0]
    /\ dirty' = TRUE
    /\ UNCHANGED <<baseline, scope, everDeclared, link, wire, window, history>>

(* broadcast(): encode against the baseline, move the baseline, and send   *)
(* the same message to every window that listens.                          *)
Listening == {c \in Clients : link[c] # "closed"}

Encoded(s) == Diff(baseline[s], BroadcastMap(s, scope, everDeclared))

Broadcast ==
    /\ \A c \in Listening : Len(wire[c]) < MaxWire
    /\ LET message == Snapshot([s \in Slices |-> Encoded(s)], scope)
       IN  wire' = [c \in Clients |->
                       IF c \in Listening THEN Append(wire[c], message) ELSE wire[c]]
    /\ baseline' = [s \in Slices |-> BroadcastMap(s, scope, everDeclared)]
    /\ dirty' = FALSE
    /\ ahead' = [c \in Clients |->
                    {sk \in ahead[c] : /\ Encoded(sk[1]).kind = "delta"
                                       /\ Encoded(sk[1]).map[sk[2]] = 0}]
    /\ UNCHANGED <<graph, clock, scope, everDeclared, link, window>>

(* A window starts to listen.  On the desktop the fan-out reaches every    *)
(* open window, welcomed or not; a phone listens when it is welcomed.      *)
Open(c) ==
    /\ link[c] = "closed"
    /\ link' = [link EXCEPT ![c] = "open"]
    /\ UNCHANGED <<server, wire, window, history>>

(* The handshake: ws-connect of the desktop, the upgrade of a phone. *)
Join(c) ==
    /\ link[c] = "open" /\ Len(wire[c]) < MaxWire
    /\ link' = [link EXCEPT ![c] = "joined"]
    /\ wire' = [wire EXCEPT ![c] = Append(@, DirectReply(scope, everDeclared))]
    /\ ahead' = [ahead EXCEPT ![c] = Unannounced(scope, everDeclared)]
    /\ UNCHANGED <<server, window>>

(* set-project-scope: the declaration takes effect, and the window gets a  *)
(* snapshot at the new union at once.                                      *)
DeclareWithoutReply(c, d) ==
    /\ link[c] = "joined" /\ Len(wire[c]) < MaxWire
    /\ scope' = [scope EXCEPT ![c] = d] /\ everDeclared' = TRUE
    /\ UNCHANGED <<graph, clock, dirty, baseline, link, wire, window, history>>
Declare(c, d) ==
    /\ link[c] = "joined" /\ Len(wire[c]) < MaxWire
    /\ scope' = [scope EXCEPT ![c] = d] /\ everDeclared' = TRUE
    /\ wire' = [wire EXCEPT ![c] = Append(@, DirectReply(scope', TRUE))]
    /\ ahead' = [ahead EXCEPT ![c] = Unannounced(scope', TRUE)]
    /\ UNCHANGED <<graph, clock, dirty, baseline, link, window>>

(* The window stops listening, and what was under way is lost.  A phone's  *)
(* closed socket or a closed window takes the declaration with it, a       *)
(* desktop window that reconnects or reloads keeps it; a page that goes    *)
(* away takes its maps with it, a reconnecting page keeps them.            *)
Drop(c) ==
    /\ link[c] # "closed"
    /\ link' = [link EXCEPT ![c] = "closed"]
    /\ wire' = [wire EXCEPT ![c] = <<>>]
    /\ ahead' = [ahead EXCEPT ![c] = {}]
    /\ \/ UNCHANGED scope
       \/ scope' = [scope EXCEPT ![c] = NotDeclared]
    /\ \/ UNCHANGED window
       \/ /\ shadow' = [shadow EXCEPT ![c] = [s \in Slices |-> Empty]]
          /\ last' = [last EXCEPT ![c] = Blank]
    /\ UNCHANGED <<graph, clock, dirty, baseline, everDeclared>>

(* A snapshot arrives: it is rebuilt on arrival, not when it is painted.   *)
DeliverNewestFirst(c) ==
    /\ wire[c] # <<>>
    /\ LET m == wire[c][Len(wire[c])]
       IN  /\ shadow' = [shadow EXCEPT ![c] = NextShadow(c, m)]
           /\ last' = [last EXCEPT ![c] = NextLast(c, m)]
    /\ wire' = [wire EXCEPT ![c] = SubSeq(@, 1, Len(@) - 1)]
    /\ UNCHANGED <<server, link, history>>
Deliver(c) ==
    /\ wire[c] # <<>>
    /\ LET m == Head(wire[c])
       IN  /\ shadow' = [shadow EXCEPT ![c] = NextShadow(c, m)]
           /\ last' = [last EXCEPT ![c] = NextLast(c, m)]
    /\ wire' = [wire EXCEPT ![c] = Tail(@)]
    /\ UNCHANGED <<server, link, history>>

Next == \/ \E s \in Slices, k \in Keys : Change(s, k)
        \/ Broadcast
        \/ \E c \in Clients : Open(c) \/ Join(c) \/ Drop(c) \/ Deliver(c)
        \/ \E c \in Clients : \E d \in Declarations(c) : Declare(c, d)

Spec == Init /\ [][Next]_vars
-----------------------------------------------------------------------------
Field == [kind : {"absent", "whole", "delta"}, map : Map, removed : SUBSET Keys]
Message == [fields : [Slices -> Field], narrowed : BOOLEAN, shipped : SUBSET Scopable]

(* The types of the variables. *)
TypeOK ==
    /\ graph \in [Slices -> Map]
    /\ clock \in Nat /\ dirty \in BOOLEAN
    /\ baseline \in [Slices -> Map \union {NoMap}]
    /\ \A c \in Clients : scope[c] \in Declarations(c) \union {NotDeclared}
    /\ everDeclared \in BOOLEAN
    /\ link \in [Clients -> {"closed", "open", "joined"}]
    /\ \A c \in Clients : wire[c] \in Seq(Message)
    /\ shadow \in [Clients -> [Slices -> Map]]
    /\ last \in [Clients -> [Slices -> Map \union {NoMap}]]
    /\ ahead \in [Clients -> SUBSET (Slices \X Keys)]

Shown(c, s) == IF last[c][s] = NoMap THEN Empty ELSE last[c][s]

(* The slices a window reads, and the keys it draws.                       *)
Reads(c) == {s \in Slices : s \in Scopable => s \in scope[c].slices}
Draws(c) == {k \in Keys : ProjectOf[k] \in scope[c].projects}

(* Nothing is under way to a window that has declared, nor due. *)
Settled(c) == link[c] = "joined" /\ scope[c].declared /\ wire[c] = <<>> /\ ~dirty

(* A settled window shows the current value of every key it draws, although *)
(* the deltas it got were cut for a baseline that is nobody's own, and      *)
(* whatever the other windows declared, joined or dropped meanwhile.        *)
ViewsAreComplete ==
    \A c \in Clients : Settled(c) =>
        \A s \in Reads(c), k \in Draws(c) : graph[s][k] # 0 => Shown(c, s)[k] = graph[s][k]

(* A settled window shows a removed key only if a full reply had shown it   *)
(* ahead of any broadcast.                                                  *)
OnlyUnannouncedKeysLinger ==
    \A c \in Clients : Settled(c) =>
        \A s \in Reads(c), k \in Draws(c) :
            Shown(c, s)[k] # 0 /\ graph[s][k] = 0 => <<s, k>> \in ahead[c]

(* A window never replaces a value by an older one, in particular not when  *)
(* a delta arrives on top of a map kept over a reconnection.                *)
ViewsNeverGoBack ==
    [][\A c \in Clients, s \in Slices, k \in Keys :
          Shown(c, s)'[k] # 0 => Shown(c, s)'[k] >= Shown(c, s)[k]]_vars

(* A value that is shown, drawn, read and still current does not flicker:   *)
(* no snapshot sent since the window's latest declaration takes it away.    *)
LiveValuesStay ==
    [][\A c \in Clients : link'[c] = "joined" /\ scope[c].declared /\ Len(wire[c]) = 1 =>
          \A s \in Reads(c), k \in Draws(c) :
              Shown(c, s)[k] = graph[s][k] /\ graph[s][k] # 0
                  => Shown(c, s)'[k] = Shown(c, s)[k]]_vars
=============================================================================
