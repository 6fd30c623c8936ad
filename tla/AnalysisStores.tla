---------------------------- MODULE AnalysisStores ----------------------------
(***************************************************************************)
(* The stores of the analysis beside the analyzer: the merger's incident   *)
(* windows, the classification histories of tracks, and the cache of zone  *)
(* configurations.  Time is counted in units, and windows, staleness and   *)
(* cache entries last a few of them.                                       *)
(***************************************************************************)
EXTENDS Naturals, Sequences, FiniteSets, FiniteSetsExt, SequencesExt

CONSTANTS
    Windows,        \* keys of the merger
    Tracks,
    Readers,        \* concurrent calls of get_zone_for_camera, of one camera
    Zones,          \* zone configurations
    None,
    MergeWindow,    \* MERGE_WINDOW_SECONDS
    HistoryLength,  \* HISTORY_WINDOW
    MaxAge,         \* max_age_seconds of a track
    Ttl,            \* CACHE_TTL
    MaxNow,         \* bound on time
    MaxEvents       \* bound on the events of a window

ASSUME StoresAssumption ==
    /\ HistoryLength \in Nat \ {0} /\ None \notin Zones
    /\ {MergeWindow, MaxAge, Ttl, MaxNow, MaxEvents} \subseteq Nat

VARIABLES
    now,
    window,     \* EventMerger._windows: key -> window, or None
    merged,     \* key -> the risk scores that went into its window
    track,      \* TrackHistoryStore._histories: track -> history, or None
    zone,       \* the camera's zone in the database
    was,        \* the zones it had, at each time until now
    cache,      \* ZoneConfigCache._cache: [data |-> , expires |-> ], or None
    call,       \* reader -> a call's start, and the zone it fetched
    served      \* what the last hit returned

merger  == <<window, merged>>
zones   == <<zone, was, cache, call, served>>
stores  == <<now, merger, track, zones>>

Scores  == {20, 50, 90}
NoTrack == [seen |-> 0, classes |-> <<>>, normal |-> 0, abnormal |-> 0]
NoCall  == [pc |-> "idle", since |-> 0, data |-> None]

StoresInit ==
    /\ now = 0
    /\ window = [k \in Windows |-> None] /\ merged = [k \in Windows |-> <<>>]
    /\ track = [t \in Tracks |-> None]
    /\ zone \in Zones /\ was = << {zone} >>
    /\ cache = None /\ served = None
    /\ call = [r \in Readers |-> NoCall]

Tick ==
    /\ now < MaxNow
    /\ now' = now + 1
    /\ was' = Append(was, {zone})
    /\ UNCHANGED <<merger, track, zone, cache, call, served>>

-----------------------------------------------------------------------------
(* EventMerger. *)

\* The windows after _evict_expired.
Open(k) == window[k] # None /\ now - window[k].seen <= MergeWindow

BugUpdatedWindow(w, score) ==
    [seen |-> now, peak |-> score, count |-> w.count + 1]

\* ActiveIncidentWindow.update.
UpdatedWindow(w, score) ==
    [seen |-> now, peak |-> Max({w.peak, score}), count |-> w.count + 1]

\* process: all expired windows go; the event goes into its key's window, as
\* MIN_TRACK_OVERLAP = 0 asks for no common track, or a new one is opened for it.
Process(k, score) ==
    LET kept(w) == IF Open(w) THEN window[w] ELSE None
        new == [seen |-> now, peak |-> score, count |-> 1]
    IN  /\ Open(k) => Len(merged[k]) < MaxEvents
        /\ window' = [w \in Windows |-> IF w # k THEN kept(w)
                                        ELSE IF Open(k) THEN UpdatedWindow(window[k], score)
                                        ELSE new]
        /\ merged' = [merged EXCEPT ![k] = IF Open(k) THEN Append(@, score) ELSE <<score>>]
        /\ UNCHANGED <<now, track, zones>>

\* close_window.
CloseWindow(k) ==
    /\ window[k] # None
    /\ window' = [window EXCEPT ![k] = None]
    /\ merged' = [merged EXCEPT ![k] = <<>>]
    /\ UNCHANGED <<now, track, zones>>

-----------------------------------------------------------------------------
(* TrackHistoryStore. *)

BugRecorded(h, normal) ==
    [seen |-> now,
     classes |-> Append(IF Len(h.classes) = HistoryLength THEN Tail(h.classes)
                                                          ELSE h.classes, normal),
     normal |-> h.normal + (IF normal THEN 1 ELSE 0),
     abnormal |-> h.abnormal + (IF normal THEN 0 ELSE 1)]

\* TrackHistory.record: the counts follow what the deque lets go.
Recorded(h, normal) ==
    LET full == Len(h.classes) = HistoryLength
        out(b) == IF full /\ Head(h.classes) = b THEN 1 ELSE 0
    IN  [seen |-> now,
         classes |-> Append(IF full THEN Tail(h.classes) ELSE h.classes, normal),
         normal |-> h.normal - out(TRUE) + (IF normal THEN 1 ELSE 0),
         abnormal |-> h.abnormal - out(FALSE) + (IF normal THEN 0 ELSE 1)]

Record(t, normal) ==
    /\ track' = [track EXCEPT ![t] = Recorded(IF @ = None THEN NoTrack ELSE @, normal)]
    /\ UNCHANGED <<now, merger, zones>>

EvictStale ==
    /\ track' = [t \in Tracks |-> IF track[t] # None /\ now - track[t].seen > MaxAge
                                  THEN None ELSE track[t]]
    /\ UNCHANGED <<now, merger, zones>>

RemoveTrack(t) ==
    /\ track' = [track EXCEPT ![t] = None]
    /\ UNCHANGED <<now, merger, zones>>

\* consistency_multiplier, in hundredths; 100 without a history.
Multiplier(t) ==
    IF track[t] = None THEN 100
    ELSE 50 + (150 * track[t].normal) \div Len(track[t].classes)

-----------------------------------------------------------------------------
(* ZoneConfigCache, for one camera. *)

\* There is an entry, and it is not expired.
Cached == cache # None /\ now < cache.expires

\* get_zone_for_camera returns an entry that counts, and else notes the time.
CacheHit ==
    /\ Cached
    /\ served' = cache.data
    /\ UNCHANGED <<now, merger, track, zone, was, cache, call>>

CacheMiss(r) ==
    /\ call[r].pc = "idle"
    /\ ~Cached
    /\ call' = [call EXCEPT ![r] = [NoCall EXCEPT !.pc = "fetch", !.since = now]]
    /\ UNCHANGED <<now, merger, track, zone, was, cache, served>>

\* _fetch_zone reads the database; an error counts as no zone.
Fetch(r) ==
    /\ call[r].pc = "fetch"
    /\ \E z \in {zone, None} : call' = [call EXCEPT ![r].pc = "store", ![r].data = z]
    /\ UNCHANGED <<now, merger, track, zone, was, cache, served>>

BugStore(r) ==
    /\ call[r].pc = "store"
    /\ cache' = [data |-> call[r].data, expires |-> now + Ttl]
    /\ call' = [call EXCEPT ![r] = NoCall]
    /\ UNCHANGED <<now, merger, track, zone, was, served>>

\* The entry is stored whatever happened to the cache meanwhile, and lasts from
\* the time the call began.
Store(r) ==
    /\ call[r].pc = "store"
    /\ cache' = [data |-> call[r].data, expires |-> call[r].since + Ttl]
    /\ call' = [call EXCEPT ![r] = NoCall]
    /\ UNCHANGED <<now, merger, track, zone, was, served>>

Invalidate ==
    /\ cache' = None
    /\ UNCHANGED <<now, merger, track, zone, was, call, served>>

\* Someone changes the camera's zone.
ChangeZone(z) ==
    /\ zone' = z
    /\ was' = [was EXCEPT ![Len(was)] = @ \cup {z}]
    /\ UNCHANGED <<now, merger, track, cache, call, served>>

MergerNext == \E k \in Windows : CloseWindow(k) \/ \E score \in Scores : Process(k, score)

TracksNext ==
    \/ EvictStale
    \/ \E t \in Tracks : RemoveTrack(t) \/ \E normal \in BOOLEAN : Record(t, normal)

ZonesNext ==
    \/ CacheHit \/ Invalidate
    \/ \E r \in Readers : CacheMiss(r) \/ Fetch(r) \/ Store(r)
    \/ \E z \in Zones : ChangeZone(z)

StoresNext == Tick \/ MergerNext \/ TracksNext \/ ZonesNext

StoresSpec == StoresInit /\ [][StoresNext]_stores

-----------------------------------------------------------------------------
(* Properties. *)

\* What a store keeps by counting agrees with what it stands for: a window's
\* peak and count are those of the events merged into it, and a history's
\* counts are those of the frames it still holds, so its multiplier lies
\* between 0.5 and 2.
CountsMatchContents ==
    /\ \A k \in Windows : window[k] # None =>
           /\ window[k].count = Len(merged[k])
           /\ window[k].peak = Max(Range(merged[k]))
    /\ \A t \in Tracks : track[t] # None =>
           /\ track[t].normal = Cardinality({n \in DOMAIN track[t].classes : track[t].classes[n]})
           /\ track[t].normal + track[t].abnormal = Len(track[t].classes)
           /\ Len(track[t].classes) <= HistoryLength
           /\ Multiplier(t) \in 50..200

\* A zone that the cache would return without a fetch was the camera's zone
\* within the last Ttl units of time, however long the fetch took that stored it.
\* An invalidation gives no more: a fetch under way stores the old zone after it.
ZoneFresh ==
    Cached /\ cache.data # None =>
        \E t \in DOMAIN was : t > now + 1 - Ttl /\ cache.data \in was[t]
=============================================================================
