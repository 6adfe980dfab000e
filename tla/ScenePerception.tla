---------------------------- MODULE ScenePerception ----------------------------
(***************************************************************************)
(* scene_processor of gp4_perception: clusters of each point cloud vote in *)
(* a temporal tracker, the confirmed ones become collision objects of the  *)
(* planning scene, and a service answers with the objects that the RGB     *)
(* detector reports.  One thread runs every callback and timer; the file   *)
(* with the camera calibration is written by another process.              *)
(*                                                                         *)
(* A place is a point on a line.  What the geometry makes of a cluster is  *)
(* in the cluster; a write of the file gives it a new time of modification.*)
(***************************************************************************)
EXTENDS Integers, FiniteSets, SequencesExt

CONSTANTS
    Clouds,         \* the sequences of clusters that a cloud may hold
    RgbArrays,      \* the sets of detections that the RGB detector may publish
    Jitter,         \* centroid_jitter_max_mm
    Window,         \* temporal_window_frames
    MinHits,        \* temporal_min_hits
    MissTolerance,  \* temporal_miss_tolerance_frames
    TTL,            \* detection_ttl_s
    MaxSamples,     \* MAX_DEPTH_NOISE_SAMPLES
    MaxObjects,     \* ids that the publishing timer removes (20)
    MaxFrames,      \* bound on the updates of the tracker
    MaxWrites       \* bound on the writes of the calibration file

Cluster == [class : STRING, at : Int, depth : STRING, sure : BOOLEAN]

ASSUME PerceptionAssumption ==
    /\ Clouds \subseteq Seq(Cluster)
    /\ {Window, MinHits, TTL, MaxSamples, MaxWrites} \subseteq Nat \ {0}
    /\ {Jitter, MissTolerance, MaxFrames} \subseteq Nat
    /\ MinHits <= Window

VARIABLES
    file,       \* extrinsics.yaml: [mtime, text]
    cache,      \* the verdict on it, kept with its time of modification
    slot,       \* _latest_cloud holds a cloud
    placed,     \* _last_transform is known
    tracks,     \* of the tracker
    last,       \* _last_detections
    lastAge,    \* since they were made
    ids,        \* _published_collision_ids
    world,      \* the collision objects in the planning scene, by id
    samples,    \* _depth_in_range_samples
    rgb,        \* _last_rgb_detections
    rgbAge,
    answer,     \* the latest response of get_object_positions
    frames,     \* updates of the tracker so far
    updates     \* history: the newest of them

calibration == <<file, cache>>
scene == <<placed, tracks, last, lastAge, ids, world, samples, frames, updates>>
grounding == <<rgb, rgbAge, answer>>
perception == <<calibration, slot, scene, grounding>>

Texts == {"absent", "undated", "inaccurate", "valid"}
NoCache == [mtime |-> 0, valid |-> FALSE]
NoAnswer == [ok |-> FALSE, detections |-> {}]

Kept == IF MissTolerance + 1 > MinHits THEN MissTolerance + 1 ELSE MinHits
(* The elements of s that are in good, in their order.                     *)
Select(s, good) ==
    LET Some[k \in 0 .. Len(s)] ==
          IF k = 0 THEN <<>>
          ELSE IF s[k] \in good THEN Append(Some[k - 1], s[k]) ELSE Some[k - 1]
    IN  Some[Len(s)]

Newest(s, n) == IF Len(s) <= n THEN s ELSE SubSeq(s, Len(s) - n + 1, Len(s))

(* ---- the tracker ---- *)

Distance(p, q) == IF p > q THEN p - q ELSE q - p
Hits(t) == Cardinality({k \in DOMAIN t.hits : t.hits[k]})

(* The nearest track of the class that no detection has taken in this      *)
(* frame; of two as near, the newer.                                       *)
Candidates(ts, taken, d) ==
    {i \in DOMAIN ts \ taken : ts[i].class = d.class /\ Distance(ts[i].at, d.at) <= Jitter}

BestMatch(ts, taken, d) ==
    CHOOSE i \in Candidates(ts, taken, d) : \A j \in Candidates(ts, taken, d) :
        \/ Distance(ts[i].at, d.at) < Distance(ts[j].at, d.at)
        \/ Distance(ts[i].at, d.at) = Distance(ts[j].at, d.at) /\ j <= i

NewTrack(d) ==
    [class |-> d.class, at |-> d.at, hits |-> <<>>, missed |-> 0, confirmed |-> FALSE]

Hit(t, d) == [t EXCEPT !.at = d.at, !.missed = 0, !.hits = Append(@, TRUE)]
Miss(t) == [t EXCEPT !.missed = @ + 1, !.hits = Append(@, FALSE)]
Voted(t) ==
    LET trimmed == [t EXCEPT !.hits = Newest(@, Window)]
    IN  [trimmed EXCEPT !.confirmed = @ \/ Hits(trimmed) >= MinHits]
\* Mutant: one miss more than tolerated.
Alive_Longer(t) == IF t.confirmed THEN t.missed <= MissTolerance + 1 ELSE Hits(t) > 0
Alive(t) == IF t.confirmed THEN t.missed <= MissTolerance ELSE Hits(t) > 0

\* One detection, in the order of the clusters: [tracks, taken] so far.
Assign(m, d) ==
    IF Candidates(m.tracks, m.taken, d) = {}
    THEN [tracks |-> Append(m.tracks, Hit(NewTrack(d), d)),
          taken |-> m.taken \cup {Len(m.tracks) + 1}]
    ELSE LET i == BestMatch(m.tracks, m.taken, d)
         IN  [tracks |-> [m.tracks EXCEPT ![i] = Hit(@, d)], taken |-> m.taken \cup {i}]

Assigned(ts, items) ==
    LET After[k \in 0 .. Len(items)] ==
          IF k = 0 THEN [tracks |-> ts, taken |-> {}] ELSE Assign(After[k - 1], items[k])
    IN  After[Len(items)]

Counted(m) ==
    [i \in DOMAIN m.tracks |->
        Voted(IF i \in m.taken THEN m.tracks[i] ELSE Miss(m.tracks[i]))]

Living(ts) == {t \in Range(ts) : Alive(t)}

Update(ts, items) ==
    LET voted == Counted(Assigned(ts, items)) IN Select(voted, Living(voted))

Reported(ts) ==
    LET confirmed == Select(ts, {t \in Range(ts) : t.confirmed})
    IN  [i \in DOMAIN confirmed |-> [class |-> confirmed[i].class, at |-> confirmed[i].at]]

(* ---- the calibration ---- *)

(* check_calibration_freshness, check_reprojection_error                   *)
Verdict(text) == text = "valid"

Writes == IF file.mtime = MaxWrites THEN {}
          ELSE [mtime : {file.mtime + 1}, text : Texts]

\* Mutant: the file is read before its time of modification.
CalibrationStatus_ReadFirst(valid) ==
    IF file.text # "absent" /\ cache.mtime = file.mtime
    THEN valid = cache.valid /\ UNCHANGED <<file, cache>>
    ELSE /\ file' \in {file} \cup Writes
         /\ valid = Verdict(file.text)
         /\ cache' = [mtime |-> file'.mtime, valid |-> valid]

(* The time of modification is read before the file, which may be written  *)
(* in between.  Nothing is cached for a file that was not there.           *)
CalibrationStatus(valid) ==
    IF file.text # "absent" /\ cache.mtime = file.mtime
    THEN valid = cache.valid /\ UNCHANGED <<file, cache>>
    ELSE /\ file' \in {file} \cup Writes
         /\ valid = Verdict(file'.text)
         /\ cache' = IF file.text = "absent" THEN cache
                     ELSE [mtime |-> file.mtime, valid |-> valid]

(* ---- the callbacks and timers ---- *)

PerceptionInit ==
    /\ file \in [mtime : {1}, text : Texts]
    /\ cache = NoCache /\ slot = FALSE /\ placed = FALSE
    /\ tracks = <<>> /\ last = <<>> /\ lastAge = 0
    /\ ids = {} /\ world = <<>>
    /\ samples = <<>> /\ rgb = {} /\ rgbAge = 0 /\ answer = NoAnswer
    /\ frames = 0 /\ updates = <<>>

\* Mutant: the ids are forgotten, the objects stay.
RemovePublished_ForgetOnly == world' = world /\ ids' = {}
RemovePublished ==
    /\ world' = [i \in DOMAIN world \ ids |-> world[i]]
    /\ ids' = {}

(* What is left of a scene whose calibration, or whose place, is not known.*)
ClearScene ==
    /\ RemovePublished
    /\ last' = <<>>
    /\ UNCHANGED <<lastAge, samples, tracks, frames, updates>>

OnCloud ==
    /\ slot' = TRUE
    /\ UNCHANGED <<calibration, scene, grounding>>

Measured(clusters) == Select(clusters, {c \in Range(clusters) : c.depth # "contour"})
InRange(clusters) ==
    [k \in DOMAIN Measured(clusters) |-> Measured(clusters)[k].depth = "OK"]
Accepted(clusters) ==
    Select(clusters, {c \in Range(clusters) :
                         c.depth \in {"OK", "DEGRADED_DEPTH"} /\ c.sure})
TrackerItems(clusters) ==
    LET c == Accepted(clusters)
    IN  [k \in DOMAIN c |-> [class |-> c[k].class, at |-> c[k].at]]

(* Steps 4 and 5 of a cloud.  Objects are numbered by their position among *)
(* the reported detections, and an ADD replaces the object of that number. *)
DetectObjects(clusters) ==
    LET stable == Reported(tracks')
    IN  /\ frames < MaxFrames
        /\ frames' = frames + 1
        /\ tracks' = Update(tracks, TrackerItems(clusters))
        /\ updates' = Newest(Append(updates, TrackerItems(clusters)), Kept)
        /\ samples' = Newest(samples \o InRange(clusters), MaxSamples)
        /\ world' = [i \in DOMAIN world \cup DOMAIN stable |->
                        IF i \in DOMAIN stable THEN stable[i] ELSE world[i]]
        /\ ids' = ids \cup DOMAIN stable
        /\ last' = stable /\ lastAge' = 0

(* A cloud that shows no cluster, after the crop, the removal of the plane *)
(* and the clustering, leaves everything as it was.                        *)
ProcessCloud(clusters, transform) ==
    IF ~(placed \/ transform)
    THEN ClearScene /\ UNCHANGED placed
    ELSE /\ placed' = TRUE
         /\ \/ clusters # <<>> /\ DetectObjects(clusters)
            \/ clusters = <<>>
               /\ UNCHANGED <<tracks, last, lastAge, ids, world, samples, frames, updates>>

ProcessLatestCloud ==
    /\ slot /\ slot' = FALSE
    /\ UNCHANGED grounding
    /\ \E valid \in BOOLEAN :
          /\ CalibrationStatus(valid)
          /\ \/ ~valid /\ ClearScene /\ UNCHANGED placed
             \/ valid /\ UNCHANGED scene     \* a cloud without points
             \/ valid /\ \E clusters \in Clouds, transform \in BOOLEAN :
                            ProcessCloud(clusters, transform)

(* The test of _publish_detections for a detection that still stands looks *)
(* for "cluster_<i>", which no detection holds: every id is removed.       *)
RemoveStale ==
    /\ world' = [i \in DOMAIN world \ 1 .. MaxObjects |-> world[i]]
    /\ ids' = ids \ 1 .. MaxObjects

Live == IF lastAge < TTL THEN last ELSE <<>>

PublishDetections ==
    /\ \E valid \in BOOLEAN :
          /\ CalibrationStatus(valid)
          /\ \/ ~valid /\ ClearScene
             \/ /\ valid
                /\ last' = Live
                /\ IF Live = <<>> THEN UNCHANGED <<world, ids>> ELSE RemoveStale
                /\ UNCHANGED <<lastAge, samples, tracks, frames, updates>>
    /\ UNCHANGED <<slot, placed, grounding>>

(* Detections in the frame of the camera are not taken.                    *)
OnRgbDetections ==
    /\ \E array \in RgbArrays : rgb' = {d \in array : d.frame = "base_link"}
    /\ rgbAge' = 0
    /\ UNCHANGED <<calibration, slot, scene, answer>>

DepthInRange == samples # <<>> /\ \A k \in DOMAIN samples : samples[k]
Fresh == IF rgbAge < TTL THEN rgb ELSE {}

HandleGetObjectPositions ==
    /\ \E valid \in BOOLEAN :
          /\ CalibrationStatus(valid)
          /\ IF valid /\ DepthInRange
             THEN /\ rgb' = Fresh
                  /\ answer' = [ok |-> TRUE, detections |->
                         {d \in Fresh : d.inside /\ d.depth # "DEGRADED_DEPTH"}]
             ELSE rgb' = rgb /\ answer' = NoAnswer
    /\ UNCHANGED <<slot, scene, rgbAge>>

(* ---- the rest of the world ---- *)

Age(a) == IF a < TTL THEN a + 1 ELSE a

Tick ==
    /\ lastAge' = Age(lastAge) /\ rgbAge' = Age(rgbAge)
    /\ UNCHANGED <<calibration, slot, placed, tracks, last, ids, world, samples,
                   frames, updates, rgb, answer>>

(* The calibration service opens the file for writing, which empties it,   *)
(* and then writes it: two writes, the first of a text without a date.     *)
WriteCalibration ==
    /\ file' \in Writes
    /\ UNCHANGED <<cache, slot, scene, grounding>>

PerceptionNext ==
    \/ OnCloud \/ ProcessLatestCloud \/ PublishDetections
    \/ OnRgbDetections \/ HandleGetObjectPositions
    \/ Tick \/ WriteCalibration

PerceptionSpec == PerceptionInit /\ [][PerceptionNext]_perception

(* ---- properties ---- *)

PerceptionTypeOK ==
    /\ file \in [mtime : 1 .. MaxWrites, text : Texts]
    /\ cache \in [mtime : 0 .. MaxWrites, valid : BOOLEAN]
    /\ {slot, placed} \subseteq BOOLEAN
    /\ \A i \in DOMAIN tracks :
          /\ Len(tracks[i].hits) \in 1 .. Window
          /\ tracks[i].missed \in 0 .. Window + MissTolerance
    /\ {lastAge, rgbAge} \subseteq 0 .. TTL
    /\ Len(samples) <= MaxSamples /\ Len(updates) <= Kept

(* What the tracker reports was seen where it is reported in one of the    *)
(* last MissTolerance + 1 updates: a lost object is not carried on.        *)
NoGhosts ==
    \A d \in Range(Reported(tracks)) : \E k \in DOMAIN updates :
        k > Len(updates) - (MissTolerance + 1) /\ d \in Range(updates[k])

(* A detection that stood still and apart from others of its class in each *)
(* of the last MinHits updates is reported, whatever tracks are left over  *)
(* from before: its hits are never split between them.                     *)
Steady(d) ==
    /\ Len(updates) >= MinHits
    /\ \A k \in Len(updates) - MinHits + 1 .. Len(updates) :
          LET near == {n \in DOMAIN updates[k] :
                          /\ updates[k][n].class = d.class
                          /\ Distance(updates[k][n].at, d.at) <= Jitter}
          IN  \E n \in near : near = {n} /\ updates[k][n] = d

SteadyIsReported ==
    updates # <<>> => \A d \in Range(updates[Len(updates)]) :
        Steady(d) => d \in Range(Reported(tracks))

(* Every object that the node put into the scene is one that it remembers  *)
(* and would remove, and it remembers no other: neither an invalid         *)
(* calibration nor a lost transform leaves one behind.                     *)
ObjectsAccounted == DOMAIN world = ids

(* The cached verdict is that of the file as long as their times agree,    *)
(* also when the file is written while it is read.                         *)
CalibrationCurrent ==
    file.text # "absent" /\ cache.mtime = file.mtime => cache.valid = Verdict(file.text)

(* An answer to the planner stands on a valid calibration, on depth that   *)
(* was in range in every sample kept, and on objects of the latest array   *)
(* that is younger than the TTL.                                           *)
AnswersAreGrounded ==
    [][answer' # answer /\ answer'.ok =>
          /\ Verdict(file.text) \/ Verdict(file'.text)
          /\ \A k \in DOMAIN samples : samples[k]
          /\ answer'.detections # {} => rgbAge < TTL
          /\ answer'.detections \subseteq rgb]_perception

(* scene_processor.py:612, "Remove stale collision objects": after the     *)
(* timer has run, no object is in the scene that the latest detections do  *)
(* not show, also when nothing is detected any more.  The timer is not so  *)
(* late here that the detections have expired.                             *)
StaleObjectsRemoved ==
    [][PublishDetections /\ lastAge < TTL
       => \A i \in DOMAIN world' : world'[i] \in Range(last')]_perception

(* What the tracker reports is what stands there, no less and no more.     *)
TrackerIsTrue == PerceptionTypeOK /\ NoGhosts /\ SteadyIsReported
=============================================================================
