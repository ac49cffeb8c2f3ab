--------------------------- MODULE WaveformListing ---------------------------
(***************************************************************************)
(* The waveform library a client sees: the list of capture sessions kept   *)
(* by WaveformCapture (src/common/msap1/waveform/waveform_capture.cpp),    *)
(* its two indexes, the continuation lineage rebuilt from the files after  *)
(* a restart, the origin of a session (which kinds of trigger made it),    *)
(* and a client that walks the list page by page with a cursor while       *)
(* sessions are started, merged, finished, erased and rediscovered.        *)
(*                                                                         *)
(* How files are written, scanned and expired is modelled in               *)
(* WaveformArchive; here a session is finished, and the archive is         *)
(* discovered, in one step.  Sample windows of live sessions are           *)
(* abstracted to whether a manual window joins the active one.             *)
(***************************************************************************)
EXTENDS Naturals, Sequences, SequencesExt, FiniteSets

CONSTANTS
  Archive,      \* the files on disk at first: id -> file
  MaxId,        \* bound: the largest session number
  MaxRestarts,  \* bound: restarts
  Limits        \* page limits the client asks for (1..100 in the code)

VARIABLES
  sessions,     \* sessions_: a sequence of sessions
  index,        \* session_index_: id -> position
  captures,     \* capture_index_: capture uuid -> position
  disk,         \* the files: id -> file
  discovered,   \* the discovery result has been collected
  next,         \* next_session_id_
  restarts,
  walk,         \* the client's walk through the pages
  truth         \* history: id -> the trigger sources that contributed

vars == <<sessions, index, captures, disk, discovered, next, restarts, walk,
          truth>>

-----------------------------------------------------------------------------
(* WaveformTriggerSource: 1 manual_cli, 2 manual_web, 3 pq_event.          *)
Sources == 1..3

(* The bit of a descriptor's trigger source; a value outside the           *)
(* enumeration contributes none.                                           *)
TriggerSourceBit(source) == {source} \cap Sources

ManualMask == TriggerSourceBit(1) \cup TriggerSourceBit(2)

PowerQualityMask == TriggerSourceBit(3)

Origins == {"all", "manual", "power_quality"}

(* matches_origin                                                          *)
Matches(session, origin) ==
  CASE origin = "all" -> TRUE
    [] origin = "manual" -> session.mask \cap ManualMask # {}
    [] origin = "power_quality" -> session.mask \cap PowerQualityMask # {}

(* waveform_origin of the web routes.                                      *)
WaveformOrigin(mask) ==
  CASE mask \cap ManualMask # {} /\ mask \cap PowerQualityMask # {} -> "mixed"
    [] mask \cap ManualMask # {} /\ mask \cap PowerQualityMask = {} -> "manual"
    [] mask \cap ManualMask = {} /\ mask \cap PowerQualityMask # {} ->
         "power_quality"
    [] OTHER -> "legacy"

-----------------------------------------------------------------------------
(* The indexes.  Several sessions with one uuid: the last one wins, which  *)
(* random uuids never meet.                                                *)
IdIndex(list) ==
  [id \in {list[i].id : i \in DOMAIN list} |->
     CHOOSE i \in DOMAIN list : list[i].id = id]

CaptureIndex(list) ==
  [u \in {list[i].uuid : i \in DOMAIN list} \ {0} |->
     CHOOSE i \in DOMAIN list :
       list[i].uuid = u /\ \A j \in DOMAIN list : list[j].uuid = u => j <= i]

(* Store a list of sessions and rebuild_indexes().                         *)
Listed(list) ==
  /\ sessions' = list
  /\ index' = IdIndex(list)
  /\ captures' = CaptureIndex(list)

(* The first pass: the session a continuation follows directly.            *)
Predecessor(list, i) ==
  LET s == list[i] IN
  {j \in DOMAIN list :
     /\ s.prev # 0 /\ s.prev \in DOMAIN CaptureIndex(list)
     /\ j = CaptureIndex(list)[s.prev]
     /\ list[j].id < s.id
     /\ list[j].last + 1 = s.first
     /\ list[j].next = s.uuid}

(* The second pass, ascending: the master of a continuation is that of its *)
(* predecessor, which stands before it in the list.                        *)
Masters(list) ==
  LET master[i \in DOMAIN list] ==
        LET before == {j \in Predecessor(list, i) : j < i} IN
        IF before = {} THEN list[i].id
        ELSE master[CHOOSE j \in before : TRUE]
  IN master

(* rebuild_session_lineage(), for a list sorted by id.                     *)
RebuildSessionLineage(list) ==
  [i \in DOMAIN list |->
     [list[i] EXCEPT
        !.of = IF Predecessor(list, i) = {} THEN 0
               ELSE list[CHOOSE j \in Predecessor(list, i) : TRUE].id,
        !.master = Masters(list)[i]]]

-----------------------------------------------------------------------------
(* A session as read_session() restores it.  The mask is rebuilt from the  *)
(* trigger sources of the event descriptors; the legacy formats carry      *)
(* neither descriptors nor a uuid nor lineage.                             *)
ReadSession(id, file) ==
  [id |-> id, state |-> "complete", of |-> 0, master |-> id,
   uuid |-> file.uuid, prev |-> file.prev, next |-> file.next,
   first |-> file.first, last |-> file.last, descriptors |-> file.descriptors,
   mask |-> UNION {TriggerSourceBit(d) : d \in file.descriptors}]

(* A new live session; its window lies past every archived one.            *)
NewSession(id, descriptor, mask) ==
  [id |-> id, state |-> "capturing", of |-> 0, master |-> id,
   uuid |-> id, prev |-> 0, next |-> 0, first |-> 100 * id,
   last |-> 100 * id + 1, descriptors |-> {descriptor}, mask |-> mask]

FileOf(session) ==
  [uuid |-> session.uuid, prev |-> session.prev, next |-> session.next,
   first |-> session.first, last |-> session.last,
   descriptors |-> session.descriptors]

Capturing == {i \in DOMAIN sessions : sessions[i].state = "capturing"}

FirstActive == CHOOSE i \in Capturing : \A j \in Capturing : i <= j

(* The manual trigger that joins the active session.                       *)
Joined(session, source) ==
  [session EXCEPT !.descriptors = @ \cup {source},
                  !.mask = @ \cup TriggerSourceBit(source)]

-----------------------------------------------------------------------------
(* One page.                                                               *)
Candidates(origin, before) ==
  {sessions[i].id : i \in {i \in DOMAIN sessions :
     /\ Matches(sessions[i], origin)
     /\ before = 0 \/ sessions[i].id < before}}

Descending(ids) == SetToSortSeq(ids, LAMBDA a, b : a > b)

CountIn(origin, states) ==
  Cardinality({i \in DOMAIN sessions :
     Matches(sessions[i], origin) /\ sessions[i].state \in states})

(* A variant that ends the walk when the remaining sessions fill a page    *)
(* but one (an off-by-one in "more remain").                               *)
WaveformSessionPageShort(origin, before, limit) ==
  LET sorted == Descending(Candidates(origin, before))
      shown == SubSeq(sorted, 1, IF Len(sorted) < limit THEN Len(sorted)
                                 ELSE limit)
  IN [ids |-> shown, total |-> CountIn(origin, {"capturing", "complete",
                                                "incomplete"}),
      active |-> CountIn(origin, {"capturing"}),
      next |-> IF Len(sorted) > Len(shown) + 1 /\ shown # <<>>
               THEN shown[Len(shown)] ELSE 0]

WaveformSessionPage(origin, before, limit) ==
  LET sorted == Descending(Candidates(origin, before))
      shown == SubSeq(sorted, 1, IF Len(sorted) < limit THEN Len(sorted)
                                 ELSE limit)
  IN [ids |-> shown, total |-> CountIn(origin, {"capturing", "complete",
                                                "incomplete"}),
      active |-> CountIn(origin, {"capturing"}),
      next |-> IF Len(sorted) > Len(shown) /\ shown # <<>>
               THEN shown[Len(shown)] ELSE 0]

-----------------------------------------------------------------------------
NoWalk == [open |-> FALSE, origin |-> "all", limit |-> 1, before |-> 0,
           seen |-> <<>>, always |-> {}, total |-> 0, over |-> FALSE]

Init ==
  /\ sessions = <<>> /\ index = <<>> /\ captures = <<>>
  /\ disk = Archive
  /\ discovered = FALSE
  /\ next = Cardinality(DOMAIN Archive) + 1
  /\ restarts = 0
  /\ walk = NoWalk
  /\ truth = [id \in DOMAIN Archive |->
                UNION {TriggerSourceBit(d) : d \in Archive[id].descriptors}]

(* collect_discovery_results(): merge what the scan found, sort, rebuild   *)
(* the lineage and the indexes.                                            *)
Discover ==
  /\ ~discovered
  /\ LET live == {sessions[i].id : i \in DOMAIN sessions}
         found == {ReadSession(id, disk[id]) : id \in DOMAIN disk \ live}
         merged == SetToSortSeq({sessions[i] : i \in DOMAIN sessions}
                                \cup found, LAMBDA a, b : a.id < b.id)
     IN Listed(RebuildSessionLineage(merged))
  /\ discovered' = TRUE
  /\ UNCHANGED <<disk, next, restarts, walk, truth>>

(* A manual trigger from the command line (1) or the web (2): it extends   *)
(* the first capturing session, or starts one when there is none or its    *)
(* window begins past the active one's end.                                *)
Manual(source, apart) ==
  IF Capturing = {} \/ apart
  THEN /\ next <= MaxId
       /\ Listed(Append(sessions,
            NewSession(next, source, TriggerSourceBit(source))))
       /\ next' = next + 1
       /\ truth' = [id \in DOMAIN truth \cup {next} |->
                      IF id = next THEN {source} ELSE truth[id]]
       /\ UNCHANGED <<disk, discovered, restarts, walk>>
  ELSE /\ sessions' = [sessions EXCEPT ![FirstActive] = Joined(@, source)]
       /\ truth' = [truth EXCEPT ![sessions[FirstActive].id] = @ \cup {source}]
       /\ UNCHANGED <<index, captures, disk, discovered, next, restarts, walk>>

(* A power-quality event starts a session of its own.  Its mask is the     *)
(* pq_event bit; the descriptor keeps the trigger source of the detector's *)
(* record, which is 0..2.                                                  *)
PowerQuality(recordSource) ==
  /\ next <= MaxId
  /\ Listed(Append(sessions,
       NewSession(next, recordSource, PowerQualityMask)))
  /\ next' = next + 1
  /\ truth' = [id \in DOMAIN truth \cup {next} |->
                 IF id = next THEN {3} ELSE truth[id]]
  /\ UNCHANGED <<disk, discovered, restarts, walk>>

(* The oldest finished session, which retention may remove to make room.   *)
Oldest ==
  LET done == {i \in DOMAIN sessions : sessions[i].state = "complete"} IN
  {i \in done : \A j \in done : i <= j}

Without(gone) ==
  SelectSeq(sessions, LAMBDA s : s.id \notin {sessions[i].id : i \in gone})

(* A materialization result: expired sessions leave the list, and the      *)
(* session written becomes complete, or incomplete when the write failed.  *)
Finish(i, written, expired) ==
  /\ i \in Capturing
  /\ expired \subseteq Oldest
  /\ LET id == sessions[i].id
         kept == Without(expired)
         finished == [k \in DOMAIN kept |->
            IF kept[k].id = id
            THEN [kept[k] EXCEPT !.state = IF written THEN "complete"
                                           ELSE "incomplete"]
            ELSE kept[k]]
         left == DOMAIN disk \ {sessions[j].id : j \in expired}
     IN /\ Listed(finished)
        /\ disk' = [f \in left \cup (IF written THEN {id} ELSE {}) |->
                      IF f = id THEN FileOf(sessions[i]) ELSE disk[f]]
  /\ UNCHANGED <<discovered, next, restarts, walk, truth>>

(* erase(): the file, then the session; the lineage of the others stays.   *)
Erase(i) ==
  /\ i \in DOMAIN sessions
  /\ sessions[i].state # "capturing"
  /\ disk' = [f \in DOMAIN disk \ {sessions[i].id} |-> disk[f]]
  /\ Listed(Without({i}))
  /\ UNCHANGED <<discovered, next, restarts, walk, truth>>

(* The daemon restarts: only the files are left.                           *)
Restart ==
  /\ restarts < MaxRestarts
  /\ restarts' = restarts + 1
  /\ Listed(<<>>)
  /\ discovered' = FALSE
  /\ UNCHANGED <<disk, next, walk, truth>>

-----------------------------------------------------------------------------
(* The client.  "always" collects the sessions that matched in every page  *)
(* request of the walk.                                                    *)
Begin(origin, limit) ==
  /\ ~walk.open
  /\ walk' = [NoWalk EXCEPT !.open = TRUE, !.origin = origin,
                            !.limit = limit, !.always = 1..MaxId]
  /\ UNCHANGED <<sessions, index, captures, disk, discovered, next, restarts,
                 truth>>

(* session_page() answers from what is listed, discovered or not.          *)
Page ==
  /\ walk.open /\ ~walk.over
  /\ LET page == WaveformSessionPage(walk.origin, walk.before, walk.limit)
     IN walk' = [walk EXCEPT
                   !.seen = @ \o page.ids,
                   !.always = @ \cap {sessions[i].id : i \in
                     {i \in DOMAIN sessions :
                        Matches(sessions[i], walk.origin)}},
                   !.before = page.next,
                   !.total = page.total,
                   !.over = page.next = 0]
  /\ UNCHANGED <<sessions, index, captures, disk, discovered, next, restarts,
                 truth>>

Leave ==
  /\ walk.over
  /\ walk' = NoWalk
  /\ UNCHANGED <<sessions, index, captures, disk, discovered, next, restarts,
                 truth>>

Next ==
  \/ Discover
  \/ \E source \in 1..2, apart \in BOOLEAN : Manual(source, apart)
  \/ \E source \in 0..2 : PowerQuality(source)
  \/ \E i \in DOMAIN sessions, written \in BOOLEAN :
       \E expired \in SUBSET Oldest : Finish(i, written, expired)
  \/ \E i \in DOMAIN sessions : Erase(i)
  \/ Restart
  \/ \E origin \in Origins, limit \in Limits : Begin(origin, limit)
  \/ Page
  \/ Leave

Spec == Init /\ [][Next]_vars

-----------------------------------------------------------------------------
(* Finding a session by number or by uuid returns that session, and misses *)
(* none: the two indexes follow every merge, sort, expiry and erasure of   *)
(* the list.                                                               *)
FindIsExact ==
  /\ DOMAIN index = {sessions[i].id : i \in DOMAIN sessions}
  /\ \A id \in DOMAIN index :
       index[id] \in DOMAIN sessions /\ sessions[index[id]].id = id
  /\ \A i \in DOMAIN sessions :
       sessions[i].uuid # 0 => /\ sessions[i].uuid \in DOMAIN captures
                               /\ captures[sessions[i].uuid] = i

(* A continuation and its predecessor, while both are listed, have one     *)
(* master and adjoining windows, and a session that continues nothing is   *)
(* its own master (rebuild_session_lineage, over files that were erased    *)
(* and restored in any combination).                                       *)
LineageIsAChain ==
  /\ \A i, j \in DOMAIN sessions :
       sessions[i].of = sessions[j].id =>
         /\ sessions[i].master = sessions[j].master
         /\ sessions[j].last + 1 = sessions[i].first
         /\ sessions[j].next = sessions[i].uuid
  /\ \A i \in DOMAIN sessions :
       sessions[i].of = 0 => sessions[i].master = sessions[i].id

(* The page filter and the web projection agree on every session: "mixed"  *)
(* belongs to both filtered views, "legacy" only to the view of all.       *)
ViewsAgreeWithOrigin ==
  \A i \in DOMAIN sessions :
    LET origin == WaveformOrigin(sessions[i].mask) IN
    /\ Matches(sessions[i], "manual") <=> origin \in {"manual", "mixed"}
    /\ Matches(sessions[i], "power_quality") <=>
         origin \in {"power_quality", "mixed"}

(* A walk that has ended showed every session that matched in each of its  *)
(* page requests, however the list changed between them.                   *)
WalkIsComplete ==
  walk.over => walk.always \subseteq {walk.seen[k] : k \in DOMAIN walk.seen}

(* A walk shows no session twice, newest first, across its pages.          *)
WalkIsDescending ==
  \A k \in 1..(Len(walk.seen) - 1) : walk.seen[k] > walk.seen[k + 1]

(* The total of a page is that of the whole filtered list, whatever the    *)
(* cursor has passed: it counts the sessions that matched throughout.      *)
TotalCoversTheWalk ==
  walk.seen # <<>> => walk.total >= Cardinality(walk.always)

(* A client that keeps fetching pages reaches the end of the list, even    *)
(* while sessions are added, expired or erased between its requests.       *)
WalkEnds == walk.open ~> walk.over
=============================================================================
