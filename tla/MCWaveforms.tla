------------------------------ MODULE MCWaveforms ------------------------------
(***************************************************************************)
(* Instances of the waveform subsystem: the capture ring and its sessions,  *)
(* the archive on disk, the library a client pages through, and the export  *)
(* jobs of the web backend.  They share no variable here: a behaviour       *)
(* exercises the one that `part' names while the others stay as they began. *)
(***************************************************************************)
EXTENDS WaveformHistory, Sequences

CONSTANT Parts   \* the components this instance exercises

VARIABLES part,
          \* WaveformArchive
          dir, stale, serving, stopping, known, nextNumber, limit, scan,
          writes, written, writer, budget,
          \* WaveformListing
          library, index, captures, files, discovered, next, restarts, walk,
          truth,
          \* ExportTasks
          jobs, queue, disk, worker, client, reader, closing, drawn, left

-----------------------------------------------------------------------------
\* A ring of four frames filled in blocks that begin anywhere, so that blocks
\* wrap around the ring and windows reach its edge.
MCManualWindows == {<<2, 0>>, <<1, 1>>}
MCEventWindows == {<<1, 1>>}

Manual == INSTANCE WaveformHistory WITH EventWindows <- {}
Tracked == INSTANCE WaveformHistory WITH
             ManualWindows <- {}, Generations <- {1}, MaxSequence <- 3, MaxEpoch <- 1

\* Creation times need not follow the numbers: the clock may have been set
\* back.
Sound(born) == [health |-> "sound", bytes |-> 2, born |-> born]
Unsound(health) == [health |-> health, bytes |-> 2, born |-> 1]

Discovery == INSTANCE WaveformArchive WITH
               running <- serving, sessions <- known, nextId <- nextNumber,
               jobs <- writes, results <- written, left <- budget,
               MaxId <- 4, Leftover <- <<Sound(3), Sound(2), Unsound("malformed")>>,
               Bytes <- 2, Limits <- {6}, Faults <- {"write", "rename"},
               MaxFaults <- 1, MaxErasures <- 1, MaxCrashes <- 1, MaxLimits <- 0

Retention == INSTANCE WaveformArchive WITH
               running <- serving, sessions <- known, nextId <- nextNumber,
               jobs <- writes, results <- written, left <- budget,
               MaxId <- 5, Leftover <- <<Unsound("damaged"), Sound(2), Sound(1)>>,
               Bytes <- 2, Limits <- {4, 6}, Faults <- {},
               MaxFaults <- 0, MaxErasures <- 0, MaxCrashes <- 0, MaxLimits <- 1

Writing == INSTANCE WaveformArchive WITH
             running <- serving, sessions <- known, nextId <- nextNumber,
             jobs <- writes, results <- written, left <- budget,
             MaxId <- 3, Leftover <- <<Sound(1)>>,
             Bytes <- 2, Limits <- {4}, Faults <- {"write"},
             MaxFaults <- 1, MaxErasures <- 0, MaxCrashes <- 1, MaxLimits <- 0

\* Three chained files, the third two hops from its master.
Stretch(uuid, prev, succ, first, last, descriptors) ==
  [uuid |-> uuid, prev |-> prev, next |-> succ, first |-> first, last |-> last,
   descriptors |-> descriptors]
Chain == <<Stretch(1, 0, 2, 10, 19, {1}), Stretch(2, 1, 3, 20, 29, {1}),
           Stretch(3, 2, 0, 30, 39, {3, 1})>>

Library == INSTANCE WaveformListing WITH
             sessions <- library, disk <- files,
             Archive <- Chain, MaxId <- 4, MaxRestarts <- 1, Limits <- {2}

\* A file and a capture made meanwhile, listed one by one.
Walks == INSTANCE WaveformListing WITH
           sessions <- library, disk <- files, MaxId <- 2, MaxRestarts <- 1, Limits <- {1},
           Archive <- <<Stretch(1, 0, 0, 10, 19, {1})>>

Exports == INSTANCE ExportTasks WITH
             stopping <- closing, Capacity <- 8,
             Ids <- {1, 2, 3}, Keys <- {"a", "b"}, Clients <- {"x", "y"},
             Readers <- {"r"}, Sizes <- {1, 3}, Chunk <- 2, MaxOutput <- 4,
             MaxTotal <- 5, MinFree <- 1, MaxQueued <- 1,
             Faults <- {"source", "open", "write"},
             Budget <- [submits |-> 3, cancels |-> 1, reads |-> 0, ticks |-> 0,
                        faults |-> 1]

Downloads == INSTANCE ExportTasks WITH
               stopping <- closing, Capacity <- 8,
               Ids <- {1, 2, 3}, Keys <- {"a", "b"}, Clients <- {"x", "y"},
               Readers <- {"r"}, Sizes <- {2}, Chunk <- 2, MaxOutput <- 4,
               MaxTotal <- 5, MinFree <- 1, MaxQueued <- 1, Faults <- {},
               Budget <- [submits |-> 2, cancels |-> 1, reads |-> 1, ticks |-> 2,
                          faults |-> 0]

\* The environment fails in every way the manager handles.
Troubled == INSTANCE ExportTasks WITH
              stopping <- closing, Capacity <- 8,
              Ids <- {1, 2}, Keys <- {"a", "b"}, Clients <- {"x"},
              Readers <- {}, Sizes <- {3}, Chunk <- 2, MaxOutput <- 4,
              MaxTotal <- 3, MinFree <- 1, MaxQueued <- 1,
              Faults <- {"source", "open", "write", "convert", "sync", "remove"},
              Budget <- [submits |-> 2, cancels |-> 1, reads |-> 0, ticks |-> 0,
                         faults |-> 1]

-----------------------------------------------------------------------------
archiveVars == <<dir, stale, serving, stopping, known, nextNumber, limit, scan,
                 writes, written, writer, budget>>
libraryVars == <<library, index, captures, files, discovered, next, restarts,
                 walk, truth>>
exportVars == <<jobs, queue, disk, worker, client, reader, closing, drawn, left>>
waveformVars == <<part, vars, archiveVars, libraryVars, exportVars>>

WaveformInit ==
  /\ part \in Parts /\ Init
  /\ IF part = "walks" THEN Walks!Init ELSE Library!Init
  /\ CASE part = "retention" -> Retention!Init
       [] part = "writing" -> Writing!Init
       [] OTHER -> Discovery!Init
  /\ CASE part = "downloads" -> Downloads!Init
       [] part = "troubled" -> Troubled!Init
       [] OTHER -> Exports!Init

HistoryNext ==
  \/ part = "manual" /\ Manual!Next /\ nextId' <= 2
  \/ part = "tracked" /\ Tracked!Next

ArchiveNext ==
  \/ part = "discovery" /\ Discovery!Next
  \/ part = "retention" /\ Retention!Next
  \/ part = "writing" /\ Writing!Next

ExportNext ==
  \/ part = "exports" /\ Exports!Next
  \/ part = "downloads" /\ Downloads!Next
  \/ part = "troubled" /\ Troubled!Next

WaveformNext ==
  /\ UNCHANGED part
  /\ \/ HistoryNext /\ UNCHANGED <<archiveVars, libraryVars, exportVars>>
     \/ ArchiveNext /\ UNCHANGED <<vars, libraryVars, exportVars>>
     \/ /\ \/ part = "library" /\ Library!Next
           \/ part = "walks" /\ Walks!Next
        /\ UNCHANGED <<vars, archiveVars, exportVars>>
     \/ ExportNext /\ UNCHANGED <<vars, archiveVars, libraryVars>>

WaveformSpec == WaveformInit /\ [][WaveformNext]_waveformVars

\* The threads of the component at work are scheduled, and a client goes on with
\* its walk.
WaveformFairSpec ==
  /\ WaveformSpec
  /\ WF_archiveVars(part = "writing" /\ Writing!Writer)
  /\ WF_archiveVars(part = "writing" /\ Writing!Scanner)
  /\ WF_archiveVars(part = "writing" /\ Writing!Read)
  /\ WF_libraryVars(part = "walks" /\ Walks!Page)
  /\ WF_exportVars(part = "troubled" /\ Troubled!Work)

-----------------------------------------------------------------------------
\* The archive: no capture is numbered like a file, none is overlooked once the
\* discovery says it is complete, and a queued one is on its way to the disk
\* (WaveformArchive).
ArchiveIsKnown ==
  part = "discovery" =>
    Discovery!NumbersFresh /\ Discovery!ClearSeesAll /\ Discovery!QueuedIsPending

\* The archive: retention deletes sound files and no others, the oldest ones
\* first and no more than the limit asks for, what is committed fits, and a
\* complete capture has its file (WaveformArchive).
RetentionIsSound ==
  /\ Retention!OnlySoundExpire /\ Retention!OldestFirst
  /\ Retention!NoMoreThanNeeded /\ Retention!CommitFits
  /\ [](part = "retention" => Retention!OwnCompleteHasFile)

\* The library: a client's walk misses no capture and never turns back, its
\* total covers it, sessions are found under their number and uuid, lineage is
\* a chain, and both views agree with the origin shown (WaveformListing).
LibraryIsExact ==
  part = "library" =>
    /\ Library!WalkIsComplete /\ Library!WalkIsDescending /\ Library!TotalCoversTheWalk
    /\ Library!FindIsExact /\ Library!LineageIsAChain /\ Library!ViewsAgreeWithOrigin

\* The exports: one conversion per source at a time, within the storage policy,
\* no file without its job, and a download keeps its artifact (ExportTasks).
ExportsAreSound ==
  /\ part = "exports" =>
       Exports!OneActiveJobPerKey /\ Exports!StorageWithinPolicy /\ Exports!NoOrphanFile
  /\ part = "downloads" => Downloads!StreamedArtifactKept

\* What is begun ends: captures are written or given up and a shutdown waits for
\* no one (WaveformArchive), a client's walk comes to its end (WaveformListing),
\* and queued conversions settle, at shutdown too (ExportTasks).
WaveformsSettle ==
  /\ part = "writing" => Writing!WritesEnd /\ Writing!ShutdownEnds
  /\ part = "walks" => Walks!WalkEnds
  /\ part = "troubled" => Troubled!QueuedJobsSettle /\ Troubled!ShutdownReturns
===============================================================================
