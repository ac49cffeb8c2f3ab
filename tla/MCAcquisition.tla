----------------------------- MODULE MCAcquisition -----------------------------
(***************************************************************************)
(* Instances of what lies between the programmable logic and the meter      *)
(* stream: the record ingestor, its family assemblers, the coordinator of   *)
(* the capture pipeline and the energy ledger.  They share no variable      *)
(* here: a behaviour exercises the one that `part' names while the others   *)
(* stay as they began.  The ledger is exercised three times, with energy    *)
(* alone, with demand alone, and with less of both; the ingestor twice,     *)
(* with the sample ranges of the basic stream and with the other streams.   *)
(***************************************************************************)
EXTENDS EnergyLedger

CONSTANT Parts   \* the components this instance exercises

VARIABLES part,
          \* RecordIngestor
          running, generation, plGeneration, produced, sample, ring, baseline,
          gaps, invalid, view, stream, segment, segmentGaps,
          \* FamilyIngest
          up, family, chunk, partial, completed, pending, incomplete,
          published, begun, done, base, identity, slots, buffer, energyFamily,
          swaps,
          \* CaptureCoordinator
          d

\* Sample jumps of the basic stream: none, a lost sample, an overlap by one.
Blocks == INSTANCE RecordIngestor WITH
            Basic <- {"block"}, Tracked <- {}, Events <- {}, Siblings <- {},
            SeqMod <- 16, FirstSeq <- 1, Jumps <- {-1, 0, 1},
            Flaws <- {"none", "sequence"},
            RingSize <- 1, MaxProduced <- 3, MaxEpochs <- 2

\* The sequence word wraps at the second record.
Records == INSTANCE RecordIngestor WITH
            Basic <- {}, Tracked <- {"aggregate"}, Events <- {"pq"},
            Siblings <- {"preview"}, SeqMod <- 8, FirstSeq <- 7, Jumps <- {0},
            Flaws <- {"none", "decode"},
            RingSize <- 1, MaxProduced <- 3, MaxEpochs <- 2

\* Three chunks make a harmonic family; its sequence wraps at the third one.
Families == INSTANCE FamilyIngest WITH
              energy <- energyFamily, Chunks <- {0, 1, 2}, SeqMod <- 8,
              FirstSeq <- 6, MaxFamilies <- 4, MaxIdentities <- 4, MaxSwaps <- 1

Coordinator == INSTANCE CaptureCoordinator WITH
                 Generations <- {1, 2}, Demands <- {1, 2}, MaxFaults <- 2

ingestVars == <<running, generation, plGeneration, produced, sample, ring,
                baseline, gaps, invalid, view, stream, segment, segmentGaps>>
familyVars == <<up, family, chunk, partial, completed, pending, incomplete,
                published, begun, done, base, identity, slots, buffer,
                energyFamily, swaps>>
pipelineVars == <<part, vars, ingestVars, familyVars, d>>

\* 3 samples at 7 Hz last 8 of 20 ticks per second: rounding loses a part.
MCWindows == {<<3, 7>>}

\* INT64_MIN for MaxInt = 3, and an import; an invalid interval counts as zero.
MCDemands == {-4, 2}

PipelineInit ==
  /\ part \in Parts /\ Init /\ Families!Init /\ Coordinator!Init
  /\ IF part = "blocks" THEN Blocks!Init ELSE Records!Init
  /\ part # "coordinator" => d.conf = 1 /\ d.settings.demand = 1

\* The ledger with energy only, with demand only, and with some of both.
LedgerNext ==
  \/ part = "energy" /\ (MeasureEnergy \/ IngestEnergy \/ ResetEnergy \/ Restart)
  \/ part = "demand" /\ (MeasureDemand \/ IngestDemand \/ ResetDemandPeaks \/ Restart)
  \/ part = "history" /\ Next /\ Len(elog') <= 2 /\ Len(dlog') <= 1

\* Harmonic families only, energy families only.
FamilyNext ==
  \/ part = "harmonics" /\ (Families!EmitChunk \/ Families!ClearLatest)
  \/ /\ part = "energies"
     /\ Families!EmitPart \/ Families!NextIdentity \/ Families!ClearLatest

PipelineNext ==
  /\ UNCHANGED part
  /\ \/ LedgerNext /\ UNCHANGED <<ingestVars, familyVars, d>>
     \/ part = "blocks" /\ Blocks!Next /\ UNCHANGED <<vars, familyVars, d>>
     \/ part = "records" /\ Records!Next /\ UNCHANGED <<vars, familyVars, d>>
     \/ FamilyNext /\ UNCHANGED <<vars, ingestVars, d>>
     \/ /\ part = "coordinator" /\ Coordinator!Next
        /\ UNCHANGED <<vars, ingestVars, familyVars>>

PipelineSpec == PipelineInit /\ [][PipelineNext]_pipelineVars

\* The ingestor: no record or sample is lost without a count (RecordIngestor).
LossIsCounted ==
  /\ part = "blocks" => Blocks!ZeroGapsMeansContinuous
  /\ part = "records" =>
       Records!GapsAreCounted /\ Records!ViewIsPublished /\ Records!BaselineIsCurrent

\* The assemblers: families are published whole, and the abandoned ones are
\* counted (FamilyIngest).
FamiliesWhole ==
  Families!FamiliesWhole /\ (part = "harmonics" => Families!IncompleteExact)

\* The coordinator: one generation is active in all owners of a pipeline that
\* runs, a seeded aggregator has the boundaries of the time in force, a command
\* that failed leaves no trace, and a wiring change that was rolled back left
\* the old one active everywhere (CaptureCoordinator).
CoordinatorIsSound ==
  /\ [](Coordinator!RunningIsCoherent /\ Coordinator!SeededIsProgrammed)
  /\ Coordinator!FailureRestores /\ Coordinator!RolledBackIsActive
===============================================================================
