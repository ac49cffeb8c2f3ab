----------------------------- MODULE FamilyIngest -----------------------------
(***************************************************************************)
(* Records that are published only as complete families: HARMONIC (42       *)
(* chunks of one sequence) and ENERGY (a summary and a quadrant part of one *)
(* identity).  HarmonicFamilyAssembler and EnergyFamilyAssembler decide     *)
(* when a family is complete; the ingestor keeps the raw records of the     *)
(* family in a publication buffer of its own and throws std::logic_error,   *)
(* which ends the process, when buffer and assembler ever disagree.         *)
(***************************************************************************)
EXTENDS Integers, Sequences, FiniteSets

CONSTANTS Chunks,      \* chunk numbers of a harmonic family (0..41)
          SeqMod,      \* sequence words count modulo 2^32
          FirstSeq,    \* sequence word of family 0
          MaxFamilies, \* bound: harmonic families produced
          MaxIdentities, \* bound: energy families produced
          MaxSwaps     \* bound: configuration swaps

EnergyParts == {"summary", "quadrants"}
None == [seq |-> -1, got |-> {}]

VARIABLES up,          \* no exception has ended the process
          family,      \* number of the harmonic family being produced
          chunk,       \* its chunks produced so far
          partial,     \* HarmonicFamilyAssembler::partial_, or None
          completed,   \* last_completed_sequence_, or -1
          pending,     \* pending_harmonic_families_, or None
          incomplete,  \* incomplete_harmonic_families_
          published,   \* harmonic families published, in order
          begun,       \* number of the family that opened this segment, or -1
          done,        \* families completed in this segment
          base,        \* value of incomplete when the segment began
          identity,    \* identity of the energy family being produced
          slots,       \* EnergyFamilyAssembler: part -> <<identity, payload>>
          buffer,      \* pending_energy_family_: part -> <<identity, payload>>
          energy,      \* newest energy family published: part -> <<identity, payload>>
          swaps

harmonic == <<partial, completed, pending, incomplete, published, begun, done,
              base>>
energyVars == <<slots, buffer, energy>>
vars == <<up, family, chunk, harmonic, identity, energyVars, swaps>>

-----------------------------------------------------------------------------
(* HARMONIC                                                                 *)

ForwardOf(a, b) == (a - b) % SeqMod # 0 /\ (a - b) % SeqMod < SeqMod \div 2

SeqOf(f) == (FirstSeq + f) % SeqMod

\* A newer family replaces the one that is being assembled.
Replaces(seq) == partial # None /\ seq # partial.seq

\* Families that the sequence word of a new family shows to be incomplete.
\* After a replacement only the families since the partial one are new.
IncompleteBy(seq) ==
    IF Replaces(seq) THEN (seq - partial.seq) % SeqMod
    ELSE IF partial = None /\ completed # -1
    THEN (seq - completed - 1) % SeqMod ELSE 0

\* accept throws: an old sequence, other provenance, or a chunk seen before.
HarmonicRejects(seq, c, provenance) ==
    \/ Replaces(seq) /\ ~ForwardOf(seq, partial.seq)
    \/ partial = None /\ completed # -1 /\ ~ForwardOf(seq, completed)
    \/ /\ partial # None /\ seq = partial.seq
       /\ provenance # partial.provenance \/ c \in partial.got

\* The publication buffer: started afresh for another sequence.
BufferFor(seq) == IF pending # None /\ pending.seq = seq THEN pending
                  ELSE [seq |-> seq, got |-> {}]

\* A variant that takes one chunk too few for a family.
CompleteShort(got) == Cardinality(got) >= Cardinality(Chunks) - 1

\* harmonic_records_per_family chunks.
Complete(got) == Cardinality(got) = Cardinality(Chunks)

\* A chunk that reaches the ingestor.  f is its family's number.
AcceptHarmonic(f, c, provenance) ==
    LET seq == SeqOf(f)
        p == IF partial # None /\ seq = partial.seq
             THEN [partial EXCEPT !.got = @ \cup {c}]
             ELSE [seq |-> seq, got |-> {c}, provenance |-> provenance]
        b == [BufferFor(seq) EXCEPT !.got = @ \cup {c}]
        full == Complete(p.got)
    IN  IF HarmonicRejects(seq, c, provenance)
        THEN UNCHANGED <<up, harmonic>>
        ELSE IF c \in BufferFor(seq).got \/ (full /\ ~Complete(b.got))
        THEN up' = FALSE /\ UNCHANGED harmonic          \* std::logic_error
        ELSE /\ incomplete' = incomplete + IncompleteBy(seq)
             /\ begun' = IF begun = -1 THEN f ELSE begun
             /\ partial' = IF full THEN None ELSE p
             /\ completed' = IF full THEN seq ELSE completed
             /\ done' = IF full THEN done \cup {f} ELSE done
             /\ pending' = IF full THEN None ELSE b
             /\ published' = IF full THEN Append(published, [seq |-> seq,
                                     number |-> f, got |-> b.got])
                             ELSE published
             /\ UNCHANGED <<up, base>>

\* The producer emits the chunks in order; the ring may lose one, and a
\* chunk may carry other provenance than its siblings.
EmitChunk ==
    /\ up /\ family < MaxFamilies
    /\ \E c \in Chunks \ chunk, lost \in BOOLEAN, provenance \in {1, 2} :
         /\ \A d \in Chunks : d < c => d \in chunk
         /\ IF lost THEN UNCHANGED <<up, harmonic>>
            ELSE AcceptHarmonic(family, c, provenance)
         /\ IF chunk \cup {c} = Chunks
            THEN chunk' = {} /\ family' = family + 1
            ELSE chunk' = chunk \cup {c} /\ UNCHANGED family
    /\ UNCHANGED <<identity, energyVars, swaps>>

-----------------------------------------------------------------------------
(* ENERGY                                                                   *)

Empty == [p \in EnergyParts |-> <<>>]
Held(e) == {p \in EnergyParts : e[p] # <<>>}

\* The parts held are of another family.
OtherIdentity(e, id) == \E p \in Held(e) : e[p][1] # id

\* The publication buffer drops the parts of another identity.
FreshBuffer(id) == IF OtherIdentity(buffer, id) THEN Empty ELSE buffer

\* And so does the assembler.
FreshSlots(id) == IF OtherIdentity(slots, id) THEN Empty ELSE slots

\* One part.  The same part again with other bytes is rejected; a family whose
\* values do not decode stays until another identity replaces it; a conflict
\* with the ledger quarantines the family.
AcceptEnergy(id, part, payload) ==
    LET b == FreshBuffer(id)
        s == FreshSlots(id)
        r == <<id, payload>>
        b1 == IF b[part] = <<>> THEN [b EXCEPT ![part] = r] ELSE b
        s1 == IF s[part] = <<>> THEN [s EXCEPT ![part] = r] ELSE s
    IN  IF b[part] # <<>> /\ b[part] # r
        THEN buffer' = b /\ UNCHANGED <<up, slots, energy>>
        ELSE IF s[part] # <<>> /\ s[part] # r
        THEN buffer' = b1 /\ slots' = s /\ UNCHANGED <<up, energy>>
        ELSE IF Held(s1) # EnergyParts
        THEN buffer' = b1 /\ slots' = s1 /\ UNCHANGED <<up, energy>>
        ELSE \/ buffer' = b1 /\ slots' = s1 /\ UNCHANGED <<up, energy>>
             \/ /\ slots' = Empty
                /\ IF Held(b1) # EnergyParts
                   THEN up' = FALSE /\ UNCHANGED <<buffer, energy>>
                   ELSE /\ buffer' = Empty /\ UNCHANGED up
                        /\ \/ energy' = b1
                           \/ UNCHANGED energy                   \* Conflict

EmitPart ==
    /\ up /\ identity > 0
    /\ \E part \in EnergyParts, payload \in {1, 2} :
         AcceptEnergy(identity, part, payload)
    /\ UNCHANGED <<family, chunk, harmonic, identity, swaps>>

\* The producer goes on to the next family, its parts sent, lost or repeated.
NextIdentity ==
    /\ identity < MaxIdentities
    /\ identity' = identity + 1
    /\ UNCHANGED <<up, family, chunk, harmonic, energyVars, swaps>>

-----------------------------------------------------------------------------
\* begin_epoch and clear_latest between two records; the counters of
\* clear_latest continue.
ClearLatest ==
    /\ up /\ swaps < MaxSwaps
    /\ swaps' = swaps + 1
    /\ partial' = None /\ completed' = -1 /\ pending' = None
    /\ begun' = -1 /\ done' = {} /\ base' = incomplete
    /\ slots' = Empty /\ buffer' = Empty
    /\ UNCHANGED <<up, family, chunk, incomplete, published, identity, energy>>

Init ==
    /\ up = TRUE /\ family = 0 /\ chunk = {} /\ swaps = 0
    /\ partial = None /\ completed = -1 /\ pending = None
    /\ incomplete = 0 /\ published = <<>> /\ begun = -1 /\ done = {} /\ base = 0
    /\ identity = 0 /\ slots = Empty /\ buffer = Empty /\ energy = Empty

Next == EmitChunk \/ EmitPart \/ NextIdentity \/ ClearLatest

Spec == Init /\ [][Next]_vars

-----------------------------------------------------------------------------
(* Properties.                                                              *)

\* A harmonic family is published whole and at most once, in sequence order;
\* the two parts of a published energy family are of one identity; and the
\* logic_error checks on the publication buffers never fire, because after
\* every record, accepted or rejected, buffer and assembler hold the same parts
\* of the same family.
FamiliesWhole ==
    /\ up /\ pending.seq = partial.seq /\ pending.got = partial.got
    /\ \A i \in 1..Len(published) : published[i].got = Chunks
    /\ \A i, j \in 1..Len(published) :
         i < j => published[i].number < published[j].number
    /\ energy # Empty => /\ Held(energy) = EnergyParts
                         /\ energy["summary"][1] = energy["quadrants"][1]

\* incomplete_harmonic_families counts each family of the segment that was
\* seen to be incomplete exactly once: all before the newest that were not
\* completed, across the wrap of the sequence word.
IncompleteExact ==
    begun # -1 =>
        incomplete - base =
            Cardinality({f \in begun..(family) :
                /\ f \notin done
                /\ \/ partial # None /\ SeqOf(f) # partial.seq /\
                        ForwardOf(partial.seq, SeqOf(f))
                   \/ partial = None /\ ForwardOf(completed, SeqOf(f))})
=============================================================================
