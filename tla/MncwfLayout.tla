---------------------------- MODULE MncwfLayout ----------------------------
(***************************************************************************)
(* Where the bytes of an MNCWF file are (mncwf_v4.cpp): the directory and   *)
(* the section envelopes the encoders lay out and the reader checks, the    *)
(* chunk table of a version 5 sample section, the chunks an event slice     *)
(* copies or cuts, and MncwfV4VirtualFile::read, through which a client     *)
(* fetches a slice piece by piece.                                          *)
(*                                                                          *)
(* Sizes are scaled down: the alignment of eight bytes and the sizes of the *)
(* header, the directory entries and the envelopes are constants.  A byte   *)
(* is named by the section it belongs to and its place in it; alignment     *)
(* bytes are zero.  What Zstd makes of a chunk is its size alone; checksums *)
(* protect contents and are taken to match the bytes they were computed of. *)
(***************************************************************************)
EXTENDS Integers, Sequences

CONSTANTS
    Unit,           \* alignment of sections, blobs and chunks
    HeaderBytes,    \* mncwf_v4_header_bytes
    EntryBytes,     \* mncwf_v4_directory_entry_bytes
    EnvelopeBytes,  \* mncwf_v4_section_header_bytes
    ChunkEntry,     \* mncwf_v5_chunk_entry_bytes
    MaxChunk,       \* mncwf_v5_max_chunk_logical_bytes
    FrameBytes,     \* bytes of one persisted frame
    MaxFrames,      \* bound on the persisted frames
    Metadata,       \* sequences of metadata sections [count, item, blob]
    Buffers         \* sizes of the buffer a client fetches into

VARIABLES
    master,         \* the archived file, or NoFile
    slice,          \* the virtual file of one slice, or NoFile
    fetched         \* bytes of the slice the client has

vars == <<master, slice, fetched>>

NoFile == [version |-> 0]

Smaller(a, b) == IF a < b THEN a ELSE b
Larger(a, b) == IF a > b THEN a ELSE b

\* align_eight.
Aligned(n) == ((n + Unit - 1) \div Unit) * Unit

-----------------------------------------------------------------------------
(* Sections.                                                                *)

\* enveloped_section: the header, the records, and the blob after alignment.
Enveloped(shape) ==
    LET recordsEnd == EnvelopeBytes + shape.count * shape.item
        blobOffset == IF shape.blob = 0 THEN 0 ELSE Aligned(recordsEnd)
    IN  [version |-> 1, count |-> shape.count, item |-> shape.item,
         blobOffset |-> blobOffset, blob |-> shape.blob,
         stored |-> IF shape.blob = 0 THEN recordsEnd ELSE blobOffset + shape.blob]

\* parse_section_envelope: the geometry the reader expects of an envelope.
EnvelopeAccepted(s) ==
    LET recordsEnd == EnvelopeBytes + s.count * s.item
    IN  /\ s.version = 1 /\ s.stored >= EnvelopeBytes
        /\ IF s.blob = 0 THEN s.blobOffset = 0 /\ recordsEnd = s.stored
           ELSE s.blobOffset = Aligned(recordsEnd) /\ s.blobOffset + s.blob = s.stored

\* The offsets of sections of the given sizes, each aligned, after the
\* directory; one more than there are sections, the last being the file size.
Offsets(sizes) ==
    LET off[i \in 1 .. Len(sizes) + 1] ==
            IF i = 1 THEN Aligned(HeaderBytes + Len(sizes) * EntryBytes)
            ELSE Aligned(off[i - 1] + sizes[i - 1])
    IN  off

\* The directory an encoder writes for the sections it has.
Directory(sections) ==
    LET off == Offsets([i \in 1 .. Len(sections) |-> sections[i].stored])
    IN  [i \in 1 .. Len(sections) |-> [offset |-> off[i], stored |-> sections[i].stored]]

FileBytes(sections) ==
    Offsets([i \in 1 .. Len(sections) |-> sections[i].stored])[Len(sections) + 1]

\* MncwfV4Reader: the extents follow one another, aligned, to the file's end.
ExtentsAccepted(directory, bytes) ==
    /\ \A i \in 1 .. Len(directory) :
        /\ directory[i].stored > 0 /\ directory[i].offset % Unit = 0
        /\ directory[i].offset =
            IF i = 1 THEN Aligned(HeaderBytes + Len(directory) * EntryBytes)
            ELSE Aligned(directory[i - 1].offset + directory[i - 1].stored)
    /\ Aligned(directory[Len(directory)].offset + directory[Len(directory)].stored) = bytes

-----------------------------------------------------------------------------
(* Version 5 sample sections.                                               *)

Compress(first, frames, size) ==
    LET logical == Len(frames) * FrameBytes
    IN  [first |-> first, frames |-> frames, logical |-> logical,
         codec |-> IF size < logical THEN "zstd" ELSE "raw",
         stored |-> IF size < logical THEN size ELSE logical]

\* What Zstd may make of the chunks: much smaller, barely smaller, larger.
Sizes(logical) == {Larger(1, logical \div 2), Larger(1, logical - 1), logical + 2}

FramesPerChunk == Larger(1, MaxChunk \div FrameBytes)

\* encode_v5_sample_section: the chunks of frames 1..n, the last one short.
EncodedChunks(n, pick) ==
    [k \in 1 .. (n + FramesPerChunk - 1) \div FramesPerChunk |->
        LET first == (k - 1) * FramesPerChunk
            frames == [j \in 1 .. Smaller(FramesPerChunk, n - first) |-> first + j]
        IN  Compress(first, frames, pick[k])]

\* assemble_v5_sample_section: the offsets of the stored chunks, and of the
\* section's end.
ChunkOffsets(chunks) ==
    LET off[i \in 1 .. Len(chunks) + 1] ==
            IF i = 1 THEN Aligned(EnvelopeBytes + Len(chunks) * ChunkEntry)
            ELSE Aligned(off[i - 1] + chunks[i - 1].stored)
    IN  off

\* assemble_v5_sample_section: the table and the chunks as one section.
Assembled(count, chunks) ==
    LET off == ChunkOffsets(chunks)
    IN  [version |-> 2, count |-> count, item |-> FrameBytes,
         blobOffset |-> EnvelopeBytes, blob |-> Len(chunks) * ChunkEntry,
         stored |-> off[Len(chunks) + 1],
         chunks |-> [i \in 1 .. Len(chunks) |->
                        [first |-> chunks[i].first, frames |-> chunks[i].frames,
                         logical |-> chunks[i].logical, codec |-> chunks[i].codec,
                         stored |-> chunks[i].stored, offset |-> off[i]]]]

\* MncwfV4Reader: one chunk of the table.
ChunkAccepted(c, expectedFirst, expectedOffset) ==
    /\ c.first = expectedFirst /\ Len(c.frames) > 0
    /\ c.logical = Len(c.frames) * FrameBytes /\ c.logical <= MaxChunk
    /\ c.offset = expectedOffset /\ c.stored > 0
    /\ IF c.codec = "raw" THEN c.stored = c.logical ELSE c.stored < c.logical

\* MncwfV4Reader: the chunks cover the frames and the section exactly.
SamplesAccepted(s) ==
    LET n == Len(s.chunks)
        tail == s.chunks[n]
    IN  /\ s.version = 2 /\ n > 0
        /\ s.blobOffset = EnvelopeBytes /\ s.blob = n * ChunkEntry
        /\ ChunkAccepted(s.chunks[1], 0, Aligned(EnvelopeBytes + s.blob))
        /\ \A i \in 2 .. n :
            ChunkAccepted(s.chunks[i],
                          s.chunks[i - 1].first + Len(s.chunks[i - 1].frames),
                          Aligned(s.chunks[i - 1].offset + s.chunks[i - 1].stored))
        /\ tail.first + Len(tail.frames) = s.count
        /\ Aligned(tail.offset + tail.stored) = s.stored

\* MncwfV4Reader in complete mode: the frames the chunks decode to.
RECURSIVE Decoded(_)
Decoded(chunks) ==
    IF chunks = << >> THEN << >> ELSE Head(chunks).frames \o Decoded(Tail(chunks))

SliceChunk(c, from, to, size) ==
    LET begin == Larger(from, c.first)
        end   == Smaller(to, c.first + Len(c.frames))
    IN  IF begin = c.first /\ end = c.first + Len(c.frames)
        THEN [first |-> begin - from, frames |-> c.frames, logical |-> c.logical,
              codec |-> c.codec, stored |-> c.stored]
        ELSE Compress(begin - from, SubSeq(c.frames, begin - c.first + 1, end - c.first), size)

\* make_v5_slice_sample_section.
SlicedSamples(section, from, to, size) ==
    LET Meets(c) == Larger(from, c.first) < Smaller(to, c.first + Len(c.frames))
        met == SelectSeq(section.chunks, Meets)
    IN  Assembled(to - from, [i \in 1 .. Len(met) |-> SliceChunk(met[i], from, to, size)])

-----------------------------------------------------------------------------
(* Files.                                                                   *)

\* The version 4 sample section: an envelope with the frames as its records.
PlainSamples(count) == Enveloped([count |-> count, item |-> FrameBytes, blob |-> 0])

\* encode_mncwf_v4 and encode_mncwf_v5: the sections of a document.
EncodedFile(version, shapes, frames, samples) ==
    LET sections == [i \in 1 .. Len(shapes) |-> Enveloped(shapes[i])] \o <<samples>>
    IN  [version |-> version, sections |-> sections, frames |-> frames,
         directory |-> Directory(sections), bytes |-> FileBytes(sections)]

\* Byte j of section i, in a file whose byte 0 is the first.
Byte(i, j) == 1000 * i + j

\* The bytes before offset stop: header, directory and sections, the rest zero.
Laid(directory, stop) ==
    [p \in 1 .. stop |->
        IF p <= HeaderBytes + Len(directory) * EntryBytes THEN Byte(0, p)
        ELSE LET held == {i \in 1 .. Len(directory) :
                            p > directory[i].offset
                            /\ p <= directory[i].offset + directory[i].stored}
             IN  IF held = {} THEN 0
                 ELSE LET i == CHOOSE k \in held : TRUE IN Byte(i, p - directory[i].offset)]

\* make_v5_virtual_file: a version 5 slice is built whole.
VirtualV5(file) ==
    [prefix |-> Laid(file.directory, file.bytes), samples |-> << >>, padding |-> 0,
     bytes |-> file.bytes]

VirtualV4(file) ==
    LET n      == Len(file.directory)
        prefix == file.directory[n].offset + EnvelopeBytes
        frames == file.directory[n].stored - EnvelopeBytes
    IN  [prefix |-> Laid(file.directory, prefix),
         samples |-> [j \in 1 .. frames |-> Byte(n, EnvelopeBytes + j)],
         padding |-> file.bytes - prefix - frames,
         bytes |-> file.bytes]

\* MncwfV4VirtualFile::read, its copy_region: what one region adds to what
\* was copied so far.
CopyRegion(copied, offset, requested, base, source) ==
    LET at == offset + Len(copied)
    IN  IF Len(copied) = requested \/ at < base \/ at >= base + Len(source) THEN copied
        ELSE copied \o SubSeq(source, at - base + 1,
                              Smaller(at - base + requested - Len(copied), Len(source)))

ReadAt(v, offset, room) ==
    LET requested == Smaller(room, v.bytes - offset)
        first == CopyRegion(<< >>, offset, requested, 0, v.prefix)
        second == CopyRegion(first, offset, requested, Len(v.prefix), v.samples)
        at == offset + Len(second)
        pad == Len(v.prefix) + Len(v.samples)
        zeros == IF Len(second) < requested /\ at >= pad
                 THEN Smaller(requested - Len(second), v.padding - (at - pad)) ELSE 0
    IN  second \o [k \in 1 .. zeros |-> 0]

-----------------------------------------------------------------------------

Init == master = NoFile /\ slice = NoFile /\ fetched = << >>

\* A document is encoded: version 4 plain, version 5 in chunks.
EncodeV4 ==
    /\ master = NoFile
    /\ \E shapes \in Metadata, n \in 1 .. MaxFrames :
        master' = EncodedFile(4, shapes, [k \in 1 .. n |-> k], PlainSamples(n))
    /\ UNCHANGED <<slice, fetched>>

EncodeV5 ==
    /\ master = NoFile
    /\ \E shapes \in Metadata, n \in 1 .. MaxFrames :
       \E pick \in [1 .. (n + FramesPerChunk - 1) \div FramesPerChunk -> Sizes(MaxChunk)] :
        master' = EncodedFile(5, shapes, [k \in 1 .. n |-> k],
                              Assembled(n, EncodedChunks(n, pick)))
    /\ UNCHANGED <<slice, fetched>>

\* make_mncwf_v4_event_slice for the frames from..to-1 of an event, whose
\* metadata sections are encoded anew.
MakeSlice ==
    /\ master # NoFile /\ slice = NoFile
    /\ \E from \in 0 .. Len(master.frames) - 1 :
       \E to \in from + 1 .. Len(master.frames), shapes \in Metadata, size \in Sizes(MaxChunk) :
        LET file == IF master.version = 5
                    THEN EncodedFile(5, shapes, SubSeq(master.frames, from + 1, to),
                            SlicedSamples(master.sections[Len(master.sections)], from, to, size))
                    ELSE EncodedFile(4, shapes, SubSeq(master.frames, from + 1, to),
                                     PlainSamples(to - from))
        IN  slice' = [version |-> master.version, file |-> file, from |-> from, to |-> to,
                      virtual |-> IF master.version = 5 THEN VirtualV5(file) ELSE VirtualV4(file)]
    /\ UNCHANGED <<master, fetched>>

\* The client fetches the next piece, of whatever size its buffer has.
Fetch ==
    /\ slice # NoFile /\ Len(fetched) < slice.virtual.bytes
    /\ \E room \in Buffers : fetched' = fetched \o ReadAt(slice.virtual, Len(fetched), room)
    /\ UNCHANGED <<master, slice>>

Next == EncodeV4 \/ EncodeV5 \/ MakeSlice \/ Fetch

Spec == Init /\ [][Next]_vars

-----------------------------------------------------------------------------
(* Properties.                                                              *)

FileAccepted(f) ==
    LET n == Len(f.sections) IN
    /\ ExtentsAccepted(f.directory, f.bytes)
    /\ \A i \in 1 .. n - 1 : EnvelopeAccepted(f.sections[i])
    /\ IF f.version = 5 THEN SamplesAccepted(f.sections[n]) ELSE EnvelopeAccepted(f.sections[n])

\* The reader accepts the geometry of every file the encoders lay out and of
\* every slice, however the records, blobs and chunks fall on the alignment.
LayoutsAgree ==
    /\ master # NoFile => FileAccepted(master)
    /\ slice # NoFile => FileAccepted(slice.file)

\* A version 5 slice decodes to the very frames it was cut from, across
\* copied chunks, cut chunks and both, and a master decodes to all of them.
SliceDecodes ==
    /\ (master # NoFile /\ master.version = 5) =>
        Decoded(master.sections[Len(master.sections)].chunks) = master.frames
    /\ (slice # NoFile /\ slice.version = 5) =>
        Decoded(slice.file.sections[Len(slice.file.sections)].chunks)
            = SubSeq(master.frames, slice.from + 1, slice.to)

\* A chunk that lies inside the slice is copied with its stored frame: the
\* slice never recompresses what it can reuse.
WholeChunksReused ==
    (slice # NoFile /\ slice.version = 5) =>
        LET old == master.sections[Len(master.sections)].chunks
            new == slice.file.sections[Len(slice.file.sections)].chunks
        IN  \A i \in 1 .. Len(old) :
                (old[i].first >= slice.from /\ old[i].first + Len(old[i].frames) <= slice.to) =>
                    \E j \in 1 .. Len(new) :
                        /\ new[j].frames = old[i].frames
                        /\ new[j].codec = old[i].codec /\ new[j].stored = old[i].stored

\* However the client sizes its fetches, it ends up with a file in which each
\* section's extent holds that section's bytes and every other byte after the
\* directory is zero; nothing is skipped, repeated or cut short on the way.
FetchesReassemble ==
    slice # NoFile =>
        \A p \in 1 .. Len(fetched) :
            LET dir == slice.file.directory
                held == {i \in 1 .. Len(dir) :
                            p > dir[i].offset /\ p <= dir[i].offset + dir[i].stored}
            IN  IF p <= HeaderBytes + Len(dir) * EntryBytes THEN fetched[p] = Byte(0, p)
                ELSE IF held = {} THEN fetched[p] = 0
                ELSE \E i \in held : fetched[p] = Byte(i, p - dir[i].offset)

\* A fetch before the end returns something, and never more than the file
\* declares: the client's loop ends exactly at the declared size.
FetchesProgress ==
    /\ slice # NoFile => Len(fetched) <= slice.virtual.bytes
    /\ (slice # NoFile /\ Len(fetched) < slice.virtual.bytes) =>
        \A room \in Buffers :
            Len(ReadAt(slice.virtual, Len(fetched), room))
                = Smaller(room, slice.virtual.bytes - Len(fetched))
=============================================================================
