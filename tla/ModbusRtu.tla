----------------------------- MODULE ModbusRtu -----------------------------
(***************************************************************************)
(* One serial port of ModbusRtuServer (common/mnc/modbus/rtu_server.cpp):  *)
(* bytes are read in whatever pieces the driver delivers, cut into frames  *)
(* by length where the function code gives one and by a silent interval    *)
(* otherwise, answered by the request handler, and the answers queued for  *)
(* one writer coroutine.                                                   *)
(*                                                                         *)
(* The I/O worker runs the read loop, the gap-timer handler and the        *)
(* writer; the lifecycle thread runs stop(), which closes the port step by *)
(* step beside them.                                                       *)
(*                                                                         *)
(* What the master puts on the line is Script, a sequence of transmissions *)
(* separated by silence.  A byte is <<r, i>>, the i-th byte of             *)
(* transmission r.  Its value matters in two places only: the second byte  *)
(* of a buffer is read as a function code and, for a multiple write, the   *)
(* CountAt-th as a byte count.  A checksum holds exactly for a buffer that *)
(* is one whole, undamaged transmission.                                   *)
(***************************************************************************)
EXTENDS Integers, Sequences, FiniteSets, FiniteSetsExt, SequencesExt, Functions

CONSTANTS
    Script,      \* what the master sends; see TypeOfScript
    FixedSize,   \* frame length of functions 3, 4 and 6
    CountAt,     \* bytes needed before a multiple write's length is known
    MultiBase,   \* length of a multiple write without its data
    MaxFrame,    \* maximum_rtu_frame_size, and the size of the input buffer
    MaxQueued,   \* maximum_queued_rtu_responses
    Pieces,      \* the sizes in which the driver delivers bytes
    Late,        \* whether the worker may run a gap handler late
    Faults       \* how often a read or a write may fail

VARIABLES
    line,       \* [r, i]: transmission r has delivered i bytes
    kernel,     \* bytes the driver holds
    running, active, serial,  \* the two atomics; the port is open
    buffer,     \* RtuFrameAssembler::buffer_
    frames,     \* frames of the last read that are still to be processed
    gap,        \* [gen, armed]: gap_generation; the wait that is pending, or 0
    expired,    \* gap handlers that are queued to run
    queue, queuedBytes, writing, \* under output_mutex
    writer,     \* [pc, output]: the drain_writes coroutine
    main,       \* the lifecycle thread in stop()
    left,       \* faults left
    handled,    \* ghost: the transmissions that passed the checksum, in order
    out         \* ghost: the answers written, by transmission

inputVars == <<line, kernel>>
outputVars == <<queue, queuedBytes, writing, writer, out>>
vars == <<line, kernel, running, active, serial, buffer, frames, gap, expired,
          queue, queuedBytes, writing, writer, main, left, handled, out>>

Total == Len(Script)
Bytes == {<<r, i>> : r \in 1..Total, i \in 1..(2 * MaxFrame)}
NoOutput == 0

TypeOK ==
    /\ line \in [r : 0..Total, i : 0..(2 * MaxFrame)]
    /\ kernel \in Seq(Bytes) /\ buffer \in Seq(Bytes)
    /\ frames \in Seq(Seq(Bytes))
    /\ {running, active, serial, writing} \subseteq BOOLEAN
    /\ gap \in [gen : Nat, armed : Nat] /\ expired \subseteq Nat
    /\ queue \in Seq(1..Total) /\ queuedBytes \in Int
    /\ writer \in [pc : {"none", "check", "write"}, output : 0..Total]
    /\ main \in {"idle", "stopping", "closing", "clearing", "queue", "closed"}
    /\ left \in 0..Faults
    /\ handled \in Seq(1..Total) /\ out \in Seq(1..Total)

Init ==
    /\ line = [r |-> 0, i |-> 0] /\ kernel = <<>>
    /\ running = TRUE /\ active = TRUE /\ serial = TRUE
    /\ buffer = <<>> /\ frames = <<>>
    /\ gap = [gen |-> 0, armed |-> 0] /\ expired = {}
    /\ queue = <<>> /\ queuedBytes = 0 /\ writing = FALSE
    /\ writer = [pc |-> "none", output |-> NoOutput]
    /\ main = "idle" /\ left = Faults /\ handled = <<>> /\ out = <<>>

-----------------------------------------------------------------------------
(* RtuFrameAssembler. *)

FunctionOf(b) == IF b[2] = 2 THEN Script[b[1]].kind ELSE Script[b[1]].noise

Unknown == -1

(* A variant that takes eight bytes for any other function. *)
frame_sizeEight(bytes) ==
    IF Len(bytes) < 2 THEN Unknown
    ELSE IF FunctionOf(bytes[2]) # "multi" THEN FixedSize
    ELSE IF Len(bytes) < CountAt THEN Unknown
    ELSE MultiBase + Script[bytes[CountAt][1]].count

(* The length of the frame at the head of the buffer, where the bytes so   *)
(* far tell it.                                                            *)
frame_size(bytes) ==
    IF Len(bytes) < 2 THEN Unknown
    ELSE CASE FunctionOf(bytes[2]) = "fixed" -> FixedSize
           [] FunctionOf(bytes[2]) = "multi" ->
                IF Len(bytes) < CountAt THEN Unknown
                ELSE MultiBase + Script[bytes[CountAt][1]].count
           [] OTHER -> Unknown

(* Cut frames off the head until none is complete: [frames, rest], or the  *)
(* length error that empties the buffer and loses the frames of this read. *)
Cut[bytes \in Seq(Bytes)] ==
    LET size == frame_size(bytes) IN
    IF size = Unknown
    THEN IF Len(bytes) > MaxFrame THEN [ok |-> FALSE, frames |-> <<>>, rest |-> <<>>]
         ELSE [ok |-> TRUE, frames |-> <<>>, rest |-> bytes]
    ELSE IF size > MaxFrame THEN [ok |-> FALSE, frames |-> <<>>, rest |-> <<>>]
    ELSE IF Len(bytes) < size THEN [ok |-> TRUE, frames |-> <<>>, rest |-> bytes]
    ELSE LET tail == Cut[SubSeq(bytes, size + 1, Len(bytes))] IN
         IF tail.ok THEN [tail EXCEPT !.frames = <<SubSeq(bytes, 1, size)>> \o @]
         ELSE tail

push(bytes) == Cut[buffer \o bytes]

(* The transmission a frame is, where its checksum holds. *)
valid_crc(frame) ==
    /\ Len(frame) >= 4
    /\ LET r == frame[1][1] IN
       /\ Script[r].good
       /\ frame = [i \in 1..Script[r].len |-> <<r, i>>]

-----------------------------------------------------------------------------
(* process_frame and enqueue_write; the handler's answer to transmission r *)
(* has size Script[r].reply.                                               *)

QueueFull(r) ==
    \/ Len(queue) >= MaxQueued
    \/ queuedBytes + Script[r].reply > MaxQueued * MaxFrame

enqueue_write(r) ==
    IF ~active \/ QueueFull(r) THEN UNCHANGED <<queue, queuedBytes, writing, writer>>
    ELSE /\ queue' = Append(queue, r)
         /\ queuedBytes' = queuedBytes + Script[r].reply
         /\ writing' = TRUE
         /\ writer' = IF writing THEN writer
                      ELSE [pc |-> "check", output |-> NoOutput]

process_frame(frame) ==
    IF ~valid_crc(frame)
    THEN UNCHANGED <<queue, queuedBytes, writing, writer, handled>>
    ELSE LET r == frame[1][1] IN
         /\ handled' = Append(handled, r)
         /\ IF Script[r].reply = 0
            THEN UNCHANGED <<queue, queuedBytes, writing, writer>>
            ELSE enqueue_write(r)

-----------------------------------------------------------------------------
(* The line and the driver (not code of the server). *)

Silent == line.r > 0 => line.i = Script[line.r].len

(* Some more bytes of the transmission under way. *)
Arrive(k) ==
    /\ line.r > 0 /\ line.i + k <= Script[line.r].len
    /\ line' = [line EXCEPT !.i = @ + k]
    /\ kernel' = kernel \o [j \in 1..k |-> <<line.r, line.i + j>>]
    /\ UNCHANGED <<running, active, serial, buffer, frames, gap, expired, main,
                   left, handled>>
    /\ UNCHANGED outputVars

(* After a silent interval the next transmission begins.  The interval is  *)
(* longer than the gap the timer waits for, so a wait armed before it has  *)
(* expired; a worker that is not late has also run its handler.            *)
Begin ==
    /\ Silent /\ line.r < Total
    /\ gap.armed = 0 \/ ~active \/ kernel # <<>>
    /\ ~Late => kernel = <<>> /\ frames = <<>> /\ (expired = {} \/ ~active)
    /\ line' = [r |-> line.r + 1, i |-> 0]
    /\ UNCHANGED <<kernel, running, active, serial, buffer, frames, gap,
                   expired, main, left, handled>>
    /\ UNCHANGED outputVars

(* The armed wait runs out while the line is silent. *)
Expire ==
    /\ gap.armed # 0 /\ Silent /\ kernel = <<>>
    /\ expired' = expired \cup {gap.armed}
    /\ gap' = [gap EXCEPT !.armed = 0]
    /\ UNCHANGED <<running, active, serial, buffer, frames, main, left, handled>>
    /\ UNCHANGED inputVars /\ UNCHANGED outputVars

-----------------------------------------------------------------------------
(* The I/O worker. *)

(* The cancelled wait is replaced by one with a fresh generation. *)
arm_gap_timer ==
    gap' = IF active THEN [gen |-> gap.gen + 1, armed |-> gap.gen + 1]
           ELSE [gap EXCEPT !.armed = 0]

(* One completed read: cancel the wait, push, arm again. *)
ReadSome ==
    LET count == Min({Len(kernel), MaxFrame})
        cut == push(SubSeq(kernel, 1, count)) IN
    /\ running /\ serial /\ frames = <<>> /\ kernel # <<>>
    /\ kernel' = SubSeq(kernel, count + 1, Len(kernel))
    /\ buffer' = cut.rest /\ frames' = cut.frames
    /\ arm_gap_timer
    /\ UNCHANGED <<line, running, active, serial, expired, main, left, handled>>
    /\ UNCHANGED outputVars

(* The rest of the same pass of run(): one frame after the other. *)
ProcessNext ==
    /\ frames # <<>>
    /\ process_frame(Head(frames))
    /\ frames' = Tail(frames)
    /\ UNCHANGED <<running, active, serial, buffer, gap, expired, main, left, out>>
    /\ UNCHANGED inputVars

GapIsCurrent(g) == running /\ active /\ g = gap.gen

(* finish_on_silence: the buffer as it stands is a frame. *)
GapHandler(g) ==
    /\ frames = <<>>
    /\ expired' = expired \ {g}
    /\ IF GapIsCurrent(g) /\ buffer # <<>>
       THEN process_frame(buffer) /\ buffer' = <<>>
       ELSE UNCHANGED <<buffer, queue, queuedBytes, writing, writer, handled>>
    /\ UNCHANGED <<running, active, serial, frames, gap, main, left, out>>
    /\ UNCHANGED inputVars

(* close() on the worker, where nothing of the worker interleaves. *)
CloseHere ==
    IF active \/ serial
    THEN /\ active' = FALSE /\ serial' = FALSE
         /\ gap' = [gen |-> gap.gen + 1, armed |-> 0]
         /\ buffer' = <<>> /\ queue' = <<>> /\ queuedBytes' = 0 /\ writing' = FALSE
    ELSE UNCHANGED <<active, serial, gap, buffer, queue, queuedBytes, writing>>

(* The read fails: the device is gone, or stop() closed it. *)
ReadFails ==
    /\ frames = <<>> /\ serial /\ left > 0
    /\ left' = left - 1
    /\ CloseHere
    /\ UNCHANGED <<running, frames, expired, writer, main, handled, out>>
    /\ UNCHANGED inputVars

(* drain_writes takes the front answer, or leaves when there is none. *)
WriterTake ==
    /\ writer.pc = "check"
    /\ writer' = IF running /\ active /\ queue # <<>>
                 THEN [pc |-> "write", output |-> Head(queue)]
                 ELSE [pc |-> "none", output |-> NoOutput]
    /\ writing' = (writing /\ ~(running /\ active /\ queue = <<>>))
    /\ UNCHANGED <<running, active, serial, buffer, frames, gap, expired, main,
                   left, queue, queuedBytes, handled, out>>
    /\ UNCHANGED inputVars

(* The write completes; stop() may have emptied the queue meanwhile. *)
WriteDone ==
    /\ writer.pc = "write" /\ serial
    /\ out' = Append(out, writer.output)
    /\ queue' = IF queue = <<>> THEN queue ELSE Tail(queue)
    /\ queuedBytes' = IF queue = <<>> THEN queuedBytes
                      ELSE queuedBytes - Script[Head(queue)].reply
    /\ writer' = [pc |-> "check", output |-> NoOutput]
    /\ UNCHANGED <<running, active, serial, buffer, frames, gap, expired, main,
                   left, writing, handled>>
    /\ UNCHANGED inputVars

(* The write fails, by itself or because the port was closed. *)
WriteFails ==
    /\ writer.pc = "write" /\ frames = <<>>
    /\ IF serial THEN left > 0 /\ left' = left - 1 ELSE left' = left
    /\ writer' = [pc |-> "none", output |-> NoOutput]
    /\ IF active \/ serial THEN CloseHere
       ELSE /\ queue' = <<>> /\ writing' = FALSE
            /\ UNCHANGED <<active, serial, gap, buffer, queuedBytes>>
    /\ UNCHANGED <<running, frames, expired, main, handled, out>>
    /\ UNCHANGED inputVars

-----------------------------------------------------------------------------
(* stop() on the lifecycle thread. *)

StopExchange ==
    /\ main = "idle"
    /\ running' = FALSE /\ main' = "stopping"
    /\ UNCHANGED <<active, serial, buffer, frames, gap, expired, left, handled>>
    /\ UNCHANGED inputVars /\ UNCHANGED outputVars

CloseBegin ==
    /\ main = "stopping"
    /\ main' = IF active \/ serial THEN "closing" ELSE "closed"
    /\ active' = FALSE
    /\ UNCHANGED <<running, serial, buffer, frames, gap, expired, left, handled>>
    /\ UNCHANGED inputVars /\ UNCHANGED outputVars

CloseSerial ==
    /\ main = "closing"
    /\ serial' = FALSE /\ gap' = [gen |-> gap.gen + 1, armed |-> 0]
    /\ main' = "clearing"
    /\ UNCHANGED <<running, active, buffer, frames, expired, left, handled>>
    /\ UNCHANGED inputVars /\ UNCHANGED outputVars

CloseAssembler ==
    /\ main = "clearing"
    /\ buffer' = <<>> /\ main' = "queue"
    /\ UNCHANGED <<running, active, serial, frames, gap, expired, left, handled>>
    /\ UNCHANGED inputVars /\ UNCHANGED outputVars

CloseQueue ==
    /\ main = "queue"
    /\ queue' = <<>> /\ queuedBytes' = 0 /\ writing' = FALSE
    /\ main' = "closed"
    /\ UNCHANGED <<running, active, serial, buffer, frames, gap, expired, left,
                   handled, writer, out>>
    /\ UNCHANGED inputVars

-----------------------------------------------------------------------------
Next ==
    \/ \E k \in Pieces : Arrive(k)
    \/ Begin \/ Expire
    \/ ReadSome \/ ProcessNext \/ ReadFails
    \/ \E g \in expired : GapHandler(g)
    \/ WriterTake \/ WriteDone \/ WriteFails
    \/ StopExchange \/ CloseBegin \/ CloseSerial \/ CloseAssembler \/ CloseQueue

Spec == Init /\ [][Next]_vars

-----------------------------------------------------------------------------
(* Everything that reached the port has been looked at. *)
Settled ==
    /\ Silent /\ kernel = <<>> /\ frames = <<>>
    /\ expired = {} /\ gap.armed = 0 /\ active /\ running

(* Every undamaged transmission that was followed by silence reaches the   *)
(* request handler once, however its bytes were split over reads and       *)
(* whatever damaged, unsupported or over-long transmissions came between.  *)
EveryRequestHandled ==
    Settled => handled = SelectSeq([r \in 1..line.r |-> r], LAMBDA r : Script[r].good)

(* Answers leave in the order of their requests and none leaves twice.     *)
AnswersInOrder == \A i, j \in DOMAIN out : i < j => out[i] < out[j]

(* While the port is up the byte count is that of the queued answers, so   *)
(* the limit in enqueue_write neither drifts nor blocks an idle port.      *)
QueuedBytesExact ==
    active => queuedBytes = FoldFunction(+, 0, [i \in DOMAIN queue |-> Script[queue[i]].reply])

(* A queued answer always has a writer, the answer the writer holds is the *)
(* front one, and there is no writer without the flag: an enqueue that     *)
(* races the writer's exit neither strands an answer nor starts a second   *)
(* writer.                                                                 *)
QueueHasWriter ==
    running /\ active =>
        /\ queue # <<>> => writer.pc # "none"
        /\ writing <=> writer.pc # "none"
        /\ writer.pc = "write" => queue # <<>> /\ Head(queue) = writer.output

(* Once stop() has closed the port nothing is queued any more, whatever    *)
(* the worker was doing.                                                   *)
ClosedIsEmpty == main = "closed" => queue = <<>> /\ queuedBytes = 0 /\ ~active

(* Every queued answer is written, or the port is closed.                  *)
AnswersDrain ==
    \A r \in 1..Total :
        (\E i \in DOMAIN queue : queue[i] = r) ~>
            (\A i \in DOMAIN queue : queue[i] # r)
=============================================================================
