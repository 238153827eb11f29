------------------------------- MODULE Capture ------------------------------
(***************************************************************************)
(* Frames on their way from a sender to a receiver over TCP, and an        *)
(* analyser that captures the segments: all of them, or from the middle on,*)
(* with gaps, with segments that were sent again, or out of order.         *)
(***************************************************************************)
EXTENDS Sniffer
LOCAL INSTANCE SequencesExt

CONSTANTS
  Wires,       \* what the senders may write: for each flow, a sequence of items
  SmallShapes, \* packets of at most one byte: l4; whether they declare their length; their padding
  MaxSegments, \* bound: segments of each flow
  MaxPackets   \* bound: packets captured

\* The ids of a flow's items count up: id tells an item from all others.
ASSUME CaptureAssumption ==
  /\ Wires \subseteq [Flow -> Seq(Items)]
  /\ \A w \in Wires : \A f \in Flow : \A i \in 2..Len(w[f]) : w[f][i].id > w[f][i - 1].id
  /\ SmallShapes \subseteq [l4 : {"TCP", "UDP", "none"}, declares : BOOLEAN, pad : Nat]
  /\ MaxSegments \in [Flow -> Nat] /\ MaxPackets \in Nat

VARIABLES
  wire,      \* the items each sender writes
  segments,  \* what has left: the first and the last byte of each segment
  got,       \* the parts of a frame that read_frame has
  taken,     \* how many bytes it has read
  reader,    \* "reading", or the error that ended it
  received,  \* history: the frames it returned
  small,     \* how the packets of at most one byte look; larger ones have a length and no padding
  seen       \* the segments captured

vars == <<wire, segments, got, taken, reader, received, small, seen>>

Init ==
  /\ wire \in Wires
  /\ segments = [f \in Flow |-> << >>]
  /\ got      = [f \in Flow |-> << >>]
  /\ taken    = [f \in Flow |-> 0]
  /\ reader   = [f \in Flow |-> "reading"]
  /\ received = [f \in Flow |-> << >>]
  /\ small \in SmallShapes
  /\ seen     = << >>

Bytes(f) == FlattenSeq([i \in DOMAIN wire[f] |-> Encode(wire[f][i])])

-----------------------------------------------------------------------------

\* How many bytes have left.
Sent(f) == IF segments[f] = << >> THEN 0 ELSE Last(segments[f]).last

\* A segment leaves.
Send(f) ==
  \E last \in (Sent(f) + 1)..Len(Bytes(f)) :
    /\ Len(segments[f]) < MaxSegments[f]                   \* bound
    /\ Len(segments[f]) = MaxSegments[f] - 1 => last = Len(Bytes(f))
    /\ segments' = [segments EXCEPT ![f] = Append(@, [flow |-> f, first |-> Sent(f) + 1, last |-> last])]
    /\ UNCHANGED <<wire, got, taken, reader, received, small, seen>>

\* A packet without payload: it acknowledges the other direction, opens or closes.
Empty(f) == [flow |-> f, first |-> 1, last |-> 0]

\* A segment that has left is captured: perhaps late, perhaps again (a
\* retransmission), perhaps never; or an empty one.
See(f) ==
  \E s \in ToSet(segments[f]) \cup {Empty(f)} :
    /\ Len(seen) < MaxPackets                             \* bound
    /\ s = Empty(f) => Len(seen) = 1                      \* bound: one, in the middle
    /\ seen' = Append(seen, s)
    /\ UNCHANGED <<wire, segments, got, taken, reader, received, small>>

\* How many bytes read_frame asks for, having the parts it has.
Wanted(parts) ==
  CASE Len(parts) = 0 -> HeaderSize
    [] Len(parts) = 1 -> DeclaredLength(parts[1])
    [] Len(parts) = 2 -> MacSize

\* Mutant: read(n), which returns what there is.
ReadableSome(f, n) == {last \in taken[f] + 1..taken[f] + n : last <= Sent(f)}

\* readexactly(n): up to which byte it reads, if it can.
Readable(f, n) == {last \in {taken[f] + n} : last <= Sent(f)}

\* Mutant: the parts of a frame are kept for the next.
NextPartsAll(parts) == parts

NextParts(parts) == IF Len(parts) = 3 THEN << >> ELSE parts

\* read_frame, as far as its next part.  The header is decoded before the body
\* is asked for; an error ends the reader's loop.
Read(f) ==
  \E last \in Readable(f, Wanted(got[f])) :
    LET parts == Append(got[f], SubSeq(Bytes(f), taken[f] + 1, last))
        code  == CASE Len(parts) = 1 -> DecodeHeader(parts[1])
                   [] Len(parts) = 2 -> "OK"
                   [] Len(parts) = 3 -> DecodeFrame(parts[1], parts[2], parts[3], TRUE)
    IN  /\ reader[f] = "reading"
        /\ taken'  = [taken EXCEPT ![f] = last]
        /\ got'    = [got EXCEPT ![f] = NextParts(parts)]
        /\ reader' = [reader EXCEPT ![f] = IF code = "OK" THEN @ ELSE code]
        /\ received' = [received EXCEPT ![f] =
             IF Len(parts) = 3 /\ code = "OK" THEN Append(@, FrameOf(parts[1], parts[2])) ELSE @]
        /\ UNCHANGED <<wire, segments, small, seen>>

Next == \E f \in Flow : Send(f) \/ See(f) \/ Read(f)

Spec == Init /\ [][Next]_vars

-----------------------------------------------------------------------------

Payload(segment) == SubSeq(Bytes(segment.flow), segment.first, segment.last)

Shape(segment) ==
  IF segment.first >= segment.last THEN small ELSE [l4 |-> "TCP", declares |-> TRUE, pad |-> 0]

PacketOf(segment) ==
  LET shape == Shape(segment)
      total == IF shape.declares THEN Total(Payload(segment)) ELSE 0
  IN  Packet(shape.l4, segment.flow, total, Payload(segment), shape.pad)

Packets == [i \in DOMAIN seen |-> PacketOf(seen[i])]

Rows  == DissectFile(WritePackets(Packets, "little"))
Found == Reassemble(Rows)

\* What was captured of a flow: its segments, and the bytes its rows have.
SeenOf(f) ==
  FlattenSeq([i \in DOMAIN seen |->
    IF seen[i].flow = f /\ seen[i] # Empty(f) THEN <<seen[i]>> ELSE << >>])

BytesOf(rows, f) ==
  FlattenSeq([i \in DOMAIN rows |-> IF rows[i].flow = f THEN rows[i].payload ELSE << >>])

\* Every segment was captured, once and in order, and can be told from padding.
Intact(f) ==
  /\ SeenOf(f) = segments[f]
  /\ \A s \in {s \in ToSet(seen) : s.flow = f} :
       Shape(s).l4 # "none" /\ (Shape(s).pad > 0 => Shape(s).declares)

\* Segments are missing, but none is there twice or was overtaken.
InOrder(f) ==
  LET s == SeenOf(f) IN \A i \in 2..Len(s) : s[i].first > s[i - 1].last

\* The captured bytes of a flow join the halves of two headers.
Spliced(f) ==
  LET bytes == BytesOf(Rows, f)
  IN  \E k \in 2..Len(bytes) :
        bytes[k - 1].at = 1 /\ bytes[k].at = 2 /\ bytes[k - 1].of # bytes[k].of

Faultless(f) == \A i \in DOMAIN wire[f] : wire[f][i].faults = {}

\* The reader waits for bytes that have not been sent.
Waiting(f) == reader[f] = "reading" /\ Readable(f, Wanted(got[f])) = {}

(* Type invariant of the streams, their readers and the capture.           *)
TypeOK ==
  /\ wire \in [Flow -> Seq(Items)]
  /\ \A f \in Flow :
       /\ Sent(f) \in 0..Len(Bytes(f))
       /\ Len(got[f]) \in 0..2
       /\ taken[f] \in 0..Sent(f)
       /\ reader[f] \in {"reading"} \cup Fault
  /\ Len(seen) <= MaxPackets

(* However the stream is cut into segments, read_frame returns the frames  *)
(* that were written, up to the first with a fault, and fails there with   *)
(* the fault that the order of the decoder's checks puts first.            *)
ReadsWhatWasWritten ==
  \A f \in Flow :
    LET n     == Len(received[f])
        Order == <<"ERR_MAGIC", "ERR_VERSION", "ERR_LENGTH", "ERR_FLAGS", "ERR_TYPE", "ERR_CRC", "ERR_AUTH">>
    IN  /\ \A i \in 1..n : received[f][i] = Written(wire[f][i]) /\ wire[f][i].faults = {}
        /\ reader[f] # "reading" => \E k \in DOMAIN Order :
             /\ reader[f] = Order[k]
             /\ Order[k] \in wire[f][n + 1].faults
             /\ \A j \in 1..k - 1 : Order[j] \notin wire[f][n + 1].faults

(* Framing and reassembly agree (reassemble_flows): of a capture that      *)
(* misses nothing the analyser has every frame the receiver has, at once,  *)
(* and no other unless the receiver refused one for its MAC.               *)
AnalyserAgrees ==
  \A f \in Flow : Intact(f) =>
    /\ IsPrefix(received[f], Found.frames[f])
    /\ Waiting(f) => received[f] = Found.frames[f]

(* No false positive (reassemble_flows): whatever a capture misses, repeats*)
(* or has out of order, a frame the analyser reports was written so, and   *)
(* with nothing repeated they come in the order they were written.  A      *)
(* header spliced from two passes for one, because the CRC covers the      *)
(* payload only and the MAC is not verified.                               *)
NoFalseReport ==
  \A f \in Flow : ~Spliced(f) =>
    LET frames == Found.frames[f]
    IN  /\ \A i \in DOMAIN frames : \E k \in DOMAIN wire[f] :
             frames[i] = Written(wire[f][k]) /\ "ERR_CRC" \notin wire[f][k].faults
        /\ InOrder(f) => \A i \in 2..Len(frames) : frames[i].number.id > frames[i - 1].number.id

(* The per-packet scan claims only frames that are there, and reassembly   *)
(* misses none of them: a direction followed from the start of a packet    *)
(* yields exactly what the scan finds there, also after an error has       *)
(* emptied its buffer; and in a capture that misses nothing every frame    *)
(* scanned is among the reassembled.                                       *)
ScanAgrees ==
  seen # << >> =>
    LET row    == Last(Rows)
        f      == row.flow
        before == Reassemble(Front(Rows))
        all    == Found.frames[f]
        fresh  == SubSeq(all, Len(before.frames[f]) + 1, Len(all))
        Heads(frames) == [i \in DOMAIN frames |->
                           [kind |-> frames[i].kind, number |-> frames[i].number]]
    IN  Faultless(f) =>
          /\ before.buffers[f] = << >> => Scan(row.payload) = Heads(fresh)
          /\ Intact(f) => ToSet(Scan(row.payload)) \subseteq ToSet(Heads(all))

(* No reader waits for more than one frame holds: a length over the limit  *)
(* is refused when the header is there, before a byte of the body is asked *)
(* for (decode_header); FrameBuffer keeps less than one frame.             *)
NeverMoreThanAFrame ==
  \A f \in Flow :
    /\ Waiting(f) /\ Len(got[f]) = 1 => Wanted(got[f]) <= MaxPayload
    /\ Len(Found.buffers[f]) < MaxFrame

(* The two readers of a datagram agree on what one frame is: decode accepts*)
(* what split_datagram takes for a single frame.  What split_datagram      *)
(* accepts is those frames and not a byte more, so only the empty datagram *)
(* has no frames (_await_reply looks at the first).                        *)
DatagramReadersAgree ==
  \A s \in ToSet(seen) : \A keyed \in BOOLEAN :
    LET raw   == Payload(s)
        one   == DecodeDatagram(raw, keyed)
        split == SplitDatagram(raw, keyed)
    IN  /\ one = "OK" <=> split.code = "OK" /\ Len(split.frames) = 1
        /\ split.code = "OK" =>
             FlattenSeq([i \in DOMAIN split.frames |-> Encode(split.frames[i].number)]) = raw

(* read_packets reads back what write_packets wrote, in either byte order; *)
(* of a file that ends inside its last record it reads the others and      *)
(* reports the cut.                                                        *)
PcapReadsBack ==
  \A order \in ByteOrder :
    LET file   == WritePackets(Packets, order)
        others == SubSeq(Packets, 1, Len(Packets) - 1)
        start  == IF seen = << >> THEN 0 ELSE Len(WritePackets(others, order))
    IN  /\ ReadPackets(file) = [code |-> "OK", packets |-> Packets]
        /\ \A n \in start + 1..Len(file) - 1 :
             ReadPackets(SubSeq(file, 1, n)) = [code |-> "ERR_PCAP", packets |-> others]
=============================================================================
