------------------------------- MODULE Sniffer ------------------------------
(***************************************************************************)
(* The capture analyser: a capture file taken apart packet by packet, and  *)
(* the frames found in it with and without reassembly.  It has no key.     *)
(*                                                                         *)
(* The link, network and transport headers of a packet are its first byte: *)
(*   [l4 |-> "TCP", "UDP" or "none", flow |-> who to whom,                 *)
(*    total |-> the declared length of headers and payload, 0 where the    *)
(*              field was left empty]                                      *)
(* with l4 "none" for all the analyser looks no further into (an ARP       *)
(* packet, another protocol).  The bytes behind the declared ones pad the  *)
(* packet to the least size of an Ethernet frame.                          *)
(***************************************************************************)
EXTENDS Framing, Pcap

CONSTANT Flow     \* sender and receiver: address and port each

Padding == [of |-> [id |-> 0, length |-> 0, faults |-> {}], at |-> 0]

\* The headers count for one.
Total(payload) == 1 + Len(payload)

Packet(l4, flow, total, payload, pad) ==
  <<[l4 |-> l4, flow |-> flow, total |-> total]>> \o payload \o [i \in 1..pad |-> Padding]

\* Mutant: the payload is all that lies behind the headers.
TrimNever(header, data) == data

\* data[ihl:total_length] and data[8:udp_len], where they say something.
Trim(header, data) ==
  IF header.total # 0 /\ header.total < Total(data) THEN SubSeq(data, 1, header.total - 1) ELSE data

\* _dissect_packet, as far as the rows are used below; a row without l4 has no payload.
Dissect(packet) ==
  LET header == Head(packet)
  IN  [l4      |-> header.l4,
       flow    |-> header.flow,
       payload |-> IF header.l4 = "none" THEN << >> ELSE Trim(header, Tail(packet))]

\* dissect: a PcapError leaves no rows at all.
DissectFile(file) ==
  LET read == ReadPackets(file)
  IN  IF read.code = "OK" THEN [i \in DOMAIN read.packets |-> Dissect(read.packets[i])]
      ELSE << >>

-----------------------------------------------------------------------------

\* Mutant: if end >= len(data): break.
InThisPayloadShort(end, data) == end < Len(data)

InThisPayload(end, data) == end <= Len(data)

\* try_parse_wireline: the frames that lie whole in one payload, from its start.
\* Neither CRC nor MAC is looked at.  scan[at] is for data from its at-th byte on.
Scan(data) ==
  LET Header(at) == SubSeq(data, at, at + HeaderSize - 1)
      End(at)    == at + HeaderSize + DeclaredLength(Header(at)) + MacSize - 1
      scan[at \in 1..(Len(data) + 1)] ==
        IF \/ at + HeaderSize - 1 > Len(data)
           \/ DecodeHeader(Header(at)) # "OK"
           \/ ~InThisPayload(End(at), data)
        THEN << >>
        ELSE <<[kind |-> Header(at)[1].of, number |-> Header(at)[2].of]>> \o scan[End(at) + 1]
  IN  scan[1]

\* reassemble_flows: one buffer and one list of frames per flow.  The frames
\* drained before an error are kept, what is left in the buffer is not.
Feed(acc, row) ==
  LET drained == Drain(acc.buffers[row.flow] \o row.payload, FALSE)
  IN  IF row.payload = << >> \/ row.l4 = "none" THEN acc
      ELSE [buffers |-> [acc.buffers EXCEPT ![row.flow] =
                         IF drained.code = "MORE" THEN drained.rest ELSE << >>],
            frames  |-> [acc.frames EXCEPT ![row.flow] = @ \o drained.frames]]

\* after[n] is after n rows.
Reassemble(rows) ==
  LET after[n \in 0..Len(rows)] ==
        IF n = 0 THEN [buffers |-> [f \in Flow |-> << >>], frames |-> [f \in Flow |-> << >>]]
        ELSE Feed(after[n - 1], rows[n])
  IN  after[Len(rows)]
=============================================================================
