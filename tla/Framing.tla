------------------------------ MODULE Framing -------------------------------
(***************************************************************************)
(* From bytes to frames: the decoder and the readers built on it.          *)
(*                                                                         *)
(* A byte is known by where it comes from: [of |-> item, at |-> k] is the  *)
(* k-th byte of what somebody wrote as one frame.  A header has two bytes, *)
(* the first with magic, version, type and flags, the second with number,  *)
(* length and CRC; a MAC has one.  An item has the checks it fails in      *)
(* faults, named by their error.  Assumed of real bytes: the magic is only *)
(* where a header starts, bytes read as a length where none was written    *)
(* give one over the limit, and a CRC or MAC fits no bytes but its own.    *)
(***************************************************************************)
EXTENDS Integers, Sequences

CONSTANT MaxPayload    \* MAX_PAYLOAD

ASSUME MaxPayloadAssumption == MaxPayload \in Nat

HeaderSize == 2
MacSize    == 1
MaxFrame   == HeaderSize + MaxPayload + MacSize

\* What is written as one frame; id tells it from all others.
Fault == {"ERR_MAGIC", "ERR_VERSION", "ERR_LENGTH", "ERR_FLAGS", "ERR_TYPE", "ERR_CRC", "ERR_AUTH"}
Items == [id : Nat, length : 0..MaxPayload, faults : SUBSET Fault]

\* encode(); a peer that does not use it writes items with faults.
Encode(item) ==
  [k \in 1..(HeaderSize + item.length + MacSize) |-> [of |-> item, at |-> k]]

Body(item) == SubSeq(Encode(item), HeaderSize + 1, HeaderSize + item.length)
Mac(item)  == <<[of |-> item, at |-> HeaderSize + item.length + 1]>>

\* Type and flags come from the first half of the header, the number from the second.
FrameOf(header, payload) ==
  [kind |-> header[1].of, number |-> header[2].of, payload |-> payload]

\* The frame a reader should make of an item.
Written(item) == FrameOf(Encode(item), Body(item))

-----------------------------------------------------------------------------

\* Checks in their order: the first that fails names the error.
FirstFailing(checks) ==
  IF \A i \in DOMAIN checks : ~checks[i].fails THEN "OK"
  ELSE LET first == CHOOSE i \in DOMAIN checks :
                      checks[i].fails /\ \A j \in 1..i - 1 : ~checks[j].fails
       IN  checks[first].code

Check(fails, code) == [fails |-> fails, code |-> code]

\* The length field of a header: over the limit where it is no length field.
DeclaredLength(header) ==
  IF header[2].at = 2 /\ "ERR_LENGTH" \notin header[2].of.faults
  THEN header[2].of.length
  ELSE MaxPayload + 1

\* Mutant: the length is left to whoever reads the body.
TooLongForNobody(header) == FALSE

TooLong(header) == DeclaredLength(header) > MaxPayload

DecodeHeader(header) ==
  LET faults == header[1].of.faults
  IN  IF Len(header) # HeaderSize THEN "ERR_LENGTH"
      ELSE FirstFailing(<<Check(header[1].at # 1 \/ "ERR_MAGIC" \in faults, "ERR_MAGIC"),
                          Check("ERR_VERSION" \in faults, "ERR_VERSION"),
                          Check(TooLong(header), "ERR_LENGTH"),
                          Check("ERR_FLAGS" \in faults, "ERR_FLAGS"),
                          Check("ERR_TYPE" \in faults, "ERR_TYPE")>>)

\* Mutant: verify_crc left out.
CrcFitsAnything(header, payload) == TRUE

\* verify_crc: the payload is the one the number's half of the header was made for.
CrcFits(header, payload) ==
  payload = Body(header[2].of) /\ "ERR_CRC" \notin header[2].of.faults

\* verify_mac: header, payload and MAC are those of one item.
MacFits(header, payload, mac) ==
  /\ header[1].of = header[2].of
  /\ payload = Body(header[1].of)
  /\ mac = Mac(header[1].of)
  /\ "ERR_AUTH" \notin header[1].of.faults

\* Whoever has no key (keyed FALSE) does not verify the MAC.
DecodeFrame(header, payload, mac, keyed) ==
  FirstFailing(<<Check(DecodeHeader(header) # "OK", DecodeHeader(header)),
                 Check(Len(payload) # DeclaredLength(header), "ERR_LENGTH"),
                 Check(Len(mac) # MacSize, "ERR_AUTH"),
                 Check(~CrcFits(header, payload), "ERR_CRC"),
                 Check(keyed /\ ~MacFits(header, payload, mac), "ERR_AUTH")>>)

\* A buffer taken apart: its header, n bytes of payload, the MAC, the rest.
Parts(buf, n) ==
  [header  |-> SubSeq(buf, 1, HeaderSize),
   payload |-> SubSeq(buf, HeaderSize + 1, HeaderSize + n),
   mac     |-> SubSeq(buf, HeaderSize + n + 1, HeaderSize + n + MacSize),
   rest    |-> SubSeq(buf, HeaderSize + n + MacSize + 1, Len(buf))]

\* One frame in one datagram: the payload is what lies between header and MAC.
DecodeDatagram(raw, keyed) ==
  IF Len(raw) < HeaderSize + MacSize THEN "ERR_LENGTH"
  ELSE LET parts == Parts(raw, Len(raw) - HeaderSize - MacSize)
       IN  DecodeFrame(parts.header, parts.payload, parts.mac, keyed)

-----------------------------------------------------------------------------

\* FrameBuffer.pop().  An error of the header leaves the buffer as it was, an
\* error behind it has already deleted the frame.
Pop(buf, keyed) ==
  LET header == SubSeq(buf, 1, HeaderSize)
      parts  == Parts(buf, DeclaredLength(header))
  IN  IF Len(buf) < HeaderSize THEN [code |-> "MORE", rest |-> buf]
      ELSE IF DecodeHeader(header) # "OK" THEN [code |-> DecodeHeader(header), rest |-> buf]
      ELSE IF Len(buf) < HeaderSize + DeclaredLength(header) + MacSize
           THEN [code |-> "MORE", rest |-> buf]
      ELSE [code  |-> DecodeFrame(header, parts.payload, parts.mac, keyed),
            rest  |-> parts.rest,
            frame |-> FrameOf(header, parts.payload)]

\* FrameBuffer.drain(), run to its end ("MORE") or to its exception: the frames
\* it yielded and what is left in the buffer.  drain[n] is for the last n bytes.
Drain(buf, keyed) ==
  LET drain[n \in 0..Len(buf)] ==
        LET pop == Pop(SubSeq(buf, Len(buf) - n + 1, Len(buf)), keyed)
        IN  IF pop.code # "OK" THEN [code |-> pop.code, frames |-> << >>, rest |-> pop.rest]
            ELSE LET later == drain[Len(pop.rest)]
                 IN  [later EXCEPT !.frames = <<pop.frame>> \o @]
  IN  drain[Len(buf)]

\* Mutant: the length is not compared.
TrailingNever(rest) == FALSE

Trailing(rest) == rest # << >>

\* split_datagram: all the frames of a datagram, or an error and none of them.
SplitDatagram(raw, keyed) ==
  LET drained == Drain(raw, keyed)
  IN  IF drained.code # "MORE" THEN [code |-> drained.code]
      ELSE IF Trailing(drained.rest) THEN [code |-> "ERR_LENGTH"]
      ELSE [code |-> "OK", frames |-> drained.frames]
=============================================================================
