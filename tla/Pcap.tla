-------------------------------- MODULE Pcap --------------------------------
(***************************************************************************)
(* Capture files, as a sequence of bytes.  A file header has two bytes (the*)
(* magic and the rest), a record header has two (the time, and the length  *)
(* of the packet).  A number carries the byte order it was written in; read*)
(* in the other order a length is longer than any file.                    *)
(***************************************************************************)
EXTENDS Integers, Sequences
LOCAL INSTANCE SequencesExt

FileHeaderSize   == 2
RecordHeaderSize == 2

ByteOrder == {"little", "big"}

\* The packets are sequences of bytes.  write_packets writes little-endian files.
WritePackets(packets, order) ==
  <<[order |-> order], [order |-> order]>> \o
  FlattenSeq([i \in DOMAIN packets |->
    <<[order |-> order], [order |-> order, value |-> Len(packets[i])]>> \o packets[i]])

\* Mutant: every file is taken for a little-endian one.
OrderOfMany(magic) == "little"

\* MAGIC_LE or MAGIC_BE.
OrderOf(magic) == magic.order

\* read_packets, run to its end or to its PcapError: the packets it yielded.
\* records[at] is for the file from its at-th byte on.
ReadPackets(file) ==
  LET order == OrderOf(file[1])
      Length(number) == IF number.order = order THEN number.value ELSE Len(file)
      End(at) == at + RecordHeaderSize + Length(file[at + 1])   \* of the record at at
      records[at \in 1..(Len(file) + 1)] ==
        IF at = Len(file) + 1 THEN [code |-> "OK", packets |-> << >>]
        ELSE IF \/ at + RecordHeaderSize > Len(file) + 1
                \/ End(at) \notin at + RecordHeaderSize..Len(file) + 1
          THEN [code |-> "ERR_PCAP", packets |-> << >>]
        ELSE LET later == records[End(at)]
             IN  [later EXCEPT
                    !.packets = <<SubSeq(file, at + RecordHeaderSize, End(at) - 1)>> \o @]
  IN  IF Len(file) < FileHeaderSize \/ OrderOf(file[1]) \notin ByteOrder
        THEN [code |-> "ERR_PCAP", packets |-> << >>]
      ELSE records[FileHeaderSize + 1]
=============================================================================
