-------------------------------- MODULE Dedup -------------------------------
(***************************************************************************)
(* DedupWindow: the last DedupSize sequence numbers from one peer, oldest  *)
(* first, each with the reply it produced.                                 *)
(***************************************************************************)
EXTENDS Integers, Sequences
LOCAL INSTANCE SequencesExt

CONSTANT DedupSize    \* DEFAULT_DEDUP_WINDOW, 256

\* A server asked to remember nothing (size 0) has no deduplication to speak of.
ASSUME DedupSizeAssumption == DedupSize \in Nat \ {0}

Cached(window, seq) == \E i \in DOMAIN window : window[i].seq = seq

IndexOf(window, seq) == CHOOSE i \in DOMAIN window : window[i].seq = seq

CachedReply(window, seq) == window[IndexOf(window, seq)].reply

\* Mutant: while len(entries) >= size.
KeepFewer(window) ==
  IF Len(window) >= DedupSize
  THEN SubSeq(window, Len(window) - DedupSize + 2, Len(window))
  ELSE window

\* Mutant: popitem(last=True).
KeepFirst(window) ==
  IF Len(window) > DedupSize THEN SubSeq(window, 1, DedupSize) ELSE window

\* while len(entries) > size: popitem(last=False)
KeepLast(window) ==
  IF Len(window) > DedupSize
  THEN SubSeq(window, Len(window) - DedupSize + 1, Len(window))
  ELSE window

\* Putting a number that is there moves it to the end.
Put(window, seq, reply) ==
  LET others == IF Cached(window, seq)
                THEN RemoveAt(window, IndexOf(window, seq))
                ELSE window
  IN  KeepLast(Append(others, [seq |-> seq, reply |-> reply]))
=============================================================================
