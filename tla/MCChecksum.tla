------------------------------ MODULE MCChecksum ------------------------------
(* checksum16 for TLC, with the definition it is compared with.               *)
EXTENDS Checksum, SequencesExt

\* The words of a buffer, an odd byte at the end padded with a zero.
Words(d) ==
  [i \in 1 .. ((Len(d) + 1) \div 2) |->
     d[2 * i - 1] * OctetBase + IF 2 * i <= Len(d) THEN d[2 * i] ELSE 0]

\* One's complement addition: a carry out of the top bit comes back at the bottom.
OnesPlus(a, b) == IF a + b >= Base THEN a + b - Base + 1 ELSE a + b

\* checksum16 folds once at the end what RFC 1071 adds word by word: the result is
\* the one's complement sum of the words, for even and odd lengths.
MatchesReference ==
  Summed /\ ~ Carry => sum = FoldLeft(OnesPlus, 0, Words(data))

=============================================================================
