------------------------------- MODULE Checksum -------------------------------
(***************************************************************************)
(* The Internet checksum of src/ip.rs, from the sender's checksum16 over a *)
(* buffer whose checksum field is zero to the receiver's checksum16 over   *)
(* what arrived.  The buffer is an IP header, or the pseudo-header and the *)
(* TCP segment behind it; its length may be odd.  The checksums of UDP and *)
(* ICMP are computed the same way, but no receiver of this stack verifies  *)
(* them.                                                                   *)
(***************************************************************************)
EXTENDS Integers, Sequences

CONSTANTS
  OctetBase,   \* values of a byte (2^8)
  SumSpace,    \* values of the accumulator (2^32)
  Lengths,     \* buffer lengths
  FieldAt      \* where the checksum field begins, at an even offset (index from 1)

\* Values of a 16-bit word.
Base == OctetBase * OctetBase

ASSUME ChecksumAssumption ==
  /\ OctetBase \in Nat /\ OctetBase > 1
  /\ SumSpace = Base * Base
  /\ FieldAt \in Nat /\ FieldAt % 2 = 1
  /\ Lengths \subseteq {n \in Nat : FieldAt < n /\ n <= 2 * Base}

Octet == 0 .. (OctetBase - 1)

\* What is summed: header, or pseudo-header and segment.
Buffer == UNION {[1 .. n -> Octet] : n \in Lengths}

VARIABLES
  data,        \* the buffer
  pass,        \* "build", "sent", "verify", "done"
  pos,         \* index of the next byte to add
  sum,
  folds,       \* history: how often the carry was folded in this pass
  corrupted,   \* a byte was changed on the way
  accepted     \* the receiver's verdict

vars == <<data, pass, pos, sum, folds, corrupted, accepted>>

Init ==
  /\ data \in Buffer
  /\ data[FieldAt] = 0 /\ data[FieldAt + 1] = 0
  /\ pass = "build"
  /\ pos = 1 /\ sum = 0 /\ folds = 0
  /\ corrupted = FALSE /\ accepted = FALSE

----------------------------------------------------------------------------
(* checksum16 *)

Summing == pass \in {"build", "verify"}

Add(word) == sum' = (sum + word) % SumSpace

AddWord ==
  /\ Summing /\ pos < Len(data)
  /\ Add(data[pos] * OctetBase + data[pos + 1])
  /\ pos' = pos + 2
  /\ UNCHANGED <<data, pass, folds, corrupted, accepted>>

\* Mutated forms: it is the low byte; it is left out.
LastByteLow == data[pos]
NoLastByte == 0

\* An odd byte at the end is the high byte of a padded word.
LastWord == data[pos] * OctetBase

AddLast ==
  /\ Summing /\ pos = Len(data)
  /\ Add(LastWord)
  /\ pos' = pos + 1
  /\ UNCHANGED <<data, pass, folds, corrupted, accepted>>

\* Mutated form: the carry is shifted by a byte only.
ShiftCarry == (sum % Base) + (sum \div OctetBase)

Folded == (sum % Base) + (sum \div Base)

\* The condition of the fold loop, sum >> 16 != 0.
Carry == sum >= Base

Summed == Summing /\ pos > Len(data)

Fold ==
  /\ Summed /\ Carry
  /\ sum' = Folded
  /\ folds' = folds + 1
  /\ UNCHANGED <<data, pass, pos, corrupted, accepted>>

\* The one's complement of a word.
checksum == Base - 1 - sum

----------------------------------------------------------------------------
(* Sender, network and receiver *)

Write(w) ==
  [data EXCEPT ![FieldAt] = w \div OctetBase, ![FieldAt + 1] = w % OctetBase]

\* The sender puts the checksum into its field.
Build ==
  /\ pass = "build" /\ Summed /\ ~ Carry
  /\ data' = Write(checksum)
  /\ pass' = "sent"
  /\ UNCHANGED <<pos, sum, folds, corrupted, accepted>>

\* The buffer arrives, with at most one byte changed.
Arrive ==
  /\ pass = "sent"
  /\ \/ UNCHANGED <<data, corrupted>>
     \/ /\ \E i \in DOMAIN data : \E b \in Octet \ {data[i]} : data' = [data EXCEPT ![i] = b]
        /\ corrupted' = TRUE
  /\ pass' = "verify"
  /\ pos' = 1 /\ sum' = 0 /\ folds' = 0
  /\ UNCHANGED accepted

\* verify_ip_checksum, and the test at the top of handle_segment.
Verify ==
  /\ pass = "verify" /\ Summed /\ ~ Carry
  /\ accepted' = (checksum = 0)
  /\ pass' = "done"
  /\ UNCHANGED <<data, pos, sum, folds, corrupted>>

Done == pass = "done" /\ UNCHANGED vars

Next == AddWord \/ AddLast \/ Fold \/ Build \/ Arrive \/ Verify \/ Done

Spec == Init /\ [][Next]_vars

----------------------------------------------------------------------------
(* Correctness *)

\* The receiver accepts what arrives unchanged and rejects it with any one byte
\* changed, the checksum field's own bytes included.  A test says of the header:
\* "Corrupting any byte should invalidate the checksum."
VerdictRight == pass = "done" => accepted = ~ corrupted

\* The loop "folds carries until they fit" ends: two rounds always do, whatever
\* the bytes, and one is not enough.
FoldsAtMostTwice == folds <= 2

=============================================================================
