----------------------------- MODULE WireBytes -----------------------------
(***************************************************************************)
(* What the framing, the file protocol and the command parser share: bytes *)
(* and integers in network order.  A byte is a digit of a small base.      *)
(***************************************************************************)
EXTENDS Integers, Sequences, SequencesExt

CONSTANTS
    ByteBase,          \* bytes are 0 .. ByteBase - 1; 0 is NUL
    USERNAME_SIZE      \* size of the buffer of a username

ASSUME WireAssumption ==
    ByteBase \in Nat \ {0, 1} /\ USERNAME_SIZE \in Nat \ {0}

Bytes == 0 .. ByteBase - 1

Write(value, width) ==
    [k \in 1 .. width |-> (value \div ByteBase ^ (width - k)) % ByteBase]
Read(bytes) == FoldLeft(LAMBDA sum, b : sum * ByteBase + b, 0, bytes)
=============================================================================
