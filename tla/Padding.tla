------------------------------ MODULE Padding -------------------------------
(***************************************************************************)
(* pad_to_size() and strip_padding() of ztlnp/privacy.py.  A plaintext is  *)
(* its length; a padded one is its length and the value of its last byte,  *)
(* the number of padding bytes before it.  Nothing in ztlnp/ sets or reads *)
(* the PADDING flag: the caller passes was_padded on to the receiver.      *)
(***************************************************************************)
EXTENDS Integers

CONSTANTS MaxPad,         \* _MAX_PAD: what fits the length byte (255)
          TargetSize,     \* target_size
          BlockSize,      \* block_size
          RandomPad       \* max_pad

ASSUME PaddingAssumption ==
    /\ MaxPad \in Nat \ {0} /\ TargetSize \in Nat
    /\ BlockSize \in Nat \ {0} /\ RandomPad \in Nat

Strategies == {"NONE", "FIXED", "RANDOM", "BLOCK"}

(* The pad lengths pad_to_size() may choose; none means that it returns    *)
(* the plaintext as it is.                                                 *)
PadLengths(strategy, len) ==
    CASE strategy = "NONE"   -> {}
      [] strategy = "FIXED"  -> {TargetSize - len - 1} \cap (1 .. MaxPad)
      [] strategy = "RANDOM" -> 1 .. (IF RandomPad < MaxPad THEN RandomPad ELSE MaxPad)
      [] strategy = "BLOCK"  -> IF (len + 1) % BlockSize = 0 THEN {}
                                ELSE {BlockSize - ((len + 1) % BlockSize)} \cap (1 .. MaxPad)

Unpadded(len) == [size |-> len, last |-> 0, padded |-> FALSE]
Padded(len, pad) == [size |-> len + pad + 1, last |-> pad, padded |-> TRUE]

(* What pad_to_size() may return.                                          *)
PadToSize(strategy, len) ==
    {Padded(len, pad) : pad \in PadLengths(strategy, len)}
    \cup {r \in {Unpadded(len)} : strategy = "RANDOM" \/ PadLengths(strategy, len) = {}}

(* Slip: the padding is cut off and the length byte left.                  *)
StripPaddingShort(r) == r.size - r.last

(* strip_padding() on data whose last byte says how much to remove.        *)
StripPadding(r) == r.size - (r.last + 1)

(* strip_padding() raises ValueError.                                      *)
StripRaises(r) == r.size = 0 \/ r.last + 1 > r.size

(* What the receiver takes for the length of the plaintext.                *)
Received(r) == IF r.padded THEN StripPadding(r) ELSE r.size
=============================================================================
