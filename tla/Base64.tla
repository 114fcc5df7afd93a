------------------------------- MODULE Base64 -------------------------------
(***************************************************************************)
(* base64_encode and base64_decode.  A character is its position in        *)
(* base64_chars, Pad for '=', Other for one that is_base64 refuses.        *)
(***************************************************************************)
EXTENDS Integers, Sequences

Pad == 64
Other == 65
is_base64(c) == c < Pad

(* A bug: the mask of the second byte is one bit short.                     *)
SextetsMasked(b) ==
  <<b[1] \div 4, (b[1] % 4) * 16 + b[2] \div 16, (b[2] % 8) * 4 + b[3] \div 64, b[3] % 64>>

(* char_array_4 from three bytes.                                           *)
Sextets(b) ==
  <<b[1] \div 4, (b[1] % 4) * 16 + b[2] \div 16, (b[2] % 16) * 4 + b[3] \div 64, b[3] % 64>>

(* char_array_3 from four characters.                                       *)
Octets(c) ==
  <<((c[1] * 4) % 256) + c[2] \div 16, (c[2] % 16) * 16 + c[3] \div 4, (c[3] % 4) * 64 + c[4]>>

(* The g-th group of size elements of s; what s lacks is 0.                 *)
Group(s, g, size) == [i \in 1 .. size |-> IF size * g + i <= Len(s) THEN s[size * g + i] ELSE 0]

(* Three bytes give four characters.  A last group of i bytes gives i + 1   *)
(* of them and is filled up with '='.                                       *)
base64_encode(bytes) ==
  [k \in 1 .. 4 * ((Len(bytes) + 2) \div 3) |->
     LET g == (k - 1) \div 4
         j == (k - 1) % 4
     IN IF j <= Len(bytes) - 3 * g THEN Sextets(Group(bytes, g, 3))[j + 1] ELSE Pad]

(* Reading stops at the first character that is not in the table.  A last   *)
(* group of i characters gives i - 1 bytes.                                 *)
base64_decode(text) ==
  LET stops == {k \in 1 .. Len(text) : ~is_base64(text[k])}
      taken == IF stops = {} THEN Len(text) ELSE (CHOOSE k \in stops : \A l \in stops : k <= l) - 1
      rest == taken % 4
      chars == SubSeq(text, 1, taken)
  IN [k \in 1 .. 3 * (taken \div 4) + (IF rest = 0 THEN 0 ELSE rest - 1) |->
        Octets(Group(chars, (k - 1) \div 3, 4))[((k - 1) % 3) + 1]]

(* The reference: the bytes are one string of bits, most significant first. *)
Bit(bytes, i) ==
  IF i >= 8 * Len(bytes) THEN 0 ELSE (bytes[(i \div 8) + 1] \div 2^(7 - (i % 8))) % 2
SixBits(bytes, i) ==
  32 * Bit(bytes, i) + 16 * Bit(bytes, i + 1) + 8 * Bit(bytes, i + 2)
    + 4 * Bit(bytes, i + 3) + 2 * Bit(bytes, i + 4) + Bit(bytes, i + 5)

(* Each character of the encoding is the next six bits, the padding makes   *)
(* the length a multiple of four; and a text that is cut short anywhere, or *)
(* runs into a character from elsewhere, decodes to as many whole bytes as  *)
(* it carries: never a wrong byte.                                          *)
Armours(bytes) ==
  LET text == base64_encode(bytes)
      whole == (8 * Len(bytes) + 5) \div 6
  IN /\ \A k \in 1 .. Len(text) : text[k] = IF k <= whole THEN SixBits(bytes, 6 * (k - 1)) ELSE Pad
     /\ Len(text) % 4 = 0
     /\ \A k \in 0 .. Len(text) :
          base64_decode(Append(SubSeq(text, 1, k), Other))
            = SubSeq(bytes, 1, IF k > whole THEN Len(bytes) ELSE (6 * k) \div 8)
=============================================================================
