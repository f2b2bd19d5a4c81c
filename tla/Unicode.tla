------------------------------- MODULE Unicode -------------------------------
(***************************************************************************)
(* The text conversions of system/core/libutils/Unicode.cpp. A text is a    *)
(* sequence of units: bytes, 16 bit or 32 bit units. A pointer into it is   *)
(* an index; what follows the last unit reads as the terminator, 0. Masks   *)
(* and shifts are written as quotients and remainders. LOGF_ASSERT logs and *)
(* goes on, so the conversions write whatever dst_len says.                 *)
(***************************************************************************)
EXTENDS Integers, Sequences

Unit(src, i) == IF i <= Len(src) THEN src[i] ELSE 0      \* *(src + i - 1)

Low6(x) == x % 64                                        \* x & 0x3F

kUnicodeSurrogateStart    == 55296                       \* 0xD800
kUnicodeSurrogateLowStart == 56320                       \* 0xDC00
kUnicodeSurrogateEnd      == 57343                       \* 0xDFFF
kUnicodeMaxCodepoint      == 1114111                     \* 0x10FFFF
Plane                     == 65536                       \* 0x10000: more than 16 bits

(* Pieces written one behind the other.                                     *)
Joined(pieces) ==
  LET from[i \in 1 .. (Len(pieces) + 1)] ==
        IF i > Len(pieces) THEN <<>> ELSE pieces[i] \o from[i + 1]
  IN  from[1]

-----------------------------------------------------------------------------
(* UTF-32.                                                                  *)

(* Bug: some code points of three bytes are taken to need two, and          *)
(* surrogates are let through.                                              *)
Utf8LengthShort(c) ==
  CASE c < 128 -> 1 [] c \in 128 .. 4095 -> 2 [] c \in 4096 .. (Plane - 1) -> 3 [] OTHER -> 4

(* The bytes that a code point takes, none if it is not valid.              *)
utf32_codepoint_utf8_length(c) ==
  CASE c < 128   -> 1
    [] c \in 128 .. 2047 -> 2
    [] c \in 2048 .. (Plane - 1) ->
         IF c \in kUnicodeSurrogateStart .. kUnicodeSurrogateEnd THEN 0 ELSE 3
    [] c \in Plane .. kUnicodeMaxCodepoint -> 4
    [] OTHER -> 0

kFirstByteMark == <<0, 192, 224, 240>>

(* The power of two that a shift by 6, n times, divides by.                 *)
Sixes(n) == <<1, 64, 4096, 262144>>[n + 1]

(* The low six bits of each byte but the first, from the last to the first. *)
utf32_codepoint_to_utf8(c, bytes) ==
  [k \in 1 .. bytes |->
     IF k = 1 THEN (c \div Sixes(bytes - 1)) + kFirstByteMark[bytes]
     ELSE 128 + Low6(c \div Sixes(bytes - k))]

Encoded(c) == utf32_codepoint_to_utf8(c, utf32_codepoint_utf8_length(c))

utf32_to_utf8_length(src) ==
  LET from[i \in 1 .. (Len(src) + 1)] ==
        IF i > Len(src) THEN 0 ELSE utf32_codepoint_utf8_length(src[i]) + from[i + 1]
  IN  IF src = <<>> THEN -1 ELSE from[1]

(* All that is written to dst, nothing at all (not even the terminator) for *)
(* an empty text.                                                           *)
utf32_to_utf8(src) ==
  IF src = <<>> THEN <<>> ELSE Joined([k \in 1 .. Len(src) |-> Encoded(src[k])]) \o <<0>>

strnlen(s, maxlen) ==                                    \* strnlen16, strnlen32
  LET nul == {k \in 0 .. (maxlen - 1) : Unit(s, k + 1) = 0}
  IN  IF nul = {} THEN maxlen ELSE CHOOSE k \in nul : \A j \in nul : k <= j

strlen(s) == strnlen(s, Len(s) + 1)                      \* strlen16, strlen32

strcpy16(src) == SubSeq(src, 1, strlen(src)) \o <<0>>

(* The bits set in a byte before the first that is not.                     *)
LeadingOnes(b) ==
  CASE b < 128 -> 0 [] b \in 128 .. 191 -> 1 [] b \in 192 .. 223 -> 2 [] b \in 224 .. 239 -> 3
    [] b \in 240 .. 247 -> 4 [] b \in 248 .. 251 -> 5 [] b \in 252 .. 253 -> 6 [] OTHER -> 8

(* The bits of the first of n bytes behind the n ones that say so.          *)
FirstBits(b, n) == b % <<64, 32, 16, 8, 4, 2, 1>>[n]

(* The six bits of each of the bytes from i to j behind the bits in front.  *)
ShiftedIn(front, src, i, j) ==
  LET upTo[k \in (i - 1) .. j] ==
        IF k = i - 1 THEN front ELSE upTo[k - 1] * 64 + Low6(Unit(src, k))
  IN  upTo[j]

(* The code point at i and the bytes it takes, whatever those after the     *)
(* first are, and wherever the text ends. (For a first byte of FE or FF the *)
(* mask is shifted by more than its width, which the language leaves open.) *)
utf32_at_internal(src, i) ==
  LET first == src[i]
      n == IF first < 128 THEN 1 ELSE LeadingOnes(first)
  IN  [point |-> IF first < 128 THEN first ELSE ShiftedIn(FirstBits(first, n), src, i + 1, i + n - 1),
       num_read |-> n]

(* ret and the next index; both indices count from 0 as in the code.        *)
utf32_from_utf8_at(src, srcLen, index) ==
  IF index >= srcLen THEN [ret |-> -1, next |-> index]
  ELSE LET at == utf32_at_internal(src, index + 1)
       IN  [ret |-> at.point, next |-> index + at.num_read]

-----------------------------------------------------------------------------
(* UTF-16.                                                                  *)

High(u) == u \div 1024 = 54                              \* (u & 0xFC00) == 0xD800
Low(u)  == u \div 1024 = 55                              \* (u & 0xFC00) == 0xDC00

(* Bug: the second unit of a pair is not looked at.                         *)
PairByHigh(src, i) == High(src[i]) /\ i + 1 <= Len(src)

Pair(src, i) == High(src[i]) /\ i + 1 <= Len(src) /\ Low(src[i + 1])

(* The code point at i of a UTF-16 text.                                    *)
Point16(src, i) ==
  IF ~Pair(src, i) THEN src[i]
  ELSE Plane + (src[i] - kUnicodeSurrogateStart) * 1024 + (src[i + 1] - kUnicodeSurrogateLowStart)

Next16(src, i) == IF Pair(src, i) THEN i + 2 ELSE i + 1

utf16_to_utf8(src) ==
  LET from[i \in 1 .. (Len(src) + 1)] ==
        IF i > Len(src) THEN <<0>> ELSE Encoded(Point16(src, i)) \o from[Next16(src, i)]
  IN  IF src = <<>> THEN <<>> ELSE from[1]

utf16_to_utf8_length(src) ==
  LET from[i \in 1 .. (Len(src) + 1)] ==
        IF i > Len(src) THEN 0
        ELSE (IF Pair(src, i) THEN 4 ELSE utf32_codepoint_utf8_length(src[i])) + from[Next16(src, i)]
  IN  IF src = <<>> THEN -1 ELSE from[1]

(* The difference of the first two units that differ, at most n of them, up *)
(* to a terminator.                                                         *)
strncmp16(s1, s2, n) ==
  LET from[k \in 1 .. (n + 1)] ==
        IF k > n THEN 0
        ELSE LET d == Unit(s1, k) - Unit(s2, k)
             IN  IF d # 0 \/ Unit(s1, k) = 0 THEN d ELSE from[k + 1]
  IN  from[1]

strcmp16(s1, s2) == strncmp16(s1, s2, Len(s1) + 1)       \* s1 ends with its terminator

(* Bug: the search goes on behind the whole of a failed match.              *)
SearchSkips(src, target) ==
  LET n == Len(target)
      at(i) == SubSeq(src, i, i + n - 1)
      search[i \in 1 .. (Len(src) + 1 + n)] ==
        CASE n = 0 -> 1
          [] n > 0 /\ i + n - 1 > Len(src) -> 0
          [] OTHER -> IF at(i) = target THEN i
                      ELSE search[IF src[i] = target[1] THEN i + n ELSE i + 1]
  IN  search[1]

(* The index of the first occurrence of target, 0 for a null pointer.       *)
strstr16(src, target) ==
  LET needle == Unit(target, 1)
      rest == Tail(target)
      after(i) == SubSeq(src, i + 1, Len(src))
      search[i \in 1 .. (Len(src) + 1)] ==
        CASE Unit(src, i) = 0 -> 0
          [] Unit(src, i) # 0 /\ Unit(src, i) # needle -> search[i + 1]
          [] OTHER -> IF strncmp16(after(i), rest, strlen(rest)) = 0 THEN i ELSE search[i + 1]
  IN  IF needle = 0 THEN 1 ELSE search[1]

(* A text that is the beginning of the other is compared as if it had one   *)
(* more unit, the terminator.                                               *)
strzcmp16(s1, s2) ==
  LET n == IF Len(s1) < Len(s2) THEN Len(s1) ELSE Len(s2)
      differ == {k \in 1 .. n : s1[k] # s2[k]}
      k1 == CHOOSE k \in differ : \A j \in differ : k <= j
  IN  IF differ # {} THEN s1[k1] - s2[k1] ELSE Unit(s1, n + 1) - Unit(s2, n + 1)

-----------------------------------------------------------------------------
(* UTF-8.                                                                   *)

(* The bytes of a text up to its terminator, -1 if one of them is in the    *)
(* wrong place. charSigned says whether the compiler's char is signed: the  *)
(* bits of the first byte are masked with 0x80, not 0xFFFFFF80, so that a   *)
(* negative one keeps its sign bits and is too large for a code point.      *)
utf8_length(src, charSigned) ==
  LET follows(i, n) == \A k \in 1 .. (n - 1) : Unit(src, i + k) \in 128 .. 191
      point(i, n) == ShiftedIn(FirstBits(src[i], n), src, i + 1, i + n - 1)
      from[i \in 1 .. (Len(src) + 1)] ==
        LET n == IF LeadingOnes(src[i]) = 0 THEN 1 ELSE LeadingOnes(src[i])
            bad == src[i] >= 128 /\ \/ src[i] < 192 \/ n >= 5 \/ ~follows(i, n)
                                    \/ charSigned \/ point(i, n) > kUnicodeMaxCodepoint
        IN  IF Unit(src, i) = 0 THEN 0
            ELSE IF bad \/ from[i + n] = -1 THEN -1 ELSE n + from[i + n]
  IN  from[1]

(* The bits of 0xe5000000 at twice the byte's high half, and one.           *)
utf8_codepoint_len(b) == CASE b \div 16 \in {12, 13} -> 2 [] b \div 16 = 14 -> 3
                           [] b \div 16 = 15 -> 4 [] OTHER -> 1

utf8_to_utf32_codepoint(src, i, length) ==
  IF length = 1 THEN src[i] ELSE ShiftedIn(FirstBits(src[i], length), src, i + 1, i + length - 1)

(* Bug: a sequence that goes on behind the end is let through.              *)
MeasuredPastEnd(src, u8len, overreadIsFatal) ==
  LET from[i \in 1 .. (u8len + 4)] ==
        IF i > u8len THEN 0
        ELSE LET n == utf8_codepoint_len(src[i])
             IN  from[i + n] + IF utf8_to_utf32_codepoint(src, i, n) >= Plane THEN 2 ELSE 1
  IN  from[1]

(* The units a text takes, -1 if a sequence goes on behind its end. A fatal *)
(* overread is logged, and the bytes behind the end are read.               *)
utf8_to_utf16_length(src, u8len, overreadIsFatal) ==
  LET from[i \in 1 .. (u8len + 4)] ==
        IF i > u8len THEN (IF i = u8len + 1 THEN 0 ELSE -1)
        ELSE LET n == utf8_codepoint_len(src[i])
                 units == IF utf8_to_utf32_codepoint(src, i, n) >= Plane THEN 2 ELSE 1
             IN  IF (i + n - 1 > u8len /\ ~overreadIsFatal) \/ from[i + n] = -1 THEN -1
                 ELSE units + from[i + n]
  IN  from[1]

(* The two units of a code point that needs them, cut to 16 bits.           *)
Surrogates(c) ==
  <<(((c - Plane) \div 1024) + kUnicodeSurrogateStart) % Plane,
    ((c - Plane) % 1024) + kUnicodeSurrogateLowStart>>

(* What is written to dst and counted: whole pairs only. (The first unit of *)
(* a pair that has no room is written to the last place and not counted.)   *)
utf8_to_utf16_no_null_terminator(src, srcLen, dstLen) ==
  LET from[at \in (1 .. (srcLen + 4)) \X (0 .. dstLen)] ==      \* src and the room in dst
        LET i == at[1]
            room == at[2]
            n == utf8_codepoint_len(src[i])
            c == utf8_to_utf32_codepoint(src, i, n)
        IN  CASE i > srcLen \/ room = 0 -> <<>>
              [] i <= srcLen /\ room > 0 /\ c < Plane -> <<c>> \o from[<<i + n, room - 1>>]
              [] i <= srcLen /\ room = 1 /\ c >= Plane -> <<>>
              [] OTHER -> Surrogates(c) \o from[<<i + n, room - 2>>]
  IN  from[<<1, dstLen>>]

utf8_to_utf16(src, u8len, u16len) ==
  utf8_to_utf16_no_null_terminator(src, u8len, u16len - 1) \o <<0>>
=============================================================================
