------------------------------- MODULE Strings -------------------------------
(***************************************************************************)
(* The strings of system/core/libutils: String8 and String16 on             *)
(* SharedBuffer, and the conversions of Unicode.cpp that they are made by.  *)
(* A caller has a text in its hands and makes, copies, sets and appends to  *)
(* its strings. A buffer is known by its place in heap; an address that     *)
(* malloc gives out again is another buffer here.                           *)
(***************************************************************************)
EXTENDS Unicode, SequencesExt

CONSTANTS
  Names,             \* the String8 variables of the caller
  Alphabet,          \* the units a text is made of, for each width
  MaxText,           \* bound on the length of a text, for each width
  WorkTexts,         \* of the texts, those that strings are made from
  MaxLength,         \* bound on the length of a string that is appended to
  MaxBuffers         \* bound on the buffers ever allocated

(* The units of a text fit in its width.                                    *)
ASSUME AlphabetAssumption ==
  /\ Alphabet[8] \subseteq 0 .. 255
  /\ Alphabet[16] \subseteq 0 .. (Plane - 1)
  /\ Alphabet[32] \subseteq Nat

VARIABLES
  width,             \* the bits of a unit of the text
  text,              \* what the caller has in its hands
  heap,              \* the SharedBuffers
  mString,           \* the buffer of each string, NoString if there is none
  value              \* what each string should hold (history)

strVars == <<width, text, heap, mString, value>>

NoString == 0
Empty    == 1        \* the buffer of getEmptyString, made before anything else

Buffer(size, data) == [mRefs |-> 1, mSize |-> size, data |-> data, live |-> TRUE, takers |-> 1]

StrInit ==
  /\ width \in {8, 16, 32}
  /\ text = <<>>
  /\ heap = <<[Buffer(1, <<0>>) EXCEPT !.takers = 0]>>
  /\ mString = [s \in Names |-> NoString]
  /\ value = [s \in Names |-> <<>>]

Idle == \A s \in Names : mString[s] = NoString

(* The caller's text, before it makes a string.                             *)
Type(u) ==
  /\ Idle /\ Len(heap) = 1 /\ heap[Empty].takers = 0
  /\ Len(text) < MaxText[width]
  /\ text' = Append(text, u)
  /\ UNCHANGED <<width, heap, mString, value>>

-----------------------------------------------------------------------------
(* SharedBuffer.                                                            *)
onlyOwner(h, b) == h[b].mRefs = 1

(* release: mRefs is 0, or what fetch_sub leaves; at 0 the buffer is freed. *)
release(h, b) ==
  IF onlyOwner(h, b) THEN [h EXCEPT ![b] = [@ EXCEPT !.mRefs = 0, !.live = FALSE, !.data = <<>>]]
  ELSE [h EXCEPT ![b].mRefs = @ - 1]

(* takers counts the strings that took the buffer, or the one its contents  *)
(* come from (history): none, one, or several, which is 2.                  *)
Taken(h, b) == [h EXCEPT ![b].takers = IF @ = 0 THEN 1 ELSE 2]

-----------------------------------------------------------------------------
(* String8. A string whose buffer is gone is not used again: what a use     *)
(* would do, nobody knows.                                                  *)
Works(s) == mString[s] # NoString /\ heap[mString[s]].live

Room == Len(heap) < MaxBuffers /\ text \in WorkTexts

(* Every step of String8 gives s a buffer b of the heap h and a value.      *)
Becomes(s, h, b, v) ==
  /\ heap' = h
  /\ mString' = [mString EXCEPT ![s] = b]
  /\ value' = [value EXCEPT ![s] = v]
  /\ UNCHANGED <<width, text>>

Construct(s) ==
  /\ Room
  /\ mString[s] = NoString
  /\ Becomes(s, Taken(heap, Empty), Empty, <<>>)

(* String8 of a const char pointer: allocFromUTF8, and the empty string if  *)
(* malloc fails or there is nothing to copy.                                *)
ConstructChars(s, malloc) ==
  /\ Room /\ width = 8
  /\ mString[s] = NoString
  /\ IF text # <<>> /\ malloc
     THEN Becomes(s, Append(heap, Buffer(Len(text) + 1, text \o <<0>>)), Len(heap) + 1, text)
     ELSE Becomes(s, Taken(heap, Empty), Empty, <<>>)

(* String16 of chars: allocFromUTF8, empty if the text is malformed.        *)
String16(chars) ==
  LET n == utf8_to_utf16_length(chars, Len(chars), FALSE)
  IN  IF chars = <<>> \/ n < 0 THEN <<>>
      ELSE SubSeq(utf8_to_utf16(chars, Len(chars), n + 1), 1, n)

(* The String16 the caller has: a StaticString16, or one made of its text.  *)
Wide == IF width = 16 THEN text ELSE String16(text)

(* String8 of a String16: allocFromUTF16.                                   *)
ConstructWide(s, malloc) ==
  /\ Room /\ width \in {8, 16}
  /\ mString[s] = NoString
  /\ LET utf8 == utf16_to_utf8(Wide)
     IN  IF Wide # <<>> /\ malloc
         THEN Becomes(s, Append(heap, Buffer(utf16_to_utf8_length(Wide) + 1, utf8)), Len(heap) + 1,
                      Front(utf8))
         ELSE Becomes(s, Taken(heap, Empty), Empty, <<>>)

(* The copy constructor and the assignment that the compiler makes.         *)
Copy(s, t) ==
  /\ Room
  /\ s # t /\ Works(t)
  /\ Becomes(s, Taken(heap, mString[t]), mString[t], value[t])

Forget(s) ==         \* there is no destructor
  /\ mString[s] # NoString
  /\ mString' = [mString EXCEPT ![s] = NoString]
  /\ value' = [value EXCEPT ![s] = <<>>]
  /\ UNCHANGED <<width, text, heap>>

(* setTo: the new buffer is made before the old one is released.            *)
Replace(s, chars, malloc) ==
  LET h == IF chars # <<>> /\ malloc
           THEN Append(heap, Buffer(Len(chars) + 1, chars \o <<0>>)) ELSE Taken(heap, Empty)
      b == IF chars # <<>> /\ malloc THEN Len(heap) + 1 ELSE Empty
  IN  Becomes(s, release(h, mString[s]), b, IF malloc THEN chars ELSE <<>>)

SetTo(s, n, malloc) ==
  /\ Room /\ width = 8
  /\ Works(s)
  /\ Replace(s, SubSeq(text, 1, n), malloc)

length(s) == heap[mString[s]].mSize - 1

(* Bug: the copy goes behind the terminator of what there was.              *)
GrownBehindNul(s, chars) ==
  [Buffer(Len(chars) + length(s) + 1, heap[mString[s]].data \o chars \o <<0>>)
     EXCEPT !.takers = heap[mString[s]].takers]

(* real_append: editResize and the copy behind what there was. realloc      *)
(* leaves the buffer where it is, moves it, or fails; then a new buffer is  *)
(* allocated and the old one released.                                      *)
Grown(s, chars) ==
  LET size == Len(chars) + length(s) + 1
  IN  [Buffer(size, SubSeq(heap[mString[s]].data, 1, length(s)) \o chars \o <<0>>)
         EXCEPT !.takers = heap[mString[s]].takers]

RealAppend(s, chars) ==
  LET b == mString[s]
      v == value[s] \o chars
  IN  \/ /\ onlyOwner(heap, b)       \* in place
         /\ Becomes(s, [heap EXCEPT ![b] = Grown(s, chars)], b, v)
      \/ Becomes(s, Append(release(heap, b), Grown(s, chars)), Len(heap) + 1, v)
      \/ Becomes(s, heap, b, value[s])     \* NO_MEMORY

AppendTo(s, malloc) ==
  /\ Room /\ width = 8
  /\ Works(s)
  /\ length(s) + Len(text) <= MaxLength
  /\ IF length(s) = 0 THEN Replace(s, text, malloc)
     ELSE IF text = <<>> THEN Becomes(s, heap, mString[s], value[s])
     ELSE RealAppend(s, text)

StrNext ==
  \/ \E u \in Alphabet[width] : Type(u)
  \/ \E s \in Names :
       \/ Construct(s) \/ Forget(s)
       \/ \E malloc \in BOOLEAN :
            \/ ConstructChars(s, malloc) \/ ConstructWide(s, malloc) \/ AppendTo(s, malloc)
            \/ \E n \in DOMAIN text \cup {0} : SetTo(s, n, malloc)
       \/ \E t \in Names : Copy(s, t)

StrSpec == StrInit /\ [][StrNext]_strVars

-----------------------------------------------------------------------------
(* A string whose buffer was only ever its own holds what it should, ends   *)
(* with a terminator and has the length it says, after any sequence of      *)
(* operations and of failures of malloc and realloc. Buffers that several   *)
(* strings took, as copies or as empty strings, are not counted: whoever    *)
(* changes one frees it for all of them.                                    *)
StringHolds ==
  \A s \in Names : mString[s] # NoString /\ heap[mString[s]].takers = 1 =>
    LET b == heap[mString[s]]
    IN  b.live /\ b.data = value[s] \o <<0>> /\ b.mSize = Len(b.data)

Valid(c) == c <= kUnicodeMaxCodepoint /\ c \notin kUnicodeSurrogateStart .. kUnicodeSurrogateEnd

UnitsOf(c) == IF c >= Plane THEN Surrogates(c) ELSE <<c>>

(* The code points that utf32_from_utf8_at finds in the first n bytes.      *)
Walk(bytes, n) ==
  LET from[i \in 0 .. (n + 7)] ==
        LET at == utf32_from_utf8_at(bytes, n, i)
        IN  IF at.ret = -1 THEN <<>> ELSE <<at.ret>> \o from[at.next]
  IN  from[0]

NoNul(s) == \A k \in 1 .. Len(s) : s[k] # 0
AllValid(s) == \A k \in 1 .. Len(s) : Valid(s[k])
Ascii(s) == \A k \in 1 .. Len(s) : s[k] < 128

(* What utf32_to_utf8 makes of any code points, the valid of them, is read  *)
(* as these code points again by every decoder: the walk, the conversion to *)
(* UTF-16 and back, and utf8_length, of ASCII whether char is signed or     *)
(* not, of other texts where it is unsigned. If all code points are valid   *)
(* it is as long as it was measured. (Of the cases left out, the length of  *)
(* a text with an invalid code point, for which Unicode.h:46 says -1 and    *)
(* the code counts the valid ones, and signed chars contradict the header;  *)
(* Utf8LengthOfValid is about the latter.)                                  *)
DecodersAgree ==
  width = 32 /\ text # <<>> =>
    LET utf8 == Front(utf32_to_utf8(text))
        n == utf8_to_utf16_length(utf8, Len(utf8), FALSE)
        utf16 == utf8_to_utf16(utf8, Len(utf8), n + 1)
    IN  /\ AllValid(text) => utf32_to_utf8_length(text) = Len(utf8)
        /\ Walk(utf8, Len(utf8)) = Joined([k \in 1 .. Len(text) |-> IF Valid(text[k]) THEN <<text[k]>> ELSE <<>>])
        /\ utf16 = Joined([k \in 1 .. Len(text) |-> IF Valid(text[k]) THEN UnitsOf(text[k]) ELSE <<>>]) \o <<0>>
        /\ n = Len(utf16) - 1
        /\ n > 0 => utf16_to_utf8(Front(utf16)) = utf8 \o <<0>>
        /\ NoNul(text) => \A charSigned \in BOOLEAN :
             (charSigned => Ascii(utf8)) => utf8_length(utf8, charSigned) = Len(utf8)

LonelyAt(units, i) ==
  \/ High(units[i]) /\ (i = Len(units) \/ ~Low(units[i + 1]))
  \/ Low(units[i]) /\ (i = 1 \/ ~High(units[i - 1]))

(* A UTF-16 text comes back from UTF-8 as it was, without the surrogates    *)
(* that are in no pair, and takes in UTF-8 what was measured.               *)
RoundTrip ==
  width = 16 /\ text # <<>> =>
    LET utf8 == Front(utf16_to_utf8(text))
    IN  /\ utf16_to_utf8_length(text) = Len(utf8)
        /\ utf8_to_utf16_no_null_terminator(utf8, Len(utf8), Len(text)) =
             Joined([k \in 1 .. Len(text) |-> IF LonelyAt(text, k) THEN <<>> ELSE <<text[k]>>])

(* Any bytes, well-formed or not, the first n of the text: if they can be   *)
(* measured, the conversion gives as many units as were measured, no half   *)
(* of a pair, never more than there is room for, and both are the same      *)
(* whatever lies behind these bytes. So is a walk over what utf8_length     *)
(* accepts.                                                                 *)
ConversionFits ==
  width = 8 => \A n \in 0 .. Len(text) :
    LET bytes == SubSeq(text, 1, n)
        units == utf8_to_utf16_length(bytes, n, FALSE)
        all == utf8_to_utf16_no_null_terminator(bytes, n, 2 * n)
    IN  /\ utf8_to_utf16_length(text, n, FALSE) = units
        /\ units >= 0 =>
             /\ Len(all) = units
             /\ \A room \in 0 .. units :
                  LET part == utf8_to_utf16_no_null_terminator(text, n, room)
                  IN  /\ IsPrefix(part, all)
                      /\ \/ Len(part) = room
                         \/ Len(part) = room - 1 /\ all[room] >= kUnicodeSurrogateStart
        /\ utf8_length(bytes, FALSE) = n => Walk(text, n) = Walk(bytes, n)

(* t stands in s at these places.                                           *)
Places(s, t) == {i \in 1 .. (Len(s) - Len(t) + 1) : \A k \in 1 .. Len(t) : s[i + k - 1] = t[k]}

(* The order of dictionaries.                                               *)
Before(s, t) ==
  \E n \in 0 .. Len(s) :
    /\ n < Len(t) /\ \A k \in 1 .. n : s[k] = t[k]
    /\ n = Len(s) \/ s[n + 1] < t[n + 1]

(* t is s, a 0 and maybe more.                                              *)
GoesOnWithNul(s, t) ==
  Len(s) < Len(t) /\ (\A k \in 1 .. Len(s) : s[k] = t[k]) /\ t[Len(s) + 1] = 0

(* strstr16 finds the first occurrence; strzcmp16 compares as dictionaries  *)
(* do, and holds two texts for the same if and only if they are, unless one *)
(* goes on with a 0 where the other ends (they are different for            *)
(* Unicode.h:33 and the same for the code); strcmp16 gives the same for     *)
(* texts without a 0.                                                       *)
SearchIsFirst ==
  width = 16 => \A target \in BoundedSeq(Alphabet[16], 2) :
    LET places == Places(text, target)
        d == strzcmp16(text, target)
    IN  /\ NoNul(text) /\ NoNul(target) =>
             /\ strstr16(text, target) =
                  IF target = <<>> THEN 1 ELSE IF places = {} THEN 0
                  ELSE CHOOSE i \in places : \A j \in places : i <= j
             /\ strcmp16(text, target) = d
        /\ ~GoesOnWithNul(text, target) /\ ~GoesOnWithNul(target, text) => (d = 0 <=> text = target)
        /\ d # 0 => (d < 0 <=> Before(text, target))

-----------------------------------------------------------------------------
(* What the header Unicode.h says of utf8_length and the code does not do.  *)

(* utf8_length returns the length of a text that is valid UTF-8: not where  *)
(* char is signed, of a text with a character that is not ASCII, which it   *)
(* refuses. A 0 ends the text for utf8_length.                              *)
Utf8LengthOfValid ==
  width = 32 /\ text # <<>> /\ NoNul(text) /\ AllValid(text) =>
    LET utf8 == Front(utf32_to_utf8(text)) IN utf8_length(utf8, TRUE) = Len(utf8)
=============================================================================
