------------------------------ MODULE ApiStrings ------------------------------
(***************************************************************************)
(* The string routines of the server API (server-mbdd/str-encode.cpp) and   *)
(* the two functions of the AutoIt host that call them.                      *)
(*                                                                           *)
(* A text is the sequence of its characters, and a character is the number   *)
(* of its UTF-8 bytes, or 0 for U+0000, which a JSON string may contain.     *)
(* The i-th byte (or UTF-16 unit) of a character w is the pair <<w, i>>, so  *)
(* that a character cut in two shows, and U+0000 looks like a terminator.    *)
(* The struct a handler gets is [structSize, mem], where mem[o + 1] is the   *)
(* byte at offset o; a buffer is [null, cells].                              *)
(***************************************************************************)
EXTENDS Integers, Sequences, SequencesExt

NUL == <<0, 1>>             \* '\0'
Junk == <<0, 0>>            \* a cell nobody has written
STRUCT_SIZE == 8            \* sizeof(SM_SRV_STRUCT)

NoBuffer == [null |-> TRUE, cells |-> <<>>]
Buffer(n) == [null |-> FALSE, cells |-> [i \in 1..n |-> Junk]]

(***************************************************************************)
(* Encodings                                                                *)
(***************************************************************************)
\* size[w] says how many bytes, or units, the character w has.
Units(text, size) ==
    FlattenSeq([k \in DOMAIN text |->
                    [i \in 1..size[text[k]] |-> <<text[k], i>>]])

Utf8(text) == Units(text, [w \in 0..4 |-> IF w = 0 THEN 1 ELSE w])
Utf16(text) == Units(text, [w \in 0..4 |-> IF w = 4 THEN 2 ELSE 1])

\* The text of well-formed bytes or units: each character is known by its first.
Decoded(units) ==
    FlattenSeq([i \in DOMAIN units |->
                    IF units[i][2] = 1 THEN <<units[i][1]>> ELSE <<>>])

\* What comes before the first x, and what a reader of C strings sees of a text.
Before(seq, x) ==
    LET first == SelectInSeq(seq, LAMBDA e : e = x)
    IN  IF first = 0 THEN seq ELSE SubSeq(seq, 1, first - 1)
UpToNul(text) == Before(text, 0)

\* ::MultiByteToWideChar(CP_UTF8, 0, ...)
MultiByteToWideChar(bytes) == Utf16(Decoded(bytes))

(***************************************************************************)
(* str-encode.cpp                                                           *)
(***************************************************************************)
Result(ret, buffer) == [ret |-> ret, buffer |-> buffer]

\* Writes units from the first cell on; the result is longer than the buffer
\* when the code writes past its end.
Written(buffer, units) ==
    [buffer EXCEPT !.cells =
        units \o SubSeq(@, Len(units) + 1, Len(@))]

StringIn(s, nOffset, nSize) == SubSeq(s.mem, nOffset + 1, nOffset + nSize)

TooLong_WithoutNul(nLen16, nUTF16Len) == nLen16 > nUTF16Len
TooLong(nLen16, nUTF16Len) == nLen16 + 1 > nUTF16Len

\* nLen16 = 0 (-1) does not happen to a string with a byte in it.
utf8_to_utf16(bytes, pUTF16) ==
    LET u == MultiByteToWideChar(bytes)
    IN  IF bytes = <<>> THEN Result(0, pUTF16)
        ELSE IF pUTF16.null THEN Result(Len(u), pUTF16)
        ELSE IF TooLong(Len(u), Len(pUTF16.cells)) THEN Result(-2, pUTF16)
        ELSE Result(Len(u), Written(pUTF16, u \o <<NUL>>))

\* The checks both routines begin with: 0, or what they return at once.
StructError(s, nOffset, nSize) ==
    IF nOffset < STRUCT_SIZE \/ nSize < 0 \/ s.structSize < nOffset + nSize + 1
    THEN -1
    ELSE IF s.mem[nOffset + nSize + 1] # NUL THEN -2 ELSE 0

SMSrvGetString(s, nOffset, nSize, pStr) ==
    LET bytes == StringIn(s, nOffset, nSize)
        nStrLen == Len(pStr.cells)
        error == StructError(s, nOffset, nSize)
    IN  IF error # 0 THEN Result(error, pStr)
        ELSE IF pStr.null THEN Result(-3, pStr)
        ELSE IF nStrLen <= nSize
             THEN Result(nStrLen, Written(pStr, SubSeq(bytes, 1, nStrLen)))
             ELSE Result(nSize, Written(pStr, bytes \o <<NUL>>))

SMSrvGetWideString(s, nOffset, nSize, pWStr) ==
    LET error == StructError(s, nOffset, nSize)
    IN  IF error # 0 THEN Result(error, pWStr)
        ELSE utf8_to_utf16(StringIn(s, nOffset, nSize), pWStr)

(***************************************************************************)
(* server-mbdd.au3: the text of the string at an offset.                    *)
(***************************************************************************)
\* A wchar array is read up to its terminator.
get_wide_string(s, nOffset, nSize) ==
    LET query == SMSrvGetWideString(s, nOffset, nSize, NoBuffer)
        full == SMSrvGetWideString(s, nOffset, nSize, Buffer(query.ret + 1))
    IN  IF query.ret <= 0 THEN <<>> ELSE Decoded(Before(full.buffer.cells, NUL))

get_utf8_string(s, nOffset, nSize) ==
    Decoded(SMSrvGetString(s, nOffset, nSize, Buffer(nSize)).buffer.cells)
=============================================================================
