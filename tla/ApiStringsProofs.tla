--------------------------- MODULE ApiStringsProofs ---------------------------
(***************************************************************************)
(* The string routines of ApiStrings, for a text of any length: encoding and *)
(* decoding are inverse, and what is copied out of the struct that           *)
(* MsgProcess hands over is what was put in.                                 *)
(***************************************************************************)
EXTENDS MsgProcess, InductionTheorems

Char == 0 .. 4                             \* a character, by its UTF-8 bytes
Sizes == [Char -> 1 .. 4]
Unit == Nat \X (Nat \ {0})                 \* a byte or a UTF-16 unit of one
Cell == Nat \X Nat                         \* ... or Junk

\* The units of one character, and the character a unit begins.
UnitsOf(w, z) == [i \in 1 .. z |-> <<w, i>>]
Begun(x) == IF x[2] = 1 THEN <<x[1]>> ELSE <<>>

-----------------------------------------------------------------------------
(* Encodings *)

LEMMA UnitsOfChar ==
    \A w \in Char, z \in Nat : /\ UnitsOf(w, z) \in Seq(Unit)
                               /\ Len(UnitsOf(w, z)) = z
                               /\ UnitsOf(w, z + 1) = Append(UnitsOf(w, z), <<w, z + 1>>)
<1> SUFFICES ASSUME NEW w \in Char, NEW z \in Nat
             PROVE  /\ UnitsOf(w, z) \in Seq(Unit) /\ Len(UnitsOf(w, z)) = z
                    /\ UnitsOf(w, z + 1) = Append(UnitsOf(w, z), <<w, z + 1>>)
  OBVIOUS
<1>1. \A k \in Nat : UnitsOf(w, k) \in Seq(Unit) /\ Len(UnitsOf(w, k)) = k
  <2> TAKE k \in Nat
  <2>1. \A i \in 1 .. k : <<w, i>> \in Unit
    BY DEF Char, Unit
  <2> QED BY <2>1 DEF UnitsOf
<1>2. UnitsOf(w, z + 1) = Append(UnitsOf(w, z), <<w, z + 1>>)
  <2> DEFINE u == UnitsOf(w, z)
             v == UnitsOf(w, z + 1)
             x == <<w, z + 1>>
  <2>1. u \in Seq(Unit) /\ Len(u) = z /\ v \in Seq(Unit) /\ Len(v) = z + 1
    BY <1>1
  <2>2. x \in Unit
    BY DEF Char, Unit
  <2>3. \A i \in 1 .. (z + 1) : v[i] = IF i <= z THEN u[i] ELSE x
    BY DEF UnitsOf
  <2> HIDE DEF u, v, x
  <2>4. /\ Append(u, x) \in Seq(Unit) /\ Len(Append(u, x)) = z + 1
        /\ \A i \in 1 .. (z + 1) : Append(u, x)[i] = v[i]
    BY <2>1, <2>2, <2>3
  <2>5. v = Append(u, x)
    BY <2>1, <2>4
  <2> QED BY <2>5 DEF u, v, x
<1> QED BY <1>1, <1>2

\* A unit more, decoded.
LEMMA DecodedAppend ==
    ASSUME NEW u \in Seq(Unit), NEW x \in Unit
    PROVE  Decoded(Append(u, x)) = Decoded(u) \o Begun(x)
<1> DEFINE E == Seq(Nat)
           m == [i \in DOMAIN u |-> Begun(u[i])]
           v == Append(u, x)
           n == [i \in DOMAIN v |-> Begun(v[i])]
           b == Begun(x)
<1>1. \A y \in Unit : Begun(y) \in E
  BY DEF Begun, Unit
<1> HIDE DEF E
<1>2. \A i \in 1 .. Len(u) : u[i] \in Unit
  OBVIOUS
<1>3. m \in Seq(E) /\ Len(m) = Len(u) /\ \A i \in 1 .. Len(u) : m[i] = Begun(u[i])
  BY <1>1, <1>2
<1>4. /\ v \in Seq(Unit) /\ Len(v) = Len(u) + 1 /\ v[Len(u) + 1] = x
      /\ \A i \in 1 .. Len(u) : v[i] = u[i]
      /\ \A i \in 1 .. (Len(u) + 1) : v[i] \in Unit
  OBVIOUS
<1>5. /\ n \in Seq(E) /\ Len(n) = Len(u) + 1
      /\ \A i \in 1 .. (Len(u) + 1) : n[i] = Begun(v[i])
  <2> HIDE DEF v
  <2> QED BY <1>1, <1>4
<1>6. Decoded(u) = FlattenSeq(m) /\ Decoded(v) = FlattenSeq(n)
  BY DEF Decoded, Begun
<1>7. b \in E
  BY <1>1
<1>8. n[Len(u) + 1] = b /\ \A i \in 1 .. Len(u) : n[i] = m[i]
  <2> HIDE DEF m, n, v
  <2> QED BY <1>3, <1>4, <1>5
<1> HIDE DEF m, v, n, b
<1>9. n = Append(m, b)
  <2>1. /\ Append(m, b) \in Seq(E) /\ Len(Append(m, b)) = Len(u) + 1
        /\ \A i \in 1 .. (Len(u) + 1) : Append(m, b)[i] = n[i]
    BY <1>3, <1>7, <1>8
  <2> QED BY <1>5, <2>1
<1>10. FlattenSeq(Append(m, b)) = FlattenSeq(m) \o b
  <2>1. m \in Seq(Seq(Nat)) /\ b \in Seq(Nat)
    BY <1>3, <1>7 DEF E
  <2> QED BY <2>1, FlattenAppend
<1> QED BY <1>6, <1>9, <1>10 DEF v, b

LEMMA DecodedIsSeq == ASSUME NEW u \in Seq(Unit) PROVE Decoded(u) \in Seq(Nat)
<1> DEFINE E == Seq(Nat)
           m == [i \in DOMAIN u |-> Begun(u[i])]
<1>1. \A y \in Unit : Begun(y) \in E
  BY DEF Begun, Unit
<1> HIDE DEF E
<1>2. m \in Seq(E)
  <2>1. \A i \in 1 .. Len(u) : u[i] \in Unit
    OBVIOUS
  <2> QED BY <1>1, <2>1
<1>3. Decoded(u) = FlattenSeq(m)
  BY DEF Decoded, Begun
<1> HIDE DEF m
<1> QED BY <1>2, <1>3, FlattenIsSeq DEF E

\* A character more, decoded.
LEMMA DecodedChar ==
    ASSUME NEW u \in Seq(Unit), NEW w \in Char, NEW z \in Nat \ {0}
    PROVE  Decoded(u \o UnitsOf(w, z)) = Append(Decoded(u), w)
<1> DEFINE S == {k \in Nat : Decoded(u \o UnitsOf(w, k)) =
                                IF k = 0 THEN Decoded(u) ELSE Append(Decoded(u), w)}
<1>0. Decoded(u) \in Seq(Nat)
  BY DecodedIsSeq
<1>1. 0 \in S
  <2>1. UnitsOf(w, 0) \in Seq(Unit) /\ Len(UnitsOf(w, 0)) = 0
    BY UnitsOfChar
  <2>2. u \o UnitsOf(w, 0) = u
    BY <2>1
  <2> QED BY <2>2
<1>2. ASSUME NEW k \in Nat, k \in S PROVE k + 1 \in S
  <2> DEFINE v == UnitsOf(w, k)
             x == <<w, k + 1>>
             uv == u \o v
  <2>1. v \in Seq(Unit) /\ UnitsOf(w, k + 1) = Append(v, x) /\ x \in Unit
    <3>1. x \in Unit
      BY DEF Char, Unit
    <3> QED BY <3>1, UnitsOfChar
  <2>2. Begun(x) = IF k = 0 THEN <<w>> ELSE <<>>
    BY DEF Begun
  <2>3. Decoded(uv) = IF k = 0 THEN Decoded(u) ELSE Append(Decoded(u), w)
    BY <1>2
  <2> HIDE DEF v, x
  <2>4. uv \in Seq(Unit) /\ u \o Append(v, x) = Append(uv, x)
    BY <2>1
  <2> HIDE DEF uv
  <2>5. Decoded(Append(uv, x)) = Decoded(uv) \o Begun(x)
    BY <2>1, <2>4, DecodedAppend
  <2>6. Decoded(uv) \o Begun(x) = Append(Decoded(u), w)
    <3> DEFINE d == Decoded(u)
    <3>1. d \in Seq(Nat) /\ w \in Nat
      BY <1>0 DEF Char
    <3> HIDE DEF d
    <3>2. CASE k = 0
      <4>1. d \o <<w>> = Append(d, w)
        BY <3>1
      <4>2. Decoded(uv) = d /\ Begun(x) = <<w>>
        BY <2>2, <2>3, <3>2 DEF d
      <4> QED BY <4>1, <4>2 DEF d
    <3>3. CASE k # 0
      <4>1. Append(d, w) \o <<>> = Append(d, w)
        BY <3>1
      <4>2. Decoded(uv) = Append(d, w) /\ Begun(x) = <<>>
        BY <2>2, <2>3, <3>3 DEF d
      <4> QED BY <4>1, <4>2 DEF d
    <3> QED BY <3>2, <3>3
  <2>7. Decoded(u \o UnitsOf(w, k + 1)) = Append(Decoded(u), w)
    BY <2>1, <2>4, <2>5, <2>6
  <2>8. k + 1 \in Nat /\ k + 1 # 0
    OBVIOUS
  <2> QED BY <2>7, <2>8
<1> HIDE DEF S
<1>3. \A k \in Nat : k \in S
  BY <1>1, <1>2, SetInduction
<1> QED BY <1>3 DEF S

\* A character more, encoded.
LEMMA UnitsAppend ==
    ASSUME NEW size \in Sizes, NEW t \in Seq(Char), NEW w \in Char
    PROVE  Units(Append(t, w), size) = Units(t, size) \o UnitsOf(w, size[w])
<1> DEFINE y == Append(t, w)
           m == [k \in DOMAIN t |-> UnitsOf(t[k], size[t[k]])]
           n == [k \in DOMAIN y |-> UnitsOf(y[k], size[y[k]])]
           E == Seq(Unit)
           x == UnitsOf(w, size[w])
<1>1. \A c \in Char : UnitsOf(c, size[c]) \in E
  <2>1. \A c \in Char : size[c] \in Nat
    BY DEF Sizes, Char
  <2> QED BY <2>1, UnitsOfChar
<1> HIDE DEF E
<1>2. m \in Seq(E) /\ Len(m) = Len(t) /\ \A k \in 1 .. Len(t) : m[k] = UnitsOf(t[k], size[t[k]])
  BY <1>1
<1>3. y \in Seq(Char) /\ Len(y) = Len(t) + 1 /\ y[Len(t) + 1] = w
      /\ \A k \in 1 .. Len(t) : y[k] = t[k]
  OBVIOUS
<1>4. /\ n \in Seq(E) /\ Len(n) = Len(t) + 1
      /\ \A k \in 1 .. (Len(t) + 1) : n[k] = UnitsOf(y[k], size[y[k]])
  <2> HIDE DEF y
  <2> QED BY <1>1, <1>3
<1>5. Units(t, size) = FlattenSeq(m) /\ Units(y, size) = FlattenSeq(n)
  BY DEF Units, UnitsOf
<1>6. x \in E
  BY <1>1
<1>7. n[Len(t) + 1] = x /\ \A k \in 1 .. Len(t) : n[k] = m[k]
  <2> HIDE DEF m, n, y
  <2> QED BY <1>2, <1>3, <1>4
<1> HIDE DEF m, y, n, x
<1>8. n = Append(m, x)
  <2>1. /\ Append(m, x) \in Seq(E) /\ Len(Append(m, x)) = Len(t) + 1
        /\ \A i \in 1 .. (Len(t) + 1) : Append(m, x)[i] = n[i]
    BY <1>2, <1>6, <1>7
  <2> QED BY <1>4, <2>1
<1>9. FlattenSeq(Append(m, x)) = FlattenSeq(m) \o x
  <2>1. m \in Seq(Seq(Unit)) /\ x \in Seq(Unit)
    BY <1>2, <1>6 DEF E
  <2> QED BY <2>1, FlattenAppend
<1> QED BY <1>5, <1>8, <1>9 DEF x, y

\* Every text is encoded, and decoding its units gives it back.
LEMMA UnitsDecoded ==
    ASSUME NEW size \in Sizes
    PROVE  \A t \in Seq(Char) : /\ Units(t, size) \in Seq(Unit)
                                /\ Decoded(Units(t, size)) = t
                                /\ t # <<>> => Units(t, size) # <<>>
<1> DEFINE P(t) == /\ Units(t, size) \in Seq(Unit)
                   /\ Decoded(Units(t, size)) = t
                   /\ t # <<>> => Units(t, size) # <<>>
           S == {n \in Nat : \A t \in Seq(Char) : Len(t) = n => P(t)}
<1>1. 0 \in S
  <2>1. Units(<<>>, size) = <<>> /\ Decoded(<<>>) = <<>>
    BY FlattenNone DEF Units, Decoded
  <2>2. P(<<>>)
    <3>1. <<>> \in Seq(Unit)
      OBVIOUS
    <3> QED BY <2>1, <3>1
  <2> QED BY <2>2
<1>2. ASSUME NEW n \in Nat, n \in S PROVE n + 1 \in S
  <2> SUFFICES ASSUME NEW t \in Seq(Char), Len(t) = n + 1 PROVE P(t)
    OBVIOUS
  <2> DEFINE r == SubSeq(t, 1, n)
             w == t[n + 1]
             z == size[w]
             u == Units(r, size)
  <2>1. r \in Seq(Char) /\ Len(r) = n /\ w \in Char /\ t = Append(r, w)
    BY FrontAndLast
  <2> HIDE DEF r, w
  <2>2. P(r)
    BY <1>2, <2>1
  <2>3. u \in Seq(Unit) /\ Decoded(u) = r
    BY <2>2
  <2>4. z \in Nat \ {0}
    BY <2>1 DEF Sizes, Char
  <2>5. Units(t, size) = u \o UnitsOf(w, z)
    BY <2>1, UnitsAppend
  <2> HIDE DEF u, z
  <2>6. Decoded(u \o UnitsOf(w, z)) = Append(Decoded(u), w)
    BY <2>1, <2>3, <2>4, DecodedChar
  <2>7. UnitsOf(w, z) \in Seq(Unit) /\ Len(UnitsOf(w, z)) = z
    BY <2>1, <2>4, UnitsOfChar
  <2>8. u \o UnitsOf(w, z) \in Seq(Unit) /\ u \o UnitsOf(w, z) # <<>>
    BY <2>3, <2>4, <2>7
  <2> QED BY <2>1, <2>3, <2>5, <2>6, <2>8
<1> HIDE DEF S
<1>3. \A n \in Nat : n \in S
  BY <1>1, <1>2, SetInduction
<1> QED BY <1>3 DEF S

-----------------------------------------------------------------------------
(* The struct and the buffers *)

\* What Written leaves of a buffer that is long enough.
Filled(cells, n) == [i \in 1 .. n |-> IF i <= Len(cells) THEN cells[i] ELSE Junk]

LEMMA UnitsAreCells == \A u \in Seq(Unit) : u \in Seq(Cell)
BY DEF Unit, Cell

LEMMA SpecialCells == NUL \in Cell /\ Junk \in Cell /\ NUL \in Unit
BY DEF NUL, Junk, Cell, Unit

LEMMA BufferChanged ==
    ASSUME NEW n, NEW y, NEW z, NEW r, r = [null |-> n, cells |-> y]
    PROVE  [r EXCEPT !.cells = z] = [null |-> n, cells |-> z]
<1> DEFINE q == [null |-> n, cells |-> z]
<1>1. [r EXCEPT !.cells = z] = [i \in DOMAIN r |-> IF i = "cells" THEN z ELSE r[i]]
  OBVIOUS
<1>2. DOMAIN r = {"null", "cells"} /\ DOMAIN q = {"null", "cells"}
  OBVIOUS
<1>3. q["null"] = n /\ q["cells"] = z /\ r["null"] = n
  OBVIOUS
<1> QED BY <1>1, <1>2, <1>3

LEMMA WrittenFills ==
    ASSUME NEW u \in Seq(Cell), NEW n \in Nat, Len(u) <= n
    PROVE  Written(Buffer(n), u) = [null |-> FALSE, cells |-> Filled(u, n)]
<1> DEFINE j == [i \in 1 .. n |-> Junk]
           k == SubSeq(j, Len(u) + 1, Len(j))
<1>1. j \in Seq(Cell) /\ Len(j) = n /\ \A i \in 1 .. n : j[i] = Junk
  BY SpecialCells
<1>2. Written(Buffer(n), u) = [null |-> FALSE, cells |-> u \o k]
  <2>1. Buffer(n) = [null |-> FALSE, cells |-> j]
    BY DEF Buffer
  <2> HIDE DEF j
  <2> DEFINE f == FALSE
             z == u \o k
  <2>2. Written(Buffer(n), u) = [Buffer(n) EXCEPT !.cells = z]
    BY <2>1 DEF Written
  <2>3. Buffer(n) = [null |-> f, cells |-> j]
    BY <2>1
  <2> HIDE DEF f, z
  <2>4. [Buffer(n) EXCEPT !.cells = z] = [null |-> f, cells |-> z]
    BY <2>3, BufferChanged
  <2> QED BY <2>2, <2>4 DEF f, z
<1> HIDE DEF j
<1>3. /\ k \in Seq(Cell) /\ Len(k) = n - Len(u)
      /\ \A i \in 1 .. (n - Len(u)) : k[i] = Junk
  BY <1>1
<1> HIDE DEF k
<1>4. u \o k = Filled(u, n)
  <2> DEFINE v == u \o k
  <2>0. v \in Seq(Cell) /\ Len(v) = n
    BY <1>3
  <2>1. v = [i \in 1 .. n |-> v[i]]
    <3> HIDE DEF v
    <3> QED BY <2>0
  <2>2. \A i \in 1 .. n : (u \o k)[i] = IF i <= Len(u) THEN u[i] ELSE Junk
    BY <1>3
  <2> QED BY <2>1, <2>2 DEF Filled
<1> QED BY <1>2, <1>4

\* The struct of MsgProcess for the bytes b.
StructOf(b) == [structSize |-> URL_STRUCT_SIZE + Len(b) + 1,
                urlOffset |-> URL_STRUCT_SIZE,
                urlSize |-> Len(b),
                mem |-> [o \in 1 .. URL_STRUCT_SIZE |-> Junk] \o b \o <<NUL>>]

LEMMA StringOfStruct ==
    ASSUME NEW b \in Seq(Cell)
    PROVE  /\ StringIn(StructOf(b), URL_STRUCT_SIZE, Len(b)) = b
           /\ StructError(StructOf(b), URL_STRUCT_SIZE, Len(b)) = 0
<1> DEFINE h == [o \in 1 .. URL_STRUCT_SIZE |-> Junk]
           m == h \o b \o <<NUL>>
<1>1. h \in Seq(Cell) /\ Len(h) = 16
  BY SpecialCells DEF URL_STRUCT_SIZE
<1>2. StructOf(b).mem = m /\ StructOf(b).structSize = 16 + Len(b) + 1
  BY DEF StructOf, URL_STRUCT_SIZE
<1> HIDE DEF h
<1>3. /\ m \in Seq(Cell) /\ Len(m) = 17 + Len(b) /\ m[16 + Len(b) + 1] = NUL
      /\ \A i \in 1 .. Len(b) : m[16 + i] = b[i]
  <2> DEFINE g == h \o b
             x == <<NUL>>
  <2>1. /\ g \in Seq(Cell) /\ Len(g) = Len(h) + Len(b)
        /\ \A i \in 1 .. Len(b) : g[Len(h) + i] = b[i]
    <3>1. h \in Seq(Cell)
      BY <1>1
    <3> QED BY <3>1
  <2>2. x \in Seq(Cell) /\ Len(x) = 1 /\ x[1] = NUL
    BY SpecialCells
  <2>3. m = g \o x
    OBVIOUS
  <2> HIDE DEF g, x, m
  <2>4. /\ m \in Seq(Cell) /\ Len(m) = Len(g) + Len(x) /\ m[Len(g) + 1] = NUL
        /\ \A i \in 1 .. Len(g) : m[i] = g[i]
    <3>1. g \in Seq(Cell) /\ x \in Seq(Cell) /\ 1 \in 1 .. Len(x)
      BY <2>1, <2>2
    <3>2. /\ m \in Seq(Cell) /\ Len(m) = Len(g) + Len(x) /\ m[Len(g) + 1] = x[1]
          /\ \A i \in 1 .. Len(g) : m[i] = g[i]
      BY <2>3, <3>1
    <3> QED BY <2>2, <3>2
  <2>5. Len(g) = 16 + Len(b) /\ \A i \in 1 .. Len(b) : g[16 + i] = b[i]
    BY <1>1, <2>1
  <2>6. \A i \in 1 .. Len(b) : m[16 + i] = b[i]
    BY <2>4, <2>5
  <2>7. Len(m) = 17 + Len(b) /\ m[16 + Len(b) + 1] = NUL
    BY <2>2, <2>4, <2>5
  <2> QED BY <2>4, <2>6, <2>7
<1> HIDE DEF m
<1>4. SubSeq(m, 17, 16 + Len(b)) = b
  BY <1>3
<1>5. StringIn(StructOf(b), URL_STRUCT_SIZE, Len(b)) = b
  BY <1>2, <1>4 DEF StringIn, URL_STRUCT_SIZE
<1>6. StructError(StructOf(b), URL_STRUCT_SIZE, Len(b)) = 0
  BY <1>2, <1>3 DEF StructError, URL_STRUCT_SIZE, STRUCT_SIZE
<1> QED BY <1>5, <1>6

\* The bytes of the string, copied to a buffer of any length.
LEMMA GetStringFills ==
    ASSUME NEW b \in Seq(Cell), NEW n \in Nat
    PROVE  SMSrvGetString(StructOf(b), URL_STRUCT_SIZE, Len(b), Buffer(n))
             = Result(IF n < Len(b) THEN n ELSE Len(b),
                      [null |-> FALSE, cells |-> Filled(b \o <<NUL>>, n)])
<1>1. Len(Buffer(n).cells) = n /\ ~Buffer(n).null
  BY DEF Buffer
<1>2. SMSrvGetString(StructOf(b), URL_STRUCT_SIZE, Len(b), Buffer(n))
        = IF n <= Len(b) THEN Result(n, Written(Buffer(n), SubSeq(b, 1, n)))
          ELSE Result(Len(b), Written(Buffer(n), b \o <<NUL>>))
  BY <1>1, StringOfStruct DEF SMSrvGetString
<1>3. CASE n <= Len(b)
  <2> DEFINE u == SubSeq(b, 1, n)
  <2>1. u \in Seq(Cell) /\ Len(u) = n /\ \A i \in 1 .. n : u[i] = b[i]
    BY <1>3
  <2> HIDE DEF u
  <2>2. Filled(u, n) = Filled(b \o <<NUL>>, n)
    <3>1. \A i \in 1 .. n : (b \o <<NUL>>)[i] = u[i] /\ i <= Len(b \o <<NUL>>)
      BY <1>3, <2>1, SpecialCells
    <3> QED BY <2>1, <3>1 DEF Filled
  <2>3. Written(Buffer(n), u) = [null |-> FALSE, cells |-> Filled(u, n)]
    BY <2>1, WrittenFills
  <2>4. n = IF n < Len(b) THEN n ELSE Len(b)
    BY <1>3
  <2> QED BY <1>2, <1>3, <2>2, <2>3, <2>4 DEF u
<1>4. CASE ~(n <= Len(b))
  <2> DEFINE u == b \o <<NUL>>
  <2>1. u \in Seq(Cell) /\ Len(u) <= n /\ ~(n < Len(b))
    BY <1>4, SpecialCells
  <2> HIDE DEF u
  <2>2. Written(Buffer(n), u) = [null |-> FALSE, cells |-> Filled(u, n)]
    BY <2>1, WrittenFills
  <2> QED BY <1>2, <1>4, <2>1, <2>2 DEF u
<1> QED BY <1>3, <1>4

\* The UTF-16 units of the string, in a buffer of any length or in none.
LEMMA GetWideStringFills ==
    ASSUME NEW b \in Seq(Cell), b # <<>>, NEW u \in Seq(Cell), MultiByteToWideChar(b) = u
    PROVE  /\ SMSrvGetWideString(StructOf(b), URL_STRUCT_SIZE, Len(b), NoBuffer)
                = Result(Len(u), NoBuffer)
           /\ \A n \in Nat :
                SMSrvGetWideString(StructOf(b), URL_STRUCT_SIZE, Len(b), Buffer(n))
                  = IF n > Len(u)
                    THEN Result(Len(u), [null |-> FALSE, cells |-> Filled(u \o <<NUL>>, n)])
                    ELSE Result(-2, Buffer(n))
<1>1. \A p : SMSrvGetWideString(StructOf(b), URL_STRUCT_SIZE, Len(b), p) = utf8_to_utf16(b, p)
  BY StringOfStruct DEF SMSrvGetWideString
<1>2. utf8_to_utf16(b, NoBuffer) = Result(Len(u), NoBuffer)
  BY DEF utf8_to_utf16, NoBuffer
<1>3. ASSUME NEW n \in Nat
      PROVE  utf8_to_utf16(b, Buffer(n))
               = IF n > Len(u)
                 THEN Result(Len(u), [null |-> FALSE, cells |-> Filled(u \o <<NUL>>, n)])
                 ELSE Result(-2, Buffer(n))
  <2> DEFINE v == u \o <<NUL>>
  <2>1. Len(Buffer(n).cells) = n /\ ~Buffer(n).null
    BY DEF Buffer
  <2>2. utf8_to_utf16(b, Buffer(n))
          = IF Len(u) + 1 > n THEN Result(-2, Buffer(n))
            ELSE Result(Len(u), Written(Buffer(n), v))
    BY <2>1 DEF utf8_to_utf16, TooLong
  <2>3. v \in Seq(Cell) /\ Len(v) = Len(u) + 1
    BY SpecialCells
  <2> HIDE DEF v
  <2>4. Len(u) + 1 <= n => Written(Buffer(n), v) = [null |-> FALSE, cells |-> Filled(v, n)]
    BY <2>3, WrittenFills
  <2>5. Len(u) + 1 > n <=> ~(n > Len(u))
    OBVIOUS
  <2>6. CASE n > Len(u)
    <3>1. Len(u) + 1 <= n /\ ~(Len(u) + 1 > n)
      BY <2>6
    <3> QED BY <2>2, <2>4, <2>6, <3>1 DEF v
  <2>7. CASE ~(n > Len(u))
    BY <2>2, <2>5, <2>7
  <2> QED BY <2>6, <2>7
<1> QED BY <1>1, <1>2, <1>3

-----------------------------------------------------------------------------
(* Strings that end at the first NUL *)

Has(s, x) == \E i \in 1 .. Len(s) : s[i] = x

LEMMA BeforeAt ==
    ASSUME NEW D, NEW s \in Seq(D), NEW x, NEW n \in 1 .. Len(s), s[n] = x,
           \A i \in 1 .. Len(s) : s[i] = x => n <= i
    PROVE  Before(s, x) = SubSeq(s, 1, n - 1)
<1> DEFINE I == {i \in 1 .. Len(s) : s[i] = x}
<1>1. n \in I /\ I \subseteq Int /\ \A i \in I : n <= i
  OBVIOUS
<1>2. SelectInSeq(s, LAMBDA e : e = x) = IF I # {} THEN Min(I) ELSE 0
  BY DEF SelectInSeq
<1> HIDE DEF I
<1>3. Min(I) = n
  <2>1. \A m \in I : (\A k \in I : m <= k) <=> m = n
    BY <1>1
  <2> QED BY <1>1, <2>1 DEF Min
<1>4. SelectInSeq(s, LAMBDA e : e = x) = n /\ n # 0
  BY <1>1, <1>2, <1>3
<1> QED BY <1>4 DEF Before

LEMMA BeforeNone ==
    ASSUME NEW s, NEW x, ~Has(s, x) PROVE Before(s, x) = s
<1> DEFINE I == {i \in 1 .. Len(s) : s[i] = x}
<1>1. I = {}
  BY DEF Has
<1>2. SelectInSeq(s, LAMBDA e : e = x) = IF I # {} THEN Min(I) ELSE 0
  BY DEF SelectInSeq
<1> HIDE DEF I
<1>3. SelectInSeq(s, LAMBDA e : e = x) = 0
  BY <1>1, <1>2
<1> QED BY <1>3 DEF Before

LEMMA FirstExists ==
    ASSUME NEW D, NEW s \in Seq(D), NEW x, Has(s, x)
    PROVE  \E n \in 1 .. Len(s) : s[n] = x /\ \A i \in 1 .. Len(s) : s[i] = x => n <= i
<1> DEFINE I == {i \in 1 .. Len(s) : s[i] = x}
<1>1. IsFiniteSet(I)
  <2>1. IsFiniteSet(1 .. Len(s)) /\ I \subseteq 1 .. Len(s)
    BY FS_Interval
  <2> QED BY <2>1, FS_Subset
<1>2. I \subseteq Nat /\ I # {}
  BY DEF Has
<1>3. PICK n \in I : \A t \in I : n <= t
  BY <1>1, <1>2, LeastExists
<1> QED BY <1>3

\* What comes before the first x has none.
LEMMA BeforeIsFree ==
    ASSUME NEW D, NEW s \in Seq(D), NEW x
    PROVE  Before(s, x) \in Seq(D) /\ ~Has(Before(s, x), x)
<1>1. CASE Has(s, x)
  <2>1. PICK n \in 1 .. Len(s) : s[n] = x /\ \A i \in 1 .. Len(s) : s[i] = x => n <= i
    BY <1>1, FirstExists
  <2>2. Before(s, x) = SubSeq(s, 1, n - 1)
    BY <2>1, BeforeAt
  <2>3. /\ SubSeq(s, 1, n - 1) \in Seq(D) /\ Len(SubSeq(s, 1, n - 1)) = n - 1
        /\ \A i \in 1 .. (n - 1) : SubSeq(s, 1, n - 1)[i] = s[i]
    OBVIOUS
  <2> QED BY <2>1, <2>2, <2>3 DEF Has
<1>2. CASE ~Has(s, x)
  BY <1>2, BeforeNone
<1> QED BY <1>1, <1>2

\* A sequence that goes on.
LEMMA BeforeAppended ==
    ASSUME NEW D, NEW s \in Seq(D), NEW y \in Seq(D), NEW x
    PROVE  /\ Has(s, x) => Has(s \o y, x) /\ Before(s \o y, x) = Before(s, x)
           /\ ~Has(s, x) /\ y # <<>> /\ y[1] = x =>
                 Has(s \o y, x) /\ Before(s \o y, x) = s
           /\ ~Has(s, x) /\ ~Has(y, x) => ~Has(s \o y, x)
<1> DEFINE z == s \o y
<1>1. /\ z \in Seq(D) /\ Len(z) = Len(s) + Len(y)
      /\ \A i \in 1 .. Len(s) : z[i] = s[i]
      /\ \A i \in 1 .. Len(y) : z[Len(s) + i] = y[i]
  OBVIOUS
<1> HIDE DEF z
<1>2. ASSUME Has(s, x) PROVE Has(z, x) /\ Before(z, x) = Before(s, x)
  <2>1. PICK n \in 1 .. Len(s) : s[n] = x /\ \A i \in 1 .. Len(s) : s[i] = x => n <= i
    BY <1>2, FirstExists
  <2>2. n \in 1 .. Len(z) /\ z[n] = x /\ \A i \in 1 .. Len(z) : z[i] = x => n <= i
    BY <1>1, <2>1
  <2>3. Before(s, x) = SubSeq(s, 1, n - 1) /\ Before(z, x) = SubSeq(z, 1, n - 1)
    BY <1>1, <2>1, <2>2, BeforeAt
  <2>4. SubSeq(s, 1, n - 1) = SubSeq(z, 1, n - 1)
    BY <1>1
  <2> QED BY <2>2, <2>3, <2>4 DEF Has
<1>3. ASSUME ~Has(s, x), y # <<>>, y[1] = x PROVE Has(z, x) /\ Before(z, x) = s
  <2> DEFINE n == Len(s) + 1
  <2>1. 1 \in 1 .. Len(y)
    BY <1>3
  <2>2. n \in 1 .. Len(z) /\ z[n] = x
    BY <1>1, <1>3, <2>1
  <2>3. \A i \in 1 .. Len(z) : z[i] = x => n <= i
    <3> SUFFICES ASSUME NEW i \in 1 .. Len(z), z[i] = x, ~(n <= i) PROVE FALSE
      OBVIOUS
    <3>1. i \in 1 .. Len(s)
      OBVIOUS
    <3> QED BY <1>1, <1>3, <3>1 DEF Has
  <2>4. SubSeq(z, 1, n - 1) = s
    BY <1>1
  <2> HIDE DEF n
  <2>5. Before(z, x) = SubSeq(z, 1, n - 1)
    BY <1>1, <2>2, <2>3, BeforeAt
  <2> QED BY <2>2, <2>4, <2>5 DEF Has
<1>4. ASSUME ~Has(s, x), ~Has(y, x), Has(z, x) PROVE FALSE
  <2>1. PICK i \in 1 .. Len(z) : z[i] = x
    BY <1>4 DEF Has
  <2>2. CASE i <= Len(s)
    BY <1>1, <1>4, <2>1, <2>2 DEF Has
  <2>3. CASE i > Len(s)
    <3> DEFINE k == i - Len(s)
    <3>1. k \in 1 .. Len(y) /\ i = Len(s) + k
      BY <1>1, <2>3
    <3> HIDE DEF k
    <3>2. y[k] = x
      BY <1>1, <2>1, <3>1
    <3> QED BY <1>4, <3>1, <3>2 DEF Has
  <2> QED BY <2>2, <2>3
<1> QED BY <1>2, <1>3, <1>4 DEF z

\* The NULs of an encoded text are those of its U+0000s.
LEMMA UnitsBefore ==
    ASSUME NEW size \in Sizes, size[0] = 1
    PROVE  \A t \in Seq(Char) : /\ Has(Units(t, size), NUL) <=> Has(t, 0)
                                /\ Before(Units(t, size), NUL) = Units(Before(t, 0), size)
<1> DEFINE P(t) == /\ Has(Units(t, size), NUL) <=> Has(t, 0)
                   /\ Before(Units(t, size), NUL) = Units(Before(t, 0), size)
           S == {n \in Nat : \A t \in Seq(Char) : Len(t) = n => P(t)}
<1>1. 0 \in S
  <2>1. Units(<<>>, size) = <<>>
    BY FlattenNone DEF Units
  <2>2. ~Has(<<>>, NUL) /\ ~Has(<<>>, 0)
    BY DEF Has
  <2>3. P(<<>>)
    BY <2>1, <2>2, BeforeNone
  <2> QED BY <2>3
<1>2. ASSUME NEW n \in Nat, n \in S PROVE n + 1 \in S
  <2> SUFFICES ASSUME NEW t \in Seq(Char), Len(t) = n + 1 PROVE P(t)
    OBVIOUS
  <2> DEFINE r == SubSeq(t, 1, n)
             w == t[n + 1]
             u == Units(r, size)
             v == UnitsOf(w, size[w])
             y == <<w>>
  <2>1. r \in Seq(Char) /\ Len(r) = n /\ w \in Char /\ t = Append(r, w)
    BY FrontAndLast
  <2> HIDE DEF r, w
  <2>2. P(r)
    BY <1>2, <2>1
  <2>3. u \in Seq(Unit)
    BY <2>1, UnitsDecoded
  <2>4. size[w] \in Nat /\ size[w] > 0
    BY <2>1 DEF Sizes, Char
  <2>5. v \in Seq(Unit) /\ Len(v) = size[w]
    BY <2>1, <2>4, UnitsOfChar
  <2>6. Units(t, size) = u \o v
    BY <2>1, UnitsAppend
  <2>7. t = r \o y /\ y \in Seq(Char) /\ Len(y) = 1 /\ y[1] = w
    BY <2>1
  <2>8. \A i \in 1 .. Len(v) : v[i] = <<w, i>>
    BY <2>4, <2>5 DEF UnitsOf
  <2> HIDE DEF u, v, y
  <2>9. CASE Has(r, 0)
    <3>1. Has(t, 0) /\ Before(t, 0) = Before(r, 0)
      BY <2>1, <2>7, <2>9, BeforeAppended
    <3>2. Has(u, NUL) /\ Before(u, NUL) = Units(Before(r, 0), size)
      BY <2>2, <2>9 DEF u
    <3>3. Has(u \o v, NUL) /\ Before(u \o v, NUL) = Before(u, NUL)
      BY <2>3, <2>5, <3>2, BeforeAppended
    <3> QED BY <2>6, <3>1, <3>2, <3>3
  <2>10. CASE ~Has(r, 0) /\ w = 0
    <3>1. Has(t, 0) /\ Before(t, 0) = r
      <4>1. y # <<>> /\ y[1] = 0
        BY <2>10 DEF y
      <4> QED BY <2>1, <2>7, <2>10, <4>1, BeforeAppended
    <3>2. ~Has(u, NUL)
      BY <2>2, <2>10 DEF u
    <3>3. v # <<>> /\ v[1] = NUL
      BY <2>4, <2>5, <2>8, <2>10 DEF NUL
    <3>4. Has(u \o v, NUL) /\ Before(u \o v, NUL) = u
      BY <2>3, <2>5, <3>2, <3>3, BeforeAppended
    <3> QED BY <2>6, <3>1, <3>4 DEF u
  <2>11. CASE ~Has(r, 0) /\ w # 0
    <3>1. ~Has(t, 0)
      <4>1. ~Has(y, 0)
        BY <2>7, <2>11 DEF Has
      <4> QED BY <2>1, <2>7, <2>11, <4>1, BeforeAppended
    <3>2. ~Has(u, NUL)
      BY <2>2, <2>11 DEF u
    <3>3. ~Has(v, NUL)
      BY <2>8, <2>11 DEF Has, NUL
    <3>4. ~Has(u \o v, NUL)
      BY <2>3, <2>5, <3>2, <3>3, BeforeAppended
    <3>5. Before(t, 0) = t /\ Before(u \o v, NUL) = u \o v
      BY <3>1, <3>4, BeforeNone
    <3> QED BY <2>6, <3>1, <3>4, <3>5
  <2> QED BY <2>9, <2>10, <2>11
<1> HIDE DEF S
<1>3. \A n \in Nat : n \in S
  BY <1>1, <1>2, SetInduction
<1> QED BY <1>3 DEF S

\* The wchar array get_wide_string reads ends at its first NUL, the terminator if
\* none comes before it.
LEMMA EndOfUnits ==
    ASSUME NEW u \in Seq(Unit), NEW cells, cells = Filled(u \o <<NUL>>, Len(u) + 1)
    PROVE  Before(cells, NUL) = Before(u, NUL)
<1> DEFINE N == Len(u)
           x == <<NUL>>
           v == u \o x
<1>1. /\ N \in Nat /\ x \in Seq(Unit) /\ x # <<>> /\ x[1] = NUL
      /\ v \in Seq(Unit) /\ Len(v) = N + 1
  BY SpecialCells
<1>2. cells = v
  <2>1. cells = [i \in 1 .. (N + 1) |-> v[i]]
    <3> HIDE DEF v
    <3>1. cells = [i \in 1 .. (N + 1) |-> IF i <= Len(v) THEN v[i] ELSE Junk]
      BY DEF Filled, v
    <3> QED BY <1>1, <3>1
  <2> HIDE DEF v
  <2> QED BY <1>1, <2>1
<1> HIDE DEF x, v
<1>3. CASE Has(u, NUL)
  <2>1. Before(u \o x, NUL) = Before(u, NUL)
    BY <1>1, <1>3, BeforeAppended
  <2> QED BY <1>2, <2>1 DEF v
<1>4. CASE ~Has(u, NUL)
  <2>1. Before(u \o x, NUL) = u
    BY <1>1, <1>4, BeforeAppended
  <2> QED BY <1>2, <1>4, <2>1, BeforeNone DEF v
<1> QED BY <1>3, <1>4

-----------------------------------------------------------------------------
(* The struct a handler is called with *)

\* A request's text, in UTF-8 and in UTF-16.
LEMMA EncodedText ==
    ASSUME NEW text \in Seq(Char), text # <<>>
    PROVE  /\ Utf8(text) \in Seq(Unit) /\ Utf8(text) # <<>> /\ Decoded(Utf8(text)) = text
           /\ Utf16(text) \in Seq(Unit) /\ Utf16(text) # <<>>
           /\ Decoded(Before(Utf16(text), NUL)) = UpToNul(text)
           /\ MultiByteToWideChar(Utf8(text)) = Utf16(text)
<1> DEFINE size8 == [w \in 0 .. 4 |-> IF w = 0 THEN 1 ELSE w]
           size16 == [w \in 0 .. 4 |-> IF w = 4 THEN 2 ELSE 1]
           t == UpToNul(text)
<1>1. size8 \in Sizes /\ size16 \in Sizes /\ size16[0] = 1
  BY DEF Sizes, Char
<1>2. Utf8(text) = Units(text, size8) /\ \A q : Utf16(q) = Units(q, size16)
  BY DEF Utf8, Utf16
<1> HIDE DEF size8, size16
<1>3. Utf8(text) \in Seq(Unit) /\ Utf8(text) # <<>> /\ Decoded(Utf8(text)) = text
  BY <1>1, <1>2, UnitsDecoded
<1>4. Utf16(text) \in Seq(Unit) /\ Utf16(text) # <<>>
  BY <1>1, <1>2, UnitsDecoded
<1>5. t \in Seq(Char) /\ t = Before(text, 0)
  BY BeforeIsFree DEF UpToNul
<1>6. Before(Units(text, size16), NUL) = Units(t, size16)
  BY <1>1, <1>5, UnitsBefore
<1>7. Decoded(Units(t, size16)) = t
  <2> HIDE DEF t
  <2> QED BY <1>1, <1>5, UnitsDecoded
<1> QED BY <1>2, <1>3, <1>4, <1>6, <1>7 DEF MultiByteToWideChar

\* The text before the first U+0000 ends there already.
LEMMA UpToNulTwice ==
    ASSUME NEW text \in Seq(Char)
    PROVE  UpToNul(text) \in Seq(Char) /\ UpToNul(UpToNul(text)) = UpToNul(text)
<1>1. Before(text, 0) \in Seq(Char) /\ ~Has(Before(text, 0), 0)
  BY BeforeIsFree
<1> QED BY <1>1, BeforeNone DEF UpToNul

LEMMA UrlStructOf ==
    \A r : UrlStruct(r) = StructOf(Utf8(r.val[1])) /\ UrlStruct(r).urlOffset = URL_STRUCT_SIZE
           /\ UrlStruct(r).urlSize = Len(Utf8(r.val[1]))
BY DEF UrlStruct, StructOf, UrlOffset

\* The handler's own string functions return the text, through either routine; a
\* wchar array is read as far as its first NUL.
LEMMA TextOfStruct ==
    ASSUME NEW text \in Seq(Char), text # <<>>
    PROVE  /\ get_wide_string(StructOf(Utf8(text)), URL_STRUCT_SIZE, Len(Utf8(text)))
                = UpToNul(text)
           /\ get_utf8_string(StructOf(Utf8(text)), URL_STRUCT_SIZE, Len(Utf8(text))) = text
<1> DEFINE b == Utf8(text)
           u == Utf16(text)
           s == StructOf(b)
           N == Len(u)
<1>1. /\ b \in Seq(Unit) /\ b # <<>> /\ Decoded(b) = text
      /\ u \in Seq(Unit) /\ u # <<>> /\ Decoded(Before(u, NUL)) = UpToNul(text)
      /\ MultiByteToWideChar(b) = u
  BY EncodedText
<1> HIDE DEF b, u, s
<1>2. b \in Seq(Cell) /\ u \in Seq(Cell) /\ N \in Nat \ {0} /\ Len(b) \in Nat
  BY <1>1, UnitsAreCells
<1>3. get_wide_string(s, URL_STRUCT_SIZE, Len(b)) = UpToNul(text)
  <2> DEFINE query == SMSrvGetWideString(s, URL_STRUCT_SIZE, Len(b), NoBuffer)
             M == N + 1
             full == SMSrvGetWideString(s, URL_STRUCT_SIZE, Len(b), Buffer(M))
             cells == full.buffer.cells
  <2>1. query.ret = N
    BY <1>1, <1>2, GetWideStringFills DEF s, Result
  <2>2. M \in Nat /\ M > N
    BY <1>2
  <2>3. cells = Filled(u \o <<NUL>>, N + 1)
    <3> HIDE DEF M
    <3>1. full = IF M > N
                 THEN Result(N, [null |-> FALSE, cells |-> Filled(u \o <<NUL>>, M)])
                 ELSE Result(-2, Buffer(M))
      BY <1>1, <1>2, <2>2, GetWideStringFills DEF s
    <3>2. cells = Filled(u \o <<NUL>>, M)
      BY <2>2, <3>1 DEF Result
    <3> QED BY <3>2 DEF M
  <2>4. Before(cells, NUL) = Before(u, NUL)
    <3> HIDE DEF full
    <3> QED BY <1>1, <2>3, EndOfUnits
  <2>5. get_wide_string(s, URL_STRUCT_SIZE, Len(b))
          = IF query.ret <= 0 THEN <<>>
            ELSE LET c == SMSrvGetWideString(s, URL_STRUCT_SIZE, Len(b),
                                             Buffer(query.ret + 1)).buffer.cells
                 IN  Decoded(Before(c, NUL))
    BY DEF get_wide_string
  <2> HIDE DEF query
  <2>6. get_wide_string(s, URL_STRUCT_SIZE, Len(b)) = Decoded(Before(cells, NUL))
    BY <1>2, <2>1, <2>5
  <2> HIDE DEF cells
  <2> QED BY <1>1, <2>4, <2>6
<1>4. get_utf8_string(s, URL_STRUCT_SIZE, Len(b)) = text
  <2>1. SMSrvGetString(s, URL_STRUCT_SIZE, Len(b), Buffer(Len(b))).buffer.cells
          = Filled(b \o <<NUL>>, Len(b))
    <3> DEFINE n == Len(b)
    <3>1. n \in Nat /\ ~(n < n)
      BY <1>2
    <3> HIDE DEF n
    <3>2. SMSrvGetString(s, URL_STRUCT_SIZE, Len(b), Buffer(n))
            = Result(IF n < Len(b) THEN n ELSE Len(b),
                     [null |-> FALSE, cells |-> Filled(b \o <<NUL>>, n)])
      BY <1>2, <3>1, GetStringFills DEF s
    <3> QED BY <3>2 DEF n, Result
  <2>2. Filled(b \o <<NUL>>, Len(b)) = b
    <3>1. \A i \in 1 .. Len(b) : (b \o <<NUL>>)[i] = b[i] /\ i <= Len(b \o <<NUL>>)
      BY <1>2, SpecialCells
    <3> QED BY <1>2, <3>1 DEF Filled
  <2> QED BY <1>1, <2>1, <2>2 DEF get_utf8_string
<1> QED BY <1>3, <1>4 DEF b, s

\* Whatever text a request has, the struct its handler is called with gives it
\* back, from a buffer of any size, as far as there is room (str-encode.cpp:43,
\* 85; msg-process.hpp:112).
THEOREM TextsArrive ==
    ASSUME NEW r, Calls(r), r.val[1] \in Seq(Char)
    PROVE  LET text == r.val[1]
               s == UrlStruct(r)
               bytes == Utf8(text)
               units == Utf16(text)
           IN  /\ SMSrvGetWideString(s, s.urlOffset, s.urlSize, NoBuffer).ret = Len(units)
               /\ \A n \in Nat :
                    /\ SMSrvGetString(s, s.urlOffset, s.urlSize, Buffer(n))
                         = Result(IF n < Len(bytes) THEN n ELSE Len(bytes),
                                  [null |-> FALSE, cells |-> Filled(bytes \o <<NUL>>, n)])
                    /\ SMSrvGetWideString(s, s.urlOffset, s.urlSize, Buffer(n))
                         = IF n > Len(units)
                           THEN Result(Len(units),
                                  [null |-> FALSE, cells |-> Filled(units \o <<NUL>>, n)])
                           ELSE Result(-2, Buffer(n))
               /\ get_wide_string(s, s.urlOffset, s.urlSize) = UpToNul(text)
               /\ get_utf8_string(s, s.urlOffset, s.urlSize) = text
               /\ Len(bytes) \in Nat
<1> DEFINE text == r.val[1]
           bytes == Utf8(text)
           units == Utf16(text)
           s == StructOf(bytes)
<1>1. text \in Seq(Char) /\ text # <<>>
  BY DEF Calls, HasText
<1>2. UrlStruct(r) = s /\ UrlStruct(r).urlOffset = URL_STRUCT_SIZE
      /\ UrlStruct(r).urlSize = Len(bytes)
  BY UrlStructOf
<1> HIDE DEF text
<1>3. /\ bytes \in Seq(Unit) /\ bytes # <<>> /\ units \in Seq(Unit)
      /\ MultiByteToWideChar(bytes) = units
  BY <1>1, EncodedText
<1>4. /\ get_wide_string(s, URL_STRUCT_SIZE, Len(bytes)) = UpToNul(text)
      /\ get_utf8_string(s, URL_STRUCT_SIZE, Len(bytes)) = text
  BY <1>1, TextOfStruct
<1> HIDE DEF bytes, units
<1>5. bytes \in Seq(Cell) /\ units \in Seq(Cell) /\ Len(bytes) \in Nat
  BY <1>3, UnitsAreCells
<1>6. \A n \in Nat : SMSrvGetString(s, URL_STRUCT_SIZE, Len(bytes), Buffer(n))
        = Result(IF n < Len(bytes) THEN n ELSE Len(bytes),
                 [null |-> FALSE, cells |-> Filled(bytes \o <<NUL>>, n)])
  BY <1>5, GetStringFills
<1>7. /\ SMSrvGetWideString(s, URL_STRUCT_SIZE, Len(bytes), NoBuffer)
           = Result(Len(units), NoBuffer)
      /\ \A n \in Nat :
           SMSrvGetWideString(s, URL_STRUCT_SIZE, Len(bytes), Buffer(n))
             = IF n > Len(units)
               THEN Result(Len(units),
                      [null |-> FALSE, cells |-> Filled(units \o <<NUL>>, n)])
               ELSE Result(-2, Buffer(n))
  BY <1>3, <1>5, GetWideStringFills
<1>8. SMSrvGetWideString(s, URL_STRUCT_SIZE, Len(bytes), NoBuffer).ret = Len(units)
  BY <1>7 DEF Result
<1> HIDE DEF s
<1> QED BY <1>2, <1>4, <1>5, <1>6, <1>7, <1>8 DEF text, bytes, units
=============================================================================
