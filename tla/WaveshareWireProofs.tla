------------------------- MODULE WaveshareWireProofs -------------------------
(***************************************************************************)
(* Facts about the frame scanner and the frame builder, for every buffer   *)
(* and every message.                                                      *)
(***************************************************************************)
EXTENDS WaveshareWire, SequenceTheorems, WellFoundedInduction, TLAPS

-----------------------------------------------------------------------------
(* Arithmetic of the info byte.                                            *)

\* The length a header announces, for the dlc's the scanner accepts.
LEMMA FrameLenRange ==
  ASSUME NEW info \in Byte, info % 16 <= 8
  PROVE  /\ FrameLen(info) \in 5..DATA_FRAME_MAX_SIZE
         /\ FrameLen(info) = IdLen(info \div 16 = 14) + (info % 16) + 3
BY DEF FrameLen, Byte, DATA_FRAME_MAX_SIZE, IdLen

\* The info byte that the builder writes gives back its two fields.
LEMMA InfoByteFields ==
  ASSUME NEW ext \in BOOLEAN, NEW dlc \in 0..8
  PROVE  /\ InfoByte(ext, dlc) \in Byte
         /\ InfoByte(ext, dlc) % 16 = dlc
         /\ InfoByte(ext, dlc) \div 16 = IF ext THEN 14 ELSE 12
BY DEF InfoByte, Byte

-----------------------------------------------------------------------------
(* The scan ends, at one offset.                                           *)

NatLess == {ss \in Nat \X Nat : ss[1] < ss[2]}

\* Every nonempty set of naturals has a least member.
LEMMA LeastMember ==
  ASSUME NEW S \in SUBSET Nat, S # {}
  PROVE  \E n \in S : \A m \in 0..(n - 1) : m \notin S
<1>1. IsWellFoundedOn(NatLess, Nat)
  BY NatLessThanWellFounded DEF OpToRel, NatLess
<1>2. PICK n \in S : \A m \in S : ~ (<<m, n>> \in NatLess)
  BY <1>1, WFMin
<1>3. ASSUME NEW m \in 0..(n - 1), m \in S
      PROVE  FALSE
  <2>1. <<m, n>> \in Nat \X Nat /\ m < n
    BY <1>3
  <2> QED
    BY <2>1, <1>2, <1>3 DEF NatLess
<1> QED
  BY <1>3

LEMMA ScanStops ==
  ASSUME NEW buf \in Seq(Byte)
  PROVE  /\ ScanEnd(buf) \in 0..Len(buf)
         /\ StopsAt(buf, ScanEnd(buf))
<1> DEFINE Stops == {o \in Nat : ~SkipAt(buf, o)}
<1>1. Len(buf) \in Stops
  BY DEF SkipAt, MIN_FRAME_SIZE
<1>2. PICK o \in Stops : \A p \in 0..(o - 1) : p \notin Stops
  <2> Stops \in SUBSET Nat /\ Stops # {}
    BY <1>1
  <2> HIDE DEF Stops
  <2> QED
    BY LeastMember
<1>3. o \in 0..Len(buf)
  <2>1. CASE o <= Len(buf)
    BY <2>1
  <2>2. CASE o > Len(buf)
    <3>1. Len(buf) \in 0..(o - 1)
      BY <2>2
    <3> QED
      BY <3>1, <1>2, <1>1
  <2> QED
    BY <2>1, <2>2
<1>4. StopsAt(buf, o)
  BY <1>2 DEF StopsAt
<1> QED
  BY <1>3, <1>4 DEF ScanEnd

\* An offset at which the scan stops is the one that it finds.
LEMMA ScanEndIs ==
  ASSUME NEW buf \in Seq(Byte), NEW o \in Nat, StopsAt(buf, o)
  PROVE  ScanEnd(buf) = o
<1> DEFINE e == ScanEnd(buf)
<1>1. e \in Nat /\ StopsAt(buf, e)
  BY ScanStops
<1>2. ~(o < e)
  <2>1. ASSUME o < e
        PROVE  o \in 0..(e - 1)
    BY <2>1, <1>1
  <2> QED
    BY <2>1, <1>1 DEF StopsAt
<1>3. ~(e < o)
  <2>1. ASSUME e < o
        PROVE  e \in 0..(o - 1)
    BY <2>1, <1>1
  <2> QED
    BY <2>1, <1>1 DEF StopsAt
<1> QED
  BY <1>1, <1>2, <1>3

-----------------------------------------------------------------------------
(* What one call of parse_next_frame returns.                              *)

\* A frame has at least five bytes.
LEMMA SizeRange ==
  ASSUME NEW len \in 5..DATA_FRAME_MAX_SIZE
  PROVE  len \in Nat /\ len >= 5
BY DEF DATA_FRAME_MAX_SIZE

\* Where a frame of len bytes at offset o of n bytes lies, and where in a buffer
\* of l bytes that holds those at offset d.
LEMMA FrameEnd ==
  ASSUME NEW o \in Nat, NEW d \in Nat, NEW len \in Nat, NEW n \in Nat, NEW l \in Nat,
         len >= 5, len <= n - o, n + d <= l
  PROVE  /\ o + len \in 1..n /\ len <= l - (o + d)
         /\ (o + len) + d = o + d + len
OBVIOUS

\* A frame at o has the length its header announces and lies in the buffer.
LEMMA FrameAtRange ==
  ASSUME NEW buf \in Seq(Byte), NEW o \in 0..Len(buf), FrameAt(buf, o)
  PROVE  /\ buf[o + 2] \in Byte
         /\ buf[o + 2] % 16 <= 8
         /\ FrameLen(buf[o + 2]) \in 5..DATA_FRAME_MAX_SIZE
         /\ o + FrameLen(buf[o + 2]) <= Len(buf)
<1>1. o + 2 \in 1..Len(buf)
  BY DEF FrameAt, MIN_FRAME_SIZE
<1>2. buf[o + 2] \in Byte
  BY <1>1
<1>3. buf[o + 2] % 16 <= 8
  BY DEF FrameAt, HeaderAt
<1>4. FrameLen(buf[o + 2]) \in 5..DATA_FRAME_MAX_SIZE
  BY <1>2, <1>3, FrameLenRange
<1> QED
  BY <1>2, <1>3, <1>4 DEF FrameAt, CompleteAt, DATA_FRAME_MAX_SIZE

\* The scan never reports more bytes than it was given, and a frame counts for
\* five at least: a caller that drops what was consumed and calls again goes on.
LEMMA ParseConsumes ==
  ASSUME NEW buf \in Seq(Byte)
  PROVE  LET p == ParseNextFrame(buf)
         IN  /\ p.consumed \in 0..Len(buf)
             /\ p.frame # <<>> => p.consumed >= 5
             /\ p.frame # <<>> <=> FrameAt(buf, ScanEnd(buf))
<1> DEFINE o == ScanEnd(buf)
<1>1. o \in 0..Len(buf)
  BY ScanStops
<1> HIDE DEF o
<1>2. CASE FrameAt(buf, o)
  <2>1. /\ FrameLen(buf[o + 2]) \in 5..DATA_FRAME_MAX_SIZE
        /\ o + FrameLen(buf[o + 2]) <= Len(buf)
    BY <1>1, <1>2, FrameAtRange
  <2>2. ParseNextFrame(buf) = [consumed |-> o + FrameLen(buf[o + 2]), frame |-> <<MetaAt(buf, o)>>]
    BY <1>2 DEF ParseNextFrame, o
  <2>3. o + FrameLen(buf[o + 2]) \in 0..Len(buf) /\ o + FrameLen(buf[o + 2]) >= 5
    <3> DEFINE n == FrameLen(buf[o + 2])
    <3>1. o \in Nat /\ Len(buf) \in Nat /\ n \in 5..16 /\ o + n <= Len(buf)
      BY <1>1, <2>1 DEF DATA_FRAME_MAX_SIZE
    <3> HIDE DEF n
    <3>2. o + n \in 0..Len(buf) /\ o + n >= 5
      BY <3>1
    <3> QED
      BY <3>2 DEF n
  <2>4. /\ ParseNextFrame(buf).consumed = o + FrameLen(buf[o + 2])
        /\ ParseNextFrame(buf).frame # <<>>
    BY <2>2
  <2> QED
    BY <1>2, <2>3, <2>4, Zenon DEF o
<1>3. CASE ~FrameAt(buf, o)
  <2>1. ParseNextFrame(buf) = [consumed |-> o, frame |-> <<>>]
    BY <1>3 DEF ParseNextFrame, o
  <2> QED
    BY <1>1, <1>3, <2>1 DEF o
<1> QED
  BY <1>2, <1>3

\* When no frame is found, less than a maximal frame stays in the buffer.
LEMMA ParseResidue ==
  ASSUME NEW buf \in Seq(Byte), ParseNextFrame(buf).frame = <<>>
  PROVE  Len(buf) - ParseNextFrame(buf).consumed <= DATA_FRAME_MAX_SIZE - 1
<1> DEFINE o == ScanEnd(buf)
<1>1. o \in 0..Len(buf) /\ ~SkipAt(buf, o)
  BY ScanStops DEF StopsAt
<1>2. ~FrameAt(buf, o)
  BY ParseConsumes
<1>3. ParseNextFrame(buf).consumed = o
  BY <1>2 DEF ParseNextFrame
<1> HIDE DEF o
<1>4. CASE Len(buf) - o < MIN_FRAME_SIZE
  BY <1>1, <1>3, <1>4 DEF MIN_FRAME_SIZE, DATA_FRAME_MAX_SIZE
<1>5. CASE Len(buf) - o >= MIN_FRAME_SIZE
  <2>1. HeaderAt(buf, o) /\ ~CompleteAt(buf, o)
    BY <1>1, <1>2, <1>5 DEF SkipAt, FrameAt
  <2>2. buf[o + 2] \in Byte /\ buf[o + 2] % 16 <= 8
    <3>1. o + 2 \in 1..Len(buf)
      BY <1>1, <1>5 DEF MIN_FRAME_SIZE
    <3> QED
      BY <3>1, <2>1 DEF HeaderAt
  <2>3. FrameLen(buf[o + 2]) \in 5..DATA_FRAME_MAX_SIZE
    BY <2>2, FrameLenRange
  <2> QED
    BY <1>1, <1>3, <2>1, <2>3 DEF CompleteAt, DATA_FRAME_MAX_SIZE
<1> QED
  BY <1>1, <1>4, <1>5 DEF MIN_FRAME_SIZE

-----------------------------------------------------------------------------
(* Moving bytes about.  a is a window of b when b holds a's bytes d places *)
(* further on.                                                             *)

Window(a, b, d) ==
  /\ Len(a) + d <= Len(b)
  /\ \A i \in 1..Len(a) : a[i] = b[i + d]

LEMMA SubSeqWindow ==
  ASSUME NEW a \in Seq(Byte), NEW b \in Seq(Byte), NEW d \in Nat, Window(a, b, d),
         NEW m \in 1..(Len(a) + 1), NEW n \in 0..Len(a)
  PROVE  SubSeq(a, m, n) = SubSeq(b, m + d, n + d)
<1>1. SubSeq(a, m, n) \in Seq(Byte) /\ SubSeq(b, m + d, n + d) \in Seq(Byte)
  BY DEF Window
<1>2. Len(SubSeq(a, m, n)) = Len(SubSeq(b, m + d, n + d))
  BY DEF Window
<1>3. ASSUME NEW i \in 1..Len(SubSeq(a, m, n))
      PROVE  SubSeq(a, m, n)[i] = SubSeq(b, m + d, n + d)[i]
  BY DEF Window
<1> QED
  BY <1>1, <1>2, <1>3, SeqEqual

\* What the scanner decides at an offset of a window, it decides of the whole.
LEMMA DecisionsKept ==
  ASSUME NEW a \in Seq(Byte), NEW b \in Seq(Byte), NEW d \in Nat, Window(a, b, d),
         NEW o \in Nat
  PROVE  /\ SkipAt(a, o) => SkipAt(b, o + d)
         /\ FrameAt(a, o) => /\ FrameAt(b, o + d)
                             /\ MetaAt(a, o) = MetaAt(b, o + d)
                             /\ a[o + 2] = b[o + d + 2]
<1> SUFFICES ASSUME Len(a) - o >= MIN_FRAME_SIZE
             PROVE  /\ SkipAt(a, o) => SkipAt(b, o + d)
                    /\ FrameAt(a, o) => /\ FrameAt(b, o + d)
                                        /\ MetaAt(a, o) = MetaAt(b, o + d)
                                        /\ a[o + 2] = b[o + d + 2]
  BY DEF SkipAt, FrameAt
<1>1. o + 2 <= Len(a) /\ Len(b) - (o + d) >= MIN_FRAME_SIZE
  BY DEF Window, MIN_FRAME_SIZE
<1>2. a[o + 1] = b[o + d + 1] /\ a[o + 2] = b[o + d + 2] /\ a[o + 2] \in Byte
  BY <1>1 DEF Window
<1>3. HeaderAt(a, o) <=> HeaderAt(b, o + d)
  BY <1>2 DEF HeaderAt
<1> DEFINE len == FrameLen(a[o + 2])
<1>4. HeaderAt(a, o) => len \in 5..DATA_FRAME_MAX_SIZE
  BY <1>2, FrameLenRange DEF HeaderAt
<1>5. HeaderAt(a, o) /\ CompleteAt(a, o) =>
        CompleteAt(b, o + d) /\ (FooterAt(a, o) <=> FooterAt(b, o + d))
  <2> SUFFICES ASSUME HeaderAt(a, o), CompleteAt(a, o)
               PROVE  CompleteAt(b, o + d) /\ (FooterAt(a, o) <=> FooterAt(b, o + d))
    OBVIOUS
  <2>1. len \in 5..DATA_FRAME_MAX_SIZE /\ len = FrameLen(b[o + d + 2])
    BY <1>2, <1>4
  <2>2. len <= Len(a) - o
    BY DEF CompleteAt
  <2> HIDE DEF len
  <2>3. o + len \in 1..Len(a) /\ len <= Len(b) - (o + d)
    <3>1. len \in Nat /\ len >= 5
      BY <2>1, SizeRange, Zenon
    <3>2. Len(a) \in Nat /\ Len(b) \in Nat /\ Len(a) + d <= Len(b)
      BY DEF Window
    <3> QED
      BY <2>2, <3>1, <3>2, FrameEnd
  <2>4. a[o + len] = b[o + d + len]
    <3>1. len \in Nat
      BY <2>1, SizeRange, Zenon
    <3>2. (o + len) + d = o + d + len
      BY <3>1
    <3>3. a[o + len] = b[(o + len) + d]
      BY <2>3 DEF Window
    <3> QED
      BY <3>2, <3>3
  <2> QED
    BY <2>1, <2>3, <2>4 DEF CompleteAt, FooterAt, len
<1>6. SkipAt(a, o) => SkipAt(b, o + d)
  BY <1>1, <1>3, <1>5 DEF SkipAt
<1>7. FrameAt(a, o) => FrameAt(b, o + d)
  BY <1>1, <1>3, <1>5 DEF FrameAt
<1>8. ASSUME FrameAt(a, o)
      PROVE  MetaAt(a, o) = MetaAt(b, o + d)
  <2> DEFINE info == a[o + 2]
             ext == info \div 16 = 14
  <2>1. HeaderAt(a, o) /\ CompleteAt(a, o)
    BY <1>8 DEF FrameAt
  <2>2. info \in Byte /\ info % 16 <= 8
    BY <1>2, <2>1 DEF HeaderAt
  <2>3. PICK dlc \in 0..8 : dlc = info % 16
    <3> HIDE DEF info
    <3> QED
      BY <2>2 DEF Byte
  <2>4. PICK w \in {2, 4} : w = IdLen(ext)
    BY DEF IdLen
  <2>5. ext => w = 4
    BY <2>4 DEF IdLen
  <2>6. o + w + dlc + 3 <= Len(a)
    <3>1. FrameLen(info) <= Len(a) - o
      BY <2>1 DEF CompleteAt
    <3>2. FrameLen(info) = w + dlc + 3
      BY <2>2, <2>3, <2>4, FrameLenRange
    <3> HIDE DEF info
    <3> QED
      BY <3>1, <3>2
  <2>7. ASSUME NEW m \in 1..(Len(a) + 1), NEW n \in 0..Len(a)
        PROVE  SubSeq(a, m, n) = SubSeq(b, m + d, n + d)
    BY SubSeqWindow
  <2> HIDE DEF info
  <2>8. SubSeq(a, o + 2 + w + 1, o + 2 + w + dlc) = SubSeq(b, o + d + 2 + w + 1, o + d + 2 + w + dlc)
    <3>1. /\ o + 2 + w + 1 \in 1..(Len(a) + 1)
          /\ o + 2 + w + dlc \in 0..Len(a)
          /\ (o + 2 + w + 1) + d = o + d + 2 + w + 1
          /\ (o + 2 + w + dlc) + d = o + d + 2 + w + dlc
      BY <2>6
    <3>2. SubSeq(a, o + 2 + w + 1, o + 2 + w + dlc) = SubSeq(b, (o + 2 + w + 1) + d, (o + 2 + w + dlc) + d)
      BY <3>1, <2>7
    <3> QED
      BY <3>1, <3>2
  <2>9. w = 4 => SubSeq(a, o + 3, o + 6) = SubSeq(b, o + d + 3, o + d + 6)
    <3> SUFFICES ASSUME w = 4
                 PROVE  SubSeq(a, o + 3, o + 6) = SubSeq(b, o + d + 3, o + d + 6)
      OBVIOUS
    <3>1. /\ o + 3 \in 1..(Len(a) + 1) /\ o + 6 \in 0..Len(a)
          /\ (o + 3) + d = o + d + 3 /\ (o + 6) + d = o + d + 6
      BY <2>6
    <3>2. SubSeq(a, o + 3, o + 6) = SubSeq(b, (o + 3) + d, (o + 6) + d)
      BY <3>1, <2>7
    <3> QED
      BY <3>1, <3>2
  <2>10. SubSeq(a, o + 3, o + 4) = SubSeq(b, o + d + 3, o + d + 4)
    <3>1. /\ o + 3 \in 1..(Len(a) + 1) /\ o + 4 \in 0..Len(a)
          /\ (o + 3) + d = o + d + 3 /\ (o + 4) + d = o + d + 4
      BY <2>6
    <3>2. SubSeq(a, o + 3, o + 4) = SubSeq(b, (o + 3) + d, (o + 4) + d)
      BY <3>1, <2>7
    <3> QED
      BY <3>1, <3>2
  <2>11. MetaAt(a, o) = [ext |-> ext, dlc |-> dlc,
                         id |-> IF ext THEN SubSeq(a, o + 3, o + 6)
                                       ELSE SubSeq(a, o + 3, o + 4) \o <<0, 0>>,
                         data |-> SubSeq(a, o + 2 + w + 1, o + 2 + w + dlc)]
    BY <2>3, <2>4, Zenon DEF MetaAt, info
  <2>12. MetaAt(b, o + d) = [ext |-> ext, dlc |-> dlc,
                         id |-> IF ext THEN SubSeq(b, o + d + 3, o + d + 6)
                                       ELSE SubSeq(b, o + d + 3, o + d + 4) \o <<0, 0>>,
                         data |-> SubSeq(b, o + d + 2 + w + 1, o + d + 2 + w + dlc)]
    <3>1. info = b[o + d + 2]
      BY <1>2 DEF info
    <3> QED
      BY <3>1, <2>3, <2>4, Zenon DEF MetaAt
  <2>13. CASE ext
    BY <2>5, <2>8, <2>9, <2>11, <2>12, <2>13
  <2>14. CASE ~ext
    BY <2>8, <2>10, <2>11, <2>12, <2>14
  <2> QED
    BY <2>13, <2>14
<1> QED
  BY <1>2, <1>6, <1>7, <1>8

\* The rest of a buffer is a window of it.
LEMMA RestIsWindow ==
  ASSUME NEW buf \in Seq(Byte), NEW c \in 0..Len(buf)
  PROVE  /\ SubSeq(buf, c + 1, Len(buf)) \in Seq(Byte)
         /\ Len(SubSeq(buf, c + 1, Len(buf))) = Len(buf) - c
         /\ Window(SubSeq(buf, c + 1, Len(buf)), buf, c)
<1> DEFINE rest == SubSeq(buf, c + 1, Len(buf))
<1>1. rest \in Seq(Byte) /\ Len(rest) = Len(buf) - c
  OBVIOUS
<1>2. \A i \in 1..Len(rest) : rest[i] = buf[i + c]
  OBVIOUS
<1> QED
  BY <1>1, <1>2 DEF Window

\* The n elements of s after its first k.
LEMMA PartOf ==
  ASSUME NEW s \in Seq(Byte), NEW k \in Nat, NEW n \in Nat, k + n <= Len(s)
  PROVE  /\ SubSeq(s, k + 1, k + n) \in Seq(Byte)
         /\ Len(SubSeq(s, k + 1, k + n)) = n
         /\ \A i \in 1..n : SubSeq(s, k + 1, k + n)[i] = s[k + i]
<1>1. SubSeq(s, k + 1, k + n) \in Seq(Byte) /\ Len(SubSeq(s, k + 1, k + n)) = n
  OBVIOUS
<1>2. \A i \in 1..n : SubSeq(s, k + 1, k + n)[i] = s[k + i]
  OBVIOUS
<1> QED
  BY <1>1, <1>2

\* Each part of a concatenation is a window of it.
LEMMA PartsAreWindows ==
  ASSUME NEW a \in Seq(Byte), NEW b \in Seq(Byte)
  PROVE  /\ a \o b \in Seq(Byte) /\ Len(a \o b) = Len(a) + Len(b)
         /\ Window(a, a \o b, 0)
         /\ Window(b, a \o b, Len(a))
BY DEF Window

\* Once the scan has found nothing and what it consumed is dropped, scanning
\* again finds nothing and consumes nothing.
LEMMA NothingLeft ==
  ASSUME NEW buf \in Seq(Byte), ParseNextFrame(buf).frame = <<>>
  PROVE  LET rest == SubSeq(buf, ParseNextFrame(buf).consumed + 1, Len(buf))
         IN  ParseNextFrame(rest) = [consumed |-> 0, frame |-> <<>>]
<1> DEFINE o == ScanEnd(buf)
           rest == SubSeq(buf, o + 1, Len(buf))
<1>1. o \in 0..Len(buf) /\ ~SkipAt(buf, o)
  BY ScanStops DEF StopsAt
<1>2. ~FrameAt(buf, o)
  BY ParseConsumes
<1>3. ParseNextFrame(buf).consumed = o
  BY <1>2 DEF ParseNextFrame
<1> HIDE DEF o
<1>4. rest \in Seq(Byte) /\ Window(rest, buf, o)
  BY <1>1, RestIsWindow
<1> HIDE DEF rest
<1>5. ~SkipAt(rest, 0) /\ ~FrameAt(rest, 0)
  <2>1. o \in Nat /\ 0 + o = o
    BY <1>1
  <2> QED
    BY <1>1, <1>2, <1>4, <2>1, DecisionsKept
<1>6. ScanEnd(rest) = 0
  <2>1. StopsAt(rest, 0)
    BY <1>5 DEF StopsAt
  <2> QED
    BY <2>1, <1>4, ScanEndIs
<1>7. ParseNextFrame(rest) = [consumed |-> 0, frame |-> <<>>]
  BY <1>5, <1>6 DEF ParseNextFrame
<1> QED
  BY <1>3, <1>7 DEF rest

-----------------------------------------------------------------------------
(* A frame that was built is found and read back.                          *)

LEMMA IdBytesAre ==
  ASSUME NEW ext \in BOOLEAN, NEW id \in IdRange(ext)
  PROVE  /\ IdBytes(ext, id) \in Seq(Byte)
         /\ Len(IdBytes(ext, id)) = IdLen(ext)
<1>1. id \in Nat
  <2>1. StandardId \subseteq Nat /\ ExtendedId \subseteq Nat
    <3>1. EXTENDED_MAX \in Nat
      BY SMT DEF EXTENDED_MAX
    <3> QED
      BY <3>1, SMT DEF StandardId, ExtendedId
  <2>2. IdRange(ext) = ExtendedId \/ IdRange(ext) = StandardId
    BY Zenon DEF IdRange
  <2> QED
    BY <2>1, <2>2
<1> DEFINE high == id \div 256
           top == (high \div 256) \div 256
<1>2. /\ id % 256 \in Byte /\ high % 256 \in Byte
      /\ (high \div 256) % 256 \in Byte /\ top % 256 \in Byte
  BY <1>1, SMT DEF Byte
<1>3. IdBytes(ext, id) = IF ext THEN <<id % 256, high % 256, (high \div 256) % 256, top % 256>>
                                ELSE <<id % 256, high % 256>>
  BY Zenon DEF IdBytes
<1> HIDE DEF high, top
<1>4. CASE ext
  BY <1>2, <1>3, <1>4, SMT DEF IdLen
<1>5. CASE ~ext
  BY <1>2, <1>3, <1>5, SMT DEF IdLen
<1> QED
  BY <1>4, <1>5

\* The bytes of a data frame, one by one.
LEMMA BuiltFrame ==
  ASSUME NEW m \in CanMessage, ~m.rtr
  PROVE  LET bytes == BuildDataFrame(m).bytes
             w == IdLen(m.ext)
         IN  /\ bytes \in Seq(Byte)
             /\ Len(bytes) = w + m.dlc + 3
             /\ bytes[1] = FRAME_START
             /\ bytes[2] = InfoByte(m.ext, m.dlc)
             /\ \A i \in 1..w : bytes[2 + i] = IdBytes(m.ext, m.id)[i]
             /\ \A i \in 1..m.dlc : bytes[2 + w + i] = m.data[i]
             /\ bytes[w + m.dlc + 3] = FRAME_FOOTER
<1>1. /\ m.ext \in BOOLEAN /\ m.id \in IdRange(m.ext)
      /\ m.dlc \in 0..8 /\ m.data \in Seq(Byte) /\ Len(m.data) = m.dlc
  BY DEF CanMessage
<1> DEFINE ids == IdBytes(m.ext, m.id)
           w == IdLen(m.ext)
           info == InfoByte(m.ext, m.dlc)
           head == <<FRAME_START, info>>
           foot == <<FRAME_FOOTER>>
<1>2. ids \in Seq(Byte) /\ Len(ids) = w /\ w \in {2, 4}
  BY <1>1, IdBytesAre DEF IdLen
<1>3. head \in Seq(Byte) /\ Len(head) = 2 /\ head[1] = FRAME_START /\ head[2] = info
  <2>1. info \in Byte
    BY <1>1, InfoByteFields
  <2>2. FRAME_START \in Byte
    BY DEF FRAME_START, Byte
  <2> HIDE DEF info
  <2> QED
    BY <2>1, <2>2
<1>4. foot \in Seq(Byte) /\ Len(foot) = 1 /\ foot[1] = FRAME_FOOTER
  <2>1. FRAME_FOOTER \in Byte
    BY DEF FRAME_FOOTER, Byte
  <2> QED
    BY <2>1
<1>5. BuildDataFrame(m).bytes = head \o ids \o m.data \o foot
  <2>1. ~(Len(m.data) > 8)
    BY <1>1
  <2>2. BuildDataFrame(m).bytes = <<FRAME_START, InfoByte(m.ext, Len(m.data))>> \o ids \o m.data \o foot
    BY <2>1, Zenon DEF BuildDataFrame, BuildDataFrameInto
  <2> QED
    BY <1>1, <2>2, Zenon
<1> HIDE DEF ids, w, info, head, foot
<1> DEFINE front == head \o ids
           body == front \o m.data
<1>6. /\ front \in Seq(Byte) /\ Len(front) = 2 + w
      /\ Window(head, front, 0) /\ Window(ids, front, 2)
  BY <1>2, <1>3, PartsAreWindows
<1> HIDE DEF front
<1>7. /\ body \in Seq(Byte) /\ Len(body) = 2 + w + m.dlc
      /\ Window(front, body, 0) /\ Window(m.data, body, 2 + w)
  BY <1>1, <1>2, <1>6, PartsAreWindows
<1> HIDE DEF body
<1>8. /\ body \o foot \in Seq(Byte) /\ Len(body \o foot) = w + m.dlc + 3
      /\ Window(body, body \o foot, 0) /\ Window(foot, body \o foot, 2 + w + m.dlc)
  <2>1. /\ body \o foot \in Seq(Byte) /\ Len(body \o foot) = Len(body) + 1
        /\ Window(body, body \o foot, 0) /\ Window(foot, body \o foot, Len(body))
    BY <1>4, <1>7, PartsAreWindows
  <2>2. Len(body) = 2 + w + m.dlc /\ Len(body) + 1 = w + m.dlc + 3
    BY <1>1, <1>2, <1>7
  <2> QED
    BY <2>1, <2>2
<1>9. BuildDataFrame(m).bytes = body \o foot
  BY <1>5 DEF body, front
<1> DEFINE bytes == BuildDataFrame(m).bytes
<1> HIDE DEF bytes
<1>10. /\ \A i \in 1..(2 + w + m.dlc) : bytes[i] = body[i]
       /\ \A i \in 1..(2 + w) : body[i] = front[i]
       /\ \A i \in 1..2 : front[i] = head[i]
       /\ \A i \in 1..w : front[2 + i] = ids[i]
       /\ \A i \in 1..m.dlc : body[2 + w + i] = m.data[i]
  <2>1. \A i \in 1..(2 + w + m.dlc) : bytes[i] = body[i]
    BY <1>7, <1>8, <1>9 DEF bytes, Window
  <2>2. \A i \in 1..(2 + w) : body[i] = front[i]
    BY <1>6, <1>7 DEF Window
  <2>3. \A i \in 1..2 : front[i] = head[i]
    <3> TAKE i \in 1..2
    <3>1. head[i] = front[i + 0] /\ i + 0 = i
      BY <1>3, <1>6 DEF Window
    <3> QED
      BY <3>1
  <2>4. \A i \in 1..w : front[2 + i] = ids[i]
    BY <1>2, <1>6 DEF Window
  <2>5. \A i \in 1..m.dlc : body[2 + w + i] = m.data[i]
    <3> TAKE i \in 1..m.dlc
    <3>1. i + (2 + w) = 2 + w + i
      BY <1>2
    <3> QED
      BY <1>1, <1>7, <3>1 DEF Window
  <2> QED
    BY <2>1, <2>2, <2>3, <2>4, <2>5
<1>11. bytes[1] = FRAME_START /\ bytes[2] = info
  <2>1. /\ 1 \in 1..2 /\ 1 \in 1..(2 + w) /\ 1 \in 1..(2 + w + m.dlc)
        /\ 2 \in 1..2 /\ 2 \in 1..(2 + w) /\ 2 \in 1..(2 + w + m.dlc)
    BY <1>1, <1>2
  <2>2. bytes[1] = head[1]
    BY <1>10, <2>1
  <2>3. bytes[2] = head[2]
    BY <1>10, <2>1
  <2> QED
    BY <1>3, <2>2, <2>3
<1>12. \A i \in 1..w : bytes[2 + i] = ids[i]
  BY <1>1, <1>2, <1>10
<1>13. \A i \in 1..m.dlc : bytes[2 + w + i] = m.data[i]
  BY <1>1, <1>2, <1>10
<1>14. bytes \in Seq(Byte) /\ Len(bytes) = w + m.dlc + 3
  BY <1>8, <1>9 DEF bytes
<1>15. bytes[w + m.dlc + 3] = FRAME_FOOTER
  <2>1. foot[1] = bytes[1 + (2 + w + m.dlc)]
    <3>1. 1 \in 1..Len(foot)
      BY <1>4
    <3> QED
      BY <1>8, <1>9, <3>1 DEF bytes, Window
  <2>2. 1 + (2 + w + m.dlc) = w + m.dlc + 3
    BY <1>1, <1>2
  <2> QED
    BY <1>4, <2>1, <2>2
<1> QED
  BY <1>11, <1>12, <1>13, <1>14, <1>15 DEF bytes, w, info, ids

\* The value of four bytes known one by one.
LEMMA FourBytes ==
  ASSUME NEW b, NEW p, NEW q, NEW r, NEW s, NEW v,
         b[1] = p, b[2] = q, b[3] = r, b[4] = s,
         p + 256 * (q + 256 * (r + 256 * s)) = v
  PROVE  FromLittleEndian(b) = v
BY SMT DEF FromLittleEndian

\* Little-endian bytes of an id in range: the range test passes and the bytes
\* add up to the id.
LEMMA ExtendedIdReadBack ==
  ASSUME NEW id \in IdRange(TRUE)
  PROVE  /\ FromLittleEndian(IdBytes(TRUE, id)) = id
         /\ IdBytes(TRUE, id)[4] <= 31
<1>1. id \in Nat /\ id <= EXTENDED_MAX
  <2>1. EXTENDED_MAX \in Nat
    BY SMT DEF EXTENDED_MAX
  <2>2. id \in ExtendedId
    BY Zenon DEF IdRange
  <2> QED
    BY <2>1, <2>2, SMT DEF ExtendedId
<1> DEFINE b == IdBytes(TRUE, id)
           high == id \div 256
           top == (high \div 256) \div 256
<1>2. b = <<id % 256, high % 256, (high \div 256) % 256, top % 256>>
  BY Zenon DEF IdBytes
<1>3. top % 256 <= 31
  BY <1>1, SMT DEF EXTENDED_MAX
<1>4. (id % 256) + 256 * ((high % 256) + 256 * (((high \div 256) % 256) + 256 * (top % 256))) = id
  BY <1>1, SMT DEF EXTENDED_MAX
<1> HIDE DEF b, high, top
<1>5. b[1] = id % 256 /\ b[2] = high % 256 /\ b[3] = (high \div 256) % 256 /\ b[4] = top % 256
  BY <1>2, SMT
<1>6. FromLittleEndian(b) = id
  BY <1>4, <1>5, FourBytes, SMT
<1>7. b[4] <= 31
  BY <1>3, <1>5, SMT
<1> QED
  BY <1>6, <1>7, Zenon DEF b

LEMMA PaddedId ==
  ASSUME NEW x \in Nat, NEW y \in Nat
  PROVE  LET b == <<x, y>> \o <<0, 0>>
         IN  b[1] = x /\ b[2] = y /\ b[3] = 0 /\ b[4] = 0
OBVIOUS

LEMMA StandardIdReadBack ==
  ASSUME NEW id \in IdRange(FALSE)
  PROVE  LET b == IdBytes(FALSE, id) \o <<0, 0>>
         IN  /\ FromLittleEndian(b) = id
             /\ b[2] <= 7 /\ b[3] = 0 /\ b[4] = 0
<1>1. id \in Nat /\ id <= 2047
  <2>1. id \in StandardId
    BY Zenon DEF IdRange
  <2> QED
    BY <2>1, SMT DEF StandardId
<1> DEFINE b == IdBytes(FALSE, id) \o <<0, 0>>
           high == id \div 256
<1>2. IdBytes(FALSE, id) = <<id % 256, high % 256>>
  BY Zenon DEF IdBytes
<1>3. high % 256 <= 7 /\ high % 256 \in Nat /\ id % 256 \in Nat
  BY <1>1, SMT
<1>4. (id % 256) + 256 * ((high % 256) + 256 * (0 + 256 * 0)) = id
  BY <1>1, SMT
<1>5. b[1] = id % 256 /\ b[2] = high % 256 /\ b[3] = 0 /\ b[4] = 0
  <2> DEFINE x == id % 256
             y == high % 256
  <2>1. x \in Nat /\ y \in Nat /\ b = <<x, y>> \o <<0, 0>>
    BY <1>2, <1>3
  <2> HIDE DEF x, y, b
  <2>2. b[1] = x /\ b[2] = y /\ b[3] = 0 /\ b[4] = 0
    BY <2>1, PaddedId, Zenon
  <2> QED
    BY <2>2 DEF x, y
<1> HIDE DEF b
<1>6. FromLittleEndian(b) = id
  BY <1>4, <1>5, FourBytes, SMT
<1>7. b[2] <= 7 /\ b[3] = 0 /\ b[4] = 0
  BY <1>3, <1>5, SMT
<1> QED
  BY <1>6, <1>7, Zenon DEF b

\* The scanner takes the bytes of a built frame for one whole frame, and reads
\* the message in it back.
LEMMA BuiltFrameRead ==
  ASSUME NEW m \in CanMessage, ~m.rtr
  PROVE  LET bytes == BuildDataFrame(m).bytes
         IN  /\ bytes \in Seq(Byte)
             /\ FrameAt(bytes, 0)
             /\ FrameLen(bytes[2]) = Len(bytes)
             /\ ParsedToMessage(MetaAt(bytes, 0)) = <<m>>
<1> DEFINE bytes == BuildDataFrame(m).bytes
           w == IdLen(m.ext)
           info == bytes[2]
<1>1. /\ m.ext \in BOOLEAN /\ m.id \in IdRange(m.ext)
      /\ m.dlc \in 0..8 /\ m.data \in Seq(Byte) /\ Len(m.data) = m.dlc
      /\ m = [ext |-> m.ext, id |-> m.id, rtr |-> FALSE, dlc |-> m.dlc, data |-> m.data]
  BY DEF CanMessage
<1>2. /\ bytes \in Seq(Byte)
      /\ Len(bytes) = w + m.dlc + 3
      /\ bytes[1] = FRAME_START
      /\ bytes[2] = InfoByte(m.ext, m.dlc)
      /\ \A i \in 1..w : bytes[2 + i] = IdBytes(m.ext, m.id)[i]
      /\ \A i \in 1..m.dlc : bytes[2 + w + i] = m.data[i]
      /\ bytes[w + m.dlc + 3] = FRAME_FOOTER
  BY BuiltFrame, Zenon
<1> HIDE DEF bytes
<1>3. info \in Byte /\ info % 16 = m.dlc /\ info \div 16 = IF m.ext THEN 14 ELSE 12
  BY <1>1, <1>2, InfoByteFields
<1>4. w \in {2, 4} /\ w = IF m.ext THEN 4 ELSE 2
  BY <1>1 DEF IdLen
<1>5. (info \div 16 = 14) = m.ext
  BY <1>1, <1>3
<1>6. FrameLen(info) = Len(bytes)
  <2>1. FrameLen(info) = 2 + w + m.dlc + 1
    BY <1>1, <1>3, <1>4 DEF FrameLen
  <2> QED
    BY <1>1, <1>2, <1>4, <2>1
<1>7. FrameAt(bytes, 0)
  <2>1. bytes[0 + 1] = FRAME_START /\ bytes[0 + 2] = info
    BY <1>2
  <2>2. Len(bytes) - 0 = Len(bytes) /\ Len(bytes) >= 5 /\ 0 + FrameLen(info) = w + m.dlc + 3
    BY <1>1, <1>2, <1>4, <1>6
  <2>3. HeaderAt(bytes, 0)
    BY <1>1, <1>3, <2>1 DEF HeaderAt
  <2>4. CompleteAt(bytes, 0)
    BY <1>2, <1>6, <2>1, <2>2 DEF CompleteAt
  <2>5. FooterAt(bytes, 0)
    BY <1>2, <2>1, <2>2 DEF FooterAt
  <2> QED
    BY <2>2, <2>3, <2>4, <2>5 DEF FrameAt, MIN_FRAME_SIZE
<1>8. SubSeq(bytes, 3, 2 + w) = IdBytes(m.ext, m.id)
  <2>1. IdBytes(m.ext, m.id) \in Seq(Byte) /\ Len(IdBytes(m.ext, m.id)) = w
    BY <1>1, IdBytesAre
  <2>2. w \in Nat /\ 2 + w <= Len(bytes) /\ 2 + 1 = 3
    BY <1>1, <1>2, <1>4
  <2>3. /\ SubSeq(bytes, 3, 2 + w) \in Seq(Byte)
        /\ Len(SubSeq(bytes, 3, 2 + w)) = w
        /\ \A i \in 1..w : SubSeq(bytes, 3, 2 + w)[i] = bytes[2 + i]
    BY <1>2, <2>2, PartOf
  <2>4. \A i \in 1..w : SubSeq(bytes, 3, 2 + w)[i] = IdBytes(m.ext, m.id)[i]
    BY <1>2, <2>3
  <2> QED
    BY <2>1, <2>3, <2>4, SeqEqual
<1>9. SubSeq(bytes, 2 + w + 1, 2 + w + m.dlc) = m.data
  <2>1. 2 + w \in Nat /\ m.dlc \in Nat /\ (2 + w) + m.dlc <= Len(bytes)
    BY <1>1, <1>2, <1>4
  <2>2. /\ SubSeq(bytes, 2 + w + 1, 2 + w + m.dlc) \in Seq(Byte)
        /\ Len(SubSeq(bytes, 2 + w + 1, 2 + w + m.dlc)) = m.dlc
        /\ \A i \in 1..m.dlc : SubSeq(bytes, 2 + w + 1, 2 + w + m.dlc)[i] = bytes[2 + w + i]
    BY <1>2, <2>1, PartOf
  <2>3. \A i \in 1..m.dlc : SubSeq(bytes, 2 + w + 1, 2 + w + m.dlc)[i] = m.data[i]
    BY <1>2, <2>2
  <2> QED
    BY <1>1, <2>2, <2>3, SeqEqual
<1> DEFINE ids == IF m.ext THEN IdBytes(m.ext, m.id) ELSE IdBytes(m.ext, m.id) \o <<0, 0>>
<1>10. MetaAt(bytes, 0) = [ext |-> m.ext, dlc |-> m.dlc, id |-> ids, data |-> m.data]
  <2>1. /\ bytes[0 + 2] = info /\ 0 + 3 = 3 /\ 0 + 6 = 6 /\ 0 + 4 = 4 /\ 0 + 2 + w = 2 + w
        /\ m.ext => 6 = 2 + w
        /\ ~m.ext => 4 = 2 + w
    BY <1>4
  <2>2. MetaAt(bytes, 0) = [ext |-> m.ext, dlc |-> m.dlc,
                            id |-> IF m.ext THEN SubSeq(bytes, 3, 6) ELSE SubSeq(bytes, 3, 4) \o <<0, 0>>,
                            data |-> SubSeq(bytes, 2 + w + 1, 2 + w + m.dlc)]
    BY <1>3, <1>5, <2>1, Zenon DEF MetaAt
  <2>3. (IF m.ext THEN SubSeq(bytes, 3, 6) ELSE SubSeq(bytes, 3, 4) \o <<0, 0>>) = ids
    BY <1>8, <2>1, Zenon
  <2> QED
    BY <1>9, <2>2, <2>3, Zenon
<1>11. FromLittleEndian(ids) = m.id /\ IdValid(MetaAt(bytes, 0))
  <2>1. MetaAt(bytes, 0).ext = m.ext /\ MetaAt(bytes, 0).id = ids
    <3> HIDE DEF ids
    <3> QED
      BY <1>10
  <2>2. CASE m.ext
    <3>1. m.ext = TRUE /\ ids = IdBytes(TRUE, m.id) /\ m.id \in IdRange(TRUE)
      BY <1>1, <2>2
    <3>2. FromLittleEndian(ids) = m.id /\ ids[4] <= 31
      BY <3>1, ExtendedIdReadBack, Zenon
    <3> QED
      BY <2>1, <2>2, <3>2, Zenon DEF IdValid
  <2>3. CASE ~m.ext
    <3>1. m.ext = FALSE /\ ids = IdBytes(FALSE, m.id) \o <<0, 0>> /\ m.id \in IdRange(FALSE)
      BY <1>1, <2>3
    <3>2. FromLittleEndian(ids) = m.id /\ ids[2] <= 7 /\ ids[3] = 0 /\ ids[4] = 0
      BY <3>1, StandardIdReadBack, Zenon
    <3> QED
      BY <2>1, <2>3, <3>2, Zenon DEF IdValid
  <2> QED
    BY <2>2, <2>3
<1>12. ParsedToMessage(MetaAt(bytes, 0)) = <<m>>
  <2> HIDE DEF ids
  <2>1. MetaAt(bytes, 0).ext = m.ext /\ MetaAt(bytes, 0).id = ids /\ MetaAt(bytes, 0).data = m.data
    BY <1>10
  <2>2. ParsedToMessage(MetaAt(bytes, 0)) = NewData(m.ext, m.id, m.data)
    BY <1>11, <2>1, Zenon DEF ParsedToMessage
  <2>3. ~(Len(m.data) > 8)
    BY <1>1
  <2>4. NewData(m.ext, m.id, m.data)
          = <<[ext |-> m.ext, id |-> m.id, rtr |-> FALSE, dlc |-> Len(m.data), data |-> m.data]>>
    BY <2>3, Zenon DEF NewData
  <2> QED
    BY <1>1, <2>2, <2>4, Zenon
<1> QED
  BY <1>2, <1>6, <1>7, <1>12 DEF bytes

\* In a buffer, a built frame behind bytes that hold no start byte is what the
\* next call finds, whatever follows it.
LEMMA BuiltFrameFound ==
  ASSUME NEW m \in CanMessage, ~m.rtr,
         NEW before \in Seq(Byte \ {FRAME_START}), NEW after \in Seq(Byte)
  PROVE  LET bytes == BuildDataFrame(m).bytes
             p == ParseNextFrame(before \o bytes \o after)
         IN  /\ p.consumed = Len(before) + Len(bytes)
             /\ p.frame # <<>>
             /\ ParsedToMessage(p.frame[1]) = <<m>>
<1> DEFINE bytes == BuildDataFrame(m).bytes
           front == before \o bytes
           buf == front \o after
           o == Len(before)
<1>1. /\ bytes \in Seq(Byte)
      /\ FrameAt(bytes, 0)
      /\ FrameLen(bytes[2]) = Len(bytes)
      /\ ParsedToMessage(MetaAt(bytes, 0)) = <<m>>
  BY BuiltFrameRead, Zenon
<1> HIDE DEF bytes
<1>2. before \in Seq(Byte)
  BY SeqMonotonic
<1>3. front \in Seq(Byte) /\ Window(before, front, 0) /\ Window(bytes, front, o)
  BY <1>1, <1>2, PartsAreWindows
<1> HIDE DEF front
<1>4. buf \in Seq(Byte) /\ Window(front, buf, 0)
  BY <1>3, PartsAreWindows
<1>5. o \in Nat /\ Len(bytes) \in Nat /\ 0 + o = o
  BY <1>1, <1>2
<1>6. Window(bytes, buf, o)
  BY <1>3, <1>4, <1>5 DEF Window
<1> HIDE DEF buf, o
<1>7. \A p \in 0..(o - 1) : SkipAt(buf, p)
  <2> TAKE p \in 0..(o - 1)
  <2>1. buf[p + 1] = before[p + 1]
    BY <1>3, <1>4, <1>5 DEF Window, o
  <2>2. before[p + 1] # FRAME_START
    BY <1>5 DEF o
  <2>3. Len(buf) - p >= MIN_FRAME_SIZE
    <3>1. Len(bytes) >= 5
      BY <1>1 DEF FrameAt, MIN_FRAME_SIZE
    <3> QED
      BY <1>4, <1>5, <1>6, <3>1 DEF Window, MIN_FRAME_SIZE
  <2> QED
    BY <2>1, <2>2, <2>3 DEF SkipAt, HeaderAt
<1>8. FrameAt(buf, o) /\ MetaAt(buf, o) = MetaAt(bytes, 0) /\ buf[o + 2] = bytes[2]
  <2>1. /\ FrameAt(buf, 0 + o) /\ MetaAt(bytes, 0) = MetaAt(buf, 0 + o)
        /\ bytes[0 + 2] = buf[0 + o + 2]
    BY <1>1, <1>4, <1>5, <1>6, DecisionsKept
  <2> QED
    BY <1>5, <2>1
<1>9. ScanEnd(buf) = o
  <2>1. StopsAt(buf, o)
    BY <1>7, <1>8 DEF StopsAt, FrameAt, SkipAt
  <2> QED
    BY <1>4, <1>5, <2>1, ScanEndIs
<1>10. ParseNextFrame(buf) = [consumed |-> o + Len(bytes), frame |-> <<MetaAt(bytes, 0)>>]
  BY <1>1, <1>8, <1>9 DEF ParseNextFrame
<1> QED
  BY <1>1, <1>10 DEF bytes, front, buf, o

-----------------------------------------------------------------------------
(* Types.                                                                  *)

\* build_data_frame does not look at the kind of the frame: a remote frame
\* becomes the bytes of the data frame with its id and no data.
LEMMA RemoteAsEmptyData ==
  ASSUME NEW m \in CanMessage, m.rtr
  PROVE  \E d \in CanMessage : ~d.rtr /\ BuildDataFrame(m) = BuildDataFrame(d)
<1> DEFINE d == [ext |-> m.ext, id |-> m.id, rtr |-> FALSE, dlc |-> 0, data |-> <<>>]
<1>1. m.ext \in BOOLEAN /\ m.id \in Nat /\ m.id \in IdRange(m.ext) /\ m.data = <<>>
  BY DEF CanMessage
<1>2. d \in CanMessage /\ ~d.rtr
  BY <1>1 DEF CanMessage
<1>3. BuildDataFrame(m) = BuildDataFrame(d)
  <2>1. d.ext = m.ext /\ d.id = m.id /\ d.data = m.data
    BY <1>1
  <2> HIDE DEF d
  <2> QED
    BY <2>1, Zenon DEF BuildDataFrame
<1> QED
  BY <1>2, <1>3

LEMMA BuildType ==
  ASSUME NEW m \in CanMessage
  PROVE  BuildDataFrame(m).bytes \in Seq(Byte)
<1>1. CASE ~m.rtr
  BY <1>1, BuiltFrame, Zenon
<1>2. CASE m.rtr
  <2>1. PICK d \in CanMessage : ~d.rtr /\ BuildDataFrame(m) = BuildDataFrame(d)
    BY <1>2, RemoteAsEmptyData
  <2>2. BuildDataFrame(d).bytes \in Seq(Byte)
    BY <2>1, BuiltFrame, Zenon
  <2> QED
    BY <2>1, <2>2, Zenon
<1> QED
  BY <1>1, <1>2

LEMMA LittleEndianRange ==
  ASSUME NEW b, b[1] \in 0..255, b[2] \in 0..255, b[3] \in 0..255, b[4] \in 0..255
  PROVE  /\ b[4] <= 31 => FromLittleEndian(b) \in ExtendedId
         /\ b[2] <= 7 /\ b[3] = 0 /\ b[4] = 0 => FromLittleEndian(b) \in StandardId
<1> DEFINE n == FromLittleEndian(b)
<1>1. PICK b1 \in 0..255, b2 \in 0..255, b3 \in 0..255, b4 \in 0..255 :
        b[1] = b1 /\ b[2] = b2 /\ b[3] = b3 /\ b[4] = b4
  OBVIOUS
<1>2. n = b1 + 256 * (b2 + 256 * (b3 + 256 * b4))
  BY <1>1, FourBytes, SMT
<1>3. n \in Nat /\ EXTENDED_MAX \in Nat
  BY <1>2, SMT DEF EXTENDED_MAX
<1>4. b4 <= 31 => n <= EXTENDED_MAX
  BY <1>2, SMT DEF EXTENDED_MAX
<1>5. b2 <= 7 /\ b3 = 0 /\ b4 = 0 => n <= 2047
  BY <1>2, SMT
<1> HIDE DEF n
<1>6. b4 <= 31 => n \in ExtendedId
  BY <1>3, <1>4, SMT DEF ExtendedId
<1>7. b2 <= 7 /\ b3 = 0 /\ b4 = 0 => n \in StandardId
  BY <1>3, <1>5, SMT DEF StandardId
<1> QED
  BY <1>1, <1>6, <1>7, Zenon DEF n

\* What parsed_to_message makes of a frame is a message or nothing.
LEMMA ParsedType ==
  ASSUME NEW buf \in Seq(Byte), NEW o \in 0..Len(buf), FrameAt(buf, o)
  PROVE  ParsedToMessage(MetaAt(buf, o)) \in Seq(CanMessage)
<1> DEFINE meta == MetaAt(buf, o)
           info == buf[o + 2]
           ext == info \div 16 = 14
<1>1. /\ info \in Byte /\ info % 16 <= 8
      /\ o + FrameLen(info) <= Len(buf)
  BY FrameAtRange
<1>2. PICK dlc \in 0..8 : dlc = info % 16
  <2> HIDE DEF info
  <2> QED
    BY <1>1 DEF Byte
<1>3. PICK w \in {2, 4} : w = IdLen(ext)
  BY DEF IdLen
<1>4. o + w + dlc + 3 <= Len(buf) /\ (ext => w = 4)
  <2>1. FrameLen(info) = w + dlc + 3
    BY <1>1, <1>2, <1>3, FrameLenRange
  <2>2. ext => w = 4
    BY <1>3 DEF IdLen
  <2> HIDE DEF info
  <2> QED
    BY <1>1, <2>1, <2>2
<1> DEFINE data == SubSeq(buf, o + 2 + w + 1, o + 2 + w + dlc)
           id == IF ext THEN SubSeq(buf, o + 3, o + 6) ELSE SubSeq(buf, o + 3, o + 4) \o <<0, 0>>
<1>5. meta = [ext |-> ext, dlc |-> dlc, id |-> id, data |-> data]
  BY <1>2, <1>3, Zenon DEF MetaAt
<1>6. data \in Seq(Byte) /\ Len(data) = dlc
  BY <1>4
<1>7. id[1] \in Byte /\ id[2] \in Byte /\ id[3] \in Byte /\ id[4] \in Byte
  <2>1. CASE ext
    <3>1. SubSeq(buf, o + 3, o + 6) \in Seq(Byte) /\ Len(SubSeq(buf, o + 3, o + 6)) = 4
      BY <1>4, <2>1
    <3>2. id = SubSeq(buf, o + 3, o + 6)
      BY <2>1
    <3> HIDE DEF id
    <3> QED
      BY <3>1, <3>2
  <2>2. CASE ~ext
    <3>1. SubSeq(buf, o + 3, o + 4) \in Seq(Byte) /\ Len(SubSeq(buf, o + 3, o + 4)) = 2
      BY <1>4
    <3>2. <<0, 0>> \in Seq(Byte) /\ Len(<<0, 0>>) = 2
      BY DEF Byte
    <3>3. id = SubSeq(buf, o + 3, o + 4) \o <<0, 0>>
      BY <2>2
    <3> HIDE DEF id
    <3> QED
      BY <3>1, <3>2, <3>3
  <2> QED
    BY <2>1, <2>2
<1> HIDE DEF data, id, meta
<1>8. meta.ext = ext /\ meta.id = id /\ meta.data = data
  BY <1>5
<1>9. ASSUME IdValid(meta)
      PROVE  FromLittleEndian(id) \in IdRange(ext)
  <2>1. /\ id[1] \in 0..255 /\ id[2] \in 0..255 /\ id[3] \in 0..255 /\ id[4] \in 0..255
    BY <1>7 DEF Byte
  <2>3. CASE ext
    <3>1. id[4] <= 31
      BY <1>8, <1>9, <2>3, Zenon DEF IdValid
    <3>2. FromLittleEndian(id) \in ExtendedId
      BY <2>1, <3>1, LittleEndianRange, Zenon
    <3> QED
      BY <2>3, <3>2, Zenon DEF IdRange
  <2>4. CASE ~ext
    <3>1. id[2] <= 7 /\ id[3] = 0 /\ id[4] = 0
      BY <1>8, <1>9, <2>4, Zenon DEF IdValid
    <3>2. FromLittleEndian(id) \in StandardId
      BY <2>1, <3>1, LittleEndianRange, Zenon
    <3> QED
      BY <2>4, <3>2, Zenon DEF IdRange
  <2> QED
    BY <2>3, <2>4
<1>10. CASE IdValid(meta)
  <2> DEFINE n == FromLittleEndian(id)
             m == [ext |-> ext, id |-> n, rtr |-> FALSE, dlc |-> Len(data), data |-> data]
  <2>1. ParsedToMessage(meta) = NewData(ext, n, data)
    BY <1>8, <1>10, Zenon DEF ParsedToMessage
  <2>2. NewData(ext, n, data) = <<m>>
    <3>1. ~(Len(data) > 8)
      BY <1>6
    <3> QED
      BY <3>1, Zenon DEF NewData
  <2>3. n \in IdRange(ext) /\ n \in Nat
    <3>1. n \in IdRange(ext)
      BY <1>9, <1>10
    <3>2. IdRange(ext) \subseteq Nat
      <4>1. EXTENDED_MAX \in Nat
        BY SMT DEF EXTENDED_MAX
      <4>2. StandardId \subseteq Nat /\ ExtendedId \subseteq Nat
        BY <4>1, SMT DEF StandardId, ExtendedId
      <4>3. IdRange(ext) = ExtendedId \/ IdRange(ext) = StandardId
        BY Zenon DEF IdRange
      <4> QED
        BY <4>2, <4>3
    <3> QED
      BY <3>1, <3>2
  <2> HIDE DEF n
  <2>4. m \in CanMessage
    <3>1. ext \in BOOLEAN
      OBVIOUS
    <3> HIDE DEF ext
    <3> QED
      BY <1>6, <2>3, <3>1 DEF CanMessage
  <2> HIDE DEF m
  <2>5. <<m>> \in Seq(CanMessage)
    BY <2>4
  <2> QED
    BY <2>1, <2>2, <2>5, Zenon DEF meta
<1>11. CASE ~IdValid(meta)
  <2>1. ParsedToMessage(meta) = <<>>
    BY <1>11, Zenon DEF ParsedToMessage
  <2> QED
    BY <2>1 DEF meta
<1> QED
  BY <1>10, <1>11

-----------------------------------------------------------------------------
(* Windows of windows.                                                     *)

LEMMA WindowOfWindow ==
  ASSUME NEW a \in Seq(Byte), NEW b \in Seq(Byte), NEW c \in Seq(Byte),
         NEW d \in Nat, NEW e \in Nat, Window(a, b, d), Window(b, c, e)
  PROVE  Window(a, c, d + e)
<1>1. Len(a) + d <= Len(b) /\ Len(b) + e <= Len(c) /\ Len(a) \in Nat
  BY DEF Window
<1>2. ASSUME NEW i \in 1..Len(a)
      PROVE  a[i] = c[i + (d + e)]
  <2>1. i + d \in 1..Len(b) /\ (i + d) + e = i + (d + e)
    BY <1>1
  <2>2. a[i] = b[i + d]
    BY DEF Window
  <2>3. b[i + d] = c[(i + d) + e]
    BY <2>1 DEF Window
  <2> QED
    BY <2>1, <2>2, <2>3
<1>3. Len(a) + (d + e) <= Len(c)
  BY <1>1
<1> QED
  BY <1>2, <1>3 DEF Window

LEMMA AdjacentWindows ==
  ASSUME NEW a \in Seq(Byte), NEW b \in Seq(Byte), NEW c \in Seq(Byte),
         NEW d \in Nat, Window(a, c, d), Window(b, c, d + Len(a))
  PROVE  Window(a \o b, c, d)
<1> DEFINE ab == a \o b
<1>1. /\ Len(ab) = Len(a) + Len(b)
      /\ Window(a, ab, 0) /\ Window(b, ab, Len(a))
  BY PartsAreWindows
<1>2. Len(a) \in Nat /\ Len(b) \in Nat
  OBVIOUS
<1> HIDE DEF ab
<1>3. Len(ab) + d <= Len(c)
  BY <1>1, <1>2 DEF Window
<1>4. ASSUME NEW i \in 1..Len(ab)
      PROVE  ab[i] = c[i + d]
  <2>1. CASE i <= Len(a)
    BY <1>1, <1>2, <2>1 DEF Window
  <2>2. CASE i > Len(a)
    <3>1. PICK j \in 1..Len(b) : i = j + Len(a)
      <4>1. i - Len(a) \in 1..Len(b) /\ i = (i - Len(a)) + Len(a)
        BY <1>1, <1>2, <2>2
      <4> QED
        BY <4>1
    <3>2. ab[j + Len(a)] = b[j]
      BY <1>1 DEF Window
    <3>3. b[j] = c[j + (d + Len(a))]
      BY DEF Window
    <3>4. j + (d + Len(a)) = i + d
      BY <1>2, <3>1
    <3> QED
      BY <3>1, <3>2, <3>3, <3>4
  <2> QED
    BY <1>1, <1>2, <2>1, <2>2
<1> QED
  BY <1>3, <1>4 DEF Window, ab

-----------------------------------------------------------------------------
(* The frame of a message.                                                 *)

Bytes(m) == BuildDataFrame(m).bytes
Size(m) == Len(Bytes(m))

\* It is found and read back, and has at least five bytes.
LEMMA MessageFrame ==
  ASSUME NEW m \in CanMessage, ~m.rtr
  PROVE  /\ Bytes(m) \in Seq(Byte) /\ Size(m) \in Nat /\ Size(m) >= 5 /\ Size(m) <= 15
         /\ FrameAt(Bytes(m), 0) /\ FrameLen(Bytes(m)[2]) = Size(m) /\ Bytes(m)[1] = FRAME_START
         /\ ParsedToMessage(MetaAt(Bytes(m), 0)) = <<m>>
<1>1. /\ Bytes(m) \in Seq(Byte) /\ FrameAt(Bytes(m), 0) /\ FrameLen(Bytes(m)[2]) = Size(m)
      /\ ParsedToMessage(MetaAt(Bytes(m), 0)) = <<m>>
  BY BuiltFrameRead DEF Bytes, Size
<1> DEFINE b == Bytes(m)
<1> HIDE DEF b
<1>2. b \in Seq(Byte) /\ FrameAt(b, 0) /\ FrameLen(b[2]) = Size(m)
  BY <1>1 DEF b
<1>3. FrameLen(b[2]) \in 5..DATA_FRAME_MAX_SIZE
  <2>1. 0 \in 0..Len(b) /\ 0 + 2 = 2
    BY <1>2
  <2> QED
    BY <1>2, <2>1, FrameAtRange
<1>4. Size(m) \in Nat /\ Size(m) >= 5 /\ Size(m) <= 15
  BY <1>2, <1>3 DEF DATA_FRAME_MAX_SIZE
<1>5. b[1] = FRAME_START
  BY <1>2 DEF FrameAt, HeaderAt
<1> QED
  BY <1>1, <1>4, <1>5 DEF b
=============================================================================
