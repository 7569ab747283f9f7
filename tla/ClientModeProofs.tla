-------------------------- MODULE ClientModeProofs --------------------------
(***************************************************************************)
(* For every Config, the settings frame says what the Config does; and for *)
(* every client, that frame is the first thing on the wire, whole, before  *)
(* any write.  Behind it, the protocol's scanner reads the messages that   *)
(* were written, all of them while no write was torn and all but three of  *)
(* those behind the last torn write.                                       *)
(*                                                                         *)
(* The scan and the sum of bytes are recursive functions.  That a function *)
(* with such equations exists, and what its values are, follows from the   *)
(* least place where it would fail (LeastMember).                          *)
(***************************************************************************)
EXTENDS ClientMode, WaveshareWireProofs

-----------------------------------------------------------------------------
(* The settings frame.                                                     *)

\* try_from takes what as_bps gives back to the speed it came from, and refuses
\* every other rate.
THEOREM SpeedsReadBack ==
  /\ \A s \in CanSpeed : SpeedFromBps(AsBps(s)) = {s}
  /\ \A v : SpeedFromBps(v) # {} => \E s \in CanSpeed : v = AsBps(s)
<1>1. ASSUME NEW s \in CanSpeed PROVE SpeedFromBps(AsBps(s)) = {s}
  <2>1. \A arm \in SpeedArms : arm[1] = AsBps(s) <=> arm[2] = s
    BY SMT DEF CanSpeed, SpeedArms, AsBps, Bps
  <2>2. \E arm \in SpeedArms : arm[2] = s
    BY SMT DEF CanSpeed, SpeedArms
  <2> QED
    BY <2>1, <2>2, SMT DEF SpeedFromBps
<1>2. ASSUME NEW arm \in SpeedArms PROVE arm[2] \in CanSpeed /\ arm[1] = AsBps(arm[2])
  BY SMT DEF CanSpeed, SpeedArms, AsBps, Bps
<1> QED
  BY <1>1, <1>2 DEF SpeedFromBps

\* The two bytes of a half of a word.
LEMMA HalfBytes ==
  ASSUME NEW x \in Half
  PROVE  x % 256 \in Byte /\ x \div 256 \in Byte /\ (x % 256) + 256 * (x \div 256) = x
<1>1. x \in Nat /\ x <= 65535
  <2>1. HALF_MAX \in Nat
    BY SMT DEF HALF_MAX
  <2>2. x \in Nat /\ x <= HALF_MAX
    BY <2>1, SMT DEF Half
  <2> QED
    BY <2>2, SMT DEF HALF_MAX
<1>2. x % 256 \in Byte
  BY <1>1, SMT DEF Byte
<1>3. x \div 256 \in Byte
  BY <1>1, SMT DEF Byte
<1>4. (x % 256) + 256 * (x \div 256) = x
  BY <1>1, SMT
<1> QED
  BY <1>2, <1>3, <1>4, Zenon

\* A word, cut into its bytes and put together again.
LEMMA WordReadBack ==
  ASSUME NEW w \in Word
  PROVE  /\ WordBytes(w) \in Seq(Byte) /\ Len(WordBytes(w)) = 4
         /\ WordOf(WordBytes(w)) = w
<1>1. PICK h \in Half, l \in Half : w = [high |-> h, low |-> l]
  <2>1. w \in [high : Half, low : Half]
    BY DEF Word
  <2>2. w.high \in Half /\ w.low \in Half /\ w = [high |-> w.high, low |-> w.low]
    BY <2>1, SMT
  <2> QED
    BY <2>2, Zenon
<1>2. /\ h % 256 \in Byte /\ h \div 256 \in Byte /\ (h % 256) + 256 * (h \div 256) = h
      /\ l % 256 \in Byte /\ l \div 256 \in Byte /\ (l % 256) + 256 * (l \div 256) = l
  BY HalfBytes, SMT
<1> DEFINE b == WordBytes(w)
<1>3. b = <<l % 256, l \div 256, h % 256, h \div 256>>
  BY <1>1 DEF WordBytes
<1>4. b \in Seq(Byte) /\ Len(b) = 4
  BY <1>2, <1>3
<1>5. b[1] = l % 256 /\ b[2] = l \div 256 /\ b[3] = h % 256 /\ b[4] = h \div 256
  BY <1>3
<1> HIDE DEF b
<1>6. b[3] + 256 * b[4] = h /\ b[1] + 256 * b[2] = l
  BY <1>2, <1>5, SMT
<1>7. WordOf(b) = w
  BY <1>1, <1>6, SMT DEF WordOf
<1> QED
  BY <1>4, <1>7, SMT DEF b

\* What a concatenation holds.
LEMMA Parts ==
  ASSUME NEW a \in Seq(Byte), NEW b \in Seq(Byte)
  PROVE  /\ a \o b \in Seq(Byte) /\ Len(a \o b) = Len(a) + Len(b)
         /\ \A i \in 1..Len(a) : (a \o b)[i] = a[i]
         /\ \A i \in 1..Len(b) : (a \o b)[Len(a) + i] = b[i]
OBVIOUS

\* The bytes of the frame before its checksum is put in, one by one.
LEMMA UnsignedBytes ==
  ASSUME NEW c \in Config
  PROVE  LET f == Unsigned(c)
         IN  /\ f \in Seq(Byte) /\ Len(f) = 20
             /\ f[1] = FRAME_START /\ f[2] = CMD_FRAME_MARKER /\ f[3] = CMD_TYPE
             /\ f[4] = c.speed /\ f[5] = IF c.extended THEN 2 ELSE 1
             /\ \A i \in 1..4 : f[5 + i] = WordBytes(c.filter)[i]
             /\ \A i \in 1..4 : f[9 + i] = WordBytes(c.mask)[i]
             /\ f[14] = c.mode
             /\ f[15] = IF c.retransmit THEN 0 ELSE 1
<1> DEFINE head == <<FRAME_START, CMD_FRAME_MARKER, CMD_TYPE, c.speed, IF c.extended THEN 2 ELSE 1>>
           filter == WordBytes(c.filter)
           mask == WordBytes(c.mask)
           end == <<c.mode, IF c.retransmit THEN 0 ELSE 1, 0, 0, 0, 0, 0>>
<1>1. /\ c.speed \in 1..12 /\ c.mode \in 0..3
      /\ c.extended \in BOOLEAN /\ c.retransmit \in BOOLEAN
      /\ c.filter \in Word /\ c.mask \in Word
  BY DEF Config, CanSpeed, CanMode
<1>2. head \in Seq(Byte) /\ Len(head) = 5
  BY <1>1 DEF Byte, FRAME_START, CMD_FRAME_MARKER, CMD_TYPE
<1>3. end \in Seq(Byte) /\ Len(end) = 7
  BY <1>1 DEF Byte
<1>4. /\ filter \in Seq(Byte) /\ Len(filter) = 4
      /\ mask \in Seq(Byte) /\ Len(mask) = 4
  BY <1>1, WordReadBack
<1>5. /\ head[1] = FRAME_START /\ head[2] = CMD_FRAME_MARKER /\ head[3] = CMD_TYPE
      /\ head[4] = c.speed /\ head[5] = IF c.extended THEN 2 ELSE 1
      /\ end[1] = c.mode /\ end[2] = IF c.retransmit THEN 0 ELSE 1
  OBVIOUS
<1>6. Unsigned(c) = ((head \o filter) \o mask) \o end
  BY Zenon DEF Unsigned
<1> HIDE DEF head, filter, mask, end
<1> DEFINE two == head \o filter
           three == two \o mask
           f == three \o end
<1>7. /\ two \in Seq(Byte) /\ Len(two) = 9
      /\ \A i \in 1..5 : two[i] = head[i]
      /\ \A i \in 1..4 : two[5 + i] = filter[i]
  <2>1. /\ two \in Seq(Byte) /\ Len(two) = Len(head) + Len(filter)
        /\ \A i \in 1..Len(head) : two[i] = head[i]
        /\ \A i \in 1..Len(filter) : two[Len(head) + i] = filter[i]
    BY <1>2, <1>4, Parts
  <2> HIDE DEF two
  <2>2. Len(head) = 5 /\ Len(filter) = 4 /\ 5 + 4 = 9
    BY <1>2, <1>4
  <2> QED
    BY <2>1, <2>2
<1> HIDE DEF two
<1>8. /\ three \in Seq(Byte) /\ Len(three) = 13
      /\ \A i \in 1..9 : three[i] = two[i]
      /\ \A i \in 1..4 : three[9 + i] = mask[i]
  <2>1. /\ three \in Seq(Byte) /\ Len(three) = Len(two) + Len(mask)
        /\ \A i \in 1..Len(two) : three[i] = two[i]
        /\ \A i \in 1..Len(mask) : three[Len(two) + i] = mask[i]
    BY <1>4, <1>7, Parts
  <2> HIDE DEF three
  <2>2. Len(two) = 9 /\ Len(mask) = 4 /\ 9 + 4 = 13
    BY <1>4, <1>7
  <2> QED
    BY <2>1, <2>2
<1> HIDE DEF three
<1>9. /\ f \in Seq(Byte) /\ Len(f) = 20
      /\ \A i \in 1..13 : f[i] = three[i]
      /\ \A i \in 1..7 : f[13 + i] = end[i]
  <2>1. /\ f \in Seq(Byte) /\ Len(f) = Len(three) + Len(end)
        /\ \A i \in 1..Len(three) : f[i] = three[i]
        /\ \A i \in 1..Len(end) : f[Len(three) + i] = end[i]
    BY <1>3, <1>8, Parts
  <2> HIDE DEF f
  <2>2. Len(three) = 13 /\ Len(end) = 7 /\ 13 + 7 = 20
    BY <1>3, <1>8
  <2> QED
    BY <2>1, <2>2
<1>10. Unsigned(c) = f
  BY <1>6 DEF two, three
<1> HIDE DEF f
<1>11. \A i \in 1..5 : f[i] = head[i]
  <2> TAKE i \in 1..5
  <2>1. i \in 1..9 /\ i \in 1..13
    OBVIOUS
  <2> QED
    BY <1>7, <1>8, <1>9, <2>1, Zenon
<1>12. \A i \in 1..4 : f[5 + i] = filter[i]
  <2> TAKE i \in 1..4
  <2>1. 5 + i \in 1..9 /\ 5 + i \in 1..13
    OBVIOUS
  <2>2. f[5 + i] = three[5 + i] /\ three[5 + i] = two[5 + i]
    BY <1>8, <1>9, <2>1
  <2> QED
    BY <1>7, <2>2
<1>13. \A i \in 1..4 : f[9 + i] = mask[i]
  <2> TAKE i \in 1..4
  <2>1. 9 + i \in 1..13
    OBVIOUS
  <2> QED
    BY <1>8, <1>9, <2>1
<1>14. f[14] = end[1] /\ f[15] = end[2]
  <2>1. 1 \in 1..7 /\ 2 \in 1..7 /\ 13 + 1 = 14 /\ 13 + 2 = 15
    OBVIOUS
  <2> QED
    BY <1>9, <2>1
<1>15. /\ f[1] = FRAME_START /\ f[2] = CMD_FRAME_MARKER /\ f[3] = CMD_TYPE
       /\ f[4] = c.speed /\ f[5] = IF c.extended THEN 2 ELSE 1
  BY <1>5, <1>11
<1> QED
  BY <1>5, <1>9, <1>10, <1>12, <1>13, <1>14, <1>15 DEF filter, mask

\* Part of a sequence of which only that part is known to be bytes.
LEMMA BytesOf ==
  ASSUME NEW s, NEW k \in Nat, NEW n \in Nat, \A i \in 1..n : s[k + i] \in Byte
  PROVE  /\ SubSeq(s, k + 1, k + n) \in Seq(Byte)
         /\ Len(SubSeq(s, k + 1, k + n)) = n
         /\ \A i \in 1..n : SubSeq(s, k + 1, k + n)[i] = s[k + i]
<1>1. k + 1 \in Int /\ k + n \in Int
  OBVIOUS
<1>2. \A i \in (k + 1)..(k + n) : s[i] \in Byte
  <2> TAKE i \in (k + 1)..(k + n)
  <2>1. i - k \in 1..n /\ k + (i - k) = i
    OBVIOUS
  <2> QED
    BY <2>1
<1> DEFINE m == k + 1
           e == k + n
           p == SubSeq(s, m, e)
<1>3. e - m + 1 = n /\ (m <= e <=> n > 0)
  OBVIOUS
<1>4. \A i \in 1..n : m + i - 1 = k + i
  OBVIOUS
<1> HIDE DEF m, e
<1>5. /\ p \in Seq(Byte)
      /\ Len(p) = IF m <= e THEN e - m + 1 ELSE 0
      /\ \A i \in 1..(e - m + 1) : p[i] = s[m + i - 1]
  BY <1>1, <1>2, SubSeqProperties DEF m, e
<1> HIDE DEF p
<1>6. Len(p) = n
  BY <1>3, <1>5
<1>7. \A i \in 1..n : p[i] = s[k + i]
  BY <1>3, <1>4, <1>5
<1> QED
  BY <1>5, <1>6, <1>7 DEF m, e, p

\* The checksum takes the place of the last byte and of no other.
LEMMA SettingsBytes ==
  ASSUME NEW c \in Config
  PROVE  LET f == Unsigned(c)
             g == BuildSettingsFrame(c)
             k == GenerateChecksum(Unsigned(c), 2, 17)
         IN  /\ g \in Seq(Byte \cup {k}) /\ Len(g) = 20
             /\ \A i \in 1..19 : g[i] = f[i] /\ f[i] \in Byte
             /\ g[20] = k
<1> DEFINE f == Unsigned(c)
           k == GenerateChecksum(Unsigned(c), 2, 17)
<1>1. f \in Seq(Byte) /\ Len(f) = 20
  BY UnsignedBytes, Zenon
<1>2. BuildSettingsFrame(c) = [f EXCEPT ![20] = k]
  BY Zenon DEF BuildSettingsFrame
<1> HIDE DEF f, k
<1> DEFINE S == Byte \cup {k}
           i == 20
<1>3. f \in Seq(S) /\ i \in 1..Len(f) /\ k \in S
  BY <1>1
<1>4. \A j \in 1..20 : j \in 1..Len(f) /\ f[j] \in Byte
  <2> TAKE j \in 1..20
  <2>1. j \in 1..Len(f)
    BY <1>1
  <2> QED
    BY <1>1, <2>1, ElementOfSeq
<1> HIDE DEF S
<1>5. /\ [f EXCEPT ![i] = k] \in Seq(S)
      /\ Len([f EXCEPT ![i] = k]) = Len(f)
      /\ \A j \in 1..Len(f) : [f EXCEPT ![i] = k][j] = IF j = i THEN k ELSE f[j]
  <2> HIDE DEF i
  <2> QED
    BY <1>3, ExceptSeq
<1> DEFINE g == BuildSettingsFrame(c)
<1>6. /\ g \in Seq(S) /\ Len(g) = Len(f)
      /\ \A j \in 1..Len(f) : g[j] = IF j = 20 THEN k ELSE f[j]
  BY <1>2, <1>5, Zenon
<1> HIDE DEF g
<1>7. \A j \in 1..19 : j \in 1..20 /\ j # 20
  OBVIOUS
<1>8. /\ \A j \in 1..19 : g[j] = f[j] /\ f[j] \in Byte
      /\ g[20] = k
  BY <1>1, <1>4, <1>6, <1>7
<1> QED
  BY <1>1, <1>6, <1>8, Zenon DEF f, g, k, S

\* Every settings frame is well formed, its checksum included, and read by the
\* documented layout it says what the Config does.
THEOREM SettingsReadBack ==
  \A c \in Config :
    WellFormed(BuildSettingsFrame(c)) /\ SettingsOf(BuildSettingsFrame(c)) = c
<1> TAKE c \in Config
<1> DEFINE f == Unsigned(c)
           g == BuildSettingsFrame(c)
<1>1. /\ c.speed \in 1..12 /\ c.mode \in 0..3
      /\ c.extended \in BOOLEAN /\ c.retransmit \in BOOLEAN
      /\ c.filter \in Word /\ c.mask \in Word
      /\ c = [speed |-> c.speed, mode |-> c.mode, extended |-> c.extended,
              filter |-> c.filter, mask |-> c.mask, retransmit |-> c.retransmit]
  BY DEF Config, CanSpeed, CanMode
<1>2. /\ Len(g) = 20
      /\ \A i \in 1..19 : g[i] = f[i] /\ f[i] \in Byte
      /\ g[20] = GenerateChecksum(f, 2, 17)
  BY SettingsBytes, Zenon
<1>3. /\ f[1] = FRAME_START /\ f[2] = CMD_FRAME_MARKER /\ f[3] = CMD_TYPE
      /\ f[4] = c.speed /\ f[5] = IF c.extended THEN 2 ELSE 1
      /\ \A i \in 1..4 : f[5 + i] = WordBytes(c.filter)[i]
      /\ \A i \in 1..4 : f[9 + i] = WordBytes(c.mask)[i]
      /\ f[14] = c.mode
      /\ f[15] = IF c.retransmit THEN 0 ELSE 1
  BY UnsignedBytes, Zenon
<1> HIDE DEF f, g
<1>4. /\ g[1] = FRAME_START /\ g[2] = CMD_FRAME_MARKER /\ g[3] = CMD_TYPE
      /\ g[4] = c.speed /\ g[5] = IF c.extended THEN 2 ELSE 1
      /\ g[14] = c.mode
      /\ g[15] = IF c.retransmit THEN 0 ELSE 1
  BY <1>2, <1>3
<1>5. SubSeq(g, 3, 19) = SubSeq(f, 3, 19)
  <2>1. \A i \in 1..17 : g[2 + i] = f[2 + i] /\ f[2 + i] \in Byte
    BY <1>2
  <2>2. 2 \in Nat /\ 17 \in Nat /\ 2 + 1 = 3 /\ 2 + 17 = 19
    OBVIOUS
  <2>3. /\ SubSeq(f, 3, 19) \in Seq(Byte) /\ Len(SubSeq(f, 3, 19)) = 17
        /\ \A i \in 1..17 : SubSeq(f, 3, 19)[i] = f[2 + i]
    BY <2>1, <2>2, BytesOf
  <2>4. /\ SubSeq(g, 3, 19) \in Seq(Byte) /\ Len(SubSeq(g, 3, 19)) = 17
        /\ \A i \in 1..17 : SubSeq(g, 3, 19)[i] = g[2 + i]
    BY <2>1, <2>2, BytesOf
  <2>5. \A i \in 1..17 : SubSeq(g, 3, 19)[i] = SubSeq(f, 3, 19)[i]
    BY <2>1, <2>3, <2>4
  <2> QED
    BY <2>3, <2>4, <2>5, SeqEqual
<1>6. g[20] = ByteSum(SubSeq(g, 3, 19))
  <2>1. GenerateChecksum(f, 2, 17) = ByteSum(SubSeq(f, 2 + 1, 2 + 17))
    BY Zenon DEF GenerateChecksum
  <2>2. 2 + 1 = 3 /\ 2 + 17 = 19
    OBVIOUS
  <2> QED
    BY <1>2, <1>5, <2>1, <2>2, Zenon
<1>7. WellFormed(g)
  <2>1. g[4] \in CanSpeed /\ g[5] \in {1, 2} /\ g[14] \in CanMode /\ g[15] \in {0, 1}
    BY <1>1, <1>4 DEF CanSpeed, CanMode
  <2>2. Len(g) = CMD_FRAME_SIZE
    BY <1>2 DEF CMD_FRAME_SIZE
  <2> QED
    BY <1>4, <1>6, <2>1, <2>2, Zenon DEF WellFormed
<1>8. ASSUME NEW w \in Word, NEW k \in Nat, k + 4 <= 19,
             \A i \in 1..4 : f[k + i] = WordBytes(w)[i]
      PROVE  WordOf(SubSeq(g, k + 1, k + 4)) = w
  <2>1. WordBytes(w) \in Seq(Byte) /\ Len(WordBytes(w)) = 4 /\ WordOf(WordBytes(w)) = w
    BY WordReadBack, Zenon
  <2>2. \A i \in 1..4 : g[k + i] = WordBytes(w)[i] /\ g[k + i] \in Byte
    <3> TAKE i \in 1..4
    <3>1. k + i \in 1..19
      BY <1>8
    <3> QED
      BY <1>2, <1>8, <3>1
  <2>3. /\ SubSeq(g, k + 1, k + 4) \in Seq(Byte) /\ Len(SubSeq(g, k + 1, k + 4)) = 4
        /\ \A i \in 1..4 : SubSeq(g, k + 1, k + 4)[i] = g[k + i]
    BY <2>2, BytesOf
  <2>4. \A i \in 1..4 : SubSeq(g, k + 1, k + 4)[i] = WordBytes(w)[i]
    BY <2>2, <2>3
  <2>5. SubSeq(g, k + 1, k + 4) = WordBytes(w)
    BY <2>1, <2>3, <2>4, SeqEqual
  <2> QED
    BY <2>1, <2>5, Zenon
<1>9. WordOf(SubSeq(g, 6, 9)) = c.filter /\ WordOf(SubSeq(g, 10, 13)) = c.mask
  <2>1. /\ 5 \in Nat /\ 5 + 4 <= 19 /\ 5 + 1 = 6 /\ 5 + 4 = 9
        /\ 9 \in Nat /\ 9 + 4 <= 19 /\ 9 + 1 = 10 /\ 9 + 4 = 13
    OBVIOUS
  <2>2. WordOf(SubSeq(g, 5 + 1, 5 + 4)) = c.filter
    BY <1>1, <1>3, <1>8, <2>1, Zenon
  <2>3. WordOf(SubSeq(g, 9 + 1, 9 + 4)) = c.mask
    BY <1>1, <1>3, <1>8, <2>1, Zenon
  <2> QED
    BY <2>1, <2>2, <2>3, Zenon
<1>10. SettingsOf(g) = c
  <2>1. (g[5] = 2) = c.extended /\ (g[15] = 0) = c.retransmit
    BY <1>1, <1>4
  <2> QED
    BY <1>1, <1>4, <1>9, <2>1, Zenon DEF SettingsOf
<1> QED
  BY <1>7, <1>10 DEF g

-----------------------------------------------------------------------------
(* The settings frame is the first thing on the wire.                      *)

FrameAsked == BuildSettingsFrame(config)

\* new has a part of the settings frame to write yet, or its flush.
Opening == pc \in {"write", "flush"} /\ job = <<>>

\* The inductive invariant.  Until new's write_all is done, the wire and what is
\* pending are the settings frame, cut in two.
ClientInv ==
  /\ config \in Config
  /\ pc \in {"write", "flush", "settle", "idle", "closed"}
  /\ wire \in Seq(Byte) /\ pending \in Seq(Byte)
  /\ pc = "closed" => job = <<>>
  /\ \A i \in 1..20 : i <= Len(wire) => wire[i] = FrameAsked[i]
  /\ Opening => /\ Len(wire) + Len(pending) = 20
                /\ \A i \in 1..Len(pending) : pending[i] = FrameAsked[Len(wire) + i]
                /\ pc = "flush" => Len(pending) = 0
  /\ Opened => Len(wire) >= 20

\* The sum of bytes, although recursive, is a number.
LEMMA SumType ==
  ASSUME NEW s \in Seq(Byte)
  PROVE  ByteSum(s) \in Byte
<1> DEFINE IsSum(g) == g = [n \in 0..Len(s) |-> IF n = 0 THEN 0 ELSE g[n - 1] + s[n]]
           Upto(k, g) == /\ g \in [0..k -> Nat] /\ g[0] = 0
                         /\ \A n \in 1..k : g[n] = g[n - 1] + s[n]
           Bad == {k \in 0..Len(s) : ~\E g : Upto(k, g)}
<1>1. Len(s) \in Nat /\ \A n \in 1..Len(s) : s[n] \in Nat
  <2>1. \A n \in 1..Len(s) : s[n] \in Byte
    OBVIOUS
  <2>2. \A b \in Byte : b \in Nat
    BY DEF Byte
  <2> QED
    BY <2>1, <2>2
<1>2. Bad = {}
  <2>1. ASSUME NEW k \in Bad, \A m \in 0..(k - 1) : m \notin Bad
        PROVE  FALSE
    <3>1. k \in 0..Len(s) /\ ~\E g : Upto(k, g)
      OBVIOUS
    <3>2. CASE k = 0
      <4> DEFINE g == [n \in 0..0 |-> 0]
      <4>1. g \in [0..0 -> Nat] /\ g[0] = 0 /\ \A n \in 1..0 : g[n] = g[n - 1] + s[n]
        OBVIOUS
      <4> QED
        BY <3>1, <3>2, <4>1
    <3>3. CASE k # 0
      <4>1. k - 1 \in 0..(k - 1) /\ k - 1 \in 0..Len(s) /\ k \in 1..Len(s)
        BY <1>1, <3>1, <3>3
      <4>2. PICK g : Upto(k - 1, g)
        BY <2>1, <4>1
      <4> DEFINE h == [n \in 0..k |-> IF n = k THEN g[k - 1] + s[k] ELSE g[n]]
      <4>3. g[k - 1] + s[k] \in Nat
        BY <1>1, <4>1, <4>2
      <4>4. h \in [0..k -> Nat] /\ h[0] = 0
        BY <3>1, <3>3, <4>2, <4>3
      <4>5. ASSUME NEW n \in 1..k PROVE h[n] = h[n - 1] + s[n]
        <5>1. CASE n = k
          BY <3>1, <5>1
        <5>2. CASE n # k
          <6>1. n \in 1..(k - 1) /\ n \in 0..k /\ n - 1 \in 0..k /\ n - 1 # k
            BY <3>1, <5>2
          <6>2. g[n] = g[n - 1] + s[n]
            BY <4>2, <6>1
          <6> QED
            BY <5>2, <6>1, <6>2
        <5> QED
          BY <5>1, <5>2
      <4>6. Upto(k, h)
        BY <4>4, <4>5
      <4> HIDE DEF h
      <4> QED
        BY <3>1, <4>6
    <3> QED
      BY <3>2, <3>3
  <2>2. Bad \in SUBSET Nat
    OBVIOUS
  <2> HIDE DEF Bad
  <2> QED
    BY <2>1, <2>2, LeastMember
<1>3. PICK g : Upto(Len(s), g)
  <2>1. Len(s) \in 0..Len(s)
    BY <1>1
  <2> QED
    BY <1>2, <2>1
<1>4. IsSum(g)
  <2>1. \A n \in 0..Len(s) : n = 0 \/ n \in 1..Len(s)
    BY <1>1
  <2>2. \A n \in 0..Len(s) : g[n] = IF n = 0 THEN 0 ELSE g[n - 1] + s[n]
    BY <1>3, <2>1
  <2>3. g = [n \in 0..Len(s) |-> g[n]]
    BY <1>3
  <2> QED
    BY <2>2, <2>3
<1> DEFINE sum == CHOOSE h : IsSum(h)
<1>5. IsSum(sum)
  BY <1>4, Zenon
<1>6. sum = g
  <2> DEFINE Off == {n \in 0..Len(s) : sum[n] # g[n]}
  <2>1. /\ sum = [n \in 0..Len(s) |-> sum[n]]
        /\ \A n \in 0..Len(s) : sum[n] = IF n = 0 THEN 0 ELSE sum[n - 1] + s[n]
    BY <1>5
  <2> HIDE DEF sum
  <2>2. ASSUME NEW n \in Off, \A m \in 0..(n - 1) : m \notin Off
        PROVE  FALSE
    <3>1. n \in 0..Len(s) /\ sum[n] # g[n]
      OBVIOUS
    <3>2. n # 0
      BY <1>3, <2>1, <3>1
    <3>3. n \in 1..Len(s) /\ n - 1 \in 0..(n - 1) /\ n - 1 \in 0..Len(s)
      BY <1>1, <3>1, <3>2
    <3>4. sum[n - 1] = g[n - 1]
      BY <2>2, <3>3
    <3> QED
      BY <1>3, <2>1, <3>1, <3>2, <3>3, <3>4
  <2>3. Off \in SUBSET Nat
    OBVIOUS
  <2>4. Off = {}
    <3> HIDE DEF Off
    <3> QED
      BY <2>2, <2>3, LeastMember
  <2>5. g = [n \in 0..Len(s) |-> g[n]]
    BY <1>3
  <2> QED
    BY <2>1, <2>4, <2>5
<1>7. ByteSum(s) = sum[Len(s)] % 256
  BY Zenon DEF ByteSum
<1> HIDE DEF sum
<1>8. sum[Len(s)] \in Nat
  <2>1. g \in [0..Len(s) -> Nat] /\ Len(s) \in 0..Len(s)
    BY <1>1, <1>3
  <2> QED
    BY <1>6, <2>1
<1>9. \A x \in Nat : (x % 256) \in Byte
  BY DEF Byte
<1> QED
  BY <1>7, <1>8, <1>9

LEMMA SettingsType ==
  ASSUME NEW c \in Config
  PROVE  BuildSettingsFrame(c) \in Seq(Byte) /\ Len(BuildSettingsFrame(c)) = 20
<1> DEFINE k == GenerateChecksum(Unsigned(c), 2, 17)
<1>1. BuildSettingsFrame(c) \in Seq(Byte \cup {k}) /\ Len(BuildSettingsFrame(c)) = 20
  BY SettingsBytes, Zenon
<1>2. k \in Byte
  <2>1. Unsigned(c) \in Seq(Byte) /\ Len(Unsigned(c)) = 20
    BY UnsignedBytes, Zenon
  <2> DEFINE f == Unsigned(c)
  <2>2. SubSeq(f, 2 + 1, 2 + 17) \in Seq(Byte)
    <3> HIDE DEF f
    <3>1. f \in Seq(Byte) /\ Len(f) = 20
      BY <2>1 DEF f
    <3>2. \A i \in 1..17 : f[2 + i] \in Byte
      <4>1. \A j \in 1..Len(f) : f[j] \in Byte
        BY <3>1, ElementOfSeq
      <4>2. \A i \in 1..17 : 2 + i \in 1..20
        OBVIOUS
      <4> QED
        BY <3>1, <4>1, <4>2
    <3> QED
      BY <3>2, BytesOf
  <2> QED
    BY <2>2, SumType, Zenon DEF GenerateChecksum
<1>3. Byte \cup {k} = Byte
  BY <1>2
<1> QED
  BY <1>1, <1>3

\* The first n of a sequence of bytes.
LEMMA FrontOf ==
  ASSUME NEW s \in Seq(Byte), NEW n \in 0..Len(s)
  PROVE  /\ SubSeq(s, 1, n) \in Seq(Byte) /\ Len(SubSeq(s, 1, n)) = n
         /\ \A i \in 1..n : SubSeq(s, 1, n)[i] = s[i]
<1>1. SubSeq(s, 1, n) \in Seq(Byte) /\ Len(SubSeq(s, 1, n)) = n
  OBVIOUS
<1>2. \A i \in 1..n : SubSeq(s, 1, n)[i] = s[i]
  OBVIOUS
<1> QED
  BY <1>1, <1>2

\* One write of the port: n of the pending bytes move to the wire.
LEMMA PortTakes ==
  ASSUME NEW w \in Seq(Byte), NEW p \in Seq(Byte), NEW n \in 1..Len(p)
  PROVE  LET w2 == w \o SubSeq(p, 1, n)
             p2 == SubSeq(p, n + 1, Len(p))
         IN  /\ w2 \in Seq(Byte) /\ Len(w2) = Len(w) + n
             /\ \A i \in 1..Len(w) : w2[i] = w[i]
             /\ \A i \in 1..n : w2[Len(w) + i] = p[i]
             /\ p2 \in Seq(Byte) /\ Len(p2) = Len(p) - n
             /\ \A i \in 1..(Len(p) - n) : p2[i] = p[n + i]
<1> DEFINE t == SubSeq(p, 1, n)
<1>1. t \in Seq(Byte) /\ Len(t) = n /\ \A i \in 1..n : t[i] = p[i]
  <2>1. n \in 0..Len(p)
    OBVIOUS
  <2> QED
    BY <2>1, FrontOf
<1> HIDE DEF t
<1>2. /\ w \o t \in Seq(Byte) /\ Len(w \o t) = Len(w) + n
      /\ \A i \in 1..Len(w) : (w \o t)[i] = w[i]
      /\ \A i \in 1..n : (w \o t)[Len(w) + i] = t[i]
  <2>1. w \o t \in Seq(Byte) /\ Len(w \o t) = Len(w) + n
    BY <1>1
  <2>2. \A i \in 1..Len(w) : (w \o t)[i] = w[i]
    BY <1>1
  <2>3. \A i \in 1..n : (w \o t)[Len(w) + i] = t[i]
    BY <1>1
  <2> QED
    BY <2>1, <2>2, <2>3
<1> DEFINE p2 == SubSeq(p, n + 1, Len(p))
<1>3. p2 \in Seq(Byte) /\ Len(p2) = Len(p) - n
  OBVIOUS
<1>4. \A i \in 1..(Len(p) - n) : p2[i] = p[n + i]
  OBVIOUS
<1> QED
  BY <1>1, <1>2, <1>3, <1>4 DEF t

LEMMA ClientInit == Init => ClientInv
<1> SUFFICES ASSUME Init PROVE ClientInv
  OBVIOUS
<1>1. config \in Config
  BY ClientAssumption DEF Init
<1>2. pending = FrameAsked /\ pc = "write" /\ job = <<>> /\ wire = <<>>
  BY DEF Init, FrameAsked
<1>3. FrameAsked \in Seq(Byte) /\ Len(FrameAsked) = 20
  BY <1>1, SettingsType DEF FrameAsked
<1>4. wire \in Seq(Byte) /\ Len(wire) = 0
  BY <1>2
<1>5. \A i \in 1..Len(pending) : Len(wire) + i = i
  BY <1>2, <1>3, <1>4
<1> QED
  BY <1>1, <1>2, <1>3, <1>4, <1>5 DEF ClientInv, Opening, Opened

LEMMA ClientStep == ClientInv /\ [Next]_vars => ClientInv'
<1> SUFFICES ASSUME ClientInv, [Next]_vars PROVE ClientInv'
  OBVIOUS
<1>1. /\ config \in Config
      /\ wire \in Seq(Byte) /\ pending \in Seq(Byte)
      /\ Len(wire) \in Nat /\ Len(pending) \in Nat
  <2>1. config \in Config /\ wire \in Seq(Byte) /\ pending \in Seq(Byte)
    BY Zenon DEF ClientInv
  <2> QED
    BY <2>1
<1>2. ASSUME NEW m \in Messages, Write(m)
      PROVE  ClientInv'
  <2>1. pending' \in Seq(Byte)
    <3>1. BuildDataFrame(m).bytes \in Seq(Byte)
      BY ClientAssumption, BuildType
    <3> QED
      BY <1>2, <3>1 DEF Write
  <2>2. job' = <<m>> /\ job' # <<>> /\ pc = "idle" /\ pc' = "write"
    BY <1>2 DEF Write
  <2> QED
    BY <1>2, <2>1, <2>2 DEF Write, ClientInv, Opening, Opened, FrameAsked
<1>3. ASSUME WriteAll
      PROVE  ClientInv'
  <2>1. PICK n \in 1..Len(pending) :
          /\ wire' = wire \o SubSeq(pending, 1, n)
          /\ pending' = SubSeq(pending, n + 1, Len(pending))
          /\ pc' = IF n = Len(pending) THEN "flush" ELSE "write"
    BY <1>3 DEF WriteAll
  <2>2. /\ wire' \in Seq(Byte) /\ Len(wire') = Len(wire) + n
        /\ \A i \in 1..Len(wire) : wire'[i] = wire[i]
        /\ \A i \in 1..n : wire'[Len(wire) + i] = pending[i]
        /\ pending' \in Seq(Byte) /\ Len(pending') = Len(pending) - n
        /\ \A i \in 1..(Len(pending) - n) : pending'[i] = pending[n + i]
    <3> DEFINE w2 == wire \o SubSeq(pending, 1, n)
               p2 == SubSeq(pending, n + 1, Len(pending))
    <3>1. /\ w2 \in Seq(Byte) /\ Len(w2) = Len(wire) + n
          /\ \A i \in 1..Len(wire) : w2[i] = wire[i]
          /\ \A i \in 1..n : w2[Len(wire) + i] = pending[i]
          /\ p2 \in Seq(Byte) /\ Len(p2) = Len(pending) - n
          /\ \A i \in 1..(Len(pending) - n) : p2[i] = pending[n + i]
      BY <1>1, PortTakes
    <3>2. wire' = w2 /\ pending' = p2
      BY <2>1
    <3> HIDE DEF w2, p2
    <3> QED
      BY <3>1, <3>2
  <2>3. /\ pc = "write" /\ pc' \in {"write", "flush"}
        /\ job' = job /\ config' = config /\ FrameAsked' = FrameAsked
    BY <1>3, <2>1 DEF WriteAll, FrameAsked
  <2>4. \A i \in 1..20 : i <= Len(wire') => wire'[i] = FrameAsked[i]
    <3> SUFFICES ASSUME NEW i \in 1..20, i <= Len(wire')
                 PROVE  wire'[i] = FrameAsked[i]
      OBVIOUS
    <3>1. CASE i <= Len(wire)
      <4>1. i \in 1..Len(wire)
        BY <1>1, <3>1
      <4>2. wire[i] = FrameAsked[i]
        BY <3>1 DEF ClientInv
      <4> QED
        BY <2>2, <4>1, <4>2
    <3>2. CASE i > Len(wire)
      <4>1. Opening
        <5>1. ~(Len(wire) >= 20)
          BY <1>1, <3>2
        <5>2. ~Opened
          BY <5>1 DEF ClientInv
        <5> QED
          BY <2>3, <5>2 DEF Opening, Opened
      <4>2. PICK l \in Nat : l = Len(wire)
        BY <1>1
      <4>3. PICK k \in 1..n : i = l + k
        <5>1. Len(wire') = l + n
          BY <2>2, <4>2
        <5>2. i <= l + n /\ i > l
          BY <3>2, <4>2, <5>1
        <5>3. i - l \in 1..n /\ i = l + (i - l)
          BY <5>2
        <5> QED
          BY <5>3
      <4>4. k \in 1..Len(pending)
        BY <1>1
      <4>5. wire'[l + k] = pending[k]
        BY <2>2, <4>2
      <4>6. pending[k] = FrameAsked[l + k]
        BY <4>1, <4>2, <4>4 DEF ClientInv
      <4> QED
        BY <4>3, <4>5, <4>6
    <3>3. i <= Len(wire) \/ i > Len(wire)
      <4>1. Len(wire) \in Nat
        BY <1>1
      <4> QED
        BY <4>1
    <3> QED
      BY <3>1, <3>2, <3>3, Zenon
  <2>5. ASSUME Opening'
        PROVE  /\ Len(wire') + Len(pending') = 20
               /\ \A i \in 1..Len(pending') : pending'[i] = FrameAsked[Len(wire') + i]
               /\ pc' = "flush" => Len(pending') = 0
    <3>1. Opening
      BY <2>3, <2>5 DEF Opening
    <3>2. Len(wire) + Len(pending) = 20
      BY <3>1 DEF ClientInv
    <3>3. \A i \in 1..Len(pending') : pending'[i] = FrameAsked[Len(wire') + i]
      <4> TAKE i \in 1..Len(pending')
      <4>1. /\ i \in 1..(Len(pending) - n) /\ n + i \in 1..Len(pending)
            /\ Len(wire) + (n + i) = Len(wire') + i
        BY <1>1, <2>2
      <4>2. pending[n + i] = FrameAsked[Len(wire) + (n + i)]
        BY <3>1, <4>1 DEF ClientInv
      <4> QED
        BY <2>2, <4>1, <4>2
    <3>4. pc' = "flush" => Len(pending') = 0
      BY <1>1, <2>1, <2>2
    <3> QED
      BY <1>1, <2>2, <3>2, <3>3, <3>4
  <2>6. Opened' => Len(wire') >= 20
    <3>1. Opened' => Opened
      BY <2>3 DEF Opened
    <3> QED
      BY <1>1, <2>2, <3>1 DEF ClientInv
  <2> QED
    BY <1>1, <2>2, <2>3, <2>4, <2>5, <2>6 DEF ClientInv
<1>4. ASSUME Flush
      PROVE  ClientInv'
  <2>1. /\ pc = "flush" /\ pc' \in {"settle", "idle"} /\ job' = <<>>
        /\ UNCHANGED <<config, pending, wire>>
    BY <1>4 DEF Flush
  <2>2. Len(wire) >= 20
    <3>1. CASE job = <<>>
      <4>1. Opening
        BY <2>1, <3>1 DEF Opening
      <4>2. PICK l \in Nat, k \in Nat : l = Len(wire) /\ k = Len(pending)
        BY <1>1
      <4>3. l + k = 20 /\ k = 0
        BY <2>1, <4>1, <4>2 DEF ClientInv
      <4>4. l >= 20
        BY <4>3
      <4> QED
        BY <4>2, <4>4
    <3>2. CASE job # <<>>
      BY <3>2 DEF ClientInv, Opened
    <3> QED
      BY <3>1, <3>2
  <2> QED
    BY <2>1, <2>2 DEF ClientInv, Opening, Opened, FrameAsked
<1>5. ASSUME Settle
      PROVE  ClientInv'
  BY <1>5 DEF Settle, ClientInv, Opening, Opened, FrameAsked
<1>6. ASSUME GiveUp
      PROVE  ClientInv'
  <2>1. /\ UNCHANGED <<config, wire>> /\ job' = <<>>
        /\ pending' = <<>> /\ pending' \in Seq(Byte)
    BY <1>6 DEF GiveUp
  <2>2. CASE job = <<>>
    <3>1. pc' = "closed"
      BY <1>6, <2>2 DEF GiveUp
    <3> QED
      BY <2>1, <3>1 DEF ClientInv, Opening, Opened, FrameAsked
  <2>3. CASE job # <<>>
    <3>1. pc' = "idle" /\ Opened
      BY <1>6, <2>3 DEF GiveUp, Opened
    <3> QED
      BY <2>1, <3>1 DEF ClientInv, Opening, Opened, FrameAsked
  <2> QED
    BY <2>2, <2>3
<1>7. ASSUME Unplug
      PROVE  ClientInv'
  BY <1>7 DEF Unplug, ClientInv, Opening, Opened, FrameAsked
<1>8. ASSUME UNCHANGED vars
      PROVE  ClientInv'
  BY <1>8 DEF vars, ClientInv, Opening, Opened, FrameAsked
<1> QED
  BY <1>2, <1>3, <1>4, <1>5, <1>6, <1>7, <1>8 DEF Next, WriteFails, Cancel

LEMMA ClientArrives == ClientInv => ConfigArrives
<1> SUFFICES ASSUME ClientInv, Opened
             PROVE  WellFormed(Settings) /\ SettingsOf(Settings) = config
  BY DEF ConfigArrives
<1>1. FrameAsked \in Seq(Byte) /\ Len(FrameAsked) = 20
  BY SettingsType DEF ClientInv, FrameAsked
<1>2. /\ wire \in Seq(Byte) /\ Len(wire) >= 20
      /\ \A i \in 1..20 : i <= Len(wire) => wire[i] = FrameAsked[i]
  BY DEF ClientInv
<1>3. SubSeq(wire, 1, 20) = FrameAsked
  <2>1. 20 \in 0..Len(wire) /\ \A i \in 1..20 : i <= Len(wire)
    BY <1>2, SMTT(30)
  <2>2. /\ SubSeq(wire, 1, 20) \in Seq(Byte) /\ Len(SubSeq(wire, 1, 20)) = 20
        /\ \A i \in 1..20 : SubSeq(wire, 1, 20)[i] = wire[i]
    BY <1>2, <2>1, FrontOf
  <2> DEFINE t == SubSeq(wire, 1, 20)
  <2> HIDE DEF t
  <2>3. \A i \in 1..20 : t[i] = FrameAsked[i]
    BY <1>2, <2>1, <2>2 DEF t
  <2>4. t \in Seq(Byte) /\ Len(t) = 20
    BY <2>2 DEF t
  <2> QED
    BY <1>1, <2>3, <2>4, SeqEqual DEF t
<1>4. Settings = BuildSettingsFrame(config) /\ config \in Config
  BY <1>3 DEF Settings, CMD_FRAME_SIZE, FrameAsked, ClientInv
<1> QED
  BY <1>4, SettingsReadBack

\* Whatever the port takes at a time, whichever writes are dropped or fail and
\* whatever is written: once new is past its flush, the wire begins with one
\* whole settings frame that says what the caller asked for.
THEOREM SettingsFirst == Spec => []ConfigArrives
<1>1. Init => ClientInv
  BY ClientInit
<1>2. ClientInv /\ [Next]_vars => ClientInv'
  BY ClientStep
<1>3. ClientInv => ConfigArrives
  BY ClientArrives
<1> QED
  BY <1>1, <1>2, <1>3, PTL DEF Spec

-----------------------------------------------------------------------------
(* Types.                                                                  *)

\* What ClientInv leaves out.  Only a write has a job, and it is counted among
\* the torn ones when it ends.
Counted ==
  /\ up \in BOOLEAN
  /\ job \in Seq(Messages) /\ Len(job) <= 1 /\ tail \in Seq(Messages)
  /\ pc # "write" => pending = <<>>
  /\ pc \in {"settle", "idle", "closed"} => job = <<>>
  /\ writes \in 0..MaxWrites /\ torn \in Nat /\ torn <= writes
  /\ job # <<>> => torn < writes

LEMMA CountedInit == Init => Counted
<1> SUFFICES ASSUME Init PROVE Counted
  OBVIOUS
<1>1. \A S : <<>> \in Seq(S) /\ Len(<<>>) = 0
  OBVIOUS
<1> QED
  BY <1>1, ClientAssumption DEF Init, Counted

LEMMA CountedStep == ClientInv /\ Counted /\ [Next]_vars => Counted'
<1> SUFFICES ASSUME ClientInv, Counted, [Next]_vars PROVE Counted'
  OBVIOUS
<1>1. /\ up \in BOOLEAN /\ job \in Seq(Messages) /\ Len(job) <= 1 /\ tail \in Seq(Messages)
      /\ writes \in 0..MaxWrites /\ torn \in Nat /\ torn <= writes /\ MaxWrites \in Nat
  BY ClientAssumption DEF Counted
<1>2. ASSUME NEW m \in Messages, Write(m)
      PROVE  Counted'
  <2>1. <<m>> \in Seq(Messages) /\ Len(<<m>>) = 1 /\ <<m>> # <<>>
    OBVIOUS
  <2>2. writes' \in 0..MaxWrites /\ torn' = torn /\ torn < writes'
    BY <1>1, <1>2 DEF Write
  <2> QED
    BY <1>1, <1>2, <2>1, <2>2 DEF Write, Counted
<1>3. ASSUME WriteAll
      PROVE  Counted'
  <2>1. PICK n \in 1..Len(pending) :
          /\ pending' = SubSeq(pending, n + 1, Len(pending))
          /\ pc' = IF n = Len(pending) THEN "flush" ELSE "write"
    BY <1>3 DEF WriteAll
  <2>2. pending \in Seq(Byte)
    BY Zenon DEF ClientInv
  <2>3. pc' # "write" => pending' = <<>>
    <3> SUFFICES ASSUME n = Len(pending) PROVE pending' = <<>>
      BY <2>1
    <3>1. pending' \in Seq(Byte) /\ Len(pending') = 0
      BY <2>1, <2>2
    <3> QED
      BY <3>1
  <2>4. pc' \in {"flush", "write"}
    BY <2>1
  <2> QED
    BY <1>3, <2>3, <2>4 DEF WriteAll, Counted
<1>4. ASSUME Flush
      PROVE  Counted'
  <2>1. tail \o job \in Seq(Messages)
    BY <1>1
  <2>2. <<>> \in Seq(Messages) /\ Len(<<>>) = 0
    OBVIOUS
  <2> QED
    BY <1>1, <1>4, <2>1, <2>2 DEF Flush, Counted
<1>5. ASSUME Settle
      PROVE  Counted'
  BY <1>5 DEF Settle, Counted
<1>6. ASSUME GiveUp
      PROVE  Counted'
  <2>1. <<>> \in Seq(Messages) /\ Len(<<>>) = 0
    OBVIOUS
  <2>2. CASE job = <<>>
    BY <1>6, <2>1, <2>2 DEF GiveUp, Counted
  <2>3. CASE job # <<>>
    <3>1. torn' \in Nat /\ torn' <= writes
      BY <1>1, <1>6, <2>3 DEF GiveUp, Counted
    <3> QED
      BY <1>1, <1>6, <2>1, <2>3, <3>1 DEF GiveUp, Counted
  <2> QED
    BY <2>2, <2>3
<1>7. ASSUME Unplug
      PROVE  Counted'
  BY <1>7 DEF Unplug, Counted
<1>8. ASSUME UNCHANGED vars
      PROVE  Counted'
  BY <1>8 DEF vars, Counted
<1> QED
  BY <1>2, <1>3, <1>4, <1>5, <1>6, <1>7, <1>8 DEF Next, WriteFails, Cancel

\* Types are kept: the wire carries bytes, nothing is pending between writes, and
\* no more writes are torn than were begun.
THEOREM TypeCorrect == Spec => []TypeOK
<1>1. Init => ClientInv /\ Counted
  BY ClientInit, CountedInit
<1>2. ClientInv /\ Counted /\ [Next]_vars => ClientInv' /\ Counted'
  BY ClientStep, CountedStep
<1>3. ASSUME ClientInv, Counted PROVE TypeOK
  <2>1. job \in Seq(CanMessage)
    <3>1. job \in Seq(Messages) /\ Messages \subseteq CanMessage
      BY <1>3, ClientAssumption DEF Counted
    <3> QED
      BY <3>1, SeqMonotonic
  <2>2. torn \in 0..MaxWrites
    BY <1>3, ClientAssumption DEF Counted
  <2> QED
    BY <1>3, <2>1, <2>2 DEF ClientInv, Counted, TypeOK
<1> QED
  BY <1>1, <1>2, <1>3, PTL DEF Spec

-----------------------------------------------------------------------------
(* What the repeated scan of a stream finds.                               *)

\* The scan of the bytes of s behind the first i, when g has those behind more.
Turn(s, g, i) ==
  LET p == ParseNextFrame(SubSeq(s, i + 1, Len(s)))
  IN  IF p.frame = <<>> THEN <<>> ELSE ParsedToMessage(p.frame[1]) \o g[i + p.consumed]
IsScan(s, g) == g = [i \in 0..Len(s) |-> Turn(s, g, i)]

\* Bytes that do not leave s at the end are decided alike in the rest of s.
LEMMA RestDecided ==
  ASSUME NEW s \in Seq(Byte), NEW r \in Seq(Byte), NEW i \in Nat,
         Window(r, s, i), Len(r) + i = Len(s), NEW o \in Nat
  PROVE  /\ SkipAt(s, o + i) => SkipAt(r, o)
         /\ FrameAt(s, o + i) => FrameAt(r, o)
<1> SUFFICES ASSUME Len(s) - (o + i) >= MIN_FRAME_SIZE
             PROVE  /\ SkipAt(s, o + i) => SkipAt(r, o)
                    /\ FrameAt(s, o + i) => FrameAt(r, o)
  BY DEF SkipAt, FrameAt
<1>1. /\ Len(r) \in Nat /\ Len(s) \in Nat /\ Len(r) - o = Len(s) - (o + i)
      /\ o + 1 \in 1..Len(r) /\ o + 2 \in 1..Len(r)
      /\ (o + 1) + i = (o + i) + 1 /\ (o + 2) + i = (o + i) + 2
  BY DEF MIN_FRAME_SIZE
<1>2. r[o + 1] = s[(o + i) + 1] /\ r[o + 2] = s[(o + i) + 2] /\ r[o + 2] \in Byte
  <2>1. r[o + 1] = s[(o + 1) + i] /\ r[o + 2] = s[(o + 2) + i]
    BY <1>1 DEF Window
  <2>2. r[o + 2] \in Byte
    BY <1>1, ElementOfSeq
  <2> QED
    BY <1>1, <2>1, <2>2
<1>3. HeaderAt(r, o) <=> HeaderAt(s, o + i)
  BY <1>2 DEF HeaderAt
<1>4. CompleteAt(r, o) <=> CompleteAt(s, o + i)
  BY <1>1, <1>2 DEF CompleteAt
<1>5. HeaderAt(r, o) /\ CompleteAt(r, o) => (FooterAt(r, o) <=> FooterAt(s, o + i))
  <2> SUFFICES ASSUME HeaderAt(r, o), CompleteAt(r, o)
               PROVE  FooterAt(r, o) <=> FooterAt(s, o + i)
    OBVIOUS
  <2> DEFINE len == FrameLen(r[o + 2])
  <2>1. len \in Nat /\ len >= 5
    BY <1>2, FrameLenRange, SizeRange DEF HeaderAt
  <2>2. len <= Len(r) - o /\ len = FrameLen(s[(o + i) + 2])
    BY <1>1, <1>2, <2>1 DEF CompleteAt
  <2> HIDE DEF len
  <2>3. o + len \in 1..Len(r) /\ (o + len) + i = (o + i) + len
    BY <1>1, <2>1, <2>2, SMTT(30)
  <2>4. r[o + len] = s[(o + len) + i]
    BY <2>3 DEF Window
  <2> QED
    BY <2>2, <2>3, <2>4 DEF FooterAt, len
<1> QED
  BY <1>1, <1>3, <1>4, <1>5 DEF SkipAt, FrameAt

\* A turn goes on to the first offset that is not skipped.  If a frame is there,
\* its message comes first and then what the turn behind it finds.
LEMMA TurnEnds ==
  ASSUME NEW s \in Seq(Byte), NEW i \in 0..Len(s)
  PROVE  \E q \in Nat :
           /\ i <= q /\ q <= Len(s) /\ ~SkipAt(s, q) /\ \A p \in i..(q - 1) : SkipAt(s, p)
           /\ \/ /\ FrameAt(s, q)
                 /\ \A g : Turn(s, g, i) =
                             ParsedToMessage(MetaAt(s, q)) \o g[q + FrameLen(s[q + 2])]
              \/ /\ ~FrameAt(s, q)
                 /\ \A g : Turn(s, g, i) = <<>>
<1> DEFINE r == SubSeq(s, i + 1, Len(s))
           e == ScanEnd(r)
           q == e + i
<1>1. i \in Nat /\ Len(s) \in Nat /\ i <= Len(s)
  OBVIOUS
<1>2. r \in Seq(Byte) /\ Len(r) = Len(s) - i /\ Window(r, s, i)
  BY <1>1, RestIsWindow
<1>3. e \in 0..Len(r) /\ ~SkipAt(r, e) /\ \A p \in 0..(e - 1) : SkipAt(r, p)
  BY <1>2, ScanStops DEF StopsAt
<1>4. Len(r) + i = Len(s) /\ e \in Nat /\ q \in Nat /\ i <= q /\ q <= Len(s)
  <2> HIDE DEF r, e
  <2> QED
    BY <1>1, <1>2, <1>3
<1>5. ~SkipAt(s, q)
  <2> HIDE DEF r, e
  <2>1. SkipAt(s, e + i) => SkipAt(r, e)
    BY <1>1, <1>2, <1>4, RestDecided
  <2> QED
    BY <1>3, <2>1
<1>6. ASSUME NEW p \in i..(q - 1) PROVE SkipAt(s, p)
  <2> HIDE DEF e
  <2>1. p - i \in 0..(e - 1) /\ p - i \in Nat /\ (p - i) + i = p
    BY <1>1, <1>4
  <2>2. SkipAt(r, p - i)
    BY <1>3, <2>1
  <2>3. SkipAt(s, (p - i) + i)
    BY <1>1, <1>2, <2>1, <2>2, DecisionsKept
  <2> QED
    BY <2>1, <2>3
<1>7. CASE FrameAt(r, e)
  <2>1. /\ FrameAt(s, q) /\ MetaAt(r, e) = MetaAt(s, q) /\ r[e + 2] = s[q + 2]
    <3> HIDE DEF r, e
    <3>1. /\ FrameAt(s, e + i) /\ MetaAt(r, e) = MetaAt(s, e + i)
          /\ r[e + 2] = s[e + i + 2]
      BY <1>1, <1>2, <1>4, <1>7, DecisionsKept
    <3> QED
      BY <3>1
  <2>2. /\ ParseNextFrame(r).frame = <<MetaAt(r, e)>>
        /\ ParseNextFrame(r).consumed = e + FrameLen(r[e + 2])
    BY <1>7 DEF ParseNextFrame
  <2>3. FrameLen(r[e + 2]) \in Nat
    BY <1>2, <1>3, <1>7, FrameAtRange, SizeRange
  <2>4. i + ParseNextFrame(r).consumed = q + FrameLen(s[q + 2])
    <3> DEFINE n == FrameLen(r[e + 2])
    <3>1. n \in Nat /\ n = FrameLen(s[q + 2]) /\ ParseNextFrame(r).consumed = e + n
      BY <2>1, <2>2, <2>3
    <3> HIDE DEF n, e, r
    <3>2. i + (e + n) = (e + i) + n
      BY <1>1, <1>4, <3>1
    <3> QED
      BY <3>1, <3>2
  <2>5. ASSUME NEW g
        PROVE  Turn(s, g, i) = ParsedToMessage(MetaAt(s, q)) \o g[q + FrameLen(s[q + 2])]
    <3>1. ParseNextFrame(r).frame # <<>> /\ ParseNextFrame(r).frame[1] = MetaAt(s, q)
      BY <2>1, <2>2
    <3>2. Turn(s, g, i) = ParsedToMessage(ParseNextFrame(r).frame[1])
                            \o g[i + ParseNextFrame(r).consumed]
      BY <3>1, Zenon DEF Turn
    <3> QED
      BY <2>4, <3>1, <3>2, Zenon
  <2> QED
    BY <1>4, <1>5, <1>6, <2>1, <2>5
<1>8. CASE ~FrameAt(r, e)
  <2>1. ParseNextFrame(r).frame = <<>>
    BY <1>8 DEF ParseNextFrame
  <2>2. \A g : Turn(s, g, i) = <<>>
    BY <2>1, Zenon DEF Turn
  <2>3. ~FrameAt(s, q)
    <3> HIDE DEF r, e
    <3>1. FrameAt(s, e + i) => FrameAt(r, e)
      BY <1>1, <1>2, <1>4, RestDecided
    <3> QED
      BY <1>8, <3>1
  <2> QED
    BY <1>4, <1>5, <1>6, <2>2, <2>3
<1> QED
  BY <1>7, <1>8

\* A frame at q is one of messages and has its length.
LEMMA FrameThere ==
  ASSUME NEW s \in Seq(Byte), NEW q \in Nat, q <= Len(s), FrameAt(s, q)
  PROVE  /\ FrameLen(s[q + 2]) \in Nat /\ FrameLen(s[q + 2]) >= 5 /\ FrameLen(s[q + 2]) <= 15
         /\ q + FrameLen(s[q + 2]) <= Len(s) /\ s[q + 1] = FRAME_START
         /\ ParsedToMessage(MetaAt(s, q)) \in Seq(CanMessage)
<1>1. q \in 0..Len(s)
  OBVIOUS
<1>2. FrameLen(s[q + 2]) \in 5..DATA_FRAME_MAX_SIZE /\ q + FrameLen(s[q + 2]) <= Len(s)
  BY <1>1, FrameAtRange
<1>3. s[q + 1] = FRAME_START
  BY DEF FrameAt, HeaderAt
<1>4. ParsedToMessage(MetaAt(s, q)) \in Seq(CanMessage)
  BY <1>1, ParsedType
<1> QED
  BY <1>2, <1>3, <1>4, SMTT(30) DEF DATA_FRAME_MAX_SIZE

\* A turn looks at what g says of later places only.
LEMMA TurnLooksAhead ==
  ASSUME NEW s \in Seq(Byte), NEW i \in 0..Len(s), NEW g, NEW h,
         \A j \in (i + 1)..Len(s) : g[j] = h[j] /\ g[j] \in Seq(CanMessage)
  PROVE  Turn(s, g, i) = Turn(s, h, i) /\ Turn(s, g, i) \in Seq(CanMessage)
<1>1. PICK q \in Nat :
        /\ i <= q /\ q <= Len(s)
        /\ \/ /\ FrameAt(s, q)
              /\ \A f : Turn(s, f, i) =
                          ParsedToMessage(MetaAt(s, q)) \o f[q + FrameLen(s[q + 2])]
           \/ /\ ~FrameAt(s, q)
              /\ \A f : Turn(s, f, i) = <<>>
  BY TurnEnds
<1>2. CASE FrameAt(s, q)
  <2> DEFINE n == FrameLen(s[q + 2])
             x == ParsedToMessage(MetaAt(s, q))
  <2>1. n \in Nat /\ n >= 5 /\ q + n <= Len(s) /\ x \in Seq(CanMessage)
    BY <1>1, <1>2, FrameThere
  <2>2. Turn(s, g, i) = x \o g[q + n] /\ Turn(s, h, i) = x \o h[q + n]
    BY <1>1, <1>2, Zenon
  <2> HIDE DEF n, x
  <2>3. q + n \in (i + 1)..Len(s)
    BY <1>1, <2>1
  <2>4. g[q + n] = h[q + n] /\ g[q + n] \in Seq(CanMessage)
    BY <2>3
  <2> QED
    BY <2>1, <2>2, <2>4
<1>3. CASE ~FrameAt(s, q)
  <2>1. Turn(s, g, i) = <<>> /\ Turn(s, h, i) = <<>>
    BY <1>1, <1>3, Zenon
  <2> QED
    BY <2>1
<1> QED
  BY <1>2, <1>3

\* The recursive function of Scan is one: place by place, from the end.
LEMMA ScanExists ==
  ASSUME NEW s \in Seq(Byte)
  PROVE  \E g : IsScan(s, g)
<1> DEFINE N == Len(s)
           S == Seq(CanMessage)
           Good(k, g) == g \in [0..N -> S] /\ \A i \in 0..N : i + k > N => g[i] = Turn(s, g, i)
           Bad == {k \in 0..(N + 1) : ~\E g : Good(k, g)}
<1>1. N \in Nat
  OBVIOUS
<1>2. Bad = {}
  <2>1. ASSUME NEW k \in Bad, \A m \in 0..(k - 1) : m \notin Bad
        PROVE  FALSE
    <3>1. k \in 0..(N + 1) /\ ~\E g : Good(k, g)
      OBVIOUS
    <3>2. CASE k = 0
      <4> DEFINE g == [i \in 0..N |-> <<>>]
      <4>1. g \in [0..N -> S]
        OBVIOUS
      <4>2. \A i \in 0..N : ~(i + k > N)
        BY <1>1, <3>2
      <4>3. Good(k, g)
        BY <4>1, <4>2
      <4> QED
        BY <3>1, <4>3
    <3>3. CASE k # 0
      <4> HIDE DEF N, S
      <4> DEFINE j == (N + 1) - k
                 l == k - 1
      <4>1. /\ l \in 0..(k - 1) /\ l \in 0..(N + 1) /\ j \in 0..N
            /\ \A i \in 0..N : (i + k > N <=> i >= j) /\ (i + l > N <=> i > j)
        BY <1>1, <3>1, <3>3
      <4>2. PICK g : Good(l, g)
        BY <2>1, <4>1
      <4> DEFINE h == [g EXCEPT ![j] = Turn(s, g, j)]
      <4> HIDE DEF l, j
      <4>3. \A i \in 0..N : i > j => g[i] = Turn(s, g, i)
        BY <4>1, <4>2
      <4>4. g \in [0..N -> S]
        BY <4>2
      <4>5. Turn(s, g, j) \in S
        <5>1. \A i \in (j + 1)..N : i \in 0..N
          BY <1>1, <4>1
        <5>2. \A i \in (j + 1)..N : g[i] = g[i] /\ g[i] \in S
          BY <4>4, <5>1
        <5>3. j \in 0..Len(s) /\ \A i \in (j + 1)..Len(s) : g[i] = g[i] /\ g[i] \in Seq(CanMessage)
          BY <4>1, <5>2 DEF N, S
        <5> QED
          BY <5>3, TurnLooksAhead DEF S
      <4>6. /\ h \in [0..N -> S]
            /\ h[j] = Turn(s, g, j) /\ \A i \in 0..N : i # j => h[i] = g[i]
        BY <4>1, <4>4, <4>5
      <4> HIDE DEF h
      <4>7. ASSUME NEW i \in 0..N, i >= j PROVE Turn(s, g, i) = Turn(s, h, i)
        <5>1. \A p \in (i + 1)..N : p \in 0..N /\ p # j
          BY <1>1, <4>1, <4>7
        <5>2. \A p \in (i + 1)..N : g[p] = h[p] /\ g[p] \in S
          BY <4>4, <4>6, <5>1
        <5>3. i \in 0..Len(s) /\ \A p \in (i + 1)..Len(s) : g[p] = h[p] /\ g[p] \in Seq(CanMessage)
          BY <5>2 DEF N, S
        <5> QED
          BY <5>3, TurnLooksAhead
      <4>8. ASSUME NEW i \in 0..N, i >= j PROVE h[i] = Turn(s, h, i)
        <5>1. CASE i = j
          BY <4>6, <4>7, <4>8, <5>1
        <5>2. CASE i # j
          <6>1. i > j
            BY <4>1, <4>8, <5>2
          <6> QED
            BY <4>3, <4>6, <4>7, <4>8, <5>2, <6>1
        <5> QED
          BY <5>1, <5>2
      <4>9. Good(k, h)
        BY <4>1, <4>6, <4>8
      <4> QED
        BY <3>1, <4>9
    <3> QED
      BY <3>2, <3>3
  <2>2. Bad \in SUBSET Nat
    BY <1>1
  <2> HIDE DEF Bad
  <2> QED
    BY <2>1, <2>2, LeastMember
<1>3. PICK g : Good(N + 1, g)
  <2>1. N + 1 \in 0..(N + 1)
    BY <1>1
  <2> HIDE DEF Good
  <2> QED
    BY <1>2, <2>1
<1>4. g \in [0..N -> S] /\ \A i \in 0..N : g[i] = Turn(s, g, i)
  <2>1. \A i \in 0..N : i + (N + 1) > N
    BY <1>1
  <2> HIDE DEF N, S
  <2> QED
    BY <1>3, <2>1
<1>5. g = [i \in 0..N |-> Turn(s, g, i)]
  <2> HIDE DEF N, S
  <2>1. g = [i \in 0..N |-> g[i]]
    BY <1>4
  <2> QED
    BY <1>4, <2>1
<1> QED
  BY <1>5, Zenon DEF IsScan

\* Scan is what a turn at the start finds, and each turn goes on from the next.
LEMMA ScanIs ==
  ASSUME NEW s \in Seq(Byte)
  PROVE  \E g : Scan(s) = g[0] /\ \A i \in 0..Len(s) : g[i] = Turn(s, g, i)
<1> DEFINE from == CHOOSE g : IsScan(s, g)
<1>1. IsScan(s, from)
  BY ScanExists, Zenon
<1>2. Scan(s) = from[0]
  BY Zenon DEF Scan, IsScan, Turn
<1> HIDE DEF from
<1>3. \A i \in 0..Len(s) : from[i] = Turn(s, from, i)
  BY <1>1 DEF IsScan
<1> QED
  BY <1>2, <1>3

\* What holds at a place whenever it holds at all later ones holds everywhere.
LEMMA FromTheEnd ==
  ASSUME NEW N \in Nat, NEW S \in SUBSET (0..N),
         \A i \in 0..N : (\A j \in (i + 1)..N : j \in S) => i \in S
  PROVE  S = 0..N
<1> DEFINE Bad == {k \in 0..N : N - k \notin S}
<1>1. ASSUME NEW k \in Bad, \A m \in 0..(k - 1) : m \notin Bad
      PROVE  FALSE
  <2>1. k \in 0..N /\ N - k \notin S /\ N - k \in 0..N
    OBVIOUS
  <2>2. ASSUME NEW j \in ((N - k) + 1)..N PROVE j \in S
    <3>1. N - j \in 0..(k - 1) /\ N - j \in 0..N /\ N - (N - j) = j
      BY <2>1
    <3> QED
      BY <1>1, <3>1
  <2> QED
    BY <2>1, <2>2
<1>2. Bad \in SUBSET Nat
  OBVIOUS
<1>3. Bad = {}
  <2> HIDE DEF Bad
  <2> QED
    BY <1>1, <1>2, LeastMember
<1>4. ASSUME NEW i \in 0..N PROVE i \in S
  <2>1. N - i \in 0..N /\ N - (N - i) = i
    OBVIOUS
  <2>2. N - i \notin Bad
    BY <1>3
  <2> QED
    BY <2>1, <2>2
<1> QED
  BY <1>4

\* Every turn finds messages.
LEMMA TurnsType ==
  ASSUME NEW s \in Seq(Byte), NEW g, \A i \in 0..Len(s) : g[i] = Turn(s, g, i)
  PROVE  \A i \in 0..Len(s) : g[i] \in Seq(CanMessage)
<1> DEFINE N == Len(s)
           S == {i \in 0..N : g[i] \in Seq(CanMessage)}
<1>1. ASSUME NEW i \in 0..N, \A j \in (i + 1)..N : j \in S
      PROVE  i \in S
  <2>1. \A j \in (i + 1)..N : g[j] = g[j] /\ g[j] \in Seq(CanMessage)
    BY <1>1
  <2>2. Turn(s, g, i) \in Seq(CanMessage)
    BY <2>1, TurnLooksAhead
  <2> QED
    BY <2>2
<1>2. N \in Nat /\ S \in SUBSET (0..N)
  OBVIOUS
<1>3. S = 0..N
  <2> HIDE DEF S, N
  <2> QED
    BY <1>1, <1>2, FromTheEnd
<1> QED
  BY <1>3

-----------------------------------------------------------------------------
(* The scan of frames that follow each other to the end of a stream.       *)

DataMessage == {m \in CanMessage : ~m.rtr}

\* Messages whose frames hold no start byte behind their first byte.
PlainMessage == {m \in DataMessage : \A i \in 2..Size(m) : Bytes(m)[i] # FRAME_START}

\* The frames of t are the end of s: that of t[i] is at offset at[i].
Framed(at, t, s) ==
  /\ at \in Seq(Nat) /\ Len(at) = Len(t) + 1 /\ at[Len(t) + 1] = Len(s)
  /\ \A i \in 1..Len(t) : Window(Bytes(t[i]), s, at[i]) /\ at[i + 1] = at[i] + Size(t[i])

LEMMA FramePlace ==
  ASSUME NEW s \in Seq(Byte), NEW t \in Seq(DataMessage), NEW at, Framed(at, t, s),
         NEW i \in 1..Len(t)
  PROVE  /\ at[i] \in Nat /\ at[i + 1] \in Nat
         /\ at[i] + 5 <= at[i + 1] /\ at[i + 1] <= Len(s)
         /\ FrameAt(s, at[i]) /\ ParsedToMessage(MetaAt(s, at[i])) = <<t[i]>>
         /\ at[i] + FrameLen(s[at[i] + 2]) = at[i + 1]
         /\ \A j \in 1..Size(t[i]) : s[at[i] + j] = Bytes(t[i])[j]
         /\ Size(t[i]) \in Nat /\ at[i + 1] = at[i] + Size(t[i])
<1> DEFINE a == at[i]
           e == at[i + 1]
           m == t[i]
           b == Bytes(m)
           n == Size(m)
<1>1. m \in CanMessage /\ ~m.rtr
  BY DEF DataMessage
<1>2. a \in Nat /\ e \in Nat
  <2>1. i \in 1..Len(at) /\ i + 1 \in 1..Len(at) /\ at \in Seq(Nat)
    BY DEF Framed
  <2> QED
    BY <2>1, ElementOfSeq
<1>3. Window(b, s, a) /\ e = a + n
  BY DEF Framed
<1>4. /\ b \in Seq(Byte) /\ n \in Nat /\ n >= 5 /\ n = Len(b)
      /\ FrameAt(b, 0) /\ FrameLen(b[2]) = n /\ ParsedToMessage(MetaAt(b, 0)) = <<m>>
  BY <1>1, MessageFrame DEF Size
<1> HIDE DEF a, e, m, b, n
<1>5. a + 5 <= e /\ e <= Len(s)
  BY <1>2, <1>3, <1>4 DEF Window
<1>6. FrameAt(s, a) /\ MetaAt(b, 0) = MetaAt(s, a) /\ b[2] = s[a + 2]
  <2>1. 0 \in Nat /\ 0 + a = a /\ 0 + 2 = 2
    BY <1>2
  <2>2. FrameAt(s, 0 + a) /\ MetaAt(b, 0) = MetaAt(s, 0 + a) /\ b[0 + 2] = s[0 + a + 2]
    BY <1>2, <1>3, <1>4, <2>1, DecisionsKept
  <2> QED
    BY <2>1, <2>2
<1>7. a + FrameLen(s[a + 2]) = e
  BY <1>3, <1>4, <1>6
<1>8. \A j \in 1..n : s[a + j] = b[j]
  <2> TAKE j \in 1..n
  <2>1. b[j] = s[j + a] /\ j + a = a + j
    BY <1>2, <1>3, <1>4 DEF Window
  <2> QED
    BY <2>1
<1> QED
  BY <1>2, <1>3, <1>4, <1>5, <1>6, <1>7, <1>8 DEF a, e, m, b, n

\* A turn that skips what is before the i-th frame finds that frame.
LEMMA FrameTurn ==
  ASSUME NEW s \in Seq(Byte), NEW t \in Seq(DataMessage), NEW at, Framed(at, t, s),
         NEW i \in 1..Len(t), NEW p \in Nat, p <= at[i], NEW g,
         \A r \in p..(at[i] - 1) : SkipAt(s, r)
  PROVE  Turn(s, g, p) = <<t[i]>> \o g[at[i + 1]]
<1> DEFINE a == at[i]
           e == at[i + 1]
<1>1. /\ a \in Nat /\ e \in Nat /\ a + 5 <= e /\ e <= Len(s)
      /\ FrameAt(s, a) /\ ParsedToMessage(MetaAt(s, a)) = <<t[i]>>
      /\ a + FrameLen(s[a + 2]) = e
  BY FramePlace
<1>2. p <= a /\ \A r \in p..(a - 1) : SkipAt(s, r)
  OBVIOUS
<1> HIDE DEF a, e
<1>3. p \in 0..Len(s)
  BY <1>1, <1>2
<1>4. PICK q \in Nat :
        /\ p <= q /\ q <= Len(s) /\ ~SkipAt(s, q) /\ \A r \in p..(q - 1) : SkipAt(s, r)
        /\ \/ /\ FrameAt(s, q)
              /\ \A f : Turn(s, f, p) =
                          ParsedToMessage(MetaAt(s, q)) \o f[q + FrameLen(s[q + 2])]
           \/ /\ ~FrameAt(s, q)
              /\ \A f : Turn(s, f, p) = <<>>
  BY <1>3, TurnEnds
<1>5. q = a
  <2>1. ~SkipAt(s, a)
    BY <1>1 DEF FrameAt, SkipAt
  <2>2. ~(q < a)
    <3>1. q < a => q \in p..(a - 1)
      BY <1>1, <1>4
    <3> QED
      BY <1>2, <1>4, <3>1
  <2>3. ~(a < q)
    <3>1. a < q => a \in p..(q - 1)
      BY <1>1, <1>2, <1>4
    <3> QED
      BY <1>4, <2>1, <3>1
  <2> QED
    BY <1>1, <2>2, <2>3
<1>6. Turn(s, g, p) = ParsedToMessage(MetaAt(s, a)) \o g[a + FrameLen(s[a + 2])]
  BY <1>1, <1>4, <1>5, Zenon
<1> QED
  BY <1>1, <1>6 DEF a, e

\* At the place of a frame the scan finds its message and all that follow.
LEMMA FoundFromFrame ==
  ASSUME NEW s \in Seq(Byte), NEW t \in Seq(DataMessage), NEW at, Framed(at, t, s),
         NEW g, \A i \in 0..Len(s) : g[i] = Turn(s, g, i)
  PROVE  \A i \in 1..(Len(t) + 1) : g[at[i]] = SubSeq(t, i, Len(t))
<1> DEFINE N == Len(t)
           S == {k \in 0..N : g[at[k + 1]] = SubSeq(t, k + 1, N)}
<1>1. N \in Nat /\ S \in SUBSET (0..N)
  OBVIOUS
<1>2. ASSUME NEW k \in 0..N, \A j \in (k + 1)..N : j \in S
      PROVE  k \in S
  <2>1. CASE k = N
    <3>1. at[k + 1] = Len(s) /\ Len(s) \in Nat /\ Len(s) \in 0..Len(s)
      BY <2>1 DEF Framed
    <3>2. PICK q \in Nat :
            /\ Len(s) <= q /\ q <= Len(s)
            /\ \/ FrameAt(s, q)
               \/ \A f : Turn(s, f, Len(s)) = <<>>
      BY <3>1, TurnEnds
    <3>3. ~FrameAt(s, q)
      BY <3>1, <3>2 DEF FrameAt, MIN_FRAME_SIZE
    <3>4. g[at[k + 1]] = <<>>
      BY <3>1, <3>2, <3>3
    <3>5. SubSeq(t, k + 1, N) = <<>>
      BY <2>1
    <3> QED
      BY <3>4, <3>5
  <2>2. CASE k # N
    <3> DEFINE i == k + 1
    <3>1. i \in 1..Len(t) /\ i \in (k + 1)..N
      BY <1>1, <2>2
    <3>2. g[at[i + 1]] = SubSeq(t, i + 1, N)
      BY <1>2, <3>1
    <3> DEFINE a == at[i]
               e == at[i + 1]
    <3>3. a \in Nat /\ e \in Nat /\ a + 5 <= e /\ e <= Len(s)
      BY <3>1, FramePlace
    <3>4. Turn(s, g, a) = <<t[i]>> \o g[e]
      <4> HIDE DEF i
      <4>1. a <= at[i] /\ \A r \in a..(at[i] - 1) : SkipAt(s, r)
        BY <3>3
      <4> HIDE DEF a
      <4> QED
        BY <3>1, <3>3, <4>1, FrameTurn
    <3> HIDE DEF a, e
    <3>5. g[a] = <<t[i]>> \o g[e]
      <4>1. a \in 0..Len(s)
        BY <3>3
      <4> QED
        BY <3>4, <4>1
    <3>6. <<t[i]>> \o SubSeq(t, i + 1, N) = SubSeq(t, i, N)
      <4> HIDE DEF i
      <4> QED
        BY <3>1, SMTT(30)
    <3>7. g[at[i]] = SubSeq(t, i, N)
      BY <3>2, <3>5, <3>6 DEF a, e
    <3> QED
      BY <3>7
  <2> QED
    BY <2>1, <2>2
<1>3. S = 0..N
  <2> HIDE DEF S, N
  <2> QED
    BY <1>1, <1>2, FromTheEnd
<1>4. ASSUME NEW i \in 1..(N + 1) PROVE g[at[i]] = SubSeq(t, i, N)
  <2>1. i - 1 \in 0..N /\ (i - 1) + 1 = i
    BY <1>1
  <2>2. g[at[(i - 1) + 1]] = SubSeq(t, (i - 1) + 1, N)
    BY <1>3, <2>1
  <2> QED
    BY <2>1, <2>2
<1> QED
  BY <1>4

\* A stream of nothing but frames is scanned into their messages.
LEMMA ExactScan ==
  ASSUME NEW s \in Seq(Byte), NEW t \in Seq(DataMessage), NEW at, Framed(at, t, s),
         at[1] = 0
  PROVE  Scan(s) = t
<1>1. PICK g : Scan(s) = g[0] /\ \A i \in 0..Len(s) : g[i] = Turn(s, g, i)
  BY ScanIs
<1>2. 1 \in 1..(Len(t) + 1)
  OBVIOUS
<1>3. g[at[1]] = SubSeq(t, 1, Len(t))
  BY <1>1, <1>2, FoundFromFrame
<1>4. SubSeq(t, 1, Len(t)) = t
  OBVIOUS
<1> QED
  BY <1>1, <1>3, <1>4

\* Between two places of frames that hold no other start byte, too, the scan finds
\* the messages from the next frame on.
LEMMA FoundFromWithin ==
  ASSUME NEW s \in Seq(Byte), NEW t \in Seq(PlainMessage), NEW at, Framed(at, t, s),
         NEW g, \A j \in 0..Len(s) : g[j] = Turn(s, g, j),
         NEW i \in 1..Len(t), NEW p \in Nat, at[i] < p, p <= at[i + 1]
  PROVE  g[p] = SubSeq(t, i + 1, Len(t))
<1> DEFINE a == at[i]
           e == at[i + 1]
<1>1. t \in Seq(DataMessage)
  <2>1. PlainMessage \subseteq DataMessage
    BY DEF PlainMessage
  <2> QED
    BY <2>1, SeqMonotonic
<1>2. /\ a \in Nat /\ e \in Nat /\ e <= Len(s) /\ Len(s) \in Nat
      /\ Size(t[i]) \in Nat /\ e = a + Size(t[i])
      /\ \A j \in 1..Size(t[i]) : s[a + j] = Bytes(t[i])[j]
  BY <1>1, FramePlace
<1>3. a < p /\ p <= e
  OBVIOUS
<1>4. ASSUME NEW r \in p..(e - 1) PROVE s[r + 1] # FRAME_START
  <2> HIDE DEF a, e
  <2>1. (r + 1) - a \in 2..Size(t[i]) /\ a + ((r + 1) - a) = r + 1
    BY <1>2, <1>3, SMTT(30)
  <2>2. (r + 1) - a \in 1..Size(t[i])
    BY <2>1
  <2>3. s[a + ((r + 1) - a)] = Bytes(t[i])[(r + 1) - a]
    BY <1>2, <2>2
  <2>4. Bytes(t[i])[(r + 1) - a] # FRAME_START
    BY <2>1 DEF PlainMessage
  <2> QED
    BY <2>1, <2>3, <2>4
<1>5. CASE i = Len(t)
  <2>1. e = Len(s) /\ p \in 0..Len(s)
    <3>1. at[i + 1] = Len(s)
      BY <1>5 DEF Framed
    <3> HIDE DEF a
    <3> QED
      BY <1>2, <1>3, <3>1
  <2>2. PICK q \in Nat :
          /\ p <= q /\ q <= Len(s)
          /\ \/ FrameAt(s, q)
             \/ \A f : Turn(s, f, p) = <<>>
    BY <2>1, TurnEnds
  <2>3. ~FrameAt(s, q)
    <3> SUFFICES ASSUME FrameAt(s, q) PROVE FALSE
      OBVIOUS
    <3>1. s[q + 1] = FRAME_START /\ Len(s) - q >= 5
      BY DEF FrameAt, HeaderAt, MIN_FRAME_SIZE
    <3> HIDE DEF a, e
    <3>2. q \in p..(e - 1)
      BY <1>2, <2>1, <2>2, <3>1
    <3> QED
      BY <1>4, <3>1, <3>2
  <2>4. g[p] = <<>>
    BY <2>1, <2>2, <2>3
  <2>5. SubSeq(t, i + 1, Len(t)) = <<>>
    BY <1>5
  <2> QED
    BY <2>4, <2>5
<1>6. CASE i # Len(t)
  <2> DEFINE n == i + 1
             z == at[n + 1]
  <2>1. n \in 1..Len(t)
    BY <1>6
  <2>2. z \in Nat /\ e + 5 <= z /\ z <= Len(s)
    BY <1>1, <2>1, FramePlace
  <2>3. \A r \in p..(at[n] - 1) : SkipAt(s, r)
    <3> HIDE DEF a, e, z, n
    <3>1. ASSUME NEW r \in p..(e - 1) PROVE SkipAt(s, r)
      <4>1. Len(s) - r >= 5
        BY <1>2, <2>2
      <4>2. ~HeaderAt(s, r)
        BY <1>4 DEF HeaderAt
      <4> QED
        BY <4>1, <4>2 DEF SkipAt, MIN_FRAME_SIZE
    <3>2. e = at[n]
      BY DEF e, n
    <3> QED
      BY <3>1, <3>2
  <2>4. p <= at[n] /\ e <= at[n] /\ \A r \in e..(at[n] - 1) : SkipAt(s, r)
    BY <1>2, <1>3
  <2>5. Turn(s, g, p) = <<t[n]>> \o g[at[n + 1]]
    <3> HIDE DEF n
    <3> QED
      BY <1>1, <2>1, <2>3, <2>4, FrameTurn
  <2>6. Turn(s, g, e) = <<t[n]>> \o g[at[n + 1]]
    <3> HIDE DEF n
    <3>1. e \in Nat
      BY <1>2
    <3> HIDE DEF e
    <3> QED
      BY <1>1, <2>1, <2>4, <3>1, FrameTurn
  <2>7. g[p] = g[e]
    <3>1. p \in 0..Len(s) /\ e \in 0..Len(s)
      <4> HIDE DEF a, e
      <4> QED
        BY <1>2, <1>3
    <3> QED
      BY <2>5, <2>6, <3>1
  <2>8. g[at[n]] = SubSeq(t, n, Len(t))
    <3>1. n \in 1..(Len(t) + 1)
      BY <2>1
    <3> HIDE DEF n
    <3> QED
      BY <1>1, <3>1, FoundFromFrame
  <2> QED
    BY <2>7, <2>8
<1> QED
  BY <1>5, <1>6

\* The last messages of t, all but three, end x.
AllButThree(x, t) ==
  \A n \in 1..(Len(t) - 3) : Len(x) >= n /\ x[Len(x) + 1 - n] = t[Len(t) + 1 - n]

LEMMA AllButThreeOfRest ==
  ASSUME NEW t \in Seq(CanMessage), NEW i \in 1..4, i <= Len(t)
  PROVE  AllButThree(SubSeq(t, i, Len(t)), t)
<1> DEFINE N == Len(t)
           x == SubSeq(t, i, N)
<1>1. N \in Nat /\ Len(x) = N + 1 - i /\ \A k \in 1..(N + 1 - i) : x[k] = t[(i - 1) + k]
  OBVIOUS
<1> HIDE DEF N, x
<1>2. ASSUME NEW n \in 1..(N - 3) PROVE Len(x) >= n /\ x[Len(x) + 1 - n] = t[N + 1 - n]
  <2>1. /\ Len(x) >= n /\ Len(x) + 1 - n \in 1..(N + 1 - i)
        /\ (i - 1) + (Len(x) + 1 - n) = N + 1 - n
    BY <1>1, SMTT(30)
  <2>2. x[Len(x) + 1 - n] = t[(i - 1) + (Len(x) + 1 - n)]
    BY <1>1, <2>1
  <2> QED
    BY <2>1, <2>2
<1> QED
  BY <1>2 DEF AllButThree, N, x

LEMMA AllButThreeBehind ==
  ASSUME NEW t \in Seq(CanMessage), NEW x \in Seq(CanMessage), NEW y \in Seq(CanMessage),
         AllButThree(x, t)
  PROVE  AllButThree(y \o x, t)
<1> DEFINE z == y \o x
           l == Len(x)
           d == Len(y)
<1>1. Len(z) = d + l /\ l \in Nat /\ d \in Nat
  OBVIOUS
<1>2. \A k \in 1..l : z[d + k] = x[k]
  OBVIOUS
<1> HIDE DEF z, l, d
<1>3. ASSUME NEW n \in 1..(Len(t) - 3) PROVE Len(z) >= n /\ z[Len(z) + 1 - n] = t[Len(t) + 1 - n]
  <2>1. l >= n /\ x[l + 1 - n] = t[Len(t) + 1 - n]
    BY DEF AllButThree, l
  <2>2. l + 1 - n \in 1..l /\ d + (l + 1 - n) = Len(z) + 1 - n /\ Len(z) >= n
    BY <1>1, <2>1
  <2>3. z[d + (l + 1 - n)] = x[l + 1 - n]
    BY <1>2, <2>2
  <2> QED
    BY <2>1, <2>2, <2>3
<1> QED
  BY <1>3 DEF AllButThree, z

\* Behind a frame of the tail, at most four frames on, all but three are found.
LEMMA FoundNear ==
  ASSUME NEW s \in Seq(Byte), NEW t \in Seq(PlainMessage), NEW at, Framed(at, t, s),
         Len(t) >= 4, NEW g, \A j \in 0..Len(s) : g[j] = Turn(s, g, j),
         NEW p \in Nat, at[1] <= p, p <= at[1] + 15
  PROVE  AllButThree(g[p], t)
<1> DEFINE a == [i \in 1..4 |-> at[i]]
<1>1. t \in Seq(DataMessage) /\ t \in Seq(CanMessage) /\ Len(t) \in Nat
  <2>1. PlainMessage \subseteq DataMessage /\ DataMessage \subseteq CanMessage
    BY DEF PlainMessage, DataMessage
  <2> QED
    BY <2>1, SeqMonotonic
<1>2. \A i \in 1..3 : /\ i \in 1..Len(t) /\ i + 1 \in 1..4
                      /\ at[i] \in Nat /\ at[i + 1] \in Nat /\ at[i] + 5 <= at[i + 1]
  <2> TAKE i \in 1..3
  <2>1. i \in 1..Len(t) /\ i + 1 \in 1..4
    BY <1>1
  <2> QED
    BY <1>1, <2>1, FramePlace
<1>3. ASSUME NEW i \in 1..4 PROVE AllButThree(SubSeq(t, i, Len(t)), t)
  <2>1. i <= Len(t)
    BY <1>1
  <2> QED
    BY <1>1, <2>1, AllButThreeOfRest
<1>4. CASE p = at[1]
  <2>1. 1 \in 1..(Len(t) + 1) /\ 1 \in 1..4
    BY <1>1
  <2>2. g[p] = SubSeq(t, 1, Len(t))
    BY <1>1, <1>4, <2>1, FoundFromFrame
  <2> QED
    BY <1>3, <2>1, <2>2
<1>5. ASSUME NEW i \in 1..3, at[i] < p, p <= at[i + 1]
      PROVE  AllButThree(g[p], t)
  <2>1. i \in 1..Len(t) /\ i + 1 \in 1..4
    BY <1>2
  <2>2. g[p] = SubSeq(t, i + 1, Len(t))
    BY <1>5, <2>1, FoundFromWithin, SMTT(30)
  <2> QED
    BY <1>3, <2>1, <2>2
<1>6. p = at[1] \/ \E i \in 1..3 : at[i] < p /\ p <= at[i + 1]
  <2> DEFINE b == at[1]
             c == at[2]
             d == at[3]
             e == at[4]
  <2>1. /\ b \in Nat /\ c \in Nat /\ d \in Nat /\ e \in Nat
        /\ b + 5 <= c /\ c + 5 <= d /\ d + 5 <= e
    <3>1. /\ 1 \in 1..3 /\ 2 \in 1..3 /\ 3 \in 1..3 /\ 1 + 1 = 2 /\ 2 + 1 = 3 /\ 3 + 1 = 4
      OBVIOUS
    <3>2. b \in Nat /\ at[1 + 1] \in Nat /\ b + 5 <= at[1 + 1]
      BY <1>2, <3>1
    <3>3. c \in Nat /\ at[2 + 1] \in Nat /\ c + 5 <= at[2 + 1]
      BY <1>2, <3>1
    <3>4. d \in Nat /\ at[3 + 1] \in Nat /\ d + 5 <= at[3 + 1]
      BY <1>2, <3>1
    <3> QED
      BY <3>1, <3>2, <3>3, <3>4
  <2>2. b <= p /\ p <= b + 15
    OBVIOUS
  <2> HIDE DEF b, c, d, e
  <2>3. p = b \/ (b < p /\ p <= c) \/ (c < p /\ p <= d) \/ (d < p /\ p <= e)
    BY <2>1, <2>2
  <2>4. /\ (b < p /\ p <= c) => \E i \in 1..3 : at[i] < p /\ p <= at[i + 1]
        /\ (c < p /\ p <= d) => \E i \in 1..3 : at[i] < p /\ p <= at[i + 1]
        /\ (d < p /\ p <= e) => \E i \in 1..3 : at[i] < p /\ p <= at[i + 1]
    <3>1. /\ 1 \in 1..3 /\ 2 \in 1..3 /\ 3 \in 1..3 /\ 1 + 1 = 2 /\ 2 + 1 = 3 /\ 3 + 1 = 4
      OBVIOUS
    <3> QED
      BY <3>1 DEF b, c, d, e
  <2>5. p = b => p = at[1]
    BY DEF b
  <2> QED
    BY <2>3, <2>4, <2>5
<1> QED
  BY <1>4, <1>5, <1>6

\* However a stream begins, its scan ends in all but three of the frames at its
\* end, when these hold no start byte but their first: a false frame before them
\* takes at most 15 bytes, and each of them has at least five.
LEMMA TornScan ==
  ASSUME NEW s \in Seq(Byte), NEW t \in Seq(PlainMessage), NEW at, Framed(at, t, s),
         Len(t) >= 4
  PROVE  AllButThree(Scan(s), t)
<1>1. PICK g : Scan(s) = g[0] /\ \A i \in 0..Len(s) : g[i] = Turn(s, g, i)
  BY ScanIs
<1>2. \A i \in 0..Len(s) : g[i] \in Seq(CanMessage)
  BY <1>1, TurnsType
<1>3. t \in Seq(DataMessage) /\ t \in Seq(CanMessage) /\ Len(t) \in Nat
  <2>1. PlainMessage \subseteq DataMessage /\ DataMessage \subseteq CanMessage
    BY DEF PlainMessage, DataMessage
  <2> QED
    BY <2>1, SeqMonotonic
<1> DEFINE a == at[1]
           N == Len(s)
           S == {p \in 0..N : p < a => AllButThree(g[p], t)}
<1>4. a \in Nat /\ a + 20 <= N /\ N \in Nat /\ FrameAt(s, a)
  <2>1. \A i \in 1..4 : /\ i \in 1..Len(t) /\ at[i] \in Nat /\ at[i + 1] \in Nat
                        /\ at[i] + 5 <= at[i + 1] /\ at[i + 1] <= N /\ FrameAt(s, at[i])
    <3> TAKE i \in 1..4
    <3>1. i \in 1..Len(t)
      BY <1>3
    <3> QED
      BY <1>3, <3>1, FramePlace
  <2> DEFINE c == at[2]
             d == at[3]
             e == at[4]
             z == at[5]
  <2>2. /\ 1 \in 1..4 /\ 2 \in 1..4 /\ 3 \in 1..4 /\ 4 \in 1..4
        /\ 1 + 1 = 2 /\ 2 + 1 = 3 /\ 3 + 1 = 4 /\ 4 + 1 = 5
    OBVIOUS
  <2>3. a \in Nat /\ at[1 + 1] \in Nat /\ a + 5 <= at[1 + 1] /\ FrameAt(s, a)
    BY <2>1, <2>2
  <2>4. at[2 + 1] \in Nat /\ c + 5 <= at[2 + 1]
    BY <2>1, <2>2
  <2>5. at[3 + 1] \in Nat /\ d + 5 <= at[3 + 1]
    BY <2>1, <2>2
  <2>6. at[4 + 1] \in Nat /\ e + 5 <= at[4 + 1] /\ at[4 + 1] <= N
    BY <2>1, <2>2
  <2>7. c \in Nat /\ d \in Nat /\ e \in Nat /\ z \in Nat
        /\ a + 5 <= c /\ c + 5 <= d /\ d + 5 <= e /\ e + 5 <= z /\ z <= N
    BY <2>2, <2>3, <2>4, <2>5, <2>6
  <2>8. N \in Nat
    OBVIOUS
  <2> HIDE DEF a, c, d, e, z, N
  <2>9. a + 20 <= N
    BY <2>3, <2>7, <2>8
  <2> QED
    BY <2>3, <2>8, <2>9
<1>5. ASSUME NEW p \in Nat, a <= p, p <= a + 15 PROVE AllButThree(g[p], t)
  BY <1>1, <1>5, FoundNear
<1>6. ASSUME NEW p \in 0..N, \A j \in (p + 1)..N : j \in S
      PROVE  p \in S
  <2> SUFFICES ASSUME p < a PROVE AllButThree(g[p], t)
    OBVIOUS
  <2>1. PICK q \in Nat :
          /\ p <= q /\ q <= N /\ ~SkipAt(s, q) /\ \A r \in p..(q - 1) : SkipAt(s, r)
          /\ \/ /\ FrameAt(s, q)
                /\ \A f : Turn(s, f, p) =
                            ParsedToMessage(MetaAt(s, q)) \o f[q + FrameLen(s[q + 2])]
             \/ /\ ~FrameAt(s, q)
                /\ \A f : Turn(s, f, p) = <<>>
    BY TurnEnds
  <2>2. q <= a
    <3> HIDE DEF a, N, S
    <3>1. ~SkipAt(s, a)
      BY <1>4 DEF FrameAt, SkipAt
    <3>2. a < q => a \in p..(q - 1)
      BY <1>4, <2>1
    <3> QED
      BY <1>4, <2>1, <3>1, <3>2
  <2>3. FrameAt(s, q)
    <3> SUFFICES ASSUME ~FrameAt(s, q) PROVE FALSE
      OBVIOUS
    <3>1. Len(s) - q >= 20
      <4> HIDE DEF a, S
      <4> QED
        BY <1>4, <2>1, <2>2
    <3>2. HeaderAt(s, q) /\ ~CompleteAt(s, q)
      <4>1. Len(s) - q >= MIN_FRAME_SIZE
        BY <3>1, <1>4 DEF MIN_FRAME_SIZE
      <4> QED
        BY <2>1, <4>1 DEF FrameAt, SkipAt
    <3>3. s[q + 2] \in Byte
      <4>1. q + 2 \in 1..Len(s)
        <5> HIDE DEF S, a
        <5> QED
          BY <3>1
      <4> QED
        BY <4>1, ElementOfSeq
    <3>4. FrameLen(s[q + 2]) \in 5..DATA_FRAME_MAX_SIZE
      BY <3>2, <3>3, FrameLenRange DEF HeaderAt
    <3> DEFINE n == FrameLen(s[q + 2])
    <3>5. n \in Nat /\ n <= 15
      BY <3>4, SMTT(30) DEF DATA_FRAME_MAX_SIZE
    <3>6. ~(Len(s) - q >= n)
      BY <3>2 DEF CompleteAt
    <3> HIDE DEF n, S, a
    <3> QED
      BY <3>1, <3>5, <3>6
  <2> DEFINE n == FrameLen(s[q + 2])
             y == ParsedToMessage(MetaAt(s, q))
             x == g[q + n]
  <2>4. n \in Nat /\ n >= 5 /\ n <= 15 /\ q + n <= N /\ y \in Seq(CanMessage)
    BY <2>1, <2>3, FrameThere
  <2>5. Turn(s, g, p) = y \o x
    BY <2>1, <2>3, Zenon
  <2>6. q + n \in 0..N /\ q + n \in (p + 1)..N /\ q + n <= a + 15
    <3> HIDE DEF n, a, N, y, x, S
    <3> QED
      BY <1>4, <2>1, <2>2, <2>4
  <2>7. x \in Seq(CanMessage)
    BY <1>2, <2>6
  <2>8. AllButThree(x, t)
    <3>1. CASE q + n < a
      BY <1>6, <2>6, <3>1
    <3>2. CASE ~(q + n < a)
      <4> HIDE DEF n, a, N, S
      <4>1. q + n \in Nat /\ a <= q + n
        BY <1>4, <2>1, <2>4, <3>2
      <4> QED
        BY <1>5, <2>6, <4>1
    <3> QED
      BY <3>1, <3>2
  <2>9. AllButThree(y \o x, t)
    <3> HIDE DEF x, y
    <3> QED
      BY <1>3, <2>4, <2>7, <2>8, AllButThreeBehind
  <2> QED
    BY <1>1, <2>5, <2>9
<1>7. S \in SUBSET (0..N)
  OBVIOUS
<1>8. S = 0..N
  <2> HIDE DEF S, N
  <2> QED
    BY <1>4, <1>6, <1>7, FromTheEnd
<1>9. AllButThree(g[0], t)
  <2>1. 0 \in S
    BY <1>4, <1>8
  <2>2. CASE 0 < a
    BY <2>1, <2>2
  <2>3. CASE ~(0 < a)
    <3>1. a <= 0 /\ 0 <= a + 15 /\ 0 \in Nat
      BY <1>4, <2>3
    <3> HIDE DEF a
    <3> QED
      BY <1>5, <3>1
  <2> QED
    BY <2>2, <2>3
<1> QED
  BY <1>1, <1>9

-----------------------------------------------------------------------------
(* What a client has written, and what the scan finds of it.               *)

LEMMA FramedNone ==
  ASSUME NEW s \in Seq(Byte)
  PROVE  Framed(<<Len(s)>>, <<>>, s)
<1> DEFINE n == Len(s)
           at == <<n>>
           t == <<>>
<1>1. n \in Nat
  OBVIOUS
<1>2. at \in Seq(Nat) /\ Len(at) = 1 /\ at[1] = n /\ Len(t) = 0
  BY <1>1
<1>3. Len(at) = Len(t) + 1 /\ at[Len(t) + 1] = n
  BY <1>2
<1>4. \A i \in 1..Len(t) : FALSE
  BY <1>2
<1> QED
  BY <1>2, <1>3, <1>4 DEF Framed

\* One more frame at the end.
LEMMA FramedOn ==
  ASSUME NEW s \in Seq(Byte), NEW t \in Seq(DataMessage), NEW at, Framed(at, t, s),
         NEW m \in DataMessage
  PROVE  \E on : Framed(on, t \o <<m>>, s \o Bytes(m)) /\ on[1] = at[1]
<1> DEFINE N == Len(t)
           l == Len(s)
           b == Bytes(m)
           n == Size(m)
           on == Append(at, l + n)
           u == t \o <<m>>
           w == s \o b
<1>1. N \in Nat /\ l \in Nat
  OBVIOUS
<1>2. b \in Seq(Byte) /\ n \in Nat /\ n = Len(b)
  BY MessageFrame DEF DataMessage, Size
<1>3. w \in Seq(Byte) /\ Len(w) = l + n /\ Window(s, w, 0) /\ Window(b, w, l)
  BY <1>2, PartsAreWindows
<1>4. /\ at \in Seq(Nat) /\ Len(at) = N + 1 /\ at[N + 1] = l
      /\ \A i \in 1..N : Window(Bytes(t[i]), s, at[i]) /\ at[i + 1] = at[i] + Size(t[i])
  BY DEF Framed
<1>5. u \in Seq(DataMessage) /\ Len(u) = N + 1 /\ u[N + 1] = m /\ \A i \in 1..N : u[i] = t[i]
  OBVIOUS
<1>6. l + n \in Nat
  BY <1>1, <1>2
<1>7. /\ on \in Seq(Nat) /\ Len(on) = N + 2 /\ on[N + 2] = l + n
      /\ \A i \in 1..(N + 1) : on[i] = at[i]
  <2> HIDE DEF l, n
  <2>1. on \in Seq(Nat) /\ Len(on) = Len(at) + 1
    BY <1>4, <1>6
  <2>2. on[Len(at) + 1] = l + n /\ \A i \in 1..Len(at) : on[i] = at[i]
    BY <1>4, <1>6
  <2>3. (N + 1) + 1 = N + 2
    BY <1>1
  <2> HIDE DEF on, N
  <2> QED
    BY <1>4, <2>1, <2>2, <2>3
<1> HIDE DEF N, l, b, n, on, u, w
<1>8. ASSUME NEW i \in 1..(N + 1)
      PROVE  Window(Bytes(u[i]), w, on[i]) /\ on[i + 1] = on[i] + Size(u[i])
  <2>1. CASE i = N + 1
    <3>1. on[i] = l /\ on[i + 1] = l + n /\ u[i] = m
      <4>1. i + 1 = N + 2
        BY <1>1, <2>1
      <4> QED
        BY <1>4, <1>5, <1>7, <2>1, <4>1
    <3> QED
      BY <1>3, <3>1 DEF b, n
  <2>2. CASE i # N + 1
    <3>1. i \in 1..N /\ i \in 1..(N + 1) /\ i + 1 \in 1..(N + 1)
      BY <1>1, <2>2
    <3>2. on[i] = at[i] /\ on[i + 1] = at[i + 1] /\ u[i] = t[i]
      BY <1>5, <1>7, <3>1
    <3>3. Window(Bytes(t[i]), s, at[i]) /\ at[i + 1] = at[i] + Size(t[i])
      BY <1>4, <3>1
    <3>4. Bytes(t[i]) \in Seq(Byte) /\ at[i] \in Nat
      <4>1. t[i] \in DataMessage
        BY <3>1 DEF N
      <4>2. i \in 1..Len(at)
        BY <1>4, <3>1
      <4> QED
        BY <1>4, <4>1, <4>2, ElementOfSeq, MessageFrame DEF DataMessage
    <3>5. Window(Bytes(t[i]), w, at[i])
      <4> DEFINE a == at[i]
      <4>1. a \in Nat /\ 0 \in Nat /\ a + 0 = a
        BY <3>4
      <4>2. Window(Bytes(t[i]), w, a + 0)
        <5>1. a \in Nat /\ Window(Bytes(t[i]), s, a) /\ Bytes(t[i]) \in Seq(Byte)
          BY <3>3, <3>4
        <5> HIDE DEF a
        <5> QED
          BY <1>3, <4>1, <5>1, WindowOfWindow
      <4> QED
        BY <4>1, <4>2
    <3> QED
      BY <3>2, <3>3, <3>5
  <2> QED
    BY <2>1, <2>2
<1>9. on[1] = at[1]
  <2>1. 1 \in 1..(N + 1)
    BY <1>1
  <2> QED
    BY <1>7, <2>1
<1>10. Framed(on, u, w)
  <2>1. Len(u) + 1 = N + 2
    BY <1>1, <1>5
  <2> QED
    BY <1>3, <1>5, <1>7, <1>8, <2>1 DEF Framed
<1> QED
  BY <1>9, <1>10 DEF u, w, b

\* What the port takes does not change what is on the wire and pending together.
LEMMA TakenInPlace ==
  ASSUME NEW w \in Seq(Byte), NEW p \in Seq(Byte), NEW n \in 1..Len(p), Len(w) >= 20
  PROVE  LET w2 == w \o SubSeq(p, 1, n)
             p2 == SubSeq(p, n + 1, Len(p))
         IN  SubSeq(w2, 21, Len(w2)) \o p2 = SubSeq(w, 21, Len(w)) \o p
<1> DEFINE w2 == w \o SubSeq(p, 1, n)
           p2 == SubSeq(p, n + 1, Len(p))
           d == SubSeq(w, 21, Len(w))
           d2 == SubSeq(w2, 21, Len(w2))
           l == Len(w)
           k == Len(p)
<1>1. /\ w2 \in Seq(Byte) /\ Len(w2) = l + n
      /\ \A i \in 1..l : w2[i] = w[i]
      /\ \A i \in 1..n : w2[l + i] = p[i]
      /\ p2 \in Seq(Byte) /\ Len(p2) = k - n
      /\ \A i \in 1..(k - n) : p2[i] = p[n + i]
  BY PortTakes
<1>2. l \in Nat /\ l >= 20 /\ k \in Nat /\ n \in Nat /\ n >= 1 /\ n <= k
  OBVIOUS
<1>3. d \in Seq(Byte) /\ Len(d) = l - 20 /\ \A i \in 1..(l - 20) : d[i] = w[20 + i]
  <2>1. 20 \in Nat /\ l - 20 \in Nat /\ 20 + (l - 20) = l /\ 20 + 1 = 21 /\ 20 + (l - 20) <= Len(w)
    BY <1>2
  <2> DEFINE c == l - 20
  <2>2. /\ SubSeq(w, 20 + 1, 20 + c) \in Seq(Byte) /\ Len(SubSeq(w, 20 + 1, 20 + c)) = c
        /\ \A i \in 1..c : SubSeq(w, 20 + 1, 20 + c)[i] = w[20 + i]
    <3>1. c \in Nat /\ 20 \in Nat /\ 20 + c <= Len(w)
      BY <2>1
    <3> HIDE DEF c
    <3> QED
      BY <3>1, PartOf
  <2> QED
    BY <2>1, <2>2
<1> HIDE DEF w2, p2
<1>4. d2 \in Seq(Byte) /\ Len(d2) = l + n - 20 /\ \A i \in 1..(l + n - 20) : d2[i] = w2[20 + i]
  <2> DEFINE c == l + n - 20
  <2>1. c \in Nat /\ 20 \in Nat /\ 20 + c = Len(w2) /\ 20 + 1 = 21 /\ 20 + c <= Len(w2)
    BY <1>1, <1>2
  <2>2. /\ SubSeq(w2, 20 + 1, 20 + c) \in Seq(Byte) /\ Len(SubSeq(w2, 20 + 1, 20 + c)) = c
        /\ \A i \in 1..c : SubSeq(w2, 20 + 1, 20 + c)[i] = w2[20 + i]
    <3> HIDE DEF c
    <3> QED
      BY <1>1, <2>1, PartOf
  <2> QED
    BY <2>1, <2>2
<1> HIDE DEF d, d2
<1> DEFINE x == d \o p
           y == d2 \o p2
<1>5. x \in Seq(Byte) /\ Len(x) = Len(d) + k
      /\ (\A i \in 1..Len(d) : x[i] = d[i]) /\ \A i \in 1..k : x[Len(d) + i] = p[i]
  BY <1>3, Parts
<1>6. y \in Seq(Byte) /\ Len(y) = Len(d2) + Len(p2)
      /\ (\A i \in 1..Len(d2) : y[i] = d2[i]) /\ \A i \in 1..Len(p2) : y[Len(d2) + i] = p2[i]
  BY <1>1, <1>4, Parts
<1> HIDE DEF x, y, l, k
<1>7. Len(x) = l + k - 20 /\ Len(y) = l + k - 20
  BY <1>1, <1>2, <1>3, <1>4, <1>5, <1>6
<1>8. ASSUME NEW i \in 1..(l + k - 20) PROVE y[i] = x[i]
  <2>1. CASE i <= l - 20
    <3>1. i \in 1..Len(d) /\ i \in 1..Len(d2) /\ 20 + i \in 1..l
      BY <1>2, <1>3, <1>4, <2>1, SMTT(30)
    <3>2. x[i] = w[20 + i] /\ y[i] = w2[20 + i]
      <4>1. x[i] = d[i] /\ y[i] = d2[i]
        BY <1>5, <1>6, <3>1
      <4>2. d[i] = w[20 + i]
        BY <1>3, <2>1
      <4>3. d2[i] = w2[20 + i]
        BY <1>4, <3>1
      <4> QED
        BY <4>1, <4>2, <4>3
    <3> QED
      BY <1>1, <3>1, <3>2
  <2>2. CASE i > l - 20 /\ i <= l + n - 20
    <3> DEFINE j == i - (l - 20)
    <3>1. j \in 1..n /\ j \in 1..k /\ i = Len(d) + j /\ i \in 1..Len(d2) /\ 20 + i = l + j
      BY <1>2, <1>3, <1>4, <2>2
    <3> HIDE DEF j
    <3>2. x[i] = p[j]
      BY <1>5, <3>1
    <3>3. y[i] = w2[l + j]
      BY <1>4, <1>6, <3>1
    <3> QED
      BY <1>1, <3>1, <3>2, <3>3
  <2>3. CASE i > l + n - 20
    <3> DEFINE j == i - (l + n - 20)
               h == n + j
    <3>1. j \in 1..(k - n) /\ h \in 1..k /\ i = Len(d) + h /\ i = Len(d2) + j /\ j \in 1..Len(p2)
      BY <1>1, <1>2, <1>3, <1>4, <2>3
    <3>2. p2[j] = p[h]
      BY <1>1, <3>1
    <3> HIDE DEF j, h
    <3>3. x[i] = p[h] /\ y[i] = p2[j]
      BY <1>5, <1>6, <3>1
    <3> QED
      BY <3>2, <3>3
  <2> QED
    BY <1>2, <2>1, <2>2, <2>3
<1>9. y = x
  BY <1>5, <1>6, <1>7, <1>8, SeqEqual
<1> QED
  BY <1>9 DEF x, y, w2, p2, d, d2

\* The part of the inductive invariant that says what was written.  The frames of
\* the tail, and of the write that runs, are the end of what is on the wire behind
\* the settings or pending; before the first torn write they are all of it.
Written ==
  /\ pc # "idle" /\ job = <<>> => tail = <<>>
  /\ Opened => \E at : /\ Framed(at, tail \o job, Data \o pending)
                       /\ torn = 0 => at[1] = 0

LEMMA DataType ==
  ASSUME ClientInv, Opened
  PROVE  Data \in Seq(Byte) /\ (Len(wire) = 20 => Data = <<>>)
<1>1. wire \in Seq(Byte) /\ Len(wire) >= 20
  BY DEF ClientInv
<1>2. SubSeq(wire, 21, Len(wire)) \in Seq(Byte)
  BY <1>1
<1>3. Len(wire) = 20 => SubSeq(wire, 21, Len(wire)) = <<>>
  BY <1>1
<1>4. CMD_FRAME_SIZE + 1 = 21
  BY DEF CMD_FRAME_SIZE
<1> QED
  BY <1>2, <1>3, <1>4 DEF Data

LEMMA WrittenInit == Init => Written
BY DEF Init, Written, Opened

LEMMA WrittenStep ==
  ASSUME Messages \subseteq DataMessage, ClientInv, Counted, Written, [Next]_vars
  PROVE  Written'
<1>1. /\ job \in Seq(Messages) /\ tail \in Seq(Messages) /\ torn \in Nat
      /\ pending \in Seq(Byte) /\ wire \in Seq(Byte)
  BY DEF Counted, ClientInv
<1>2. \A x \in Seq(Messages) : x \in Seq(DataMessage) /\ x \o <<>> = x
  BY SeqMonotonic
<1>3. ASSUME NEW m \in Messages, Write(m)
      PROVE  Written'
  <2>1. Opened /\ job = <<>> /\ pending = <<>>
    BY <1>3 DEF Write, Opened, Counted
  <2>2. Data \in Seq(Byte)
    BY <2>1, DataType
  <2>3. PICK at : Framed(at, tail \o job, Data \o pending) /\ (torn = 0 => at[1] = 0)
    BY <2>1 DEF Written
  <2>4. tail \o job = tail /\ Data \o pending = Data
    BY <1>1, <2>1, <2>2
  <2>5. m \in DataMessage /\ tail \in Seq(DataMessage)
    BY <1>1, <1>2
  <2>6. PICK on : Framed(on, tail \o <<m>>, Data \o Bytes(m)) /\ on[1] = at[1]
    <3>1. Framed(at, tail, Data)
      BY <2>3, <2>4
    <3> QED
      BY <2>2, <2>5, <3>1, FramedOn
  <2>7. /\ pc' = "write" /\ job' = <<m>> /\ pending' = Bytes(m)
        /\ tail' = tail /\ torn' = torn /\ wire' = wire
    BY <1>3 DEF Write, Bytes
  <2>8. Data' = Data
    BY <2>7 DEF Data
  <2>9. Framed(on, tail' \o job', Data' \o pending') /\ (torn' = 0 => on[1] = 0)
    BY <2>3, <2>6, <2>7, <2>8
  <2>10. job' # <<>>
    BY <2>7
  <2> QED
    BY <2>9, <2>10 DEF Written
<1>4. ASSUME WriteAll
      PROVE  Written'
  <2>1. PICK n \in 1..Len(pending) :
          /\ wire' = wire \o SubSeq(pending, 1, n)
          /\ pending' = SubSeq(pending, n + 1, Len(pending))
    BY <1>4 DEF WriteAll
  <2>2. /\ pc = "write" /\ pc' \in {"write", "flush"}
        /\ job' = job /\ tail' = tail /\ torn' = torn
    BY <1>4 DEF WriteAll
  <2>3. Opened' <=> Opened
    BY <2>2 DEF Opened
  <2>4. ASSUME Opened PROVE Data' \o pending' = Data \o pending
    <3>1. Len(wire) >= 20
      BY <2>4 DEF ClientInv
    <3>2. SubSeq(wire', 21, Len(wire')) \o pending' = SubSeq(wire, 21, Len(wire)) \o pending
      BY <1>1, <2>1, <3>1, TakenInPlace
    <3>3. CMD_FRAME_SIZE + 1 = 21
      BY DEF CMD_FRAME_SIZE
    <3> QED
      BY <3>2, <3>3 DEF Data
  <2>5. ASSUME Opened
        PROVE  \E at : Framed(at, tail' \o job', Data' \o pending') /\ (torn' = 0 => at[1] = 0)
    <3>1. PICK at : Framed(at, tail \o job, Data \o pending) /\ (torn = 0 => at[1] = 0)
      BY <2>5 DEF Written
    <3> QED
      BY <2>2, <2>4, <2>5, <3>1
  <2>6. pc' # "idle" /\ job' = <<>> => tail' = <<>>
    BY <2>2 DEF Written
  <2> QED
    BY <2>3, <2>5, <2>6 DEF Written
<1>5. ASSUME Flush
      PROVE  Written'
  <2>1. /\ pc = "flush" /\ job' = <<>> /\ tail' = tail \o job /\ pending' = pending
        /\ wire' = wire /\ torn' = torn /\ Data' = Data /\ pending = <<>>
        /\ pc' = IF job = <<>> THEN "settle" ELSE "idle"
    BY <1>5 DEF Flush, Data, Counted
  <2>2. CASE job = <<>>
    <3>1. tail' = <<>>
      <4>1. tail = <<>> /\ <<>> \o <<>> = <<>>
        BY <2>1, <2>2 DEF Written
      <4> QED
        BY <2>1, <2>2, <4>1
    <3>2. Data' \o pending' = <<>>
      <4>1. Opening /\ Len(wire) + Len(pending) = 20 /\ Len(pending) = 0 /\ Len(wire) \in Nat
        BY <1>1, <2>1, <2>2 DEF Opening, ClientInv
      <4>2. Len(wire) = 20
        BY <4>1
      <4>3. SubSeq(wire, 21, Len(wire)) = <<>> /\ CMD_FRAME_SIZE + 1 = 21
        BY <1>1, <4>2 DEF CMD_FRAME_SIZE
      <4>4. Data = <<>> /\ <<>> \o <<>> = <<>>
        BY <4>3 DEF Data
      <4> QED
        BY <2>1, <4>4
    <3>3. Framed(<<Len(<<>>)>>, <<>>, <<>>)
      <4>1. <<>> \in Seq(Byte)
        OBVIOUS
      <4> QED
        BY <4>1, FramedNone
    <3>4. <<Len(<<>>)>>[1] = 0 /\ <<>> \o <<>> = <<>>
      OBVIOUS
    <3>5. Framed(<<Len(<<>>)>>, tail' \o job', Data' \o pending')
      BY <2>1, <3>1, <3>2, <3>3, <3>4
    <3> QED
      BY <3>1, <3>4, <3>5 DEF Written
  <2>3. CASE job # <<>>
    <3>1. Opened
      BY <2>3 DEF Opened
    <3>2. PICK at : Framed(at, tail \o job, Data \o pending) /\ (torn = 0 => at[1] = 0)
      BY <3>1 DEF Written
    <3>3. tail' \o job' = tail \o job
      BY <1>1, <2>1
    <3>4. Framed(at, tail' \o job', Data' \o pending') /\ (torn' = 0 => at[1] = 0)
      BY <2>1, <3>2, <3>3
    <3> QED
      BY <2>1, <2>3, <3>4 DEF Written
  <2> QED
    BY <2>2, <2>3
<1>6. ASSUME Settle
      PROVE  Written'
  <2>1. /\ pc = "settle" /\ pc' = "idle" /\ job' = job /\ tail' = tail /\ pending' = pending
        /\ wire' = wire /\ torn' = torn /\ Data' = Data
    BY <1>6 DEF Settle, Data
  <2>2. PICK at : Framed(at, tail \o job, Data \o pending) /\ (torn = 0 => at[1] = 0)
    BY <2>1 DEF Written, Opened
  <2>3. Framed(at, tail' \o job', Data' \o pending') /\ (torn' = 0 => at[1] = 0)
    BY <2>1, <2>2
  <2> QED
    BY <2>1, <2>3 DEF Written
<1>7. ASSUME GiveUp, pc \in {"write", "flush", "settle"}
      PROVE  Written'
  <2>1. /\ job' = <<>> /\ pending' = <<>> /\ wire' = wire /\ Data' = Data
    BY <1>7 DEF GiveUp, Data
  <2>2. CASE job = <<>>
    <3>1. pc' = "closed" /\ tail' = tail /\ tail = <<>>
      BY <1>7, <2>2 DEF GiveUp, Written
    <3> QED
      BY <2>1, <3>1 DEF Written, Opened
  <2>3. CASE job # <<>>
    <3>1. pc' = "idle" /\ torn' = torn + 1 /\ tail' = <<>>
      BY <1>7, <2>3 DEF GiveUp
    <3>2. Data \in Seq(Byte)
      BY <2>3, DataType DEF Opened
    <3>3. Framed(<<Len(Data)>>, <<>>, Data)
      BY <3>2, FramedNone
    <3>4. Data \o <<>> = Data
      BY <3>2
    <3>5. <<>> \o <<>> = <<>>
      OBVIOUS
    <3>6. Framed(<<Len(Data)>>, tail' \o job', Data' \o pending')
      BY <2>1, <3>1, <3>3, <3>4, <3>5
    <3>7. torn' # 0
      BY <1>1, <3>1
    <3> QED
      BY <3>1, <3>6, <3>7 DEF Written
  <2> QED
    BY <2>2, <2>3
<1>8. ASSUME Unplug
      PROVE  Written'
  <2>1. /\ pc' = pc /\ job' = job /\ tail' = tail /\ pending' = pending
        /\ wire' = wire /\ torn' = torn
    BY <1>8 DEF Unplug
  <2> QED
    BY <2>1 DEF Written, Opened, Data
<1>9. ASSUME UNCHANGED vars
      PROVE  Written'
  BY <1>9 DEF vars, Written, Opened, Data
<1> QED
  BY <1>3, <1>4, <1>5, <1>6, <1>7, <1>8, <1>9 DEF Next, WriteFails, Cancel

LEMMA WrittenAlways ==
  ASSUME Messages \subseteq DataMessage
  PROVE  Spec => [](ClientInv /\ Counted /\ Written)
<1>1. Init => ClientInv /\ Counted /\ Written
  BY ClientInit, CountedInit, WrittenInit
<1>2. ClientInv /\ Counted /\ Written /\ [Next]_vars => ClientInv' /\ Counted' /\ Written'
  BY ClientStep, CountedStep, WrittenStep
<1> QED
  BY <1>1, <1>2, PTL DEF Spec

\* Between writes, the frames of the tail are the end of the bytes sent.
LEMMA WrittenIdle ==
  ASSUME ClientInv, Counted, Written, pc = "idle"
  PROVE  /\ Data \in Seq(Byte) /\ tail \in Seq(Messages)
         /\ \E at : Framed(at, tail, Data) /\ (torn = 0 => at[1] = 0)
<1>1. Opened /\ job = <<>> /\ pending = <<>> /\ tail \in Seq(Messages)
  BY DEF Opened, Counted
<1>2. Data \in Seq(Byte)
  BY <1>1, DataType
<1>3. PICK at : Framed(at, tail \o job, Data \o pending) /\ (torn = 0 => at[1] = 0)
  BY <1>1 DEF Written
<1>4. tail \o job = tail /\ Data \o pending = Data
  BY <1>1, <1>2
<1> QED
  BY <1>1, <1>2, <1>3, <1>4

\* A client none of whose writes was dropped or failed, however the port took
\* their bytes: the protocol's own scanner reads from the wire, behind the
\* settings, the data messages it wrote, in order, and nothing else.
THEOREM WritesAreRead ==
  ASSUME Messages \subseteq DataMessage
  PROVE  Spec => []WritesReadBack
<1>1. ClientInv /\ Counted /\ Written => WritesReadBack
  <2> SUFFICES ASSUME ClientInv, Counted, Written, pc = "idle", torn = 0
               PROVE  Scan(Data) = tail
    BY DEF WritesReadBack
  <2>1. PICK at : Framed(at, tail, Data) /\ at[1] = 0
    BY WrittenIdle
  <2>2. Data \in Seq(Byte) /\ tail \in Seq(DataMessage)
    BY WrittenIdle, SeqMonotonic
  <2> QED
    BY <2>1, <2>2, ExactScan
<1> QED
  BY <1>1, WrittenAlways, PTL

\* However many writes were torn and wherever: of the messages written since the
\* last of them, when their frames hold no start byte but the first, all but three
\* are read, and they are the last that are.
THEOREM TornCostsThree ==
  ASSUME Messages \subseteq PlainMessage
  PROVE  Spec => []TornWriteBounded
<1>1. Messages \subseteq DataMessage
  BY DEF PlainMessage
<1>2. ClientInv /\ Counted /\ Written => TornWriteBounded
  <2> SUFFICES ASSUME ClientInv, Counted, Written, pc = "idle", NEW n \in 1..(Len(tail) - 3)
               PROVE  LET scanned == Scan(Data)
                      IN  /\ Len(scanned) >= n
                          /\ scanned[Len(scanned) + 1 - n] = tail[Len(tail) + 1 - n]
    BY Zenon DEF TornWriteBounded
  <2>1. PICK at : Framed(at, tail, Data)
    BY WrittenIdle
  <2>2. Data \in Seq(Byte) /\ tail \in Seq(PlainMessage)
    BY WrittenIdle, SeqMonotonic
  <2>3. Len(tail) >= 4
    BY <2>2
  <2>4. AllButThree(Scan(Data), tail)
    BY <2>1, <2>2, <2>3, TornScan
  <2> QED
    BY <2>4 DEF AllButThree
<1> QED
  BY <1>1, <1>2, WrittenAlways, PTL
=============================================================================
