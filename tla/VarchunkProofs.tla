---------------------------- MODULE VarchunkProofs ----------------------------
(***************************************************************************)
(* Theorems about Varchunk: the ring never grants bytes that are still to  *)
(* be read and implements a FIFO queue, for any size of the ring and any   *)
(* sizes of chunks, as long as VARCHUNK_PAD does not lose the upper half   *)
(* of a size (SizesFit).                                                   *)
(***************************************************************************)
EXTENDS Varchunk, SequenceTheorems, TLAPS

USE SizeAssumption DEF Header

(* no size so large that rounding it up leaves 32 bits *)
Fits(n) == n \in Nat /\ n + Header <= PadModulus
SizesFit == \A n \in Sizes : Fits(n)
-----------------------------------------------------------------------------
(* The arithmetic *)
LEMMA ModOnce ==
  ASSUME NEW m \in Nat \ {0}, NEW a \in Nat, a < 2 * m
  PROVE  a % m = IF a < m THEN a ELSE a - m
OBVIOUS

LEMMA Wrapped == \A a \in Nat : a < 2 * Size => a % Size = IF a < Size THEN a ELSE a - Size
<1> TAKE a \in Nat
<1>1. Size \in Nat \ {0}
  OBVIOUS
<1> QED
  BY <1>1, ModOnce

LEMMA PadFacts ==
  ASSUME NEW n, Fits(n)
  PROVE  /\ Pad(n) \in Nat /\ Pad(n) % 8 = 0 /\ n <= Pad(n)
         /\ Pad(n) = ((n + 7) \div 8) * 8
         /\ Words(n) \in Nat /\ 8 * Words(n) = Pad(n)
<1>1. n \in Nat /\ n + 7 < PadModulus
  BY DEF Fits
<1> DEFINE up == ((n + 7) \div 8) * 8
<1>2. up \in Nat /\ up < PadModulus /\ up % 8 = 0 /\ n <= up
  BY <1>1
<1>3. Pad(n) = up
  <2> HIDE DEF up
  <2>1. up % PadModulus = up
    BY <1>2, ModOnce
  <2> QED
    BY <2>1 DEF Pad, up
<1> QED
  BY <1>1, <1>2, <1>3 DEF Words

LEMMA PadMonotone ==
  ASSUME NEW m, NEW n, Fits(m), Fits(n), m <= n
  PROVE  Pad(m) <= Pad(n)
<1>1. m \in Nat /\ n \in Nat /\ (m + 7) \div 8 <= (n + 7) \div 8
  BY DEF Fits
<1> QED
  BY <1>1, PadFacts

LEMMA NoneFits == Fits(0) /\ Pad(0) = 0 /\ Words(0) = 0
<1>1. Fits(0)
  BY DEF Fits
<1>2. Pad(0) = 0
  BY <1>1, PadFacts
<1> QED
  BY <1>1, <1>2 DEF Words

LEMMA CellFacts ==
  /\ \A p : p \in Cells <=> p \in 0 .. Size - 1 /\ p % 8 = 0
  /\ \A p \in Cells : p + 8 <= Size
  /\ \A p, q \in Cells : p < q => p + 8 <= q
  /\ 0 \in Cells
BY DEF Cells

LEMMA ReserveFacts ==
  ASSUME NEW h \in Cells, NEW t \in Cells, NEW n, Fits(n), NEW r, r = Reserve(h, t, n)
  PROVE  /\ r.rsvd \in 0 .. Size /\ r.gapd \in 0 .. Size
         /\ r # Refused =>
              /\ Padded(n) <= r.rsvd
              /\ r.gapd = 0 => h + r.rsvd <= Size /\ (t <= h \/ h + r.rsvd < t)
              /\ r.gapd > 0 => r.gapd = Size - h /\ t <= h /\ r.rsvd < t
<1> DEFINE space == WritableSpace(h, t)
           len2  == (h + space) % Size
<1>1. h \in 0 .. Size - 1 /\ t \in 0 .. Size - 1 /\ Padded(n) \in Nat /\ Padded(n) > 0
  <2>1. Padded(n) \in Nat /\ Padded(n) > 0
    BY PadFacts DEF Padded
  <2> QED
    BY <2>1, CellFacts
<1>2. space = IF h > t THEN t - h + Size - 1 ELSE IF h < t THEN t - h - 1 ELSE Size - 1
  <2>1. ASSUME h > t PROVE (t - h + Size) % Size = t - h + Size
    <3>1. t - h + Size \in Nat /\ t - h + Size < Size /\ Size \in Nat \ {0}
      BY <1>1, <2>1
    <3> QED
      BY <3>1, ModOnce
  <2> QED
    BY <1>1, <2>1 DEF WritableSpace
<1>3. h + space > Size => len2 = t - 1 /\ t <= h /\ t > 0
  <2> SUFFICES ASSUME h + space > Size PROVE len2 = t - 1 /\ t <= h /\ t > 0
    OBVIOUS
  <2>1. t <= h /\ h + space = t + Size - 1 /\ t > 0
    BY <1>1, <1>2
  <2>2. (t + Size - 1) % Size = t - 1
    <3>1. t + Size - 1 \in Nat /\ t + Size - 1 < 2 * Size /\ Size \in Nat \ {0}
      BY <1>1, <2>1
    <3>2. ~(t + Size - 1 < Size) /\ t + Size - 1 - Size = t - 1
      BY <1>1, <2>1
    <3> DEFINE a == t + Size - 1
    <3>3. a \in Nat /\ a < 2 * Size /\ ~(a < Size) /\ a - Size = t - 1
      BY <1>1, <3>1, <3>2
    <3> HIDE DEF a
    <3>4. a % Size = t - 1
      BY <3>3, Wrapped
    <3> QED
      BY <3>4 DEF a
  <2> QED
    BY <2>1, <2>2
<1>4. space \in Nat /\ space < Size
  BY <1>1, <1>2
<1> HIDE DEF space, len2
<1>5. r = IF h + space > Size
          THEN IF Size - h >= Padded(n) THEN [rsvd |-> Size - h, gapd |-> 0]
               ELSE IF len2 >= Padded(n) THEN [rsvd |-> len2, gapd |-> Size - h]
               ELSE Refused
          ELSE IF space >= Padded(n) THEN [rsvd |-> space, gapd |-> 0] ELSE Refused
  BY DEF Reserve, space, len2
<1>6. CASE r = [rsvd |-> Size - h, gapd |-> 0] /\ h + space > Size /\ Size - h >= Padded(n)
  BY <1>1, <1>3, <1>6
<1>7. CASE r = [rsvd |-> len2, gapd |-> Size - h] /\ h + space > Size /\ len2 >= Padded(n)
  BY <1>1, <1>3, <1>7
<1>8. CASE r = [rsvd |-> space, gapd |-> 0] /\ ~(h + space > Size) /\ space >= Padded(n)
  BY <1>1, <1>2, <1>4, <1>8
<1>9. CASE r = Refused
  BY <1>9 DEF Refused
<1> QED
  BY <1>5, <1>6, <1>7, <1>8, <1>9
-----------------------------------------------------------------------------
(* The type invariant, by parts *)
Positions ==
  /\ head \in Cells /\ tail \in Cells /\ seen \in Cells
  /\ rsvd \in 0 .. Size /\ gapd \in 0 .. Size
  /\ toread \in Nat
Buffer == buf \in [Cells -> Cell]
Job ==
  /\ ppc \in {"idle", "begin", "fill", "publish"}
  /\ minimum \in Sizes \cup {0}
  /\ job \in [size : Sizes \cup {0}, val : Values \cup {NoValue}]
  /\ filled \in 0 .. Words(job.size)
Copy ==
  /\ cpc \in {"idle", "look", "skip", "second", "read"}
  /\ copied \in 0 .. Words(toread)
  /\ copy \subseteq Values \cup {NoValue}
  /\ got \in {NoChunk} \cup [size : Nat, vals : SUBSET (Values \cup {NoValue})]

LEMMA TypeParts == TypeOK <=> Positions /\ Buffer /\ Job /\ Copy
BY Zenon DEF TypeOK, Positions, Buffer, Job, Copy

LEMMA Places ==
  ASSUME Positions
  PROVE  /\ head \in 0 .. Size - 1 /\ tail \in 0 .. Size - 1 /\ seen \in 0 .. Size - 1
         /\ head % 8 = 0 /\ tail % 8 = 0
         /\ head + 8 <= Size /\ tail + 8 <= Size
BY CellFacts DEF Positions

LEMMA UnreadAhead ==
  ASSUME Positions
  PROVE  \A p \in 0 .. Size - 1 : Unread(p) <=> Ahead(p) < Ahead(head)
BY Places DEF Unread, Ahead

LEMMA Spans ==
  ASSUME SizesFit, Positions, Buffer, Chain, NEW c \in starts
  PROVE  /\ c \in 0 .. Size - 1 /\ Span(c) \in Nat /\ Span(c) >= 8 /\ Span(c) % 8 = 0
         /\ Ahead(c) \in 0 .. Size - 1
<1>1. c \in 0 .. Size - 1 /\ c % 8 = 0 /\ c + 8 <= Size /\ c \in Cells
  BY CellFacts DEF Chain
<1>2. CASE buf[c].gap
  BY <1>1, <1>2, Places DEF Span, Ahead
<1>3. CASE ~buf[c].gap
  <2>1. Fits(buf[c].size)
    BY <1>3 DEF Chain, SizesFit
  <2>2. Span(c) = 8 + Pad(buf[c].size)
    BY <1>3 DEF Span
  <2>3. Pad(buf[c].size) \in Nat /\ Pad(buf[c].size) % 8 = 0
    BY <2>1, PadFacts
  <2> QED
    BY <1>1, <2>2, <2>3, Places DEF Ahead
<1> QED
  BY <1>2, <1>3

(* A store that leaves the headers of unread chunks alone leaves the chain. *)
LEMMA ChainKeeps ==
  ASSUME SizesFit, Positions, Buffer, Chain, UNCHANGED <<head, tail, starts>>,
         \A c \in starts : buf'[c] = buf[c]
  PROVE  Chain'
<1>1. \A c \in starts : Span(c)' = Span(c) /\ Ahead(c)' = Ahead(c) /\ (Unread(c)' <=> Unread(c))
  BY DEF Span, Ahead, Unread
<1>2. Ahead(head)' = Ahead(head)
  BY DEF Ahead
<1>3. \A c \in starts : buf[c].gap => 0 \in starts /\ buf'[0] = buf[0]
  BY DEF Chain
<1> QED
  BY <1>1, <1>2, <1>3 DEF Chain

(* The tail moves over one chunk or gap. *)
LEMMA TailStep ==
  ASSUME SizesFit, Positions, Buffer, Chain, tail \in starts,
         tail' = (tail + Span(tail)) % Size, starts' = starts \ {tail}, UNCHANGED <<buf, head>>
  PROVE  /\ Chain' /\ tail' \in Cells
         /\ IF tail < head THEN tail < tail' /\ tail' <= head
                           ELSE head < tail /\ (tail' > tail \/ tail' <= head)
<1> DEFINE s == Span(tail)
<1>1. /\ s \in Nat /\ s >= 8 /\ s % 8 = 0 /\ tail + s <= Size /\ Ahead(tail) = 0
      /\ s <= Ahead(head) /\ tail \in 0 .. Size - 1 /\ head \in 0 .. Size - 1
      /\ tail % 8 = 0
  <2>1. tail \in 0 .. Size - 1 /\ head \in 0 .. Size - 1 /\ tail % 8 = 0
    BY Places
  <2>2. Ahead(tail) = 0
    BY <2>1 DEF Ahead
  <2>3. s \in Nat /\ s >= 8 /\ s % 8 = 0
    BY Spans
  <2>4. tail + s <= Size /\ Ahead(tail) + s <= Ahead(head)
    BY DEF Chain
  <2> QED
    BY <2>1, <2>2, <2>3, <2>4
<1>2. tail' = IF tail + s = Size THEN 0 ELSE tail + s
  <2> DEFINE a == tail + s
  <2>1. tail' = a % Size
    OBVIOUS
  <2>2. a \in Nat /\ a <= Size /\ Size \in Nat \ {0}
    BY <1>1
  <2> HIDE DEF a, s
  <2>3. a % Size = IF a < Size THEN a ELSE a - Size
    BY <2>2, Wrapped
  <2>4. tail' = IF a = Size THEN 0 ELSE a
    BY <2>1, <2>2, <2>3
  <2> QED
    BY <2>4 DEF a
<1> HIDE DEF s
<1>3. tail' \in 0 .. Size - 1 /\ tail' % 8 = 0 /\ tail' \in Cells
  BY <1>1, <1>2, CellFacts
<1>4. \A p \in 0 .. Size - 1 : Ahead(p) >= s => Ahead(p)' = Ahead(p) - s
  BY <1>1, <1>2 DEF Ahead
<1>5. Ahead(head)' = Ahead(head) - s /\ Ahead(head) \in 0 .. Size - 1
  BY <1>1, <1>4 DEF Ahead
<1>6. \A c \in starts' : /\ c \in starts /\ c \in 0 .. Size - 1 /\ Ahead(c) \in 0 .. Size - 1
                        /\ Ahead(c) >= s /\ Ahead(c)' = Ahead(c) - s
                        /\ Span(c)' = Span(c) /\ Span(c) \in Nat
  <2> SUFFICES ASSUME NEW c \in starts, c # tail
               PROVE  /\ c \in 0 .. Size - 1 /\ Ahead(c) \in 0 .. Size - 1
                      /\ Ahead(c) >= s /\ Ahead(c)' = Ahead(c) - s
                      /\ Span(c)' = Span(c) /\ Span(c) \in Nat
    OBVIOUS
  <2>1. c \in 0 .. Size - 1 /\ Ahead(c) \in 0 .. Size - 1 /\ Span(c) \in Nat
    BY Spans
  <2>2. Ahead(c) # 0
    BY <1>1, <2>1 DEF Ahead
  <2>3. Ahead(c) <= Ahead(tail) \/ Ahead(c) >= Ahead(tail) + Span(tail)
    BY DEF Chain
  <2>4. Ahead(c) >= s
    BY <1>1, <2>1, <2>2, <2>3 DEF s
  <2>5. Span(c)' = Span(c)
    BY DEF Span
  <2> QED
    BY <1>4, <2>1, <2>4, <2>5
<1>7. tail' \in starts' \cup {head}
  <2>1. tail' \in starts \cup {head}
    BY DEF Chain
  <2>2. tail' # tail
    BY <1>1, <1>2 DEF Ahead
  <2> QED
    BY <2>1, <2>2
<1>8. ASSUME NEW c \in starts'
      PROVE  /\ Unread(c)' /\ c + Span(c)' <= Size /\ Ahead(c)' + Span(c)' <= Ahead(head)'
             /\ \A d \in starts' : Ahead(d)' <= Ahead(c)' \/ Ahead(d)' >= Ahead(c)' + Span(c)'
  <2>1. c + Span(c) <= Size /\ Ahead(c) + Span(c) <= Ahead(head)
    BY <1>6 DEF Chain
  <2>2. \A d \in starts' : Ahead(d) <= Ahead(c) \/ Ahead(d) >= Ahead(c) + Span(c)
    BY <1>6 DEF Chain
  <2> DEFINE z == Span(c)
  <2>3. z \in Nat /\ z >= 8 /\ Span(c)' = z
    BY <1>6, Spans
  <2> HIDE DEF z
  <2>4. Ahead(c) + z <= Ahead(head) /\ Ahead(c) \in Int /\ Ahead(head) \in Int
        /\ Ahead(c)' = Ahead(c) - s /\ Ahead(head)' = Ahead(head) - s
    BY <1>5, <1>6, <2>1 DEF z
  <2>5. Ahead(c)' < Ahead(head)'
    BY <1>1, <2>3, <2>4
  <2>6. Unread(c)'
    BY <1>1, <1>3, <1>6, <2>5 DEF Unread, Ahead
  <2> QED
    <3>1. Ahead(c)' + z <= Ahead(head)'
      BY <1>1, <2>3, <2>4
    <3>2. ASSUME NEW d \in starts'
          PROVE  Ahead(d)' <= Ahead(c)' \/ Ahead(d)' >= Ahead(c)' + z
      <4>1. Ahead(d) <= Ahead(c) \/ Ahead(d) >= Ahead(c) + z
        BY <2>2 DEF z
      <4>2. Ahead(d)' = Ahead(d) - s /\ Ahead(d) \in Int /\ Ahead(c) \in Int
            /\ Ahead(c)' = Ahead(c) - s
        BY <1>6
      <4> QED
        BY <1>1, <2>3, <4>1, <4>2
    <3> QED
      BY <2>1, <2>6, <2>3, <3>1, <3>2 DEF z
<1>9. ASSUME NEW c \in starts'
      PROVE  /\ (c + Span(c)') % Size \in starts' \cup {head}
             /\ IF buf[c].gap THEN 0 \in starts' /\ ~buf[0].gap ELSE buf[c].size \in Sizes
  <2> DEFINE x == (c + Span(c)) % Size
  <2>1. /\ c + Span(c) <= Size /\ Ahead(c) + Span(c) <= Ahead(head) /\ Span(c) >= 8
        /\ c \in 0 .. Size - 1 /\ Span(c) \in Nat
    BY <1>6, Spans DEF Chain
  <2>2. x = IF c + Span(c) = Size THEN 0 ELSE c + Span(c)
    <3> DEFINE a == c + Span(c)
    <3>1. a \in Nat /\ a <= Size /\ Size \in Nat \ {0} /\ x = a % Size
      BY <2>1
    <3> HIDE DEF a, x
    <3>2. a % Size = IF a < Size THEN a ELSE a - Size
      BY <3>1, Wrapped
    <3>3. x = IF a = Size THEN 0 ELSE a
      BY <3>1, <3>2
    <3> QED
      BY <3>3 DEF a
  <2>3. Span(c)' = Span(c)
    BY <1>6
  <2> HIDE DEF x
  <2>4. x # tail
    BY <1>1, <1>5, <2>1, <2>2 DEF Ahead
  <2>5. x \in starts \cup {head}
    BY <1>6 DEF Chain, x
  <2>6. ASSUME buf[c].gap PROVE 0 \in starts'
    <3>1. x = 0
      BY <2>1, <2>2, <2>6 DEF Span
    <3>2. 0 \in starts
      BY <1>6, <2>6 DEF Chain
    <3> QED
      BY <2>4, <3>1, <3>2
  <2>7. IF buf[c].gap THEN ~buf[0].gap ELSE buf[c].size \in Sizes
    BY <1>6 DEF Chain
  <2>8. (c + Span(c)') % Size = x
    BY <2>3 DEF x
  <2> QED
    BY <2>4, <2>5, <2>6, <2>7, <2>8
<1>10. starts' \subseteq Cells
  BY DEF Chain
<1>11. IF tail < head THEN tail < tail' /\ tail' <= head
                      ELSE head < tail /\ (tail' > tail \/ tail' <= head)
  BY <1>1, <1>2 DEF Ahead
<1> QED
  BY <1>3, <1>7, <1>8, <1>9, <1>10, <1>11 DEF Chain
-----------------------------------------------------------------------------
(* What the producer may store to, if it writes n bytes. *)
LEMMA Claims ==
  ASSUME SizesFit, Positions, Room, ppc # "idle", NEW n \in Sizes, n <= minimum
  PROVE  LET L == Header + Pad(n)
         IN /\ L \in Nat /\ L >= 8 /\ L % 8 = 0 /\ Start + L < Size
            /\ Start \in Cells /\ ~Unread(head)
            /\ gapd > 0 => /\ Start = 0 /\ gapd = Size - head
                           /\ 0 < tail /\ tail <= head /\ L < tail
            /\ gapd = 0 => Start = head /\ (tail <= head \/ head + L < tail)
            /\ \A p \in Start .. Start + L - 1 : ~Unread(p)
<1> DEFINE L == Header + Pad(n)
<1>1. Fits(n) /\ Fits(minimum) /\ minimum \in Sizes
  BY DEF Room, SizesFit
<1>2. L \in Nat /\ L >= 8 /\ L % 8 = 0
  BY <1>1, PadFacts
<1>3. L + 8 <= rsvd
  <2>1. Pad(n) <= Pad(minimum) /\ Pad(n) \in Nat /\ Pad(minimum) \in Nat
    BY <1>1, PadFacts, PadMonotone
  <2>2. 16 + Pad(minimum) <= rsvd /\ rsvd \in Int
    BY DEF Room, Padded, Positions
  <2> QED
    BY <2>1, <2>2
<1>4. /\ head \in 0 .. Size - 1 /\ tail \in 0 .. Size - 1 /\ rsvd \in Nat /\ gapd \in Nat
      /\ head \in Cells
  BY Places DEF Positions
<1> HIDE DEF L
<1>5. ~Unread(head)
  BY <1>4 DEF Unread
<1>6. CASE gapd > 0
  <2>1. gapd = Size - head /\ tail <= head /\ rsvd < tail /\ Start = 0
    BY <1>6 DEF Room, Start
  <2>2. 0 < tail /\ tail <= head /\ L < tail /\ Start + L < Size /\ Start \in Cells
    BY <1>2, <1>3, <1>4, <2>1, CellFacts
  <2>3. \A p \in Start .. Start + L - 1 : ~Unread(p)
    BY <1>2, <1>4, <2>1, <2>2 DEF Unread
  <2> QED
    BY <1>2, <1>5, <1>6, <2>1, <2>2, <2>3 DEF L
<1>7. CASE gapd = 0
  <2>1. head + rsvd <= Size /\ (tail <= head \/ head + rsvd < tail) /\ Start = head
    BY <1>7 DEF Room, Start
  <2> QED
    BY <1>2, <1>3, <1>4, <1>5, <1>7, <2>1 DEF Unread, L
<1> QED
  BY <1>4, <1>6, <1>7

LEMMA Writes ==
  ASSUME SizesFit, Positions, Room, ppc \in {"fill", "publish"}
  PROVE  job.size \in Sizes /\ job.size <= minimum
BY DEF Room

(* The position Publish stores. *)
LEMMA NewHead ==
  ASSUME SizesFit, Positions, Room, Publish
  PROVE  head' = Start + Header + Pad(job.size) /\ head' \in Cells
<1> DEFINE a == head + gapd + Header + Pad(job.size)
           L == Header + Pad(job.size)
<1>1. job.size \in Sizes /\ job.size <= minimum /\ ppc # "idle" /\ head' = a % Size
  BY Writes DEF Publish
<1>2. /\ L \in Nat /\ L % 8 = 0 /\ Start + L < Size /\ Start \in Cells
      /\ gapd > 0 => Start = 0 /\ gapd = Size - head
      /\ gapd = 0 => Start = head
  BY <1>1, Claims
<1>3. head \in 0 .. Size - 1 /\ gapd \in Nat /\ Start \in 0 .. Size - 1 /\ Start % 8 = 0
  BY <1>2, Places, CellFacts DEF Positions
<1>4. a = head + gapd + L
  <2>1. Pad(job.size) \in Nat
    BY <1>1, PadFacts DEF SizesFit
  <2> QED
    BY <1>3, <2>1
<1> HIDE DEF a, L
<1>5. a % Size = Start + L
  <2>1. a \in Nat /\ a < 2 * Size /\ a = IF gapd > 0 THEN Size + L ELSE head + L
    BY <1>2, <1>3, <1>4
  <2>2. a % Size = IF a < Size THEN a ELSE a - Size
    BY <2>1, Wrapped
  <2> QED
    BY <1>2, <1>3, <2>1, <2>2
<1>6. Start + L \in Cells
  BY <1>2, <1>3, CellFacts
<1>7. Start + L = Start + Header + Pad(job.size)
  <2>1. Pad(job.size) \in Nat
    BY <1>1, PadFacts DEF SizesFit
  <2> QED
    BY <1>3, <2>1 DEF L
<1> QED
  BY <1>1, <1>5, <1>6, <1>7

(* A gap at the tail is seen as one. *)
LEMMA LookFinds ==
  ASSUME SizesFit, Positions, Buffer, Chain, Reader, cpc = "look", buf[tail].gap
  PROVE  tail + ReadableSpace(seen, tail) > Size
<1>1. tail \in starts /\ seen \in starts \cup {head} /\ seen # tail /\ seen # 0
  BY DEF Reader
<1>2. Span(tail) = Size - tail
  BY DEF Span
<1>3. /\ tail \in 0 .. Size - 1 /\ head \in 0 .. Size - 1 /\ seen \in 0 .. Size - 1
      /\ Ahead(tail) = 0
  BY Places DEF Ahead
<1>4. Ahead(tail) + Span(tail) <= Ahead(head)
  BY <1>1 DEF Chain
<1>5. Ahead(seen) >= Size - tail
  <2>1. CASE seen = head
    BY <1>2, <1>3, <1>4, <2>1
  <2>2. CASE seen \in starts
    <3>1. Ahead(seen) <= Ahead(tail) \/ Ahead(seen) >= Ahead(tail) + Span(tail)
      BY <1>1, <2>2 DEF Chain
    <3>2. Ahead(seen) > 0 /\ Ahead(seen) \in Int
      BY <1>1, <1>3 DEF Ahead
    <3> QED
      BY <1>2, <1>3, <3>1, <3>2
  <2> QED
    BY <1>1, <2>1, <2>2
<1>6. seen < tail
  BY <1>1, <1>3, <1>5 DEF Ahead
<1>7. (seen - tail + Size) % Size = seen - tail + Size
  <2> DEFINE a == seen - tail + Size
  <2>1. a \in Nat /\ a < Size /\ a < 2 * Size
    BY <1>3, <1>6
  <2> HIDE DEF a
  <2>2. a % Size = a
    BY <2>1, Wrapped
  <2> QED
    BY <2>2 DEF a
<1> QED
  BY <1>1, <1>3, <1>6, <1>7 DEF ReadableSpace

LEMMA TailActions ==
  ASSUME SizesFit, Positions, Buffer, Chain, Reader, SkipGap \/ ReadAdvance
  PROVE  /\ tail \in starts /\ tail' = (tail + Span(tail)) % Size /\ starts' = starts \ {tail}
         /\ UNCHANGED <<buf, head, producerVars>>
<1>1. CASE SkipGap
  BY <1>1 DEF SkipGap, Reader, Span
<1>2. CASE ReadAdvance
  <2>1. tail \in starts /\ ~buf[tail].gap /\ tail \in Int
    BY <1>2, Places DEF ReadAdvance, Reader
  <2>2. Pad(buf[tail].size) \in Nat /\ Span(tail) = Header + Pad(buf[tail].size)
    BY <2>1, PadFacts DEF Span, Chain, SizesFit
  <2>3. tail + Header + Pad(buf[tail].size) = tail + Span(tail)
    BY <2>1, <2>2
  <2> QED
    BY <1>2, <2>1, <2>3 DEF ReadAdvance
<1> QED
  BY <1>1, <1>2
-----------------------------------------------------------------------------
(* Every step keeps every part *)
LEMMA Actions ==
  ASSUME Next
  PROVE  \/ \E n \in Sizes : WriteRequest(n)
         \/ \E w \in Sizes, v \in Values : w <= minimum /\ Begin(w, v)
         \/ Fill \/ WriteHeader \/ Publish
         \/ ReadRequest \/ Look \/ SkipGap \/ LookSecond \/ CopyWord \/ ReadAdvance
BY DEF Next, Caller, Writing, Consumer

LEMMA PositionsStep ==
  ASSUME SizesFit, Positions, Buffer, Chain, Room, Reader, Next
  PROVE  Positions'
<1> USE DEF Positions, producerVars, consumerVars
<1>1. CASE \E n \in Sizes : WriteRequest(n)
  <2>1. PICK n \in Sizes : WriteRequest(n)
    BY <1>1
  <2>2. Reserve(head, tail, n).rsvd \in 0 .. Size /\ Reserve(head, tail, n).gapd \in 0 .. Size
    BY ReserveFacts DEF SizesFit
  <2> QED
    BY <2>1, <2>2 DEF WriteRequest
<1>2. CASE \E w \in Sizes, v \in Values : w <= minimum /\ Begin(w, v)
  BY <1>2 DEF Begin
<1>3. CASE Fill
  BY <1>3 DEF Fill
<1>4. CASE WriteHeader
  BY <1>4 DEF WriteHeader
<1>5. CASE Publish
  BY <1>5, NewHead DEF Publish
<1>6. CASE ReadRequest
  BY <1>6 DEF ReadRequest
<1>7. CASE Look
  <2>1. buf[tail].size \in Nat
    BY DEF Buffer, Cell
  <2> QED
    BY <1>7, <2>1 DEF Look, HandOut
<1>8. CASE SkipGap
  <2>1. tail' \in Cells
    BY <1>8, TailActions, TailStep
  <2> QED
    BY <1>8, <2>1 DEF SkipGap
<1>9. CASE LookSecond
  <2>1. buf[0].size \in Nat
    BY CellFacts DEF Buffer, Cell
  <2> QED
    BY <1>9, <2>1 DEF LookSecond, HandOut
<1>10. CASE CopyWord
  BY <1>10 DEF CopyWord
<1>11. CASE ReadAdvance
  <2>1. tail' \in Cells
    BY <1>11, TailActions, TailStep
  <2> QED
    BY <1>11, <2>1, CellFacts DEF ReadAdvance
<1> QED
  BY Actions, <1>1, <1>2, <1>3, <1>4, <1>5, <1>6, <1>7, <1>8, <1>9, <1>10, <1>11

(* The buffer changes in two steps of the producer, and only where nothing *)
(* unread begins.                                                          *)
LEMMA FillPlace ==
  ASSUME SizesFit, Positions, Job, Room, Fill
  PROVE  Word(filled) \in Cells /\ ~Unread(Word(filled)) /\ filled + 1 \in 0 .. Words(job.size)
<1> DEFINE L == Header + Pad(job.size)
<1>1. job.size \in Sizes /\ job.size <= minimum /\ ppc # "idle" /\ filled < Words(job.size)
  BY Writes DEF Fill
<1>2. /\ L \in Nat /\ L % 8 = 0 /\ Start + L < Size /\ Start \in Cells
      /\ \A p \in Start .. Start + L - 1 : ~Unread(p)
  BY <1>1, Claims
<1>3. /\ Words(job.size) \in Nat /\ 8 * Words(job.size) = Pad(job.size) /\ filled \in Nat
      /\ filled + 1 \in 0 .. Words(job.size) /\ Pad(job.size) \in Nat
  <2>1. /\ Words(job.size) \in Nat /\ 8 * Words(job.size) = Pad(job.size)
        /\ Pad(job.size) \in Nat
    BY <1>1, PadFacts DEF SizesFit
  <2>2. filled \in 0 .. Words(job.size)
    BY DEF Job
  <2> QED
    BY <1>1, <2>1, <2>2
<1>4. Start \in 0 .. Size - 1 /\ Start % 8 = 0
  BY <1>2, CellFacts
<1>5. Word(filled) = Start + 8 + 8 * filled /\ 8 + 8 * filled < L
  BY <1>1, <1>3 DEF Word
<1> HIDE DEF L
<1>6. Word(filled) \in Start .. Start + L - 1 /\ Word(filled) \in 0 .. Size - 1
  BY <1>2, <1>3, <1>4, <1>5
<1>7. Word(filled) % 8 = 0
  BY <1>3, <1>4, <1>5
<1> QED
  BY <1>2, <1>3, <1>6, <1>7, CellFacts

LEMMA HeaderPlaces ==
  ASSUME SizesFit, Positions, Room, WriteHeader
  PROVE  /\ job.size \in Sizes /\ head \in Cells /\ 0 \in Cells
         /\ ~Unread(head) /\ (gapd > 0 => ~Unread(0) /\ head # 0 /\ gapd - Header \in Nat)
<1>1. job.size \in Sizes /\ job.size <= minimum /\ ppc # "idle"
  BY Writes DEF WriteHeader
<1>2. /\ Header + Pad(job.size) \in Nat /\ Header + Pad(job.size) >= 8
      /\ ~Unread(head)
      /\ gapd > 0 => Start = 0 /\ gapd = Size - head /\ 0 < tail /\ tail <= head
      /\ \A p \in Start .. Start + (Header + Pad(job.size)) - 1 : ~Unread(p)
  BY <1>1, Claims
<1>3. gapd > 0 => ~Unread(0)
  BY <1>2
<1>4. head \in 0 .. Size - 1 /\ head + 8 <= Size /\ tail \in 0 .. Size - 1
  BY Places
<1>5. gapd > 0 => head # 0 /\ gapd - Header \in Nat
  BY <1>2, <1>4
<1>6. head \in Cells /\ 0 \in Cells
  BY CellFacts DEF Positions
<1> QED
  BY <1>1, <1>2, <1>3, <1>5, <1>6

LEMMA BufferStep ==
  ASSUME SizesFit, Positions, Buffer, Job, Room, Chain, Reader, Next
  PROVE  Buffer' /\ \A c \in Cells : Unread(c) => buf'[c] = buf[c]
<1>1. CASE Fill
  <2>1. buf' = [buf EXCEPT ![Word(filled)] = DataCell(job.val)]
    BY <1>1 DEF Fill
  <2>2. DataCell(job.val) \in Cell
    BY DEF DataCell, Cell, Job
  <2> QED
    BY <1>1, <2>1, <2>2, FillPlace DEF Buffer
<1>2. CASE WriteHeader
  <2>1. job.size \in Nat
    BY <1>2, HeaderPlaces
  <2>2. HeaderCell(job.size, FALSE) \in Cell
    BY <2>1 DEF HeaderCell, Cell
  <2>3. gapd > 0 => HeaderCell(gapd - Header, TRUE) \in Cell
    BY <1>2, HeaderPlaces DEF HeaderCell, Cell
  <2>4. buf' = IF gapd > 0
               THEN [buf EXCEPT ![head] = HeaderCell(gapd - Header, TRUE),
                                ![0]    = HeaderCell(job.size, FALSE)]
               ELSE [buf EXCEPT ![head] = HeaderCell(job.size, FALSE)]
    BY <1>2 DEF WriteHeader
  <2>5. CASE gapd > 0
    BY <1>2, <2>2, <2>3, <2>4, <2>5, HeaderPlaces DEF Buffer
  <2>6. CASE ~(gapd > 0)
    BY <1>2, <2>2, <2>4, <2>6, HeaderPlaces DEF Buffer
  <2> QED
    BY <2>5, <2>6
<1>3. CASE ~Fill /\ ~WriteHeader
  <2>1. buf' = buf
    BY <1>3, Actions DEF WriteRequest, Begin, Publish, ReadRequest, Look, SkipGap, LookSecond,
       CopyWord, ReadAdvance
  <2> QED
    BY <2>1 DEF Buffer
<1> QED
  BY <1>1, <1>2, <1>3

LEMMA JobStep ==
  ASSUME SizesFit, Positions, Job, Room, Next
  PROVE  Job'
<1> USE DEF Job, producerVars
<1>1. CASE \E n \in Sizes : WriteRequest(n)
  BY <1>1 DEF WriteRequest
<1>2. CASE \E w \in Sizes, v \in Values : w <= minimum /\ Begin(w, v)
  <2>1. PICK w \in Sizes, v \in Values : Begin(w, v)
    BY <1>2
  <2>2. /\ job' = [size |-> w, val |-> v] /\ filled' = 0 /\ ppc' = "fill"
        /\ minimum' = minimum
    BY <2>1 DEF Begin
  <2>3. Words(w) \in Nat /\ job'.size = w
    BY <2>2, PadFacts DEF SizesFit
  <2> QED
    BY <2>2, <2>3
<1>3. CASE Fill
  BY <1>3, FillPlace DEF Fill
<1>4. CASE WriteHeader
  BY <1>4 DEF WriteHeader
<1>5. CASE Publish
  BY <1>5 DEF Publish
<1>6. CASE ReadRequest \/ Look \/ SkipGap \/ LookSecond \/ CopyWord \/ ReadAdvance
  BY <1>6 DEF ReadRequest, Look, SkipGap, LookSecond, CopyWord, ReadAdvance
<1> QED
  BY Actions, <1>1, <1>2, <1>3, <1>4, <1>5, <1>6

(* what Look hands out is a chunk *)
LEMMA Chunks ==
  ASSUME SizesFit, Positions, Buffer, Chain, tail \in starts, ~buf[tail].gap
  PROVE  /\ buf[tail].size \in Sizes /\ Fits(buf[tail].size)
         /\ Words(buf[tail].size) \in Nat
         /\ \A i \in 0 .. Words(buf[tail].size) - 1 : tail + Header + 8 * i \in Cells
<1>1. buf[tail].size \in Sizes /\ Fits(buf[tail].size)
  BY DEF Chain, SizesFit
<1>2. /\ Words(buf[tail].size) \in Nat /\ 8 * Words(buf[tail].size) = Pad(buf[tail].size)
      /\ Span(tail) = 8 + Pad(buf[tail].size) /\ Pad(buf[tail].size) \in Nat
  BY <1>1, PadFacts DEF Span
<1>3. tail + Span(tail) <= Size /\ tail \in 0 .. Size - 1 /\ tail % 8 = 0
  BY Places DEF Chain
<1>4. \A i \in 0 .. Words(buf[tail].size) - 1 : tail + Header + 8 * i \in Cells
  <2> TAKE i \in 0 .. Words(buf[tail].size) - 1
  <2>1. i \in Nat /\ 8 * i + 8 <= Pad(buf[tail].size)
    BY <1>2
  <2>2. tail + Header + 8 * i \in 0 .. Size - 1 /\ (tail + Header + 8 * i) % 8 = 0
    BY <1>2, <1>3, <2>1
  <2> QED
    BY <2>2, CellFacts
<1> QED
  BY <1>1, <1>2, <1>4

LEMMA CopyStep ==
  ASSUME SizesFit, Positions, Buffer, Chain, Reader, Copy, Next
  PROVE  Copy'
<1> USE DEF Copy, consumerVars
<1>1. CASE (\E n \in Sizes : WriteRequest(n)) \/ Fill \/ WriteHeader \/ Publish
  BY <1>1 DEF WriteRequest, Fill, WriteHeader, Publish
<1>2. CASE \E w \in Sizes, v \in Values : w <= minimum /\ Begin(w, v)
  BY <1>2 DEF Begin
<1>3. CASE ReadRequest
  BY <1>3 DEF ReadRequest
<1>4. CASE Look
  <2>1. cpc = "look" /\ tail \in starts
    BY <1>4 DEF Look, Reader
  <2>2. CASE tail + ReadableSpace(seen, tail) > Size /\ buf[tail].gap
    BY <1>4, <2>2 DEF Look
  <2>3. CASE ~(tail + ReadableSpace(seen, tail) > Size /\ buf[tail].gap)
    <3>1. ~buf[tail].gap
      BY <2>1, <2>3, LookFinds
    <3>2. Words(buf[tail].size) \in Nat
      BY <2>1, <3>1, Chunks
    <3> QED
      BY <1>4, <2>3, <3>2 DEF Look, HandOut
  <2> QED
    BY <2>2, <2>3
<1>5. CASE SkipGap
  BY <1>5 DEF SkipGap
<1>6. CASE LookSecond
  <2>1. cpc = "second" /\ tail \in starts /\ tail = 0 /\ ~buf[tail].gap
    BY <1>6 DEF LookSecond, Reader
  <2>2. Words(buf[0].size) \in Nat
    BY <2>1, Chunks
  <2> QED
    BY <1>6, <2>2 DEF LookSecond, HandOut
<1>7. CASE CopyWord
  <2>1. tail \in starts /\ ~buf[tail].gap /\ toread = buf[tail].size
    BY <1>7 DEF CopyWord, Reader
  <2>2. copied \in 0 .. Words(toread) - 1 /\ copied + 1 \in 0 .. Words(toread)
    BY <1>7, <2>1, Chunks DEF CopyWord
  <2>3. tail + Header + 8 * copied \in Cells
    BY <2>1, <2>2, Chunks
  <2>4. buf[tail + Header + 8 * copied].val \in Values \cup {NoValue}
    BY <2>3 DEF Buffer, Cell
  <2> QED
    BY <1>7, <2>2, <2>4 DEF CopyWord
<1>8. CASE ReadAdvance
  BY <1>8, NoneFits DEF ReadAdvance, Positions
<1> QED
  BY Actions, <1>1, <1>2, <1>3, <1>4, <1>5, <1>6, <1>7, <1>8

LEMMA StartsUnread ==
  ASSUME Positions, Chain, NEW c \in starts
  PROVE  c \in Cells /\ Unread(c) /\ c # head
<1>1. Unread(c) /\ c \in Cells
  BY DEF Chain
<1>2. head \in Int /\ tail \in Int
  BY Places
<1>3. ~Unread(head)
  BY <1>2 DEF Unread
<1> QED
  BY <1>1, <1>3

LEMMA ChainPublish ==
  ASSUME SizesFit, Positions, Buffer, Chain, Room, Publish
  PROVE  Chain'
<1> DEFINE L == Header + Pad(job.size)
<1>1. /\ job.size \in Sizes /\ job.size <= minimum /\ ppc # "idle"
      /\ UNCHANGED <<buf, tail>> /\ starts' = starts \cup {head, Start}
      /\ head' = Start + L /\ head' \in Cells
  <2>1. job.size \in Sizes /\ job.size <= minimum /\ ppc # "idle"
    BY Writes DEF Publish
  <2>2. head' = Start + Header + Pad(job.size) /\ head' \in Cells
    BY NewHead
  <2>3. Pad(job.size) \in Nat
    BY <2>1, PadFacts DEF SizesFit
  <2>4. Start \in Int
    BY Places DEF Start
  <2>5. Start + Header + Pad(job.size) = Start + L
    BY <2>3, <2>4
  <2> QED
    BY <2>1, <2>2, <2>5 DEF Publish
<1>2. /\ L \in Nat /\ L >= 8 /\ Start + L < Size /\ Start \in Cells
      /\ gapd > 0 => /\ Start = 0 /\ gapd = Size - head
                     /\ 0 < tail /\ tail <= head /\ L < tail
      /\ gapd = 0 => Start = head /\ (tail <= head \/ head + L < tail)
  BY <1>1, Claims
<1>3. /\ head \in 0 .. Size - 1 /\ tail \in 0 .. Size - 1 /\ Start \in 0 .. Size - 1
      /\ gapd \in Nat /\ head \in Cells
  BY <1>2, Places, CellFacts DEF Positions
<1>4. /\ buf[Start].size = job.size /\ ~buf[Start].gap /\ (gapd > 0 => buf[head].gap)
  BY DEF Publish, Room
<1>5. /\ \A p : Span(p)' = Span(p) /\ Ahead(p)' = Ahead(p)
      /\ Ahead(head)' = Ahead(head')
  BY <1>1 DEF Span, Ahead
<1>6. Span(Start) = L /\ (gapd > 0 => Span(head) = Size - head)
  BY <1>4 DEF Span
<1> HIDE DEF L
<1>7. /\ Ahead(head') = Ahead(Start) + L
      /\ gapd > 0 => Ahead(Start) = Ahead(head) + (Size - head)
      /\ Ahead(head') \in Nat /\ Ahead(head) \in Nat /\ Ahead(Start) \in Nat
      /\ Ahead(head) < Ahead(head') /\ Ahead(Start) < Ahead(head') /\ Ahead(head) <= Ahead(Start)
  BY <1>1, <1>2, <1>3 DEF Ahead
<1>8. \A p \in 0 .. Size - 1 : Unread(p)' <=> Ahead(p) < Ahead(head')
  BY <1>1, <1>2, <1>3 DEF Unread, Ahead
<1>9. \A c \in starts : /\ Span(c) \in Nat /\ Span(c) >= 8 /\ Ahead(c) \in Nat /\ c \in 0 .. Size - 1
                       /\ Ahead(c) + Span(c) <= Ahead(head) /\ c + Span(c) <= Size
  BY Spans DEF Chain
<1>10. \A d \in starts : Ahead(d) < Ahead(head) /\ Ahead(d) \in Nat
  <2> TAKE d \in starts
  <2> DEFINE z == Span(d)
  <2>1. z \in Nat /\ z >= 8 /\ Ahead(d) + z <= Ahead(head) /\ Ahead(d) \in Nat
    BY <1>9
  <2> HIDE DEF z
  <2> QED
    BY <1>7, <2>1
<1>11. starts' \subseteq Cells /\ tail' \in starts' \cup {head'}
  BY <1>1, <1>2, <1>3 DEF Chain
<1>12. ASSUME NEW c \in starts'
       PROVE  /\ Unread(c)' /\ c + Span(c) <= Size /\ Ahead(c) + Span(c) <= Ahead(head')
              /\ \A d \in starts' : Ahead(d) <= Ahead(c) \/ Ahead(d) >= Ahead(c) + Span(c)
  <2>1. CASE c \in starts
    <3>1. \A d \in starts : Ahead(d) <= Ahead(c) \/ Ahead(d) >= Ahead(c) + Span(c)
      BY <2>1 DEF Chain
    <3>2. /\ Ahead(c) + Span(c) <= Ahead(head) /\ Span(c) \in Nat /\ Span(c) >= 8
          /\ Ahead(c) \in Nat /\ c \in 0 .. Size - 1 /\ c + Span(c) <= Size
      BY <1>9, <2>1
    <3>3. /\ Ahead(c) < Ahead(head') /\ Ahead(c) + Span(c) <= Ahead(head')
          /\ Ahead(Start) >= Ahead(c) + Span(c) /\ Ahead(head) >= Ahead(c) + Span(c)
      <4> DEFINE z == Span(c)
      <4>1. z \in Nat /\ z >= 8 /\ Ahead(c) + z <= Ahead(head) /\ Ahead(c) \in Nat
        BY <3>2
      <4>2. Ahead(head) \in Nat /\ Ahead(Start) \in Nat /\ Ahead(head') \in Nat
            /\ Ahead(head) < Ahead(head') /\ Ahead(head) <= Ahead(Start)
        BY <1>7
      <4> HIDE DEF z
      <4>3. /\ Ahead(c) < Ahead(head') /\ Ahead(c) + z <= Ahead(head')
            /\ Ahead(Start) >= Ahead(c) + z /\ Ahead(head) >= Ahead(c) + z
        BY <4>1, <4>2
      <4> QED
        BY <4>3 DEF z
    <3> QED
      BY <1>1, <1>8, <3>1, <3>2, <3>3
  <2>2. CASE c = Start
    <3>1. \A d \in starts : Ahead(d) <= Ahead(c)
      BY <1>7, <1>10, <2>2
    <3> QED
      BY <1>1, <1>2, <1>3, <1>6, <1>7, <1>8, <2>2, <3>1
  <2>3. CASE c = head /\ gapd > 0
    <3>1. \A d \in starts : Ahead(d) <= Ahead(c)
      BY <1>7, <1>9, <2>3
    <3>2. Span(c) = Size - head /\ Ahead(Start) = Ahead(c) + Span(c) /\ Span(c) \in Nat
      BY <1>3, <1>6, <1>7, <2>3
    <3> QED
      BY <1>1, <1>3, <1>7, <1>8, <2>3, <3>1, <3>2
  <2> QED
    BY <1>1, <1>2, <1>3, <2>1, <2>2, <2>3
<1>13. ASSUME NEW c \in starts'
       PROVE  /\ (c + Span(c)) % Size \in starts' \cup {head'}
              /\ IF buf[c].gap THEN 0 \in starts' /\ ~buf[0].gap ELSE buf[c].size \in Sizes
  <2>1. CASE c \in starts
    BY <1>1, <2>1 DEF Chain
  <2>2. CASE c = Start
    <3> DEFINE a == Start + L
    <3>1. a \in Nat /\ a < Size /\ a < 2 * Size /\ a = head'
      BY <1>1, <1>2, <1>3
    <3> HIDE DEF a
    <3>2. a % Size = head'
      BY <3>1, Wrapped
    <3> QED
      BY <1>1, <1>4, <1>6, <2>2, <3>2 DEF a
  <2>3. CASE c = head /\ gapd > 0
    <3>1. c + Span(c) = Size
      BY <1>3, <1>6, <2>3
    <3>2. Size % Size = 0
      BY Wrapped
    <3> QED
      BY <1>1, <1>2, <1>4, <2>3, <3>1, <3>2
  <2> QED
    BY <1>1, <1>2, <1>3, <2>1, <2>2, <2>3
<1> QED
  BY <1>1, <1>5, <1>11, <1>12, <1>13 DEF Chain

LEMMA ChainStep ==
  ASSUME SizesFit, Positions, Buffer, Job, Chain, Room, Reader, Next
  PROVE  Chain'
<1>1. CASE Publish
  BY <1>1, ChainPublish
<1>2. CASE SkipGap \/ ReadAdvance
  BY <1>2, TailActions, TailStep
<1>3. CASE ~Publish /\ ~SkipGap /\ ~ReadAdvance
  <2>1. UNCHANGED <<head, tail, starts>>
    BY <1>3, Actions DEF WriteRequest, Begin, Fill, WriteHeader, ReadRequest, Look, LookSecond,
       CopyWord
  <2>2. \A c \in starts : buf'[c] = buf[c]
    BY BufferStep, StartsUnread
  <2> QED
    BY <2>1, <2>2, ChainKeeps
<1> QED
  BY <1>1, <1>2, <1>3

LEMMA RoomStep ==
  ASSUME SizesFit, Positions, Buffer, Job, Chain, Room, Reader, Next
  PROVE  Room'
<1> USE DEF producerVars, consumerVars
<1>1. CASE \E n \in Sizes : WriteRequest(n)
  <2>1. PICK n \in Sizes : WriteRequest(n)
    BY <1>1
  <2> DEFINE r == Reserve(head, tail, n)
  <2>2. /\ rsvd' = r.rsvd /\ gapd' = r.gapd /\ UNCHANGED <<head, tail, job, buf>>
        /\ IF r = Refused THEN ppc' = "idle" ELSE ppc' = "begin" /\ minimum' = n
    BY <2>1 DEF WriteRequest
  <2>3. r # Refused =>
           /\ Padded(n) <= r.rsvd
           /\ r.gapd = 0 => head + r.rsvd <= Size /\ (tail <= head \/ head + r.rsvd < tail)
           /\ r.gapd > 0 => r.gapd = Size - head /\ tail <= head /\ r.rsvd < tail
    BY ReserveFacts DEF SizesFit, Positions
  <2> HIDE DEF r
  <2> QED
    BY <2>2, <2>3 DEF Room
<1>2. CASE \E w \in Sizes, v \in Values : w <= minimum /\ Begin(w, v)
  BY <1>2 DEF Begin, Room, Job
<1>3. CASE Fill
  BY <1>3 DEF Fill, Room
<1>4. CASE WriteHeader
  <2>1. /\ head \in Cells /\ 0 \in Cells /\ (gapd > 0 => head # 0)
    BY <1>4, HeaderPlaces
  <2>2. /\ buf' = IF gapd > 0
                  THEN [buf EXCEPT ![head] = HeaderCell(gapd - Header, TRUE),
                                   ![0]    = HeaderCell(job.size, FALSE)]
                  ELSE [buf EXCEPT ![head] = HeaderCell(job.size, FALSE)]
        /\ ppc = "fill" /\ UNCHANGED <<head, tail, minimum, job, rsvd, gapd>>
    BY <1>4 DEF WriteHeader
  <2>3. /\ buf'[Start].size = job.size /\ ~buf'[Start].gap
        /\ gapd > 0 => buf'[head].gap
    BY <2>1, <2>2 DEF Buffer, HeaderCell, Start
  <2>4. Start' = Start
    BY <2>2 DEF Start
  <2> QED
    BY <2>2, <2>3, <2>4 DEF Room
<1>5. CASE Publish
  BY <1>5 DEF Publish, Room
<1>6. CASE ReadRequest \/ Look \/ LookSecond \/ CopyWord
  BY <1>6 DEF ReadRequest, Look, LookSecond, CopyWord, Room, Start
<1>7. CASE SkipGap \/ ReadAdvance
  <2>1. UNCHANGED <<buf, head, producerVars>>
    BY <1>7, TailActions
  <2>2. IF tail < head THEN tail < tail' /\ tail' <= head
                       ELSE head < tail /\ (tail' > tail \/ tail' <= head)
    BY <1>7, TailActions, TailStep
  <2>3. tail \in Int /\ tail' \in Int /\ head \in Int /\ rsvd \in Int
    <3>1. tail' \in Cells
      BY <1>7, TailActions, TailStep
    <3> QED
      BY <3>1, Places, CellFacts DEF Positions
  <2> QED
    BY <2>1, <2>2, <2>3 DEF Room, Start
<1> QED
  BY Actions, <1>1, <1>2, <1>3, <1>4, <1>5, <1>6, <1>7

LEMMA ReaderStep ==
  ASSUME SizesFit, Positions, Buffer, Job, Chain, Room, Reader, Next
  PROVE  Reader'
<1> USE DEF producerVars, consumerVars
<1>1. tail \in starts => buf'[tail] = buf[tail]
  BY BufferStep, StartsUnread
<1>2. CASE (\E n \in Sizes : WriteRequest(n)) \/ Fill \/ WriteHeader
            \/ \E w \in Sizes, v \in Values : w <= minimum /\ Begin(w, v)
  <2>1. UNCHANGED <<head, tail, starts, cpc, seen, toread>>
    BY <1>2 DEF WriteRequest, Begin, Fill, WriteHeader
  <2> QED
    BY <1>1, <2>1 DEF Reader
<1>3. CASE Publish
  <2>1. UNCHANGED <<buf, tail, cpc, seen, toread>> /\ starts' = starts \cup {head, Start}
    BY <1>3 DEF Publish
  <2> QED
    BY <2>1 DEF Reader
<1>4. CASE ReadRequest
  <2>1. /\ UNCHANGED <<buf, head, tail, starts>> /\ seen' = head /\ cpc' = "look"
        /\ ReadableSpace(head, tail) > 0
    BY <1>4 DEF ReadRequest
  <2>2. head # tail
    <3>1. Size % Size = 0
      BY Wrapped
    <3>2. head = tail => (head - tail + Size) = Size
      BY Places
    <3> QED
      BY <2>1, <3>1, <3>2, Places DEF ReadableSpace
  <2>3. tail \in starts
    BY <2>2 DEF Chain
  <2>4. buf[tail].gap => head # 0
    <3>1. buf[tail].gap => Unread(0)
      BY <2>3 DEF Chain
    <3>2. ~Unread(0) \/ head # 0
      <4>1. head \in Int /\ tail \in Int
        BY Places
      <4> QED
        BY <4>1 DEF Unread
    <3> QED
      BY <3>1, <3>2, Places DEF Unread
  <2> QED
    BY <2>1, <2>2, <2>3, <2>4 DEF Reader
<1>5. CASE Look
  <2>1. cpc = "look" /\ tail \in starts /\ UNCHANGED <<buf, head, tail, starts>>
    BY <1>5 DEF Look, Reader
  <2>2. CASE tail + ReadableSpace(seen, tail) > Size /\ buf[tail].gap
    BY <1>5, <2>1, <2>2 DEF Look, Reader
  <2>3. CASE ~(tail + ReadableSpace(seen, tail) > Size /\ buf[tail].gap)
    <3>1. ~buf[tail].gap
      BY <2>1, <2>3, LookFinds
    <3> QED
      BY <1>5, <2>1, <2>3, <3>1 DEF Look, HandOut, Reader
  <2> QED
    BY <2>2, <2>3
<1>6. CASE SkipGap
  <2>1. /\ cpc = "skip" /\ cpc' = "second" /\ buf' = buf /\ tail \in starts /\ buf[tail].gap
        /\ starts' = starts \ {tail}
    BY <1>6 DEF SkipGap, Reader
  <2>2. 0 \in starts /\ ~buf[0].gap
    BY <2>1 DEF Chain
  <2>3. tail' = 0
    <3>1. tail' = (tail + (Size - tail)) % Size /\ tail + (Size - tail) = Size
      BY <1>6, Places DEF SkipGap
    <3>2. Size % Size = 0
      BY Wrapped
    <3> QED
      BY <3>1, <3>2
  <2>4. tail # 0
    BY <2>1, <2>2
  <2> QED
    BY <2>1, <2>2, <2>3, <2>4 DEF Reader
<1>7. CASE LookSecond
  <2>1. /\ cpc' = "read" /\ tail = 0 /\ ~buf[0].gap /\ tail \in starts /\ toread' = buf[0].size
        /\ UNCHANGED <<buf, head, tail, starts>>
    BY <1>7 DEF LookSecond, HandOut, Reader
  <2> QED
    BY <2>1 DEF Reader
<1>8. CASE CopyWord
  BY <1>8 DEF CopyWord, Reader
<1>9. CASE ReadAdvance
  BY <1>9 DEF ReadAdvance, Reader
<1> QED
  BY Actions, <1>2, <1>3, <1>4, <1>5, <1>6, <1>7, <1>8, <1>9
-----------------------------------------------------------------------------
(* The line of chunks: what was sent is what the buffer holds.             *)
LEMMA LineFacts ==
  ASSUME Line
  PROVE  /\ Len(sent) \in Nat
         /\ sent = <<>> <=> Len(sent) = 0
         /\ \A i \in 1 .. Len(sent) : sent[i] \in [at : Cells, size : Sizes, val : Values]
<1> DEFINE E == [at : Cells, size : Sizes, val : Values]
<1>1. sent \in Seq(E)
  BY DEF Line
<1> HIDE DEF E
<1>2. sent = <<>> <=> Len(sent) = 0
  BY <1>1, EmptySeq
<1>3. Len(sent) \in Nat /\ \A i \in 1 .. Len(sent) : sent[i] \in E
  BY <1>1
<1> QED
  BY <1>2, <1>3 DEF E

(* The first chunk behind a place of the chain is behind head only if the  *)
(* place is.                                                               *)
LEMMA FirstPlace ==
  ASSUME Positions, Chain, NEW p \in starts \cup {head}
  PROVE  /\ First(p) \in starts \cup {head}
         /\ First(p) = head <=> p = head
<1>1. CASE p = head
  BY <1>1 DEF First
<1>2. CASE p # head
  <2>1. p \in starts /\ (buf[p].gap => 0 \in starts)
    BY <1>2 DEF Chain
  <2>2. buf[p].gap => 0 # head
    BY <2>1, StartsUnread
  <2> QED
    BY <1>2, <2>1, <2>2 DEF First
<1> QED
  BY <1>1, <1>2

(* Every word of an unread chunk is unread. *)
LEMMA WordsUnread ==
  ASSUME SizesFit, Positions, Buffer, Chain, NEW c \in starts, ~buf[c].gap,
         NEW w \in 0 .. Words(buf[c].size) - 1
  PROVE  c + Header + 8 * w \in Cells /\ Unread(c + Header + 8 * w)
<1> DEFINE n == buf[c].size
           p == c + 8 + 8 * w
           z == Span(c)
<1>1. /\ Words(n) \in Nat /\ 8 * Words(n) = Pad(n) /\ Pad(n) \in Nat /\ z = 8 + Pad(n)
  BY PadFacts DEF Chain, SizesFit, Span
<1>2. w \in Nat /\ p < c + z
  <2>1. w \in Nat /\ 8 * w + 8 <= 8 * Words(n)
    BY <1>1
  <2>2. c \in Nat
    BY Spans
  <2> QED
    BY <1>1, <2>1, <2>2
<1>3. /\ c \in 0 .. Size - 1 /\ z \in Nat /\ c + z <= Size /\ Ahead(c) + z <= Ahead(head)
      /\ c % 8 = 0
  BY Spans, CellFacts DEF Chain
<1> HIDE DEF z, n
<1>4. p \in Nat /\ p < Size /\ p % 8 = 0
  BY <1>2, <1>3
<1>5. p \in Cells
  BY <1>4, CellFacts
<1>6. Ahead(p) < Ahead(head)
  <2>1. Ahead(p) = Ahead(c) + (p - c)
    BY <1>2, <1>3, Places DEF Ahead
  <2>2. Ahead(c) \in Int /\ Ahead(head) \in Int
    BY <1>3, Places DEF Ahead
  <2> QED
    BY <1>2, <1>3, <1>4, <2>1, <2>2
<1>7. Unread(p)
  BY <1>4, <1>6, UnreadAhead
<1> QED
  BY <1>5, <1>7

(* A store that leaves what is unread alone leaves the line. *)
LEMMA LineKeeps ==
  ASSUME SizesFit, Positions, Buffer, Chain, Line, UNCHANGED <<head, tail, starts, sent>>,
         \A c \in Cells : Unread(c) => buf'[c] = buf[c]
  PROVE  Line'
<1>1. \A c \in starts : buf'[c] = buf[c] /\ c \in Cells
  BY StartsUnread
<1>2. \A p \in starts \cup {head} : First(p)' = First(p)
  BY <1>1 DEF First
<1>3. First(tail)' = First(tail)
  BY <1>2 DEF Chain
<1>4. \A c \in starts : After(c)' = After(c)
  <2> TAKE c \in starts
  <2>1. Span(c)' = Span(c)
    BY <1>1 DEF Span
  <2>2. (c + Span(c)) % Size \in starts \cup {head}
    BY DEF Chain
  <2> QED
    BY <1>2, <2>1, <2>2 DEF After
<1>5. ASSUME NEW i \in 1 .. Len(sent)
      PROVE  InPlace(i)'
  <2>1. InPlace(i)
    BY DEF Line
  <2>2. buf'[sent[i].at] = buf[sent[i].at]
    BY <1>1, <2>1 DEF InPlace
  <2>3. ASSUME NEW w \in 0 .. Words(sent[i].size) - 1
        PROVE  buf'[sent[i].at + Header + 8 * w].val = sent[i].val
    <3>1. w \in 0 .. Words(buf[sent[i].at].size) - 1
      BY <2>1 DEF InPlace
    <3>2. /\ sent[i].at + Header + 8 * w \in Cells
          /\ Unread(sent[i].at + Header + 8 * w)
      BY <2>1, <3>1, WordsUnread DEF InPlace
    <3> QED
      BY <2>1, <3>2 DEF InPlace
  <2> QED
    BY <1>4, <2>1, <2>2, <2>3 DEF InPlace
<1> QED
  BY <1>3, <1>5 DEF Line

(* A chunk joins the line at its end. *)
LEMMA LinePublish ==
  ASSUME SizesFit, Positions, Positions', Buffer, Job, Chain, Chain', Room, Line, Filled, Publish
  PROVE  Line'
<1> DEFINE e == [at |-> Start, size |-> job.size, val |-> job.val]
<1>1. PICK n : n = Len(sent)
  OBVIOUS
<1>2. /\ UNCHANGED <<buf, tail>> /\ starts' = starts \cup {head, Start}
      /\ sent' = Append(sent, e) /\ head' = Start + Header + Pad(job.size)
  BY NewHead DEF Publish
<1>3. /\ job.size \in Sizes /\ job.val \in Values /\ filled = Words(job.size)
      /\ ~buf[Start].gap /\ buf[Start].size = job.size /\ (gapd > 0 => buf[head].gap)
      /\ \A w \in 0 .. filled - 1 : buf[Word(w)].val = job.val
      /\ Start = IF gapd > 0 THEN 0 ELSE head
  BY DEF Publish, Room, Filled, Start
<1>4. /\ Start \in Cells /\ ~Unread(Start) /\ ~Unread(head)
      /\ Start + Header + Pad(job.size) < Size /\ Start \in Nat /\ Pad(job.size) \in Nat
  <2>1. job.size \in Sizes /\ job.size <= minimum /\ ppc # "idle"
    BY Writes DEF Publish
  <2> DEFINE L == Header + Pad(job.size)
  <2>2. /\ L \in Nat /\ L >= 8 /\ Start + L < Size /\ Start \in Cells /\ ~Unread(head)
        /\ \A p \in Start .. Start + L - 1 : ~Unread(p)
    BY <2>1, Claims
  <2>3. Start \in Nat /\ Pad(job.size) \in Nat
    <3>1. Start \in Nat
      BY <2>2, CellFacts
    <3>2. Fits(job.size)
      BY <2>1 DEF SizesFit
    <3> QED
      BY <3>1, <3>2, PadFacts
  <2>4. Start + Header + Pad(job.size) < Size
    BY <2>2, <2>3
  <2> HIDE DEF L
  <2>5. ~Unread(Start)
    BY <2>2, <2>3
  <2> QED
    BY <2>2, <2>3, <2>5, <2>4
<1>5. Start \notin starts /\ head \notin starts
  BY <1>4, StartsUnread
<1>6. /\ n \in Nat /\ Len(sent') = n + 1 /\ sent'[n + 1] = e /\ sent' # <<>>
      /\ \A i \in 1 .. n : sent'[i] = sent[i]
      /\ sent' \in Seq([at : Cells, size : Sizes, val : Values])
      /\ (n = 0 <=> sent = <<>>)
  <2>1. sent \in Seq([at : Cells, size : Sizes, val : Values])
    BY DEF Line
  <2>2. e \in [at : Cells, size : Sizes, val : Values]
    BY <1>3, <1>4
  <2> HIDE DEF e
  <2> QED
    BY <1>1, <1>2, <2>1, <2>2, LineFacts
<1>7. e.at = Start /\ e.size = job.size /\ e.val = job.val
  OBVIOUS
<1> HIDE DEF e
<1>8. \A c \in starts' : c # head'
  <2>1. head' \in Int /\ tail' \in Int
    BY CellFacts DEF Positions
  <2> QED
    BY <2>1 DEF Chain, Unread
<1>9. \A p \in starts : First(p)' = First(p) /\ First(p) # head
  BY <1>2, <1>5, <1>8, FirstPlace DEF First
<1>10. \A p : p = head => First(p)' = Start
  BY <1>2, <1>3, <1>8 DEF First
<1>11. First(tail)' = sent'[1].at
  <2>1. tail \in starts \cup {head} /\ tail' = tail
    BY <1>2 DEF Chain
  <2>2. CASE tail = head
    <3>1. n = 0
      <4> SUFFICES ASSUME n # 0 PROVE FALSE
        OBVIOUS
      <4>1. InPlace(1) /\ First(tail) = sent[1].at
        BY <1>1, <1>6 DEF Line
      <4> QED
        BY <1>5, <2>1, <2>2, <4>1, FirstPlace DEF InPlace
    <3> QED
      BY <1>6, <1>7, <1>10, <2>1, <2>2, <3>1
  <2>3. CASE tail \in starts
    <3>1. n # 0
      BY <1>6, <1>9, <2>3 DEF Line
    <3>2. sent'[1] = sent[1]
      BY <1>6, <3>1
    <3> QED
      BY <1>6, <1>9, <2>1, <2>3, <3>1, <3>2 DEF Line
  <2> QED
    BY <2>1, <2>2, <2>3
<1>12. \A c \in starts : After(c)' = IF After(c) = head THEN Start ELSE After(c)
  <2> TAKE c \in starts
  <2>1. Span(c)' = Span(c)
    BY <1>2 DEF Span
  <2>2. PICK q : q = (c + Span(c)) % Size
    OBVIOUS
  <2>3. q \in starts \cup {head} /\ After(c) = First(q) /\ After(c)' = First(q)'
    BY <2>1, <2>2 DEF Chain, After
  <2> QED
    BY <1>9, <1>10, <2>3, FirstPlace
<1>13. \A c : c = Start => After(c)' = head'
  <2> TAKE c
  <2> HAVE c = Start
  <2>1. Span(c)' = Header + Pad(job.size)
    BY <1>2, <1>3 DEF Span
  <2>2. PICK q : q = head'
    OBVIOUS
  <2>3. (c + Span(c)') % Size = q
    <3> DEFINE a == Start + Header + Pad(job.size)
    <3>1. a \in Nat /\ a < Size /\ a < 2 * Size /\ q = a
      BY <1>2, <1>4, <2>2
    <3>2. c + Span(c)' = a
      BY <1>4, <2>1
    <3> HIDE DEF a
    <3> QED
      BY <3>1, <3>2, Wrapped
  <2>4. First(q)' = q
    BY <2>2 DEF First
  <2> QED
    BY <2>2, <2>3, <2>4 DEF After
<1>14. ASSUME NEW i \in 1 .. n
       PROVE  InPlace(i)'
  <2>1. InPlace(i) /\ sent'[i] = sent[i] /\ i # Len(sent') /\ sent[i].at # Start
    BY <1>1, <1>5, <1>6 DEF Line, InPlace
  <2>2. After(sent[i].at)' = sent'[i + 1].at
    <3>1. CASE i = n
      BY <1>1, <1>6, <1>7, <1>12, <2>1, <3>1 DEF InPlace
    <3>2. CASE i # n
      <4>1. i + 1 \in 1 .. n
        BY <1>6, <3>2
      <4>2. InPlace(i + 1) /\ sent'[i + 1] = sent[i + 1]
        BY <1>1, <1>6, <4>1 DEF Line
      <4> QED
        BY <1>1, <1>5, <1>12, <2>1, <3>2, <4>2 DEF InPlace
    <3> QED
      BY <3>1, <3>2
  <2>3. ASSUME NEW k \in 1 .. n + 1, sent'[k].at = sent[i].at
        PROVE  k = i
    <3>1. k # n + 1
      BY <1>6, <1>7, <2>1, <2>3
    <3>2. k \in 1 .. n /\ sent'[k] = sent[k]
      BY <1>6, <3>1
    <3> QED
      BY <1>1, <2>1, <2>3, <3>2 DEF InPlace
  <2> QED
    BY <1>2, <1>6, <2>1, <2>2, <2>3 DEF InPlace
<1>15. InPlace(n + 1)'
  <2>1. sent'[n + 1].at = Start /\ sent'[n + 1].size = job.size /\ sent'[n + 1].val = job.val
    BY <1>6, <1>7
  <2>2. \A c : c = sent'[n + 1].at => After(c)' = head'
    BY <1>13, <2>1
  <2>3. \A w \in 0 .. Words(job.size) - 1 : buf'[Start + Header + 8 * w].val = job.val
    BY <1>2, <1>3 DEF Word
  <2>4. \A k \in 1 .. n + 1 : sent'[k].at = Start => k = n + 1
    <3> TAKE k \in 1 .. n + 1
    <3>1. CASE k \in 1 .. n
      <4>1. InPlace(k) /\ sent'[k] = sent[k]
        BY <1>1, <1>6, <3>1 DEF Line
      <4> QED
        BY <1>5, <4>1 DEF InPlace
    <3> QED
      BY <1>6, <3>1
  <2> QED
    BY <1>2, <1>3, <1>6, <2>1, <2>2, <2>3, <2>4 DEF InPlace
<1> QED
  BY <1>1, <1>6, <1>11, <1>14, <1>15 DEF Line

(* The consumer moves on: past a gap, or past the first chunk of the line. *)
LEMMA TailFirst ==
  ASSUME Positions, Chain, Line, tail \in starts, ~buf[tail].gap
  PROVE  sent # <<>> /\ Len(sent) >= 1 /\ sent[1].at = tail /\ InPlace(1)
<1>1. First(tail) = tail /\ tail # head
  BY StartsUnread DEF First
<1>2. sent # <<>> /\ sent[1].at = tail
  BY <1>1 DEF Line
<1>3. Len(sent) \in Nat /\ Len(sent) # 0
  BY <1>2, LineFacts
<1> QED
  BY <1>2, <1>3 DEF Line

LEMMA SkipsToZero ==
  ASSUME Positions, Chain, Reader, SkipGap
  PROVE  /\ tail \in starts /\ buf[tail].gap /\ 0 \in starts /\ ~buf[0].gap /\ tail' = 0
         /\ UNCHANGED <<buf, head, sent>> /\ starts' = starts \ {tail}
<1>1. /\ cpc = "skip" /\ tail \in starts /\ buf[tail].gap
      /\ UNCHANGED <<buf, head, sent>> /\ starts' = starts \ {tail}
  BY DEF SkipGap, Reader
<1>2. 0 \in starts /\ ~buf[0].gap
  BY <1>1 DEF Chain
<1>3. tail' = (tail + (Size - tail)) % Size /\ tail + (Size - tail) = Size
  BY Places DEF SkipGap
<1>4. Size % Size = 0
  BY Wrapped
<1> QED
  BY <1>1, <1>2, <1>3, <1>4

LEMMA LineSkip ==
  ASSUME SizesFit, Positions, Buffer, Chain, Reader, Line, SkipGap
  PROVE  Line'
<1>1. /\ tail \in starts /\ buf[tail].gap /\ 0 \in starts /\ ~buf[0].gap /\ tail' = 0
      /\ UNCHANGED <<buf, head, sent>> /\ starts' = starts \ {tail}
  BY SkipsToZero
<1>2. First(tail) = 0
  BY <1>1, StartsUnread DEF First
<1>3. First(tail)' = 0
  BY <1>1 DEF First
<1>4. \A c : After(c)' = After(c)
  BY <1>1 DEF After, First, Span
<1>5. ASSUME NEW i \in 1 .. Len(sent)
      PROVE  InPlace(i)'
  <2>1. InPlace(i)
    BY DEF Line
  <2>2. sent[i].at \in starts'
    BY <1>1, <2>1 DEF InPlace
  <2> QED
    BY <1>1, <1>4, <2>1, <2>2 DEF InPlace
<1> QED
  BY <1>1, <1>2, <1>3, <1>5 DEF Line

LEMMA LineRead ==
  ASSUME SizesFit, Positions, Buffer, Chain, Reader, Line, ReadAdvance
  PROVE  Line'
<1> DEFINE n == Len(sent)
           E == [at : Cells, size : Sizes, val : Values]
<1>1. /\ tail \in starts /\ ~buf[tail].gap /\ tail' = (tail + Span(tail)) % Size
      /\ UNCHANGED <<buf, head>> /\ starts' = starts \ {tail}
      /\ sent' = SubSeq(sent, 2, n)
  BY TailActions DEF ReadAdvance, Reader
<1>2. n >= 1 /\ sent[1].at = tail /\ InPlace(1) /\ n \in Nat
  BY <1>1, TailFirst, LineFacts
<1>3. /\ sent' \in Seq(E) /\ Len(sent') = n - 1
      /\ \A i \in 1 .. n - 1 : sent'[i] = sent[i + 1]
      /\ sent' = <<>> <=> n = 1
  <2>1. \A i \in 2 .. n : sent[i] \in E
    BY LineFacts
  <2> HIDE DEF E
  <2>2. /\ sent' \in Seq(E)
        /\ Len(sent') = IF 2 <= n THEN n - 2 + 1 ELSE 0
        /\ \A i \in 1 .. n - 2 + 1 : sent'[i] = sent[2 + i - 1]
    BY <1>1, <1>2, <2>1, SubSeqProperties
  <2>3. n - 2 + 1 = n - 1 /\ Len(sent') = n - 1
    <3> HIDE DEF n
    <3> QED
      BY <1>2, <2>2
  <2>4. \A i \in Int : 2 + i - 1 = i + 1
    OBVIOUS
  <2> HIDE DEF n
  <2>5. ASSUME NEW i \in 1 .. n - 1
        PROVE  sent'[i] = sent[i + 1]
    <3>1. i \in 1 .. n - 2 + 1 /\ 2 + i - 1 = i + 1
      BY <2>3, <2>4
    <3> QED
      BY <2>2, <3>1
  <2>6. sent' = <<>> <=> Len(sent') = 0
    BY <2>2, EmptySeq
  <2>7. n - 1 = 0 <=> n = 1
    BY <1>2
  <2> QED
    BY <2>2, <2>3, <2>5, <2>6, <2>7
<1> HIDE DEF n, E
<1>4. \A c : After(c)' = After(c) /\ First(c)' = First(c)
  BY <1>1 DEF After, First, Span
<1>5. First(tail)' = IF sent' = <<>> THEN head' ELSE sent'[1].at
  <2>1. First(tail)' = After(tail)
    BY <1>1, <1>4 DEF After
  <2>2. After(tail) = IF 1 = n THEN head ELSE sent[1 + 1].at
    BY <1>2 DEF InPlace, n
  <2>3. n # 1 => sent'[1] = sent[1 + 1]
    BY <1>2, <1>3
  <2> QED
    BY <1>1, <1>3, <2>1, <2>2, <2>3
<1>6. ASSUME NEW i \in 1 .. n - 1
      PROVE  InPlace(i)'
  <2>1. PICK j : j = i + 1
    OBVIOUS
  <2>2. j \in 1 .. n /\ j # 1 /\ InPlace(j) /\ sent'[i] = sent[j]
    BY <1>2, <1>3, <2>1 DEF Line, n
  <2>3. sent[j].at # tail
    BY <1>2, <2>2 DEF InPlace, n
  <2>4. After(sent[j].at) = IF i = Len(sent') THEN head ELSE sent'[i + 1].at
    <3>1. After(sent[j].at) = IF j = n THEN head ELSE sent[j + 1].at
      BY <2>2 DEF InPlace, n
    <3>2. j = n <=> i = Len(sent')
      BY <1>2, <1>3, <2>1
    <3>3. j # n => sent'[i + 1] = sent[j + 1]
      BY <1>2, <1>3, <2>1
    <3> QED
      BY <3>1, <3>2, <3>3
  <2>5. ASSUME NEW k \in 1 .. Len(sent'), sent'[k].at = sent[j].at
        PROVE  k = i
    <3>1. k + 1 \in 1 .. n /\ sent'[k] = sent[k + 1]
      BY <1>2, <1>3
    <3>2. k + 1 = j
      BY <2>2, <2>5, <3>1 DEF InPlace, n
    <3> QED
      BY <2>1, <3>2
  <2> QED
    BY <1>1, <1>4, <2>2, <2>3, <2>4, <2>5 DEF InPlace
<1> QED
  BY <1>3, <1>5, <1>6 DEF Line, E

LEMMA LineStep ==
  ASSUME SizesFit, Positions, Positions', Buffer, Job, Chain, Chain', Room, Reader, Line,
         Filled, Next
  PROVE  Line'
<1>1. CASE Publish
  BY <1>1, LinePublish
<1>2. CASE SkipGap
  BY <1>2, LineSkip
<1>3. CASE ReadAdvance
  BY <1>3, LineRead
<1>4. CASE ~Publish /\ ~SkipGap /\ ~ReadAdvance
  <2>1. UNCHANGED <<head, tail, starts, sent>>
    BY <1>4, Actions DEF WriteRequest, Begin, Fill, WriteHeader, ReadRequest, Look, LookSecond,
       CopyWord
  <2>2. \A c \in Cells : Unread(c) => buf'[c] = buf[c]
    BY BufferStep
  <2> QED
    BY <2>1, <2>2, LineKeeps
<1> QED
  BY <1>1, <1>2, <1>3, <1>4

(* The producer's words *)
LEMMA FilledStep ==
  ASSUME SizesFit, Positions, Buffer, Job, Room, Filled, Next
  PROVE  Filled'
<1> USE DEF producerVars, consumerVars
<1>1. CASE \E n \in Sizes : WriteRequest(n)
  BY <1>1 DEF WriteRequest, Filled
<1>2. CASE \E w \in Sizes, v \in Values : w <= minimum /\ Begin(w, v)
  <2>1. job'.val \in Values /\ filled' = 0 /\ ppc' = "fill"
    BY <1>2 DEF Begin
  <2> QED
    BY <2>1 DEF Filled
<1>3. CASE Fill
  <2>1. /\ ppc = "fill" /\ ppc' = "fill" /\ filled' = filled + 1 /\ filled \in Nat
        /\ buf' = [buf EXCEPT ![Word(filled)] = DataCell(job.val)]
        /\ UNCHANGED <<head, job, gapd>>
    BY <1>3 DEF Fill, Job
  <2>2. Word(filled) \in Cells /\ Start \in Int
    BY <1>3, FillPlace, Places DEF Start
  <2>3. \A w \in 0 .. filled : Word(w)' = Word(w) /\ (w # filled => Word(w) # Word(filled))
    BY <2>1, <2>2 DEF Word, Start
  <2>4. ASSUME NEW w \in 0 .. filled
        PROVE  buf'[Word(w)].val = job.val
    <3>1. CASE w = filled
      BY <2>1, <2>2, <3>1 DEF Buffer, DataCell
    <3>2. CASE w # filled
      <4>1. w \in 0 .. filled - 1
        BY <2>1, <3>2
      <4>2. buf[Word(w)].val = job.val
        BY <2>1, <4>1 DEF Filled
      <4> QED
        BY <2>1, <2>2, <2>3, <3>2, <4>2 DEF Buffer
    <3> QED
      BY <3>1, <3>2
  <2>5. filled' - 1 = filled
    BY <2>1
  <2> QED
    BY <2>1, <2>3, <2>4, <2>5 DEF Filled
<1>4. CASE WriteHeader
  <2>1. /\ ppc = "fill" /\ ppc' = "publish" /\ filled = Words(job.size)
        /\ UNCHANGED <<head, job, gapd, filled>>
        /\ \A c \in Cells : c # head /\ c # Start => buf'[c] = buf[c]
    BY <1>4 DEF WriteHeader, Start, Buffer
  <2> DEFINE L == Header + Pad(job.size)
  <2>2. job.size \in Sizes /\ job.size <= minimum /\ ppc # "idle"
    BY <1>4, Writes DEF WriteHeader
  <2>3. /\ L \in Nat /\ Start + L < Size /\ Start \in Nat /\ Start % 8 = 0
        /\ gapd > 0 => Start = 0 /\ tail <= head /\ L < tail
        /\ gapd = 0 => Start = head
    <3>1. /\ L \in Nat /\ Start + L < Size /\ Start \in Cells
          /\ gapd > 0 => Start = 0 /\ tail <= head /\ L < tail
          /\ gapd = 0 => Start = head
      BY <2>2, Claims
    <3>2. Start \in Nat /\ Start % 8 = 0
      BY <3>1, CellFacts
    <3> QED
      BY <3>1, <3>2
  <2>4. 8 * Words(job.size) = Pad(job.size) /\ Words(job.size) \in Nat
    BY <2>2, PadFacts DEF SizesFit
  <2>5. ASSUME NEW w \in 0 .. filled - 1
        PROVE  Word(w) \in Cells /\ Word(w) # head /\ Word(w) # Start
    <3>1. w \in Nat /\ Word(w) = Start + 8 + 8 * w /\ 8 + 8 * w < L
      BY <2>1, <2>4 DEF Word
    <3> HIDE DEF L
    <3>2. head \in Nat /\ tail \in Nat /\ gapd \in Nat
      BY Places DEF Positions
    <3>3. Word(w) # Start /\ Word(w) \in 0 .. Size - 1 /\ Word(w) % 8 = 0 /\ Word(w) < Start + L
      BY <2>3, <3>1
    <3>4. Word(w) # head
      BY <2>3, <3>1, <3>2, <3>3
    <3> QED
      BY <3>3, <3>4, CellFacts
  <2>6. \A w : Word(w)' = Word(w)
    BY <2>1 DEF Word, Start
  <2> QED
    BY <2>1, <2>5, <2>6 DEF Filled
<1>5. CASE Publish
  BY <1>5 DEF Publish, Filled
<1>6. CASE ReadRequest \/ Look \/ SkipGap \/ LookSecond \/ CopyWord \/ ReadAdvance
  <2>1. UNCHANGED <<buf, head, ppc, job, filled, gapd>>
    BY <1>6 DEF ReadRequest, Look, SkipGap, LookSecond, CopyWord, ReadAdvance
  <2> QED
    BY <2>1 DEF Filled, Word, Start
<1> QED
  BY Actions, <1>1, <1>2, <1>3, <1>4, <1>5, <1>6

(* The consumer's copy *)
LEMMA CopiedStep ==
  ASSUME SizesFit, Positions, Buffer, Job, Copy, Chain, Room, Reader, Line, Copied, Next
  PROVE  Copied'
<1> USE DEF producerVars, consumerVars
<1>1. cpc = "read" => Len(sent) >= 1 /\ Len(sent) \in Nat /\ sent[1].at = tail /\ InPlace(1)
  BY TailFirst, LineFacts DEF Reader
<1>2. CASE \/ \E n \in Sizes : WriteRequest(n)
           \/ \E w \in Sizes, v \in Values : w <= minimum /\ Begin(w, v)
           \/ Fill \/ WriteHeader
  <2>1. UNCHANGED <<cpc, copy, copied, sent>>
    BY <1>2 DEF WriteRequest, Begin, Fill, WriteHeader
  <2> QED
    BY <2>1 DEF Copied
<1>3. CASE Publish
  <2> DEFINE e == [at |-> Start, size |-> job.size, val |-> job.val]
  <2>1. UNCHANGED <<cpc, copy, copied>> /\ sent' = Append(sent, e)
    BY <1>3 DEF Publish
  <2>2. sent \in Seq([at : Cells, size : Sizes, val : Values])
    BY DEF Line
  <2> HIDE DEF e
  <2>3. cpc = "read" => sent'[1] = sent[1]
    BY <1>1, <2>1, <2>2
  <2> QED
    BY <2>1, <2>3 DEF Copied
<1>4. CASE ReadRequest \/ SkipGap \/ ReadAdvance
  <2>1. cpc' # "read"
    BY <1>4 DEF ReadRequest, SkipGap, ReadAdvance
  <2> QED
    BY <2>1 DEF Copied
<1>5. CASE Look \/ LookSecond
  <2>1. cpc' = "read" => copied' = 0 /\ copy' = {}
    BY <1>5 DEF Look, LookSecond, HandOut
  <2> QED
    BY <2>1 DEF Copied
<1>6. CASE CopyWord
  <2>1. /\ cpc = "read" /\ copied < Words(toread) /\ toread = buf[tail].size
        /\ copy' = copy \cup {buf[tail + Header + 8 * copied].val}
        /\ copied' = copied + 1 /\ UNCHANGED <<cpc, sent>>
    BY <1>6 DEF CopyWord, Reader
  <2>2. /\ buf[tail].size = sent[1].size
        /\ \A w \in 0 .. Words(sent[1].size) - 1 : buf[tail + Header + 8 * w].val = sent[1].val
    BY <1>1, <2>1 DEF InPlace
  <2>3. copied \in Nat /\ copied \in 0 .. Words(sent[1].size) - 1
    <3>1. Words(sent[1].size) \in Nat
      <4>1. sent[1].size \in Sizes
        BY <1>1, <2>1, LineFacts
      <4> QED
        BY <4>1, PadFacts DEF SizesFit
    <3> QED
      BY <2>1, <2>2, <3>1 DEF Copy
  <2>4. copy' = {sent[1].val} /\ copied' # 0
    BY <2>1, <2>2, <2>3 DEF Copied
  <2> QED
    BY <2>1, <2>4 DEF Copied
<1> QED
  BY Actions, <1>2, <1>3, <1>4, <1>5, <1>6
-----------------------------------------------------------------------------
(* The invariant *)
LEMMA InitInvariant ==
  ASSUME Init
  PROVE  IInv
<1>1. Positions /\ starts = {} /\ head = tail /\ ppc = "idle" /\ cpc = "idle"
  BY CellFacts DEF Init, Positions
<1>2. Buffer
  BY DEF Init, Buffer, Cell, HeaderCell
<1>3. Job /\ Copy
  BY NoneFits DEF Init, Job, Copy
<1>4. Chain /\ Room /\ Reader /\ Filled /\ Copied
  BY <1>1 DEF Chain, Room, Reader, Filled, Copied
<1>5. Line
  <2>1. sent = <<>> /\ Len(sent) = 0 /\ sent \in Seq([at : Cells, size : Sizes, val : Values])
    BY DEF Init
  <2>2. First(tail) = head
    BY <1>1 DEF First
  <2> QED
    BY <2>1, <2>2 DEF Line
<1> QED
  BY <1>1, <1>2, <1>3, <1>4, <1>5, TypeParts DEF IInv

LEMMA StepInvariant ==
  ASSUME SizesFit, IInv, [Next]_vars
  PROVE  IInv'
<1>1. /\ Positions /\ Buffer /\ Job /\ Copy /\ Chain /\ Room /\ Reader
      /\ Line /\ Filled /\ Copied
  BY TypeParts DEF IInv
<1>2. CASE Next
  <2>1. Positions' /\ Buffer' /\ Job' /\ Copy'
    BY <1>1, <1>2, PositionsStep, BufferStep, JobStep, CopyStep
  <2>2. TypeOK'
    BY <2>1 DEF TypeOK, Positions, Buffer, Job, Copy
  <2>3. Chain' /\ Room' /\ Reader'
    BY <1>1, <1>2, ChainStep, RoomStep, ReaderStep
  <2>4. Line' /\ Filled' /\ Copied'
    BY <1>1, <1>2, <2>1, <2>3, LineStep, FilledStep, CopiedStep
  <2> QED
    BY <2>2, <2>3, <2>4 DEF IInv
<1>3. CASE UNCHANGED vars
  <2>1. /\ UNCHANGED <<buf, head, tail, starts, ppc, minimum, job, filled, rsvd, gapd>>
        /\ UNCHANGED <<cpc, seen, toread, copied, copy, got, sent>>
    BY <1>3 DEF vars, producerVars, consumerVars
  <2>2. TypeOK'
    BY <2>1 DEF TypeOK, IInv
  <2>3. Chain'
    BY <1>1, <2>1 DEF Chain, Span, Ahead, Unread
  <2>4. Room' /\ Reader'
    BY <1>1, <2>1 DEF Room, Reader, Start
  <2>5. Line' /\ Filled' /\ Copied'
    <3>1. Line'
      BY <1>1, <2>1, LineKeeps
    <3> QED
      BY <1>1, <2>1, <3>1 DEF Filled, Copied, Word, Start
  <2> QED
    BY <2>2, <2>3, <2>4, <2>5 DEF IInv
<1> QED
  BY <1>2, <1>3

(* The unread chunks and gaps follow one another from tail to head without *)
(* a break or an overlap, whatever the two sides do                        *)
(* (varchunk_write_advance, varchunk_read_advance).                        *)
THEOREM RingInvariant ==
  ASSUME SizesFit
  PROVE  Spec => []IInv
<1>1. Init => IInv
  BY InitInvariant
<1>2. IInv /\ [Next]_vars => IInv'
  BY StepInvariant
<1> QED
  BY <1>1, <1>2, PTL DEF Spec

(* What the producer may store to is never something the consumer has yet  *)
(* to read (varchunk_write_request_max).                                   *)
THEOREM RingNoClobber ==
  ASSUME SizesFit
  PROVE  Spec => []NoClobber
<1>1. IInv => NoClobber
  <2> SUFFICES ASSUME IInv, ppc # "idle",
                      NEW p \in Claimed(IF ppc = "begin" THEN minimum ELSE job.size)
                                  \cup (IF gapd > 0 THEN head .. (head + Header - 1) ELSE {})
               PROVE  p < Size /\ ~Unread(p)
    BY DEF NoClobber
  <2> DEFINE n == IF ppc = "begin" THEN minimum ELSE job.size
             L == Header + Pad(n)
  <2>1. Positions /\ Job /\ Room
    BY TypeParts DEF IInv
  <2>2. n \in Sizes /\ n <= minimum
    <3>1. minimum \in Sizes /\ (ppc # "begin" => job.size \in Sizes /\ job.size <= minimum)
      BY <2>1 DEF Room
    <3>2. minimum \in Nat
      BY <3>1
    <3> QED
      BY <3>1, <3>2
  <2>3. Pad(n) \in Nat
    BY <2>2, PadFacts DEF SizesFit
  <2> HIDE DEF n
  <2>4. /\ L \in Nat /\ Start + L < Size /\ Start \in Cells
        /\ gapd > 0 => tail <= head
        /\ \A q \in Start .. Start + L - 1 : ~Unread(q)
    BY <2>1, <2>2, Claims
  <2>5. head \in 0 .. Size - 1 /\ tail \in 0 .. Size - 1 /\ head + 8 <= Size /\ Start \in Int
    BY <2>1, <2>4, Places, CellFacts
  <2>6. CASE p \in Claimed(n)
    BY <2>3, <2>4, <2>5, <2>6 DEF Claimed
  <2>7. CASE gapd > 0 /\ p \in head .. (head + Header - 1)
    <3>1. p \in Int /\ head <= p /\ p < Size /\ tail <= head
      BY <2>4, <2>5, <2>7
    <3> QED
      BY <2>5, <3>1 DEF Unread
  <2> QED
    BY <2>6, <2>7 DEF n
<1> QED
  BY <1>1, RingInvariant, PTL

(* Behind a gap the consumer has skipped there is a chunk, as              *)
(* varchunk_read_request takes for granted.                                *)
THEOREM RingGapFollowed ==
  ASSUME SizesFit
  PROVE  Spec => []GapFollowed
<1>1. IInv => GapFollowed
  <2> SUFFICES ASSUME IInv, cpc = "second"
               PROVE  head # tail /\ ~buf[0].gap
    BY DEF GapFollowed
  <2>1. Positions /\ Chain /\ tail \in starts /\ ~buf[0].gap
    BY TypeParts DEF IInv, Reader
  <2> QED
    BY <2>1, StartsUnread
<1> QED
  BY <1>1, RingInvariant, PTL

(* An empty ring grants every request for up to half of it, wherever its   *)
(* positions stand (varchunk_write_request_max).                           *)
THEOREM RingEmptyGrants ==
  ASSUME SizesFit
  PROVE  Spec => []EmptyGrants
<1>1. IInv => EmptyGrants
  <2> SUFFICES ASSUME IInv, head = tail, NEW n \in Sizes, 2 * Padded(n) <= Size
               PROVE  Reserve(head, tail, n) # Refused
    BY DEF EmptyGrants
  <2> DEFINE P == Padded(n)
             len2 == (head + (Size - 1)) % Size
  <2>1. head \in 0 .. Size - 1 /\ head % 8 = 0
    BY TypeParts, Places DEF IInv
  <2>2. P \in Nat /\ P >= 16 /\ 2 * P <= Size
    <3>1. Pad(n) \in Nat
      BY PadFacts DEF SizesFit
    <3> QED
      BY <3>1 DEF Padded
  <2>3. WritableSpace(head, tail) = Size - 1
    BY <2>1 DEF WritableSpace
  <2>4. head > 1 => len2 = head - 1
    <3> DEFINE a == head + (Size - 1)
    <3> SUFFICES ASSUME head > 1 PROVE a % Size = head - 1
      OBVIOUS
    <3>1. a \in Nat /\ a < 2 * Size /\ ~(a < Size) /\ a - Size = head - 1
      BY <2>1
    <3> HIDE DEF a
    <3> QED
      BY <3>1, Wrapped
  <2> HIDE DEF P, len2
  <2>5. Reserve(head, tail, n) =
          IF head + (Size - 1) > Size
          THEN IF Size - head >= P THEN [rsvd |-> Size - head, gapd |-> 0]
               ELSE IF len2 >= P THEN [rsvd |-> len2, gapd |-> Size - head]
               ELSE Refused
          ELSE IF Size - 1 >= P THEN [rsvd |-> Size - 1, gapd |-> 0] ELSE Refused
    BY <2>3 DEF Reserve, P, len2
  <2>6. Reserve(head, tail, n).rsvd > 0
    <3>1. CASE head + (Size - 1) > Size /\ Size - head >= P
      BY <2>1, <2>2, <2>5, <3>1
    <3>2. CASE head + (Size - 1) > Size /\ ~(Size - head >= P)
      <4>1. len2 >= P /\ len2 \in Int
        BY <2>1, <2>2, <2>4, <3>2
      <4> QED
        BY <2>2, <2>5, <3>2, <4>1
    <3>3. CASE ~(head + (Size - 1) > Size)
      BY <2>1, <2>2, <2>5, <3>3
    <3> QED
      BY <3>1, <3>2, <3>3
  <2> QED
    BY <2>6 DEF Refused
<1> QED
  BY <1>1, RingInvariant, PTL
-----------------------------------------------------------------------------
(* The ring is a queue: Publish writes, ReadAdvance reads, every other     *)
(* step stutters.                                                          *)
LEMMA QueueFacts ==
  ASSUME Line
  PROVE  /\ Len(Queue) = Len(sent) /\ Len(sent) \in Nat
         /\ \A i \in 1 .. Len(sent) : Queue[i] = ChunkOf(sent[i].size, sent[i].val)
         /\ \A C : (\A i \in 1 .. Len(sent) : ChunkOf(sent[i].size, sent[i].val) \in C)
                      => Queue \in Seq(C)
BY LineFacts DEF Queue

LEMMA PublishWrites ==
  ASSUME SizesFit, IInv, Publish
  PROVE  Fifo!Next
<1> DEFINE e == [at |-> Start, size |-> job.size, val |-> job.val]
           c == ChunkOf(job.size, job.val)
           n == Len(sent)
<1>1. sent' = Append(sent, e) /\ got' = got
  BY DEF Publish, consumerVars
<1>2. job.size \in Sizes /\ job.val \in Values
  BY DEF IInv, Publish, Room, Filled
<1>3. sent \in Seq([at : Cells, size : Sizes, val : Values]) /\ n \in Nat
  BY LineFacts DEF IInv, Line
<1>4. /\ Len(sent') = n + 1 /\ sent'[n + 1] = e
      /\ \A i \in 1 .. n : sent'[i] = sent[i]
  BY <1>1, <1>3
<1>5. Queue' = Append(Queue, c)
  <2>1. Queue' = [i \in 1 .. n + 1 |-> ChunkOf(sent'[i].size, sent'[i].val)]
    BY <1>4 DEF Queue
  <2>2. Append(Queue, c) = [i \in 1 .. n + 1 |-> IF i = n + 1 THEN c ELSE Queue[i]]
    BY <1>3, QueueFacts DEF IInv
  <2> HIDE DEF c
  <2>3. \A i \in 1 .. n + 1 :
          ChunkOf(sent'[i].size, sent'[i].val) = IF i = n + 1 THEN c ELSE Queue[i]
    BY <1>3, <1>4 DEF Queue, c
  <2> QED
    BY <2>1, <2>2, <2>3
<1>6. c \in {ChunkOf(s, v) : s \in Sizes, v \in Values}
  BY <1>2
<1> HIDE DEF c
<1> QED
  BY <1>1, <1>5, <1>6 DEF Fifo!Next, Fifo!Write

LEMMA ReadReads ==
  ASSUME SizesFit, IInv, ReadAdvance
  PROVE  Fifo!Read
<1> DEFINE n == Len(sent)
           E == [at : Cells, size : Sizes, val : Values]
<1>1. /\ cpc = "read" /\ copied = Words(toread) /\ toread = buf[tail].size
      /\ tail \in starts /\ ~buf[tail].gap
      /\ got' = [size |-> toread, vals |-> copy] /\ sent' = SubSeq(sent, 2, n)
      /\ copy = IF copied = 0 THEN {} ELSE {sent[1].val}
  BY DEF ReadAdvance, IInv, Reader, Copied
<1>2. n >= 1 /\ n \in Nat /\ sent # <<>> /\ toread = sent[1].size /\ toread \in Sizes
  <2>1. Line /\ Positions /\ Chain
    BY TypeParts DEF IInv
  <2>2. n >= 1 /\ sent # <<>> /\ sent[1].at = tail /\ InPlace(1) /\ n \in Nat
    BY <1>1, <2>1, TailFirst, LineFacts
  <2>3. sent[1] \in E
    BY <2>1, <2>2, LineFacts
  <2> QED
    BY <1>1, <2>2, <2>3 DEF InPlace
<1>3. copied = 0 <=> toread = 0
  <2>1. Fits(toread)
    BY <1>2 DEF SizesFit
  <2>2. /\ Words(toread) \in Nat /\ 8 * Words(toread) = Pad(toread) /\ toread <= Pad(toread)
        /\ Pad(toread) \in Nat /\ toread \in Nat
    BY <2>1, PadFacts DEF Fits
  <2>3. toread = 0 => Words(toread) = 0
    BY NoneFits
  <2> QED
    BY <1>1, <2>2, <2>3
<1>4. got' = ChunkOf(sent[1].size, sent[1].val)
  BY <1>1, <1>2, <1>3 DEF ChunkOf
<1>5. /\ Queue # <<>> /\ Head(Queue) = ChunkOf(sent[1].size, sent[1].val)
      /\ Tail(Queue) = [i \in 1 .. n - 1 |-> ChunkOf(sent[i + 1].size, sent[i + 1].val)]
  <2>1. /\ Len(Queue) = n
        /\ \A i \in 1 .. n : Queue[i] = ChunkOf(sent[i].size, sent[i].val)
    BY QueueFacts DEF IInv
  <2>2. Queue \in Seq({ChunkOf(sent[i].size, sent[i].val) : i \in 1 .. n})
    BY QueueFacts DEF IInv
  <2>3. Queue # <<>>
    BY <1>2, <2>1
  <2>4. Head(Queue) = Queue[1]
    BY <2>2, <2>3
  <2>5. Tail(Queue) = [i \in 1 .. n - 1 |-> Queue[i + 1]]
    <3> DEFINE C == {ChunkOf(sent[i].size, sent[i].val) : i \in 1 .. n}
               t == Tail(Queue)
    <3>1. Queue \in Seq(C)
      BY <2>2
    <3> HIDE DEF C, n
    <3>2. t \in Seq(C) /\ Len(t) = n - 1 /\ \A i \in 1 .. Len(t) : t[i] = Queue[i + 1]
      BY <2>1, <2>3, <3>1, HeadTailProperties
    <3> HIDE DEF t
    <3>3. t = [i \in 1 .. Len(t) |-> t[i]]
      BY <3>2
    <3>4. t = [i \in 1 .. n - 1 |-> Queue[i + 1]]
      BY <3>2, <3>3
    <3> QED
      BY <3>4 DEF t
  <2> QED
    BY <1>2, <2>1, <2>3, <2>4, <2>5
<1>6. Queue' = Tail(Queue)
  <2>1. /\ Len(sent') = n - 1
        /\ \A i \in 1 .. n - 1 : sent'[i] = sent[i + 1]
    <3>1. \A i \in 2 .. n : sent[i] \in E
      BY LineFacts DEF IInv
    <3> HIDE DEF E
    <3>2. /\ Len(sent') = IF 2 <= n THEN n - 2 + 1 ELSE 0
          /\ \A i \in 1 .. n - 2 + 1 : sent'[i] = sent[2 + i - 1]
      BY <1>1, <1>2, <3>1, SubSeqProperties
    <3>3. n - 2 + 1 = n - 1 /\ Len(sent') = n - 1
      <4> HIDE DEF n
      <4> QED
        BY <1>2, <3>2
    <3>4. \A i \in Int : 2 + i - 1 = i + 1
      OBVIOUS
    <3> HIDE DEF n
    <3>5. ASSUME NEW i \in 1 .. n - 1
          PROVE  sent'[i] = sent[i + 1]
      <4>1. i \in 1 .. n - 2 + 1 /\ 2 + i - 1 = i + 1
        BY <3>3, <3>4
      <4> QED
        BY <3>2, <4>1
    <3> QED
      BY <3>3, <3>5
  <2> QED
    BY <1>5, <2>1 DEF Queue
<1> QED
  BY <1>4, <1>5, <1>6 DEF Fifo!Read

(* Varchunk implements ChunkFifo: chunks are released once, in the order   *)
(* they were published, with the size and the payload they were published  *)
(* with (varchunk_write_advance, varchunk_read_advance).                   *)
THEOREM RingImplementsFifo ==
  ASSUME SizesFit
  PROVE  Spec => FifoSpec
<1>1. Init => Fifo!Init
  BY DEF Init, Fifo!Init, Queue
<1>2. IInv /\ [Next]_vars => [Fifo!Next]_(Fifo!vars)
  <2> SUFFICES ASSUME IInv, [Next]_vars PROVE Fifo!Next \/ UNCHANGED <<Queue, got>>
    BY DEF Fifo!vars
  <2>1. CASE Publish
    BY <2>1, PublishWrites
  <2>2. CASE ReadAdvance
    BY <2>2, ReadReads DEF Fifo!Next
  <2>3. CASE Next /\ ~Publish /\ ~ReadAdvance
    <3>1. UNCHANGED <<sent, got>>
      BY <2>3, Actions DEF WriteRequest, Begin, Fill, WriteHeader, ReadRequest, Look, SkipGap,
         LookSecond, CopyWord, HandOut, consumerVars
    <3> QED
      BY <3>1 DEF Queue
  <2>4. CASE UNCHANGED vars
    BY <2>4 DEF vars, consumerVars, Queue
  <2> QED
    BY <2>1, <2>2, <2>3, <2>4
<1> QED
  BY <1>1, <1>2, RingInvariant, PTL DEF Spec, FifoSpec, Fifo!Spec
=============================================================================
