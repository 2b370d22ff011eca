------------------------------ MODULE Varchunk -------------------------------
(***************************************************************************)
(* The lock-free ring buffer that carries work requests and responses      *)
(* between a plugin and the worker (subprojects/varchunk).  One producer   *)
(* and one consumer share a byte buffer and two positions: `head`, stored  *)
(* only by the producer, and `tail`, stored only by the consumer.  Every   *)
(* load and store of a position, every payload word and every header is a  *)
(* step of its own.                                                        *)
(*                                                                         *)
(* Memory order: varchunk_new(.., true) makes each store of a position a   *)
(* release and each load of the other side's position an acquire, and each *)
(* position has one writer; the steps of the two sides then interleave as  *)
(* if memory were sequentially consistent, which is what the model does.   *)
(* Relaxed mode (.., false) is not used by lv2lint and not modelled.       *)
(*                                                                         *)
(* The buffer is kept per aligned 8-byte cell, because headers are 8 bytes *)
(* and payloads are padded to 8: a cell holds a header or a payload word.  *)
(***************************************************************************)
EXTENDS Integers, Sequences

CONSTANTS Size,        \* bytes in the ring (a power of two in the code)
          Sizes,       \* payload sizes the producer asks for, in bytes
          Values,      \* payloads, told apart and otherwise opaque
          NoValue,     \* what a header cell holds in place of a payload
          PadModulus   \* 2^32 in the code: VARCHUNK_PAD masks with a 32-bit ~7U

Header == 8            \* sizeof(varchunk_elmnt_t)

(* VARCHUNK_PAD: round up to 8, keeping the low 32 bits only *)
Pad(n) == (((n + 7) \div 8) * 8) % PadModulus

ASSUME SizeAssumption ==
  /\ Size \in Nat /\ Size >= 2 * Header /\ Size % Header = 0
  /\ Sizes \subseteq Nat
  /\ PadModulus \in Nat /\ PadModulus >= Size /\ PadModulus % Header = 0
  /\ NoValue \notin Values

Cells == {p \in 0 .. Size - 1 : p % Header = 0}

Cell == [size : Nat, gap : BOOLEAN, val : Values \cup {NoValue}]
HeaderCell(n, g) == [size |-> n, gap |-> g, val |-> NoValue]
DataCell(v) == [size |-> 0, gap |-> FALSE, val |-> v]

(* A chunk as its reader sees it: a size and the payloads found in its     *)
(* words; more than one payload would be a torn chunk.                     *)
ChunkOf(n, v) == [size |-> n, vals |-> IF n = 0 THEN {} ELSE {v}]
NoChunk == <<>>

VARIABLES
  buf,               \* varchunk->buf, by cell
  head, tail,        \* the two atomic positions, in bytes
  rsvd, gapd,        \* what the last request reserved and the gap before it
  ppc,               \* producer: idle | begin | fill | publish
  minimum,           \* the size the producer asked for
  job,               \* what it writes: [size |-> written, val |-> payload]
  filled,            \* payload words it has written
  cpc,               \* consumer: idle | look | skip | second | read
  seen,              \* the head the consumer loaded
  toread,            \* the size varchunk_read_request returned
  copied,            \* payload words it has read
  copy,              \* the payloads found in those words
  got,               \* history: the chunk released last
  starts,            \* history: where unread chunks and gaps begin
  sent               \* history: the chunks published and not yet released

producerVars == <<ppc, minimum, job, filled, rsvd, gapd>>
consumerVars == <<cpc, seen, toread, copied, copy, got>>
vars == <<buf, head, tail, producerVars, consumerVars, starts, sent>>
-----------------------------------------------------------------------------
(***************************************************************************)
(* The arithmetic of the two positions                                     *)
(***************************************************************************)

(* Bytes the producer may use; one byte stays free so that head = tail     *)
(* always means "empty".                                                   *)
WritableSpace(h, t) ==
  IF h > t THEN ((t - h + Size) % Size) - 1
  ELSE IF h < t THEN (t - h) - 1
  ELSE Size - 1

ReadableSpace(h, t) == IF h > t THEN h - t ELSE (h - t + Size) % Size

(* room for two headers: the chunk's own and that of a gap after it *)
Padded(n) == 2 * Header + Pad(n)

Refused == [rsvd |-> 0, gapd |-> 0]

(* variants: no room for headers, and giving up at the end of the buffer *)
ReserveNoHeader(h, t, n) ==
  LET space == WritableSpace(h, t)
  IN IF h + space > Size
     THEN IF Size - h >= Pad(n) THEN [rsvd |-> Size - h, gapd |-> 0]
          ELSE IF (h + space) % Size >= Pad(n)
          THEN [rsvd |-> (h + space) % Size, gapd |-> Size - h]
          ELSE Refused
     ELSE IF space >= Pad(n) THEN [rsvd |-> space, gapd |-> 0]
          ELSE Refused
ReserveFirstPart(h, t, n) ==
  LET space == WritableSpace(h, t)
      len1  == IF h + space > Size THEN Size - h ELSE space
  IN IF len1 >= Padded(n) THEN [rsvd |-> len1, gapd |-> 0] ELSE Refused
(* varchunk_write_request_max for positions h, t: the bytes reserved (0 is *)
(* the NULL return) and the bytes skipped at the end of the buffer.        *)
Reserve(h, t, n) ==
  LET space == WritableSpace(h, t)
      len1  == Size - h
      len2  == (h + space) % Size
  IN IF h + space > Size
     THEN IF len1 >= Padded(n) THEN [rsvd |-> len1, gapd |-> 0]
          ELSE IF len2 >= Padded(n) THEN [rsvd |-> len2, gapd |-> len1]
          ELSE Refused
     ELSE IF space >= Padded(n) THEN [rsvd |-> space, gapd |-> 0]
          ELSE Refused

(* where the chunk's header goes, and its payload words after it *)
Start == IF gapd > 0 THEN 0 ELSE head
Word(i) == Start + Header + 8 * i
Words(n) == Pad(n) \div 8
-----------------------------------------------------------------------------
Init ==
  /\ buf = [c \in Cells |-> HeaderCell(0, FALSE)]
  /\ head = 0 /\ tail = 0
  /\ rsvd = 0 /\ gapd = 0
  /\ ppc = "idle" /\ minimum = 0 /\ job = [size |-> 0, val |-> NoValue] /\ filled = 0
  /\ cpc = "idle" /\ seen = 0 /\ toread = 0 /\ copied = 0 /\ copy = {}
  /\ got = NoChunk /\ starts = {} /\ sent = <<>>

(***************************************************************************)
(* The producer                                                            *)
(***************************************************************************)

(* varchunk_write_request: load the tail, reserve.  A refusal returns NULL *)
(* and clears both fields.                                                 *)
WriteRequest(n) ==
  /\ ppc = "idle"
  /\ LET r == Reserve(head, tail, n)
     IN /\ rsvd' = r.rsvd /\ gapd' = r.gapd
        /\ IF r = Refused
           THEN UNCHANGED <<ppc, minimum>>
           ELSE ppc' = "begin" /\ minimum' = n
  /\ UNCHANGED <<buf, head, tail, job, filled, consumerVars, starts, sent>>

(* the caller decides what it writes into the reservation *)
Begin(written, v) ==
  /\ ppc = "begin"
  /\ job' = [size |-> written, val |-> v]
  /\ filled' = 0
  /\ ppc' = "fill"
  /\ UNCHANGED <<buf, head, tail, minimum, rsvd, gapd, consumerVars, starts, sent>>

(* one 8-byte word of the caller's memcpy *)
Fill ==
  /\ ppc = "fill"
  /\ filled < Words(job.size)
  /\ buf' = [buf EXCEPT ![Word(filled)] = DataCell(job.val)]
  /\ filled' = filled + 1
  /\ UNCHANGED <<head, tail, ppc, minimum, job, rsvd, gapd, consumerVars,
                 starts, sent>>

(* varchunk_write_advance up to the store of head: the header of the chunk *)
(* and, before it, the header of the gap at the end of the buffer.         *)
WriteHeaderTwoGaps ==   \* variant: the flag set in both headers
  /\ ppc = "fill"
  /\ filled = Words(job.size)
  /\ buf' = [buf EXCEPT ![head]  = HeaderCell(gapd - Header, gapd > 0),
                        ![Start] = HeaderCell(job.size, gapd > 0)]
  /\ ppc' = "publish"
  /\ UNCHANGED <<head, tail, minimum, job, filled, rsvd, gapd, consumerVars,
                 starts, sent>>
WriteHeader ==
  /\ ppc = "fill"
  /\ filled = Words(job.size)
  /\ buf' = IF gapd > 0
            THEN [buf EXCEPT ![head] = HeaderCell(gapd - Header, TRUE),
                             ![0]    = HeaderCell(job.size, FALSE)]
            ELSE [buf EXCEPT ![head] = HeaderCell(job.size, FALSE)]
  /\ ppc' = "publish"
  /\ UNCHANGED <<head, tail, minimum, job, filled, rsvd, gapd, consumerVars,
                 starts, sent>>

(* _varchunk_write_advance_raw: the gap and the chunk become visible in    *)
(* one store.  rsvd and gapd keep their values until the next request.     *)
PublishUnmasked ==      \* variant: the position is not wrapped
  /\ ppc = "publish"
  /\ head' = head + gapd + Header + Pad(job.size)
  /\ starts' = starts \cup {head, Start}
  /\ sent' = Append(sent, [at |-> Start, size |-> job.size, val |-> job.val])
  /\ ppc' = "idle"
  /\ UNCHANGED <<buf, tail, minimum, job, filled, rsvd, gapd, consumerVars>>
Publish ==
  /\ ppc = "publish"
  /\ head' = (head + gapd + Header + Pad(job.size)) % Size
  /\ starts' = starts \cup {head, Start}
  /\ sent' = Append(sent, [at |-> Start, size |-> job.size, val |-> job.val])
  /\ ppc' = "idle"
  /\ UNCHANGED <<buf, tail, minimum, job, filled, rsvd, gapd, consumerVars>>
-----------------------------------------------------------------------------
(***************************************************************************)
(* The consumer                                                            *)
(***************************************************************************)

(* varchunk_read_request, its two loads: nothing to read returns NULL *)
ReadRequest ==
  /\ cpc = "idle"
  /\ ReadableSpace(head, tail) > 0
  /\ seen' = head
  /\ cpc' = "look"
  /\ UNCHANGED <<buf, head, tail, producerVars, toread, copied, copy, got,
                 starts, sent>>

(* hand out the chunk whose header is at p *)
HandOut(p) ==
  /\ toread' = buf[p].size
  /\ copied' = 0 /\ copy' = {}
  /\ cpc' = "read"

(* The header at tail.  Its gap flag matters only when the readable bytes  *)
(* wrap around the end of the buffer.                                      *)
LookPastGap ==          \* variant: the gap flag is not looked at
  /\ cpc = "look"
  /\ HandOut(tail)
  /\ UNCHANGED <<buf, head, tail, producerVars, seen, got, starts, sent>>
Look ==
  /\ cpc = "look"
  /\ IF tail + ReadableSpace(seen, tail) > Size /\ buf[tail].gap
     THEN cpc' = "skip" /\ UNCHANGED <<toread, copied, copy>>
     ELSE HandOut(tail)
  /\ UNCHANGED <<buf, head, tail, producerVars, seen, got, starts, sent>>

(* skip the gap: tail moves by Size - tail, so to 0, and is stored at once *)
SkipGap ==
  /\ cpc = "skip"
  /\ tail' = (tail + (Size - tail)) % Size
  /\ starts' = starts \ {tail}
  /\ cpc' = "second"
  /\ UNCHANGED <<buf, head, producerVars, seen, toread, copied, copy, got, sent>>

(* the chunk behind the gap: the code looks at it without asking again     *)
(* whether there is one                                                    *)
LookSecond ==
  /\ cpc = "second"
  /\ HandOut(0)
  /\ UNCHANGED <<buf, head, tail, producerVars, seen, got, starts, sent>>

(* one 8-byte word read by the user of the chunk *)
CopyWord ==
  /\ cpc = "read"
  /\ copied < Words(toread)
  /\ copy' = copy \cup {buf[tail + Header + 8 * copied].val}
  /\ copied' = copied + 1
  /\ UNCHANGED <<buf, head, tail, producerVars, cpc, seen, toread, got,
                 starts, sent>>

(* varchunk_read_advance: the size is read from the header again.  What   *)
(* the consumer knew of the chunk goes out of scope.                       *)
ReadAdvanceNoHeader ==  \* variant: the header is not counted
  /\ cpc = "read"
  /\ copied = Words(toread)
  /\ tail' = (tail + Pad(buf[tail].size)) % Size
  /\ starts' = starts \ {tail}
  /\ sent' = SubSeq(sent, 2, Len(sent))
  /\ got' = [size |-> toread, vals |-> copy]
  /\ cpc' = "idle"
  /\ seen' = 0 /\ toread' = 0 /\ copied' = 0 /\ copy' = {}
  /\ UNCHANGED <<buf, head, producerVars>>
ReadAdvance ==
  /\ cpc = "read"
  /\ copied = Words(toread)
  /\ tail' = (tail + Header + Pad(buf[tail].size)) % Size
  /\ starts' = starts \ {tail}
  /\ sent' = SubSeq(sent, 2, Len(sent))
  /\ got' = [size |-> toread, vals |-> copy]
  /\ cpc' = "idle"
  /\ seen' = 0 /\ toread' = 0 /\ copied' = 0 /\ copy' = {}
  /\ UNCHANGED <<buf, head, producerVars>>
-----------------------------------------------------------------------------
(* Every caller in lv2lint writes no more than it asked for. *)
Caller == \E w \in Sizes, v \in Values : w <= minimum /\ Begin(w, v)

(* A caller that takes the other bound write_request_max returns, `maximum`. *)
MaxCaller == \E w \in Sizes, v \in Values : w <= rsvd /\ Begin(w, v)

Writing == Fill \/ WriteHeader \/ Publish

Consumer ==
  \/ ReadRequest
  \/ Look
  \/ SkipGap
  \/ LookSecond
  \/ CopyWord
  \/ ReadAdvance

Next ==
  \/ \E n \in Sizes : WriteRequest(n)
  \/ Caller
  \/ Writing
  \/ Consumer

NextMax ==
  \/ \E n \in Sizes : WriteRequest(n)
  \/ MaxCaller
  \/ Writing
  \/ Consumer

Spec == Init /\ [][Next]_vars

SpecMax == Init /\ [][NextMax]_vars

(* A consumer that has been handed work goes on with it: _wrap_work and    *)
(* _wrap_work_response loop until read_request returns NULL.               *)
FairSpec == Spec /\ WF_vars(Consumer)
-----------------------------------------------------------------------------
(* The positions stay on cell boundaries inside the buffer and every cell  *)
(* holds a header or a word.                                               *)
TypeOK ==
  /\ buf \in [Cells -> Cell]
  /\ head \in Cells /\ tail \in Cells /\ seen \in Cells
  /\ rsvd \in 0 .. Size /\ gapd \in 0 .. Size
  /\ ppc \in {"idle", "begin", "fill", "publish"}
  /\ minimum \in Sizes \cup {0}
  /\ job \in [size : Sizes \cup {0}, val : Values \cup {NoValue}]
  /\ filled \in 0 .. Words(job.size)
  /\ cpc \in {"idle", "look", "skip", "second", "read"}
  /\ toread \in Nat /\ copied \in 0 .. Words(toread)
  /\ copy \subseteq Values \cup {NoValue}
  /\ got \in {NoChunk} \cup [size : Nat, vals : SUBSET (Values \cup {NoValue})]

(* the bytes between tail and head, which the consumer may be reading *)
Unread(p) == IF tail <= head THEN tail <= p /\ p < head
                             ELSE tail <= p \/ p < head

(* the bytes a chunk of n bytes in the reservation is stored to *)
Claimed(n) == Start .. (Start + Header + Pad(n) - 1)

(* While the producer holds a reservation, what it may store to lies in    *)
(* the buffer and is nothing the consumer has yet to read: neither the     *)
(* chunk nor the gap header is written over an unread chunk.               *)
NoClobber ==
  ppc # "idle" =>
    LET bytes == Claimed(IF ppc = "begin" THEN minimum ELSE job.size)
                   \cup (IF gapd > 0 THEN head .. (head + Header - 1) ELSE {})
    IN \A p \in bytes : p < Size /\ ~Unread(p)

(* "there will always be at least one element after a gap" (read_request   *)
(* skips a gap and uses what follows without looking at head again).       *)
GapFollowed == cpc = "second" => head # tail /\ ~buf[0].gap

(* What these two rest on.  From tail to head the unread chunks and gaps   *)
(* follow one another without a break: each ends in the buffer, where the  *)
(* next begins or head stands, and none begins inside another.             *)
Span(p) == IF buf[p].gap THEN Size - p ELSE Header + Pad(buf[p].size)
Ahead(p) == IF p >= tail THEN p - tail ELSE p - tail + Size
Chain ==
  /\ starts \subseteq Cells
  /\ tail \in starts \cup {head}
  /\ \A c \in starts :
       /\ Unread(c)
       /\ c + Span(c) <= Size /\ Ahead(c) + Span(c) <= Ahead(head)
       /\ (c + Span(c)) % Size \in starts \cup {head}
       /\ IF buf[c].gap THEN 0 \in starts /\ ~buf[0].gap ELSE buf[c].size \in Sizes
       /\ \A d \in starts : Ahead(d) <= Ahead(c) \/ Ahead(d) >= Ahead(c) + Span(c)

(* What was reserved stays free while the tail moves, and the headers are  *)
(* in it before head is stored.                                            *)
Room ==
  ppc # "idle" =>
    /\ minimum \in Sizes /\ Padded(minimum) <= rsvd
    /\ gapd = 0 => head + rsvd <= Size /\ (tail <= head \/ head + rsvd < tail)
    /\ gapd > 0 => gapd = Size - head /\ tail <= head /\ rsvd < tail
    /\ ppc # "begin" => job.size \in Sizes /\ job.size <= minimum
    /\ ppc = "publish" => /\ buf[Start].size = job.size /\ ~buf[Start].gap
                          /\ gapd > 0 => buf[head].gap

(* The consumer looks at the first chunk or gap, with a head that was      *)
(* there when the gap and the chunk behind it were both published.         *)
Reader ==
  /\ cpc # "idle" => tail \in starts
  /\ cpc = "look" => /\ seen \in (starts \cup {head}) \ {tail}
                     /\ buf[tail].gap => seen # 0
  /\ cpc = "skip" => buf[tail].gap
  /\ cpc = "second" => tail = 0 /\ ~buf[0].gap
  /\ cpc = "read" => ~buf[tail].gap /\ toread = buf[tail].size

(* What ties the buffer to what was sent: the first chunk at or behind a   *)
(* place p of the chain, and the first one behind the chunk at p; head, if *)
(* there is none.                                                          *)
First(p) == IF p # head /\ buf[p].gap THEN 0 ELSE p
After(p) == First((p + Span(p)) % Size)

(* Following the headers from tail leads through the chunks that were sent *)
(* and not yet released, in that order, each with the size and in all of   *)
(* its words the payload it was sent with.                                 *)
InPlace(i) ==
  LET c == sent[i].at
  IN /\ c \in starts /\ ~buf[c].gap /\ buf[c].size = sent[i].size
     /\ After(c) = IF i = Len(sent) THEN head ELSE sent[i + 1].at
     /\ \A w \in 0 .. Words(sent[i].size) - 1 : buf[c + Header + 8 * w].val = sent[i].val
     /\ \A k \in 1 .. Len(sent) : sent[k].at = c => k = i
Line ==
  /\ sent \in Seq([at : Cells, size : Sizes, val : Values])
  /\ First(tail) = IF sent = <<>> THEN head ELSE sent[1].at
  /\ \A i \in 1 .. Len(sent) : InPlace(i)

(* The producer's words are in place, all of them when it publishes.       *)
Filled ==
  ppc \in {"fill", "publish"} =>
    /\ job.val \in Values
    /\ \A w \in 0 .. filled - 1 : buf[Word(w)].val = job.val
    /\ ppc = "publish" => filled = Words(job.size)

(* The consumer has found nothing but the payload of the oldest chunk.     *)
Copied == cpc = "read" => copy = IF copied = 0 THEN {} ELSE {sent[1].val}

(* the inductive invariant *)
IInv == TypeOK /\ Chain /\ Room /\ Reader /\ Line /\ Filled /\ Copied

(* An empty ring grants every request that fits into half of it, wherever  *)
(* its positions stand: a request cannot be refused for ever because the   *)
(* free bytes are split over the two ends of the buffer.                   *)
EmptyGrants ==
  head = tail =>
    \A n \in Sizes : 2 * Padded(n) <= Size => Reserve(head, tail, n) # Refused

(* The consumer gets to the end of every chunk and every gap it finds.     *)
TailMoves == \A p \in Cells : (tail = p /\ head # p) ~> (tail # p)

(* The chunks in the ring, oldest first, as their reader is to see them.   *)
Queue == [i \in 1 .. Len(sent) |-> ChunkOf(sent[i].size, sent[i].val)]

(* Varchunk implements the queue it stands for. *)
Fifo == INSTANCE ChunkFifo WITH
          Chunk   <- {ChunkOf(n, v) : n \in Sizes, v \in Values},
          NoChunk <- NoChunk,
          queue   <- Queue,
          got     <- got
FifoSpec == Fifo!Spec
=============================================================================
