----------------------------- MODULE PackedStream -----------------------------
(***************************************************************************)
(* Training rows from token shards: the reading of a shard in chunks and    *)
(* the two ways of cutting the stream into rows, DynamicSequencePacker      *)
(* behind MultiSamplePackedDataset and the windows of                       *)
(* ContiguousPackedDataset (src/indw/store/export/packed_stream.py and      *)
(* packing/binpack.py).                                                     *)
(*                                                                          *)
(* A token is its position in the stream that is fed to the packer, so that *)
(* the order and the fate of every token can be followed; of its value only *)
(* matters whether it is the delimiter.  The loops of feed_tokens and        *)
(* pack_one are stepped through, one document at a time.                    *)
(*                                                                          *)
(* Shards come in a random order: all contents are initial states, so that  *)
(* taking them in turn is no loss, and a further epoch is a longer sequence *)
(* of shards.  Left out are the statistics and the lengths of the segments, *)
(* of which only the number matters here, and a packer without a delimiter, *)
(* which multi_sample refuses.                                              *)
(*                                                                          *)
(* A "Variant" is not part of the specification: it is the definition after *)
(* it with a mistake in it, which the property README.md names must notice. *)
(***************************************************************************)
EXTENDS Integers, Sequences

CONSTANTS
  SeqLen,       \* seq_len: a row is one token longer
  MinDoc,       \* min_document_tokens
  MaxSegments,  \* max_segments_per_seq
  ReadChunk,    \* read_chunk_tokens
  Shards,       \* how many shards are read
  Contents      \* what a shard may hold: for each token, is it the delimiter

ASSUME RowSizesAssumption ==
  {SeqLen, MinDoc, MaxSegments, ReadChunk} \subseteq Nat \ {0} /\ Shards \in Nat
ASSUME ContentsAssumption == Contents \subseteq Seq(BOOLEAN)

VARIABLES
  mode,         \* pack_cfg.mode
  padTail,      \* allow_padding_tail
  shards,
  phase,        \* the loop that is at work
  shard, offset,\* where _feed_path is
  stream,       \* what was fed so far (history)
  cuts,         \* where the chunks begin in it (history)
  carry,        \* _carry, or what feed_tokens has still to look at; or what
                \* the first carry_len places of the carry array hold
  capacity,     \* the length of the carry array
  released,     \* how many windows are views of an array it has outgrown (history)
  queue,        \* _doc_queue
  packed,       \* packed_tokens
  segments,     \* the length of segment_lengths
  rows          \* what is found now in each row that was yielded (history)

config == <<mode, padTail, shards>>
reading == <<shard, offset, stream, cuts, capacity, released>>
packing == <<packed, segments, rows>>
streamVars == <<config, phase, reading, carry, queue, packing>>

Need == SeqLen + 1
Sep == 0                                \* the delimiter put between documents
Pad == -1                               \* pad_token_id

StreamInit ==
  /\ mode \in {"multi_sample", "contiguous"}
  /\ padTail \in BOOLEAN /\ (mode = "contiguous" => ~padTail)
  /\ shards \in [1 .. Shards -> Contents]
  /\ phase = "open" /\ shard = 0 /\ offset = 0
  /\ stream = <<>> /\ cuts = {}
  /\ carry = <<>> /\ capacity = 2 * Need /\ released = 0 /\ queue = <<>>
  /\ packed = <<>> /\ segments = 0 /\ rows = <<>>

Positions(from, to) == [i \in 1 .. to - from + 1 |-> from + i - 1]

--------------------------------------------------------------------------------
(***************************************************************************)
(* The datasets' loop over shards and chunks.                               *)
(***************************************************************************)
ShardLength == Len(shards[shard])

\* A shard shorter than a document is not even fed.
SkipShard ==
  /\ phase = "open" /\ shard < Shards
  /\ mode = "multi_sample" /\ Len(shards[shard + 1]) < MinDoc
  /\ shard' = shard + 1
  /\ UNCHANGED <<config, phase, offset, stream, cuts, carry, capacity, released,
                 queue, packing>>

OpenShard ==
  /\ phase = "open" /\ shard < Shards
  /\ mode = "multi_sample" => Len(shards[shard + 1]) >= MinDoc
  /\ shard' = shard + 1 /\ offset' = 0 /\ phase' = "feed"
  /\ UNCHANGED <<config, stream, cuts, carry, capacity, released, queue, packing>>

\* read_range: the next chunk of the shard, at the end of the stream and of
\* what was carried over.
ReadBlock ==
  LET upto == IF offset + ReadChunk <= ShardLength THEN offset + ReadChunk
              ELSE ShardLength
  IN /\ phase = "feed" /\ offset < ShardLength
     /\ offset' = upto
     /\ stream' = stream \o SubSeq(shards[shard], offset + 1, upto)
     /\ cuts' = cuts \cup {Len(stream) + 1}
     /\ carry' = carry \o Positions(Len(stream) + 1, Len(stream'))
     /\ UNCHANGED <<config, shard, queue, packed, segments>>

EndShard ==
  /\ phase = "feed" /\ offset = ShardLength
  /\ phase' = IF mode = "multi_sample" THEN "pack" ELSE "open"
  /\ UNCHANGED <<config, reading, carry, queue, packing>>

(***************************************************************************)
(* feed_tokens.                                                             *)
(***************************************************************************)
LongEnough(piece) == Len(piece) >= MinDoc

\* What is shorter than a document is not looked at before more has come.
FeedTokens ==
  /\ mode = "multi_sample"
  /\ ReadBlock
  /\ phase' = IF LongEnough(carry') THEN "split" ELSE "feed"
  /\ UNCHANGED <<rows, capacity, released>>

Queued(piece) == IF LongEnough(piece) THEN Append(queue, piece) ELSE queue

\* What comes before the next delimiter is a document, or dropped.
SplitAtDelimiter ==
  /\ phase = "split"
  /\ \E i \in DOMAIN carry :
       /\ stream[carry[i]] /\ \A j \in 1 .. i - 1 : ~stream[carry[j]]
       /\ queue' = Queued(SubSeq(carry, 1, i - 1))
       /\ carry' = SubSeq(carry, i + 1, Len(carry))
  /\ UNCHANGED <<config, phase, reading, packing>>

\* The end of a chunk waits for the next one only if it is too short to be a
\* document; else it is queued as one, whole or not.
SplitTail ==
  /\ phase = "split" /\ \A i \in DOMAIN carry : ~stream[carry[i]]
  /\ queue' = Queued(carry)
  /\ carry' = IF LongEnough(carry) THEN <<>> ELSE carry
  /\ phase' = "feed"
  /\ UNCHANGED <<config, reading, packing>>

(***************************************************************************)
(* pack_one.                                                                *)
(***************************************************************************)
Packing == phase \in {"pack", "fill"}

\* Variant: nothing is put between two documents.
RunTogether == packed \o Head(queue)

\* The row with the next document.
WithNext ==
  IF packed = <<>> THEN Head(queue) ELSE packed \o <<Sep>> \o Head(queue)

NextFits == queue # <<>> /\ segments < MaxSegments /\ Len(WithNext) <= Need

TakeDocument ==
  /\ phase = "pack" /\ Len(packed) < Need /\ NextFits
  /\ packed' = WithNext /\ segments' = segments + 1
  /\ queue' = Tail(queue)
  /\ UNCHANGED <<config, phase, reading, carry, rows>>

Yield(row) ==
  /\ rows' = Append(rows, row)
  /\ packed' = <<>> /\ segments' = 0 /\ phase' = "pack"
  /\ UNCHANGED <<config, reading, carry>>

\* Variant: the rest of the document is dropped.
SplitAndDrop ==
  /\ phase = "pack" /\ packed = <<>> /\ queue # <<>> /\ Len(Head(queue)) > Need
  /\ queue' = Tail(queue)
  /\ Yield(SubSeq(Head(queue), 1, Need))

\* A document longer than a row fills it; its rest goes back.
SplitDocument ==
  /\ phase = "pack" /\ packed = <<>> /\ queue # <<>> /\ Len(Head(queue)) > Need
  /\ queue' = <<SubSeq(Head(queue), Need + 1, Len(Head(queue)))>> \o Tail(queue)
  /\ Yield(SubSeq(Head(queue), 1, Need))

PackExactly ==
  /\ Packing /\ Len(packed) = Need
  /\ UNCHANGED queue
  /\ Yield(packed)

\* The first loop of pack_one has ended with a row that is not full.
Short ==
  /\ Packing /\ packed # <<>> /\ Len(packed) < Need
  /\ phase = "pack" => ~NextFits

PackPadded ==
  /\ Short /\ padTail
  /\ UNCHANGED queue
  /\ Yield(packed \o [i \in 1 .. Need - Len(packed) |-> Pad])

CutToRow(s) == IF Len(s) > Need THEN SubSeq(s, 1, Need) ELSE s

\* Variant: the next row may begin with the document this one was filled from.
FillAndKeep ==
  /\ Short /\ ~padTail /\ queue # <<>>
  /\ packed' = CutToRow(packed \o Head(queue)) /\ phase' = "fill"
  /\ UNCHANGED <<config, reading, carry, queue, segments, rows>>

\* Without padding the row is filled up from the documents that follow, with
\* nothing in between.  The end of the one that fills it is lost.
FillRow ==
  /\ Short /\ ~padTail /\ queue # <<>>
  /\ packed' = CutToRow(packed \o Head(queue)) /\ phase' = "fill"
  /\ queue' = Tail(queue)
  /\ UNCHANGED <<config, reading, carry, segments, rows>>

\* pack_one returns None: all it has taken out of the queue is lost.
PackNothing ==
  /\ Packing /\ queue = <<>>
  /\ packed = <<>> \/ (Short /\ ~padTail)
  /\ packed' = <<>> /\ segments' = 0 /\ phase' = "open"
  /\ UNCHANGED <<config, reading, carry, queue, rows>>

(***************************************************************************)
(* The windows of ContiguousPackedDataset.  A window is a view of the first  *)
(* Need places of the carry array, and so are the tensors that are made of   *)
(* it: who holds it sees what is written there later, until the array is     *)
(* given up for a larger one.                                                *)
(***************************************************************************)
Overwritten(row, tokens) ==
  [i \in 1 .. Need |-> IF i <= Len(tokens) THEN tokens[i] ELSE row[i]]

\* The windows after these tokens were written to the beginning of the array.
WriteThrough(windows, tokens) ==
  [k \in DOMAIN windows |->
     IF k > released' THEN Overwritten(windows[k], tokens) ELSE windows[k]]

\* A larger array is taken before the chunk is written.
Outgrown == Len(carry') > capacity
Larger ==
  IF 2 * capacity >= Len(carry') + Need THEN 2 * capacity ELSE Len(carry') + Need

FeedBlock ==
  /\ mode = "contiguous"
  /\ ReadBlock
  /\ phase' = "window"
  /\ capacity' = IF Outgrown THEN Larger ELSE capacity
  /\ released' = IF Outgrown THEN Len(rows) ELSE released
  /\ rows' = WriteThrough(rows, carry')

\* Variant: the last token of a window does not begin the next one.
RestWithoutOverlap == SubSeq(carry, Need + 1, Len(carry))

RestOfCarry == SubSeq(carry, Need, Len(carry))

\* The rest of the array is moved to its beginning before the window is turned
\* into tensors.
YieldWindow ==
  /\ phase = "window" /\ Len(carry) >= Need
  /\ carry' = RestOfCarry
  /\ UNCHANGED <<config, phase, reading, queue, packed, segments>>
  /\ rows' = WriteThrough(Append(rows, SubSeq(carry, 1, Need)), carry')

NextBlock ==
  /\ phase = "window" /\ Len(carry) < Need
  /\ phase' = "feed"
  /\ UNCHANGED <<config, reading, carry, queue, packing>>

StreamNext ==
  \/ SkipShard \/ OpenShard \/ EndShard
  \/ FeedTokens \/ SplitAtDelimiter \/ SplitTail
  \/ TakeDocument \/ SplitDocument \/ PackExactly \/ PackPadded
  \/ FillRow \/ PackNothing
  \/ FeedBlock \/ YieldWindow \/ NextBlock

StreamSpec == StreamInit /\ [][StreamNext]_streamVars
--------------------------------------------------------------------------------
Position == 1 .. Len(stream)

\* All tokens there are, in the order in which they were or will be yielded.
Held == rows \o <<packed>> \o queue \o <<carry>>

IsText(token) == token > 0

(* What the packer has yielded, packs, holds in its queue and carries over   *)
(* is, in this order, in the order of the stream and has no token twice,     *)
(* however documents are split over rows and chunks; delimiters are never    *)
(* taken for text, except those in a carry that was not yet looked at.       *)
InOrderOnce ==
  mode = "multi_sample" =>
    \A k, l \in DOMAIN Held : \A i \in DOMAIN Held[k], j \in DOMAIN Held[l] :
      IsText(Held[k][i]) /\ IsText(Held[l][j]) =>
        /\ k < l \/ (k = l /\ i < j) => Held[k][i] < Held[l][j]
        /\ k < Len(Held) => ~stream[Held[k][i]]

Text(tokens) == {t \in {tokens[i] : i \in DOMAIN tokens} : IsText(t)}

Lost ==
  {p \in Position : ~stream[p] /\ \A k \in DOMAIN Held : p \notin Text(Held[k])}

\* A piece of a document begins after a delimiter or with a chunk.
StartsPiece(p) == p \in cuts \/ (p > 1 /\ stream[p - 1])
EndsPiece(p) == p + 1 \in Position => stream[p + 1] \/ p + 1 \in cuts

\* p is in a piece that ends at a delimiter and is too short to be a document.
CutShort(p) ==
  \E b \in 1 .. p, d \in p .. Len(stream) :
    /\ StartsPiece(b) /\ stream[d]
    /\ \A q \in b .. d - 1 : ~stream[q]
    /\ d - b < MinDoc

(* A token gets lost in two ways only: in a piece of a document that ends at *)
(* a delimiter and is shorter than min_document_tokens, or, when rows are    *)
(* not padded, with everything after it in its piece (pack_one truncates the *)
(* document that fills a row, and drops all it took when it gives up).       *)
LossIsExplained ==
  mode = "multi_sample" =>
    \A p \in Lost :
      CutShort(p) \/ (~padTail /\ (p + 1 \in Lost \/ EndsPiece(p)))

(* Two documents are never run together in a padded row: neighbours without  *)
(* a delimiter between them were neighbours in the stream.                   *)
DocumentsAreSeparated ==
  padTail =>
    \A k \in DOMAIN rows : \A j \in 1 .. SeqLen :
      IsText(rows[k][j]) /\ IsText(rows[k][j + 1]) => rows[k][j + 1] = rows[k][j] + 1

(* What is carried over begins with the last token of the latest window and *)
(* reaches to the end of the stream.  Who looks at a contiguous window, at   *)
(* any time after it was yielded, finds the tokens of the stretch after some *)
(* window m, that one or a later one, up to some place n, and from there on  *)
(* those of window m itself: each at its place modulo seq_len, in order, and *)
(* with the one label that is an input next at both ends, but broken after   *)
(* n, and never with the token the window began with.                        *)
WindowsAsOverwritten ==
  mode = "contiguous" =>
    /\ carry = Positions(Len(rows) * SeqLen + 1, Len(stream))
    /\ \A k \in DOMAIN rows : \E m \in k .. Len(rows), n \in 1 .. Need :
         rows[k] = [i \in 1 .. Need |-> (IF i <= n THEN m ELSE m - 1) * SeqLen + i]

(* A window holds the stretch of the stream it stands for, whoever looks.    *)
WindowIsStream ==
  mode = "contiguous" =>
    \A k \in DOMAIN rows :
      rows[k] = Positions((k - 1) * SeqLen + 1, (k - 1) * SeqLen + Need)
================================================================================
