------------------------------ MODULE Document ------------------------------
(***************************************************************************)
(* How a document comes out of a chunk file: the reader that recognises    *)
(* documents, streams and words (src/src/Chunks/src: ChunkReader), the     *)
(* document that turns the words of a stream into n-grams (Document), and  *)
(* the ring buffer it keeps the last words in (RingBuffer.h).              *)
(*                                                                         *)
(* A chunk is a sequence of items, each with the zero that ends it:        *)
(* <<"id", i>>, <<"stream", s>> or <<"word", w>> by its form (16 digits, 2  *)
(* digits, anything else), and End, the zero that stands alone.            *)
(***************************************************************************)
EXTENDS Naturals, Sequences

Seqs == INSTANCE SequencesExt

CONSTANTS
  LOG2_CAPACITY,      \* of the ring buffer: 4, one more than c_log2MaxGramSize
  m_maxGramSize       \* of the configuration

c_slotCount == 2 ^ LOG2_CAPACITY

(* Term.h:79-80: n-grams have at most 7 words, and the buffer 16 slots.     *)
ASSUME DocumentAssumption ==
  /\ LOG2_CAPACITY \in Nat \ {0} /\ c_slotCount \in Nat
  /\ m_maxGramSize \in 1 .. c_slotCount - 1

End == <<"end">>

-----------------------------------------------------------------------------
(* The ring buffer.  Nothing is ever destroyed in a slot: an item is there *)
(* until another one is written over it.                                   *)
EmptyBuffer == [slots  |-> [i \in 0 .. c_slotCount - 1 |-> End],
                m_head |-> 0, m_tail |-> 0]

Reset(b) == [b EXCEPT !.m_head = 0, !.m_tail = 0]
IsEmpty(b) == b.m_head = b.m_tail
IsFull(b) == (b.m_tail + 1) % c_slotCount = b.m_head

GetCountUnwrapped(b) == b.m_tail - b.m_head     \* mutated form: never wraps
GetCount(b) ==
  IF b.m_head <= b.m_tail THEN b.m_tail - b.m_head
                          ELSE b.m_tail + c_slotCount - b.m_head

PushBack(b, item) == [b EXCEPT !.slots[b.m_tail] = item,
                               !.m_tail = (@ + 1) % c_slotCount]
PopFront(b) == [b EXCEPT !.m_head = (@ + 1) % c_slotCount]
ItemAt(b, i) == b.slots[(b.m_head + i) % c_slotCount]

-----------------------------------------------------------------------------
(* The document.  A term is its words: its stream has no part in the hash  *)
(* that postings are compared by, nor in the one that rows are found by.   *)
NewDocument(id) == [m_docId |-> id, m_postings |-> {}, m_ringBuffer |-> EmptyBuffer]

OpenStream(d) == [d EXCEPT !.m_ringBuffer = Reset(@)]

(* Every n-gram that starts with the oldest word of the buffer.            *)
ProcessNGrams(d) ==
  [d EXCEPT !.m_postings = @ \cup
     {[i \in 1 .. n |-> ItemAt(d.m_ringBuffer, i - 1)] : n \in 1 .. GetCount(d.m_ringBuffer)}]

ProcessFront(d) == [ProcessNGrams(d) EXCEPT !.m_ringBuffer = PopFront(@)]

(* PushBack asserts that there is room: see Fits.                          *)
AddTerm(d, word) ==
  LET pushed == [d EXCEPT !.m_ringBuffer = PushBack(@, word)]
  IN  IF GetCount(pushed.m_ringBuffer) = m_maxGramSize THEN ProcessFront(pushed)
                                                       ELSE pushed

Fits(d) == ~IsFull(d.m_ringBuffer)

(* PurgeRingBuffer: while there are words left, each of which is one less. *)
CloseStream(d) ==
  LET purged[n \in 0 .. GetCount(d.m_ringBuffer)] ==
        IF n = 0 THEN d ELSE ProcessFront(purged[n - 1])
  IN  purged[GetCount(d.m_ringBuffer)]

-----------------------------------------------------------------------------
(* The reader, one item at a time.  "inside" is where it stands; whatever  *)
(* comes inside a stream is a word.  "documents" are those that it has     *)
(* handed to its processor.                                                *)
NewReader == [inside |-> "file", document |-> NewDocument(0), documents |-> << >>]

Throw(r) == [r EXCEPT !.inside = "error"]

ReadInFile(r, item) ==
  IF item = End THEN [r EXCEPT !.inside = "end of file"]
  ELSE IF item[1] = "id"
       THEN [r EXCEPT !.inside = "document", !.document = NewDocument(item[2])]
       ELSE Throw(r)

ReadInDocument(r, item) ==
  IF item = End THEN [r EXCEPT !.inside = "file", !.documents = Append(@, r.document)]
  ELSE IF item[1] = "stream"
       THEN [r EXCEPT !.inside = "stream", !.document = OpenStream(@)]
       ELSE Throw(r)

ReadInStream(r, item) ==
  IF item = End THEN [r EXCEPT !.inside = "document", !.document = CloseStream(@)]
  ELSE IF Fits(r.document) THEN [r EXCEPT !.document = AddTerm(@, item[2])]
                           ELSE Throw(r)

(* It stops at the end of the file, or where an exception is thrown.       *)
ReadItem(r, item) ==
  CASE r.inside = "file"     -> ReadInFile(r, item)
    [] r.inside = "document" -> ReadInDocument(r, item)
    [] r.inside = "stream"   -> ReadInStream(r, item)
    [] OTHER                 -> r

ReadItems(r, items) ==
  LET reader[n \in 0 .. Len(items)] ==
        IF n = 0 THEN r ELSE ReadItem(reader[n - 1], items[n])
  IN  reader[Len(items)]

(* The end of the buffer where an item should be is an error, and so is an *)
(* empty chunk.                                                            *)
ChunkReader(chunk) ==
  LET r == ReadItems(NewReader, chunk)
  IN  IF r.inside = "end of file" THEN r ELSE Throw(r)

-----------------------------------------------------------------------------
(* A chunk file [documents, cut]: what was written, and how many items are  *)
(* missing at its end.  A document is its DocId and the streams of words.  *)
StreamItems(words) ==
  <<<<"stream", 0>>>> \o [i \in 1 .. Len(words) |-> <<"word", words[i]>>] \o <<End>>
DocumentItems(document) ==
  <<<<"id", document.id>>>>
    \o Seqs!FlattenSeq([i \in 1 .. Len(document.streams) |-> StreamItems(document.streams[i])])
    \o <<End>>
WholeFile(documents) ==
  Seqs!FlattenSeq([i \in 1 .. Len(documents) |-> DocumentItems(documents[i])]) \o <<End>>
Items(chunk) ==
  LET whole == WholeFile(chunk.documents)
  IN  SubSeq(whole, 1, Len(whole) - chunk.cut)

(* The n-grams of a stream: what the index promises to find a document by. *)
Grams(words) ==
  UNION {{SubSeq(words, i, j) : j \in i .. Len(words)} : i \in 1 .. Len(words)}
GramsOf(document) ==
  {g \in UNION {Grams(document.streams[k]) : k \in 1 .. Len(document.streams)} :
     Len(g) <= m_maxGramSize}
=============================================================================
