---- MODULE MCIngestion ----
EXTENDS Ingestion

Doc(i, streams) == [id |-> i, streams |-> streams]
Chunk(documents, cut) == [documents |-> documents, cut |-> cut]

(* Streams longer than the ring buffer, and one shorter than an n-gram.    *)
One == Doc(1, <<<<"a", "b", "c", "a", "a", "b">>, <<"c", "a">>>>)
Two == Doc(2, <<<< >>, <<"b">>>>)
Three == Doc(3, <<<<"c", "b">>, <<"a", "b", "c">>>>)

(* Two chunks; three documents, and two slices; one DocId twice; a chunk    *)
(* that is cut short.                                                      *)
MCManifests ==
  {<<Chunk(<<One>>, 0), Chunk(<<Three>>, 0)>>,
   <<Chunk(<<One, Two, Three>>, 0)>>,
   <<Chunk(<<One>>, 0), Chunk(<<One>>, 0)>>,
   <<Chunk(<<Two>>, 0), Chunk(<<Three, One>>, 6)>>}

====
