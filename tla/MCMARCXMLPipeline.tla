------------------------- MODULE MCMARCXMLPipeline -------------------------
(* Records that can be read back and records that cannot, and documents    *)
(* no BibMARCXMLOutputStream writes.                                       *)
EXTENDS MARCXMLPipeline

Control(tag, content) == [isControlField |-> TRUE, tag |-> tag, contents |-> <<content>>]
Data(tag, contents) == [isControlField |-> FALSE, tag |-> tag, contents |-> contents]
Record(leader, fields) == [leader |-> leader, fields |-> fields]

Book == Record("am", <<Control("001", "a"), Data("245", <<"b", "c">>)>>)
Bare == Record("nw", << >>)

MCRecords ==
  {Book, Bare,
   Record("am", <<Data("245", << >>), Control("001", "a")>>),
   Record("am", <<Data("245", <<"b", "">>)>>),
   Record("am", <<Control("001", " ")>>)}

Collection(nodes, records) ==
  [nodes |-> Enclosed("collection", "", nodes), isWhole |-> TRUE, isWritten |-> FALSE, records |-> records]

Before(nodes, node, end) ==  \* puts a node before the last nodes, as many as end
  SubSeq(nodes, 1, Len(nodes) - end) \o <<node>> \o SubSeq(nodes, Len(nodes) - end + 1, Len(nodes))

MCDocuments ==
  {[nodes |-> RecordNodes(Book), isWhole |-> TRUE, isWritten |-> FALSE, records |-> <<Book>>],
   [nodes |-> <<Element("collection", "")>>, isWhole |-> TRUE, isWritten |-> FALSE, records |-> << >>],
   [nodes |-> Enclosed("html", "", RecordNodes(Book)), isWhole |-> TRUE, isWritten |-> FALSE, records |-> << >>],
   Collection(<<Whitespace>> \o RecordNodes(Book) \o <<Whitespace>> \o RecordNodes(Bare),
              <<Book, Bare>>),
   Collection(Before(RecordNodes(Book), Element("note", ""), 1), <<Book>>),
   Collection(Before(RecordNodes(Bare), Element("note", ""), 1), <<Bare>>),
   Collection(RecordNodes(Book) \o Enclosed("record", "", FieldNodes(Control("001", "a"))),
              <<Book>>),
   Collection(RecordNodes(Book) \o RecordNodes(Record("am", <<Control("", "a")>>)), <<Book>>)}
=============================================================================
