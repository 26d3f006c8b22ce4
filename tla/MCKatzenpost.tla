---------------------------- MODULE MCKatzenpost ----------------------------
EXTENDS Katzenpost
CONSTANTS r1, r2

\* Two calls beside each other, or the substrate and its senders.
MCStarts == {{r1, r2}, {Sub}}

Node(d, e, k) == [decodes |-> d, endpoint |-> e, key |-> k]
\* A document that resolves at its third node, one wrapped once too often and one
\* whose first match has no key.
Good == [wrap |-> <<"bytes", "tagged bytes", "bytes">>, core |-> "map",
         nodes |-> <<Node(FALSE, "text", TRUE), Node(TRUE, "other", TRUE), Node(TRUE, "text", TRUE)>>]
Deep == [wrap |-> <<"bytes", "bytes", "bytes", "bytes">>, core |-> "map",
         nodes |-> <<Node(TRUE, "text", TRUE)>>]
NoKey == [wrap |-> <<>>, core |-> "map",
          nodes |-> <<Node(TRUE, "text", FALSE), Node(TRUE, "text", TRUE)>>]
MCGreetings ==
  {[on |-> TRUE, doc |-> d] : d \in {Good, Deep, NoKey}} \cup {[on |-> FALSE, doc |-> Good]}

=============================================================================
