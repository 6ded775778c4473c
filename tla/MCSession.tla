----------------------------- MODULE MCSession -----------------------------
(***************************************************************************)
(* Session for TLC: the sorts of session the runs are about.               *)
(***************************************************************************)
EXTENDS Session

\* Pipelined reads and failing queries, messages in pieces.
MCReads == [kinds |-> {"read", "bad", "xread", "commit", "quit"}, window |-> 2, split |-> TRUE]

\* Nothing but writes, one at a time.
MCWrites == [kinds |-> {"write", "xwrite", "copy", "quit"}, window |-> 1, split |-> FALSE]

MCTame  == {MCReads, MCWrites}

\* Everything mixed: requests are replayed, lost and answered out of step.
MCMixed ==
    {[kinds  |-> {"read", "write", "xwrite", "flush", "copy", "copyfail", "begin", "commit", "start"},
      window |-> 2, split |-> FALSE]}

\* Transactions; a read before a write.
MCBegin     == {[kinds |-> {"begin", "commit"}, window |-> 1, split |-> FALSE]}
MCReadWrite == {[kinds |-> {"read", "write"}, window |-> 1, split |-> FALSE]}
=============================================================================
