----------------------------- MODULE MCMergeResume -----------------------------
(* Instances of MergeResume for TLC: the contents a, b and c are fit, x is not. *)
EXTENDS MergeResume, TLC

CONSTANTS a, b, c, x

Blank == [kind |-> "blank", rejects |-> 0, chunks |-> <<>>]
Empty == [kind |-> "empty", rejects |-> 0, chunks |-> <<>>]
Nothing == [kind |-> "processed", rejects |-> 0, chunks |-> <<>>]
Text(t) == [kind |-> "processed", rejects |-> 0, chunks |-> <<t>>]
Text2(t, u) == [kind |-> "processed", rejects |-> 0, chunks |-> <<t, u>>]

\* Lines that become one chunk at most.
MCDocs == {Blank, Empty, Text(a), Text(b), Text(c), Text(x)}

\* Documents of several sections are several chunks, kept or dropped, or
\* none.
MCSections ==
  {Nothing, Text(x), Text2(a, b), Text2(b, c),
   [kind |-> "processed", rejects |-> 1, chunks |-> <<a>>],
   [kind |-> "processed", rejects |-> 1, chunks |-> <<x, b>>]}

AllDocs == MCDocs \cup MCSections

\* Without a registry the lines are of one chunk at most.  With one they are of
\* several sections, but for the last line, which is blank.
MCInit ==
  /\ Init
  /\ IF useIndex
     THEN /\ \A n \in 0 .. Total - 2 : doc[n] \in MCSections
          /\ doc[Total - 1] = Blank
     ELSE doc \in [Lines -> MCDocs]

\* No action tells the fit contents apart.
Symmetry == Permutations({a, b, c})

\* The sessions are used up.
Terminated == ~Alive /\ sessions = MaxSessions /\ UNCHANGED vars

MCSpec == MCInit /\ [][Next \/ Terminated]_vars
================================================================================
