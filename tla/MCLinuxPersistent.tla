------------------------- MODULE MCLinuxPersistent -------------------------
(* LinuxPersistent on small instances.  An empty set of names, wills or    *)
(* payloads leaves the operations that take one out of a run.              *)
EXTENDS LinuxPersistent, TLC

\* Ids, addresses, names and payloads are only ever compared for equality.
Symmetry == Permutations(ClientIds) \cup Permutations(Addresses)
            \cup Permutations(TopicNames) \cup Permutations(Payloads)

\* Bound of the states that are looked at: either the files of topics hold something or
\* those of publishes, which no operation reads or writes together.
OneKindOfFiles ==
    \/ \A n \in FileNumbers : pub[n] = <<>>
    \/ global = <<>> /\ \A n \in FileNumbers : reg[n] = <<>> /\ sub[n] = <<>>
=============================================================================
