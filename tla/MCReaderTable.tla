--------------------------- MODULE MCReaderTable ---------------------------
(* Instances of ReaderTable. *)
EXTENDS ReaderTable

\* A process with two reader goroutines and one that reaps.
MCProcs == {"p", "q"}
MCThreads == {"p1", "p2"}
MCProcOf == [th \in MCThreads |-> "p"]

\* fileLocks: every acquisition opens a description of its own.
FileHoldDesc == [th \in MCThreads |-> <<"hold", th>>]

\* rangeLocks: one hold description for the process.
RangeHoldDesc == [th \in MCThreads |-> <<"hold", "p">>]

MCProbeDesc == [p \in Procs |-> <<"probe", p>>]
=============================================================================
