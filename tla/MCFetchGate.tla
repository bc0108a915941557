------------------------------ MODULE MCFetchGate ------------------------------
(* FetchGate for the accesses of ring_access: the metadata and the path are *)
(* read, then an eviction that is due, then the reshuffles.  A block in the *)
(* stash is not accessed.                                                   *)
EXTENDS FetchGate

MCInserting ==
  LET o == << << "m", "R" >>, << "m", "W" >>, << "o", "R" >> >>
      e == << << "m", "R" >>, << "m", "W" >>, << "e", "R" >>, << "e", "W" >> >>
      r == << << "r", "R" >>, << "r", "W" >> >>
  IN  { o \o e, o \o r }

MCAccesses == MCInserting \cup { << >> }
===============================================================================
