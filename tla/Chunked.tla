------------------------------ MODULE Chunked ------------------------------
(***************************************************************************)
(* A file in the object store: its chunks, as they lie there, and its row  *)
(* in files. Upload writes it, Download reads it.                          *)
(***************************************************************************)
EXTENDS Naturals, FiniteSets, Sequences

CONSTANTS
  Last,         \* the number of chunks
  Window        \* CONCURRENT_CHUNK_UPLOADS, of uploads and downloads

ASSUME ChunkAssumption == Last \in Nat \ {0} /\ Window \in Nat \ {0}

Chunk == 1..Last

VARIABLES
  stored,   \* stored[c]: the key whose ciphertext lies under c's storage key
  row       \* the files row
=============================================================================
