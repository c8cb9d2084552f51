------------------------------- MODULE Delta --------------------------------
(***************************************************************************)
(* Content-defined chunking of the agent (delta.rs): split_into_chunks,    *)
(* one action per turn of its loop.                                        *)
(*                                                                         *)
(* The rolling hash is left open: at every byte it may or may not hit the  *)
(* mask.  What is kept is where the loop cuts, and which bytes each chunk  *)
(* covers.                                                                 *)
(***************************************************************************)
EXTENDS Integers, Sequences, FiniteSets

CONSTANTS Lengths,   \* lengths of the files that are split
          MinChunk,  \* MIN_CHUNK (64 KB)
          MaxChunk   \* MAX_CHUNK (1 MB)

ASSUME ChunkAssumption ==
  /\ Lengths \subseteq Nat
  /\ MinChunk \in Nat \ {0}
  /\ MaxChunk \in Nat
  /\ MinChunk <= MaxChunk

VARIABLES len,     \* data.len()
          offset,  \* the byte the loop looks at
          start,   \* chunk_start
          chunks   \* the chunks so far: offset and length

vars == <<len, offset, start, chunks>>

Init == /\ len \in Lengths
        /\ offset = 0
        /\ start = 0
        /\ chunks = <<>>

ChunkLen == offset - start

(* Mutated form of Boundary: a chunk may exceed MAX_CHUNK by one. *)
Boundary_TooLong(hit) == (ChunkLen >= MinChunk /\ hit) \/ ChunkLen > MaxChunk

(* is_boundary; hit says whether the rolling hash matches the mask. *)
Boundary(hit) == (ChunkLen >= MinChunk /\ hit) \/ ChunkLen >= MaxChunk

(* Where the chunk ends that is cut at this byte: before it at a boundary,
   after it at the end of the file. *)
End(hit) == IF Boundary(hit) THEN offset ELSE offset + 1

(* One turn of the loop that ends a chunk. *)
Cut(hit) ==
  /\ offset < len
  /\ Boundary(hit) \/ offset = len - 1
  /\ chunks' = Append(chunks, [offset |-> start, length |-> End(hit) - start])
  /\ start' = End(hit)
  /\ offset' = offset + 1
  /\ UNCHANGED len

(* Mutated form of Skip: the end of the file ends no chunk. *)
Skip_AtEnd(hit) ==
  /\ offset < len
  /\ ~Boundary(hit)
  /\ offset' = offset + 1
  /\ UNCHANGED <<len, start, chunks>>

(* One turn that does not. *)
Skip(hit) ==
  /\ offset < len
  /\ ~Boundary(hit)
  /\ offset # len - 1
  /\ offset' = offset + 1
  /\ UNCHANGED <<len, start, chunks>>

Next == \E hit \in BOOLEAN : Cut(hit) \/ Skip(hit)

Spec == Init /\ [][Next]_vars

Finished == offset = len

-----------------------------------------------------------------------------
(* Properties. *)

(* The loop's variables stay within the file. *)
TypeOK ==
  /\ len \in Lengths
  /\ offset \in 0 .. len
  /\ start \in 0 .. offset
  /\ chunks \in Seq([offset : Nat, length : Nat])

(* The chunks follow each other without gap or overlap from the first byte,
   none is empty or longer than MAX_CHUNK, and none but the last is shorter
   than MIN_CHUNK: what the agent reads back by offset and length, and sends
   as chunk i, can be put together again by concatenation. *)
ChunksTile ==
  /\ \A i \in 1 .. Len(chunks) :
       /\ chunks[i].offset = IF i = 1 THEN 0 ELSE chunks[i-1].offset + chunks[i-1].length
       /\ chunks[i].length \in 1 .. MaxChunk
       /\ chunks[i].length < MinChunk => i = Len(chunks) /\ Finished
  /\ start = IF chunks = <<>> THEN 0
             ELSE chunks[Len(chunks)].offset + chunks[Len(chunks)].length

(* At the end at most the last byte of the file is in no chunk: a boundary on
   that byte ends the chunk before it, and the loop is over. *)
AllButLastByte == Finished => start \in {len - 1, len}
=============================================================================
