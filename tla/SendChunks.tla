------------------------------ MODULE SendChunks ------------------------------
(***************************************************************************)
(* How os_transport_send cuts a buffer into chunks and labels them.        *)
(*                                                                         *)
(* The buffer is split by common_split_chunks; the calling thread posts    *)
(* the first chunk, one task per further chunk posts the others, in the    *)
(* order of the worker's queue.  Each write carries two 64-bit words, the  *)
(* server's and the client's user data, from which the polling threads of  *)
(* the two sides recover the request id (os_transport_wake_up_task).       *)
(*                                                                         *)
(* This module is the arithmetic: which bytes each write moves, and what   *)
(* its words say.  When a task runs is the matter of ThreadPool.           *)
(***************************************************************************)
EXTENDS Integers, Sequences

CONSTANTS
    ChunkSize,   \* DEFAULT_CHUNK_SIZE (2 MB)
    IdRange,     \* values of the bit field chunk_id   (2^6)
    SizeRange,   \* values of the bit field chunk_size (2^24)
    KeyRange,    \* values of a request id             (2^32)
    Addresses,   \* buffer addresses
    Lengths      \* lengths of a transfer

ASSUME ChunkNat    == ChunkSize \in Nat \ {0}
ASSUME IdNat       == IdRange \in Nat \ {0}
ASSUME SizeNat     == SizeRange \in Nat
ASSUME SizeFits    == ChunkSize < SizeRange
ASSUME KeyNat      == KeyRange \in Nat \ {0}
ASSUME AddressNat  == Addresses \subseteq Nat
ASSUME LengthsNat  == Lengths \subseteq Nat

VARIABLES
    req,      \* the arguments of os_transport_send
    chunks,   \* the chunk array, as far as it is filled
    posted,   \* the writes posted, in order
    pc

vars == <<req, chunks, posted, pc>>

NOT_SPLIT    == 0
MIDDLE_CHUNK == 1
LAST_CHUNK   == 2
TypeRange    == 4          \* values of the bit field chunk_type

Keys    == 0 .. KeyRange - 1
Request == [src : Addresses, dst : Addresses, len : Lengths,
            server_key : Keys, client_key : Keys]

-----------------------------------------------------------------------------
(* common_split_chunks.                                                    *)

\* Mutant of ChunkNum: the part of a chunk at the end is forgotten.
ChunkNumFloor(len) == len \div ChunkSize

ChunkNum(len) == (len + ChunkSize - 1) \div ChunkSize

\* Chunk i of a buffer, i from 0.
ChunkAt(r, i) ==
    [src |-> r.src + i * ChunkSize,
     dst |-> r.dst + i * ChunkSize,
     len |-> IF r.len - i * ChunkSize > ChunkSize
             THEN ChunkSize ELSE r.len - i * ChunkSize]

-----------------------------------------------------------------------------
(* The user data word: chunk_type, chunk_id, chunk_size and request_id from *)
(* the low bits up, each field cut to its width.                            *)

UserData(key, type, id, size) ==
    (type % TypeRange)
      + TypeRange * ((id % IdRange)
      + IdRange * ((size % SizeRange)
      + SizeRange * (key % KeyRange)))

\* Mutant of RequestIdOf: the low half of the word.
RequestIdOfLow(word) == word % KeyRange

\* What os_transport_wake_up_task takes from a completion record.
RequestIdOf(word) == (word \div (TypeRange * IdRange * SizeRange)) % KeyRange

TypeOf(word) == word % TypeRange

Write(r, chunk, type, id) ==
    [src |-> chunk.src, dst |-> chunk.dst, len |-> chunk.len,
     user_ctx    |-> UserData(r.server_key, type, id, chunk.len),
     notify_data |-> UserData(r.client_key, type, id, chunk.len)]

-----------------------------------------------------------------------------
Init == /\ req \in {r \in Request : r.len > 0}     \* validate_send_input
        /\ chunks = <<>> /\ posted = <<>>
        /\ pc = "split"

\* send_single_chunk.
SendSingle ==
    /\ pc = "split" /\ req.len <= ChunkSize
    /\ posted' = <<Write(req, [src |-> req.src, dst |-> req.dst, len |-> req.len],
                         NOT_SPLIT, 0)>>
    /\ pc' = "done"
    /\ UNCHANGED <<req, chunks>>

\* One round of the loop of common_split_chunks.
SplitChunk ==
    /\ pc = "split" /\ req.len > ChunkSize /\ Len(chunks) < ChunkNum(req.len)
    /\ chunks' = Append(chunks, ChunkAt(req, Len(chunks)))
    /\ UNCHANGED <<req, posted, pc>>

\* The calling thread posts chunks[0] with the words of build_write_info.
PostFirst ==
    /\ pc = "split" /\ req.len > ChunkSize /\ Len(chunks) = ChunkNum(req.len)
    /\ posted' = <<Write(req, chunks[1], NOT_SPLIT, 0)>>
    /\ pc' = "tasks"
    /\ UNCHANGED <<req, chunks>>

\* Mutant of IsLastChunk: off by one.
IsLastChunkEarly(i) == i >= Len(chunks) - 2

\* is_last_chunk of the task for chunk i, from 0.
IsLastChunk(i) == i = Len(chunks) - 1

\* The next task of the queue posts its chunk; index i is chunk_idx.
PostTask ==
    LET i == Len(posted) IN
    /\ pc = "tasks" /\ i < Len(chunks)
    /\ posted' = Append(posted,
                   Write(req, chunks[i + 1],
                         IF IsLastChunk(i) THEN LAST_CHUNK ELSE MIDDLE_CHUNK, i))
    /\ UNCHANGED <<req, chunks, pc>>

Finish ==
    /\ pc = "tasks" /\ Len(posted) = Len(chunks)
    /\ pc' = "done"
    /\ UNCHANGED <<req, chunks, posted>>

\* The chunk array or the tasks cannot be allocated, or a post is refused: the
\* request fails and what is left of it is cancelled.
Abandon ==
    /\ pc \in {"split", "tasks"}
    /\ pc' = "failed"
    /\ UNCHANGED <<req, chunks, posted>>

Ended == pc \in {"done", "failed"} /\ UNCHANGED vars

Next == SendSingle \/ SplitChunk \/ PostFirst \/ PostTask \/ Finish \/ Abandon \/ Ended

Spec == Init /\ [][Next]_vars

-----------------------------------------------------------------------------
(* Properties.                                                             *)

\* The writes of a transfer tile the buffer: each is not empty and at most a
\* chunk long, starts where the one before ended, in the source and in the
\* destination alike, and the last ends where the buffer ends.  There are as
\* many as the receiver, which splits the length by itself, has tasks.
Tiles ==
    /\ \A k \in DOMAIN posted :
          /\ posted[k].len \in 1 .. ChunkSize
          /\ posted[k].src - req.src = posted[k].dst - req.dst
          /\ k = 1 => posted[k].src = req.src
          /\ k > 1 => posted[k].src = posted[k - 1].src + posted[k - 1].len
    /\ pc = "done" =>
          /\ Len(posted) = ChunkNum(req.len)
          /\ posted[Len(posted)].src + posted[Len(posted)].len = req.src + req.len

\* Whatever the type, the number and the length of a chunk, the request ids
\* come out of its two words as they went in: each side wakes its own request.
WordsDecode ==
    \A k \in DOMAIN posted :
        /\ RequestIdOf(posted[k].user_ctx) = req.server_key
        /\ RequestIdOf(posted[k].notify_data) = req.client_key

\* In a transfer of several chunks the last one, and no other, is LAST_CHUNK.
LastMarked ==
    \A k \in DOMAIN posted :
        (TypeOf(posted[k].notify_data) = LAST_CHUNK)
            = (pc # "split" /\ req.len > ChunkSize /\ k = ChunkNum(req.len))

=============================================================================
