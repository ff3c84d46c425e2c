--------------------------- MODULE SendChunksProofs ---------------------------
(***************************************************************************)
(* Theorems about SendChunks, for every chunk size, field width, address   *)
(* and length.                                                             *)
(***************************************************************************)
EXTENDS SendChunks, TLAPS

-----------------------------------------------------------------------------
(* Arithmetic.                                                             *)

\* Division with remainder.
LEMMA DivMod ==
    ASSUME NEW n \in Nat, NEW d \in Nat \ {0}
    PROVE  /\ n \div d \in Nat
           /\ n % d \in 0 .. d - 1
           /\ n = d * (n \div d) + (n % d)
  OBVIOUS

\* A product grows with its factor.
LEMMA MulMono ==
    ASSUME NEW i \in Nat, NEW j \in Nat, NEW d \in Nat, i <= j
    PROVE  i * d <= j * d
  OBVIOUS

\* What is below the divisor does not count.
LEMMA DivOfSum ==
    ASSUME NEW d \in Nat \ {0}, NEW q \in Nat, NEW a \in 0 .. d - 1
    PROVE  (a + d * q) \div d = q
  OBVIOUS

\* ChunkNum rounds up.
LEMMA ChunkNumBounds ==
    ASSUME NEW len \in Nat \ {0}
    PROVE  /\ ChunkNum(len) \in Nat \ {0}
           /\ (ChunkNum(len) - 1) * ChunkSize < len
           /\ len <= ChunkNum(len) * ChunkSize
  <1> DEFINE n == len + ChunkSize - 1
             q == n \div ChunkSize
             m == n % ChunkSize
  <1>1. n \in Nat
    BY ChunkNat
  <1>2. q \in Nat /\ m \in 0 .. ChunkSize - 1 /\ n = ChunkSize * q + m
    BY <1>1, DivMod, ChunkNat
  <1>3. ChunkSize * q = q * ChunkSize
    BY <1>2, ChunkNat
  <1>4. q # 0
    BY <1>2, ChunkNat
  <1>5. (q - 1) * ChunkSize = q * ChunkSize - ChunkSize
    BY <1>2, ChunkNat
  <1>6. q * ChunkSize \in Int
    BY <1>2, ChunkNat
  <1> QED
    BY <1>2, <1>3, <1>4, <1>5, <1>6, ChunkNat DEF ChunkNum

\* The fields of a request.
LEMMA RequestFields ==
    ASSUME NEW r \in Request, r.len > 0
    PROVE  /\ r.len \in Nat \ {0} /\ r.src \in Nat /\ r.dst \in Nat
           /\ r.server_key \in Keys /\ r.client_key \in Keys
  <1>1. /\ r.len \in Lengths /\ r.src \in Addresses /\ r.dst \in Addresses
        /\ r.server_key \in Keys /\ r.client_key \in Keys
    BY DEF Request
  <1>2. r.len \in Nat /\ r.src \in Nat /\ r.dst \in Nat
    BY <1>1, AddressNat, LengthsNat
  <1>3. r.len # 0
    BY <1>2
  <1> QED BY <1>1, <1>2, <1>3

\* Chunk i of a request: never empty, full unless it is the last one, which
\* ends where the buffer ends.
LEMMA ChunkLengths ==
    ASSUME NEW r \in Request, r.len > 0, NEW i \in 0 .. ChunkNum(r.len) - 1
    PROVE  /\ ChunkAt(r, i).len \in 1 .. ChunkSize
           /\ ChunkAt(r, i).src \in Nat /\ ChunkAt(r, i).dst \in Nat
           /\ i < ChunkNum(r.len) - 1 => ChunkAt(r, i).len = ChunkSize
           /\ i = ChunkNum(r.len) - 1 => i * ChunkSize + ChunkAt(r, i).len = r.len
  <1> DEFINE N == ChunkNum(r.len)
  <1>0. r.len \in Nat \ {0} /\ r.src \in Nat /\ r.dst \in Nat
    BY RequestFields
  <1>1. N \in Nat \ {0} /\ (N - 1) * ChunkSize < r.len /\ r.len <= N * ChunkSize
    BY <1>0, ChunkNumBounds
  <1> HIDE DEF N
  <1>2. i \in 0 .. N - 1
    BY DEF N
  <1>3. i * ChunkSize \in Nat /\ N * ChunkSize \in Nat /\ (N - 1) * ChunkSize \in Nat
    BY <1>1, <1>2, ChunkNat
  <1>4. i * ChunkSize <= (N - 1) * ChunkSize
    BY <1>1, <1>2, MulMono, ChunkNat
  <1>5. i < N - 1 => i * ChunkSize + ChunkSize <= (N - 1) * ChunkSize
    <2> SUFFICES ASSUME i < N - 1
                 PROVE  i * ChunkSize + ChunkSize <= (N - 1) * ChunkSize
      OBVIOUS
    <2>1. (i + 1) * ChunkSize <= (N - 1) * ChunkSize
      BY <1>1, <1>2, MulMono, ChunkNat
    <2>2. (i + 1) * ChunkSize = i * ChunkSize + ChunkSize
      BY <1>2, ChunkNat
    <2> QED BY <2>1, <2>2
  <1>6. i = N - 1 => r.len <= i * ChunkSize + ChunkSize
    <2>1. N * ChunkSize = (N - 1) * ChunkSize + ChunkSize
      BY <1>1, ChunkNat
    <2> QED BY <1>1, <2>1
  <1> DEFINE off == i * ChunkSize
  <1>7. off \in Nat /\ off < r.len
    BY <1>0, <1>1, <1>3, <1>4
  <1>8. ChunkAt(r, i) = [src |-> r.src + off, dst |-> r.dst + off,
            len |-> IF r.len - off > ChunkSize THEN ChunkSize ELSE r.len - off]
    BY DEF ChunkAt
  <1>9. i < N - 1 => r.len - off > ChunkSize
    BY <1>0, <1>1, <1>3, <1>5, <1>7, ChunkNat
  <1>10. i = N - 1 => r.len - off <= ChunkSize
    BY <1>0, <1>6, <1>7, ChunkNat
  <1> HIDE DEF off
  <1>11. /\ ChunkAt(r, i).len \in 1 .. ChunkSize
         /\ ChunkAt(r, i).src \in Nat /\ ChunkAt(r, i).dst \in Nat
         /\ i < N - 1 => ChunkAt(r, i).len = ChunkSize
         /\ i = N - 1 => off + ChunkAt(r, i).len = r.len
    BY <1>0, <1>7, <1>8, <1>9, <1>10, ChunkNat
  <1> QED BY <1>11 DEF N, off

\* A transfer of at most one chunk is one chunk.
LEMMA SingleChunk ==
    ASSUME NEW r \in Request, r.len > 0, r.len <= ChunkSize
    PROVE  /\ ChunkNum(r.len) = 1
           /\ ChunkAt(r, 0) = [src |-> r.src, dst |-> r.dst, len |-> r.len]
  <1>0. r.len \in Nat \ {0} /\ r.src \in Nat /\ r.dst \in Nat
    BY RequestFields
  <1> DEFINE N == ChunkNum(r.len)
  <1>1. N \in Nat \ {0} /\ (N - 1) * ChunkSize < r.len
    BY <1>0, ChunkNumBounds
  <1> HIDE DEF N
  <1>2. N = 1
    <2> SUFFICES ASSUME N > 1 PROVE FALSE
      BY <1>1
    <2>1. 1 * ChunkSize <= (N - 1) * ChunkSize
      BY <1>1, MulMono, ChunkNat
    <2>2. (N - 1) * ChunkSize \in Nat
      BY <1>1, ChunkNat
    <2> QED BY <1>0, <1>1, <2>1, <2>2, ChunkNat
  <1>3. 0 * ChunkSize = 0
    BY ChunkNat
  <1>4. ChunkAt(r, 0) = [src |-> r.src, dst |-> r.dst, len |-> r.len]
    BY <1>0, <1>3, ChunkNat DEF ChunkAt
  <1> QED BY <1>2, <1>4 DEF N

\* The request id comes out of the word it was put in.
LEMMA UserDataDecodes ==
    ASSUME NEW key \in Keys, NEW type \in Nat, NEW id \in Nat, NEW size \in Nat
    PROVE  RequestIdOf(UserData(key, type, id, size)) = key
  <1> DEFINE t == type % TypeRange
             n == id % IdRange
             z == size % SizeRange
             k == key % KeyRange
             low == t + TypeRange * (n + IdRange * z)
             d == TypeRange * IdRange * SizeRange
  <1>1. /\ t \in 0 .. TypeRange - 1
        /\ n \in 0 .. IdRange - 1
        /\ z \in 0 .. SizeRange - 1
        /\ SizeRange \in Nat \ {0}
    BY DivMod, ChunkNat, IdNat, SizeNat, SizeFits DEF TypeRange
  <1>2. k = key /\ key \in Nat
    BY KeyNat DEF Keys
  <1> HIDE DEF t, n, z, k
  <1>3. IdRange * z \in Nat /\ n + IdRange * z \in Nat
    BY <1>1, IdNat
  <1>4. n + IdRange * z <= IdRange * SizeRange - 1
    <2>1. z * IdRange <= (SizeRange - 1) * IdRange
      BY <1>1, MulMono, IdNat
    <2>2. IdRange * z = z * IdRange
      BY <1>1, IdNat
    <2>3. (SizeRange - 1) * IdRange = IdRange * SizeRange - IdRange
      BY <1>1, IdNat
    <2>4. IdRange * SizeRange \in Nat
      BY <1>1, IdNat
    <2> QED BY <1>1, <1>3, <2>1, <2>2, <2>3, <2>4, IdNat
  <1>5. d = 4 * (IdRange * SizeRange) /\ IdRange * SizeRange \in Nat \ {0}
    BY <1>1, IdNat DEF TypeRange
  <1>6. low \in 0 .. d - 1 /\ d \in Nat \ {0}
    BY <1>1, <1>3, <1>4, <1>5 DEF TypeRange
  <1>7. UserData(key, type, id, size) = low + d * k
    <2>1. UserData(key, type, id, size)
            = t + TypeRange * (n + IdRange * (z + SizeRange * k))
      BY DEF UserData, t, n, z, k
    <2>2. IdRange * (z + SizeRange * k) = IdRange * z + (IdRange * SizeRange) * k
      BY <1>1, <1>2, IdNat
    <2>3. (IdRange * SizeRange) * k \in Nat
      BY <1>2, <1>5
    <2>4. d * k = 4 * ((IdRange * SizeRange) * k)
      BY <1>2, <1>5
    <2> HIDE DEF d
    <2> QED BY <1>1, <1>3, <2>1, <2>2, <2>3, <2>4 DEF TypeRange
  <1> HIDE DEF low, d
  <1>8. (low + d * k) \div d = k
    BY <1>2, <1>6, DivOfSum
  <1>9. RequestIdOf(UserData(key, type, id, size)) = key % KeyRange
    BY <1>2, <1>7, <1>8 DEF RequestIdOf, d
  <1> QED BY <1>2, <1>9 DEF k

-----------------------------------------------------------------------------
(* The inductive invariant: the array is filled as the formula says, and    *)
(* the k-th write carries chunk k - 1.                                      *)

Chunk    == [src : Nat, dst : Nat, len : Nat]
WriteReq == [src : Nat, dst : Nat, len : Nat, user_ctx : Int, notify_data : Int]

TypeInv ==
    /\ req \in Request /\ req.len > 0
    /\ chunks \in Seq(Chunk)
    /\ posted \in Seq(WriteReq)
    /\ pc \in {"split", "tasks", "done", "failed"}

ChunksFilled ==
    /\ Len(chunks) <= ChunkNum(req.len)
    /\ \A k \in 1 .. Len(chunks) : chunks[k] = ChunkAt(req, k - 1)

\* The mark of the k-th write of a request.
MarkOf(r, k) == IF r.len <= ChunkSize \/ k = 1 THEN NOT_SPLIT
                ELSE IF k = ChunkNum(r.len) THEN LAST_CHUNK ELSE MIDDLE_CHUNK

PostedInOrder ==
    \A k \in 1 .. Len(posted) : \E t \in 0 .. 2 :
        /\ t = MarkOf(req, k)
        /\ posted[k] = Write(req, ChunkAt(req, k - 1), t, k - 1)

Progress ==
    /\ pc = "split" => posted = <<>>
    /\ pc = "tasks" => /\ Len(chunks) = ChunkNum(req.len)
                       /\ Len(posted) \in 1 .. Len(chunks)
                       /\ req.len > ChunkSize
    /\ pc = "done"  => Len(posted) = ChunkNum(req.len)
    /\ pc = "failed" => Len(posted) <= ChunkNum(req.len)

SplitInv == TypeInv /\ ChunksFilled /\ PostedInOrder /\ Progress

\* A chunk and a write of a request have their types.
LEMMA WriteType ==
    ASSUME NEW r \in Request, r.len > 0, NEW i \in 0 .. ChunkNum(r.len) - 1,
           NEW t \in 0 .. 2
    PROVE  /\ ChunkAt(r, i) \in Chunk
           /\ Write(r, ChunkAt(r, i), t, i) \in WriteReq
  <1>1. ChunkAt(r, i).len \in Nat /\ ChunkAt(r, i).src \in Nat /\ ChunkAt(r, i).dst \in Nat
    BY ChunkLengths, ChunkNat
  <1>2. ChunkAt(r, i) \in Chunk
    BY <1>1 DEF ChunkAt, Chunk
  <1>3. r.server_key \in Int /\ r.client_key \in Int /\ i \in Int
    BY RequestFields, KeyNat DEF Keys
  <1>4. \A key, size \in Int : UserData(key, t, i, size) \in Int
    <2> SUFFICES ASSUME NEW key \in Int, NEW size \in Int
                 PROVE  UserData(key, t, i, size) \in Int
      OBVIOUS
    <2>1. /\ t % TypeRange \in Int /\ i % IdRange \in Int
          /\ size % SizeRange \in Int /\ key % KeyRange \in Int
      BY <1>3, ChunkNat, IdNat, SizeNat, SizeFits, KeyNat DEF TypeRange
    <2>2. /\ SizeRange * (key % KeyRange) \in Int
      BY <2>1, SizeNat
    <2>3. IdRange * ((size % SizeRange) + SizeRange * (key % KeyRange)) \in Int
      BY <2>1, <2>2, IdNat
    <2> QED BY <2>1, <2>3 DEF UserData, TypeRange
  <1> DEFINE c == ChunkAt(r, i)
  <1>5. /\ UserData(r.server_key, t, i, c.len) \in Int
        /\ UserData(r.client_key, t, i, c.len) \in Int
    <2>1. c.len \in Int
      BY <1>1
    <2> HIDE DEF c
    <2> QED BY <1>3, <1>4, <2>1, Zenon
  <1> HIDE DEF c
  <1>6. Write(r, c, t, i) \in WriteReq
    BY <1>1, <1>5 DEF Write, WriteReq, c
  <1> QED BY <1>2, <1>6 DEF c

\* SplitInv holds at the start.
LEMMA SplitInvInit == Init => SplitInv
  <1> SUFFICES ASSUME Init PROVE SplitInv
    OBVIOUS
  <1>1. req.len \in Nat \ {0}
    BY RequestFields DEF Init
  <1>2. ChunkNum(req.len) \in Nat
    BY <1>1, ChunkNumBounds
  <1> QED BY <1>2 DEF Init, SplitInv, TypeInv, ChunksFilled, PostedInOrder, Progress

\* Every step preserves SplitInv.
LEMMA SplitInvStep == SplitInv /\ [Next]_vars => SplitInv'
  <1> SUFFICES ASSUME SplitInv, [Next]_vars PROVE SplitInv'
    OBVIOUS
  <1>0. ChunkNum(req.len) \in Nat \ {0}
    BY RequestFields, ChunkNumBounds DEF SplitInv, TypeInv
  <1>1. CASE SendSingle
    <2>1. ChunkNum(req.len) = 1
          /\ ChunkAt(req, 0) = [src |-> req.src, dst |-> req.dst, len |-> req.len]
      BY <1>1, SingleChunk DEF SendSingle, SplitInv, TypeInv
    <2>2. posted' = <<Write(req, ChunkAt(req, 0), 0, 0)>>
      BY <1>1, <2>1 DEF SendSingle, NOT_SPLIT
    <2>3. Write(req, ChunkAt(req, 0), 0, 0) \in WriteReq
      BY <2>1, WriteType DEF SplitInv, TypeInv
    <2>4. UNCHANGED <<req, chunks>> /\ pc' = "done"
      BY <1>1 DEF SendSingle
    <2>5. TypeInv'
      BY <2>2, <2>3, <2>4 DEF SplitInv, TypeInv
    <2>6. PostedInOrder'
      BY <2>2, <2>4 DEF PostedInOrder, MarkOf, NOT_SPLIT
    <2>7. ChunksFilled' /\ Progress'
      BY <2>1, <2>2, <2>4 DEF SplitInv, ChunksFilled, Progress
    <2> QED BY <2>5, <2>6, <2>7 DEF SplitInv
  <1>2. CASE SplitChunk
    <2> DEFINE i == Len(chunks)
    <2>1. i \in 0 .. ChunkNum(req.len) - 1 /\ chunks' = Append(chunks, ChunkAt(req, i))
      BY <1>0, <1>2 DEF SplitChunk, SplitInv, TypeInv
    <2>2. ChunkAt(req, i) \in Chunk
      BY <2>1, WriteType DEF SplitInv, TypeInv
    <2>3. UNCHANGED <<req, posted, pc>> /\ pc = "split"
      BY <1>2 DEF SplitChunk
    <2>4. TypeInv'
      BY <2>1, <2>2, <2>3 DEF SplitInv, TypeInv
    <2>5. ChunksFilled'
      <3>1. Len(chunks') = i + 1 /\ chunks'[i + 1] = ChunkAt(req, i)
        BY <2>1, <2>2 DEF SplitInv, TypeInv
      <3>2. \A k \in 1 .. i : chunks'[k] = chunks[k]
        BY <2>1, <2>2 DEF SplitInv, TypeInv
      <3>3. \A k \in 1 .. Len(chunks') : chunks'[k] = ChunkAt(req, k - 1)
        BY <2>1, <3>1, <3>2 DEF SplitInv, ChunksFilled
      <3> QED BY <1>0, <2>1, <2>3, <3>1, <3>3 DEF ChunksFilled
    <2>6. PostedInOrder' /\ Progress'
      BY <2>3 DEF SplitInv, PostedInOrder, Progress
    <2> QED BY <2>4, <2>5, <2>6 DEF SplitInv
  <1>3. CASE PostFirst
    <2>1. chunks[1] = ChunkAt(req, 0) /\ Len(chunks) >= 1
      BY <1>0, <1>3 DEF PostFirst, SplitInv, ChunksFilled
    <2>2. posted' = <<Write(req, ChunkAt(req, 0), 0, 0)>>
      BY <1>3, <2>1 DEF PostFirst, NOT_SPLIT
    <2>3. Write(req, ChunkAt(req, 0), 0, 0) \in WriteReq
      BY <1>0, WriteType DEF SplitInv, TypeInv
    <2>4. /\ UNCHANGED <<req, chunks>> /\ pc' = "tasks" /\ Len(chunks) = ChunkNum(req.len)
          /\ req.len > ChunkSize
      BY <1>3 DEF PostFirst
    <2>5. TypeInv'
      BY <2>2, <2>3, <2>4 DEF SplitInv, TypeInv
    <2>6. PostedInOrder'
      BY <2>2, <2>4 DEF PostedInOrder, MarkOf, NOT_SPLIT
    <2>7. ChunksFilled' /\ Progress'
      BY <2>1, <2>2, <2>4 DEF SplitInv, ChunksFilled, Progress
    <2> QED BY <2>5, <2>6, <2>7 DEF SplitInv
  <1>4. CASE PostTask
    <2> DEFINE i == Len(posted)
               t == IF IsLastChunk(i) THEN LAST_CHUNK ELSE MIDDLE_CHUNK
    <2>1. /\ pc = "tasks" /\ Len(chunks) = ChunkNum(req.len)
          /\ i \in 1 .. ChunkNum(req.len) - 1 /\ UNCHANGED <<req, chunks, pc>>
          /\ req.len > ChunkSize
      BY <1>0, <1>4 DEF PostTask, SplitInv, TypeInv, Progress
    <2>2. t \in 0 .. 2 /\ t = MarkOf(req, i + 1)
      <3>1. req.len \in Nat
        BY RequestFields DEF SplitInv, TypeInv
      <3> QED BY <1>0, <2>1, <3>1, ChunkNat
              DEF MarkOf, IsLastChunk, LAST_CHUNK, MIDDLE_CHUNK
    <2>3. chunks[i + 1] = ChunkAt(req, i)
      BY <2>1 DEF SplitInv, ChunksFilled
    <2>4. posted' = Append(posted, Write(req, ChunkAt(req, i), t, i))
      BY <1>4, <2>3 DEF PostTask
    <2> HIDE DEF t
    <2>5. Write(req, ChunkAt(req, i), t, i) \in WriteReq
      BY <2>1, <2>2, WriteType DEF SplitInv, TypeInv
    <2>6. TypeInv'
      BY <2>1, <2>4, <2>5 DEF SplitInv, TypeInv
    <2>7. Len(posted') = i + 1 /\ posted'[i + 1] = Write(req, ChunkAt(req, i), t, i)
          /\ \A k \in 1 .. i : posted'[k] = posted[k]
      BY <2>4, <2>5 DEF SplitInv, TypeInv
    <2>8. PostedInOrder'
      BY <2>1, <2>2, <2>7 DEF SplitInv, PostedInOrder
    <2>9. ChunksFilled' /\ Progress'
      BY <2>1, <2>7 DEF SplitInv, ChunksFilled, Progress
    <2> QED BY <2>6, <2>8, <2>9 DEF SplitInv
  <1>5. CASE Finish
    BY <1>5 DEF Finish, SplitInv, TypeInv, ChunksFilled, PostedInOrder, Progress
  <1>6. CASE Abandon
    BY <1>0, <1>6 DEF Abandon, SplitInv, TypeInv, ChunksFilled, PostedInOrder, Progress
  <1>7. CASE UNCHANGED vars
    BY <1>7 DEF vars, SplitInv, TypeInv, ChunksFilled, PostedInOrder, Progress
  <1> QED BY <1>1, <1>2, <1>3, <1>4, <1>5, <1>6, <1>7 DEF Next, Ended

\* SplitInv is an invariant.
LEMMA SplitInvariant == Spec => []SplitInv
  BY SplitInvInit, SplitInvStep, PTL DEF Spec

-----------------------------------------------------------------------------
(* The theorems.                                                           *)

\* The invariant gives the tiling.
LEMMA InvTiles == SplitInv => Tiles
  <1> SUFFICES ASSUME SplitInv PROVE Tiles
    OBVIOUS
  <1> DEFINE N == ChunkNum(req.len)
  <1>1. /\ req \in Request /\ req.len > 0 /\ req.len \in Nat
        /\ req.src \in Nat /\ req.dst \in Nat /\ N \in Nat \ {0}
    BY RequestFields, ChunkNumBounds DEF SplitInv, TypeInv
  <1>2. Len(posted) \in 0 .. N /\ DOMAIN posted = 1 .. Len(posted)
    BY <1>1 DEF SplitInv, TypeInv, Progress
  <1>3. \A k \in 1 .. Len(posted) :
          /\ posted[k].src = req.src + (k - 1) * ChunkSize
          /\ posted[k].dst = req.dst + (k - 1) * ChunkSize
          /\ posted[k].len = ChunkAt(req, k - 1).len
    <2> TAKE k \in 1 .. Len(posted)
    <2> DEFINE c == ChunkAt(req, k - 1)
    <2>1. PICK t \in 0 .. 2 : posted[k] = Write(req, c, t, k - 1)
      BY DEF SplitInv, PostedInOrder
    <2>2. /\ c.src = req.src + (k - 1) * ChunkSize
          /\ c.dst = req.dst + (k - 1) * ChunkSize
      BY DEF ChunkAt
    <2> HIDE DEF c
    <2>3. posted[k].src = c.src /\ posted[k].dst = c.dst /\ posted[k].len = c.len
      BY <2>1 DEF Write
    <2> QED BY <2>2, <2>3 DEF c
  <1>4. \A i \in 0 .. N - 1 :
          /\ ChunkAt(req, i).len \in 1 .. ChunkSize
          /\ i < N - 1 => ChunkAt(req, i).len = ChunkSize
          /\ i = N - 1 => i * ChunkSize + ChunkAt(req, i).len = req.len
    BY <1>1, ChunkLengths
  <1> DEFINE off(i) == i * ChunkSize
             size(i) == ChunkAt(req, i).len
  <1>5. /\ off(0) = 0
        /\ \A i \in Nat : off(i) \in Nat /\ off(i + 1) = off(i) + ChunkSize
    BY ChunkNat
  <1>6. \A k \in 1 .. Len(posted) :
          /\ posted[k].src = req.src + off(k - 1)
          /\ posted[k].dst = req.dst + off(k - 1)
          /\ posted[k].len = size(k - 1)
    BY <1>3
  <1>7. \A i \in 0 .. N - 1 :
          /\ size(i) \in 1 .. ChunkSize
          /\ i < N - 1 => size(i) = ChunkSize
          /\ i = N - 1 => off(i) + size(i) = req.len
    BY <1>4
  <1> HIDE DEF off, size, N
  <1>8. ASSUME NEW k \in 1 .. Len(posted)
        PROVE  /\ posted[k].len \in 1 .. ChunkSize
               /\ posted[k].src - req.src = posted[k].dst - req.dst
               /\ k = 1 => posted[k].src = req.src
               /\ k > 1 => posted[k].src = posted[k - 1].src + posted[k - 1].len
    <2>1. k - 1 \in 0 .. N - 1 /\ off(k - 1) \in Nat
      <3>1. k - 1 \in 0 .. N - 1 /\ k - 1 \in Nat
        BY <1>1, <1>2
      <3> QED BY <1>5, <3>1
    <2>2. /\ posted[k].len \in 1 .. ChunkSize
          /\ posted[k].src - req.src = posted[k].dst - req.dst
          /\ k = 1 => posted[k].src = req.src
      <3>1. /\ posted[k].src = req.src + off(k - 1)
            /\ posted[k].dst = req.dst + off(k - 1)
            /\ posted[k].len = size(k - 1)
        BY <1>6
      <3>2. size(k - 1) \in 1 .. ChunkSize
        BY <1>7, <2>1
      <3>3. k = 1 => off(k - 1) = 0
        BY <1>5
      <3> QED BY <1>1, <2>1, <3>1, <3>2, <3>3
    <2>3. ASSUME k > 1
          PROVE  posted[k].src = posted[k - 1].src + posted[k - 1].len
      <3>1. k - 1 \in 1 .. Len(posted) /\ k - 2 \in 0 .. N - 1 /\ k - 2 < N - 1
        BY <1>1, <1>2, <2>3
      <3>2. off(k - 1) = off(k - 2) + ChunkSize /\ off(k - 2) \in Nat
        <4>1. k - 2 \in Nat /\ (k - 2) + 1 = k - 1
          BY <3>1
        <4> QED BY <1>5, <4>1
      <3>3. size(k - 2) = ChunkSize
        BY <1>7, <3>1
      <3>4. posted[k - 1].src = req.src + off(k - 2) /\ posted[k - 1].len = size(k - 2)
        <4>1. (k - 1) - 1 = k - 2
          BY <3>1
        <4> QED BY <1>6, <3>1, <4>1
      <3> QED BY <1>1, <1>6, <3>2, <3>3, <3>4, ChunkNat
    <2> QED BY <2>2, <2>3
  <1>9. ASSUME pc = "done"
        PROVE  /\ Len(posted) = N
               /\ posted[Len(posted)].src + posted[Len(posted)].len = req.src + req.len
    <2>1. Len(posted) = N
      BY <1>9 DEF SplitInv, Progress, N
    <2>2. N - 1 \in 0 .. N - 1 /\ N \in 1 .. Len(posted)
      BY <1>1, <2>1
    <2>3. off(N - 1) \in Nat /\ size(N - 1) \in Nat /\ off(N - 1) + size(N - 1) = req.len
      <3>1. N - 1 \in Nat
        BY <1>1
      <3>2. off(N - 1) \in Nat
        BY <1>5, <3>1
      <3>3. size(N - 1) \in 1 .. ChunkSize /\ off(N - 1) + size(N - 1) = req.len
        BY <1>7, <2>2
      <3> QED BY <3>2, <3>3, ChunkNat
    <2>4. posted[N].src = req.src + off(N - 1) /\ posted[N].len = size(N - 1)
      BY <1>6, <2>2
    <2> QED BY <1>1, <2>1, <2>3, <2>4
  <1> QED BY <1>2, <1>8, <1>9 DEF Tiles, N

\* The writes of a transfer tile its buffer, for every chunk size and length.
THEOREM TilesHolds == Spec => []Tiles
  BY SplitInvariant, InvTiles, PTL

\* The invariant gives the decoding.
LEMMA InvWordsDecode == SplitInv => WordsDecode
  <1> SUFFICES ASSUME SplitInv, NEW k \in DOMAIN posted
               PROVE  /\ RequestIdOf(posted[k].user_ctx) = req.server_key
                      /\ RequestIdOf(posted[k].notify_data) = req.client_key
    BY DEF WordsDecode
  <1>1. /\ req \in Request /\ req.len > 0 /\ ChunkNum(req.len) \in Nat \ {0}
        /\ req.server_key \in Keys /\ req.client_key \in Keys
    BY RequestFields, ChunkNumBounds DEF SplitInv, TypeInv
  <1>2. k \in 1 .. Len(posted) /\ k - 1 \in 0 .. ChunkNum(req.len) - 1
    BY <1>1 DEF SplitInv, TypeInv, Progress
  <1>3. PICK t \in 0 .. 2 : posted[k] = Write(req, ChunkAt(req, k - 1), t, k - 1)
    BY <1>2 DEF SplitInv, PostedInOrder
  <1> DEFINE size == ChunkAt(req, k - 1).len
  <1>4. size \in Nat /\ t \in Nat /\ k - 1 \in Nat
    BY <1>1, <1>2, ChunkLengths, ChunkNat
  <1>5. /\ posted[k].user_ctx = UserData(req.server_key, t, k - 1, size)
        /\ posted[k].notify_data = UserData(req.client_key, t, k - 1, size)
    BY <1>3 DEF Write
  <1> HIDE DEF size
  <1> QED BY <1>1, <1>4, <1>5, UserDataDecodes

\* Each side recovers its own request id from the word of every completion,
\* for every width of the fields in which a chunk size fits.
THEOREM WordsDecodeHolds == Spec => []WordsDecode
  BY SplitInvariant, InvWordsDecode, PTL

\* The type of a chunk is in the low bits of its word.
LEMMA MarkDecodes ==
    ASSUME NEW key \in Keys, NEW type \in 0 .. 2, NEW id \in Nat, NEW size \in Nat
    PROVE  TypeOf(UserData(key, type, id, size)) = type
  <1> DEFINE rest == (id % IdRange)
                       + IdRange * ((size % SizeRange) + SizeRange * (key % KeyRange))
  <1>1. /\ id % IdRange \in Nat /\ size % SizeRange \in Nat /\ key % KeyRange \in Nat
        /\ SizeRange \in Nat /\ IdRange \in Nat
    <2>1. key \in Nat
      BY KeyNat DEF Keys
    <2>2. SizeRange \in Nat \ {0}
      BY ChunkNat, SizeNat, SizeFits
    <2> QED BY <2>1, <2>2, DivMod, IdNat, KeyNat
  <1>2. rest \in Nat
    <2>1. SizeRange * (key % KeyRange) \in Nat
      BY <1>1
    <2>2. IdRange * ((size % SizeRange) + SizeRange * (key % KeyRange)) \in Nat
      BY <1>1, <2>1
    <2> QED BY <1>1, <2>2
  <1>3. UserData(key, type, id, size) = (type % 4) + 4 * rest
    BY DEF UserData, TypeRange
  <1> HIDE DEF rest
  <1> QED BY <1>2, <1>3 DEF TypeOf, TypeRange

\* The invariant gives the marks.
LEMMA InvLastMarked == SplitInv => LastMarked
  <1> SUFFICES ASSUME SplitInv, NEW k \in DOMAIN posted
               PROVE  (TypeOf(posted[k].notify_data) = LAST_CHUNK)
                         = (pc # "split" /\ req.len > ChunkSize /\ k = ChunkNum(req.len))
    BY DEF LastMarked
  <1> DEFINE N == ChunkNum(req.len)
  <1>1. /\ req \in Request /\ req.len > 0 /\ req.len \in Nat /\ N \in Nat \ {0}
        /\ req.client_key \in Keys /\ req.len <= N * ChunkSize
    BY RequestFields, ChunkNumBounds DEF SplitInv, TypeInv
  <1>2. /\ k \in 1 .. Len(posted) /\ k - 1 \in 0 .. N - 1 /\ k - 1 \in Nat
        /\ pc # "split"
    BY <1>1 DEF SplitInv, TypeInv, Progress
  <1>3. PICK t \in 0 .. 2 : /\ t = MarkOf(req, k)
                            /\ posted[k] = Write(req, ChunkAt(req, k - 1), t, k - 1)
    BY <1>2 DEF SplitInv, PostedInOrder
  <1>4. TypeOf(posted[k].notify_data) = t
    <2> DEFINE size == ChunkAt(req, k - 1).len
    <2>1. size \in Nat
      BY <1>1, <1>2, ChunkLengths, ChunkNat
    <2>2. posted[k].notify_data = UserData(req.client_key, t, k - 1, size)
      BY <1>3 DEF Write
    <2> HIDE DEF size
    <2> QED BY <1>1, <1>2, <2>1, <2>2, MarkDecodes
  <1>5. req.len > ChunkSize => N # 1
    <2>1. 1 * ChunkSize = ChunkSize
      BY ChunkNat
    <2> QED BY <1>1, <2>1, ChunkNat
  <1> HIDE DEF N
  <1>6. t = IF req.len <= ChunkSize \/ k = 1 THEN 0 ELSE IF k = N THEN 2 ELSE 1
    BY <1>3 DEF MarkOf, NOT_SPLIT, LAST_CHUNK, MIDDLE_CHUNK, N
  <1>7. (t = 2) = (req.len > ChunkSize /\ k = N)
    BY <1>1, <1>2, <1>5, <1>6, ChunkNat
  <1> QED BY <1>2, <1>4, <1>7 DEF LAST_CHUNK, N

\* In a transfer of several chunks the receiver sees LAST_CHUNK on the last write
\* and on no other, for every chunk size and length: is_last_chunk of a task and
\* the rounding of common_split_chunks agree.
THEOREM LastMarkedHolds == Spec => []LastMarked
  BY SplitInvariant, InvLastMarked, PTL

=============================================================================
