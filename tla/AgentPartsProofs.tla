-------------------------- MODULE AgentPartsProofs --------------------------
(***************************************************************************)
(* Proofs about the agent's chunker (Delta) and its offline queue          *)
(* (OfflineQueue).                                                         *)
(*                                                                         *)
(* ChunksTile is not inductive: that no chunk exceeds MAX_CHUNK needs that *)
(* the bytes looked at since the last cut never do (Bounded).              *)
(*                                                                         *)
(* QueueOrdered needs that the temporary file and the lists the calls have *)
(* read are in order too (QueueTypeOK), and QueueExact that what a call    *)
(* that nobody overtook has read, and what it has written, is what the     *)
(* files hold (UpToDate).  enqueue sorts: that the list it sorts can be    *)
(* sorted at all is SortExists, by the least place where the transfer fits.*)
(***************************************************************************)
EXTENDS Delta, OfflineQueue, SequenceTheorems, WellFoundedInduction, TLAPS

(* Between two cuts the loop is never more than MAX_CHUNK bytes ahead. *)
Bounded == ChunkLen <= MaxChunk

(* The inductive invariant. *)
Inv == TypeOK /\ Bounded /\ ChunksTile /\ AllButLastByte

(* What Append does to the elements of a sequence. *)
LEMMA AppendElements ==
  ASSUME NEW S, NEW s \in Seq(S), NEW e \in S
  PROVE  /\ Append(s, e) \in Seq(S)
         /\ Len(Append(s, e)) = Len(s) + 1
         /\ \A i \in 1 .. Len(s) : Append(s, e)[i] = s[i]
         /\ Append(s, e)[Len(s) + 1] = e
         /\ Append(s, e) # <<>>
  OBVIOUS

(* The loop starts with no bytes looked at and no chunk. *)
LEMMA DeltaInit == Init => Inv
<1> SUFFICES ASSUME Init PROVE Inv
  OBVIOUS
<1>1. len \in Nat /\ offset = 0 /\ start = 0 /\ chunks = <<>> /\ MaxChunk \in Nat
  BY ChunkAssumption DEF Init
<1>2. TypeOK
  BY <1>1 DEF Init, TypeOK
<1>3. Bounded
  BY <1>1 DEF Bounded, ChunkLen
<1>4. ChunksTile
  BY <1>1 DEF ChunksTile
<1>5. AllButLastByte
  BY <1>1 DEF AllButLastByte, Finished
<1> QED
  BY <1>2, <1>3, <1>4, <1>5 DEF Inv

(* A turn of split_into_chunks that cuts a chunk keeps the invariant. *)
LEMMA DeltaCut == ASSUME Inv, NEW hit \in BOOLEAN, Cut(hit) PROVE Inv'
<1>1. /\ len \in Nat /\ offset \in Nat /\ start \in Nat
      /\ start <= offset /\ offset < len
      /\ MinChunk \in Nat /\ MinChunk >= 1 /\ MaxChunk \in Nat /\ MinChunk <= MaxChunk
      /\ chunks \in Seq([offset : Nat, length : Nat])
      /\ offset - start <= MaxChunk
  BY ChunkAssumption DEF Inv, TypeOK, Bounded, ChunkLen, Cut
<1>2. len' = len /\ offset' = offset + 1
  BY DEF Cut
<1> DEFINE c == [offset |-> start, length |-> End(hit) - start]
<1>3. start' = End(hit) /\ chunks' = Append(chunks, c)
  BY DEF Cut
<1>4. /\ End(hit) \in {offset, offset + 1}
      /\ End(hit) = offset + 1 => offset = len - 1
      /\ offset = len - 1 => End(hit) \in {len - 1, len}
      /\ End(hit) - start \in 1 .. MaxChunk
      /\ End(hit) - start < MinChunk => offset = len - 1
  <2>1. CASE Boundary(hit)
    BY <1>1, <2>1 DEF End, Boundary, ChunkLen
  <2>2. CASE ~Boundary(hit)
    BY <1>1, <2>2 DEF End, Boundary, ChunkLen, Cut
  <2> QED
    BY <2>1, <2>2
<1>5. /\ c \in [offset : Nat, length : Nat]
      /\ c.offset = start
      /\ c.length = End(hit) - start
  BY <1>1, <1>4
<1> HIDE DEF c
<1>6. TypeOK'
  BY <1>1, <1>2, <1>3, <1>4, <1>5, AppendElements DEF TypeOK, Inv
<1>7. Bounded'
  BY <1>1, <1>2, <1>3, <1>4 DEF Bounded, ChunkLen
<1>8. ChunksTile'
  <2> DEFINE n == Len(chunks)
  <2>1. /\ n \in Nat /\ Len(chunks') = n + 1 /\ chunks' # <<>>
        /\ \A i \in 1 .. n : chunks'[i] = chunks[i]
        /\ chunks'[n + 1] = c
    BY <1>1, <1>3, <1>5, AppendElements
  <2>2. start = IF n = 0 THEN 0 ELSE chunks[n].offset + chunks[n].length
    BY <1>1 DEF Inv, ChunksTile
  <2>3. start' = c.offset + c.length
    BY <1>1, <1>3, <1>4, <1>5
  <2>4. \A i \in 1 .. n :
          /\ chunks[i].offset = IF i = 1 THEN 0 ELSE chunks[i-1].offset + chunks[i-1].length
          /\ chunks[i].length \in 1 .. MaxChunk
          /\ ~ (chunks[i].length < MinChunk)
    BY <1>1 DEF Inv, ChunksTile, Finished
  <2>5. ASSUME NEW i \in 1 .. n + 1
        PROVE  /\ chunks'[i].offset = IF i = 1 THEN 0
                                      ELSE chunks'[i-1].offset + chunks'[i-1].length
               /\ chunks'[i].length \in 1 .. MaxChunk
               /\ chunks'[i].length < MinChunk => i = n + 1 /\ Finished'
    <3>1. CASE i = n + 1
      <4>1. c.offset = IF i = 1 THEN 0 ELSE chunks'[i-1].offset + chunks'[i-1].length
        BY <1>5, <2>1, <2>2, <3>1
      <4>2. c.length \in 1 .. MaxChunk
        BY <1>4, <1>5
      <4>3. c.length < MinChunk => Finished'
        BY <1>1, <1>2, <1>4, <1>5 DEF Finished
      <4> QED
        BY <2>1, <3>1, <4>1, <4>2, <4>3
    <3>2. CASE i # n + 1
      <4>1. i \in 1 .. n /\ (i # 1 => i - 1 \in 1 .. n)
        BY <2>1, <3>2
      <4> QED
        BY <2>1, <2>4, <4>1
    <3> QED
      BY <3>1, <3>2
  <2> QED
    BY <2>1, <2>3, <2>5 DEF ChunksTile
<1>9. AllButLastByte'
  BY <1>1, <1>2, <1>3, <1>4 DEF AllButLastByte, Finished
<1> QED
  BY <1>6, <1>7, <1>8, <1>9 DEF Inv

(* A turn that only moves on keeps it: it is not at the last byte, and the
   chunk under way is shorter than MAX_CHUNK. *)
LEMMA DeltaSkip == ASSUME Inv, NEW hit \in BOOLEAN, Skip(hit) PROVE Inv'
<1>1. /\ len \in Nat /\ offset \in Nat /\ start \in Nat
      /\ start <= offset /\ offset < len /\ offset # len - 1
      /\ MaxChunk \in Nat
      /\ offset - start < MaxChunk
  BY ChunkAssumption DEF Inv, TypeOK, Boundary, ChunkLen, Skip
<1>2. len' = len /\ offset' = offset + 1 /\ start' = start /\ chunks' = chunks
  BY DEF Skip
<1>3. TypeOK'
  BY <1>1, <1>2 DEF Inv, TypeOK
<1>4. Bounded'
  BY <1>1, <1>2 DEF Bounded, ChunkLen
<1>5. ~Finished /\ ~Finished'
  BY <1>1, <1>2 DEF Finished
<1>6. ChunksTile'
  BY <1>2, <1>5 DEF Inv, ChunksTile
<1>7. AllButLastByte'
  BY <1>5 DEF AllButLastByte
<1> QED
  BY <1>3, <1>4, <1>6, <1>7 DEF Inv

(* The invariant of split_into_chunks, for every file length, MIN_CHUNK and
   MAX_CHUNK, and whatever the rolling hash does. *)
THEOREM DeltaInvariant == Spec => []Inv
<1>1. Inv /\ [Next]_vars => Inv'
  <2> SUFFICES ASSUME Inv, [Next]_vars PROVE Inv'
    OBVIOUS
  <2>1. CASE Next
    BY <2>1, DeltaCut, DeltaSkip DEF Next
  <2>2. CASE UNCHANGED vars
    BY <2>2 DEF vars, Inv, TypeOK, Bounded, ChunkLen, ChunksTile, AllButLastByte, Finished
  <2> QED
    BY <2>1, <2>2
<1> QED
  BY DeltaInit, <1>1, PTL DEF Spec

(* The chunks of split_into_chunks tile the file from its first byte, within
   their bounds: offset and length of each lead the agent to its bytes. *)
THEOREM DeltaChunksTile == Spec => []ChunksTile
<1>1. Inv => ChunksTile
  BY DEF Inv
<1> QED
  BY DeltaInvariant, <1>1, PTL

(* split_into_chunks leaves out at most the last byte of the file. *)
THEOREM DeltaAllButLastByte == Spec => []AllButLastByte
<1>1. Inv => AllButLastByte
  BY DEF Inv
<1> QED
  BY DeltaInvariant, <1>1, PTL

-----------------------------------------------------------------------------
(* The lists the queue may hold. *)
Lists == {s \in Seq(Transfers) : Ordered(s)}

(* What is known of a call in progress, whatever it has read. *)
CallOK(k) ==
  /\ k.op = "enqueue" => \E x \in Transfers : k.arg = {x}
  /\ k.op = "dequeue" => \E x \in ItemsOf(k.items) : k.arg = {x}
  /\ k.op = "drain" => k.arg = ItemsOf(k.items)
  /\ k.op = "none" <=> k.st = "none"

(* The calls a caller can be in. *)
Calls == [op : {"none", "enqueue", "dequeue", "drain"}, arg : SUBSET Transfers,
          items : Lists, off : BOOLEAN, st : {"none", "read", "written"}]

(* The list in the file, the one in the temporary file and the ones the calls
   have read are lists of the queue. *)
QueueTypeOK ==
  /\ queueFile \in Lists
  /\ tmpFile \in Seq(Lists)
  /\ call \in [Callers -> Calls]
  /\ \A c \in Callers : CallOK(call[c])

(* What a call that is not out of date has read is what the file holds, and what
   it has written is what the temporary file holds. *)
UpToDate ==
  \A c \in Callers : call[c].op # "none" /\ ~call[c].off =>
    /\ call[c].items = queueFile
    /\ call[c].st = "written" => tmpFile = <<Saved(call[c])>>

(* The inductive invariant. *)
QueueInv == QueueTypeOK /\ UpToDate /\ QueueExact

(* A set of numbers that has one has a least one. *)
LEMMA LeastNumber ==
  ASSUME NEW T, T \subseteq Nat, T # {}
  PROVE  \E m \in T : \A y \in T : m <= y
<1> DEFINE R == OpToRel(<, Nat)
<1>1. IsWellFoundedOn(R, Nat)
  BY NatLessThanWellFounded
<1>2. \A x, y \in Nat : x < y => <<x, y>> \in R
  BY DEF OpToRel
<1> HIDE DEF R
<1>3. PICK m \in T : \A y \in T : ~(<<y, m>> \in R)
  BY <1>1, WFMin, Zenon
<1>4. \A y \in T : ~(y < m)
  BY <1>2, <1>3
<1> QED
  BY <1>4

(* The elements of a list without the one at position p. *)
LEMMA RemoveAtElements ==
  ASSUME NEW S, NEW s \in Seq(S), NEW p \in 1 .. Len(s)
  PROVE  /\ RemoveAt(s, p) \in Seq(S)
         /\ Len(RemoveAt(s, p)) = Len(s) - 1
         /\ \A k \in 1 .. Len(s) - 1 : RemoveAt(s, p)[k] = IF k < p THEN s[k] ELSE s[k + 1]
<1>1. PICK a : a = SubSeq(s, 1, p - 1)
  OBVIOUS
<1>2. PICK b : b = SubSeq(s, p + 1, Len(s))
  OBVIOUS
<1>3. /\ a \in Seq(S) /\ Len(a) = p - 1
      /\ \A i \in 1 .. p - 1 : a[i] = s[i]
  BY <1>1, SubSeqProperties
<1>4. /\ b \in Seq(S) /\ Len(b) = Len(s) - p
      /\ \A i \in 1 .. Len(s) - p : b[i] = s[p + i]
  BY <1>2, SubSeqProperties
<1>5. RemoveAt(s, p) = a \o b
  BY <1>1, <1>2 DEF RemoveAt
<1>6. /\ a \o b \in Seq(S)
      /\ Len(a \o b) = Len(a) + Len(b)
      /\ \A i \in 1 .. Len(a) + Len(b) : (a \o b)[i] = IF i <= Len(a) THEN a[i] ELSE b[i - Len(a)]
  BY <1>3, <1>4, ConcatProperties
<1>7. ASSUME NEW k \in 1 .. Len(s) - 1
      PROVE  (a \o b)[k] = IF k < p THEN s[k] ELSE s[k + 1]
  <2>1. CASE k < p
    BY <2>1, <1>3, <1>4, <1>6
  <2>2. CASE ~(k < p)
    <3>1. k - Len(a) \in 1 .. Len(s) - p /\ p + (k - Len(a)) = k + 1 /\ ~(k <= Len(a))
      BY <2>2, <1>3
    <3>2. (a \o b)[k] = b[k - Len(a)]
      BY <3>1, <1>3, <1>4, <1>6
    <3> QED
      BY <3>1, <3>2, <1>4, <2>2
  <2> QED
    BY <2>1, <2>2
<1>8. Len(a) + Len(b) = Len(s) - 1
  BY <1>3, <1>4
<1> QED
  BY <1>5, <1>6, <1>7, <1>8

(* Without takes out the transfer of that id and nothing else. *)
LEMMA WithoutElements ==
  ASSUME NEW s \in Lists, NEW id
  PROVE  /\ Without(s, id) \in Lists
         /\ ItemsOf(Without(s, id)) = {y \in ItemsOf(s) : Id[y] # id}
<1>1. s \in Seq(Transfers) /\ Ordered(s) /\ Len(s) \in Nat
  BY DEF Lists
<1>2. CASE Positions(s, id) = {}
  <2>1. Without(s, id) = s
    BY <1>2 DEF Without
  <2>2. \A k \in 1 .. Len(s) : Id[s[k]] # id
    BY <1>2 DEF Positions
  <2> QED
    BY <1>1, <2>1, <2>2 DEF ItemsOf
<1>3. CASE Positions(s, id) # {}
  <2>1. PICK p : p = CHOOSE k \in Positions(s, id) : TRUE
    OBVIOUS
  <2>2. p \in 1 .. Len(s) /\ Id[s[p]] = id
    BY <1>3, <2>1 DEF Positions
  <2>3. PICK t : t = RemoveAt(s, p)
    OBVIOUS
  <2>4. Without(s, id) = t
    BY <1>3, <2>1, <2>3 DEF Without
  <2>5. /\ t \in Seq(Transfers)
        /\ Len(t) = Len(s) - 1
        /\ \A k \in 1 .. Len(s) - 1 : t[k] = IF k < p THEN s[k] ELSE s[k + 1]
    BY <1>1, <2>2, <2>3, RemoveAtElements
  <2>6. Ordered(t)
    <3> SUFFICES ASSUME NEW i \in 1 .. Len(t), NEW j \in 1 .. Len(t), i < j
                 PROVE  Id[t[i]] # Id[t[j]] /\ Priority[t[i]] >= Priority[t[j]]
      BY DEF Ordered
    <3>1. PICK a \in 1 .. Len(s), b \in 1 .. Len(s) : a < b /\ t[i] = s[a] /\ t[j] = s[b]
      <4>1. i \in 1 .. Len(s) - 1 /\ j \in 1 .. Len(s) - 1
        BY <2>5
      <4>2. CASE i < p /\ j < p
        BY <4>1, <4>2, <2>5, <1>1
      <4>3. CASE i < p /\ ~(j < p)
        <5>1. j + 1 \in 1 .. Len(s) /\ t[j] = s[j + 1] /\ i < j + 1
          BY <4>1, <4>3, <2>5, <1>1
        <5> QED
          BY <4>1, <4>3, <5>1, <2>5, <1>1
      <4>4. CASE ~(i < p)
        <5>1. j + 1 \in 1 .. Len(s) /\ i + 1 \in 1 .. Len(s) /\ t[j] = s[j + 1] /\ t[i] = s[i + 1]
          BY <4>1, <4>4, <2>2, <2>5, <1>1
        <5> QED
          BY <5>1, <4>1
      <4> QED
        BY <4>2, <4>3, <4>4
    <3> QED
      BY <3>1, <1>1 DEF Ordered
  <2>7. \A k \in 1 .. Len(s) : Id[s[k]] = id => k = p
    <3> SUFFICES ASSUME NEW k \in 1 .. Len(s), Id[s[k]] = id, k # p
                 PROVE  FALSE
      OBVIOUS
    <3>1. k < p \/ p < k
      BY <2>2
    <3> QED
      BY <3>1, <1>1, <2>2 DEF Ordered
  <2>8. ASSUME NEW y \in ItemsOf(t)
        PROVE  y \in ItemsOf(s) /\ Id[y] # id
    <3>1. PICK k \in 1 .. Len(t) : y = t[k]
      BY <2>8 DEF ItemsOf
    <3>2. PICK a \in 1 .. Len(s) : a # p /\ y = s[a]
      <4>1. CASE k < p
        BY <3>1, <4>1, <2>5, <1>1, <2>2
      <4>2. CASE ~(k < p)
        <5>1. k + 1 \in 1 .. Len(s) /\ k + 1 # p /\ y = s[k + 1]
          BY <3>1, <4>2, <2>5, <1>1, <2>2
        <5> QED
          BY <5>1
      <4> QED
        BY <4>1, <4>2
    <3> QED
      BY <3>2, <2>7 DEF ItemsOf
  <2>9. ASSUME NEW y \in ItemsOf(s), Id[y] # id
        PROVE  y \in ItemsOf(t)
    <3>1. PICK k \in 1 .. Len(s) : y = s[k]
      BY <2>9 DEF ItemsOf
    <3>2. k # p
      BY <3>1, <2>9, <2>2
    <3>3. PICK a \in 1 .. Len(t) : y = t[a]
      <4>1. CASE k < p
        BY <3>1, <4>1, <2>5, <1>1, <2>2
      <4>2. CASE p < k
        <5>1. k - 1 \in 1 .. Len(s) - 1 /\ ~(k - 1 < p) /\ (k - 1) + 1 = k
          BY <3>1, <4>2, <1>1, <2>2
        <5>2. t[k - 1] = s[k]
          BY <5>1, <2>5
        <5> QED
          BY <5>1, <5>2, <3>1, <2>5
      <4> QED
        BY <4>1, <4>2, <3>2, <2>2
    <3> QED
      BY <3>3 DEF ItemsOf
  <2> QED
    BY <2>4, <2>5, <2>6, <2>8, <2>9 DEF Lists
<1> QED
  BY <1>2, <1>3

(* A list with one more transfer at its end can be sorted: there is a place for
   it, behind those of its priority. *)
LEMMA SortExists ==
  ASSUME NEW s \in Lists, NEW x \in Transfers
  PROVE  \E q \in Bijection(1 .. Len(s) + 1, 1 .. Len(s) + 1) : InOrder(Append(s, x), q)
<1>1. s \in Seq(Transfers) /\ Ordered(s) /\ Len(s) \in Nat
  BY DEF Lists
<1>2. PICK n : n = Len(s)
  OBVIOUS
<1>3. PICK t : t = Append(s, x)
  OBVIOUS
<1>4. /\ Len(t) = n + 1 /\ n \in Nat
      /\ \A i \in 1 .. n : t[i] = s[i]
      /\ t[n + 1] = x
  BY <1>1, <1>2, <1>3
<1>5. PICK pr : pr = [i \in 1 .. n + 1 |-> Priority[t[i]]]
  OBVIOUS
<1>6. pr \in [1 .. n + 1 -> Nat]
  <2>1. \A i \in 1 .. n + 1 : t[i] \in Transfers
    BY <1>1, <1>2, <1>4
  <2> QED
    BY <1>5, <2>1, QueueAssumption
<1>7. \A i, j \in 1 .. n : i < j => pr[i] >= pr[j]
  BY <1>1, <1>2, <1>4, <1>5 DEF Ordered
<1>8. PICK m \in 1 .. n + 1 : /\ \A i \in 1 .. n : i < m => pr[i] >= pr[n + 1]
                              /\ \A i \in 1 .. n : i >= m => pr[i] < pr[n + 1]
  <2> DEFINE T == {k \in 1 .. n + 1 : \A i \in 1 .. n : i >= k => pr[i] < pr[n + 1]}
  <2>1. T \subseteq Nat /\ n + 1 \in T
    BY <1>4
  <2>2. PICK m \in T : \A y \in T : m <= y
    <3> HIDE DEF T
    <3> QED
      BY <2>1, LeastNumber
  <2>3. ASSUME NEW i \in 1 .. n, i < m
        PROVE  pr[i] >= pr[n + 1]
    <3>1. m - 1 \in 1 .. n /\ m - 1 \notin T
      BY <2>2, <2>3, <1>4
    <3>2. PICK j \in 1 .. n : j >= m - 1 /\ ~(pr[j] < pr[n + 1])
      BY <3>1, <1>4
    <3>3. j = m - 1
      BY <3>2, <2>2, <1>4
    <3>4. i = j \/ i < j
      BY <3>3, <2>3, <2>2
    <3>5. pr[i] >= pr[j]
      BY <3>4, <1>4, <1>6, <1>7
    <3> QED
      BY <3>2, <3>5, <1>6, <1>4
  <2> QED
    BY <2>2, <2>3
<1>9. PICK q : q = [k \in 1 .. n + 1 |-> IF k < m THEN k ELSE IF k = m THEN n + 1 ELSE k - 1]
  OBVIOUS
<1>10. q \in [1 .. n + 1 -> 1 .. n + 1]
  BY <1>4, <1>9
<1>11. ASSUME NEW i \in 1 .. n + 1, NEW j \in 1 .. n + 1, i < j
       PROVE  \/ pr[q[i]] > pr[q[j]]
              \/ pr[q[i]] = pr[q[j]] /\ q[i] < q[j]
  <2>1. CASE j < m
    <3>1. q[i] = i /\ q[j] = j /\ i \in 1 .. n /\ j \in 1 .. n
      BY <2>1, <1>11, <1>9, <1>4
    <3> QED
      BY <3>1, <1>7, <1>6, <1>11
  <2>2. CASE j = m
    <3>1. q[i] = i /\ q[j] = n + 1 /\ i \in 1 .. n
      BY <2>2, <1>11, <1>9, <1>4
    <3>2. pr[i] >= pr[n + 1]
      BY <3>1, <2>2, <1>11, <1>8
    <3> QED
      BY <3>1, <3>2, <1>6, <1>11, <1>4
  <2>3. CASE j > m /\ i = m
    <3>1. q[i] = n + 1 /\ q[j] = j - 1 /\ j - 1 \in 1 .. n /\ j - 1 >= m
      BY <2>3, <1>11, <1>9, <1>4
    <3>2. pr[j - 1] < pr[n + 1]
      BY <3>1, <1>8
    <3> QED
      BY <3>1, <3>2, <1>6, <1>4
  <2>4. CASE j > m /\ i < m
    <3>2. q[i] = i /\ q[j] = j - 1 /\ j - 1 \in 1 .. n /\ i \in 1 .. n /\ i < m /\ j - 1 >= m
      BY <2>4, <1>11, <1>9, <1>4
    <3>3. pr[i] >= pr[n + 1] /\ pr[j - 1] < pr[n + 1]
      BY <3>2, <1>8
    <3> QED
      BY <3>2, <3>3, <1>6, <1>4
  <2>5. CASE j > m /\ i > m
    <3>1. q[i] = i - 1 /\ q[j] = j - 1 /\ j - 1 \in 1 .. n /\ i - 1 \in 1 .. n /\ i - 1 < j - 1
      BY <2>5, <1>11, <1>9, <1>4
    <3>2. pr[i - 1] >= pr[j - 1]
      BY <3>1, <1>7
    <3> QED
      BY <3>1, <3>2, <1>6, <1>4
  <2> QED
    BY <2>1, <2>2, <2>3, <2>4, <2>5, <1>11
<1>12. InOrder(t, q)
  BY <1>11, <1>10, <1>5, <1>4 DEF InOrder
<1>13. \A i, j \in 1 .. n + 1 : q[i] = q[j] => i = j
  BY <1>9, <1>4
<1>14. ASSUME NEW y \in 1 .. n + 1
       PROVE  \E k \in 1 .. n + 1 : q[k] = y
  <2>1. CASE y < m
    BY <2>1, <1>9, <1>4
  <2>2. CASE y = n + 1
    BY <2>2, <1>9, <1>4
  <2>3. CASE ~(y < m) /\ y # n + 1
    <3>1. y + 1 \in 1 .. n + 1 /\ q[y + 1] = y
      BY <2>3, <1>9, <1>4
    <3> QED
      BY <3>1
  <2> QED
    BY <2>1, <2>2, <2>3
<1>15. q \in Bijection(1 .. n + 1, 1 .. n + 1)
  BY <1>10, <1>13, <1>14 DEF Bijection, Injection, Surjection, IsInjective
<1> QED
  BY <1>12, <1>15, <1>2, <1>3

(* Sorting such a list keeps its transfers and leaves them in order. *)
LEMMA EnqueuedElements ==
  ASSUME NEW s \in Lists, NEW x \in Transfers
  PROVE  /\ Enqueued(s, x) \in Lists
         /\ ItemsOf(Enqueued(s, x)) = {y \in ItemsOf(s) : Id[y] # Id[x]} \union {x}
<1>1. PICK r : r = Without(s, Id[x])
  OBVIOUS
<1>2. r \in Lists /\ ItemsOf(r) = {y \in ItemsOf(s) : Id[y] # Id[x]}
  BY <1>1, WithoutElements
<1>3. PICK t : t = Append(r, x)
  OBVIOUS
<1>4. PICK n : n = Len(t)
  OBVIOUS
<1>5. /\ r \in Seq(Transfers) /\ Ordered(r)
      /\ n = Len(r) + 1 /\ Len(r) \in Nat /\ n \in Nat
      /\ \A i \in 1 .. Len(r) : t[i] = r[i]
      /\ t[n] = x
      /\ t \in Seq(Transfers)
  BY <1>2, <1>3, <1>4 DEF Lists
<1>6. PICK q : q = CHOOSE p \in Bijection(1 .. n, 1 .. n) : InOrder(t, p)
  OBVIOUS
<1>7. q \in Bijection(1 .. n, 1 .. n) /\ InOrder(t, q)
  <2>1. \E p \in Bijection(1 .. n, 1 .. n) : InOrder(t, p)
    BY <1>2, <1>3, <1>5, SortExists
  <2> QED
    BY <1>6, <2>1
<1>8. PICK u : u = [k \in 1 .. n |-> t[q[k]]]
  OBVIOUS
<1>9. Enqueued(s, x) = u
  BY <1>1, <1>3, <1>4, <1>6, <1>8 DEF Enqueued, Sorted
<1>10. /\ q \in [1 .. n -> 1 .. n]
       /\ \A i, j \in 1 .. n : q[i] = q[j] => i = j
       /\ \A y \in 1 .. n : \E k \in 1 .. n : q[k] = y
  BY <1>7 DEF Bijection, Injection, Surjection, IsInjective
<1>11. \A i \in 1 .. n : t[i] \in Transfers
  BY <1>5, <1>4
<1>12. u \in Seq(Transfers) /\ Len(u) = n /\ \A k \in 1 .. n : u[k] = t[q[k]]
  <2>1. \A k \in 1 .. n : q[k] \in 1 .. n
    BY <1>10
  <2>2. \A k \in 1 .. n : t[q[k]] \in Transfers
    BY <2>1, <1>11
  <2>3. u \in [1 .. n -> Transfers] /\ \A k \in 1 .. n : u[k] = t[q[k]]
    BY <1>8, <2>2
  <2> QED
    BY <2>3, <1>5
<1>13. \A i, j \in 1 .. n : i # j => Id[t[i]] # Id[t[j]]
  <2>1. \A i \in 1 .. Len(r) : Id[r[i]] # Id[x]
    BY <1>2 DEF ItemsOf
  <2>2. \A i, j \in 1 .. Len(r) : i # j => Id[r[i]] # Id[r[j]]
    BY <1>5 DEF Ordered
  <2> QED
    BY <2>1, <2>2, <1>5
<1>14. Ordered(u)
  <2> SUFFICES ASSUME NEW i \in 1 .. n, NEW j \in 1 .. n, i < j
               PROVE  Id[u[i]] # Id[u[j]] /\ Priority[u[i]] >= Priority[u[j]]
    BY <1>12 DEF Ordered
  <2>1. u[i] = t[q[i]] /\ u[j] = t[q[j]] /\ q[i] \in 1 .. n /\ q[j] \in 1 .. n /\ q[i] # q[j]
    <3>1. u[i] = t[q[i]] /\ u[j] = t[q[j]]
      BY <1>12
    <3>2. q[i] \in 1 .. n /\ q[j] \in 1 .. n
      BY <1>10
    <3>3. q[i] # q[j]
      BY <1>10
    <3> QED
      BY <3>1, <3>2, <3>3
  <2>2. Id[u[i]] # Id[u[j]]
    BY <2>1, <1>13
  <2>3. \/ Priority[t[q[i]]] > Priority[t[q[j]]]
        \/ Priority[t[q[i]]] = Priority[t[q[j]]]
    BY <1>7, <1>4 DEF InOrder
  <2>4. Priority[t[q[i]]] \in Nat /\ Priority[t[q[j]]] \in Nat
    BY <2>1, <1>11, QueueAssumption
  <2> QED
    BY <2>1, <2>2, <2>3, <2>4
<1>15. ItemsOf(u) = ItemsOf(t)
  <2>1. ASSUME NEW k \in 1 .. n
        PROVE  u[k] \in ItemsOf(t)
    <3>1. q[k] \in 1 .. n
      BY <1>10
    <3>2. u[k] = t[q[k]]
      BY <1>12
    <3> QED
      BY <3>1, <3>2, <1>4 DEF ItemsOf
  <2>2. \A y \in 1 .. n : t[y] \in ItemsOf(u)
    <3> SUFFICES ASSUME NEW y \in 1 .. n
                 PROVE  t[y] \in ItemsOf(u)
      OBVIOUS
    <3>1. PICK k \in 1 .. n : q[k] = y
      BY <1>10
    <3> QED
      BY <3>1, <1>12 DEF ItemsOf
  <2>3. ItemsOf(u) = {u[k] : k \in 1 .. n} /\ ItemsOf(t) = {t[k] : k \in 1 .. n}
    BY <1>12, <1>4 DEF ItemsOf
  <2> QED
    BY <2>1, <2>2, <2>3
<1>16. ItemsOf(t) = ItemsOf(r) \union {x}
  <2>1. \A i \in 1 .. n : i \in 1 .. Len(r) \/ i = n
    BY <1>5
  <2>2. \A i \in 1 .. Len(r) : i \in 1 .. n
    BY <1>5
  <2>3. n \in 1 .. n
    BY <1>5
  <2> QED
    BY <2>1, <2>2, <2>3, <1>5, <1>4 DEF ItemsOf
<1> QED
  BY <1>9, <1>12, <1>14, <1>15, <1>16, <1>2 DEF Lists

(* What a call saves is a list of the queue, and holds what the call's list held
   after the call's effect. *)
LEMMA SavedElements ==
  ASSUME NEW k, k.items \in Lists, CallOK(k), k.op \in {"enqueue", "dequeue", "drain"}
  PROVE  /\ Saved(k) \in Lists
         /\ k.op # "enqueue" => ItemsOf(Saved(k)) = ItemsOf(k.items) \ k.arg
         /\ k.op = "enqueue" =>
              ItemsOf(Saved(k)) = {y \in ItemsOf(k.items) : \A x \in k.arg : Id[y] # Id[x]} \union k.arg
<1>1. CASE k.op = "enqueue"
  <2>1. PICK x \in Transfers : k.arg = {x}
    BY <1>1 DEF CallOK
  <2>2. Saved(k) = Enqueued(k.items, x)
    BY <1>1, <2>1 DEF Saved
  <2> QED
    BY <1>1, <2>1, <2>2, EnqueuedElements
<1>2. CASE k.op = "dequeue"
  <2>1. PICK x \in ItemsOf(k.items) : k.arg = {x}
    BY <1>2 DEF CallOK
  <2>2. Saved(k) = Without(k.items, Id[x])
    BY <1>2, <2>1 DEF Saved
  <2>3. \A y \in ItemsOf(k.items) : Id[y] = Id[x] => y = x
    <3> SUFFICES ASSUME NEW y \in ItemsOf(k.items), Id[y] = Id[x], y # x
                 PROVE  FALSE
      OBVIOUS
    <3>1. k.items \in Seq(Transfers) /\ Ordered(k.items)
      BY DEF Lists
    <3>2. PICK a \in 1 .. Len(k.items), b \in 1 .. Len(k.items) :
             y = k.items[a] /\ x = k.items[b]
      BY DEF ItemsOf
    <3>3. a < b \/ b < a
      BY <3>1, <3>2
    <3> QED
      BY <3>1, <3>2, <3>3 DEF Ordered
  <2>4. /\ Without(k.items, Id[x]) \in Lists
        /\ ItemsOf(Without(k.items, Id[x])) = {y \in ItemsOf(k.items) : Id[y] # Id[x]}
    BY WithoutElements
  <2> QED
    BY <1>2, <2>1, <2>2, <2>3, <2>4
<1>3. CASE k.op = "drain"
  <2>1. Saved(k) = <<>> /\ k.arg = ItemsOf(k.items)
    BY <1>3 DEF Saved, CallOK
  <2>2. <<>> \in Lists /\ ItemsOf(<<>>) = {}
    BY DEF Lists, Ordered, ItemsOf
  <2> QED
    BY <1>3, <2>1, <2>2
<1> QED
  BY <1>1, <1>2, <1>3

(* Init: no file, no call. *)
LEMMA QueueInvInit == QueueInit => QueueInv
<1> SUFFICES ASSUME QueueInit PROVE QueueInv
  OBVIOUS
<1>1. <<>> \in Lists /\ ItemsOf(<<>>) = {}
  BY DEF Lists, Ordered, ItemsOf
<1>2. tmpFile \in Seq(Lists)
  BY DEF QueueInit
<1>3. \A c \in Callers : call[c] = Free
  BY DEF QueueInit
<1>4. CallOK(Free)
  BY DEF CallOK, Free
<1>5. QueueTypeOK
  <2>1. call \in [Callers -> Calls]
    BY <1>1 DEF QueueInit, Free, Calls
  <2> QED
    BY <1>1, <1>2, <1>3, <1>4, <2>1 DEF QueueInit, QueueTypeOK
<1>6. UpToDate
  BY <1>3 DEF UpToDate, Free
<1>7. QueueExact
  BY <1>1 DEF QueueExact, QueueInit
<1> QED
  BY <1>5, <1>6, <1>7 DEF QueueInv

(* The two parts of the invariant in the next state, in terms of its values. *)
LEMMA TypeOKPrimed ==
  ASSUME queueFile' \in Lists, tmpFile' \in Seq(Lists), call' \in [Callers -> Calls],
         \A c \in Callers : CallOK(call'[c])
  PROVE  QueueTypeOK'
  BY DEF QueueTypeOK, Calls, CallOK, ItemsOf, Lists, Ordered

LEMMA UpToDatePrimed ==
  ASSUME \A c \in Callers : call'[c].op # "none" /\ ~call'[c].off =>
           /\ call'[c].items = queueFile'
           /\ call'[c].st = "written" => tmpFile' = <<Saved(call'[c])>>
  PROVE  UpToDate'
  BY DEF UpToDate, Saved, Enqueued, Without, Sorted, Positions, InOrder

(* Reading the file: the call's list is the file's, or the call is out of date. *)
LEMMA ListItemsInv ==
  ASSUME QueueInv, NEW c \in Callers, ListItems(c)
  PROVE  QueueInv'
<1>1. QueueTypeOK /\ UpToDate /\ QueueExact /\ call \in [Callers -> Calls]
  BY DEF QueueInv, QueueTypeOK, Calls
<1>2. PICK op \in {"enqueue", "dequeue", "drain"}, x \in Transfers, readable \in BOOLEAN :
        LET items == IF readable THEN queueFile ELSE <<>>
        IN  /\ op = "dequeue" => x \in ItemsOf(items)
            /\ call' = [call EXCEPT ![c] =
                 [op |-> op, arg |-> IF op = "drain" THEN ItemsOf(items) ELSE {x},
                  items |-> items, off |-> items # queueFile, st |-> "read"]]
  BY DEF ListItems
<1>3. PICK items : items = IF readable THEN queueFile ELSE <<>>
  OBVIOUS
<1>4. items \in Lists
  BY <1>1, <1>3 DEF QueueTypeOK, Lists, Ordered
<1>5. ItemsOf(items) \subseteq Transfers
  BY <1>4 DEF ItemsOf, Lists
<1>6. PICK k : k = [op |-> op, arg |-> IF op = "drain" THEN ItemsOf(items) ELSE {x},
                    items |-> items, off |-> items # queueFile, st |-> "read"]
  OBVIOUS
<1>7. call' = [call EXCEPT ![c] = k] /\ (op = "dequeue" => x \in ItemsOf(items))
  BY <1>2, <1>3, <1>6
<1>8. k \in Calls
  BY <1>4, <1>5, <1>6 DEF Calls
<1>9. CallOK(k)
  BY <1>6, <1>7 DEF CallOK
<1>10. call' \in [Callers -> Calls] /\ \A d \in Callers : call'[d] = IF d = c THEN k ELSE call[d]
  BY <1>1, <1>7, <1>8
<1>11. queueFile' = queueFile /\ tmpFile' = tmpFile /\ queued' = queued
  BY DEF ListItems
<1>12. QueueTypeOK'
  <2>1. \A d \in Callers : CallOK(call'[d])
    BY <1>1, <1>9, <1>10 DEF QueueTypeOK
  <2> QED
    BY <1>1, <1>10, <1>11, <2>1, TypeOKPrimed DEF QueueTypeOK
<1>13. UpToDate'
  <2> SUFFICES ASSUME NEW d \in Callers, call'[d].op # "none", ~call'[d].off
               PROVE  /\ call'[d].items = queueFile
                      /\ call'[d].st = "written" => tmpFile = <<Saved(call'[d])>>
    BY <1>11, UpToDatePrimed
  <2>1. CASE d = c
    <3>1. call'[d] = k
      BY <2>1, <1>10
    <3>2. k.items = items /\ k.st = "read" /\ k.off = (items # queueFile)
      BY <1>6
    <3> QED
      BY <3>1, <3>2
  <2>2. CASE d # c
    BY <2>2, <1>1, <1>10 DEF UpToDate
  <2> QED
    BY <2>1, <2>2
<1>14. QueueExact'
  BY <1>1, <1>11 DEF QueueExact, ItemsOf
<1> QED
  BY <1>12, <1>13, <1>14 DEF QueueInv

(* Marking a call out of date keeps what is known of it. *)
LEMMA MarkedOff ==
  ASSUME NEW k \in Calls, CallOK(k)
  PROVE  LET m == [k EXCEPT !.off = TRUE]
         IN  m \in Calls /\ CallOK(m) /\ m.off = TRUE /\ m.op = k.op /\ m.st = k.st
  BY DEF Calls, CallOK

(* What Overtake does to every call. *)
LEMMA OvertakeCalls ==
  ASSUME call \in [Callers -> Calls], \A d \in Callers : CallOK(call[d]),
         NEW c \in Callers, NEW k \in Calls, CallOK(k), NEW others, Overtake(c, k, others)
  PROVE  /\ call' \in [Callers -> Calls]
         /\ \A d \in Callers : CallOK(call'[d])
         /\ call'[c] = k
         /\ \A d \in Callers \ {c} : \/ d \in others /\ call'[d].off
                                     \/ d \notin others /\ call'[d] = call[d]
<1>1. call' = [d \in Callers |-> IF d = c THEN k
                                 ELSE IF d \in others THEN [call[d] EXCEPT !.off = TRUE]
                                 ELSE call[d]]
  BY DEF Overtake
<1>2. \A d \in Callers : call'[d] = IF d = c THEN k
                                    ELSE IF d \in others THEN [call[d] EXCEPT !.off = TRUE]
                                    ELSE call[d]
  BY <1>1
<1>3. ASSUME NEW d \in Callers
      PROVE  /\ call'[d] \in Calls /\ CallOK(call'[d])
             /\ d # c => \/ d \in others /\ call'[d].off
                         \/ d \notin others /\ call'[d] = call[d]
  <2>1. call[d] \in Calls /\ CallOK(call[d])
    OBVIOUS
  <2>2. CASE d = c
    BY <2>2, <1>2
  <2>3. CASE d # c /\ d \in others
    <3>1. call'[d] = [call[d] EXCEPT !.off = TRUE]
      BY <2>3, <1>2
    <3> QED
      BY <3>1, <2>1, <2>3, MarkedOff
  <2>4. CASE d # c /\ d \notin others
    BY <2>4, <2>1, <1>2
  <2> QED
    BY <2>2, <2>3, <2>4
<1>4. DOMAIN call' = Callers /\ call' = [d \in Callers |-> call'[d]]
  BY <1>1
<1>5. call' \in [Callers -> Calls]
  BY <1>3, <1>4
<1> QED
  BY <1>2, <1>3, <1>5

(* Writing the temporary file: the call's list goes there, and no other call's is
   there any more. *)
LEMMA WriteTmpInv ==
  ASSUME QueueInv, NEW c \in Callers, WriteTmp(c)
  PROVE  QueueInv'
<1>1. /\ QueueTypeOK /\ UpToDate /\ QueueExact /\ call \in [Callers -> Calls]
      /\ \A d \in Callers : CallOK(call[d])
  BY DEF QueueInv, QueueTypeOK, Calls
<1>2. PICK k : k = [call[c] EXCEPT !.st = "written"]
  OBVIOUS
<1>3. PICK others : others = {d \in Callers : call[d].st = "written"}
  OBVIOUS
<1>4. /\ call[c].st = "read" /\ call[c] \in Calls /\ CallOK(call[c])
      /\ tmpFile' = <<Saved(call[c])>>
      /\ Overtake(c, k, others)
      /\ queueFile' = queueFile /\ queued' = queued
  BY <1>1, <1>2, <1>3 DEF WriteTmp
<1>5. call[c].op \in {"enqueue", "dequeue", "drain"}
  BY <1>4 DEF CallOK, Calls
<1>6. /\ k \in Calls /\ CallOK(k) /\ k.op = call[c].op /\ k.st = "written"
      /\ k.items = call[c].items /\ k.off = call[c].off /\ k.arg = call[c].arg
  BY <1>2, <1>4, <1>5 DEF Calls, CallOK
<1>7. Saved(k) = Saved(call[c])
  BY <1>6 DEF Saved
<1>8. /\ call' \in [Callers -> Calls]
      /\ \A d \in Callers : CallOK(call'[d])
      /\ call'[c] = k
      /\ \A d \in Callers \ {c} : \/ d \in others /\ call'[d].off
                                  \/ d \notin others /\ call'[d] = call[d]
  BY <1>1, <1>4, <1>6, OvertakeCalls
<1>9. Saved(call[c]) \in Lists
  <2>1. call[c].items \in Lists
    BY <1>4 DEF Calls
  <2> QED
    BY <2>1, <1>4, <1>5, SavedElements
<1>10. QueueTypeOK'
  <2>1. tmpFile' \in Seq(Lists)
    BY <1>4, <1>9
  <2>2. queueFile' \in Lists
    BY <1>1, <1>4 DEF QueueTypeOK
  <2> QED
    BY <1>8, <2>1, <2>2, TypeOKPrimed
<1>11. UpToDate'
  <2> SUFFICES ASSUME NEW d \in Callers, call'[d].op # "none", ~call'[d].off
               PROVE  /\ call'[d].items = queueFile'
                      /\ call'[d].st = "written" => tmpFile' = <<Saved(call'[d])>>
    BY UpToDatePrimed
  <2>1. CASE d = c
    <3>1. ~call[c].off /\ call[c].op # "none"
      BY <2>1, <1>6, <1>8
    <3>2. call[c].items = queueFile
      BY <3>1, <1>1 DEF UpToDate
    <3> QED
      BY <2>1, <3>2, <1>4, <1>6, <1>7, <1>8
  <2>2. CASE d # c
    <3>1. call'[d] = call[d] /\ call[d].st # "written"
      BY <2>2, <1>3, <1>8
    <3> QED
      BY <3>1, <1>1, <1>4 DEF UpToDate
  <2> QED
    BY <2>1, <2>2
<1>12. QueueExact'
  BY <1>1, <1>4 DEF QueueExact, ItemsOf
<1> QED
  BY <1>10, <1>11, <1>12 DEF QueueInv

(* Renaming: a call that is not out of date puts there the file's list after its
   effect. *)
LEMMA RenameInv ==
  ASSUME QueueInv, NEW c \in Callers, Rename(c)
  PROVE  QueueInv'
<1>1. /\ QueueTypeOK /\ UpToDate /\ QueueExact /\ call \in [Callers -> Calls]
      /\ \A d \in Callers : CallOK(call[d])
  BY DEF QueueInv, QueueTypeOK, Calls
<1>2. PICK others : others = {d \in Callers : call[d].op # "none"}
  OBVIOUS
<1>3. PICK k : k = call[c]
  OBVIOUS
<1>4. /\ k.st = "written" /\ tmpFile # <<>> /\ k \in Calls /\ CallOK(k)
      /\ queueFile' = tmpFile[1]
      /\ tmpFile' = <<>>
      /\ queued' = QueuedAfter(k)
      /\ Overtake(c, Free, others)
  BY <1>1, <1>2, <1>3 DEF Rename
<1>5. k.op \in {"enqueue", "dequeue", "drain"} /\ k.items \in Lists
  BY <1>4 DEF CallOK, Calls
<1>6. tmpFile \in Seq(Lists) /\ tmpFile[1] \in Lists
  BY <1>1, <1>4 DEF QueueTypeOK
<1>7. Free \in Calls /\ CallOK(Free) /\ Free.op = "none"
  BY DEF Calls, CallOK, Free, Lists, Ordered
<1>8. /\ call' \in [Callers -> Calls]
      /\ \A d \in Callers : CallOK(call'[d])
      /\ call'[c] = Free
      /\ \A d \in Callers \ {c} : \/ d \in others /\ call'[d].off
                                  \/ d \notin others /\ call'[d] = call[d]
  BY <1>1, <1>4, <1>7, OvertakeCalls
<1>9. QueueTypeOK'
  <2>1. tmpFile' \in Seq(Lists)
    BY <1>4
  <2>2. queueFile' \in Lists
    BY <1>4, <1>6
  <2> QED
    BY <1>8, <2>1, <2>2, TypeOKPrimed
<1>10. UpToDate'
  <2> SUFFICES ASSUME NEW d \in Callers, call'[d].op # "none", ~call'[d].off
               PROVE  FALSE
    BY UpToDatePrimed
  <2> QED
    BY <1>2, <1>7, <1>8
<1>11. QueueExact'
  <2> SUFFICES ItemsOf(queueFile') = queued'
    BY DEF QueueExact, ItemsOf
  <2>1. CASE k.off
    BY <2>1, <1>4 DEF QueuedAfter
  <2>2. CASE ~k.off
    <3>1. k.items = queueFile /\ tmpFile = <<Saved(k)>>
      BY <2>2, <1>1, <1>3, <1>4, <1>5 DEF UpToDate
    <3>2. queueFile' = Saved(k)
      BY <3>1, <1>4
    <3>3. queued = ItemsOf(k.items)
      BY <3>1, <1>1 DEF QueueExact
    <3>4. /\ k.op # "enqueue" => ItemsOf(Saved(k)) = ItemsOf(k.items) \ k.arg
          /\ k.op = "enqueue" =>
               ItemsOf(Saved(k)) = {y \in ItemsOf(k.items) : \A x \in k.arg : Id[y] # Id[x]} \union k.arg
      BY <1>4, <1>5, SavedElements
    <3> QED
      BY <2>2, <3>2, <3>3, <3>4, <1>4 DEF QueuedAfter
  <2> QED
    BY <2>1, <2>2
<1> QED
  BY <1>9, <1>10, <1>11 DEF QueueInv

(* A call that ends before the rename leaves the file as it was. *)
LEMMA CallFailsInv ==
  ASSUME QueueInv, NEW c \in Callers, CallFails(c)
  PROVE  QueueInv'
<1>1. /\ QueueTypeOK /\ UpToDate /\ QueueExact /\ call \in [Callers -> Calls]
      /\ \A d \in Callers : CallOK(call[d])
  BY DEF QueueInv, QueueTypeOK, Calls
<1>2. /\ call' = [call EXCEPT ![c] = Free]
      /\ queueFile' = queueFile /\ tmpFile' = tmpFile /\ queued' = queued
  BY DEF CallFails
<1>3. Free \in Calls /\ CallOK(Free) /\ Free.op = "none"
  BY DEF Calls, CallOK, Free, Lists, Ordered
<1>4. call' \in [Callers -> Calls] /\ \A d \in Callers : call'[d] = IF d = c THEN Free ELSE call[d]
  BY <1>1, <1>2, <1>3
<1>5. QueueTypeOK'
  <2>1. \A d \in Callers : CallOK(call'[d])
    BY <1>1, <1>3, <1>4
  <2>2. queueFile' \in Lists /\ tmpFile' \in Seq(Lists)
    BY <1>1, <1>2 DEF QueueTypeOK
  <2> QED
    BY <1>4, <2>1, <2>2, TypeOKPrimed
<1>6. UpToDate'
  <2> SUFFICES ASSUME NEW d \in Callers, call'[d].op # "none", ~call'[d].off
               PROVE  /\ call'[d].items = queueFile'
                      /\ call'[d].st = "written" => tmpFile' = <<Saved(call'[d])>>
    BY UpToDatePrimed
  <2>1. call'[d] = call[d]
    BY <1>3, <1>4
  <2> QED
    BY <2>1, <1>1, <1>2 DEF UpToDate
<1>7. QueueExact'
  BY <1>1, <1>2 DEF QueueExact, ItemsOf
<1> QED
  BY <1>5, <1>6, <1>7 DEF QueueInv

(* Every step of the queue, and a step that leaves it alone, keeps the invariant. *)
LEMMA QueueInvStep == QueueInv /\ [QueueNext]_queueVars => QueueInv'
<1> SUFFICES ASSUME QueueInv, [QueueNext]_queueVars PROVE QueueInv'
  OBVIOUS
<1>1. CASE QueueNext
  <2>1. PICK c \in Callers : ListItems(c) \/ WriteTmp(c) \/ Rename(c) \/ CallFails(c)
    BY <1>1 DEF QueueNext
  <2> QED
    BY <2>1, ListItemsInv, WriteTmpInv, RenameInv, CallFailsInv
<1>2. CASE UNCHANGED queueVars
  <2>1. queueFile' = queueFile /\ tmpFile' = tmpFile /\ call' = call /\ queued' = queued
    BY <1>2 DEF queueVars
  <2>2. QueueTypeOK'
    BY <2>1, TypeOKPrimed DEF QueueInv, QueueTypeOK, Calls
  <2>3. UpToDate'
    BY <2>1, UpToDatePrimed DEF QueueInv, UpToDate
  <2>4. QueueExact'
    BY <2>1 DEF QueueInv, QueueExact, ItemsOf
  <2> QED
    BY <2>2, <2>3, <2>4 DEF QueueInv
<1> QED
  BY <1>1, <1>2

(* The inductive invariant holds of every state of the queue. *)
LEMMA QueueInvariant == QueueSpec => []QueueInv
  BY QueueInvInit, QueueInvStep, PTL DEF QueueSpec

(* The queue file stays a list of transfers of different ids in the order of
   their priorities, whatever calls overlap, fail or cannot read it (queue.rs). *)
THEOREM QueueStaysOrdered == QueueSpec => []QueueOrdered
<1>1. QueueInv => QueueOrdered
  BY DEF QueueInv, QueueTypeOK, QueueOrdered, Lists
<1> QED
  BY <1>1, QueueInvariant, PTL

(* The queue file holds exactly what was enqueued and not taken out since, but
   for the calls that saved a list out of date or not read (queue.rs). *)
THEOREM QueueStaysExact == QueueSpec => []QueueExact
<1>1. QueueInv => QueueExact
  BY DEF QueueInv
<1> QED
  BY <1>1, QueueInvariant, PTL
=============================================================================
