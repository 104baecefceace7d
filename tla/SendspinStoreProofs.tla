------------------------ MODULE SendspinStoreProofs ------------------------
(***************************************************************************)
(* What flash holds through refusals and power loss, for any number of     *)
(* servers and records.                                                    *)
(***************************************************************************)
EXTENDS SendspinStore, SequenceTheorems, WellFoundedInduction, TLAPS

\* A set of positions that is not empty has a first one.
LEMMA FirstExists ==
    ASSUME NEW T \in SUBSET Nat, T # {}
    PROVE  \E i \in T : \A j \in T : i <= j
<1> DEFINE R == {ss \in Nat \X Nat : ss[1] < ss[2]}
<1>1. IsWellFoundedOn(R, Nat)
  BY NatLessThanWellFounded DEF OpToRel
<1>2. PICK i \in T : \A j \in T : <<j, i>> \notin R
  <2> HIDE DEF R
  <2> QED  BY <1>1, WFMin
<1>3. \A j \in T : i <= j
  <2> TAKE j \in T
  <2>1. i \in Nat /\ j \in Nat
    OBVIOUS
  <2>2. j < i => <<j, i>> \in R
    BY <2>1
  <2> HIDE DEF R
  <2> QED
    BY <1>2, <2>1, <2>2
<1> QED
  BY <1>2, <1>3

LEMMA RemoveAtFacts ==
    ASSUME NEW S, NEW q \in Seq(S), NEW i \in 1..Len(q)
    PROVE  /\ RemoveAt(q, i) \in Seq(S)
           /\ Len(RemoveAt(q, i)) = Len(q) - 1
           /\ \A j \in 1..Len(q) - 1 :
                 RemoveAt(q, i)[j] = IF j < i THEN q[j] ELSE q[j + 1]
<1> DEFINE n == Len(q)
           f == SubSeq(q, 1, i - 1)
           g == SubSeq(q, i + 1, n)
<1>1. n \in Nat /\ i \in Int /\ 1 <= i /\ i <= n
  BY LenProperties
<1>2. \A k \in 1..n : q[k] \in S
  BY ElementOfSeq
<1>3. /\ f \in Seq(S) /\ Len(f) = i - 1
      /\ \A k \in 1..i - 1 : f[k] = q[k]
  <2>1. \A k \in 1..i - 1 : q[k] \in S
    BY <1>1, <1>2
  <2> HIDE DEF n
  <2>2. /\ f \in Seq(S) /\ Len(f) = IF 1 <= i - 1 THEN (i - 1) - 1 + 1 ELSE 0
        /\ \A k \in 1..(i - 1) - 1 + 1 : f[k] = q[1 + k - 1]
    BY <1>1, <2>1, SubSeqProperties
  <2> HIDE DEF f
  <2> QED
    BY <1>1, <2>2
<1>4. /\ g \in Seq(S) /\ Len(g) = n - i
      /\ \A k \in 1..n - i : g[k] = q[i + k]
  <2>1. \A k \in i + 1..n : q[k] \in S
    BY <1>1, <1>2
  <2> HIDE DEF n
  <2>2. /\ g \in Seq(S) /\ Len(g) = IF i + 1 <= n THEN n - (i + 1) + 1 ELSE 0
        /\ \A k \in 1..n - (i + 1) + 1 : g[k] = q[(i + 1) + k - 1]
    BY <1>1, <2>1, SubSeqProperties
  <2> HIDE DEF g
  <2> QED
    BY <1>1, <2>2
<1>5. RemoveAt(q, i) = f \o g
  BY DEF RemoveAt
<1> HIDE DEF f, g, n
<1>6. /\ f \o g \in Seq(S) /\ Len(f \o g) = Len(f) + Len(g)
      /\ \A j \in 1..Len(f) + Len(g) :
            (f \o g)[j] = IF j <= Len(f) THEN f[j] ELSE g[j - Len(f)]
  BY <1>3, <1>4, ConcatProperties
<1>7. \A j \in 1..n - 1 : (f \o g)[j] = IF j < i THEN q[j] ELSE q[j + 1]
  BY <1>1, <1>3, <1>4, <1>6
<1> QED
  BY <1>1, <1>3, <1>4, <1>5, <1>6, <1>7 DEF n
\* Has, by the records held.
LEMMA HasRange ==
    ASSUME NEW recs \in Seq(Records), NEW s
    PROVE  /\ Has(recs, s) <=> \E p \in Range(recs) : p.server = s
           /\ Has(recs, s) => At(recs, s) \in 1..Len(recs) /\ recs[At(recs, s)].server = s
<1>1. Range(recs) = {recs[i] : i \in 1..Len(recs)}
  BY RangeEquality
<1> QED
  BY <1>1 DEF Has, At

\* Taking a record out leaves every other.
LEMMA RemoveAtKept ==
    ASSUME NEW recs, WellKept(recs), NEW i \in 1..Len(recs)
    PROVE  /\ WellKept(RemoveAt(recs, i))
           /\ Len(RemoveAt(recs, i)) = Len(recs) - 1
           /\ Range(RemoveAt(recs, i)) = {p \in Range(recs) : p.server # recs[i].server}
<1> DEFINE rest == RemoveAt(recs, i)
           n == Len(recs)
<1>1. /\ recs \in Seq(Records) /\ n <= Capacity /\ Capacity \in Nat
      /\ \A j, k \in 1..n : recs[j].server = recs[k].server => j = k
  BY StoreAssumption DEF WellKept
<1>2. n \in Nat
  BY <1>1, LenProperties
<1>3. /\ rest \in Seq(Records) /\ Len(rest) = n - 1
      /\ \A j \in 1..n - 1 : rest[j] = IF j < i THEN recs[j] ELSE recs[j + 1]
  BY <1>1, RemoveAtFacts
<1>4. Range(recs) = {recs[j] : j \in 1..n}
  BY <1>1, RangeEquality
<1>5. Range(rest) = {rest[j] : j \in 1..n - 1}
  BY <1>3, RangeEquality
<1> HIDE DEF rest, n
<1>6. \A j, k \in 1..n - 1 : rest[j].server = rest[k].server => j = k
  <2> SUFFICES ASSUME NEW j \in 1..n - 1, NEW k \in 1..n - 1,
                      rest[j].server = rest[k].server
               PROVE  j = k
    OBVIOUS
  <2>1. PICK jj \in {j, j + 1} : rest[j] = recs[jj] /\ (jj = j <=> j < i)
    BY <1>3
  <2>2. PICK kk \in {k, k + 1} : rest[k] = recs[kk] /\ (kk = k <=> k < i)
    BY <1>3
  <2>3. jj \in 1..n /\ kk \in 1..n
    BY <1>2
  <2>4. jj = kk
    BY <1>1, <2>1, <2>2, <2>3
  <2> QED
    BY <1>2, <2>1, <2>2, <2>4
<1>7. Range(rest) \subseteq {p \in Range(recs) : p.server # recs[i].server}
  <2> SUFFICES ASSUME NEW j \in 1..n - 1
               PROVE  rest[j] \in Range(recs) /\ rest[j].server # recs[i].server
    BY <1>5
  <2>1. PICK jj \in {j, j + 1} : rest[j] = recs[jj] /\ (jj = j <=> j < i)
    BY <1>3
  <2>2. jj \in 1..n /\ jj # i
    BY <1>2, <2>1
  <2>3. i \in 1..n
    BY DEF n
  <2> QED
    BY <1>1, <1>4, <2>1, <2>2, <2>3
<1>8. {p \in Range(recs) : p.server # recs[i].server} \subseteq Range(rest)
  <2> SUFFICES ASSUME NEW j \in 1..n, recs[j].server # recs[i].server
               PROVE  recs[j] \in Range(rest)
    BY <1>4
  <2>1. CASE j < i
    <3>1. j \in 1..n - 1 /\ i \in 1..n  BY <1>2, <2>1 DEF n
    <3> QED  BY <1>3, <1>5, <2>1, <3>1
  <2>2. CASE j > i
    <3>1. j - 1 \in 1..n - 1 /\ ~(j - 1 < i) /\ (j - 1) + 1 = j
      <4>1. i \in 1..n  BY DEF n
      <4> QED  BY <1>2, <2>2, <4>1
    <3>2. rest[j - 1] = recs[j]  BY <1>3, <3>1
    <3> QED  BY <1>5, <3>1, <3>2
  <2>3. i \in 1..n /\ n \in Nat /\ j # i
    BY <1>2 DEF n
  <2> QED
    BY <2>1, <2>2, <2>3
<1>9. n - 1 <= Capacity
  BY <1>1, <1>2
<1>10. WellKept(rest)
  BY <1>1, <1>3, <1>6, <1>9 DEF WellKept
<1>11. Range(rest) = {p \in Range(recs) : p.server # recs[i].server}
  BY <1>7, <1>8
<1> QED
  BY <1>3, <1>10, <1>11 DEF rest, n

\* Without s, every other record and none of s.
LEMMA WithoutFacts ==
    ASSUME NEW recs, WellKept(recs), NEW s
    PROVE  /\ WellKept(Without(recs, s))
           /\ Range(Without(recs, s)) = {p \in Range(recs) : p.server # s}
           /\ ~Has(Without(recs, s), s)
           /\ Has(recs, s) => Len(Without(recs, s)) = Len(recs) - 1
<1>1. recs \in Seq(Records)
  BY DEF WellKept
<1>2. /\ WellKept(Without(recs, s))
      /\ Range(Without(recs, s)) = {p \in Range(recs) : p.server # s}
      /\ Has(recs, s) => Len(Without(recs, s)) = Len(recs) - 1
  <2>1. CASE Has(recs, s)
    <3>1. PICK i \in 1..Len(recs) : i = At(recs, s) /\ recs[i].server = s
      BY <1>1, <2>1, HasRange
    <3>2. Without(recs, s) = RemoveAt(recs, i)
      BY <2>1, <3>1 DEF Without
    <3>3. /\ WellKept(RemoveAt(recs, i))
          /\ Len(RemoveAt(recs, i)) = Len(recs) - 1
          /\ Range(RemoveAt(recs, i)) = {p \in Range(recs) : p.server # recs[i].server}
      BY RemoveAtKept
    <3> QED
      BY <2>1, <3>1, <3>2, <3>3
  <2>2. CASE ~Has(recs, s)
    BY <1>1, <2>2, HasRange DEF Without
  <2> QED
    BY <2>1, <2>2
<1>3. Without(recs, s) \in Seq(Records)
  BY <1>2 DEF WellKept
<1> QED
  BY <1>2, <1>3, HasRange
\* A record of a server that has none, where there is room.
LEMMA AppendKept ==
    ASSUME NEW recs, WellKept(recs), Len(recs) < Capacity,
           NEW e \in Records, ~Has(recs, e.server)
    PROVE  /\ WellKept(Append(recs, e))
           /\ Range(Append(recs, e)) = Range(recs) \cup {e}
           /\ Append(recs, e) # <<>>
           /\ Append(recs, e)[Len(Append(recs, e))] = e
<1> DEFINE n == Len(recs)
           more == Append(recs, e)
<1>1. /\ recs \in Seq(Records) /\ n \in Nat
      /\ \A j, k \in 1..n : recs[j].server = recs[k].server => j = k
      /\ Capacity \in Nat
  BY StoreAssumption, LenProperties DEF WellKept
<1>2. /\ more \in Seq(Records) /\ more # <<>> /\ Len(more) = n + 1
      /\ \A i \in 1..n : more[i] = recs[i]
      /\ more[n + 1] = e
  BY <1>1, AppendProperties
<1>4. \A i \in 1..n : recs[i].server # e.server
  BY DEF Has
<1> HIDE DEF more
<1>3. Range(recs) = {recs[j] : j \in 1..n} /\ Range(more) = {more[j] : j \in 1..n + 1}
  <2>1. Range(recs) = {recs[j] : j \in 1..n}
    BY <1>1, RangeEquality
  <2>2. Range(more) = {more[j] : j \in 1..Len(more)}
    BY <1>2, RangeEquality
  <2> QED
    BY <1>2, <2>1, <2>2
<1>5. n + 1 <= Capacity
  BY <1>1
<1> HIDE DEF n
<1>6. \A i \in 1..n + 1 : i \in 1..n \/ i = n + 1
  BY <1>1
<1>7. 1..n + 1 = 1..n \cup {n + 1}
  BY <1>1
<1>8. Range(more) = Range(recs) \cup {e}
  BY <1>2, <1>3, <1>7
<1>9. \A j, k \in 1..n + 1 : more[j].server = more[k].server => j = k
  BY <1>1, <1>2, <1>4, <1>6
<1>10. WellKept(more)
  BY <1>2, <1>5, <1>9 DEF WellKept
<1> QED
  BY <1>2, <1>8, <1>10 DEF more

\* touch() keeps the records and changes their order.
LEMMA TouchedFacts ==
    ASSUME NEW recs, WellKept(recs), NEW s, Has(recs, s)
    PROVE  WellKept(Touched(recs, s)) /\ Range(Touched(recs, s)) = Range(recs)
<1>1. recs \in Seq(Records) /\ Len(recs) \in Nat /\ Len(recs) <= Capacity /\ Capacity \in Nat
  BY StoreAssumption, LenProperties DEF WellKept
<1>2. PICK i \in 1..Len(recs) : i = At(recs, s) /\ recs[i].server = s
  BY <1>1, HasRange
<1>3. recs[i] \in Records /\ recs[i] \in Range(recs)
  BY <1>1, ElementOfSeq, RangeEquality
<1>4. \A p \in Range(recs) : p.server = s => p = recs[i]
  BY <1>1, <1>2, RangeEquality DEF WellKept
<1>5. /\ WellKept(Without(recs, s)) /\ ~Has(Without(recs, s), s)
      /\ Len(Without(recs, s)) = Len(recs) - 1
      /\ Range(Without(recs, s)) = {p \in Range(recs) : p.server # s}
  BY WithoutFacts
<1>6. Len(Without(recs, s)) < Capacity
  BY <1>1, <1>5
<1>7. Touched(recs, s) = Append(Without(recs, s), recs[i])
  BY <1>2 DEF Touched
<1>8. /\ WellKept(Touched(recs, s))
      /\ Range(Touched(recs, s)) = Range(Without(recs, s)) \cup {recs[i]}
  BY <1>2, <1>3, <1>5, <1>6, <1>7, AppendKept
<1> QED
  BY <1>2, <1>3, <1>4, <1>5, <1>8

\* The victim is one of the records.
LEMMA VictimInRange ==
    ASSUME NEW recs, WellKept(recs), recs # <<>>, NEW inUse
    PROVE  Victim(recs, inUse) \in 1..Len(recs)
<1>1. Len(recs) \in Nat \ {0}
  BY EmptySeq DEF WellKept
<1>2. CASE Unused(recs, inUse) = {}
  BY <1>1, <1>2 DEF Victim
<1>3. CASE Unused(recs, inUse) # {}
  <2>1. Unused(recs, inUse) \in SUBSET Nat /\ Unused(recs, inUse) \subseteq 1..Len(recs)
    BY <1>1 DEF Unused
  <2>2. \E i \in Unused(recs, inUse) : \A j \in Unused(recs, inUse) : i <= j
    BY <1>3, <2>1, FirstExists
  <2>3. Victim(recs, inUse) \in Unused(recs, inUse)
    BY <1>3, <2>2 DEF Victim
  <2> QED
    BY <2>1, <2>3
<1> QED
  BY <1>2, <1>3

\* add_record() makes room and adds: the new record is the last, the others
\* were there before.
LEMMA AddedFacts ==
    ASSUME NEW recs, WellKept(recs), NEW s \in Servers, NEW k \in Secrets, NEW inUse
    PROVE  /\ WellKept(Added(recs, s, k, inUse))
           /\ \A p \in Range(Added(recs, s, k, inUse)) : p \in Range(recs) \/ p.server = s
           /\ Added(recs, s, k, inUse) # <<>>
<1> DEFINE others == Without(recs, s)
           kept   == IF Len(others) < Capacity THEN others
                     ELSE RemoveAt(others, Victim(others, inUse))
           e      == [server |-> s, secret |-> k]
<1>1. /\ WellKept(others) /\ ~Has(others, s)
      /\ \A p \in Range(others) : p \in Range(recs) /\ p.server # s
  BY WithoutFacts
<1>2. others \in Seq(Records) /\ Len(others) \in Nat /\ Len(others) <= Capacity
  BY <1>1, LenProperties DEF WellKept
<1>3. e \in Records /\ e.server = s
  BY DEF Records
<1>4. Added(recs, s, k, inUse) = Append(kept, e)
  BY DEF Added
<1> HIDE DEF others, e
<1>5. /\ WellKept(kept) /\ Len(kept) < Capacity
      /\ \A p \in Range(kept) : p \in Range(recs) /\ p.server # s
  <2>1. CASE Len(others) < Capacity
    BY <1>1, <2>1
  <2>2. CASE ~(Len(others) < Capacity)
    <3>1. Len(others) = Capacity /\ Capacity \in Nat \ {0}
      BY <1>2, <2>2, StoreAssumption
    <3>2. others # <<>>
      BY <3>1, EmptySeq
    <3>3. PICK v \in 1..Len(others) : v = Victim(others, inUse)
      BY <1>1, <3>2, VictimInRange
    <3>4. kept = RemoveAt(others, v)
      BY <2>2, <3>3
    <3> HIDE DEF kept
    <3>5. /\ WellKept(kept) /\ Len(kept) = Len(others) - 1
          /\ Range(kept) \subseteq Range(others)
      BY <1>1, <3>4, RemoveAtKept
    <3> QED
      BY <1>1, <3>1, <3>5
  <2> QED
    BY <2>1, <2>2
<1> HIDE DEF kept
<1>6. ~Has(kept, s)
  <2>1. kept \in Seq(Records)  BY <1>5 DEF WellKept
  <2> QED  BY <1>5, <2>1, HasRange
<1>7. /\ WellKept(Append(kept, e)) /\ Append(kept, e) # <<>>
      /\ Range(Append(kept, e)) = Range(kept) \cup {e}
  BY <1>3, <1>5, <1>6, AppendKept
<1> QED
  BY <1>3, <1>4, <1>5, <1>7

Awaits(b) == b \in Range(call.left)

\* Only a boot finds a key missing, and it writes them first.  While one is
\* missing nothing is paired.
KeysFirst ==
    /\ call.op \notin {"down", "load"} => flash.identity # NoKey /\ flash.psk # NoKey
    /\ call.op = "load" /\ ~Awaits("identity") => flash.identity # NoKey
    /\ call.op = "load" /\ ~Awaits("psk") => flash.psk # NoKey
    /\ call.op \in {"load", "forget"} => ram.identity # NoKey /\ ram.psk # NoKey
    /\ flash.identity = NoKey \/ flash.psk = NoKey \/ call.op = "load" => paired = {}
    /\ call.op \in {"add", "save", "remove"} => ~Awaits("identity") /\ ~Awaits("psk")

\* FlashFollows, in the middle of a call too.
Follows ==
    call.op # "down" =>
        \A b \in {"identity", "psk", "records", "last"} :
            b \in behind \/ Awaits(b) \/ flash[b] = ram[b]

\* What an add writes is the record its caller is told of.
AddLast ==
    call.op = "add" => call.left = <<"records">> /\ ram.records # <<>>

PairedInBoth ==
    /\ PairedIsKept
    /\ call.op # "down" => \A p \in paired : p \in Range(ram.records)

\* What was removed does not come back through RAM or the names being written.
StaysGone ==
    /\ RemovedIsGone
    /\ call.op # "down" =>
          \A s \in removed :
              /\ ~Has(ram.records, s) /\ ram.last # s
              /\ Awaits("names") => s \notin call.names

\* Nothing of s is in RAM; in flash, at most what is yet to be written.
Going(s) ==
    /\ ~Has(ram.records, s) /\ ram.last # s /\ s \notin call.names
    /\ Awaits("records") \/ ~Has(flash.records, s)
    /\ Awaits("names") \/ s \notin flash.names

RemovesAll ==
    /\ call.op = "remove" => call.server \in Servers
    /\ call.op = "remove" /\ call.ok => Going(call.server)
    /\ call.op = "forget" =>
          /\ call.ok /\ paired = {}
          /\ \A s \in Servers : Going(s)

StoreInv ==
    /\ StoreTypeOK
    /\ KeysFirst /\ Follows /\ AddLast
    /\ PairedInBoth /\ StaysGone /\ RemovesAll

\* What the calls begin to write.
LEMMA PlanFacts ==
    /\ <<>> \in Seq(Blobs) /\ Range(<<>>) = {}
    /\ \A b \in Blobs : <<b>> \in Seq(Blobs) /\ <<b>> # <<>> /\ Range(<<b>>) = {b}
    /\ AllBlobs \in Seq(Blobs) /\ AllBlobs # <<>> /\ Range(AllBlobs) = Blobs
<1>1. <<>> \in Seq(Blobs) /\ Range(<<>>) = {}
  BY DEF Range
<1>2. \A b \in Blobs : <<b>> \in Seq(Blobs) /\ <<b>> # <<>> /\ Range(<<b>>) = {b}
  BY DEF Range
<1>3. AllBlobs \in Seq(Blobs) /\ AllBlobs # <<>> /\ Range(AllBlobs) = Blobs
  BY DEF Range, AllBlobs, Blobs
<1> QED
  BY <1>1, <1>2, <1>3

\* The blob to be written next, and those after it.
LEMMA LeftFacts ==
    ASSUME StoreTypeOK, call.left # <<>>
    PROVE  /\ Blob \in Blobs
           /\ Tail(call.left) \in Seq(Blobs)
           /\ Range(call.left) = {Blob} \cup Range(Tail(call.left))
           /\ Range(call.left) \subseteq Blobs
           /\ Len(call.left) = 1 <=> Tail(call.left) = <<>>
<1> DEFINE q == call.left
           n == Len(q)
<1>1. q \in Seq(Blobs)
  BY DEF StoreTypeOK
<1>2. n \in Nat \ {0} /\ q \in [1..n -> Blobs]
  BY <1>1, EmptySeq, LenProperties
<1>3. /\ Head(q) = q[1] /\ Head(q) \in Blobs /\ Tail(q) \in Seq(Blobs) /\ Len(Tail(q)) = n - 1
      /\ \A i \in 1..n - 1 : Tail(q)[i] = q[i + 1]
  BY <1>1, HeadTailProperties
<1>4. Range(q) = {q[i] : i \in 1..n}
  BY <1>1, RangeEquality
<1>5. Range(Tail(q)) = {Tail(q)[i] : i \in 1..n - 1}
  <2> DEFINE r == Tail(q)
  <2>1. r \in Seq(Blobs) /\ Len(r) = n - 1
    BY <1>3
  <2> HIDE DEF r, n
  <2>2. Range(r) = {r[i] : i \in 1..n - 1}
    BY <2>1, RangeEquality
  <2> QED
    BY <2>2 DEF r
<1> HIDE DEF n, q
<1>6. \A i \in 1..n : i = 1 \/ (i - 1 \in 1..n - 1 /\ (i - 1) + 1 = i)
  BY <1>2
<1>7. \A i \in 1..n - 1 : i + 1 \in 1..n
  BY <1>2
<1>8. Range(q) \subseteq {Head(q)} \cup Range(Tail(q))
  BY <1>3, <1>4, <1>5, <1>6
<1>9. {Head(q)} \cup Range(Tail(q)) \subseteq Range(q)
  BY <1>2, <1>3, <1>4, <1>5, <1>7
<1>10. n = 1 <=> Tail(q) = <<>>
  BY <1>2, <1>3, EmptySeq
<1>11. Range(q) \subseteq Blobs
  BY <1>1, RangeOfSeq
<1> QED
  BY <1>3, <1>8, <1>9, <1>10, <1>11 DEF Blob, n, q

\* The type of a call that has begun.
CallType ==
    /\ call \in [op : Ops, server : ServerOrNone, left : Seq(Blobs),
                 names : SUBSET Servers, ok : BOOLEAN]
    /\ (call.left = <<>>) = (call.op \in {"down", "idle"})

LEMMA BegunType ==
    ASSUME NEW op \in Ops \ {"down", "idle"}, NEW s \in ServerOrNone,
           NEW left \in Seq(Blobs), left # <<>>,
           NEW names \in SUBSET Servers, NEW ok \in BOOLEAN,
           call' = [op |-> op, server |-> s, left |-> left, names |-> names, ok |-> ok]
    PROVE  CallType'
BY DEF CallType

LEMMA InitInv == Init => StoreInv
<1> SUFFICES ASSUME Init PROVE StoreInv
  OBVIOUS
<1>1. <<>> \in Seq(Records) /\ Len(<<>>) = 0 /\ Capacity \in Nat /\ Capacity >= 0
  BY StoreAssumption
<1>2. WellKept(<<>>)
  BY <1>1 DEF WellKept
<1>3. StoreTypeOK
  BY <1>1, <1>2, PlanFacts DEF Init, StoreTypeOK, Blank, Down, KeyOrNone, ServerOrNone, Ops
<1> QED
  BY <1>3 DEF Init, StoreInv, KeysFirst, Follows, AddLast, PairedInBoth, PairedIsKept,
              StaysGone, RemovedIsGone, RemovesAll, Down

LEMMA LoadKeeps == ASSUME StoreInv, Load PROVE StoreInv'
<1>1. StoreTypeOK'
  BY PlanFacts DEF StoreInv, StoreTypeOK, Load, Idle, Down, Ops, KeyOrNone, ServerOrNone
<1>2. ~Awaits("names")'
  BY PlanFacts DEF Load, Idle, Down, Awaits
<1>3. KeysFirst' /\ AddLast' /\ RemovesAll'
  BY <1>2 DEF StoreInv, KeysFirst, AddLast, RemovesAll, Load, Idle, Down
<1>4. Follows'
  BY DEF Follows, Load
<1>5. PairedInBoth' /\ StaysGone'
  BY <1>2 DEF StoreInv, PairedInBoth, PairedIsKept, StaysGone, RemovedIsGone, Load, Has
<1> QED
  BY <1>1, <1>3, <1>4, <1>5 DEF StoreInv

\* No record of anyone, and none more than fits.
LEMMA NoRecords ==
    /\ <<>> \in Seq(Records) /\ WellKept(<<>>) /\ Range(<<>>) = {}
    /\ \A s : ~Has(<<>>, s)
<1>1. <<>> \in Seq(Records) /\ Len(<<>>) = 0 /\ Capacity \in Nat /\ Capacity >= 0
  BY StoreAssumption
<1> QED
  BY <1>1, PlanFacts DEF WellKept, Has

LEMMA FreshKeys == ASSUME NEW k \in Fresh PROVE k \in Keys /\ k # NoKey
BY StoreAssumption DEF Fresh

LEMMA LoadNewKeeps == ASSUME StoreInv, LoadNew PROVE StoreInv'
<1>1. PICK k \in Keys \ {NoKey} :
          ram' = [identity |-> k, psk |-> k, records |-> <<>>, last |-> NoServer]
  BY FreshKeys DEF LoadNew
<1>2. /\ call' = [op |-> "load", server |-> NoServer, left |-> AllBlobs, names |-> {}, ok |-> TRUE]
      /\ UNCHANGED <<flash, behind, removed>>
      /\ paired' = {}
  BY DEF LoadNew, Goes
<1>3. StoreTypeOK'
  BY <1>1, <1>2, PlanFacts, NoRecords
     DEF StoreInv, StoreTypeOK, Ops, KeyOrNone, ServerOrNone
<1>4. \A b \in Blobs : Awaits(b)'
  BY <1>2, PlanFacts DEF Awaits
<1>5. KeysFirst' /\ AddLast' /\ RemovesAll' /\ Follows'
  BY <1>1, <1>2, <1>4 DEF KeysFirst, AddLast, RemovesAll, Follows, Blobs
<1>6. PairedInBoth'
  BY <1>2 DEF PairedInBoth, PairedIsKept
<1>7. StaysGone'
  <2>1. \A s \in removed : s # NoServer
    BY StoreAssumption DEF StoreInv, StoreTypeOK
  <2> QED
    BY <1>1, <1>2, <2>1, NoRecords DEF StoreInv, StaysGone, RemovedIsGone, Has
<1> QED
  BY <1>3, <1>5, <1>6, <1>7 DEF StoreInv

\* What holds when no call is under way.
LEMMA WhenIdle ==
    ASSUME StoreInv, call = Idle
    PROVE  /\ \A b : ~Awaits(b)
           /\ flash.identity # NoKey /\ flash.psk # NoKey
           /\ \A b \in {"identity", "psk", "records", "last"} : b \in behind \/ flash[b] = ram[b]
           /\ \A p \in paired : p \in Range(flash.records) /\ p \in Range(ram.records)
           /\ \A s \in removed :
                 /\ ~Has(flash.records, s) /\ s \notin flash.names /\ flash.last # s
                 /\ ~Has(ram.records, s) /\ ram.last # s /\ s \in Servers /\ s # NoServer
<1>1. \A b : ~Awaits(b)
  BY PlanFacts DEF Awaits, Idle, Down
<1>2. \A s \in removed : s \in Servers /\ s # NoServer
  BY StoreAssumption DEF StoreInv, StoreTypeOK
<1> QED
  BY <1>1, <1>2 DEF StoreInv, KeysFirst, Follows, PairedInBoth, PairedIsKept,
                   StaysGone, RemovedIsGone, Idle, Down

LEMMA AddRecordKeeps ==
    ASSUME StoreInv, NEW s \in Servers, NEW k \in Secrets, NEW inUse,
           AddRecord(s, k, inUse)
    PROVE  StoreInv'
<1> DEFINE new == Added(ram.records, s, k, inUse)
<1>1. WellKept(ram.records)
  BY DEF StoreInv, StoreTypeOK
<1>2. /\ WellKept(new) /\ new # <<>>
      /\ \A p \in Range(new) : p \in Range(ram.records) \/ p.server = s
  BY <1>1, AddedFacts
<1>3. /\ call = Idle
      /\ ram' = [ram EXCEPT !.records = new]
      /\ call' = [op |-> "add", server |-> s, left |-> <<"records">>, names |-> {}, ok |-> TRUE]
      /\ paired' = {p \in paired : p \in Range(ram'.records)}
      /\ removed' = removed \ {s}
      /\ UNCHANGED <<flash, behind>>
  BY DEF AddRecord, Goes
<1> HIDE DEF new
<1>4. /\ ram'.records = new /\ ram'.identity = ram.identity /\ ram'.psk = ram.psk
      /\ ram'.last = ram.last
      /\ new \in Seq(Records) /\ ram.records \in Seq(Records)
  BY <1>1, <1>2, <1>3 DEF StoreInv, StoreTypeOK, WellKept
<1>5. StoreTypeOK'
  <2>1. "add" \in Ops \ {"down", "idle"} /\ s \in ServerOrNone /\ <<"records">> \in Seq(Blobs)
        /\ <<"records">> # <<>>
    BY PlanFacts DEF Ops, ServerOrNone, Blobs
  <2>2. CallType'
    BY <1>3, <2>1, BegunType
  <2>3. ram' \in [identity : KeyOrNone, psk : KeyOrNone, records : Seq(Records), last : ServerOrNone]
    BY <1>3, <1>4 DEF StoreInv, StoreTypeOK
  <2> QED
    BY <1>2, <1>3, <1>4, <2>2, <2>3 DEF StoreInv, StoreTypeOK, CallType
<1>6. \A b : Awaits(b)' <=> b = "records"
  BY <1>3, PlanFacts DEF Awaits, Blobs
<1>7. KeysFirst' /\ AddLast' /\ RemovesAll'
  BY <1>2, <1>3, <1>4, <1>6, WhenIdle DEF KeysFirst, AddLast, RemovesAll
<1>8. Follows'
  BY <1>3, <1>4, <1>6, WhenIdle DEF Follows
<1>9. PairedInBoth'
  BY <1>3, WhenIdle DEF PairedInBoth, PairedIsKept
<1>10. \A t \in removed' : ~Has(new, t)
  BY <1>2, <1>3, <1>4, WhenIdle, HasRange
<1>11. StaysGone'
  BY <1>3, <1>4, <1>6, <1>10, WhenIdle DEF StaysGone, RemovedIsGone
<1> QED
  BY <1>5, <1>7, <1>8, <1>9, <1>11 DEF StoreInv

LEMMA TouchKeeps ==
    ASSUME StoreInv, NEW s \in Servers, Touch(s)
    PROVE  StoreInv'
<1> DEFINE new == Touched(ram.records, s)
<1>1. WellKept(ram.records) /\ Has(ram.records, s)
  BY DEF StoreInv, StoreTypeOK, Touch
<1>2. WellKept(new) /\ Range(new) = Range(ram.records)
  BY <1>1, TouchedFacts
<1>3. /\ call = Idle
      /\ ram' = [ram EXCEPT !.records = new]
      /\ call' = [op |-> "save", server |-> s, left |-> <<"records">>, names |-> {}, ok |-> TRUE]
      /\ UNCHANGED <<flash, behind, paired, removed>>
  BY DEF Touch, Goes
<1> HIDE DEF new
<1>4. /\ ram'.records = new /\ ram'.identity = ram.identity /\ ram'.psk = ram.psk
      /\ ram'.last = ram.last
      /\ new \in Seq(Records) /\ ram.records \in Seq(Records)
  BY <1>1, <1>2, <1>3 DEF StoreInv, StoreTypeOK, WellKept
<1>5. StoreTypeOK'
  <2>1. "save" \in Ops \ {"down", "idle"} /\ s \in ServerOrNone /\ <<"records">> \in Seq(Blobs)
        /\ <<"records">> # <<>>
    BY PlanFacts DEF Ops, ServerOrNone, Blobs
  <2>2. CallType'
    BY <1>3, <2>1, BegunType
  <2>3. ram' \in [identity : KeyOrNone, psk : KeyOrNone, records : Seq(Records), last : ServerOrNone]
    BY <1>3, <1>4 DEF StoreInv, StoreTypeOK
  <2> QED
    BY <1>2, <1>3, <1>4, <2>2, <2>3 DEF StoreInv, StoreTypeOK, CallType
<1>6. \A b : Awaits(b)' <=> b = "records"
  BY <1>3, PlanFacts DEF Awaits, Blobs
<1>7. KeysFirst' /\ AddLast' /\ RemovesAll'
  BY <1>3, <1>4, <1>6, WhenIdle DEF KeysFirst, AddLast, RemovesAll
<1>8. Follows'
  BY <1>3, <1>4, <1>6, WhenIdle DEF Follows
<1>9. PairedInBoth'
  BY <1>2, <1>3, <1>4, WhenIdle DEF PairedInBoth, PairedIsKept
<1>10. \A t \in removed : ~Has(new, t)
  BY <1>2, <1>4, WhenIdle, <1>3, HasRange
<1>11. StaysGone'
  BY <1>3, <1>4, <1>6, <1>10, WhenIdle DEF StaysGone, RemovedIsGone
<1> QED
  BY <1>5, <1>7, <1>8, <1>9, <1>11 DEF StoreInv

LEMMA SetNameKeeps ==
    ASSUME StoreInv, NEW s \in Servers, SetName(s)
    PROVE  StoreInv'
<1> DEFINE names == {n \in flash.names : Has(ram.records, n)} \cup {s}
<1>1. /\ call = Idle /\ Has(ram.records, s)
      /\ call' = [op |-> "save", server |-> s, left |-> <<"names">>, names |-> names, ok |-> TRUE]
      /\ UNCHANGED <<ram, flash, behind, paired, removed>>
  BY DEF SetName, Goes
<1>2. names \in SUBSET Servers
  BY DEF StoreInv, StoreTypeOK
<1>3. \A t \in removed : t \notin names
  BY <1>1, WhenIdle
<1> HIDE DEF names
<1>4. StoreTypeOK'
  BY <1>1, <1>2, PlanFacts DEF StoreInv, StoreTypeOK, Ops, ServerOrNone, Blobs
<1>5. \A b : Awaits(b)' <=> b = "names"
  BY <1>1, PlanFacts DEF Awaits, Blobs
<1>6. KeysFirst' /\ AddLast' /\ RemovesAll'
  BY <1>1, <1>5, WhenIdle DEF KeysFirst, AddLast, RemovesAll
<1>7. Follows'
  BY <1>1, <1>5, WhenIdle DEF Follows
<1>8. PairedInBoth' /\ StaysGone'
  BY <1>1, <1>3, WhenIdle DEF PairedInBoth, PairedIsKept, StaysGone, RemovedIsGone
<1> QED
  BY <1>4, <1>6, <1>7, <1>8 DEF StoreInv

LEMMA SetLastPlaybackKeeps ==
    ASSUME StoreInv, NEW s \in Servers, SetLastPlayback(s)
    PROVE  StoreInv'
<1>1. /\ call = Idle
      /\ ram' = [ram EXCEPT !.last = s]
      /\ call' = [op |-> "save", server |-> s, left |-> <<"last">>, names |-> {}, ok |-> TRUE]
      /\ removed' = removed \ {s}
      /\ UNCHANGED <<flash, behind, paired>>
  BY DEF SetLastPlayback, Goes
<1>2. /\ ram'.records = ram.records /\ ram'.identity = ram.identity /\ ram'.psk = ram.psk
      /\ ram'.last = s
  BY <1>1 DEF StoreInv, StoreTypeOK
<1>3. StoreTypeOK'
  <2>1. "save" \in Ops \ {"down", "idle"} /\ s \in ServerOrNone /\ <<"last">> \in Seq(Blobs)
        /\ <<"last">> # <<>>
    BY PlanFacts DEF Ops, ServerOrNone, Blobs
  <2>2. CallType'
    BY <1>1, <2>1, BegunType
  <2>3. ram' \in [identity : KeyOrNone, psk : KeyOrNone, records : Seq(Records), last : ServerOrNone]
    BY <1>1, <2>1 DEF StoreInv, StoreTypeOK
  <2> QED
    BY <1>1, <1>2, <2>2, <2>3 DEF StoreInv, StoreTypeOK, CallType
<1>4. \A b : Awaits(b)' <=> b = "last"
  BY <1>1, PlanFacts DEF Awaits, Blobs
<1>5. KeysFirst' /\ AddLast' /\ RemovesAll'
  BY <1>1, <1>2, <1>4, WhenIdle DEF KeysFirst, AddLast, RemovesAll
<1>6. Follows'
  BY <1>1, <1>2, <1>4, WhenIdle DEF Follows
<1>7. PairedInBoth' /\ StaysGone'
  BY <1>1, <1>2, <1>4, WhenIdle DEF PairedInBoth, PairedIsKept, StaysGone, RemovedIsGone
<1> QED
  BY <1>3, <1>5, <1>6, <1>7 DEF StoreInv

\* What remove_record() begins to write.
LEMMA RemovalPlan ==
    ASSUME NEW n \in Seq(Blobs), NEW l \in Seq(Blobs)
    PROVE  /\ <<"records">> \o n \o l \in Seq(Blobs)
           /\ <<"records">> \o n \o l # <<>>
           /\ Range(<<"records">> \o n \o l) = {"records"} \cup Range(n) \cup Range(l)
<1> DEFINE r == <<"records">>
           rn == r \o n
<1>1. r \in Seq(Blobs) /\ Len(r) = 1 /\ Range(r) = {"records"}
  BY PlanFacts DEF Blobs
<1> HIDE DEF r
<1>2. rn \in Seq(Blobs) /\ Len(rn) = Len(r) + Len(n)
  BY <1>1, ConcatProperties
<1>3. Range(rn) = Range(r) \cup Range(n)
  BY <1>1, RangeConcatenation
<1> HIDE DEF rn
<1>4. rn \o l \in Seq(Blobs) /\ Len(rn \o l) = Len(rn) + Len(l)
  BY <1>2, ConcatProperties
<1>5. Range(rn \o l) = Range(rn) \cup Range(l)
  BY <1>2, RangeConcatenation
<1>6. Len(n) \in Nat /\ Len(l) \in Nat
  BY LenProperties
<1>7. Len(rn \o l) # 0
  BY <1>1, <1>2, <1>4, <1>6
<1>8. rn \o l # <<>>
  BY <1>7, EmptySeq
<1> QED
  BY <1>1, <1>3, <1>4, <1>5, <1>8 DEF r, rn

LEMMA RemoveRecordKeeps ==
    ASSUME StoreInv, NEW s \in Servers, RemoveRecord(s)
    PROVE  StoreInv'
<1> DEFINE new == Without(ram.records, s)
           names == flash.names \ {s}
           last == IF ram.last = s THEN NoServer ELSE ram.last
<1>1. WellKept(ram.records)
  BY DEF StoreInv, StoreTypeOK
<1>2. /\ WellKept(new) /\ ~Has(new, s)
      /\ Range(new) = {p \in Range(ram.records) : p.server # s}
  BY <1>1, WithoutFacts
<1>2a. PICK readable \in BOOLEAN :
          call' = [op |-> "remove", server |-> s,
                   left |-> <<"records">>
                                \o (IF readable /\ s \in flash.names THEN <<"names">> ELSE <<>>)
                                \o (IF ram.last = s THEN <<"last">> ELSE <<>>),
                   names |-> names, ok |-> readable]
  BY DEF RemoveRecord, Goes
<1> DEFINE left == <<"records">>
                       \o (IF readable /\ s \in flash.names THEN <<"names">> ELSE <<>>)
                       \o (IF ram.last = s THEN <<"last">> ELSE <<>>)
<1>3. /\ left = <<"records">>
                    \o (IF readable /\ s \in flash.names THEN <<"names">> ELSE <<>>)
                    \o (IF ram.last = s THEN <<"last">> ELSE <<>>)
      /\ call' = [op |-> "remove", server |-> s, left |-> left, names |-> names, ok |-> readable]
  BY <1>2a
<1> HIDE DEF left
<1>4. /\ call = Idle
      /\ ram' = [ram EXCEPT !.records = new, !.last = last]
      /\ paired' = {p \in paired : p.server # s}
      /\ UNCHANGED <<flash, behind, removed>>
  BY DEF RemoveRecord
<1>5. /\ left \in Seq(Blobs) /\ left # <<>>
      /\ \A b : b \in Range(left) <=>
             b = "records" \/ (readable /\ s \in flash.names /\ b = "names")
                           \/ (ram.last = s /\ b = "last")
  <2> DEFINE n == IF readable /\ s \in flash.names THEN <<"names">> ELSE <<>>
             l == IF ram.last = s THEN <<"last">> ELSE <<>>
  <2>1. n \in Seq(Blobs) /\ Range(n) = IF readable /\ s \in flash.names THEN {"names"} ELSE {}
    BY PlanFacts DEF Blobs
  <2>2. l \in Seq(Blobs) /\ Range(l) = IF ram.last = s THEN {"last"} ELSE {}
    BY PlanFacts DEF Blobs
  <2>3. left = <<"records">> \o n \o l
    BY <1>3
  <2> HIDE DEF n, l
  <2>4. /\ left \in Seq(Blobs) /\ left # <<>>
        /\ Range(left) = {"records"} \cup Range(n) \cup Range(l)
    BY <2>1, <2>2, <2>3, RemovalPlan
  <2> QED
    BY <2>1, <2>2, <2>4
<1>6. s # NoServer
  BY StoreAssumption
<1> HIDE DEF new
<1>7. /\ ram'.records = new /\ ram'.identity = ram.identity /\ ram'.psk = ram.psk
      /\ ram'.last = last /\ last # s
      /\ new \in Seq(Records) /\ ram.records \in Seq(Records)
  BY <1>1, <1>2, <1>4, <1>6 DEF StoreInv, StoreTypeOK, WellKept
<1>8. names \in SUBSET Servers /\ s \notin names /\ last \in ServerOrNone
  BY DEF StoreInv, StoreTypeOK, ServerOrNone
<1>9. \A t \in removed : t \notin names /\ last # t
  BY <1>4, WhenIdle
<1> HIDE DEF names, last
<1>11. StoreTypeOK'
  <2>1. "remove" \in Ops \ {"down", "idle"} /\ s \in ServerOrNone
    BY DEF Ops, ServerOrNone
  <2>2. CallType'
    BY <1>3, <1>5, <1>8, <2>1, BegunType
  <2>3. ram' \in [identity : KeyOrNone, psk : KeyOrNone, records : Seq(Records), last : ServerOrNone]
    BY <1>4, <1>7, <1>8 DEF StoreInv, StoreTypeOK
  <2> QED
    BY <1>2, <1>4, <1>7, <2>2, <2>3 DEF StoreInv, StoreTypeOK, CallType
<1>12. \A b : Awaits(b)' <=> b \in Range(left)
  BY <1>3 DEF Awaits
<1>13. KeysFirst' /\ AddLast'
  BY <1>3, <1>4, <1>5, <1>12, WhenIdle DEF KeysFirst, AddLast
<1>14. Follows'
  BY <1>4, <1>5, <1>7, <1>12, WhenIdle DEF Follows, last
<1>15. PairedInBoth'
  BY <1>2, <1>4, <1>7, WhenIdle DEF PairedInBoth, PairedIsKept
<1>16. \A t \in removed : ~Has(new, t)
  BY <1>2, <1>4, <1>7, WhenIdle, HasRange
<1>17. StaysGone'
  BY <1>3, <1>4, <1>7, <1>9, <1>16, WhenIdle DEF StaysGone, RemovedIsGone
<1>18. RemovesAll'
  <2>1. readable => Going(s)'
    BY <1>2, <1>3, <1>4, <1>5, <1>7, <1>8, <1>12 DEF Going
  <2> QED
    BY <1>3, <2>1 DEF RemovesAll
<1> QED
  BY <1>11, <1>13, <1>14, <1>15, <1>17, <1>18 DEF StoreInv

LEMMA ForgetKeeps == ASSUME StoreInv, Forget PROVE StoreInv'
<1>1. PICK k \in Keys \ {NoKey} :
          ram' = [identity |-> k, psk |-> k, records |-> <<>>, last |-> NoServer]
  BY FreshKeys DEF Forget
<1>2. /\ call = Idle
      /\ call' = [op |-> "forget", server |-> NoServer, left |-> AllBlobs, names |-> {}, ok |-> TRUE]
      /\ paired' = {}
      /\ UNCHANGED <<flash, behind, removed>>
  BY DEF Forget, Goes
<1>3. StoreTypeOK'
  <2>1. "forget" \in Ops \ {"down", "idle"} /\ NoServer \in ServerOrNone
    BY DEF Ops, ServerOrNone
  <2>2. CallType'
    BY <1>2, <2>1, PlanFacts, BegunType
  <2>3. ram' \in [identity : KeyOrNone, psk : KeyOrNone, records : Seq(Records), last : ServerOrNone]
    BY <1>1, NoRecords DEF KeyOrNone, ServerOrNone
  <2> QED
    BY <1>1, <1>2, <2>2, <2>3, NoRecords DEF StoreInv, StoreTypeOK, CallType
<1>4. \A b \in Blobs : Awaits(b)'
  BY <1>2, PlanFacts DEF Awaits
<1>5. \A t \in Servers : t # NoServer
  BY StoreAssumption
<1>6. KeysFirst' /\ AddLast' /\ Follows' /\ PairedInBoth'
  BY <1>1, <1>2, <1>4, WhenIdle
     DEF KeysFirst, AddLast, Follows, PairedInBoth, PairedIsKept, Blobs
<1>7. StaysGone'
  BY <1>1, <1>2, WhenIdle, NoRecords DEF StaysGone, RemovedIsGone
<1>8. RemovesAll'
  BY <1>1, <1>2, <1>4, <1>5, NoRecords DEF RemovesAll, Going, Blobs
<1> QED
  BY <1>3, <1>6, <1>7, <1>8 DEF StoreInv

LEMMA ForgetFailsKeeps == ASSUME StoreInv, ForgetFails PROVE StoreInv'
<1>1. /\ call = Idle
      /\ ram' = [ram EXCEPT !.records = <<>>, !.last = NoServer]
      /\ behind' = behind \cup {"records", "last"}
      /\ paired' = {}
      /\ UNCHANGED <<flash, call, removed>>
  BY DEF ForgetFails
<1>2. /\ ram'.records = <<>> /\ ram'.identity = ram.identity /\ ram'.psk = ram.psk
      /\ ram'.last = NoServer
  BY <1>1 DEF StoreInv, StoreTypeOK
<1>3. StoreTypeOK'
  <2>1. ram' \in [identity : KeyOrNone, psk : KeyOrNone, records : Seq(Records), last : ServerOrNone]
    BY <1>1, NoRecords DEF StoreInv, StoreTypeOK, ServerOrNone
  <2> QED
    BY <1>1, <1>2, <2>1, NoRecords DEF StoreInv, StoreTypeOK, Blobs
<1>4. \A b : ~Awaits(b)'
  BY <1>1, WhenIdle DEF Awaits
<1>5. call'.op = "idle"
  BY <1>1 DEF Idle, Down
<1>6. KeysFirst' /\ AddLast' /\ Follows' /\ PairedInBoth' /\ RemovesAll'
  BY <1>1, <1>2, <1>4, <1>5, WhenIdle
     DEF KeysFirst, AddLast, Follows, PairedInBoth, PairedIsKept, RemovesAll
<1>7. StaysGone'
  BY <1>1, <1>2, <1>4, WhenIdle, NoRecords DEF StaysGone, RemovedIsGone
<1> QED
  BY <1>3, <1>6, <1>7 DEF StoreInv

LEMMA PowerLossKeeps == ASSUME StoreInv, PowerLoss PROVE StoreInv'
<1>1. /\ call' = Down /\ ram' = Blank /\ behind' = {}
      /\ UNCHANGED <<flash, paired, removed>>
  BY DEF PowerLoss
<1>2. StoreTypeOK'
  BY <1>1, NoRecords, PlanFacts
     DEF StoreInv, StoreTypeOK, Blank, Down, KeyOrNone, ServerOrNone, Ops
<1>3. call'.op = "down"
  BY <1>1 DEF Down
<1>4. KeysFirst' /\ Follows' /\ AddLast' /\ PairedInBoth' /\ StaysGone' /\ RemovesAll'
  BY <1>1, <1>3 DEF StoreInv, KeysFirst, Follows, AddLast, PairedInBoth, PairedIsKept,
                    StaysGone, RemovedIsGone, RemovesAll
<1> QED
  BY <1>2, <1>4 DEF StoreInv

\* A call that returns leaves the store idle, or not loaded.
LEMMA ReturnsEffect ==
    ASSUME NEW ok, NEW late, Returns(ok, late)
    PROVE  /\ CallType' /\ \A b : ~Awaits(b)'
           /\ \/ call'.op = "idle" /\ ram' = ram
                 /\ ~(call.op = "load" /\ Blob \in {"identity", "psk"})
              \/ call'.op = "down" /\ ram' = Blank /\ call.op = "load"
<1>1. /\ call' = IF call.op = "load" /\ Blob \in {"identity", "psk"} THEN Down ELSE Idle
      /\ ram' = IF call' = Down THEN Blank ELSE ram
  BY DEF Returns
<1>2. /\ Down.op = "down" /\ Down.left = <<>> /\ Idle.op = "idle" /\ Idle.left = <<>>
      /\ Down \in [op : Ops, server : ServerOrNone, left : Seq(Blobs),
                   names : SUBSET Servers, ok : BOOLEAN]
      /\ Idle \in [op : Ops, server : ServerOrNone, left : Seq(Blobs),
                   names : SUBSET Servers, ok : BOOLEAN]
  BY PlanFacts DEF Down, Idle, Ops, ServerOrNone
<1>3. call'.left = <<>> /\ CallType'
  BY <1>1, <1>2 DEF CallType
<1>4. \A b : ~Awaits(b)'
  BY <1>3, PlanFacts DEF Awaits
<1>5. Down # Idle
  BY <1>2
<1> HIDE DEF Down, Idle
<1> QED
  BY <1>1, <1>2, <1>3, <1>4, <1>5

\* A call that goes on has one blob less to write.
LEMMA GoesOnEffect ==
    ASSUME StoreInv, call.left # <<>>, Len(call.left) # 1, NEW ok \in BOOLEAN, GoesOn(ok)
    PROVE  /\ CallType' /\ call'.ok = ok
           /\ call'.op = call.op /\ call'.server = call.server /\ call'.names = call.names
           /\ \A b : Awaits(b) <=> b = Blob \/ Awaits(b)'
           /\ UNCHANGED <<ram, paired, removed>>
<1>1. /\ call' = [call EXCEPT !.left = Tail(call.left), !.ok = ok]
      /\ UNCHANGED <<ram, paired, removed>>
  BY DEF GoesOn
<1>2. StoreTypeOK
  BY DEF StoreInv
<1>3. /\ Tail(call.left) \in Seq(Blobs) /\ Tail(call.left) # <<>>
      /\ Range(call.left) = {Blob} \cup Range(Tail(call.left))
  BY <1>2, LeftFacts
<1>4. /\ call'.left = Tail(call.left) /\ call'.ok = ok
      /\ call'.op = call.op /\ call'.server = call.server /\ call'.names = call.names
  BY <1>1, <1>2 DEF StoreTypeOK
<1>5. CallType'
  BY <1>1, <1>2, <1>3, <1>4 DEF StoreTypeOK, CallType
<1>6. \A b : Awaits(b) <=> b = Blob \/ Awaits(b)'
  BY <1>3, <1>4 DEF Awaits
<1> QED
  BY <1>1, <1>4, <1>5, <1>6

\* Of a call with one blob left, that is the one.
LEMMA LastLeft ==
    ASSUME StoreInv, call.left # <<>>, Len(call.left) = 1
    PROVE  \A b : Awaits(b) <=> b = Blob
BY LeftFacts, PlanFacts DEF StoreInv, Awaits

\* A call with something to write is under way.
LEMMA UnderWay ==
    ASSUME StoreInv, call.left # <<>>
    PROVE  /\ call.op \in Ops \ {"down", "idle"} /\ Blob \in Blobs /\ Awaits(Blob)
           /\ \A b : Awaits(b) => b \in Blobs
           /\ call.ok \in BOOLEAN
<1>1. StoreTypeOK
  BY DEF StoreInv
<1> QED
  BY <1>1, LeftFacts DEF StoreTypeOK, Awaits

LEMMA RefusedReturns ==
    ASSUME StoreInv, Refused, Needed \/ Len(call.left) = 1
    PROVE  StoreInv'
<1>1. /\ call.left # <<>> /\ Returns(FALSE, behind') /\ UNCHANGED flash
      /\ behind' = behind \cup (IF Needed THEN Range(call.left) ELSE {Blob})
  BY DEF Refused
<1>2. paired' = paired /\ removed' = removed
  BY <1>1 DEF Returns
<1>3. \A b : Awaits(b) \/ b \in behind => b \in behind'
  <2>1. CASE Needed
    BY <1>1, <2>1 DEF Awaits
  <2>2. CASE ~Needed
    BY <1>1, <2>2, LastLeft
  <2> QED
    BY <2>1, <2>2
<1>4. /\ CallType' /\ \A b : ~Awaits(b)'
      /\ \/ call'.op = "idle" /\ ram' = ram
            /\ ~(call.op = "load" /\ Blob \in {"identity", "psk"})
         \/ call'.op = "down" /\ ram' = Blank /\ call.op = "load"
  BY <1>1, ReturnsEffect
<1>5. StoreTypeOK'
  <2>1. behind' \subseteq Blobs
    BY <1>1, UnderWay DEF StoreInv, StoreTypeOK, Awaits
  <2>2. /\ Blank.records = <<>>
        /\ Blank \in [identity : KeyOrNone, psk : KeyOrNone, records : Seq(Records), last : ServerOrNone]
    BY NoRecords DEF Blank, KeyOrNone, ServerOrNone
  <2> QED
    BY <1>1, <1>2, <1>4, <2>1, <2>2, NoRecords DEF StoreInv, StoreTypeOK, CallType
<1>6. CASE call'.op = "down"
  BY <1>1, <1>2, <1>4, <1>5, <1>6
     DEF StoreInv, KeysFirst, Follows, AddLast, PairedInBoth, PairedIsKept,
         StaysGone, RemovedIsGone, RemovesAll
<1>7. CASE call'.op = "idle"
  <2>1. ram' = ram /\ ~(call.op = "load" /\ Blob \in {"identity", "psk"})
    BY <1>4, <1>7
  <2>2. call.op \in Ops \ {"down", "idle"}
    BY <1>1, UnderWay
  <2>3. call.op = "load" => ~Needed /\ ~Awaits("identity") /\ ~Awaits("psk")
    <3>1. call.op = "load" => ~Needed
      BY <2>1 DEF Needed
    <3> QED
      BY <1>1, <2>1, <3>1, LastLeft
  <2>4. KeysFirst'
    BY <1>1, <1>2, <1>4, <1>7, <2>1, <2>2, <2>3 DEF StoreInv, KeysFirst
  <2>5. Follows'
    BY <1>1, <1>3, <2>1, <2>2 DEF StoreInv, Follows
  <2>6. AddLast' /\ RemovesAll'
    BY <1>7 DEF AddLast, RemovesAll
  <2>7. PairedInBoth' /\ StaysGone'
    BY <1>1, <1>2, <1>4, <2>1, <2>2
       DEF StoreInv, PairedInBoth, PairedIsKept, StaysGone, RemovedIsGone
  <2> QED
    BY <1>5, <2>4, <2>5, <2>6, <2>7 DEF StoreInv
<1> QED
  BY <1>4, <1>6, <1>7

LEMMA RefusedGoesOn ==
    ASSUME StoreInv, Refused, ~Needed, Len(call.left) # 1
    PROVE  StoreInv'
<1>1. /\ call.left # <<>> /\ GoesOn(FALSE) /\ UNCHANGED flash
      /\ behind' = behind \cup {Blob}
  BY DEF Refused
<1>2. /\ CallType' /\ call'.ok = FALSE
      /\ call'.op = call.op /\ call'.server = call.server /\ call'.names = call.names
      /\ \A b : Awaits(b) <=> b = Blob \/ Awaits(b)'
      /\ UNCHANGED <<ram, paired, removed>>
  BY <1>1, GoesOnEffect
<1>3. /\ Blob \in Blobs /\ call.op \in Ops \ {"down", "idle"}
      /\ call.op # "forget" /\ ~(call.op = "load" /\ Blob \in {"identity", "psk"})
  BY <1>1, UnderWay DEF Needed
<1>4. StoreTypeOK'
  BY <1>1, <1>2, <1>3 DEF StoreInv, StoreTypeOK, CallType
<1>5. KeysFirst'
  BY <1>1, <1>2, <1>3 DEF StoreInv, KeysFirst
<1>6. Follows'
  BY <1>1, <1>2 DEF StoreInv, Follows
<1>7. call.op # "add"
  <2>1. Len(<<"records">>) = 1
    OBVIOUS
  <2> QED
    BY <2>1 DEF StoreInv, AddLast
<1>8. AddLast' /\ RemovesAll'
  BY <1>2, <1>3, <1>7 DEF StoreInv, AddLast, RemovesAll
<1>9. PairedInBoth' /\ StaysGone'
  BY <1>1, <1>2 DEF StoreInv, PairedInBoth, PairedIsKept, StaysGone, RemovedIsGone
<1> QED
  BY <1>4, <1>5, <1>6, <1>8, <1>9 DEF StoreInv

\* A write changes the one blob.
LEMMA WriteEffect ==
    ASSUME StoreInv, Written
    PROVE  /\ flash' \in [identity : KeyOrNone, psk : KeyOrNone, records : Seq(Records),
                          names : SUBSET Servers, last : ServerOrNone]
           /\ flash'.identity = IF Blob = "identity" THEN ram.identity ELSE flash.identity
           /\ flash'.psk = IF Blob = "psk" THEN ram.psk ELSE flash.psk
           /\ flash'.records = IF Blob = "records" THEN ram.records ELSE flash.records
           /\ flash'.names = IF Blob = "names" THEN call.names ELSE flash.names
           /\ flash'.last = IF Blob = "last" THEN ram.last ELSE flash.last
<1>1. flash' = [flash EXCEPT ![Blob] = Value(Blob)] /\ Blob \in Blobs
  BY UnderWay DEF Written
<1>2. /\ ram \in [identity : KeyOrNone, psk : KeyOrNone, records : Seq(Records), last : ServerOrNone]
      /\ flash \in [identity : KeyOrNone, psk : KeyOrNone, records : Seq(Records),
                    names : SUBSET Servers, last : ServerOrNone]
      /\ call.names \in SUBSET Servers
  BY DEF StoreInv, StoreTypeOK
<1>3. CASE Blob = "identity"
  BY <1>1, <1>2, <1>3 DEF Value
<1>4. CASE Blob = "psk"
  BY <1>1, <1>2, <1>4 DEF Value
<1>5. CASE Blob = "records"
  BY <1>1, <1>2, <1>5 DEF Value
<1>6. CASE Blob = "names"
  BY <1>1, <1>2, <1>6 DEF Value
<1>7. CASE Blob = "last"
  BY <1>1, <1>2, <1>7 DEF Value
<1> QED
  BY <1>1, <1>3, <1>4, <1>5, <1>6, <1>7 DEF Blobs

\* What a write leaves in flash, for the history so far.
LEMMA WrittenInFlash ==
    ASSUME StoreInv, Written
    PROVE  /\ WellKept(flash'.records)
           /\ flash'.identity = NoKey => flash.identity = NoKey /\ Blob # "identity"
           /\ flash'.psk = NoKey => flash.psk = NoKey /\ Blob # "psk"
           /\ \A b \in {"identity", "psk", "records", "last"} :
                  b \in behind' \/ (Awaits(b) /\ b # Blob) \/ flash'[b] = ram[b]
           /\ \A p \in paired : p \in Range(flash'.records)
           /\ \A s \in removed :
                  ~Has(flash'.records, s) /\ s \notin flash'.names /\ flash'.last # s
<1>1. call.left # <<>> /\ behind' = behind \ {Blob}
  BY DEF Written
<1>2. /\ call.op \in Ops \ {"down", "idle"} /\ Blob \in Blobs /\ Awaits(Blob)
  BY <1>1, UnderWay
<1>3. Blob \in {"identity", "psk"} => ram.identity # NoKey /\ ram.psk # NoKey
  BY <1>2 DEF StoreInv, KeysFirst, Ops
<1>4. WellKept(ram.records) /\ WellKept(flash.records)
  BY DEF StoreInv, StoreTypeOK
<1>5. \A b \in {"identity", "psk", "records", "last"} :
          b \in behind \/ Awaits(b) \/ flash[b] = ram[b]
  BY <1>2 DEF StoreInv, Follows
<1>6. \A b \in {"identity", "psk", "records", "last"} :
          b \in behind' \/ (Awaits(b) /\ b # Blob) \/ flash'[b] = ram[b]
  BY <1>1, <1>5, WriteEffect
<1>7. \A p \in paired : p \in Range(flash'.records)
  BY <1>2, WriteEffect DEF StoreInv, PairedInBoth, PairedIsKept
<1>8. \A s \in removed :
          ~Has(flash'.records, s) /\ s \notin flash'.names /\ flash'.last # s
  BY <1>2, WriteEffect DEF StoreInv, StaysGone, RemovedIsGone
<1>9. flash'.identity = NoKey => flash.identity = NoKey /\ Blob # "identity"
  BY <1>3, WriteEffect
<1>10. flash'.psk = NoKey => flash.psk = NoKey /\ Blob # "psk"
  BY <1>3, WriteEffect
<1>11. WellKept(flash'.records)
  BY <1>4, WriteEffect
<1> QED
  BY <1>6, <1>7, <1>8, <1>9, <1>10, <1>11

LEMMA WrittenGoesOn ==
    ASSUME StoreInv, Written, Len(call.left) # 1
    PROVE  StoreInv'
<1>1. call.left # <<>> /\ GoesOn(call.ok) /\ behind' = behind \ {Blob}
  BY DEF Written
<1>2. /\ Blob \in Blobs /\ call.op \in Ops \ {"down", "idle"} /\ call.ok \in BOOLEAN
  BY <1>1, UnderWay
<1>3. /\ CallType' /\ call'.ok = call.ok
      /\ call'.op = call.op /\ call'.server = call.server /\ call'.names = call.names
      /\ \A b : Awaits(b) <=> b = Blob \/ Awaits(b)'
      /\ UNCHANGED <<ram, paired, removed>>
  BY <1>1, <1>2, GoesOnEffect
<1>4. StoreTypeOK'
  BY <1>1, <1>3, WriteEffect, WrittenInFlash DEF StoreInv, StoreTypeOK, CallType
<1>5. KeysFirst'
  BY <1>2, <1>3, WrittenInFlash DEF StoreInv, KeysFirst
<1>6. Follows'
  BY <1>3, WrittenInFlash DEF Follows
<1>7. call.op # "add"
  <2>1. Len(<<"records">>) = 1
    OBVIOUS
  <2> QED
    BY <2>1 DEF StoreInv, AddLast
<1>8. AddLast'
  BY <1>3, <1>7 DEF AddLast
<1>9. PairedInBoth' /\ StaysGone'
  BY <1>2, <1>3, WrittenInFlash
     DEF StoreInv, PairedInBoth, PairedIsKept, StaysGone, RemovedIsGone
<1>10. \A s : Going(s) => Going(s)'
  BY <1>3, WriteEffect DEF Going
<1>11. RemovesAll'
  BY <1>3, <1>10 DEF StoreInv, RemovesAll
<1> QED
  BY <1>4, <1>5, <1>6, <1>8, <1>9, <1>11 DEF StoreInv

LEMMA WrittenReturns ==
    ASSUME StoreInv, Written, Len(call.left) = 1
    PROVE  StoreInv'
<1>1. call.left # <<>> /\ Returns(call.ok, behind') /\ behind' = behind \ {Blob}
  BY DEF Written
<1>2. /\ Blob \in Blobs /\ call.op \in Ops \ {"down", "idle"} /\ call.ok \in BOOLEAN
      /\ \A b : Awaits(b) <=> b = Blob
  BY <1>1, UnderWay, LastLeft
<1>3. /\ CallType' /\ \A b : ~Awaits(b)'
      /\ \/ call'.op = "idle" /\ ram' = ram
            /\ ~(call.op = "load" /\ Blob \in {"identity", "psk"})
         \/ call'.op = "down" /\ ram' = Blank /\ call.op = "load"
  BY <1>1, ReturnsEffect
<1>4. /\ paired' = IF call.op = "add" /\ call.ok
                   THEN paired \cup {ram.records[Len(ram.records)]} ELSE paired
      /\ removed' = IF ~call.ok \/ "last" \in behind' THEN removed
                    ELSE IF call.op = "forget" THEN Servers
                    ELSE IF call.op = "remove" THEN removed \cup {call.server}
                    ELSE removed
  BY <1>1 DEF Returns
<1>5. \A b \in {"identity", "psk", "records", "last"} : b \in behind' \/ flash'[b] = ram[b]
  BY <1>2, WrittenInFlash
<1>6. call.op = "add" =>
          /\ Blob = "records"
          /\ ram.records[Len(ram.records)] \in Records
          /\ ram.records[Len(ram.records)] \in Range(ram.records)
  <2> SUFFICES ASSUME call.op = "add" PROVE
          /\ Blob = "records"
          /\ ram.records[Len(ram.records)] \in Records
          /\ ram.records[Len(ram.records)] \in Range(ram.records)
    OBVIOUS
  <2>1. call.left = <<"records">> /\ ram.records # <<>>
    BY DEF StoreInv, AddLast
  <2>2. Blob = "records"
    BY <2>1 DEF Blob
  <2>3. ram.records \in Seq(Records) /\ Len(ram.records) \in 1..Len(ram.records)
    <3>1. ram.records \in Seq(Records)
      BY DEF StoreInv, StoreTypeOK
    <3>2. Len(ram.records) \in Nat \ {0}
      BY <2>1, <3>1, EmptySeq
    <3> QED
      BY <3>1, <3>2
  <2> QED
    BY <2>2, <2>3, ElementOfSeq, RangeEquality
<1>7. \A p \in paired' : p \in Records /\ p \in Range(flash'.records) /\ p \in Range(ram.records)
  <2>1. call.op # "down"
    BY <1>2
  <2>2. \A p \in paired : p \in Records /\ p \in Range(flash'.records) /\ p \in Range(ram.records)
    BY <2>1, WrittenInFlash DEF StoreInv, StoreTypeOK, PairedInBoth
  <2>3. Blob = "records" => flash'.records = ram.records
    BY WriteEffect
  <2> QED
    BY <1>4, <1>6, <2>2, <2>3
<1>8. \A s \in removed' :
          /\ s \in Servers /\ ~Has(flash'.records, s) /\ s \notin flash'.names /\ flash'.last # s
          /\ ~Has(ram.records, s) /\ ram.last # s
  <2>1. \A s \in removed :
          /\ s \in Servers /\ ~Has(flash'.records, s) /\ s \notin flash'.names /\ flash'.last # s
          /\ ~Has(ram.records, s) /\ ram.last # s
    BY <1>2, WrittenInFlash DEF StoreInv, StoreTypeOK, StaysGone
  <2>2. ASSUME NEW s, Going(s), "last" \notin behind'
        PROVE  /\ ~Has(flash'.records, s) /\ s \notin flash'.names /\ flash'.last # s
               /\ ~Has(ram.records, s) /\ ram.last # s
    <3>1. flash'.last = ram.last
      BY <1>5, <2>2
    <3>2. ~Has(flash'.records, s) /\ s \notin flash'.names
      BY <1>2, <2>2, WriteEffect DEF Going
    <3> QED
      BY <2>2, <3>1, <3>2 DEF Going
  <2>3. CASE ~call.ok \/ "last" \in behind' \/ call.op \notin {"remove", "forget"}
    BY <1>4, <2>1, <2>3
  <2>4. CASE call.ok /\ "last" \notin behind' /\ call.op = "forget"
    <3>1. removed' = Servers /\ \A s \in Servers : Going(s)
      BY <1>4, <2>4 DEF StoreInv, RemovesAll
    <3> QED
      BY <2>2, <2>4, <3>1
  <2>5. CASE call.ok /\ "last" \notin behind' /\ call.op = "remove"
    <3>1. removed' = removed \cup {call.server} /\ call.server \in Servers /\ Going(call.server)
      BY <1>4, <2>5 DEF StoreInv, RemovesAll
    <3> QED
      BY <2>1, <2>2, <2>5, <3>1
  <2> QED
    BY <2>3, <2>4, <2>5
<1>9. StoreTypeOK'
  <2>1. /\ Blank.records = <<>>
        /\ Blank \in [identity : KeyOrNone, psk : KeyOrNone, records : Seq(Records), last : ServerOrNone]
    BY NoRecords DEF Blank, KeyOrNone, ServerOrNone
  <2>2. paired' \subseteq Records /\ removed' \subseteq Servers /\ behind' \subseteq Blobs
    BY <1>1, <1>7, <1>8 DEF StoreInv, StoreTypeOK
  <2> QED
    BY <1>3, <2>1, <2>2, WriteEffect, WrittenInFlash, NoRecords DEF StoreInv, StoreTypeOK, CallType
<1>10. PairedIsKept' /\ RemovedIsGone'
  BY <1>7, <1>8 DEF PairedIsKept, RemovedIsGone
<1>11. CASE call'.op = "down"
  <2>1. paired' = {}
    BY <1>3, <1>4, <1>11 DEF StoreInv, KeysFirst
  <2>2. KeysFirst' /\ Follows' /\ AddLast' /\ RemovesAll'
    BY <1>11, <2>1 DEF KeysFirst, Follows, AddLast, RemovesAll
  <2>3. PairedInBoth' /\ StaysGone'
    BY <1>10, <1>11 DEF PairedInBoth, StaysGone
  <2> QED
    BY <1>9, <2>2, <2>3 DEF StoreInv
<1>12. CASE call'.op = "idle"
  <2>1. ram' = ram
    BY <1>3, <1>12
  <2>2. flash'.identity # NoKey /\ flash'.psk # NoKey
    BY <1>2, WrittenInFlash DEF StoreInv, KeysFirst
  <2>3. KeysFirst' /\ AddLast' /\ RemovesAll'
    BY <1>3, <1>12, <2>2 DEF KeysFirst, AddLast, RemovesAll
  <2>4. Follows'
    BY <1>5, <2>1 DEF Follows
  <2>5. PairedInBoth' /\ StaysGone'
    BY <1>3, <1>7, <1>8, <1>10, <2>1 DEF PairedInBoth, StaysGone
  <2> QED
    BY <1>9, <2>3, <2>4, <2>5 DEF StoreInv
<1> QED
  BY <1>3, <1>11, <1>12

LEMMA NextKeeps == StoreInv /\ [Next]_vars => StoreInv'
<1> SUFFICES ASSUME StoreInv, [Next]_vars PROVE StoreInv'
  OBVIOUS
<1>1. CASE Load
  BY <1>1, LoadKeeps
<1>2. CASE LoadNew
  BY <1>2, LoadNewKeeps
<1>3. CASE Forget
  BY <1>3, ForgetKeeps
<1>4. CASE ForgetFails
  BY <1>4, ForgetFailsKeeps
<1>5. ASSUME NEW s \in Servers, Touch(s) PROVE StoreInv'
  BY <1>5, TouchKeeps
<1>6. ASSUME NEW s \in Servers, SetName(s) PROVE StoreInv'
  BY <1>6, SetNameKeeps
<1>7. ASSUME NEW s \in Servers, SetLastPlayback(s) PROVE StoreInv'
  BY <1>7, SetLastPlaybackKeeps
<1>8. ASSUME NEW s \in Servers, RemoveRecord(s) PROVE StoreInv'
  BY <1>8, RemoveRecordKeeps
<1>9. ASSUME NEW s \in Servers, NEW k \in Secrets, NEW inUse \in SUBSET Recorded,
             AddRecord(s, k, inUse)
      PROVE  StoreInv'
  BY <1>9, AddRecordKeeps
<1>10. CASE Written
  BY <1>10, WrittenGoesOn, WrittenReturns
<1>11. CASE Refused
  BY <1>11, RefusedGoesOn, RefusedReturns
<1>12. CASE PowerLoss
  BY <1>12, PowerLossKeeps
<1>13. CASE UNCHANGED vars
  BY <1>13 DEF vars, StoreInv, StoreTypeOK, KeysFirst, Follows, AddLast, PairedInBoth,
               PairedIsKept, StaysGone, RemovedIsGone, RemovesAll, Going, Awaits, Has
<1> QED
  BY <1>1, <1>2, <1>3, <1>4, <1>5, <1>6, <1>7, <1>8, <1>9, <1>10, <1>11, <1>12, <1>13
     DEF Next, Call

LEMMA AlwaysInv == Spec => []StoreInv
BY InitInv, NextKeeps, PTL DEF Spec

\* The store's fields, its blobs and the call under way have their types; no
\* server ever has two records, in RAM or in flash, and never more than fit.
THEOREM StoreTypeCorrect == Spec => []StoreTypeOK
<1>1. StoreInv => StoreTypeOK
  BY DEF StoreInv
<1> QED
  BY <1>1, AlwaysInv, PTL

\* Between calls a restart reads back what RAM holds, but for blobs whose last
\* write flash refused or a call gave up.
THEOREM FlashAlwaysFollows == Spec => []FlashFollows
<1>1. StoreInv => FlashFollows
  BY WhenIdle DEF FlashFollows
<1> QED
  BY <1>1, AlwaysInv, PTL

\* A record add_record() said was stored stays in flash, through refusals and
\* power loss anywhere, until it is replaced, evicted or removed, or
\* the board makes itself new keys.
THEOREM PairedAlwaysKept == Spec => []PairedIsKept
<1>1. StoreInv => PairedIsKept
  BY DEF StoreInv, PairedInBoth
<1> QED
  BY <1>1, AlwaysInv, PTL

\* A server removed, or forgotten, with nothing refused does not come back:
\* not from flash, not from RAM, and not with another call's names.
THEOREM RemovedStaysGone == Spec => []RemovedIsGone
<1>1. StoreInv => RemovedIsGone
  BY DEF StoreInv, StaysGone
<1> QED
  BY <1>1, AlwaysInv, PTL
=============================================================================
