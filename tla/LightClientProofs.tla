-------------------------- MODULE LightClientProofs --------------------------
(***************************************************************************)
(* Proofs about LightClient.  What holds of a relay state is proved as a   *)
(* fact about Submitted; RelayMoves carries it over to the two files.      *)
(* After it, the safety of what the enclave sends to the parentchain and   *)
(* reads back from it: Extrinsics, Teeracle and IndirectInvocation.        *)
(***************************************************************************)
EXTENDS Extrinsics, Teeracle, IndirectInvocation, LightClient, FiniteSetTheorems, SequenceTheorems,
        TLAPS

\* What the assumption says of the bounds.
LEMMA Bounds ==
    MaxHeight \in Nat /\ Pruning \in Nat \ {0} /\ MaxCrashes \in Nat /\ MaxFailures \in Nat
BY LightClientAssumption

\* A digest announces a change with a delay that is a natural number.
LEMMA Delay == ASSUME NEW a \in Announced PROVE a \in Heights /\ Change[a] \in Nat
BY LightClientAssumption DEF Announced, NoChange

Schedules == [at_block : Nat, next : 0 .. MaxHeight]

\* The fields of a relay state, for the provers.
LEMMA RelayFields ==
    ASSUME NEW r \in Relay
    PROVE  /\ r.last \in 0 .. MaxHeight /\ r.penultimate \in 0 .. MaxHeight
           /\ r.header_hashes \in Seq(0 .. MaxHeight)
           /\ r.unjustified_headers \in Seq(0 .. MaxHeight)
           /\ r.validator_set \in 0 .. MaxHeight /\ r.validator_set_id \in Nat
           /\ r.scheduled_change \in Schedules
BY DEF Relay, Schedules

\* Prune keeps a suffix of at most Pruning elements.
LEMMA PruneProperties ==
    ASSUME NEW s \in Seq(0 .. MaxHeight)
    PROVE  /\ Prune(s) \in Seq(0 .. MaxHeight)
           /\ Len(Prune(s)) <= Pruning /\ Len(Prune(s)) <= Len(s)
           /\ s # <<>> => Len(Prune(s)) >= 1
           /\ \A i \in 1 .. Len(Prune(s)) : Prune(s)[i] = s[Len(s) - Len(Prune(s)) + i]
<1>0. Len(s) \in Nat /\ (s # <<>> => Len(s) >= 1)
  BY EmptySeq
<1>1. CASE Len(s) <= Pruning
  BY <1>0, <1>1, Bounds DEF Prune
<1>2. CASE ~(Len(s) <= Pruning)
  <2> DEFINE m == Len(s) - Pruning + 1
  <2>1. m \in Int /\ Len(s) \in Int /\ \A i \in m .. Len(s) : s[i] \in 0 .. MaxHeight
    BY <1>0, <1>2, Bounds
  <2>2. Prune(s) = SubSeq(s, m, Len(s))
    BY <1>2 DEF Prune
  <2>3. /\ SubSeq(s, m, Len(s)) \in Seq(0 .. MaxHeight)
        /\ Len(SubSeq(s, m, Len(s))) = IF m <= Len(s) THEN Len(s) - m + 1 ELSE 0
        /\ \A i \in 1 .. Len(s) - m + 1 : SubSeq(s, m, Len(s))[i] = s[m + i - 1]
    BY <2>1, SubSeqProperties
  <2>4. Len(Prune(s)) = Pruning
    BY <2>2, <2>3, <1>0, <1>2, Bounds
  <2>5. \A i \in 1 .. Pruning : Prune(s)[i] = s[Len(s) - Pruning + i]
    BY <2>2, <2>3, <1>0, <1>2, Bounds
  <2> QED BY <2>2, <2>3, <2>4, <2>5, <1>0, <1>2, Bounds
<1> QED BY <1>1, <1>2

-----------------------------------------------------------------------------
(* The parts of submit_block, field by field.                              *)

\* apply_validator_set_change
LEMMA Applied ==
    ASSUME NEW r \in Relay, NEW h \in Heights
    PROVE  LET a == apply_validator_set_change(r, h)
               hit == r.scheduled_change # NoSchedule /\ r.scheduled_change.at_block = h
           IN  /\ a \in Relay
               /\ a.last = r.last /\ a.penultimate = r.penultimate
               /\ a.header_hashes = r.header_hashes
               /\ a.unjustified_headers = r.unjustified_headers
               /\ a.scheduled_change = NoSchedule
               /\ hit => a.validator_set = r.scheduled_change.next
                            /\ a.validator_set_id = r.validator_set_id + 1
               /\ ~hit => a.validator_set = r.validator_set
                            /\ a.validator_set_id = r.validator_set_id
<1> DEFINE taken == [r EXCEPT !.scheduled_change = NoSchedule]
           hit == r.scheduled_change # NoSchedule /\ r.scheduled_change.at_block = h
<1>1. NoSchedule \in Schedules
  BY Bounds DEF NoSchedule, Schedules
<1>2. /\ taken \in Relay
      /\ taken.last = r.last /\ taken.penultimate = r.penultimate
      /\ taken.header_hashes = r.header_hashes
      /\ taken.unjustified_headers = r.unjustified_headers
      /\ taken.scheduled_change = NoSchedule
      /\ taken.validator_set = r.validator_set /\ taken.validator_set_id = r.validator_set_id
  BY <1>1 DEF Relay, Schedules
<1> HIDE DEF taken
<1>3. CASE ~hit
  BY <1>2, <1>3 DEF apply_validator_set_change, taken
<1>4. CASE hit
  <2> DEFINE next == r.scheduled_change.next
             id == taken.validator_set_id + 1
             a == [taken EXCEPT !.validator_set = next, !.validator_set_id = id]
  <2>1. apply_validator_set_change(r, h) = a
    BY <1>4 DEF apply_validator_set_change, taken
  <2>2. next \in 0 .. MaxHeight /\ id \in Nat
    BY <1>2, RelayFields DEF Schedules
  <2> HIDE DEF next, id
  <2>3. /\ a \in Relay
        /\ a.last = taken.last /\ a.penultimate = taken.penultimate
        /\ a.header_hashes = taken.header_hashes
        /\ a.unjustified_headers = taken.unjustified_headers
        /\ a.scheduled_change = taken.scheduled_change
        /\ a.validator_set = next /\ a.validator_set_id = id
    BY <2>2, <1>2 DEF Relay
  <2> HIDE DEF a
  <2> QED BY <2>1, <2>3, <1>2, <1>4 DEF next, id
<1> QED BY <1>3, <1>4

\* schedule_validator_set_change
LEMMA Scheduled ==
    ASSUME NEW r \in Relay, NEW h \in Heights
    PROVE  LET s == schedule_validator_set_change(r, h) IN
           /\ s \in Relay
           /\ s.last = r.last /\ s.penultimate = r.penultimate
           /\ s.header_hashes = r.header_hashes
           /\ s.unjustified_headers = r.unjustified_headers
           /\ s.validator_set = r.validator_set /\ s.validator_set_id = r.validator_set_id
           /\ s.scheduled_change =
                 IF h \in Announced THEN [at_block |-> h + Change[h], next |-> h]
                 ELSE r.scheduled_change
<1>1. CASE h \notin Announced
  BY <1>1 DEF schedule_validator_set_change
<1>2. CASE h \in Announced
  <2> DEFINE c == [at_block |-> h + Change[h], next |-> h]
  <2>1. c \in Schedules
    BY <1>2, Delay, Bounds DEF Schedules, Heights
  <2>2. schedule_validator_set_change(r, h) = [r EXCEPT !.scheduled_change = c]
    BY <1>2 DEF schedule_validator_set_change
  <2> HIDE DEF c
  <2>3. LET s == [r EXCEPT !.scheduled_change = c] IN
        /\ s \in Relay
        /\ s.last = r.last /\ s.penultimate = r.penultimate
        /\ s.header_hashes = r.header_hashes
        /\ s.unjustified_headers = r.unjustified_headers
        /\ s.validator_set = r.validator_set /\ s.validator_set_id = r.validator_set_id
        /\ s.scheduled_change = c
    BY <2>1 DEF Relay, Schedules
  <2> QED BY <1>2, <2>2, <2>3 DEF c
<1> QED BY <1>1, <1>2

\* set_last_finalized_block_header
LEMMA LastSet ==
    ASSUME NEW r \in Relay, NEW h \in Heights
    PROVE  LET l == SetLast(r, h) IN
           /\ l \in Relay
           /\ l.last = h /\ l.penultimate = r.last
           /\ l.header_hashes = r.header_hashes
           /\ l.unjustified_headers = r.unjustified_headers
           /\ l.validator_set = r.validator_set /\ l.validator_set_id = r.validator_set_id
           /\ l.scheduled_change = r.scheduled_change
<1> DEFINE p == r.last
<1>1. h \in 0 .. MaxHeight /\ p \in 0 .. MaxHeight
  BY RelayFields, Bounds DEF Heights
<1>2. SetLast(r, h) = [r EXCEPT !.penultimate = p, !.last = h]
  BY DEF SetLast
<1> HIDE DEF p
<1>3. LET l == [r EXCEPT !.penultimate = p, !.last = h] IN
      /\ l \in Relay
      /\ l.last = h /\ l.penultimate = p
      /\ l.header_hashes = r.header_hashes
      /\ l.unjustified_headers = r.unjustified_headers
      /\ l.validator_set = r.validator_set /\ l.validator_set_id = r.validator_set_id
      /\ l.scheduled_change = r.scheduled_change
  BY <1>1 DEF Relay
<1> QED BY <1>2, <1>3 DEF p

\* The header without a valid justification
LEMMA UnjustifiedFields ==
    ASSUME NEW r \in Relay, NEW h \in Heights
    PROVE  LET u == Unjustified(r, h) IN
           /\ u \in Relay
           /\ u.last = h /\ u.penultimate = r.last
           /\ u.header_hashes = r.header_hashes
           /\ u.unjustified_headers = Append(r.unjustified_headers, h)
           /\ u.validator_set = r.validator_set /\ u.validator_set_id = r.validator_set_id
           /\ u.scheduled_change = r.scheduled_change
<1> DEFINE l == SetLast(r, h)
           n == Append(l.unjustified_headers, h)
<1>1. /\ l \in Relay
      /\ l.last = h /\ l.penultimate = r.last
      /\ l.header_hashes = r.header_hashes /\ l.unjustified_headers = r.unjustified_headers
      /\ l.validator_set = r.validator_set /\ l.validator_set_id = r.validator_set_id
      /\ l.scheduled_change = r.scheduled_change
  BY LastSet
<1> HIDE DEF l
<1>2. n \in Seq(0 .. MaxHeight)
  BY <1>1, RelayFields, Bounds DEF Heights
<1>3. Unjustified(r, h) = [l EXCEPT !.unjustified_headers = n]
  BY DEF Unjustified, l
<1>4. n = Append(r.unjustified_headers, h)
  BY <1>1
<1> HIDE DEF n
<1>5. LET u == [l EXCEPT !.unjustified_headers = n] IN
      /\ u \in Relay
      /\ u.last = l.last /\ u.penultimate = l.penultimate
      /\ u.header_hashes = l.header_hashes /\ u.unjustified_headers = n
      /\ u.validator_set = l.validator_set /\ u.validator_set_id = l.validator_set_id
      /\ u.scheduled_change = l.scheduled_change
  BY <1>1, <1>2 DEF Relay
<1> QED BY <1>1, <1>3, <1>4, <1>5
\* justify_headers and push_header_hash
LEMMA JustifiedFields ==
    ASSUME NEW r \in Relay, NEW h \in Heights
    PROVE  LET j == JustifyHeaders(r, h) IN
           /\ j \in Relay
           /\ j.last = h /\ j.penultimate = r.last
           /\ j.header_hashes = Prune(r.header_hashes \o r.unjustified_headers \o <<h>>)
           /\ j.unjustified_headers = <<>>
           /\ j.validator_set = r.validator_set /\ j.validator_set_id = r.validator_set_id
           /\ j.scheduled_change = r.scheduled_change
<1> DEFINE l == SetLast(r, h)
           n == Prune(r.header_hashes \o r.unjustified_headers \o <<h>>)
           e == <<>>
<1>1. /\ l \in Relay
      /\ l.last = h /\ l.penultimate = r.last
      /\ l.validator_set = r.validator_set /\ l.validator_set_id = r.validator_set_id
      /\ l.scheduled_change = r.scheduled_change
  BY LastSet
<1>2. n \in Seq(0 .. MaxHeight)
  <2>1. r.header_hashes \o r.unjustified_headers \o <<h>> \in Seq(0 .. MaxHeight)
    BY RelayFields, Bounds DEF Heights
  <2> QED BY <2>1, PruneProperties
<1>3. JustifyHeaders(r, h) = [l EXCEPT !.unjustified_headers = e, !.header_hashes = n]
  BY DEF JustifyHeaders
<1>0. e \in Seq(0 .. MaxHeight)
  OBVIOUS
<1> HIDE DEF l, n, e
<1>4. LET j == [l EXCEPT !.unjustified_headers = e, !.header_hashes = n] IN
      /\ j \in Relay
      /\ j.last = l.last /\ j.penultimate = l.penultimate
      /\ j.header_hashes = n /\ j.unjustified_headers = e
      /\ j.validator_set = l.validator_set /\ j.validator_set_id = l.validator_set_id
      /\ j.scheduled_change = l.scheduled_change
  BY <1>0, <1>1, <1>2 DEF Relay
<1> QED BY <1>1, <1>3, <1>4 DEF n, e

-----------------------------------------------------------------------------
(* What is preserved by submit_block.                                      *)

\* A relay state of the chain: Consistent, and a validator set that the chain
\* has handed over to.  A scheduled change is the one of the last header.
Handover(r) ==
    /\ r.validator_set \in Enacted(r.last + 1) \cup {0}
    /\ r.validator_set_id <= Cardinality(Enacted(r.last + 1))
    /\ r.scheduled_change # NoSchedule =>
          /\ Grandpa /\ r.last \in Announced
          /\ r.scheduled_change = [at_block |-> r.last + Change[r.last], next |-> r.last]

\* The changes in force are finitely many, and stay in force.
LEMMA EnactedGrows ==
    ASSUME NEW m \in Nat, NEW n \in Nat, m <= n
    PROVE  /\ Enacted(m) \subseteq Enacted(n) /\ IsFiniteSet(Enacted(n))
           /\ Cardinality(Enacted(m)) <= Cardinality(Enacted(n))
           /\ Cardinality(Enacted(m)) \in Nat /\ Cardinality(Enacted(n)) \in Nat
<1>1. Enacted(m) \subseteq Enacted(n)
  <2> SUFFICES ASSUME NEW a \in Announced, a + Change[a] < m PROVE a + Change[a] < n
    BY DEF Enacted
  <2> QED BY Delay DEF Heights
<1>2. IsFiniteSet(Heights)
  BY FS_Interval, Bounds DEF Heights
<1>3. Enacted(n) \subseteq Heights
  BY DEF Enacted, Announced
<1>4. IsFiniteSet(Enacted(n))
  BY <1>2, <1>3, FS_Subset
<1> QED BY <1>1, <1>4, FS_Subset, FS_CardinalityType

\* A change whose block is reached is one more.
LEMMA EnactedNext ==
    ASSUME NEW a \in Announced, NEW n \in Nat, a + Change[a] = n
    PROVE  /\ a \in Enacted(n + 1)
           /\ Cardinality(Enacted(n)) + 1 <= Cardinality(Enacted(n + 1))
<1>1. a \in Enacted(n + 1) /\ a \notin Enacted(n)
  BY Delay DEF Enacted, Heights
<1>2. IsFiniteSet(Enacted(n)) /\ IsFiniteSet(Enacted(n + 1)) /\ Enacted(n) \subseteq Enacted(n + 1)
  BY EnactedGrows
<1>3. Cardinality(Enacted(n) \cup {a}) = Cardinality(Enacted(n)) + 1
  BY <1>1, <1>2, FS_AddElement
<1>4. Cardinality(Enacted(n) \cup {a}) <= Cardinality(Enacted(n + 1))
  BY <1>1, <1>2, FS_Subset
<1> QED BY <1>1, <1>3, <1>4
\* The child of the last header hands over as the chain does.
LEMMA HandoverKept ==
    ASSUME NEW r \in Relay, NEW h \in Heights, NEW j, h = r.last + 1, Handover(r)
    PROVE  Submitted(r, h, j) \in Relay /\ Handover(Submitted(r, h, j))
<1> DEFINE a == apply_validator_set_change(r, h)
           hit == r.scheduled_change # NoSchedule /\ r.scheduled_change.at_block = h
           InOffice(s) == /\ s.validator_set \in Enacted(h + 1) \cup {0}
                          /\ s.validator_set_id <= Cardinality(Enacted(h + 1))
<1>0. h \in Nat /\ r.validator_set_id \in Nat
  BY RelayFields, Bounds DEF Heights
<1>1. /\ Enacted(h) \subseteq Enacted(h + 1)
      /\ Cardinality(Enacted(h)) <= Cardinality(Enacted(h + 1))
      /\ Cardinality(Enacted(h)) \in Nat /\ Cardinality(Enacted(h + 1)) \in Nat
  BY <1>0, EnactedGrows
<1>2. r.validator_set \in Enacted(h) \cup {0} /\ r.validator_set_id <= Cardinality(Enacted(h))
  BY DEF Handover
<1>3. InOffice(r)
  BY <1>0, <1>1, <1>2
<1>4. a \in Relay /\ a.scheduled_change = NoSchedule /\ InOffice(a)
  <2>1. CASE ~hit
    BY <2>1, <1>3, Applied
  <2>2. CASE hit
    <3>1. /\ r.last \in Announced /\ r.last + Change[r.last] = h
          /\ r.scheduled_change.next = r.last
      BY <2>2 DEF Handover
    <3>2. r.last \in Enacted(h + 1) /\ Cardinality(Enacted(h)) + 1 <= Cardinality(Enacted(h + 1))
      BY <3>1, <1>0, EnactedNext
    <3>3. a.validator_set = r.last /\ a.validator_set_id = r.validator_set_id + 1
      BY <2>2, <3>1, Applied
    <3>4. a \in Relay /\ a.scheduled_change = NoSchedule
      BY Applied
    <3> QED BY <3>2, <3>3, <3>4, <1>0, <1>1, <1>2
  <2> QED BY <2>1, <2>2
<1> HIDE DEF a, InOffice
<1>5. CASE Grandpa /\ ~Verifies(r, h, j)
  <2>1. Submitted(r, h, j) = Unjustified(a, h)
    BY <1>5 DEF Submitted, a
  <2>2. LET u == Unjustified(a, h) IN
        u \in Relay /\ u.last = h /\ InOffice(u) /\ u.scheduled_change = NoSchedule
    BY <1>4, UnjustifiedFields DEF InOffice
  <2> QED BY <2>1, <2>2 DEF Handover, InOffice
<1>6. CASE Grandpa /\ Verifies(r, h, j)
  <2> DEFINE s == schedule_validator_set_change(a, h)
  <2>1. Submitted(r, h, j) = JustifyHeaders(s, h)
    BY <1>6 DEF Submitted, a
  <2>2. /\ s \in Relay /\ InOffice(s)
        /\ s.scheduled_change # NoSchedule =>
              h \in Announced /\ s.scheduled_change = [at_block |-> h + Change[h], next |-> h]
    BY <1>4, Scheduled DEF InOffice
  <2> HIDE DEF s
  <2>3. LET u == JustifyHeaders(s, h) IN
        u \in Relay /\ u.last = h /\ InOffice(u) /\ u.scheduled_change = s.scheduled_change
    BY <2>2, JustifiedFields DEF InOffice
  <2> QED BY <1>6, <2>1, <2>2, <2>3 DEF Handover, InOffice
<1>7. CASE ~Grandpa
  <2>1. Submitted(r, h, j) = JustifyHeaders(r, h)
    BY <1>7 DEF Submitted
  <2>2. LET u == JustifyHeaders(r, h) IN
        u \in Relay /\ u.last = h /\ InOffice(u) /\ u.scheduled_change = r.scheduled_change
    BY <1>3, JustifiedFields DEF InOffice
  <2> QED BY <1>7, <2>1, <2>2 DEF Handover, InOffice
<1> QED BY <1>5, <1>6, <1>7

\* The sequence lists consecutive headers up to the last.
RunTo(s, last) == \A i \in 1 .. Len(s) : s[i] = last - Len(s) + i

\* A run goes on with the next header.
LEMMA RunAppended ==
    ASSUME NEW s \in Seq(0 .. MaxHeight), NEW h \in 0 .. MaxHeight, RunTo(s, h - 1)
    PROVE  Append(s, h) \in Seq(0 .. MaxHeight) /\ Append(s, h) # <<>> /\ RunTo(Append(s, h), h)
<1>1. Len(s) \in Nat /\ h \in Nat
  BY Bounds
<1>2. /\ Append(s, h) \in Seq(0 .. MaxHeight) /\ Append(s, h) # <<>>
      /\ Len(Append(s, h)) = Len(s) + 1
      /\ \A i \in 1 .. Len(s) : Append(s, h)[i] = s[i]
      /\ Append(s, h)[Len(s) + 1] = h
  BY AppendProperties
<1>3. ASSUME NEW i \in 1 .. Len(s) + 1 PROVE Append(s, h)[i] = h - (Len(s) + 1) + i
  <2>1. CASE i = Len(s) + 1
    BY <2>1, <1>1, <1>2
  <2>2. CASE i \in 1 .. Len(s)
    BY <2>2, <1>1, <1>2 DEF RunTo
  <2> QED BY <2>1, <2>2, <1>1
<1> QED BY <1>2, <1>3 DEF RunTo

\* What Prune keeps of a run is a run to the same header.
LEMMA RunPruned ==
    ASSUME NEW s \in Seq(0 .. MaxHeight), NEW last \in Nat, RunTo(s, last), s # <<>>
    PROVE  /\ Prune(s) \in Seq(0 .. MaxHeight)
           /\ Len(Prune(s)) \in 1 .. Pruning /\ RunTo(Prune(s), last)
<1>1. /\ Prune(s) \in Seq(0 .. MaxHeight)
      /\ Len(Prune(s)) <= Pruning /\ Len(Prune(s)) <= Len(s) /\ Len(Prune(s)) >= 1
      /\ \A i \in 1 .. Len(Prune(s)) : Prune(s)[i] = s[Len(s) - Len(Prune(s)) + i]
  BY PruneProperties
<1>2. Len(Prune(s)) \in Nat /\ Len(s) \in Nat
  BY <1>1
<1>3. ASSUME NEW i \in 1 .. Len(Prune(s)) PROVE Prune(s)[i] = last - Len(Prune(s)) + i
  <2> DEFINE k == Len(s) - Len(Prune(s)) + i
  <2>1. k \in 1 .. Len(s)
    BY <1>1, <1>2
  <2>2. s[k] = last - Len(s) + k
    BY <2>1 DEF RunTo
  <2>3. Prune(s)[i] = s[k]
    BY <1>1
  <2> QED BY <2>2, <2>3, <1>2
<1> QED BY <1>1, <1>2, <1>3, Bounds DEF RunTo

\* Appending to the second of two sequences.
LEMMA AppendToSecond ==
    ASSUME NEW S, NEW s \in Seq(S), NEW t \in Seq(S), NEW e \in S
    PROVE  /\ s \o t \in Seq(S)
           /\ s \o Append(t, e) = Append(s \o t, e)
           /\ s \o t \o <<e>> = Append(s \o t, e)
           /\ s \o <<>> = s
OBVIOUS

\* Consistent, in terms of RunTo.
LEMMA ConsistentRun ==
    ASSUME NEW r
    PROVE  Consistent(r) <=> /\ Len(r.header_hashes) \in 1 .. Pruning
                             /\ RunTo(r.header_hashes \o r.unjustified_headers, r.last)
                             /\ r.penultimate = (IF r.last = 0 THEN 0 ELSE r.last - 1)
BY Zenon DEF Consistent, RunTo

\* Only these fields matter to Consistent: the validator set does not.
LEMMA ConsistentKept ==
    ASSUME NEW r \in Relay, NEW h \in Heights, NEW j, h = r.last + 1, Consistent(r)
    PROVE  Consistent(Submitted(r, h, j))
<1> DEFINE Same(s) == /\ s \in Relay /\ s.last = r.last
                      /\ s.header_hashes = r.header_hashes
                      /\ s.unjustified_headers = r.unjustified_headers
           hh == r.header_hashes
           uh == r.unjustified_headers
           old == hh \o uh
<1>1. /\ hh \in Seq(0 .. MaxHeight) /\ uh \in Seq(0 .. MaxHeight)
      /\ h \in 0 .. MaxHeight /\ h \in Nat /\ h # 0 /\ r.last = h - 1 /\ r.last \in Nat
  BY RelayFields, Bounds DEF Heights
<1> HIDE DEF hh, uh
<1>2. /\ old \in Seq(0 .. MaxHeight)
      /\ hh \o Append(uh, h) = Append(old, h)
      /\ hh \o uh \o <<h>> = Append(old, h)
  BY <1>1, AppendToSecond
<1>3. Len(hh) \in 1 .. Pruning /\ RunTo(old, h - 1)
  <2>1. Len(hh) \in 1 .. Pruning /\ RunTo(old, r.last)
    BY ConsistentRun, Zenon DEF hh, uh
  <2> QED BY <2>1, <1>1, Zenon
<1> HIDE DEF old
<1>4. /\ Append(old, h) \in Seq(0 .. MaxHeight) /\ Append(old, h) # <<>>
      /\ RunTo(Append(old, h), h)
  BY <1>1, <1>2, <1>3, RunAppended
<1>5. ASSUME NEW s, Same(s) PROVE Consistent(Unjustified(s, h))
  <2> DEFINE u == Unjustified(s, h)
  <2>1. /\ u.last = h /\ u.penultimate = h - 1
        /\ u.header_hashes = hh /\ u.unjustified_headers = Append(uh, h)
    <3>1. s \in Relay /\ s.last = h - 1 /\ s.header_hashes = hh /\ s.unjustified_headers = uh
      BY <1>5, <1>1, Zenon DEF hh, uh
    <3>2. /\ u.last = h /\ u.penultimate = s.last
          /\ u.header_hashes = s.header_hashes
          /\ u.unjustified_headers = Append(s.unjustified_headers, h)
      BY <3>1, UnjustifiedFields, Zenon
    <3> QED BY <3>1, <3>2, Zenon
  <2> HIDE DEF u
  <2>2. RunTo(u.header_hashes \o u.unjustified_headers, u.last)
    BY <2>1, <1>2, <1>4
  <2>3. Len(u.header_hashes) \in 1 .. Pruning
    BY <2>1, <1>3
  <2>4. u.penultimate = (IF u.last = 0 THEN 0 ELSE u.last - 1)
    BY <2>1, <1>1
  <2> QED BY <2>2, <2>3, <2>4, ConsistentRun DEF u
<1>6. ASSUME NEW s, Same(s) PROVE Consistent(JustifyHeaders(s, h))
  <2> DEFINE u == JustifyHeaders(s, h)
             p == Prune(Append(old, h))
  <2>1. /\ u.last = h /\ u.penultimate = h - 1
        /\ u.header_hashes = p /\ u.unjustified_headers = <<>>
    <3>1. s \in Relay /\ s.last = h - 1 /\ s.header_hashes = hh /\ s.unjustified_headers = uh
      BY <1>6, <1>1, Zenon DEF hh, uh
    <3>2. /\ u.last = h /\ u.penultimate = s.last
          /\ u.header_hashes = Prune(s.header_hashes \o s.unjustified_headers \o <<h>>)
          /\ u.unjustified_headers = <<>>
      BY <3>1, JustifiedFields, Zenon
    <3> QED BY <3>1, <3>2, <1>2, Zenon
  <2>2. p \in Seq(0 .. MaxHeight) /\ Len(p) \in 1 .. Pruning /\ RunTo(p, h)
    BY <1>1, <1>4, RunPruned
  <2> HIDE DEF u, p
  <2>3. u.header_hashes \o u.unjustified_headers = p
    BY <2>1, <2>2
  <2>4. u.penultimate = (IF u.last = 0 THEN 0 ELSE u.last - 1)
    BY <2>1, <1>1
  <2> QED BY <2>1, <2>2, <2>3, <2>4, ConsistentRun DEF u
<1> HIDE DEF Same
<1>7. CASE Grandpa
  <2> DEFINE a == apply_validator_set_change(r, h)
             s == schedule_validator_set_change(a, h)
  <2>1. Same(a)
    BY Applied DEF Same
  <2>2. Same(s)
    BY <2>1, Scheduled DEF Same
  <2>3. Submitted(r, h, j) = IF ~Verifies(r, h, j) THEN Unjustified(a, h) ELSE JustifyHeaders(s, h)
    BY <1>7 DEF Submitted
  <2> HIDE DEF a, s
  <2> QED BY <2>1, <2>2, <2>3, <1>5, <1>6
<1>8. CASE ~Grandpa
  <2>1. Submitted(r, h, j) = JustifyHeaders(r, h)
    BY <1>8 DEF Submitted
  <2>2. Same(r)
    BY DEF Same
  <2> QED BY <2>1, <2>2, <1>6
<1> QED BY <1>7, <1>8
-----------------------------------------------------------------------------
(* Steps of the specification.                                             *)

\* Where the relay states of memory and files come from: from each other,
\* from RelayState::new, or from submit_block.
LEMMA RelayMoves ==
    ASSUME [Next]_vars
    PROVE  LET Old == {relay, db.relay, backup.relay, Genesis} IN
           /\ db'.relay \in Old /\ backup'.relay \in Old
           /\ \/ relay' \in Old
              \/ \E h \in Heights : \E j : h = relay.last + 1 /\ relay' = Submitted(relay, h, j)
<1> DEFINE Old == {relay, db.relay, backup.relay, Genesis}
           Goal == /\ db'.relay \in Old /\ backup'.relay \in Old
                   /\ \/ relay' \in Old
                      \/ \E h \in Heights : \E j : h = relay.last + 1 /\ relay' = Submitted(relay, h, j)
<1> SUFFICES Goal
  OBVIOUS
<1>1. ASSUME NEW h \in Heights, NEW j, submit_block(h, j) PROVE Goal
  BY <1>1, Zenon DEF submit_block
<1>2. ASSUME NEW sent \in BOOLEAN, send_extrinsics(sent) PROVE Goal
  BY <1>2, Zenon DEF send_extrinsics
<1>3. CASE BeginBackup
  BY <1>3 DEF BeginBackup, Torn
<1>4. CASE EndBackup
  BY <1>4 DEF EndBackup, BackupCopy
<1>5. CASE BackupFails
  BY <1>5 DEF BackupFails
<1>6. CASE BeginWrite
  BY <1>6 DEF BeginWrite, Torn
<1>7. CASE EndWrite
  BY <1>7 DEF EndWrite, Sealed
<1>8. CASE WriteFails
  BY <1>8 DEF WriteFails
<1>9. CASE Crash
  BY <1>9 DEF Crash
<1>10. CASE Start
  BY <1>10 DEF Start, Recovered
<1>11. CASE UNCHANGED vars
  BY <1>11 DEF vars
<1> HIDE DEF Goal
<1> QED
  BY <1>1, <1>2, <1>3, <1>4, <1>5, <1>6, <1>7, <1>8, <1>9, <1>10, <1>11 DEF Next

\* The inductive invariant of the relay states.
Good(r) == r \in Relay /\ Consistent(r) /\ Handover(r)
RelayInv == Good(relay) /\ Good(db.relay) /\ Good(backup.relay)

\* RelayState::new is a good state.
LEMMA GenesisGood == Good(Genesis)
<1>1. Genesis \in Relay
  BY Bounds DEF Genesis, Relay, NoSchedule
<1>2. Genesis.header_hashes \o Genesis.unjustified_headers = <<0>>
  BY DEF Genesis
<1>3. Consistent(Genesis)
  <2>1. Genesis.last = 0 /\ Genesis.penultimate = 0 /\ Len(Genesis.header_hashes) = 1
    BY DEF Genesis
  <2>2. \A i \in 1 .. Len(<<0>>) : <<0>>[i] = 0 - Len(<<0>>) + i
    OBVIOUS
  <2> QED BY <1>2, <2>1, <2>2, Bounds DEF Consistent
<1>4. Handover(Genesis)
  <2>1. /\ Genesis.last = 0 /\ Genesis.validator_set = 0 /\ Genesis.validator_set_id = 0
        /\ Genesis.scheduled_change = NoSchedule
    BY DEF Genesis
  <2>2. Cardinality(Enacted(1)) \in Nat
    BY EnactedGrows
  <2> QED BY <2>1, <2>2 DEF Handover
<1> QED BY <1>1, <1>3, <1>4 DEF Good

\* Every relay state, in memory and in both files, is a state of the chain.
THEOREM RelayInvariant == Spec => []RelayInv
<1>1. Init => RelayInv
  BY GenesisGood DEF Init, RelayInv, Missing
<1>2. RelayInv /\ [Next]_vars => RelayInv'
  <2> SUFFICES ASSUME RelayInv, [Next]_vars PROVE Good(relay') /\ Good(db'.relay) /\ Good(backup'.relay)
    BY DEF RelayInv
  <2>1. \A r \in {relay, db.relay, backup.relay, Genesis} : Good(r)
    BY GenesisGood DEF RelayInv
  <2>2. ASSUME NEW h \in Heights, NEW j, h = relay.last + 1 PROVE Good(Submitted(relay, h, j))
    BY <2>1, <2>2, HandoverKept, ConsistentKept DEF Good
  <2> QED BY <2>1, <2>2, RelayMoves
<1> QED BY <1>1, <1>2, PTL DEF Spec

\* The header hashes and the headers that wait for a justification are all the
\* last headers, in order, in memory and in the sealed files: justify_headers,
\* push_header_hash and set_last_finalized_block_header.
THEOREM HeaderRunHolds == Spec => []HeaderRun
<1>1. RelayInv => HeaderRun
  BY DEF RelayInv, Good, HeaderRun
<1> QED BY <1>1, RelayInvariant, PTL

\* apply_validator_set_change never hands over to an authority set too early.
THEOREM NeverEarlyHolds == Spec => []NeverEarly
<1>1. RelayInv => NeverEarly
  <2> SUFFICES ASSUME RelayInv PROVE NeverEarly
    OBVIOUS
  <2>1. Handover(relay)
    BY DEF RelayInv, Good
  <2>2. /\ relay.validator_set \in Enacted(relay.last + 1) \cup {0}
        /\ relay.validator_set_id <= Cardinality(Enacted(relay.last + 1))
    BY <2>1, Zenon DEF Handover
  <2> QED BY <2>2, Zenon DEF NeverEarly
<1> QED BY <1>1, RelayInvariant, PTL
-----------------------------------------------------------------------------
(* The other variables.                                                    *)

\* The variables keep their types, whatever justifications the node sends and
\* whichever file operations fail: submit_block, seal and unseal.
THEOREM TypeCorrect == Spec => []TypeOK
<1> DEFINE Phases == {"down", "ready", "backup", "copying", "write", "writing"}
           Kinds == {"missing", "torn", "sealed"}
           Flags == starting \in BOOLEAN /\ ok \in BOOLEAN /\ phase \in Phases
           Files == db.kind \in Kinds /\ backup.kind \in Kinds
           Counts == /\ acked \in -1 .. MaxHeight
                     /\ crashes \in 0 .. MaxCrashes /\ failures \in 0 .. MaxFailures
           Rest == Flags /\ Files /\ Counts
<1>1. Init => Rest
  <2> SUFFICES ASSUME Init PROVE Rest
    OBVIOUS
  <2>1. Flags /\ Files
    BY DEF Init, Missing
  <2>2. Counts
    BY Bounds DEF Init
  <2> QED BY <2>1, <2>2
<1>2. RelayInv /\ Rest /\ [Next]_vars => Rest'
  <2> SUFFICES ASSUME RelayInv, Rest, [Next]_vars PROVE Rest'
    OBVIOUS
  <2>0. relay.last \in -1 .. MaxHeight
    <3>1. relay.last \in 0 .. MaxHeight
      BY RelayFields DEF RelayInv, Good
    <3> QED BY <3>1, Bounds
  <2> USE Bounds
  <2>1. ASSUME NEW h \in Heights, NEW j, submit_block(h, j) PROVE Rest'
    <3>1. Flags'
      BY <2>1 DEF submit_block, SubmitOk, Verifies
    <3> QED BY <2>1, <3>1 DEF submit_block
  <2>2. ASSUME NEW sent \in BOOLEAN, send_extrinsics(sent) PROVE Rest'
    BY <2>2 DEF send_extrinsics
  <2>3. CASE BeginBackup
    BY <2>3 DEF BeginBackup, Torn
  <2>4. CASE EndBackup
    BY <2>4 DEF EndBackup, BackupCopy
  <2>5. CASE BackupFails
    BY <2>5 DEF BackupFails
  <2>6. CASE BeginWrite
    BY <2>6 DEF BeginWrite, Torn
  <2>7. CASE EndWrite
    BY <2>7, <2>0 DEF EndWrite, Sealed
  <2>8. CASE WriteFails
    <3>1. Flags' /\ Files'
      BY <2>8 DEF WriteFails
    <3>2. Counts'
      BY <2>8 DEF WriteFails
    <3> QED BY <3>1, <3>2
  <2>9. CASE Crash
    <3>1. Flags' /\ Files'
      BY <2>9 DEF Crash
    <3>2. Counts'
      BY <2>9 DEF Crash
    <3> QED BY <3>1, <3>2
  <2>10. CASE Start
    BY <2>10 DEF Start, Recovered
  <2>11. CASE UNCHANGED vars
    BY <2>11 DEF vars
  <2> HIDE DEF Rest
  <2> QED
    BY <2>1, <2>2, <2>3, <2>4, <2>5, <2>6, <2>7, <2>8, <2>9, <2>10, <2>11 DEF Next
<1>3. RelayInv /\ Rest => TypeOK
  BY DEF RelayInv, Good, TypeOK
<1> HIDE DEF Rest
<1> QED BY <1>1, <1>2, <1>3, RelayInvariant, PTL DEF Spec

\* The header submitted becomes the last one, on every path.
LEMMA SubmittedLast ==
    ASSUME NEW r \in Relay, NEW h \in Heights, NEW j
    PROVE  Submitted(r, h, j).last = h
<1> DEFINE a == apply_validator_set_change(r, h)
           s == schedule_validator_set_change(a, h)
<1>1. a \in Relay
  BY Applied
<1>2. s \in Relay
  BY <1>1, Scheduled
<1>3. Submitted(r, h, j) \in {Unjustified(a, h), JustifyHeaders(s, h), JustifyHeaders(r, h)}
  BY DEF Submitted
<1>4. Unjustified(a, h).last = h
  BY <1>1, UnjustifiedFields
<1>5. JustifyHeaders(s, h).last = h /\ JustifyHeaders(r, h).last = h
  BY <1>2, JustifiedFields
<1> HIDE DEF a, s
<1> QED BY <1>3, <1>4, <1>5

\* The file can be unsealed and has the headers that callers rely on.
Holds(f) == f.kind = "sealed" /\ f.relay.last >= acked

\* The inductive invariant: which file has the state in which phase of a seal.
DurableInv ==
    failures = 0 /\ acked # -1 =>
        /\ Holds(Recovered)
        /\ phase \in {"ready", "backup", "copying", "write"} => Holds(db)
        /\ phase \in {"write", "writing"} => Holds(backup)
        /\ phase # "down" => relay.last >= acked

\* No step loses an acknowledged header while file operations succeed.
LEMMA DurableStep == TypeOK /\ DurableInv /\ [Next]_vars => DurableInv'
<1> SUFFICES ASSUME TypeOK, DurableInv, [Next]_vars, failures' = 0, acked' # -1
             PROVE  DurableInv'
  BY DEF DurableInv
<1>0. /\ relay \in Relay /\ relay.last \in Int /\ acked \in Int
      /\ failures \in 0 .. MaxFailures /\ MaxFailures \in Nat
  <2>1. relay \in Relay
    BY DEF TypeOK
  <2>2. acked \in -1 .. MaxHeight
    BY DEF TypeOK
  <2>3. failures \in 0 .. MaxFailures
    BY DEF TypeOK
  <2>4. relay.last \in 0 .. MaxHeight
    BY <2>1, RelayFields
  <2> QED BY <2>1, <2>2, <2>3, <2>4, Bounds
<1>1. ASSUME NEW h \in Heights, NEW j, submit_block(h, j) PROVE DurableInv'
  <2>1. relay'.last >= relay.last /\ relay'.last \in Int
    <3>1. CASE h = relay.last + 1
      <4>1. relay' = Submitted(relay, h, j)
        BY <1>1, <3>1 DEF submit_block
      <4>2. Submitted(relay, h, j).last = h
        BY <1>0, SubmittedLast
      <4> QED BY <4>1, <4>2, <3>1, <1>0
    <3>2. CASE h # relay.last + 1
      BY <1>1, <3>2, <1>0 DEF submit_block
    <3> QED BY <3>1, <3>2
  <2> QED BY <1>1, <2>1, <1>0 DEF submit_block, DurableInv, Holds, Recovered
<1>2. ASSUME NEW sent \in BOOLEAN, send_extrinsics(sent) PROVE DurableInv'
  BY <1>2 DEF send_extrinsics, DurableInv, Holds, Recovered
<1>3. CASE BeginBackup
  BY <1>3 DEF BeginBackup, DurableInv, Holds, Recovered, Torn
<1>4. CASE EndBackup
  BY <1>4 DEF EndBackup, BackupCopy, DurableInv, Holds, Recovered
<1>5. CASE BackupFails
  BY <1>5, <1>0 DEF BackupFails
<1>6. CASE BeginWrite
  BY <1>6 DEF BeginWrite, DurableInv, Holds, Recovered, Torn
<1>7. CASE EndWrite
  BY <1>7, <1>0 DEF EndWrite, DurableInv, Holds, Recovered, Sealed
<1>8. CASE WriteFails
  BY <1>8, <1>0 DEF WriteFails
<1>9. CASE Crash
  BY <1>9 DEF Crash, DurableInv, Holds, Recovered
<1>10. CASE Start
  BY <1>10 DEF Start, DurableInv, Holds, Recovered
<1>11. CASE UNCHANGED vars
  BY <1>11 DEF vars, DurableInv, Holds, Recovered
<1> QED
  BY <1>1, <1>2, <1>3, <1>4, <1>5, <1>6, <1>7, <1>8, <1>9, <1>10, <1>11 DEF Next

\* A crash at any point of seal, unseal or the start-up loses no header that a
\* caller was told to be in, as long as no file operation fails.
THEOREM DurableHolds == Spec => []Durable
<1>1. Init => DurableInv
  BY DEF Init, DurableInv
<1>2. DurableInv => Durable
  BY DEF DurableInv, Durable, Holds
<1> QED BY <1>1, <1>2, DurableStep, TypeCorrect, PTL DEF Spec

-----------------------------------------------------------------------------

LOCAL INSTANCE SequencesExt

ExtrinsicsSpec == ExtrinsicsInit /\ [][ExtrinsicsNext]_extrinsicsVars

-----------------------------------------------------------------------------
(* Extrinsics: the inductive invariant.                                    *)

ExtrinsicsTyped ==
    /\ nonceCache \in Nat /\ mainNonce \in Nat /\ chainNonce \in Nat
    /\ madeNow \in Seq(Nat) /\ unsent \in [Makers -> Seq(Nat)]
    /\ making \in [Makers -> [calls : 0 .. 2, first : Nat]]

\* A thread that makes extrinsics holds the guard of the cache, and has read what is in it.
Guarded ==
    \A t \in Makers : making[t] # NotMaking =>
        /\ nonceGuard = t /\ making[t].first = nonceCache /\ making[t].calls \in 1 .. 2
        /\ unsent[t] = <<>>

\* The cache goes on from what was made, and was set to a nonce the chain has reached.
CacheFollows ==
    /\ mainNonce <= chainNonce
    /\ madeNow = <<>> => nonceCache <= chainNonce
    /\ madeNow # <<>> => madeNow[1] <= chainNonce /\ nonceCache = madeNow[1] + Len(madeNow)

\* Where a nonce is that was made.
Accounted(k) ==
    \/ k < chainNonce \/ k \in txPool \/ k \in lostNow
    \/ \E t \in Makers : k \in ToSet(unsent[t])

ExtrinsicsInv ==
    /\ ExtrinsicsTyped /\ Guarded /\ CacheFollows /\ NoncesConsecutive
    /\ \A t \in Makers : t \in watched => unsent[t] # <<>>
    /\ \A k \in ToSet(madeNow) : Accounted(k)

LEMMA ExtrinsicsStart == ExtrinsicsInit => ExtrinsicsInv
<1> SUFFICES ASSUME ExtrinsicsInit PROVE ExtrinsicsInv OBVIOUS
<1>1. /\ nonceCache = 0 /\ mainNonce = 0 /\ chainNonce = 0 /\ madeNow = <<>> /\ watched = {}
      /\ making = [t \in Makers |-> NotMaking] /\ unsent = [t \in Makers |-> <<>>]
    BY DEF ExtrinsicsInit
<1>2. ExtrinsicsTyped
    <2>1. <<>> \in Seq(Nat) OBVIOUS
    <2>2. NotMaking \in [calls : 0 .. 2, first : Nat]
        BY DEF NotMaking
    <2> QED BY <1>1, <2>1, <2>2 DEF ExtrinsicsTyped
<1>3. Guarded /\ CacheFollows
    BY <1>1 DEF Guarded, CacheFollows
<1>4. NoncesConsecutive /\ ToSet(madeNow) = {}
    BY <1>1 DEF NoncesConsecutive, ToSet
<1> QED BY <1>1, <1>2, <1>3, <1>4 DEF ExtrinsicsInv

\* One is sent, the others stay.
LEMMA OneRemoved ==
    ASSUME NEW s \in Seq(Nat), NEW i \in DOMAIN s, NEW r, r = RemoveAt(s, i)
    PROVE  r \in Seq(Nat) /\ \A x \in ToSet(s) : x = s[i] \/ x \in ToSet(r)
<1>1. Len(s) \in Nat /\ i \in 1 .. Len(s)
    OBVIOUS
<1>2. PICK a : a = SubSeq(s, 1, i - 1) OBVIOUS
<1>3. PICK b : b = SubSeq(s, i + 1, Len(s)) OBVIOUS
<1>4. a \in Seq(Nat) /\ Len(a) = i - 1 /\ \A j \in 1 .. i - 1 : a[j] = s[j]
    BY <1>1, <1>2
<1>5. b \in Seq(Nat) /\ Len(b) = Len(s) - i /\ \A j \in 1 .. Len(s) - i : b[j] = s[i + j]
    BY <1>1, <1>3
<1>6. r = a \o b
    BY <1>2, <1>3 DEF RemoveAt
<1>7. r \in Seq(Nat) /\ Len(r) = Len(s) - 1
    BY <1>1, <1>4, <1>5, <1>6
<1>8. ASSUME NEW j \in 1 .. Len(s), j # i PROVE \E k \in 1 .. Len(r) : r[k] = s[j]
    <2>1. CASE j < i
        <3>1. j \in 1 .. Len(r) /\ j \in 1 .. Len(a)
            BY <1>1, <1>4, <1>7, <2>1
        <3>2. r[j] = a[j]
            BY <1>4, <1>5, <1>6, <1>7, <3>1
        <3> QED BY <1>4, <3>1, <3>2
    <2>2. CASE j > i
        <3>1. j - 1 \in 1 .. Len(r) /\ j - 1 > Len(a) /\ j - i \in 1 .. Len(s) - i /\ (j - 1) - Len(a) = j - i
            <4>1. Len(r) = Len(s) - 1 /\ Len(a) = i - 1
                BY <1>4, <1>7
            <4>2. i \in Nat /\ j \in Nat /\ j <= Len(s) /\ 1 <= i
                BY <1>1
            <4> QED BY <1>1, <2>2, <4>1, <4>2
        <3>2. r[j - 1] = b[(j - 1) - Len(a)]
            <4>1. \A u, w \in Seq(Nat) : /\ Len(u \o w) = Len(u) + Len(w)
                                        /\ \A k \in 1 .. Len(u) + Len(w) :
                                              (u \o w)[k] = IF k <= Len(u) THEN u[k] ELSE w[k - Len(u)]
                OBVIOUS
            <4>2. a \in Seq(Nat) /\ b \in Seq(Nat) /\ Len(r) = Len(a) + Len(b)
                BY <1>4, <1>5, <1>6, <4>1
            <4>3. Len(a) \in Nat /\ ~(j - 1 <= Len(a))
                BY <1>4, <3>1
            <4> QED BY <1>6, <3>1, <4>1, <4>2, <4>3
        <3>3. i + (j - i) = j
            BY <1>1
        <3>4. b[j - i] = s[i + (j - i)]
            BY <1>5, <3>1
        <3> QED BY <3>1, <3>2, <3>3, <3>4
    <2> QED BY <1>1, <1>8, <2>1, <2>2
<1>9. DOMAIN s = 1 .. Len(s) /\ DOMAIN r = 1 .. Len(r)
    BY <1>7
<1> QED BY <1>7, <1>8, <1>9 DEF ToSet

\* What a step may do to extrinsics on their way: they arrive, or are lost and noted.
OnTheirWay ==
    /\ unsent' \in [Makers -> Seq(Nat)]
    /\ \A t \in Makers : unsent[t] = <<>> => unsent'[t] = <<>>
    /\ \A t \in Makers : t \in watched' => unsent'[t] # <<>>
    /\ \A t \in Makers : \A k \in ToSet(unsent[t]) :
          \/ k \in ToSet(unsent'[t])
          \/ k < chainNonce' \/ k \in txPool' \/ k \in lostNow'
    /\ \A k \in txPool : k \in txPool' \/ k < chainNonce'
    /\ lostNow \subseteq lostNow'

LEMMA SendingKeeps ==
    ASSUME ExtrinsicsInv, OnTheirWay, UNCHANGED nonceVars,
           chainNonce' \in Nat, chainNonce' >= chainNonce, mainNonce' \in {mainNonce, chainNonce}
    PROVE  ExtrinsicsInv'
<1> USE DEF nonceVars
<1>1. ExtrinsicsTyped /\ Guarded /\ CacheFollows /\ NoncesConsecutive
    BY DEF ExtrinsicsInv
<1>2. ExtrinsicsTyped'
    BY <1>1 DEF ExtrinsicsTyped, OnTheirWay
<1>3. Guarded'
    BY <1>1 DEF Guarded, OnTheirWay
<1>4. CacheFollows'
    <2>1. mainNonce' <= chainNonce'
        BY <1>1 DEF CacheFollows, ExtrinsicsTyped
    <2>2. madeNow # <<>> => madeNow[1] \in Nat
        <3>1. \A s \in Seq(Nat) : s # <<>> => s[1] \in Nat
            OBVIOUS
        <3> QED BY <1>1, <3>1 DEF ExtrinsicsTyped
    <2>3. madeNow # <<>> => madeNow[1] <= chainNonce'
        BY <1>1, <2>2 DEF CacheFollows, ExtrinsicsTyped
    <2>4. madeNow = <<>> => nonceCache <= chainNonce'
        BY <1>1 DEF CacheFollows, ExtrinsicsTyped
    <2> QED BY <1>1, <2>1, <2>3, <2>4 DEF CacheFollows
<1>5. NoncesConsecutive'
    BY <1>1 DEF NoncesConsecutive
<1>6. ASSUME NEW k \in ToSet(madeNow) PROVE Accounted(k)'
    <2>1. k \in Nat
        BY <1>1 DEF ExtrinsicsTyped, ToSet
    <2>2. Accounted(k)
        BY DEF ExtrinsicsInv
    <2>3. CASE k < chainNonce
        <3>1. k < chainNonce'
            BY <1>1, <2>1, <2>3 DEF ExtrinsicsTyped
        <3> QED BY <3>1 DEF Accounted
    <2>4. CASE k \in txPool
        BY <2>4 DEF OnTheirWay, Accounted
    <2>5. CASE k \in lostNow
        BY <2>5 DEF OnTheirWay, Accounted
    <2>6. CASE \E t \in Makers : k \in ToSet(unsent[t])
        <3>1. PICK t \in Makers : k \in ToSet(unsent[t])
            BY <2>6
        <3>2. k \in ToSet(unsent'[t]) \/ k < chainNonce' \/ k \in txPool' \/ k \in lostNow'
            BY <3>1 DEF OnTheirWay
        <3>3. ToSet(unsent[t])' = ToSet(unsent'[t])
            BY DEF ToSet
        <3> QED BY <3>2, <3>3 DEF Accounted
    <2> QED BY <2>2, <2>3, <2>4, <2>5, <2>6 DEF Accounted
<1>7. ToSet(madeNow)' = ToSet(madeNow)
    BY DEF ToSet
<1>8. \A t \in Makers : t \in watched' => unsent'[t] # <<>>
    BY DEF OnTheirWay
<1> QED BY <1>2, <1>3, <1>4, <1>5, <1>6, <1>7, <1>8 DEF ExtrinsicsInv

\* Nothing moves.
LEMMA NothingSent ==
    ASSUME ExtrinsicsInv, UNCHANGED <<unsent, watched>>, lostNow \subseteq lostNow',
           \A k \in txPool : k \in txPool' \/ k < chainNonce'
    PROVE  OnTheirWay
<1>1. unsent' \in [Makers -> Seq(Nat)]
    BY DEF ExtrinsicsInv, ExtrinsicsTyped
<1>2. \A t \in Makers : t \in watched' => unsent'[t] # <<>>
    BY DEF ExtrinsicsInv
<1> QED BY <1>1, <1>2 DEF OnTheirWay

\* A thread gives up all it has.
LEMMA AllLost ==
    ASSUME ExtrinsicsInv, NEW t \in Makers, t \notin watched, UNCHANGED <<watched, txPool, chainNonce>>,
           unsent' = [unsent EXCEPT ![t] = <<>>], lostNow' = lostNow \cup ToSet(unsent[t])
    PROVE  OnTheirWay
<1>1. unsent' \in [Makers -> Seq(Nat)] /\ unsent'[t] = <<>> /\ \A u \in Makers \ {t} : unsent'[u] = unsent[u]
    <2>1. <<>> \in Seq(Nat) OBVIOUS
    <2> QED BY <2>1 DEF ExtrinsicsInv, ExtrinsicsTyped
<1>2. \A u \in Makers : u \in watched' => unsent'[u] # <<>>
    BY <1>1 DEF ExtrinsicsInv
<1>3. \A u \in Makers : \A k \in ToSet(unsent[u]) : k \in ToSet(unsent'[u]) \/ k \in lostNow'
    BY <1>1
<1> QED BY <1>1, <1>2, <1>3 DEF OnTheirWay

LEMMA PanicOrGiveUp ==
    ASSUME ExtrinsicsInv, NEW t \in Makers, t \notin watched, UNCHANGED <<watched, txPool, chainNonce>>,
           Panic(t) \/ GiveUp(t) \/ UNCHANGED <<unsent, lostNow>>
    PROVE  OnTheirWay
<1>1. CASE UNCHANGED <<unsent, lostNow>>
    BY <1>1, NothingSent
<1>2. CASE unsent' = [unsent EXCEPT ![t] = <<>>] /\ lostNow' = lostNow \cup ToSet(unsent[t])
    BY <1>2, AllLost
<1> QED BY <1>1, <1>2 DEF Panic, GiveUp

LEMMA ExecuteSendKeeps ==
    ASSUME ExtrinsicsInv, NEW t \in Makers, execute_send(t)
    PROVE  ExtrinsicsInv'
<1>1. PICK i \in NextToSend(t) : send_to_parentchain(t, i)
    BY DEF execute_send
<1>2. /\ unsent[t] # <<>> /\ t \notin watched
      /\ UNCHANGED <<mainNonce, nonceVars, chainNonce>>
    BY DEF execute_send, Sender
<1>3. unsent \in [Makers -> Seq(Nat)] /\ chainNonce \in Nat
    BY DEF ExtrinsicsInv, ExtrinsicsTyped
<1>4. PICK s \in Seq(Nat) : s = unsent[t]
    BY <1>3
<1>5. i \in DOMAIN s
    BY <1>2, <1>4 DEF NextToSend
<1>6. PICK r : r = RemoveAt(s, i) OBVIOUS
<1>7. r \in Seq(Nat) /\ \A x \in ToSet(s) : x = s[i] \/ x \in ToSet(r)
    BY <1>5, <1>6, OneRemoved
<1>8. /\ txPool \subseteq txPool' /\ lostNow \subseteq lostNow'
      /\ \/ UNCHANGED unsent /\ watched' = watched \cup {t}
         \/ unsent' = [unsent EXCEPT ![t] = r] /\ watched' = watched /\ (s[i] \in txPool' \/ s[i] \in lostNow')
    BY <1>1, <1>4, <1>6 DEF send_to_parentchain
<1>9. OnTheirWay
    <2>1. CASE UNCHANGED unsent /\ watched' = watched \cup {t}
        <3>1. \A u \in Makers : u \in watched' => unsent'[u] # <<>>
            BY <1>2, <2>1 DEF ExtrinsicsInv
        <3> QED BY <1>3, <1>8, <2>1, <3>1 DEF OnTheirWay
    <2>2. CASE unsent' = [unsent EXCEPT ![t] = r] /\ watched' = watched /\ (s[i] \in txPool' \/ s[i] \in lostNow')
        <3>1. unsent' \in [Makers -> Seq(Nat)] /\ unsent'[t] = r /\ \A u \in Makers \ {t} : unsent'[u] = unsent[u]
            BY <1>3, <1>7, <2>2
        <3>2. \A u \in Makers : unsent[u] = <<>> => unsent'[u] = <<>>
            BY <1>2, <3>1
        <3>3. \A u \in Makers : u \in watched' => unsent'[u] # <<>>
            BY <1>2, <2>2, <3>1 DEF ExtrinsicsInv
        <3>4. \A u \in Makers : \A k \in ToSet(unsent[u]) : k \in ToSet(unsent'[u]) \/ k \in txPool' \/ k \in lostNow'
            BY <1>4, <1>7, <2>2, <3>1
        <3> QED BY <1>8, <3>1, <3>2, <3>3, <3>4 DEF OnTheirWay
    <2> QED BY <1>8, <2>1, <2>2
<1> QED BY <1>2, <1>3, <1>9, SendingKeeps

LEMMA IncludedKeeps ==
    ASSUME ExtrinsicsInv, NEW t \in Makers, watched_is_included(t)
    PROVE  ExtrinsicsInv'
<1>1. /\ t \in watched /\ chainNonce > Head(unsent[t]) /\ watched' = watched \ {t}
      /\ unsent' = [unsent EXCEPT ![t] = Tail(unsent[t])]
      /\ UNCHANGED <<mainNonce, nonceVars, lostNow, nodeVars>>
    BY DEF watched_is_included, Held
<1>2. unsent \in [Makers -> Seq(Nat)] /\ chainNonce \in Nat /\ unsent[t] # <<>>
    BY <1>1 DEF ExtrinsicsInv, ExtrinsicsTyped
<1>3. PICK s \in Seq(Nat) : s = unsent[t]
    BY <1>2
<1>4. Tail(s) \in Seq(Nat) /\ \A x \in ToSet(s) : x = Head(s) \/ x \in ToSet(Tail(s))
    <2>1. /\ Len(s) \in Nat /\ Len(s) > 0 /\ Tail(s) \in Seq(Nat) /\ Len(Tail(s)) = Len(s) - 1 /\ Head(s) = s[1]
          /\ \A j \in 1 .. Len(s) - 1 : Tail(s)[j] = s[j + 1]
        BY <1>2, <1>3
    <2>2. ASSUME NEW j \in 1 .. Len(s), j # 1 PROVE \E k \in 1 .. Len(Tail(s)) : Tail(s)[k] = s[j]
        <3>1. j - 1 \in 1 .. Len(s) - 1 /\ (j - 1) + 1 = j
            BY <2>1, <2>2
        <3> QED BY <2>1, <3>1
    <2>3. DOMAIN s = 1 .. Len(s) /\ DOMAIN Tail(s) = 1 .. Len(Tail(s))
        BY <2>1
    <2>4. PICK u : u = Tail(s) OBVIOUS
    <2>5. \A j \in DOMAIN s : s[j] = s[1] \/ \E k \in DOMAIN u : s[j] = u[k]
        BY <2>2, <2>3, <2>4
    <2>6. \A x \in ToSet(s) : x = s[1] \/ x \in ToSet(u)
        BY <2>5 DEF ToSet
    <2> QED BY <2>1, <2>4, <2>6
<1>5. unsent' \in [Makers -> Seq(Nat)] /\ unsent'[t] = Tail(s) /\ \A u \in Makers \ {t} : unsent'[u] = unsent[u]
    BY <1>1, <1>2, <1>3, <1>4
<1>6. OnTheirWay
    <2>1. \A u \in Makers : unsent[u] = <<>> => unsent'[u] = <<>>
        BY <1>2, <1>5
    <2>2. \A u \in Makers : u \in watched' => unsent'[u] # <<>>
        BY <1>1, <1>5 DEF ExtrinsicsInv
    <2>3. \A u \in Makers : \A k \in ToSet(unsent[u]) : k \in ToSet(unsent'[u]) \/ k < chainNonce'
        BY <1>1, <1>3, <1>4, <1>5 DEF nodeVars
    <2> QED BY <1>1, <1>5, <2>1, <2>2, <2>3 DEF OnTheirWay, nodeVars
<1> QED BY <1>1, <1>2, <1>6, SendingKeeps DEF nodeVars

\* The guard keeps everybody else out until the nonce is written back.
LEMMA CreateKeeps ==
    ASSUME ExtrinsicsInv, NEW t \in Makers, create_extrinsics(t)
    PROVE  ExtrinsicsInv'
<1>1. ExtrinsicsTyped /\ Guarded /\ CacheFollows /\ NoncesConsecutive
    BY DEF ExtrinsicsInv
<1>2. making[t] # NotMaking
    BY DEF create_extrinsics
<1>3. nonceGuard = t /\ making[t].first = nonceCache /\ making[t].calls \in 1 .. 2 /\ unsent[t] = <<>>
    BY <1>1, <1>2 DEF Guarded
<1>4. PICK c \in 1 .. 2 : c = making[t].calls
    BY <1>3
<1>5. PICK n \in Nat : n = nonceCache
    BY <1>1 DEF ExtrinsicsTyped
<1>6. PICK xts : xts = [i \in 1 .. c |-> n + i - 1] OBVIOUS
<1>7. /\ nonceCache' = n + c /\ unsent' = [unsent EXCEPT ![t] = xts] /\ madeNow' = madeNow \o xts
      /\ making' = [making EXCEPT ![t] = NotMaking] /\ nonceGuard' = "none"
      /\ UNCHANGED <<mainNonce, watched, lostNow, txPool, chainNonce>>
    BY <1>3, <1>4, <1>5, <1>6 DEF create_extrinsics, mainVars, nodeVars
<1>8. xts \in Seq(Nat) /\ Len(xts) = c /\ xts # <<>> /\ \A i \in 1 .. c : xts[i] = n + i - 1
    <2>1. \A q \in [1 .. c -> Nat] : q \in Seq(Nat) /\ Len(q) = c
        OBVIOUS
    <2>2. xts \in [1 .. c -> Nat] /\ \A i \in 1 .. c : xts[i] = n + i - 1
        BY <1>6
    <2>3. xts \in Seq(Nat) /\ Len(xts) = c
        BY <2>1, <2>2
    <2> QED BY <2>2, <2>3
<1>9. PICK h \in Seq(Nat) : h = madeNow
    BY <1>1 DEF ExtrinsicsTyped
<1>10. PICK g : g = h \o xts OBVIOUS
<1>11. /\ g \in Seq(Nat) /\ Len(g) = Len(h) + c /\ Len(h) \in Nat
       /\ \A i \in 1 .. Len(g) : g[i] = IF i <= Len(h) THEN h[i] ELSE xts[i - Len(h)]
    BY <1>8, <1>10
<1>12. madeNow' = g
    BY <1>7, <1>9, <1>10
<1>13. PICK b \in Nat : /\ g[1] = b /\ b <= chainNonce /\ b + Len(h) = n
                        /\ \A i \in 1 .. Len(h) : h[i] = b + i - 1
    <2>1. CASE h = <<>>
        <3>1. Len(h) = 0 /\ 1 \in 1 .. Len(g)
            BY <1>11, <2>1
        <3>2. g[1] = xts[1] /\ xts[1] = n
            BY <1>8, <1>11, <3>1
        <3>3. n <= chainNonce
            BY <1>1, <1>5, <1>9, <2>1 DEF CacheFollows
        <3> QED BY <3>1, <3>2, <3>3
    <2>2. CASE h # <<>>
        <3>1. Len(h) > 0 /\ 1 \in 1 .. Len(g) /\ h[1] \in Nat
            BY <1>11, <2>2
        <3>2. g[1] = h[1]
            BY <1>11, <3>1
        <3>3. h[1] <= chainNonce /\ n = h[1] + Len(h)
            BY <1>1, <1>5, <1>9, <2>2 DEF CacheFollows
        <3>4. \A i \in 1 .. Len(h) : h[i] = h[1] + i - 1
            BY <1>1, <1>9 DEF NoncesConsecutive
        <3> QED BY <3>1, <3>2, <3>3, <3>4
    <2> QED BY <2>1, <2>2
<1>14. \A i \in 1 .. Len(g) : g[i] = b + i - 1
    <2> SUFFICES ASSUME NEW i \in 1 .. Len(g) PROVE g[i] = b + i - 1
        OBVIOUS
    <2>1. CASE i <= Len(h)
        <3>1. i \in 1 .. Len(h)
            BY <1>11, <2>1
        <3>2. g[i] = h[i]
            BY <1>11, <2>1
        <3> QED BY <1>13, <3>1, <3>2
    <2>2. CASE ~(i <= Len(h))
        <3>1. i - Len(h) \in 1 .. c
            BY <1>11, <2>2
        <3>2. g[i] = xts[i - Len(h)]
            BY <1>11, <2>2
        <3>3. xts[i - Len(h)] = n + (i - Len(h)) - 1
            BY <1>8, <3>1
        <3>4. b + Len(h) = n /\ Len(h) \in Nat /\ b \in Nat /\ i \in Nat
            BY <1>11, <1>13
        <3>5. n + (i - Len(h)) - 1 = b + i - 1
            BY <3>4
        <3> QED BY <3>2, <3>3, <3>5
    <2> QED BY <2>1, <2>2
<1>15. ExtrinsicsTyped'
    <2>1. unsent' \in [Makers -> Seq(Nat)]
        BY <1>1, <1>7, <1>8 DEF ExtrinsicsTyped
    <2>2. making' \in [Makers -> [calls : 0 .. 2, first : Nat]]
        <3>1. NotMaking \in [calls : 0 .. 2, first : Nat]
            BY DEF NotMaking
        <3> QED BY <1>1, <1>7, <3>1 DEF ExtrinsicsTyped
    <2>3. nonceCache' \in Nat
        BY <1>7
    <2> QED BY <1>1, <1>7, <1>11, <1>12, <2>1, <2>2, <2>3 DEF ExtrinsicsTyped
<1>16. Guarded'
    <2>1. \A u \in Makers : making'[u] = NotMaking
        BY <1>1, <1>3, <1>7 DEF Guarded, ExtrinsicsTyped
    <2> QED BY <2>1 DEF Guarded
<1>17. CacheFollows'
    <2>1. g # <<>> /\ nonceCache' = b + Len(g)
        <3>1. Len(g) = Len(h) + c /\ Len(h) \in Nat /\ b + Len(h) = n /\ b \in Nat /\ Len(<<>>) = 0
            BY <1>11, <1>13
        <3>2. Len(g) # 0 /\ n + c = b + Len(g)
            BY <3>1
        <3> QED BY <1>7, <3>1, <3>2
    <2> QED BY <1>1, <1>7, <1>12, <1>13, <2>1 DEF CacheFollows
<1>18. NoncesConsecutive'
    BY <1>12, <1>13, <1>14 DEF NoncesConsecutive
<1>19. unsent'[t] = xts /\ \A u \in Makers \ {t} : unsent'[u] = unsent[u]
    BY <1>1, <1>7 DEF ExtrinsicsTyped
<1>20. \A u \in Makers : u \in watched' => unsent'[u] # <<>>
    BY <1>7, <1>8, <1>19 DEF ExtrinsicsInv
<1>21. ASSUME NEW k \in ToSet(madeNow)' PROVE Accounted(k)'
    <2>1. PICK i \in 1 .. Len(g) : k = g[i]
        BY <1>11, <1>12, <1>21 DEF ToSet
    <2>2. CASE i <= Len(h)
        <3>1. k \in ToSet(madeNow)
            <4>1. k = h[i] /\ i \in 1 .. Len(h) /\ DOMAIN h = 1 .. Len(h)
                BY <1>11, <2>1, <2>2
            <4> QED BY <1>9, <4>1 DEF ToSet
        <3>2. Accounted(k)
            BY <3>1 DEF ExtrinsicsInv
        <3>3. \A u \in Makers : k \in ToSet(unsent[u]) => k \in ToSet(unsent'[u])
            <4>1. ToSet(unsent[t]) = {}
                BY <1>3 DEF ToSet
            <4> QED BY <1>19, <4>1
        <3>4. \A u \in Makers : ToSet(unsent[u])' = ToSet(unsent'[u])
            BY DEF ToSet
        <3> QED BY <1>7, <3>2, <3>3, <3>4 DEF Accounted
    <2>3. CASE ~(i <= Len(h))
        <3>1. i - Len(h) \in 1 .. c /\ k = xts[i - Len(h)] /\ DOMAIN xts = 1 .. c
            BY <1>8, <1>11, <2>1, <2>3
        <3>2. k \in ToSet(unsent'[t])
            BY <1>19, <3>1 DEF ToSet
        <3>3. ToSet(unsent[t])' = ToSet(unsent'[t])
            BY DEF ToSet
        <3> QED BY <3>2, <3>3 DEF Accounted
    <2> QED BY <2>2, <2>3
<1> QED BY <1>15, <1>16, <1>17, <1>18, <1>20, <1>21 DEF ExtrinsicsInv

LEMMA BeginKeeps ==
    ASSUME ExtrinsicsInv, NEW t \in Makers, begin_extrinsics(t)
    PROVE  ExtrinsicsInv'
<1>1. PICK c \in CallsMade(t) : making' = [making EXCEPT ![t] = [calls |-> c, first |-> nonceCache]]
    BY DEF begin_extrinsics
<1>2. /\ nonceGuard = "none" /\ nonceGuard' = t /\ unsent[t] = <<>>
      /\ UNCHANGED <<mainNonce, nonceCache, unsent, watched, madeNow, lostNow, txPool, chainNonce>>
    BY DEF begin_extrinsics, load_for_mutation, AtRest, mainVars, nodeVars
<1>3. ExtrinsicsTyped /\ Guarded /\ CacheFollows /\ NoncesConsecutive
    BY DEF ExtrinsicsInv
<1>4. c \in 1 .. 2
    BY DEF CallsMade
<1>5. PICK r : r = [calls |-> c, first |-> nonceCache] OBVIOUS
<1>6. r \in [calls : 0 .. 2, first : Nat] /\ r.calls = c /\ r.first = nonceCache
    BY <1>3, <1>4, <1>5 DEF ExtrinsicsTyped
<1>7. /\ making' \in [Makers -> [calls : 0 .. 2, first : Nat]] /\ making'[t] = r
      /\ \A u \in Makers \ {t} : making'[u] = making[u]
    BY <1>1, <1>3, <1>5, <1>6 DEF ExtrinsicsTyped
<1>8. \A u \in Makers : making[u] = NotMaking
    BY <1>2, <1>3 DEF Guarded, Makers, EnclaveThreads, TeeracleThreads
<1>9. ExtrinsicsTyped'
    BY <1>2, <1>3, <1>7 DEF ExtrinsicsTyped
<1>10. Guarded'
    BY <1>2, <1>4, <1>6, <1>7, <1>8 DEF Guarded
<1>11. CacheFollows' /\ NoncesConsecutive'
    BY <1>2, <1>3 DEF CacheFollows, NoncesConsecutive
<1>12. ToSet(madeNow)' = ToSet(madeNow) /\ \A k : Accounted(k)' <=> Accounted(k)
    BY <1>2 DEF ToSet, Accounted
<1> QED BY <1>2, <1>9, <1>10, <1>11, <1>12 DEF ExtrinsicsInv

LEMMA SetNonceKeeps ==
    ASSUME ExtrinsicsInv, set_nonce
    PROVE  ExtrinsicsInv'
<1>1. /\ nonceGuard = "none" /\ nonceCache' = mainNonce /\ madeNow' = <<>>
      /\ UNCHANGED <<mainNonce, nonceGuard, making, unsent, watched, txPool, chainNonce>>
    BY DEF set_nonce, nodeVars
<1>2. ExtrinsicsTyped /\ Guarded /\ CacheFollows
    BY DEF ExtrinsicsInv
<1>3. \A u \in Makers : making[u] = NotMaking
    BY <1>1, <1>2 DEF Guarded, Makers, EnclaveThreads, TeeracleThreads
<1>4. ExtrinsicsTyped'
    <2>1. madeNow' \in Seq(Nat)
        BY <1>1
    <2> QED BY <1>1, <1>2, <2>1 DEF ExtrinsicsTyped
<1>5. Guarded' /\ CacheFollows'
    BY <1>1, <1>2, <1>3 DEF Guarded, CacheFollows
<1>6. NoncesConsecutive' /\ ToSet(madeNow)' = {}
    BY <1>1 DEF NoncesConsecutive, ToSet
<1> QED BY <1>1, <1>4, <1>5, <1>6 DEF ExtrinsicsInv

LEMMA RestartServiceKeeps ==
    ASSUME ExtrinsicsInv, restart_service
    PROVE  ExtrinsicsInv'
<1>1. /\ mainNonce' = 0 /\ nonceCache' = 0 /\ making' = [t \in Makers |-> NotMaking]
      /\ unsent' = [t \in Makers |-> <<>>] /\ watched' = {} /\ madeNow' = <<>> /\ chainNonce' = chainNonce
    BY DEF restart_service, nodeVars
<1>2. chainNonce \in Nat
    BY DEF ExtrinsicsInv, ExtrinsicsTyped
<1>3. ExtrinsicsTyped'
    <2>1. <<>> \in Seq(Nat) OBVIOUS
    <2>2. NotMaking \in [calls : 0 .. 2, first : Nat]
        BY DEF NotMaking
    <2> QED BY <1>1, <1>2, <2>1, <2>2 DEF ExtrinsicsTyped
<1>4. Guarded' /\ CacheFollows'
    BY <1>1, <1>2 DEF Guarded, CacheFollows
<1>5. NoncesConsecutive' /\ ToSet(madeNow)' = {}
    BY <1>1 DEF NoncesConsecutive, ToSet
<1> QED BY <1>1, <1>3, <1>4, <1>5 DEF ExtrinsicsInv

\* What the threads do with one extrinsic that is registered, and how it fails.
LEMMA RegistrationKeeps ==
    ASSUME ExtrinsicsInv, NEW t \in Makers,
           \/ send_integritee_extrinsic(t) \/ submission_fails(t) \/ attestation_fails(t)
           \/ extrinsic_exceeds_buffer(t) \/ estimate_fee_fails(t) \/ create_api_fails(t)
    PROVE  ExtrinsicsInv'
<1>1. chainNonce \in Nat
    BY DEF ExtrinsicsInv, ExtrinsicsTyped
<1>2. CASE send_integritee_extrinsic(t)
    <2>1. /\ unsent[t] # <<>> /\ watched' = watched \cup {t} /\ txPool \subseteq txPool'
          /\ UNCHANGED <<mainNonce, nonceVars, unsent, lostNow, chainNonce>>
        BY <1>2 DEF send_integritee_extrinsic, HasOne, mainVars
    <2>2. OnTheirWay
        <3>1. unsent' \in [Makers -> Seq(Nat)]
            BY <2>1 DEF ExtrinsicsInv, ExtrinsicsTyped
        <3>2. \A u \in Makers : u \in watched' => unsent'[u] # <<>>
            BY <2>1 DEF ExtrinsicsInv
        <3> QED BY <2>1, <3>1, <3>2 DEF OnTheirWay
    <2> QED BY <1>1, <2>1, <2>2, SendingKeeps
<1>3. CASE submission_fails(t) \/ attestation_fails(t) \/ extrinsic_exceeds_buffer(t) \/ estimate_fee_fails(t)
    <2>1. /\ UNCHANGED <<mainNonce, nonceVars, watched, txPool, chainNonce>>
          /\ Panic(t) \/ GiveUp(t) \/ UNCHANGED <<unsent, lostNow>>
        BY <1>3 DEF submission_fails, attestation_fails, extrinsic_exceeds_buffer, estimate_fee_fails, nodeVars
    <2>2. t \notin watched
        BY <1>3 DEF submission_fails, attestation_fails, extrinsic_exceeds_buffer, estimate_fee_fails, HasOne,
                    AtRest, ExtrinsicsInv
    <2>3. OnTheirWay
        BY <2>1, <2>2, PanicOrGiveUp
    <2> QED BY <1>1, <2>1, <2>3, SendingKeeps
<1>4. CASE create_api_fails(t)
    <2>1. /\ t \notin watched /\ lostNow' = lostNow \cup ToSet(unsent[t])
          /\ unsent' = [unsent EXCEPT ![t] = <<>>]
          /\ UNCHANGED <<mainNonce, nonceVars, watched, txPool, chainNonce>>
        BY <1>4 DEF create_api_fails, Sender, nodeVars
    <2>2. OnTheirWay
        BY <2>1, AllLost
    <2> QED BY <1>1, <2>1, <2>2, SendingKeeps
<1> QED BY <1>2, <1>3, <1>4

LEMMA ExtrinsicsStep ==
    ASSUME ExtrinsicsInv, [ExtrinsicsNext]_extrinsicsVars
    PROVE  ExtrinsicsInv'
<1>1. chainNonce \in Nat
    BY DEF ExtrinsicsInv, ExtrinsicsTyped
<1>2. ASSUME UNCHANGED <<unsent, watched, lostNow, nonceVars, txPool, chainNonce>>,
             mainNonce' \in {mainNonce, chainNonce}
      PROVE  ExtrinsicsInv'
    <2>1. OnTheirWay
        BY <1>2, NothingSent
    <2> QED BY <1>1, <1>2, <2>1, SendingKeeps
<1>3. CASE \/ UNCHANGED extrinsicsVars \/ init_parentchain \/ primary_worker_for_shard
           \/ setup_reasonable_account_funding \/ crash_service
    <2>1. /\ UNCHANGED <<unsent, watched, lostNow, nonceVars, txPool, chainNonce>>
          /\ mainNonce' \in {mainNonce, chainNonce}
        BY <1>3 DEF extrinsicsVars, init_parentchain, primary_worker_for_shard, setup_reasonable_account_funding,
                    crash_service, mainVars, nodeVars
    <2> QED BY <1>2, <2>1
<1>4. CASE include_extrinsic
    <2>1. /\ chainNonce' = chainNonce + 1 /\ txPool' = txPool \ {chainNonce}
          /\ UNCHANGED <<mainNonce, nonceVars, unsent, watched, lostNow>>
        BY <1>4 DEF include_extrinsic, mainVars
    <2>2. chainNonce' \in Nat /\ chainNonce' >= chainNonce /\ chainNonce < chainNonce'
        BY <1>1, <2>1
    <2>3. \A k \in txPool : k \in txPool' \/ k < chainNonce'
        BY <2>1, <2>2
    <2>4. OnTheirWay
        BY <2>1, <2>3, NothingSent
    <2> QED BY <2>1, <2>2, <2>4, SendingKeeps
<1>5. CASE set_nonce \/ restart_service
    BY <1>5, SetNonceKeeps, RestartServiceKeeps
<1>6. ASSUME NEW t \in Makers,
             \/ begin_extrinsics(t) \/ create_extrinsics(t) \/ execute_send(t)
             \/ send_integritee_extrinsic(t) \/ watched_is_included(t) \/ submission_fails(t)
             \/ attestation_fails(t) \/ extrinsic_exceeds_buffer(t) \/ estimate_fee_fails(t) \/ create_api_fails(t)
      PROVE  ExtrinsicsInv'
    BY <1>6, BeginKeeps, CreateKeeps, ExecuteSendKeeps, IncludedKeeps, RegistrationKeeps
<1>7. "main" \in Makers
    BY DEF Makers
<1> QED BY <1>3, <1>4, <1>5, <1>6, <1>7 DEF ExtrinsicsNext, MainStep

\* A nonce below one that was made and is not below the chain's was made too.
LEMMA StallsAreAccounted ==
    ASSUME ExtrinsicsInv
    PROVE  NoncesConsecutive /\ OnlyFailuresStall
<1>1. ExtrinsicsTyped /\ CacheFollows /\ NoncesConsecutive
    BY DEF ExtrinsicsInv
<1>2. ASSUME NEW n \in ToSet(madeNow) \cap txPool, NEW k \in chainNonce .. n - 1
      PROVE  \/ k \in txPool \/ k \in lostNow
             \/ \E t \in Makers : k \in ToSet(unsent[t])
    <2>1. PICK h \in Seq(Nat) : h = madeNow
        BY <1>1 DEF ExtrinsicsTyped
    <2>2. PICK j \in 1 .. Len(h) : n = h[j]
        BY <1>2, <2>1 DEF ToSet
    <2>3. Len(h) \in Nat /\ h # <<>> /\ h[1] \in Nat /\ chainNonce \in Nat
        BY <1>1, <2>2 DEF ExtrinsicsTyped
    <2>4. h[1] <= chainNonce /\ \A i \in 1 .. Len(h) : h[i] = h[1] + i - 1
        BY <1>1, <2>1, <2>3 DEF CacheFollows, NoncesConsecutive
    <2>5. n = h[1] + j - 1
        BY <2>2, <2>4
    <2>6. k \in Int /\ chainNonce <= k /\ k <= n - 1
        BY <2>3, <2>5
    <2>7. PICK i \in 1 .. Len(h) : i = k - h[1] + 1
        BY <2>2, <2>3, <2>4, <2>5, <2>6
    <2>8. h[i] = k
        <3>1. h[i] = h[1] + i - 1
            BY <2>4
        <3>2. PICK x \in Nat : x = h[1]
            BY <2>3
        <3>3. i = k - x + 1 /\ k \in Int
            BY <2>6, <2>7, <3>2
        <3>4. x + i - 1 = k
            BY <3>3
        <3> QED BY <3>1, <3>2, <3>4
    <2>9. k \in ToSet(madeNow)
        <3>1. DOMAIN h = 1 .. Len(h)
            OBVIOUS
        <3> QED BY <2>1, <2>7, <2>8, <3>1 DEF ToSet
    <2>10. Accounted(k) /\ ~(k < chainNonce)
        BY <2>3, <2>6, <2>9 DEF ExtrinsicsInv
    <2> QED BY <2>10 DEF Accounted
<1> QED BY <1>1, <1>2 DEF OnlyFailuresStall

\* Extrinsics have consecutive nonces whatever threads make them at the same time, and what
\* waits at the node waits for one that is on its way or was lost by a failure that is logged,
\* through panics, restarts and a second setting of the nonce (ExtrinsicsFactory, NonceCache).
THEOREM OnlyFailuresLeaveGaps == ExtrinsicsSpec => [](NoncesConsecutive /\ OnlyFailuresStall)
<1>1. ExtrinsicsInit => ExtrinsicsInv
    BY ExtrinsicsStart
<1>2. ExtrinsicsInv /\ [ExtrinsicsNext]_extrinsicsVars => ExtrinsicsInv'
    BY ExtrinsicsStep
<1>3. ExtrinsicsInv => NoncesConsecutive /\ OnlyFailuresStall
    BY StallsAreAccounted
<1> QED BY <1>1, <1>2, <1>3, PTL DEF ExtrinsicsSpec

TeeracleSpec == TeeracleInit /\ [][TeeracleNext]_teeracleVars

-----------------------------------------------------------------------------
(* Teeracle: the inductive invariant.                                      *)

\* Calls with a rate that came under a root of their source.
VerifiedCalls ==
    {x \in [nonce : Int, call : SourceSet,
            rate : [round : Nat, root : UNION {HostRoots[s] : s \in SourceSet}]] :
        x.rate.root \in RootCertificates[x.call]}

\* Rounds without a rate.
EmptyRounds == {r \in 1 .. round : \A s \in SourceSet : r \notin answered[s]}

TeeracleTyped ==
    /\ market \in [at : 0 .. 2, tries : Nat, calls : Seq(VerifiedCalls)]
    /\ round \in Nat /\ oracleNonce \in Int /\ requestFailures \in Nat
    /\ answered \in [SourceSet -> SUBSET (1 .. round)]
    /\ DOMAIN rates = SourceSet
    /\ \A x \in tasks \cup nodePool : x \in VerifiedCalls \/ x.call = "register"

\* In a round the calls say whether a source answered, and the round does not count yet.
RoundInv ==
    /\ market.at = 0 => requestFailures = Cardinality(EmptyRounds)
    /\ market.at # 0 =>
          /\ requestFailures = Cardinality(EmptyRounds \ {round}) /\ round \in 1 .. round
          /\ market.calls = <<>> <=> round \in EmptyRounds

TeeracleInv == TeeracleTyped /\ RoundInv /\ RatesAreVerified

LEMMA TwoSources ==
    /\ SourceSet = {OracleSources[1], OracleSources[2]} /\ Len(OracleSources) = 2
    /\ "register" \notin SourceSet
BY DEF SourceSet, OracleSources, ToSet

LEMMA RoundsFinite ==
    ASSUME round \in Nat
    PROVE  /\ IsFiniteSet(EmptyRounds) /\ Cardinality(EmptyRounds) \in Nat
           /\ Cardinality(EmptyRounds \ {round}) =
                IF round \in EmptyRounds THEN Cardinality(EmptyRounds) - 1 ELSE Cardinality(EmptyRounds)
<1>1. IsFiniteSet(1 .. round)
    BY FS_Interval
<1>2. IsFiniteSet(EmptyRounds)
    BY <1>1, FS_Subset DEF EmptyRounds
<1> QED BY <1>2, FS_CardinalityType, FS_RemoveElement

LEMMA TeeracleStarts == TeeracleInit => TeeracleInv
<1> SUFFICES ASSUME TeeracleInit PROVE TeeracleInv OBVIOUS
<1>1. /\ market = [at |-> 0, tries |-> 0, calls |-> <<>>] /\ round = 0 /\ oracleNonce = 0
      /\ tasks = {} /\ nodePool = {} /\ rates = [s \in SourceSet |-> NoRate]
      /\ requestFailures = 0 /\ answered = [s \in SourceSet |-> {}]
    BY DEF TeeracleInit, Asleep
<1>2. TeeracleTyped
    <2>1. <<>> \in Seq(VerifiedCalls) OBVIOUS
    <2>2. market \in [at : 0 .. 2, tries : Nat, calls : Seq(VerifiedCalls)]
        BY <1>1, <2>1
    <2> QED BY <1>1, <2>2 DEF TeeracleTyped
<1>3. RoundInv
    <2>1. EmptyRounds = {} /\ market.at = 0
        BY <1>1 DEF EmptyRounds
    <2> QED BY <1>1, <2>1, FS_EmptySet DEF RoundInv
<1>4. RatesAreVerified
    BY <1>1 DEF RatesAreVerified
<1> QED BY <1>2, <1>3, <1>4 DEF TeeracleInv

\* The extrinsics of a round carry the rates as they were answered.
LEMMA TasksVerified ==
    ASSUME TeeracleTyped, NEW calls \in Seq(VerifiedCalls), update_market_data_xt(calls), nodePool' = nodePool
    PROVE  /\ oracleNonce' \in Int
           /\ \A x \in (tasks \cup nodePool)' : x \in VerifiedCalls \/ x.call = "register"
<1>1. CASE calls = <<>>
    BY <1>1 DEF update_market_data_xt, TeeracleTyped
<1>2. CASE calls # <<>>
    <2>1. /\ tasks' = tasks \cup {[calls[i] EXCEPT !.nonce = oracleNonce + i - 1] : i \in DOMAIN calls}
          /\ oracleNonce' = oracleNonce + Len(calls)
        BY <1>2 DEF update_market_data_xt, create_extrinsics_for_rates
    <2>2. ASSUME NEW i \in DOMAIN calls PROVE [calls[i] EXCEPT !.nonce = oracleNonce + i - 1] \in VerifiedCalls
        <3>1. calls[i] \in VerifiedCalls /\ i \in Int
            OBVIOUS
        <3>2. oracleNonce + i - 1 \in Int
            BY <3>1 DEF TeeracleTyped
        <3> QED BY <3>1, <3>2 DEF VerifiedCalls
    <2>3. oracleNonce' \in Int
        BY <2>1 DEF TeeracleTyped
    <2> QED BY <2>1, <2>2, <2>3 DEF TeeracleTyped
<1> QED BY <1>1, <1>2

\* After a source: the next one, or the end of the round.
LEMMA NextSourceKeeps ==
    ASSUME TeeracleInv, market.at # 0, NEW calls \in Seq(VerifiedCalls), NextSource(calls),
           UNCHANGED <<round, nodePool, nodeNonce, rates>>,
           answered' \in [SourceSet -> SUBSET (1 .. round)],
           EmptyRounds' \ {round} = EmptyRounds \ {round},
           calls = <<>> <=> round \in EmptyRounds'
    PROVE  TeeracleInv'
<1>1. TeeracleTyped /\ RoundInv /\ RatesAreVerified
    BY DEF TeeracleInv
<1>2. round \in Nat /\ round' \in Nat
    BY <1>1 DEF TeeracleTyped
<1>3. Cardinality(EmptyRounds') \in Nat /\ Cardinality(EmptyRounds' \ {round}) =
        IF round \in EmptyRounds' THEN Cardinality(EmptyRounds') - 1 ELSE Cardinality(EmptyRounds')
    <2>1. IsFiniteSet(1 .. round)
        BY <1>2, FS_Interval
    <2>2. EmptyRounds' \in SUBSET (1 .. round)
        BY DEF EmptyRounds
    <2>3. IsFiniteSet(EmptyRounds')
        BY <2>1, <2>2, FS_Subset
    <2> QED BY <2>3, FS_CardinalityType, FS_RemoveElement
<1>4. requestFailures = Cardinality(EmptyRounds' \ {round}) /\ round \in 1 .. round /\ requestFailures \in Nat
    BY <1>1 DEF RoundInv, TeeracleTyped
<1>5. RatesAreVerified' /\ DOMAIN rates' = SourceSet
    BY <1>1 DEF RatesAreVerified, TeeracleTyped
<1>6. CASE market.at < Len(OracleSources)
    <2>1. /\ market' = [at |-> market.at + 1, tries |-> 0, calls |-> calls]
          /\ UNCHANGED <<tasks, oracleNonce, requestFailures>>
        BY <1>6 DEF NextSource
    <2>2. market.at + 1 \in 0 .. 2 /\ market.at + 1 # 0
        BY <1>1, <1>6, TwoSources DEF TeeracleTyped
    <2>3. /\ market' \in [at : 0 .. 2, tries : Nat, calls : Seq(VerifiedCalls)] /\ market'.at # 0
          /\ market'.calls = calls
        BY <2>1, <2>2
    <2>4. TeeracleTyped'
        BY <1>1, <1>5, <2>1, <2>3 DEF TeeracleTyped
    <2>5. RoundInv'
        BY <1>4, <2>1, <2>3 DEF RoundInv
    <2> QED BY <1>5, <2>4, <2>5 DEF TeeracleInv
<1>7. CASE ~(market.at < Len(OracleSources))
    <2>1. market' = Asleep /\ update_market_data_xt(calls)
        BY <1>7 DEF NextSource
    <2>2. market' \in [at : 0 .. 2, tries : Nat, calls : Seq(VerifiedCalls)] /\ market'.at = 0
        <3>1. <<>> \in Seq(VerifiedCalls) OBVIOUS
        <3> QED BY <2>1, <3>1 DEF Asleep
    <2>3. \/ calls = <<>> /\ requestFailures' = requestFailures + 1
          \/ calls # <<>> /\ requestFailures' = requestFailures
        BY <2>1 DEF update_market_data_xt
    <2>4. requestFailures' = Cardinality(EmptyRounds') /\ requestFailures' \in Nat
        BY <1>3, <1>4, <2>3
    <2>5. oracleNonce' \in Int /\ \A x \in (tasks \cup nodePool)' : x \in VerifiedCalls \/ x.call = "register"
        BY <1>1, <2>1, TasksVerified
    <2>6. TeeracleTyped'
        BY <1>1, <1>2, <1>5, <2>2, <2>4, <2>5 DEF TeeracleTyped
    <2>7. RoundInv'
        BY <2>2, <2>4 DEF RoundInv
    <2> QED BY <1>5, <2>6, <2>7 DEF TeeracleInv
<1> QED BY <1>6, <1>7

LEMMA RateKeeps ==
    ASSUME TeeracleInv, NEW root \in UNION {HostRoots[s] : s \in SourceSet}, NEW body \in Bodies,
           get_exchange_rate(root, body)
    PROVE  TeeracleInv'
<1>1. PICK source : source = OracleSources[market.at] OBVIOUS
<1>2. PICK x : x = [nonce |-> -1, call |-> source, rate |-> [round |-> round, root |-> root]] OBVIOUS
<1>3. PICK calls : calls = Append(market.calls, x) OBVIOUS
<1>4. /\ market.at # 0 /\ root \in RootCertificates[source]
      /\ answered' = [answered EXCEPT ![source] = answered[source] \cup {round}]
      /\ NextSource(calls)
      /\ UNCHANGED <<round, nodePool, nodeNonce, rates>>
    BY <1>1, <1>2, <1>3
       DEF get_exchange_rate, execute_exchange_rate_request, get_with, make_request, execute_send_request
<1>5. TeeracleTyped /\ RoundInv
    BY DEF TeeracleInv
<1>6. source \in SourceSet
    <2>1. market.at = 1 \/ market.at = 2
        BY <1>4, <1>5 DEF TeeracleTyped
    <2> QED BY <1>1, <2>1, TwoSources
<1>7. x \in VerifiedCalls
    <2>1. x.call = source /\ x.rate.root = root
        BY <1>2
    <2>2. x \in [nonce : Int, call : SourceSet, rate : [round : Nat, root : UNION {HostRoots[s] : s \in SourceSet}]]
        BY <1>2, <1>5, <1>6 DEF TeeracleTyped
    <2> QED BY <1>4, <2>1, <2>2 DEF VerifiedCalls
<1>8. calls \in Seq(VerifiedCalls) /\ calls # <<>>
    <2>1. market.calls \in Seq(VerifiedCalls)
        BY <1>5 DEF TeeracleTyped
    <2>2. calls \in Seq(VerifiedCalls) /\ Len(calls) = Len(market.calls) + 1 /\ Len(market.calls) \in Nat
        BY <1>3, <1>7, <2>1
    <2>3. Len(calls) # 0
        BY <2>2
    <2> QED BY <2>2, <2>3
<1>9. round \in 1 .. round /\ round \in Nat
    BY <1>4, <1>5 DEF RoundInv, TeeracleTyped
<1>10. /\ answered' \in [SourceSet -> SUBSET (1 .. round)]
       /\ \A s \in SourceSet : answered[s] \subseteq answered'[s] /\ answered'[s] \subseteq answered[s] \cup {round}
       /\ round \in answered'[source]
    BY <1>4, <1>5, <1>6, <1>9 DEF TeeracleTyped
<1>11. EmptyRounds' \ {round} = EmptyRounds \ {round} /\ round \notin EmptyRounds'
    BY <1>4, <1>6, <1>10 DEF EmptyRounds
<1> QED BY <1>4, <1>8, <1>10, <1>11, NextSourceKeeps

LEMMA TeeracleStep ==
    ASSUME TeeracleInv, [TeeracleNext]_teeracleVars
    PROVE  TeeracleInv'
<1> USE DEF TeeracleInv
<1>1. CASE UNCHANGED teeracleVars
    BY <1>1 DEF teeracleVars, metricVars, TeeracleTyped, RoundInv, EmptyRounds, RatesAreVerified
<1>2. CASE schedule_periodic
    <2>1. /\ market.at = 0 /\ round' = round + 1 /\ market' = [at |-> 1, tries |-> 0, calls |-> <<>>]
          /\ UNCHANGED <<oracleNonce, tasks, nodePool, rates, requestFailures, answered>>
        BY <1>2 DEF schedule_periodic, Asleep
    <2>2. PICK n \in Nat : n = round
        BY DEF TeeracleTyped
    <2>3. /\ round' \in Nat /\ round' \in 1 .. round' /\ 1 .. n \subseteq 1 .. round' /\ round' \notin 1 .. n
          /\ \A i \in 1 .. round' : i \in 1 .. n \/ i = round'
        BY <2>1, <2>2
    <2>4. \A s \in SourceSet : answered[s] \subseteq 1 .. n
        BY <2>2 DEF TeeracleTyped
    <2>5. EmptyRounds' \ {round'} = EmptyRounds /\ round' \in EmptyRounds'
        BY <2>1, <2>2, <2>3, <2>4 DEF EmptyRounds
    <2>6. market' \in [at : 0 .. 2, tries : Nat, calls : Seq(VerifiedCalls)] /\ market'.at = 1 /\ market'.calls = <<>>
        <3>1. <<>> \in Seq(VerifiedCalls) OBVIOUS
        <3> QED BY <2>1, <3>1
    <2>7. answered' \in [SourceSet -> SUBSET (1 .. round')]
        BY <2>1, <2>2, <2>3 DEF TeeracleTyped
    <2>8. TeeracleTyped'
        BY <2>1, <2>3, <2>6, <2>7 DEF TeeracleTyped
    <2>9. RoundInv'
        <3>1. requestFailures = Cardinality(EmptyRounds)
            BY <2>1 DEF RoundInv
        <3>2. requestFailures' = Cardinality(EmptyRounds' \ {round'})
            <4>1. requestFailures' = requestFailures
                BY <2>1
            <4>2. EmptyRounds' \ {round'} = EmptyRounds
                BY <2>5
            <4> QED BY <3>1, <4>1, <4>2
        <3>3. market'.at # 0
            BY <2>6
        <3> QED BY <2>3, <2>5, <2>6, <3>2, <3>3 DEF RoundInv
    <2>10. RatesAreVerified'
        BY <2>1 DEF RatesAreVerified
    <2> QED BY <2>8, <2>9, <2>10
<1>3. CASE RequestFailed
    <2>1. market.at # 0 /\ UNCHANGED <<round, nodePool, nodeNonce, rates, answered>>
        BY <1>3 DEF RequestFailed
    <2>2. EmptyRounds' = EmptyRounds
        BY <2>1 DEF EmptyRounds
    <2>3. CASE market.tries + 1 < number_of_tries
        <3>1. /\ market' = [market EXCEPT !.tries = market.tries + 1]
              /\ UNCHANGED <<tasks, oracleNonce, requestFailures>>
            BY <1>3, <2>3 DEF RequestFailed
        <3>2. /\ market' \in [at : 0 .. 2, tries : Nat, calls : Seq(VerifiedCalls)]
              /\ market'.at = market.at /\ market'.calls = market.calls
            BY <3>1 DEF TeeracleTyped
        <3>3. TeeracleTyped'
            BY <2>1, <3>1, <3>2 DEF TeeracleTyped
        <3>4. RoundInv' /\ RatesAreVerified'
            BY <2>1, <2>2, <3>1, <3>2 DEF RoundInv, RatesAreVerified
        <3> QED BY <3>3, <3>4
    <2>4. CASE ~(market.tries + 1 < number_of_tries)
        <3>1. NextSource(market.calls)
            BY <1>3, <2>4 DEF RequestFailed
        <3>2. market.calls \in Seq(VerifiedCalls) /\ answered' \in [SourceSet -> SUBSET (1 .. round)]
            BY <2>1 DEF TeeracleTyped
        <3>3. market.calls = <<>> <=> round \in EmptyRounds'
            BY <2>1, <2>2 DEF RoundInv
        <3> QED BY <2>1, <2>2, <3>1, <3>2, <3>3, NextSourceKeeps
    <2> QED BY <2>3, <2>4
<1>4. CASE schedule_periodic_reregistration_thread
    <2>1. /\ oracleNonce' = oracleNonce + 1
          /\ tasks' = tasks \cup {[nonce |-> oracleNonce, call |-> "register", rate |-> NoRate]}
          /\ UNCHANGED <<market, round, nodePool, rates, requestFailures, answered>>
        BY <1>4 DEF schedule_periodic_reregistration_thread, metricVars
    <2>2. TeeracleTyped'
        BY <2>1 DEF TeeracleTyped
    <2> QED BY <2>1, <2>2 DEF RoundInv, EmptyRounds, RatesAreVerified
<1>5. ASSUME NEW x \in tasks, execute_oracle_update(x) \/ SubmissionFailed(x) PROVE TeeracleInv'
    <2>1. /\ (tasks \cup nodePool)' \subseteq tasks \cup nodePool
          /\ UNCHANGED <<market, round, oracleNonce, rates, requestFailures, answered>>
        BY <1>5 DEF execute_oracle_update, SubmissionFailed, metricVars
    <2>2. TeeracleTyped'
        BY <2>1 DEF TeeracleTyped
    <2> QED BY <2>1, <2>2 DEF RoundInv, EmptyRounds, RatesAreVerified
<1>6. ASSUME NEW x \in nodePool, IncludeRate(x) PROVE TeeracleInv'
    <2>1. /\ tasks' = tasks /\ nodePool' = nodePool \ {x}
          /\ \/ x.call = "register" /\ UNCHANGED rates
             \/ x.call # "register" /\ rates' = [rates EXCEPT ![x.call] = x.rate]
          /\ UNCHANGED <<market, round, oracleNonce, requestFailures, answered>>
        BY <1>6 DEF IncludeRate
    <2>2. DOMAIN rates' = SourceSet
        BY <2>1 DEF TeeracleTyped
    <2>3. TeeracleTyped'
        BY <2>1, <2>2 DEF TeeracleTyped
    <2>4. RatesAreVerified'
        <3>1. CASE x.call = "register"
            BY <2>1, <3>1 DEF RatesAreVerified
        <3>2. CASE x.call # "register"
            <4>1. x.call \in SourceSet /\ x.rate.root \in RootCertificates[x.call]
                BY <3>2 DEF TeeracleTyped, VerifiedCalls
            <4>2. rates'[x.call] = x.rate /\ \A s \in SourceSet \ {x.call} : rates'[s] = rates[s]
                BY <2>1, <3>2, <4>1 DEF TeeracleTyped
            <4> QED BY <4>1, <4>2 DEF RatesAreVerified
        <3> QED BY <3>1, <3>2
    <2> QED BY <2>1, <2>3, <2>4 DEF RoundInv, EmptyRounds
<1> QED BY <1>1, <1>2, <1>3, <1>4, <1>5, <1>6, RateKeeps DEF TeeracleNext

\* For any number of rounds and any roots: a rate on the chain came under a root of its source,
\* and the failures the service counts are the rounds in which no source answered, through
\* retries, lost submissions and the nonces of another thread (oracle, teeracle service).
THEOREM RatesAndFailuresAreTrue == TeeracleSpec => [](RatesAreVerified /\ FailedRoundsAreCounted)
<1>1. TeeracleInit => TeeracleInv
    BY TeeracleStarts
<1>2. TeeracleInv /\ [TeeracleNext]_teeracleVars => TeeracleInv'
    BY TeeracleStep
<1>3. TeeracleInv => RatesAreVerified /\ FailedRoundsAreCounted
    BY DEF TeeracleInv, RoundInv, EmptyRounds, FailedRoundsAreCounted
<1> QED BY <1>1, <1>2, <1>3, PTL DEF TeeracleSpec

IndirectInvocationSpec == IndirectInvocationInit /\ [][IndirectInvocationNext]_invocationVars

-----------------------------------------------------------------------------
(* IndirectInvocation: the inductive invariant.                            *)

\* A finalized block that a worker has processed.
IsProcessed(number, branch) ==
    /\ number \in DOMAIN finalBranch /\ finalBranch[number] = branch
    /\ \E w \in Confirmers : processed_to[w] >= number

Clients ==
    [at : {"start", "in_block", "subscribed", "waiting", "confirmed", "too_high", "other_hash", "timed_out"},
     number : Nat, branch : Branches, blocks : Nat]

InvocationInv ==
    /\ chainHeight \in Nat /\ FinalHeight \in Nat /\ DOMAIN finalBranch = 1 .. FinalHeight
    /\ processed_to \in [Confirmers -> Nat]
    /\ \A e \in emitted \cup newEvents.events : IsProcessed(e.number, e.branch)
    /\ invocation.at = "confirmed" => IsProcessed(invocation.number, invocation.branch)
    /\ invocation \in Clients

LEMMA InvocationStarts == IndirectInvocationInit => InvocationInv
<1> SUFFICES ASSUME IndirectInvocationInit PROVE InvocationInv OBVIOUS
<1>1. DOMAIN finalBranch = {} /\ FinalHeight = 0
    BY FS_EmptySet DEF IndirectInvocationInit, FinalHeight
<1>2. emitted \cup newEvents.events = {} /\ processed_to \in [Confirmers -> Nat] /\ chainHeight \in Nat
    BY DEF IndirectInvocationInit, NoBlock
<1>3. /\ invocation.at # "confirmed"
      /\ invocation \in Clients
    BY DEF IndirectInvocationInit, Clients, Branches
<1> QED BY <1>1, <1>2, <1>3 DEF InvocationInv

\* What was processed stays so, as finalized blocks stay and workers go on.
LEMMA ProcessedStays ==
    ASSUME NEW f \in SUBSET Nat, f \subseteq DOMAIN finalBranch', DOMAIN finalBranch = f,
           \A n \in f : finalBranch'[n] = finalBranch[n],
           processed_to \in [Confirmers -> Nat], processed_to' \in [Confirmers -> Nat],
           \A w \in Confirmers : processed_to'[w] >= processed_to[w]
    PROVE  \A n, b : IsProcessed(n, b) => IsProcessed(n, b)'
<1> SUFFICES ASSUME NEW n, NEW b, IsProcessed(n, b) PROVE IsProcessed(n, b)' OBVIOUS
<1>1. n \in Nat /\ n \in DOMAIN finalBranch' /\ finalBranch'[n] = b
    BY DEF IsProcessed
<1>2. PICK w \in Confirmers : processed_to[w] >= n
    BY DEF IsProcessed
<1>3. processed_to'[w] >= n
    BY <1>1, <1>2
<1> QED BY <1>1, <1>3 DEF IsProcessed

LEMMA InvocationStep ==
    ASSUME InvocationInv, [IndirectInvocationNext]_invocationVars
    PROVE  InvocationInv'
<1>1. CASE UNCHANGED invocationVars
    BY <1>1 DEF invocationVars, InvocationInv, FinalHeight, IsProcessed
<1>2. CASE produce_block
    <2>1. /\ chainHeight' \in Nat /\ UNCHANGED <<finalBranch, processed_to, invocation>>
          /\ emitted' = {} /\ newEvents'.events \subseteq emitted
        BY <1>2 DEF produce_block, InvocationInv, NoBlock
    <2> QED BY <2>1 DEF InvocationInv, FinalHeight, IsProcessed
<1>3. ASSUME NEW b \in Branches, finalize_block(b) PROVE InvocationInv'
    <2>1. PICK f \in Nat : f = FinalHeight /\ DOMAIN finalBranch = 1 .. f
        BY DEF InvocationInv
    <2>2. /\ finalBranch' = [n \in 1 .. f + 1 |-> IF n \in DOMAIN finalBranch THEN finalBranch[n] ELSE b]
          /\ UNCHANGED <<chainHeight, processed_to, emitted, newEvents, invocation>>
        BY <1>3, <2>1 DEF finalize_block
    <2>3. DOMAIN finalBranch' = 1 .. f + 1 /\ \A n \in 1 .. f : n \in 1 .. f + 1 /\ finalBranch'[n] = finalBranch[n]
        BY <2>1, <2>2
    <2>4. FinalHeight' = f + 1
        <3>1. Cardinality(1 .. f + 1) = IF 1 > f + 1 THEN 0 ELSE (f + 1) - 1 + 1
            <4>1. 1 \in Int /\ f + 1 \in Int OBVIOUS
            <4> QED BY <4>1, FS_Interval
        <3> QED BY <2>3, <3>1 DEF FinalHeight
    <2>5. \A n, c : IsProcessed(n, c) => IsProcessed(n, c)'
        <3>1. 1 .. f \in SUBSET Nat OBVIOUS
        <3>2. processed_to \in [Confirmers -> Nat] /\ \A w \in Confirmers : processed_to[w] >= processed_to[w]
            BY DEF InvocationInv
        <3> QED BY <2>1, <2>2, <2>3, <3>1, <3>2, ProcessedStays
    <2>6. \A e \in (emitted \cup newEvents.events)' : IsProcessed(e.number, e.branch)'
        BY <2>2, <2>5 DEF InvocationInv
    <2>7. invocation'.at = "confirmed" => IsProcessed(invocation.number, invocation.branch)'
        BY <2>2, <2>5 DEF InvocationInv
    <2> QED BY <2>2, <2>3, <2>4, <2>6, <2>7 DEF InvocationInv, IsProcessed
<1>4. ASSUME NEW w \in Confirmers, process_parentchain_block(w) PROVE InvocationInv'
    <2>1. /\ processed_to[w] < FinalHeight /\ processed_to' = [processed_to EXCEPT ![w] = processed_to[w] + 1]
          /\ emitted' = emitted \cup {[number |-> processed_to[w] + 1, branch |-> finalBranch[processed_to[w] + 1]]}
          /\ UNCHANGED <<chainHeight, finalBranch, newEvents, invocation>>
        BY <1>4 DEF process_parentchain_block, Confirmation
    <2>2. PICK f \in Nat : f = FinalHeight /\ DOMAIN finalBranch = 1 .. f
        BY DEF InvocationInv
    <2>3. PICK p \in Nat : p = processed_to[w]
        BY DEF InvocationInv
    <2>4. /\ processed_to' \in [Confirmers -> Nat] /\ processed_to'[w] = p + 1 /\ p + 1 \in 1 .. f
          /\ \A x \in Confirmers : processed_to'[x] >= processed_to[x]
        BY <2>1, <2>2, <2>3 DEF InvocationInv
    <2>5. \A n, c : IsProcessed(n, c) => IsProcessed(n, c)'
        <3>1. 1 .. f \in SUBSET Nat OBVIOUS
        <3>2. processed_to \in [Confirmers -> Nat]
            BY DEF InvocationInv
        <3> QED BY <2>1, <2>2, <2>4, <3>1, <3>2, ProcessedStays
    <2>6. PICK new : new = [number |-> p + 1, branch |-> finalBranch[p + 1]] OBVIOUS
    <2>7. IsProcessed(new.number, new.branch)'
        <3>1. processed_to'[w] >= p + 1
            BY <2>4
        <3>2. new.number = p + 1 /\ new.branch = finalBranch[p + 1]
            BY <2>6
        <3>3. p + 1 \in DOMAIN finalBranch' /\ finalBranch'[p + 1] = finalBranch[p + 1]
            BY <2>1, <2>2, <2>4
        <3> QED BY <3>1, <3>2, <3>3 DEF IsProcessed
    <2>8. \A e \in (emitted \cup newEvents.events)' : IsProcessed(e.number, e.branch)'
        <3>1. emitted' = emitted \cup {new}
            BY <2>1, <2>3, <2>6
        <3> QED BY <2>1, <2>5, <2>7, <3>1 DEF InvocationInv
    <2>9. invocation'.at = "confirmed" => IsProcessed(invocation.number, invocation.branch)'
        BY <2>1, <2>5 DEF InvocationInv
    <2> QED BY <2>1, <2>4, <2>8, <2>9 DEF InvocationInv, FinalHeight, IsProcessed
<1>5. ASSUME NEW b \in Branches, invoke_in_block(b) PROVE InvocationInv'
    <2>1. /\ invocation' = [invocation EXCEPT !.at = "in_block", !.number = chainHeight, !.branch = b]
          /\ UNCHANGED <<chainHeight, finalBranch, processed_to, emitted, newEvents>>
        BY <1>5 DEF invoke_in_block
    <2>2. /\ invocation'.at = "in_block"
          /\ invocation' \in Clients
        BY <2>1 DEF InvocationInv, Clients
    <2> QED BY <2>1, <2>2 DEF InvocationInv, FinalHeight, IsProcessed
<1>6. CASE subscribe_events
    <2>1. /\ invocation' = [invocation EXCEPT !.at = "subscribed"]
          /\ UNCHANGED <<chainHeight, finalBranch, processed_to, emitted, newEvents>>
        BY <1>6 DEF subscribe_events
    <2>2. /\ invocation'.at = "subscribed"
          /\ invocation' \in Clients
        BY <2>1 DEF InvocationInv, Clients
    <2> QED BY <2>1, <2>2 DEF InvocationInv, FinalHeight, IsProcessed
<1>7. CASE next_events_from_metadata
    <2>1. /\ invocation.at = "subscribed" /\ newEvents' = NoBlock
          /\ UNCHANGED <<chainHeight, finalBranch, processed_to, emitted>>
          /\ \/ invocation' = [invocation EXCEPT !.at = "timed_out"]
             \/ invocation' = [invocation EXCEPT !.blocks = BlocksSeen]
             \/ \E e \in newEvents.events : invocation' = [invocation EXCEPT !.at = Verdicts(e)]
        BY <1>7 DEF next_events_from_metadata
    <2>2. (emitted \cup newEvents.events)' \subseteq emitted
        BY <2>1 DEF NoBlock
    <2>3. /\ invocation' \in Clients
          /\ invocation'.number = invocation.number /\ invocation'.branch = invocation.branch
        <3>1. \A e : Verdicts(e) \in {"too_high", "other_hash", "confirmed", "waiting"}
            BY DEF Verdicts
        <3>2. BlocksSeen \in Nat
            BY DEF BlocksSeen, InvocationInv, Clients
        <3> QED BY <2>1, <3>1, <3>2 DEF InvocationInv, Clients
    <2>4. ASSUME invocation'.at = "confirmed" PROVE IsProcessed(invocation.number, invocation.branch)
        <3>1. PICK e \in newEvents.events : Verdicts(e) = "confirmed"
            BY <2>1, <2>4 DEF InvocationInv, Clients
        <3>2. e.number = invocation.number /\ e.branch = invocation.branch
            BY <3>1 DEF Verdicts
        <3> QED BY <3>1, <3>2 DEF InvocationInv
    <2> QED BY <2>1, <2>2, <2>3, <2>4 DEF InvocationInv, FinalHeight, IsProcessed
<1> QED BY <1>1, <1>2, <1>3, <1>4, <1>5, <1>6, <1>7 DEF IndirectInvocationNext

\* For any number of workers and blocks: a client reports its call as confirmed only when the
\* block it is in was finalized and processed by a worker, although another branch could have
\* replaced it (send_indirect_request of the client).
THEOREM ConfirmedIsProcessedHolds == IndirectInvocationSpec => []ConfirmedIsProcessed
<1>1. IndirectInvocationInit => InvocationInv
    BY InvocationStarts
<1>2. InvocationInv /\ [IndirectInvocationNext]_invocationVars => InvocationInv'
    BY InvocationStep
<1>3. InvocationInv => ConfirmedIsProcessed
    BY DEF InvocationInv, IsProcessed, ConfirmedIsProcessed
<1> QED BY <1>1, <1>2, <1>3, PTL DEF IndirectInvocationSpec

=============================================================================
