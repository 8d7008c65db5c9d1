-------------------------- MODULE BroadcastProofs --------------------------
(***************************************************************************)
(* Proofs about Broadcast, for any number of requests, communities, rows   *)
(* and crashes and for lists of any length.  ReferencesHold rests on       *)
(* FlushedHold, PushedOnce on WaitsOnce; the two are proved apart.         *)
(***************************************************************************)
EXTENDS Broadcast, SequenceTheorems, TLAPS

LookRecord ==
    [phase : {"look"}, todo : Seq(Communities), scheduled : BOOLEAN,
     added : Seq(Communities), flushed : Nat, loaded : Communities \cup {NoCommunity}]
PushRecord == [phase : {"push"}, todo : Seq(Ids)]

-----------------------------------------------------------------------------
(* Sequences and records.                                                  *)

LEMMA SeqFacts ==
    ASSUME NEW S, NEW s \in Seq(S)
    PROVE  /\ Len(s) \in Nat /\ DOMAIN s = 1 .. Len(s)
           /\ \A i \in 1 .. Len(s) : s[i] \in S
BY LenProperties, ElementOfSeq

LEMMA FunctionIsSeq ==
    ASSUME NEW S, NEW n \in Nat, NEW f \in [1 .. n -> S]
    PROVE  f \in Seq(S) /\ Len(f) = n
<1>1. f \in Seq(S)
  BY SeqDef
<1>2. DOMAIN f = 1 .. n /\ DOMAIN f = 1 .. Len(f) /\ Len(f) \in Nat
  BY <1>1, SeqFacts
<1>3. QED
  BY <1>1, <1>2

LEMMA ListIsSeq ==
    ASSUME NEW list \in Lists
    PROVE  list \in Seq(Communities)
<1>1. PICK n \in 0 .. MaxList : list \in [1 .. n -> Communities]
  BY DEF Lists
<1>2. QED
  BY <1>1, FunctionIsSeq, BoundAssumption

LEMMA LookIsRecord ==
    ASSUME TypeOK, NEW r \in Requests, Looking(r)
    PROVE  request[r] \in LookRecord
<1>1. request[r] \in Request
  BY DEF TypeOK
<1>2. request[r] # Idle /\ request[r] \notin PushRecord
  BY DEF Looking, Idle, PushRecord
<1>3. QED
  BY <1>1, <1>2 DEF Request, LookRecord, PushRecord

LEMMA PushIsRecord ==
    ASSUME TypeOK, NEW r \in Requests, Pushing(r)
    PROVE  request[r] \in PushRecord
<1>1. request[r] \in Request
  BY DEF TypeOK
<1>2. request[r] # Idle /\ request[r] \notin LookRecord
  BY DEF Pushing, Idle, LookRecord
<1>3. QED
  BY <1>1, <1>2 DEF Request, LookRecord, PushRecord

\* A request goes on as q.
LEMMA RequestGoes ==
    ASSUME TypeOK, NEW r \in Requests, NEW q \in Request,
           request' = [request EXCEPT ![r] = q]
    PROVE  /\ request' \in [Requests -> Request]
           /\ request'[r] = q
           /\ \A s \in Requests \ {r} : request'[s] = request[s]
BY DEF TypeOK

\* What a look-up makes of the request's record.
LEMMA LookUpRecord ==
    ASSUME TypeOK, NEW r \in Requests, LookUp(r)
    PROVE  \E q \in LookRecord :
              /\ request' = [request EXCEPT ![r] = q]
              /\ \/ q.added = request[r].added
                 \/ \E c \in Communities : q.added = Append(request[r].added, c)
              /\ \/ q.flushed = request[r].flushed
                 \/ q.flushed = Len(request[r].added) /\ FlushSucceeds(r)
<1> DEFINE o == request[r]
           c == Head(o.todo)
           cached == c = o.loaded
           grows == cached \/ c \in communities
           flushed == IF cached THEN o.flushed ELSE Len(o.added)
           added == IF grows THEN Append(o.added, c) ELSE o.added
           loaded == IF grows THEN c ELSE NoCommunity
           q == [phase |-> "look", todo |-> Tail(o.todo), scheduled |-> o.scheduled,
                 added |-> added, flushed |-> flushed, loaded |-> loaded]
<1>1. o \in LookRecord
  BY LookIsRecord DEF LookUp
<1>2. /\ o.todo \in Seq(Communities) /\ o.added \in Seq(Communities)
      /\ o.flushed \in Nat /\ o.scheduled \in BOOLEAN
      /\ o.loaded \in Communities \cup {NoCommunity}
  BY <1>1 DEF LookRecord
<1>3. c \in Communities /\ Tail(o.todo) \in Seq(Communities)
  BY <1>2, HeadTailProperties DEF LookUp
<1>4. /\ added \in Seq(Communities) /\ loaded \in Communities \cup {NoCommunity}
      /\ flushed \in Nat
  BY <1>2, <1>3, AppendProperties, SeqFacts
<1>5. q \in LookRecord
  BY <1>2, <1>3, <1>4 DEF LookRecord
<1>6. request' = [request EXCEPT ![r] = q]
  BY DEF LookUp
<1>7. cached \/ FlushSucceeds(r)
  BY DEF LookUp
<1>8. /\ q.added = o.added \/ \E d \in Communities : q.added = Append(o.added, d)
      /\ q.flushed = o.flushed \/ (q.flushed = Len(o.added) /\ FlushSucceeds(r))
  <2>1. q.added = added /\ q.flushed = flushed
    OBVIOUS
  <2>2. added = o.added \/ \E d \in Communities : added = Append(o.added, d)
    BY <1>3
  <2>3. flushed = o.flushed \/ (flushed = Len(o.added) /\ FlushSucceeds(r))
    BY <1>7
  <2> HIDE DEF q, added, flushed
  <2>4. QED
    BY <2>1, <2>2, <2>3
<1> HIDE DEF q
<1>9. QED
  BY <1>5, <1>6, <1>8

\* The rows a request adds, and their ids.
LEMMA RowsOfRequest ==
    ASSUME TypeOK, NEW r \in Requests, Looking(r)
    PROVE  /\ NewRows(r) \in Seq(Row) /\ Len(NewRows(r)) = Len(request[r].added)
           /\ Len(request[r].added) \in Nat
           /\ DOMAIN request[r].added = 1 .. Len(request[r].added)
           /\ \A i \in 1 .. Len(request[r].added) :
                 NewRows(r)[i] = [community |-> request[r].added[i],
                                  sent |-> ~request[r].scheduled]
<1> DEFINE added == request[r].added
           n == Len(added)
<1>1. added \in Seq(Communities) /\ request[r].scheduled \in BOOLEAN
  BY LookIsRecord DEF LookRecord
<1>2. n \in Nat /\ DOMAIN added = 1 .. n /\ \A i \in 1 .. n : added[i] \in Communities
  BY <1>1, SeqFacts
<1>3. NewRows(r) \in [1 .. n -> Row]
  BY <1>1, <1>2 DEF NewRows, Row
<1>4. \A i \in 1 .. n : NewRows(r)[i] = [community |-> added[i], sent |-> ~request[r].scheduled]
  BY <1>2 DEF NewRows
<1> HIDE DEF n, added
<1>5. NewRows(r) \in Seq(Row) /\ Len(NewRows(r)) = n
  BY <1>2, <1>3, FunctionIsSeq
<1>6. QED
  BY <1>2, <1>4, <1>5 DEF n, added

\* The elements of a concatenation.
LEMMA ConcatElements ==
    ASSUME NEW S, NEW s1 \in Seq(S), NEW s2 \in Seq(S)
    PROVE  /\ s1 \o s2 \in Seq(S) /\ Len(s1 \o s2) = Len(s1) + Len(s2)
           /\ \A i \in 1 .. Len(s1) + Len(s2) :
                 (s1 \o s2)[i] = IF i <= Len(s1) THEN s1[i] ELSE s2[i - Len(s1)]
BY ConcatProperties

\* The table after a commit.
LEMMA CommittedRows ==
    ASSUME TypeOK, NEW r \in Requests, CommitSend(r)
    PROVE  LET n == Len(request[r].added) IN
           /\ broadcasts' \in Seq(Row)
           /\ n \in Nat /\ Len(broadcasts) \in Nat
           /\ Len(broadcasts') = Len(broadcasts) + n
           /\ Len(broadcasts') <= MaxRows
           /\ DOMAIN broadcasts = 1 .. Len(broadcasts)
           /\ DOMAIN broadcasts' = 1 .. Len(broadcasts')
           /\ \A i \in 1 .. Len(broadcasts) : broadcasts'[i] = broadcasts[i]
           /\ \A i \in 1 .. n :
                 broadcasts'[Len(broadcasts) + i] =
                     [community |-> request[r].added[i], sent |-> ~request[r].scheduled]
<1> DEFINE n == Len(request[r].added)
           b == Len(broadcasts)
<1>1. Looking(r) /\ broadcasts' = broadcasts \o NewRows(r) /\ b + n <= MaxRows
  BY DEF CommitSend, ReadyToCommit
<1>2. broadcasts \in Seq(Row) /\ b \in Nat /\ DOMAIN broadcasts = 1 .. b
  BY SeqFacts DEF TypeOK
<1>3. /\ NewRows(r) \in Seq(Row) /\ Len(NewRows(r)) = n /\ n \in Nat
      /\ \A i \in 1 .. n : NewRows(r)[i] = [community |-> request[r].added[i],
                                            sent |-> ~request[r].scheduled]
  BY <1>1, RowsOfRequest
<1>4. /\ broadcasts' \in Seq(Row) /\ Len(broadcasts') = b + n
      /\ \A i \in 1 .. b + n : broadcasts'[i] =
             IF i <= b THEN broadcasts[i] ELSE NewRows(r)[i - b]
  <2> DEFINE new == NewRows(r)
  <2>1. new \in Seq(Row) /\ Len(new) = n /\ broadcasts' = broadcasts \o new
    BY <1>1, <1>3
  <2> HIDE DEF new, n, b
  <2>2. /\ broadcasts' \in Seq(Row) /\ Len(broadcasts') = Len(broadcasts) + Len(new)
        /\ \A i \in 1 .. Len(broadcasts) + Len(new) : broadcasts'[i] =
               IF i <= Len(broadcasts) THEN broadcasts[i] ELSE new[i - Len(broadcasts)]
    BY <1>2, <2>1, ConcatElements
  <2>3. QED
    BY <2>1, <2>2 DEF b, new
<1>5. DOMAIN broadcasts' = 1 .. Len(broadcasts')
  BY <1>4, SeqFacts
<1>6. \A i \in 1 .. b : broadcasts'[i] = broadcasts[i]
  BY <1>2, <1>3, <1>4
<1>7. ASSUME NEW i \in 1 .. n
      PROVE  broadcasts'[b + i] = [community |-> request[r].added[i],
                                   sent |-> ~request[r].scheduled]
  <2>1. b + i \in 1 .. b + n /\ ~(b + i <= b) /\ (b + i) - b = i
    BY <1>2, <1>3
  <2>2. QED
    BY <1>3, <1>4, <2>1
<1>8. QED
  BY <1>1, <1>2, <1>3, <1>4, <1>5, <1>6, <1>7

\* The ids a commit hands to the pushes.
LEMMA CommittedIds ==
    ASSUME TypeOK, NEW r \in Requests, CommitSend(r)
    PROVE  /\ NewIds(r) \in Seq(Ids) /\ Len(NewIds(r)) = Len(request[r].added)
           /\ DOMAIN NewIds(r) = 1 .. Len(request[r].added)
           /\ \A i \in 1 .. Len(request[r].added) : NewIds(r)[i] = Len(broadcasts) + i
<1> DEFINE n == Len(request[r].added)
           b == Len(broadcasts)
<1>1. n \in Nat /\ b \in Nat /\ b + n <= MaxRows
  BY CommittedRows
<1>2. DOMAIN request[r].added = 1 .. n
  BY RowsOfRequest DEF CommitSend, ReadyToCommit
<1>3. DOMAIN NewIds(r) = 1 .. n /\ \A i \in 1 .. n : NewIds(r)[i] = b + i
  BY <1>2 DEF NewIds
<1>4. \A i \in 1 .. n : b + i \in Ids
  BY <1>1, BoundAssumption DEF Ids
<1>5. NewIds(r) \in [1 .. n -> Ids]
  BY <1>2, <1>4 DEF NewIds
<1> HIDE DEF n
<1>6. NewIds(r) \in Seq(Ids) /\ Len(NewIds(r)) = n
  BY <1>1, <1>5, FunctionIsSeq
<1>7. QED
  BY <1>3, <1>6 DEF n

-----------------------------------------------------------------------------
(* Types.                                                                  *)

LEMMA TypeInit == Init => TypeOK
<1> SUFFICES ASSUME Init PROVE TypeOK
  OBVIOUS
<1>1. broadcasts \in Seq(Row) /\ Len(broadcasts) <= MaxRows
  BY EmptySeq, BoundAssumption DEF Init
<1>2. QED
  BY <1>1, BoundAssumption DEF Init, TypeOK, Request

LEMMA TypeStep == TypeOK /\ [Next]_vars => TypeOK'
<1> SUFFICES ASSUME TypeOK, [Next]_vars PROVE TypeOK'
  OBVIOUS
<1>0. Idle \in Request /\ LookRecord \subseteq Request /\ PushRecord \subseteq Request
  BY DEF Request, LookRecord, PushRecord
<1>1. ASSUME NEW r \in Requests, Send(r) PROVE TypeOK'
  <2>1. PICK list \in Lists, scheduled \in BOOLEAN :
          request' = [request EXCEPT ![r] =
              [phase |-> "look", todo |-> list, scheduled |-> scheduled,
               added |-> <<>>, flushed |-> 0, loaded |-> NoCommunity]]
    BY <1>1 DEF Send
  <2>2. [phase |-> "look", todo |-> list, scheduled |-> scheduled, added |-> <<>>,
         flushed |-> 0, loaded |-> NoCommunity] \in LookRecord
    BY ListIsSeq, EmptySeq DEF LookRecord
  <2>3. request' \in [Requests -> Request]
    BY <1>0, <2>1, <2>2, RequestGoes
  <2>4. QED
    BY <1>1, <2>3 DEF Send, TypeOK, tables
<1>2. ASSUME NEW r \in Requests, Refused(r) \/ Answer(r) PROVE TypeOK'
  BY <1>0, <1>2, RequestGoes DEF Refused, Answer, TypeOK, tables
<1>3. ASSUME NEW r \in Requests, LookUp(r) PROVE TypeOK'
  <2>1. request' \in [Requests -> Request]
    BY <1>0, <1>3, LookUpRecord, RequestGoes
  <2>2. QED
    BY <1>3, <2>1 DEF LookUp, TypeOK, tables
<1>4. ASSUME NEW r \in Requests, CommitSend(r) PROVE TypeOK'
  <2>1. [phase |-> "push", todo |-> NewIds(r)] \in PushRecord
    BY <1>4, CommittedIds DEF PushRecord
  <2>2. request' \in [Requests -> Request]
    <3>1. PICK q \in Request : request' = [request EXCEPT ![r] = q]
      BY <1>0, <1>4, <2>1 DEF CommitSend
    <3>2. QED
      BY <3>1, RequestGoes
  <2>3. broadcasts' \in Seq(Row) /\ Len(broadcasts') <= MaxRows
    BY <1>4, CommittedRows
  <2>4. QED
    BY <1>4, <2>2, <2>3 DEF CommitSend, TypeOK
<1>5. ASSUME NEW r \in Requests, PushBroadcast(r) PROVE TypeOK'
  <2> DEFINE o == request[r]
             q == [o EXCEPT !.todo = Tail(o.todo)]
  <2>1. o \in PushRecord /\ o.todo # <<>>
    BY <1>5, PushIsRecord DEF PushBroadcast
  <2>2. Head(o.todo) \in Ids /\ Tail(o.todo) \in Seq(Ids)
    BY <2>1, HeadTailProperties DEF PushRecord
  <2>3. q \in PushRecord
    BY <2>1, <2>2 DEF PushRecord
  <2>4. request' = [request EXCEPT ![r] = q]
    BY <1>5 DEF PushBroadcast
  <2> HIDE DEF q
  <2>5. request' \in [Requests -> Request]
    BY <1>0, <2>3, <2>4, RequestGoes
  <2>6. pushes' \in [Ids -> Nat]
    BY <1>5, <2>2 DEF PushBroadcast, PushToTopic, TypeOK
  <2>7. QED
    BY <1>5, <2>5, <2>6 DEF PushBroadcast, TypeOK, tables
<1>6. ASSUME NEW i \in Ids, NEW m \in MsgIds, RecordAck(i, m) PROVE TypeOK'
  BY <1>6 DEF RecordAck, TypeOK
<1>7. ASSUME NEW c \in Communities, CreateCommunity(c) \/ DeleteCommunity(c) PROVE TypeOK'
  BY <1>7 DEF CreateCommunity, DeleteCommunity, TypeOK
<1>8. ASSUME NEW h \in Homes, DeleteHome(h) PROVE TypeOK'
  BY <1>8 DEF DeleteHome, TypeOK
<1>9. CASE Crash
  <2>1. lost' \subseteq Ids
    <3>1. DOMAIN broadcasts = 1 .. Len(broadcasts) /\ Len(broadcasts) \in Nat
      BY SeqFacts DEF TypeOK
    <3>2. QED
      BY <1>9, <3>1, BoundAssumption DEF Crash, TypeOK, Ids
  <2>2. crashes' \in 0 .. MaxCrashes
    BY <1>9, BoundAssumption DEF Crash, TypeOK
  <2>3. QED
    BY <1>0, <1>9, <2>1, <2>2 DEF Crash, TypeOK, tables
<1>10. CASE UNCHANGED vars
  BY <1>10 DEF vars, tables, TypeOK
<1>11. QED
  BY <1>1, <1>2, <1>3, <1>4, <1>5, <1>6, <1>7, <1>8, <1>9, <1>10 DEF Next, Serve

\* Every variable keeps its type.
THEOREM TypeCorrect == Spec => []TypeOK
<1>1. QED
  BY TypeInit, TypeStep, PTL DEF Spec

-----------------------------------------------------------------------------
(* References.                                                             *)

RefInv == ReferencesHold /\ FlushedHold

\* A request that stops looking, or looks at nothing yet, holds nothing.
LEMMA RefRequestStep ==
    ASSUME TypeOK, RefInv, NEW r \in Requests, NEW q \in Request,
           request' = [request EXCEPT ![r] = q],
           UNCHANGED tables,
           q.phase = "look" =>
               /\ q.flushed <= Len(q.added)
               /\ \A i \in 1 .. q.flushed : q.added[i] \in communities
    PROVE  RefInv'
<1>1. request'[r] = q /\ \A s \in Requests \ {r} : request'[s] = request[s]
  BY RequestGoes
<1>2. ReferencesHold'
  BY DEF RefInv, ReferencesHold, tables
<1>3. FlushedHold'
  BY <1>1 DEF RefInv, FlushedHold, Looking, tables
<1>4. QED
  BY <1>2, <1>3 DEF RefInv

LEMMA RefLookUp ==
    ASSUME TypeOK, RefInv, NEW r \in Requests, LookUp(r)
    PROVE  RefInv'
<1> DEFINE o == request[r]
<1>1. PICK q \in LookRecord :
        /\ request' = [request EXCEPT ![r] = q]
        /\ q.added = o.added \/ \E c \in Communities : q.added = Append(o.added, c)
        /\ q.flushed = o.flushed \/ (q.flushed = Len(o.added) /\ FlushSucceeds(r))
  BY LookUpRecord, Zenon
<1>2. Looking(r) /\ o \in LookRecord
  BY LookIsRecord DEF LookUp
<1>3. /\ o.added \in Seq(Communities) /\ Len(o.added) \in Nat /\ o.flushed \in Nat
      /\ DOMAIN o.added = 1 .. Len(o.added)
  BY <1>2, SeqFacts DEF LookRecord
<1>4. /\ q.flushed \in Nat /\ q.flushed <= Len(o.added)
      /\ \A i \in 1 .. q.flushed : o.added[i] \in communities
  <2>1. CASE q.flushed = o.flushed
    BY <1>2, <1>3, <2>1 DEF RefInv, FlushedHold
  <2>2. CASE q.flushed = Len(o.added) /\ FlushSucceeds(r)
    BY <1>3, <2>2 DEF FlushSucceeds
  <2>3. QED
    BY <1>1, <2>1, <2>2
<1>5. /\ Len(o.added) <= Len(q.added) /\ Len(q.added) \in Nat
      /\ \A i \in 1 .. Len(o.added) : q.added[i] = o.added[i]
  BY <1>1, <1>3, AppendProperties
<1>6. q \in Request
  BY DEF Request, LookRecord
<1>7. /\ q.flushed <= Len(q.added)
      /\ \A i \in 1 .. q.flushed : q.added[i] \in communities
  BY <1>3, <1>4, <1>5
<1>8. UNCHANGED tables
  BY DEF LookUp
<1>9. QED
  BY <1>1, <1>6, <1>7, <1>8, RefRequestStep

LEMMA RefCommit ==
    ASSUME TypeOK, RefInv, NEW r \in Requests, CommitSend(r)
    PROVE  RefInv'
<1> DEFINE n == Len(request[r].added)
           b == Len(broadcasts)
<1>1. /\ Looking(r) /\ FlushSucceeds(r)
      /\ UNCHANGED <<communities, homes, acks>>
  BY DEF CommitSend, ReadyToCommit
<1>2. /\ n \in Nat /\ b \in Nat /\ Len(broadcasts') = b + n
      /\ DOMAIN broadcasts = 1 .. b /\ DOMAIN broadcasts' = 1 .. Len(broadcasts')
      /\ \A i \in 1 .. b : broadcasts'[i] = broadcasts[i]
      /\ \A i \in 1 .. n : broadcasts'[b + i] =
             [community |-> request[r].added[i], sent |-> ~request[r].scheduled]
  BY CommittedRows
<1>3. \A i \in 1 .. n : request[r].added[i] \in communities
  BY <1>1, RowsOfRequest DEF FlushSucceeds
<1>4. ASSUME NEW i \in DOMAIN broadcasts' PROVE broadcasts'[i].community \in communities
  <2>1. CASE i <= b
    BY <1>2, <2>1 DEF RefInv, ReferencesHold
  <2>2. CASE ~(i <= b)
    <3>1. i - b \in 1 .. n /\ b + (i - b) = i
      BY <1>2, <2>2
    <3>2. broadcasts'[b + (i - b)] = [community |-> request[r].added[i - b],
                                      sent |-> ~request[r].scheduled]
      BY <1>2, <3>1
    <3>3. broadcasts'[i].community = request[r].added[i - b]
      BY <3>1, <3>2
    <3>4. QED
      BY <1>3, <3>1, <3>3
  <2>3. QED
    BY <2>1, <2>2
<1>5. ReferencesHold'
  <2>1. DOMAIN broadcasts \subseteq DOMAIN broadcasts'
    BY <1>2
  <2>2. QED
    BY <1>1, <1>4, <2>1 DEF RefInv, ReferencesHold
<1>6. FlushedHold'
  <2>1. PICK q \in {Idle, [phase |-> "push", todo |-> NewIds(r)]} :
          request' = [request EXCEPT ![r] = q]
    BY DEF CommitSend
  <2>2. q.phase # "look"
    BY DEF Idle
  <2>3. request'[r] = q /\ \A s \in Requests \ {r} : request'[s] = request[s]
    BY <2>1 DEF TypeOK
  <2>4. QED
    BY <1>1, <2>2, <2>3 DEF RefInv, FlushedHold, Looking
<1>7. QED
  BY <1>5, <1>6 DEF RefInv

LEMMA RefInit == Init => RefInv
BY DEF Init, RefInv, ReferencesHold, FlushedHold, Looking, Idle

LEMMA RefStep == TypeOK /\ RefInv /\ [Next]_vars => RefInv'
<1> SUFFICES ASSUME TypeOK, RefInv, [Next]_vars PROVE RefInv'
  OBVIOUS
<1>0. Idle \in Request /\ Idle.phase # "look"
  BY DEF Request, Idle
<1>1. ASSUME NEW r \in Requests, Send(r) PROVE RefInv'
  <2>1. PICK list \in Lists, scheduled \in BOOLEAN :
          request' = [request EXCEPT ![r] =
              [phase |-> "look", todo |-> list, scheduled |-> scheduled,
               added |-> <<>>, flushed |-> 0, loaded |-> NoCommunity]]
    BY <1>1 DEF Send
  <2> DEFINE q == [phase |-> "look", todo |-> list, scheduled |-> scheduled,
                   added |-> <<>>, flushed |-> 0, loaded |-> NoCommunity]
  <2>2. q \in Request
    BY ListIsSeq, EmptySeq DEF Request
  <2>3. q.flushed <= Len(q.added) /\ \A i \in 1 .. q.flushed : q.added[i] \in communities
    BY EmptySeq
  <2> HIDE DEF q
  <2>4. QED
    BY <1>1, <2>1, <2>2, <2>3, RefRequestStep DEF Send, q
<1>2. ASSUME NEW r \in Requests, Refused(r) \/ Answer(r) PROVE RefInv'
  BY <1>0, <1>2, RefRequestStep DEF Refused, Answer
<1>3. ASSUME NEW r \in Requests, PushBroadcast(r) PROVE RefInv'
  <2> DEFINE q == [request[r] EXCEPT !.todo = Tail(request[r].todo)]
  <2>1. request[r] \in PushRecord
    BY <1>3, PushIsRecord DEF PushBroadcast
  <2>2. q \in Request /\ q.phase # "look"
    BY <1>3, <2>1, HeadTailProperties DEF PushRecord, Request, PushBroadcast
  <2>3. request' = [request EXCEPT ![r] = q] /\ UNCHANGED tables
    BY <1>3 DEF PushBroadcast
  <2> HIDE DEF q
  <2>4. QED
    BY <2>2, <2>3, RefRequestStep
<1>4. ASSUME NEW i \in Ids, NEW m \in MsgIds, RecordAck(i, m) PROVE RefInv'
  BY <1>4 DEF RecordAck, RefInv, ReferencesHold, FlushedHold, Looking
<1>5. ASSUME NEW c \in Communities, CreateCommunity(c) PROVE RefInv'
  BY <1>5 DEF CreateCommunity, RefInv, ReferencesHold, FlushedHold, Looking
<1>6. ASSUME NEW c \in Communities, DeleteCommunity(c) PROVE RefInv'
  <2>1. ReferencesHold'
    BY <1>6 DEF DeleteCommunity, RefInv, ReferencesHold
  <2>2. FlushedHold'
    BY <1>6 DEF DeleteCommunity, RefInv, FlushedHold, Looking, Holds
  <2>3. QED
    BY <2>1, <2>2 DEF RefInv
<1>7. ASSUME NEW h \in Homes, DeleteHome(h) PROVE RefInv'
  BY <1>7 DEF DeleteHome, RefInv, ReferencesHold, FlushedHold, Looking
<1>8. CASE Crash
  BY <1>8 DEF Crash, tables, RefInv, ReferencesHold, FlushedHold, Looking, Idle
<1>9. CASE UNCHANGED vars
  BY <1>9 DEF vars, tables, RefInv, ReferencesHold, FlushedHold, Looking
<1>10. QED
  BY <1>1, <1>2, <1>3, <1>4, <1>5, <1>6, <1>7, <1>8, <1>9, RefLookUp, RefCommit
     DEF Next, Serve

\* The community of every row and the home of every acknowledgement exist as
\* long as the row does, whatever is deleted between look-up and commit.
THEOREM ReferencesAlwaysHold == Spec => []ReferencesHold
<1>1. QED
  BY TypeInit, TypeStep, RefInit, RefStep, PTL DEF Spec, RefInv

-----------------------------------------------------------------------------
(* Pushes.                                                                 *)

PushInv == PushedOnce /\ WaitsOnce

\* Queues that are the same or empty wait as they did.
LEMMA QueuesShrink ==
    ASSUME PushInv, UNCHANGED <<broadcasts, pushes>>,
           \A r \in Requests : Queue(r)' = Queue(r) \/ DOMAIN Queue(r)' = {}
    PROVE  PushInv'
<1>1. PushedOnce'
  BY DEF PushInv, PushedOnce
<1>2. WaitsOnce'
  BY DEF PushInv, WaitsOnce
<1>3. QED
  BY <1>1, <1>2 DEF PushInv

\* A request that leaves a phase without a queue, or its empty queue.
LEMMA RequestHasNoQueue ==
    ASSUME TypeOK, PushInv, NEW r \in Requests, NEW q, q.phase # "push",
           request' = [request EXCEPT ![r] = q],
           UNCHANGED <<broadcasts, pushes>>
    PROVE  PushInv'
<1>1. request'[r] = q /\ \A s \in Requests \ {r} : request'[s] = request[s]
  BY DEF TypeOK
<1>2. Queue(r)' = <<>> /\ \A s \in Requests \ {r} : Queue(s)' = Queue(s)
  BY <1>1 DEF Queue, Pushing
<1>3. QED
  BY <1>2, QueuesShrink

LEMMA PushCommit ==
    ASSUME TypeOK, PushInv, NEW r \in Requests, CommitSend(r)
    PROVE  PushInv'
<1> DEFINE n == Len(request[r].added)
           b == Len(broadcasts)
<1>1. /\ n \in Nat /\ b \in Nat /\ Len(broadcasts') = b + n /\ b + n <= MaxRows
      /\ DOMAIN broadcasts = 1 .. b /\ DOMAIN broadcasts' = 1 .. b + n
      /\ \A i \in 1 .. b : broadcasts'[i] = broadcasts[i]
      /\ \A i \in 1 .. n : broadcasts'[b + i] =
             [community |-> request[r].added[i], sent |-> ~request[r].scheduled]
  BY CommittedRows
<1>2. UNCHANGED pushes /\ Looking(r)
  BY DEF CommitSend, ReadyToCommit
<1>3. PushedOnce'
  BY <1>1, <1>2 DEF PushInv, PushedOnce
<1>4. /\ request'[r] = IF request[r].scheduled THEN Idle
                                              ELSE [phase |-> "push", todo |-> NewIds(r)]
      /\ \A s \in Requests \ {r} : request'[s] = request[s]
  BY DEF CommitSend, TypeOK
<1>5. \A s \in Requests \ {r} : Queue(s)' = Queue(s)
  BY <1>4 DEF Queue, Pushing
\* What waited before is still there, and is no new row.
<1>6. \A s \in Requests \ {r} : \A j \in DOMAIN Queue(s) :
        /\ Queue(s)[j] \in 1 .. b /\ broadcasts'[Queue(s)[j]].sent
        /\ pushes'[Queue(s)[j]] = 0
  BY <1>1, <1>2 DEF PushInv, WaitsOnce
<1>7. CASE request[r].scheduled
  <2>1. Queue(r)' = <<>>
    BY <1>4, <1>7 DEF Queue, Pushing, Idle
  <2>2. DOMAIN Queue(r)' = {}
    BY <2>1
  <2>3. WaitsOnce'
    BY <1>1, <1>5, <1>6, <2>2 DEF PushInv, WaitsOnce
  <2>4. QED
    BY <1>3, <2>3 DEF PushInv
<1>8. CASE ~request[r].scheduled
  <2>1. Queue(r)' = NewIds(r)
    BY <1>4, <1>8 DEF Queue, Pushing
  <2>2. DOMAIN Queue(r)' = 1 .. n /\ \A j \in 1 .. n : Queue(r)'[j] = b + j
    BY <2>1, CommittedIds
  <2>3. ASSUME NEW j \in 1 .. n
        PROVE  /\ b + j \in DOMAIN broadcasts' /\ broadcasts'[b + j].sent
               /\ pushes'[b + j] = 0 /\ b + j \notin 1 .. b
    <3>1. b + j \in 1 .. b + n /\ b + j \notin 1 .. b /\ b + j \in Ids
      BY <1>1, BoundAssumption DEF Ids
    <3>2. pushes[b + j] \in Nat /\ ~(pushes[b + j] > 0)
      BY <1>1, <3>1 DEF PushInv, PushedOnce, TypeOK
    <3>3. broadcasts'[b + j].sent = ~request[r].scheduled
      <4>1. broadcasts'[b + j] = [community |-> request[r].added[j],
                                  sent |-> ~request[r].scheduled]
        BY <1>1
      <4> DEFINE w == [community |-> request[r].added[j], sent |-> ~request[r].scheduled]
      <4>2. w.sent = ~request[r].scheduled
        BY Zenon
      <4> HIDE DEF w
      <4>3. QED
        BY <4>1, <4>2 DEF w
    <3>4. b + j \in DOMAIN broadcasts' /\ pushes'[b + j] = 0
      BY <1>1, <1>2, <3>1, <3>2
    <3> HIDE DEF n, b
    <3>5. QED
      BY <1>8, <3>1, <3>3, <3>4, Zenon
  <2>4. ASSUME NEW s \in Requests, NEW j \in DOMAIN Queue(s)'
        PROVE  /\ Queue(s)'[j] \in DOMAIN broadcasts' /\ broadcasts'[Queue(s)'[j]].sent
               /\ pushes'[Queue(s)'[j]] = 0
    <3>1. CASE s = r
      BY <2>2, <2>3, <2>4, <3>1
    <3>2. CASE s # r
      BY <1>1, <1>5, <1>6, <2>4, <3>2
    <3>3. QED
      BY <3>1, <3>2
  <2>5. ASSUME NEW s \in Requests, NEW t \in Requests,
               NEW j \in DOMAIN Queue(s)', NEW k \in DOMAIN Queue(t)',
               Queue(s)'[j] = Queue(t)'[k]
        PROVE  s = t /\ j = k
    <3>1. CASE s = r /\ t = r
      BY <1>1, <2>2, <2>5, <3>1
    <3>2. CASE s = r /\ t # r
      BY <1>5, <1>6, <2>2, <2>3, <2>5, <3>2
    <3>3. CASE s # r /\ t = r
      BY <1>5, <1>6, <2>2, <2>3, <2>5, <3>3
    <3>4. CASE s # r /\ t # r
      BY <1>5, <2>5, <3>4 DEF PushInv, WaitsOnce
    <3>5. QED
      BY <3>1, <3>2, <3>3, <3>4
  <2>6. WaitsOnce'
    BY <2>4, <2>5 DEF WaitsOnce
  <2>7. QED
    BY <1>3, <2>6 DEF PushInv
<1>9. QED
  BY <1>7, <1>8

LEMMA PushOne ==
    ASSUME TypeOK, PushInv, NEW r \in Requests, PushBroadcast(r)
    PROVE  PushInv'
<1> DEFINE o == request[r]
           i == Head(o.todo)
<1>1. o \in PushRecord /\ o.todo # <<>> /\ Pushing(r)
  BY PushIsRecord DEF PushBroadcast
<1>2. o.todo \in Seq(Ids)
  BY <1>1 DEF PushRecord
<1>3. /\ Len(o.todo) \in Nat /\ Len(o.todo) >= 1 /\ DOMAIN o.todo = 1 .. Len(o.todo)
      /\ i = o.todo[1] /\ i \in Ids
      /\ DOMAIN Tail(o.todo) = 1 .. Len(o.todo) - 1
      /\ \A j \in 1 .. Len(o.todo) - 1 : Tail(o.todo)[j] = o.todo[j + 1]
  <2>1. Len(o.todo) \in Nat \ {0} /\ DOMAIN o.todo = 1 .. Len(o.todo)
    BY <1>1, <1>2, EmptySeq, SeqFacts
  <2>2. /\ Tail(o.todo) \in Seq(Ids) /\ Len(Tail(o.todo)) = Len(o.todo) - 1 /\ i \in Ids
        /\ \A j \in 1 .. Len(Tail(o.todo)) : Tail(o.todo)[j] = o.todo[j + 1]
    BY <1>1, <1>2, HeadTailProperties
  <2>3. i = o.todo[1]
    BY <1>1, <1>2
  <2>4. DOMAIN Tail(o.todo) = 1 .. Len(Tail(o.todo))
    BY <2>2, SeqFacts
  <2>5. QED
    BY <2>1, <2>2, <2>3, <2>4
<1>4. /\ pushes' = [pushes EXCEPT ![i] = @ + 1]
      /\ UNCHANGED broadcasts
      /\ request' = [request EXCEPT ![r] = [o EXCEPT !.todo = Tail(o.todo)]]
  BY DEF PushBroadcast, PushToTopic, tables
<1>5. /\ Queue(r) = o.todo /\ Queue(r)' = Tail(o.todo)
      /\ \A s \in Requests \ {r} : Queue(s)' = Queue(s)
  <2>1. [o EXCEPT !.todo = Tail(o.todo)].phase = "push"
        /\ [o EXCEPT !.todo = Tail(o.todo)].todo = Tail(o.todo)
    BY <1>1 DEF PushRecord
  <2>2. /\ request'[r] = [o EXCEPT !.todo = Tail(o.todo)]
        /\ \A s \in Requests \ {r} : request'[s] = request[s]
    BY <1>4 DEF TypeOK
  <2>3. QED
    BY <1>1, <2>1, <2>2 DEF Queue, Pushing
<1>6. i \in DOMAIN broadcasts /\ broadcasts[i].sent /\ pushes[i] = 0
  <2>1. 1 \in DOMAIN Queue(r) /\ Queue(r)[1] = i
    BY <1>3, <1>5
  <2>2. QED
    BY <2>1 DEF PushInv, WaitsOnce
<1>7. pushes'[i] = 1 /\ \A k \in Ids \ {i} : pushes'[k] = pushes[k]
  BY <1>3, <1>4, <1>6 DEF TypeOK
<1>8. PushedOnce'
  BY <1>4, <1>6, <1>7 DEF PushInv, PushedOnce
\* Every entry of a queue was one of the same queue, further back in r's.
<1>9. ASSUME NEW s \in Requests, NEW j \in DOMAIN Queue(s)'
      PROVE  LET k == IF s = r THEN j + 1 ELSE j IN
             /\ k \in DOMAIN Queue(s) /\ Queue(s)'[j] = Queue(s)[k]
             /\ Queue(s)[k] # i
  <2>1. 1 \in DOMAIN Queue(r) /\ Queue(r)[1] = i
    BY <1>3, <1>5
  <2>2. CASE s = r
    <3>1. j \in 1 .. Len(o.todo) - 1 /\ j + 1 \in DOMAIN Queue(r) /\ j + 1 # 1
      BY <1>3, <1>5, <1>9, <2>2
    <3>2. Queue(r)[j + 1] # i
      BY <2>1, <3>1 DEF PushInv, WaitsOnce
    <3>3. QED
      BY <1>3, <1>5, <2>2, <3>1, <3>2
  <2>3. CASE s # r
    <3>1. Queue(s)' = Queue(s)
      BY <1>5, <2>3
    <3>2. Queue(s)[j] # i
      BY <1>9, <2>1, <2>3, <3>1 DEF PushInv, WaitsOnce
    <3>3. QED
      BY <1>9, <2>3, <3>1, <3>2
  <2>4. QED
    BY <2>2, <2>3
<1>10. ASSUME NEW s \in Requests, NEW j \in DOMAIN Queue(s)'
       PROVE  /\ Queue(s)'[j] \in DOMAIN broadcasts' /\ broadcasts'[Queue(s)'[j]].sent
              /\ pushes'[Queue(s)'[j]] = 0
  <2>1. PICK k \in DOMAIN Queue(s) : Queue(s)'[j] = Queue(s)[k] /\ Queue(s)[k] # i
    BY <1>9, <1>10
  <2>2. /\ Queue(s)[k] \in DOMAIN broadcasts /\ broadcasts[Queue(s)[k]].sent
        /\ pushes[Queue(s)[k]] = 0
    BY DEF PushInv, WaitsOnce
  <2>3. Queue(s)[k] \in Ids
    <3>1. DOMAIN broadcasts = 1 .. Len(broadcasts) /\ Len(broadcasts) \in Nat
      BY SeqFacts DEF TypeOK
    <3>2. QED
      BY <2>2, <3>1, BoundAssumption DEF TypeOK, Ids
  <2>4. QED
    BY <1>4, <1>7, <2>1, <2>2, <2>3
<1>11. ASSUME NEW s \in Requests, NEW t \in Requests,
              NEW j \in DOMAIN Queue(s)', NEW k \in DOMAIN Queue(t)',
              Queue(s)'[j] = Queue(t)'[k]
       PROVE  s = t /\ j = k
  <2> DEFINE js == IF s = r THEN j + 1 ELSE j
             kt == IF t = r THEN k + 1 ELSE k
  <2>1. /\ js \in DOMAIN Queue(s) /\ kt \in DOMAIN Queue(t)
        /\ Queue(s)[js] = Queue(t)[kt]
    BY <1>9, <1>11
  <2>2. s = t /\ js = kt
    BY <2>1 DEF PushInv, WaitsOnce
  <2>3. CASE s = r
    <3>1. j \in 1 .. Len(o.todo) - 1 /\ k \in 1 .. Len(o.todo) - 1
      BY <1>3, <1>5, <2>2, <2>3
    <3>2. QED
      BY <1>3, <2>2, <2>3, <3>1
  <2>4. CASE s # r
    BY <2>2, <2>4
  <2>5. QED
    BY <2>3, <2>4
<1>12. WaitsOnce'
  BY <1>10, <1>11 DEF WaitsOnce
<1>13. QED
  BY <1>8, <1>12 DEF PushInv

LEMMA PushInit == Init => PushInv
<1> SUFFICES ASSUME Init PROVE PushInv
  OBVIOUS
<1>1. \A r \in Requests : Queue(r) = <<>>
  BY DEF Init, Queue, Pushing, Idle
<1>2. QED
  BY <1>1 DEF Init, PushInv, PushedOnce, WaitsOnce

LEMMA PushStep == TypeOK /\ PushInv /\ [Next]_vars => PushInv'
<1> SUFFICES ASSUME TypeOK, PushInv, [Next]_vars PROVE PushInv'
  OBVIOUS
<1>0. Idle.phase # "push"
  BY DEF Idle
<1>1. ASSUME NEW r \in Requests, Send(r) PROVE PushInv'
  <2>1. PICK q : q.phase # "push" /\ request' = [request EXCEPT ![r] = q]
    BY <1>1 DEF Send
  <2>2. QED
    BY <1>1, <2>1, RequestHasNoQueue DEF Send, tables
<1>2. ASSUME NEW r \in Requests, Refused(r) \/ Answer(r) PROVE PushInv'
  BY <1>0, <1>2, RequestHasNoQueue DEF Refused, Answer, tables
<1>3. ASSUME NEW r \in Requests, LookUp(r) PROVE PushInv'
  <2>1. PICK q \in LookRecord : request' = [request EXCEPT ![r] = q]
    BY <1>3, LookUpRecord
  <2>2. q.phase # "push"
    BY DEF LookRecord
  <2>3. QED
    BY <1>3, <2>1, <2>2, RequestHasNoQueue DEF LookUp, tables
<1>4. CASE Crash
  <2>1. \A r \in Requests : Queue(r)' = <<>>
    BY <1>4 DEF Crash, Queue, Pushing, Idle
  <2>2. QED
    BY <1>4, <2>1, QueuesShrink DEF Crash, tables
<1>5. CASE UNCHANGED <<broadcasts, request, pushes>>
  <2>1. \A r \in Requests : Queue(r)' = Queue(r)
    BY <1>5 DEF Queue, Pushing
  <2>2. QED
    BY <1>5, <2>1, QueuesShrink
<1>6. QED
  BY <1>1, <1>2, <1>3, <1>4, <1>5, PushCommit, PushOne DEF Next, Serve, RecordAck,
     CreateCommunity, DeleteCommunity, DeleteHome, vars, tables

\* Every row is pushed at most once, and only a committed one with sent_at,
\* whatever requests overlap and however often the process dies.
THEOREM EachPushedOnce == Spec => []PushedOnce
<1>1. QED
  BY TypeInit, TypeStep, PushInit, PushStep, PTL DEF Spec, PushInv

=============================================================================
