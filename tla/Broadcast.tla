----------------------------- MODULE Broadcast -----------------------------
(***************************************************************************)
(* Notifications to the SmartHome apps (services/broadcast.py): one row    *)
(* and one push to an FCM topic per entry of the request's list of         *)
(* communities, which may name one twice, and the acknowledgements the     *)
(* apps send back.                                                         *)
(*                                                                         *)
(* A request looks its communities up one await at a time, commits its     *)
(* rows with sent_at already set, and only then pushes them one by one.    *)
(* Communities are created and deleted meanwhile, and the process can die  *)
(* between any two pushes.  Whether FCM took a push is only logged, so the *)
(* outcome leaves no trace here.                                           *)
(***************************************************************************)
EXTENDS Naturals, Sequences

CONSTANTS
    Communities,   \* community ids a request may name
    Homes,         \* home ids
    MsgIds,        \* str(payload.msg_id) of the acknowledgements
    Requests,      \* send_broadcast requests being served at one time
    MaxList,       \* bound: ids in one request
    MaxRows,       \* bound: rows of broadcasts
    MaxCrashes,    \* bound: deaths of the process
    NoCommunity    \* the look-up found nothing, or there was none yet

ASSUME BoundAssumption == MaxList \in Nat /\ MaxRows \in Nat /\ MaxCrashes \in Nat
ASSUME NoCommunityAssumption == NoCommunity \notin Communities

VARIABLES
    communities,   \* communities: ids of the table's rows
    homes,         \* homes: ids of the table's rows
    broadcasts,    \* broadcasts, by id; sent says whether sent_at is set
    acks,          \* broadcast_acks: <<broadcast_id, home_id>>
    request,
    pushes,        \* history: calls of FCMClient.push_to_topic, per row
    lost,          \* history: rows the process died on before their push
    crashes

tables == <<communities, homes, broadcasts, acks>>
vars == <<tables, request, pushes, lost, crashes>>

Ids == 1 .. MaxRows
Idle == [phase |-> "idle"]
Lists == UNION {[1 .. n -> Communities] : n \in 0 .. MaxList}
Request ==
    {Idle}
    \cup [phase : {"look"}, todo : Seq(Communities), scheduled : BOOLEAN,
          added : Seq(Communities), flushed : Nat, loaded : Communities \cup {NoCommunity}]
    \cup [phase : {"push"}, todo : Seq(Ids)]

Looking(r) == request[r].phase = "look"
Pushing(r) == request[r].phase = "push"

\* Rows of r the database has seen: it keeps their communities until r ends.
Holds(r, c) == Looking(r) /\ \E i \in 1 .. request[r].flushed : request[r].added[i] = c

-----------------------------------------------------------------------------
(* send_broadcast.                                                         *)

Send(r) ==
    /\ request[r] = Idle
    /\ \E list \in Lists, scheduled \in BOOLEAN :
         request' = [request EXCEPT ![r] =
             [phase |-> "look", todo |-> list, scheduled |-> scheduled,
              added |-> <<>>, flushed |-> 0, loaded |-> NoCommunity]]
    /\ UNCHANGED <<tables, pushes, lost, crashes>>

\* The INSERTs of the rows added so far satisfy the foreign key.
FlushSucceeds(r) == \A i \in DOMAIN request[r].added : request[r].added[i] \in communities

\* An IntegrityError: the transaction is rolled back and the answer is 409.
Refused(r) ==
    /\ Looking(r) /\ ~FlushSucceeds(r)
    /\ \/ request[r].todo = <<>>
       \/ request[r].todo # <<>> /\ Head(request[r].todo) # request[r].loaded
    /\ request' = [request EXCEPT ![r] = Idle]
    /\ UNCHANGED <<tables, pushes, lost, crashes>>

\* Mutant of LookUp: no continue after the warning, and the row takes its
\* community from what was found.
LookUpGoesOn(r) ==
    /\ Looking(r) /\ request[r].todo # <<>>
    /\ LET found == IF Head(request[r].todo) \in communities THEN Head(request[r].todo)
                                                            ELSE NoCommunity
       IN  request' = [request EXCEPT ![r].todo = Tail(@), ![r].loaded = found,
                                      ![r].added = Append(@, found)]
    /\ UNCHANGED <<tables, pushes, lost, crashes>>

\* db.get(Community, id), and a row for a community that exists.  The object
\* of the look-up before is still in the session; any other id is a SELECT,
\* which flushes the rows added so far.
LookUp(r) ==
    /\ Looking(r) /\ request[r].todo # <<>>
    /\ LET q == request[r]
           c == Head(q.todo)
           cached == c = q.loaded
           found == cached \/ c \in communities
       IN  /\ cached \/ FlushSucceeds(r)
           /\ request' = [request EXCEPT ![r] =
                  [phase |-> "look", todo |-> Tail(q.todo), scheduled |-> q.scheduled,
                   added |-> IF found THEN Append(q.added, c) ELSE q.added,
                   flushed |-> IF cached THEN q.flushed ELSE Len(q.added),
                   loaded |-> IF found THEN c ELSE NoCommunity]]
    /\ UNCHANGED <<tables, pushes, lost, crashes>>

NewRows(r) ==
    [i \in DOMAIN request[r].added |->
        [community |-> request[r].added[i], sent |-> ~request[r].scheduled]]

\* The ids of the rows r commits, in the order of its list.
NewIds(r) == [i \in DOMAIN request[r].added |-> Len(broadcasts) + i]

ReadyToCommit(r) ==
    /\ Looking(r) /\ request[r].todo = <<>> /\ FlushSucceeds(r)
    /\ Len(broadcasts) + Len(request[r].added) <= MaxRows

\* Mutant of CommitSend: the foreign key is gone (the migration without it).
CommitSendUnchecked(r) ==
    /\ Looking(r) /\ request[r].todo = <<>>
    /\ Len(broadcasts) + Len(request[r].added) <= MaxRows
    /\ broadcasts' = broadcasts \o NewRows(r)
    /\ request' = [request EXCEPT ![r] =
           IF request[r].scheduled THEN Idle ELSE [phase |-> "push", todo |-> NewIds(r)]]
    /\ UNCHANGED <<communities, homes, acks, pushes, lost, crashes>>

\* The commit.  Rows with scheduled_at are left to nobody; the others are
\* pushed by this request.
CommitSend(r) ==
    /\ ReadyToCommit(r)
    /\ broadcasts' = broadcasts \o NewRows(r)
    /\ request' = [request EXCEPT ![r] =
           IF request[r].scheduled THEN Idle ELSE [phase |-> "push", todo |-> NewIds(r)]]
    /\ UNCHANGED <<communities, homes, acks, pushes, lost, crashes>>

\* push_to_topic never raises: without a project id it does nothing, an error
\* of FCM or of the network is logged.
PushToTopic(i) == pushes' = [pushes EXCEPT ![i] = @ + 1]

\* Mutant of PushBroadcast: the loop ends at a push that failed.
PushBroadcastStops(r) ==
    /\ Pushing(r) /\ request[r].todo # <<>>
    /\ PushToTopic(Head(request[r].todo))
    /\ \E rest \in {<<>>, Tail(request[r].todo)} :
         request' = [request EXCEPT ![r].todo = rest]
    /\ UNCHANGED <<tables, lost, crashes>>

\* Mutant of PushBroadcast: a push that failed is tried once more.
PushBroadcastRetries(r) ==
    /\ Pushing(r) /\ request[r].todo # <<>>
    /\ PushToTopic(Head(request[r].todo))
    /\ \E rest \in {request[r].todo, Tail(request[r].todo)} :
         /\ pushes[Head(request[r].todo)] > 0 => rest = Tail(request[r].todo)
         /\ request' = [request EXCEPT ![r].todo = rest]
    /\ UNCHANGED <<tables, lost, crashes>>

\* _push_broadcast of the next row.
PushBroadcast(r) ==
    /\ Pushing(r) /\ request[r].todo # <<>>
    /\ PushToTopic(Head(request[r].todo))
    /\ request' = [request EXCEPT ![r].todo = Tail(@)]
    /\ UNCHANGED <<tables, lost, crashes>>

\* 201 with the rows, or 400 when no community was found.
Answer(r) ==
    /\ Pushing(r) /\ request[r].todo = <<>>
    /\ request' = [request EXCEPT ![r] = Idle]
    /\ UNCHANGED <<tables, pushes, lost, crashes>>

-----------------------------------------------------------------------------
(* The rest of the server.                                                 *)

\* acknowledge_broadcast stores the message's number as the home; only a home
\* of that name makes the INSERT succeed.
RecordAck(i, m) ==
    /\ i \in DOMAIN broadcasts
    /\ m \in homes
    /\ acks' = acks \cup {<<i, m>>}
    /\ UNCHANGED <<communities, homes, broadcasts, request, pushes, lost, crashes>>

CreateCommunity(c) ==
    /\ communities' = communities \cup {c}
    /\ UNCHANGED <<homes, broadcasts, acks, request, pushes, lost, crashes>>

\* Refused while a broadcast refers to it, also one not committed yet.
DeleteCommunity(c) ==
    /\ \A i \in DOMAIN broadcasts : broadcasts[i].community # c
    /\ \A r \in Requests : ~Holds(r, c)
    /\ communities' = communities \ {c}
    /\ UNCHANGED <<homes, broadcasts, acks, request, pushes, lost, crashes>>

DeleteHome(h) ==
    /\ \A a \in acks : a[2] # h
    /\ homes' = homes \ {h}
    /\ UNCHANGED <<communities, broadcasts, acks, request, pushes, lost, crashes>>

\* The process dies: nobody pushes what its requests had committed.
Crash ==
    /\ crashes < MaxCrashes
    /\ crashes' = crashes + 1
    /\ request' = [r \in Requests |-> Idle]
    /\ lost' = {i \in DOMAIN broadcasts : broadcasts[i].sent /\ pushes[i] = 0}
    /\ UNCHANGED <<tables, pushes>>

Init ==
    /\ communities \in SUBSET Communities
    /\ homes = Homes
    /\ broadcasts = <<>>
    /\ acks = {}
    /\ request = [r \in Requests |-> Idle]
    /\ pushes = [i \in Ids |-> 0]
    /\ lost = {}
    /\ crashes = 0

Serve(r) ==
    Refused(r) \/ LookUp(r) \/ CommitSend(r) \/ PushBroadcast(r) \/ Answer(r)

Next ==
    \/ \E r \in Requests : Send(r) \/ Serve(r)
    \/ \E i \in Ids, m \in MsgIds : RecordAck(i, m)
    \/ \E c \in Communities : CreateCommunity(c) \/ DeleteCommunity(c)
    \/ \E h \in Homes : DeleteHome(h)
    \/ Crash

Spec == Init /\ [][Next]_vars

\* The event loop goes on with every request.
FairSpec == Spec /\ \A r \in Requests : WF_vars(Serve(r))

-----------------------------------------------------------------------------

Row == [community : Communities, sent : BOOLEAN]

\* Every variable keeps its type.
TypeOK ==
    /\ communities \subseteq Communities
    /\ homes \subseteq Homes
    /\ broadcasts \in Seq(Row) /\ Len(broadcasts) <= MaxRows
    /\ acks \subseteq Ids \X Homes
    /\ request \in [Requests -> Request]
    /\ pushes \in [Ids -> Nat]
    /\ lost \subseteq Ids
    /\ crashes \in 0 .. MaxCrashes

\* A row of broadcasts is pushed at most once, only when it is committed with
\* sent_at, and nothing is pushed for a request that was refused
\* (BroadcastService.send), whatever the other requests do.  This is said of
\* rows, not of apps: a list that names a community twice makes two rows, and
\* the apps of that community get the message twice.
PushedOnce ==
    \A i \in Ids :
        pushes[i] > 0 => /\ pushes[i] = 1
                         /\ i \in DOMAIN broadcasts
                         /\ broadcasts[i].sent

\* What makes it inductive: a row waits in one place of one queue.
Queue(r) == IF Pushing(r) THEN request[r].todo ELSE <<>>
WaitsOnce ==
    /\ \A r \in Requests : \A j \in DOMAIN Queue(r) :
         /\ Queue(r)[j] \in DOMAIN broadcasts /\ broadcasts[Queue(r)[j]].sent
         /\ pushes[Queue(r)[j]] = 0
    /\ \A r, s \in Requests : \A j \in DOMAIN Queue(r), k \in DOMAIN Queue(s) :
         Queue(r)[j] = Queue(s)[k] => r = s /\ j = k

\* The community a row notifies and the home an acknowledgement names exist
\* as long as the row does, although a community may be deleted between its
\* look-up and the commit: the fallback of _push_broadcast for a community
\* that is gone is never taken.
ReferencesHold ==
    /\ \A i \in DOMAIN broadcasts : broadcasts[i].community \in communities
    /\ \A a \in acks : a[1] \in DOMAIN broadcasts /\ a[2] \in homes

\* What makes it inductive: the database holds on to what it has seen.
FlushedHold ==
    \A r \in Requests : Looking(r) =>
        /\ request[r].flushed <= Len(request[r].added)
        /\ \A i \in 1 .. request[r].flushed : request[r].added[i] \in communities

\* sent_at is set before the push: a row that has it is pushed, unless the
\* process dies first, and a push that fails does not keep the others back.
SentIsPushed ==
    \A i \in Ids :
        i \in DOMAIN broadcasts /\ broadcasts[i].sent ~> pushes[i] > 0 \/ i \in lost

=============================================================================
