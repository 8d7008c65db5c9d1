------------------------ MODULE DeviceRegistryProofs ------------------------
(***************************************************************************)
(* Proofs about DeviceRegistry, for any number of boards, homes,           *)
(* communities and groups and for any number of requests that overlap with *)
(* each other and with the MQTT listener.                                  *)
(*                                                                         *)
(* What a request read before its commit is not part of the invariant: the *)
(* tables may have changed in any way since.  Only the checks of the       *)
(* commits keep the tables consistent, one lemma per commit.               *)
(***************************************************************************)
EXTENDS DeviceRegistry, TLAPS

\* The parts of TablesConsistent, by table.
HomesKnown == \A d \in Rows : devices[d].home \in homes \cup {NULL}
MacsUnique ==
    \A d, e \in Rows : d # e /\ devices[d].mac = devices[e].mac => devices[d].mac = NULL
LinksKnown == links \subseteq homes \X communities
MembersKnown ==
    \A g \in Groups : members[g] \subseteq Rows /\ (g \notin groups => members[g] = {})

\* A registration that is to create a home, or to write one into a row, has a
\* name for it.
HomeNamed ==
    /\ listener.op \in {"insert", "update"} =>
           (listener.placeholder => HomeOf[listener.dev] \in Homes)
    /\ listener.op = "update" =>
           (listener.writes_home => HomeOf[listener.dev] \in Homes)

TablesType ==
    /\ devices \in [Devices -> Device \cup {Absent}]
    /\ homes \subseteq Homes /\ communities \subseteq Communities
    /\ links \subseteq Homes \X Communities
    /\ groups \subseteq Groups /\ members \in [Groups -> SUBSET Devices]

TablesInv == TablesType /\ HomesKnown /\ MacsUnique /\ LinksKnown /\ MembersKnown
ListenerInv == listener \in Listener /\ HomeNamed
RequestType == request \in [Requests -> Request]

Inv == TablesInv /\ ListenerInv /\ RequestType

LEMMA InvMeans == Inv <=> TypeOK /\ TablesConsistent /\ HomeNamed
BY DEF Inv, TablesInv, TablesType, ListenerInv, RequestType, TypeOK, TablesConsistent,
   HomesKnown, MacsUnique, LinksKnown, MembersKnown

-----------------------------------------------------------------------------
(* Rows and requests.                                                      *)

LEMMA RowIsDevice ==
    ASSUME TablesType, NEW d \in Rows
    PROVE  d \in Devices /\ devices[d] \in Device
BY DEF TablesType, Rows

LEMMA SameRows ==
    ASSUME UNCHANGED devices
    PROVE  Rows' = Rows
BY DEF Rows

\* A row of devices is written, new or not, and homes may have been added in
\* the same commit.
LEMMA RowWritten ==
    ASSUME TablesInv, NEW d \in Devices, NEW row \in Device,
           DeviceAccepted(d, row, homes'),
           devices' = [devices EXCEPT ![d] = row],
           homes \subseteq homes', homes' \subseteq Homes,
           UNCHANGED <<communities, links, groups, members>>
    PROVE  TablesInv'
<1>1. /\ devices' \in [Devices -> Device \cup {Absent}]
      /\ devices'[d] = row
      /\ \A e \in Devices \ {d} : devices'[e] = devices[e]
  BY DEF TablesInv, TablesType
<1>2. Rows' = Rows \cup {d}
  BY <1>1, NullAssumption DEF Rows
<1>3. TablesType'
  BY <1>1 DEF TablesInv, TablesType
<1>4. HomesKnown'
  BY <1>1, <1>2 DEF TablesInv, HomesKnown, DeviceAccepted, Rows
<1>5. MacsUnique'
  BY <1>1, <1>2 DEF TablesInv, MacsUnique, DeviceAccepted, Rows
<1>6. LinksKnown' /\ MembersKnown'
  BY <1>2 DEF TablesInv, LinksKnown, MembersKnown
<1>7. QED
  BY <1>3, <1>4, <1>5, <1>6 DEF TablesInv

\* The fields of a request, by its operation.
LEMMA RequestFields ==
    ASSUME RequestType, NEW r \in Requests
    PROVE  /\ request[r].op = "create_device" =>
                  request[r].dev \in Devices /\ request[r].row \in Device
           /\ request[r].op = "update_device" =>
                  request[r] \in [op : {"update_device"}, dev : Devices,
                                  home : Homes \cup {NULL}]
           /\ request[r].op = "delete_device" => request[r].dev \in Devices
           /\ request[r].op = "create_home" => request[r].home \in Homes
           /\ request[r].op = "delete_home" => request[r].unset \subseteq Devices
           /\ request[r].op = "create_community" => request[r].community \in Communities
           /\ request[r].op \in {"create_group", "update_group"} =>
                  request[r].group \in Groups /\ request[r].members \subseteq Devices
           /\ request[r].op = "delete_group" => request[r].group \in Groups
<1>0. request[r] \in Request
  BY DEF RequestType
<1>1. CASE request[r] = Idle
  BY <1>1 DEF Idle
<1>2. CASE request[r] \in [op : {"create_device"}, dev : Devices, row : Device]
  BY <1>2
<1>3. CASE request[r] \in [op : {"update_device"}, dev : Devices, home : Homes \cup {NULL}]
  BY <1>3
<1>4. CASE request[r] \in [op : {"delete_device"}, dev : Devices]
  BY <1>4
<1>5. CASE request[r] \in [op : {"create_home"}, home : Homes]
  BY <1>5
<1>6. CASE request[r] \in [op : {"delete_home"}, home : Homes, unset : SUBSET Devices,
                           unlink : SUBSET (Homes \X Communities)]
  BY <1>6
<1>7. CASE request[r] \in [op : {"create_community"}, community : Communities]
  BY <1>7
<1>8. CASE request[r] \in [op : {"delete_community"}, community : Communities,
                           unlink : SUBSET (Homes \X Communities)]
  BY <1>8
<1>9. CASE request[r] \in [op : {"assign_community"}, link : Homes \X Communities]
  BY <1>9
<1>10. CASE request[r] \in [op : {"create_group"}, group : Groups, members : SUBSET Devices]
  BY <1>10
<1>11. CASE request[r] \in [op : {"update_group"}, group : Groups, members : SUBSET Devices,
                            seen : SUBSET Devices]
  BY <1>11
<1>12. CASE request[r] \in [op : {"delete_group"}, group : Groups]
  BY <1>12
<1>13. QED
  BY <1>0, <1>1, <1>2, <1>3, <1>4, <1>5, <1>6, <1>7, <1>8, <1>9, <1>10, <1>11, <1>12
     DEF Request

-----------------------------------------------------------------------------
(* Requests: the reads.                                                    *)

LEMMA BeginsType ==
    ASSUME RequestType, NEW r \in Requests, NEW next \in Request, Begins(r, next)
    PROVE  RequestType'
BY DEF RequestType, Begins

LEMMA AskStep ==
    ASSUME Inv, NEW r \in Requests, Asks(r)
    PROVE  RequestType' /\ UNCHANGED <<tables, listener>>
<1> USE DEF Inv, TablesInv, TablesType
<1>0. UNCHANGED <<tables, listener>>
  BY DEF Asks, CreateDevice, UpdateDevice, DeleteDevice, CreateHome, DeleteHome,
     CreateCommunity, DeleteCommunity, AssignCommunity, CreateGroup, UpdateGroup,
     DeleteGroup, Begins
<1>1. CASE CreateDevice(r)
  <2>1. PICK d \in Devices, mac \in Macs, h \in Homes \cup {NULL} :
          Begins(r, [op |-> "create_device", dev |-> d, row |-> [mac |-> mac, home |-> h]])
    BY <1>1 DEF CreateDevice
  <2>2. [mac |-> mac, home |-> h] \in Device
    BY DEF Device
  <2>3. [op |-> "create_device", dev |-> d, row |-> [mac |-> mac, home |-> h]] \in Request
    BY <2>2 DEF Request
  <2>4. QED
    BY <1>0, <2>1, <2>3, BeginsType
<1>2. CASE UpdateDevice(r)
  <2>1. PICK d \in Rows, h \in Homes \cup {NULL} :
          Begins(r, [op |-> "update_device", dev |-> d, home |-> h])
    BY <1>2 DEF UpdateDevice
  <2>2. [op |-> "update_device", dev |-> d, home |-> h] \in Request
    BY RowIsDevice DEF Request
  <2>3. QED
    BY <1>0, <2>1, <2>2, BeginsType
<1>3. CASE DeleteDevice(r)
  <2>1. PICK d \in Rows : Begins(r, [op |-> "delete_device", dev |-> d])
    BY <1>3 DEF DeleteDevice
  <2>2. [op |-> "delete_device", dev |-> d] \in Request
    BY RowIsDevice DEF Request
  <2>3. QED
    BY <1>0, <2>1, <2>2, BeginsType
<1>4. CASE CreateHome(r)
  <2>1. PICK h \in Homes : Begins(r, [op |-> "create_home", home |-> h])
    BY <1>4 DEF CreateHome
  <2>2. [op |-> "create_home", home |-> h] \in Request
    BY DEF Request
  <2>3. QED
    BY <1>0, <2>1, <2>2, BeginsType
<1>5. CASE DeleteHome(r)
  <2>1. PICK h \in homes :
          Begins(r, [op |-> "delete_home", home |-> h,
                     unset |-> {d \in Rows : devices[d].home = h},
                     unlink |-> {l \in links : l[1] = h}])
    BY <1>5 DEF DeleteHome
  <2>2. /\ {d \in Rows : devices[d].home = h} \in SUBSET Devices
        /\ {l \in links : l[1] = h} \in SUBSET (Homes \X Communities)
        /\ h \in Homes
    BY DEF Rows
  <2>3. [op |-> "delete_home", home |-> h, unset |-> {d \in Rows : devices[d].home = h},
         unlink |-> {l \in links : l[1] = h}] \in Request
    BY <2>2 DEF Request
  <2>4. QED
    BY <1>0, <2>1, <2>3, BeginsType
<1>6. CASE CreateCommunity(r)
  <2>1. PICK c \in Communities : Begins(r, [op |-> "create_community", community |-> c])
    BY <1>6 DEF CreateCommunity
  <2>2. [op |-> "create_community", community |-> c] \in Request
    BY DEF Request
  <2>3. QED
    BY <1>0, <2>1, <2>2, BeginsType
<1>7. CASE DeleteCommunity(r)
  <2>1. PICK c \in communities :
          Begins(r, [op |-> "delete_community", community |-> c,
                     unlink |-> {l \in links : l[2] = c}])
    BY <1>7 DEF DeleteCommunity
  <2>2. {l \in links : l[2] = c} \in SUBSET (Homes \X Communities) /\ c \in Communities
    OBVIOUS
  <2>3. [op |-> "delete_community", community |-> c,
         unlink |-> {l \in links : l[2] = c}] \in Request
    BY <2>2 DEF Request
  <2>4. QED
    BY <1>0, <2>1, <2>3, BeginsType
<1>8. CASE AssignCommunity(r)
  <2>1. PICK l \in homes \X communities : Begins(r, [op |-> "assign_community", link |-> l])
    BY <1>8 DEF AssignCommunity
  <2>2. [op |-> "assign_community", link |-> l] \in Request
    BY DEF Request
  <2>3. QED
    BY <1>0, <2>1, <2>2, BeginsType
<1>9. CASE CreateGroup(r)
  <2>1. PICK g \in Groups, S \in SUBSET Devices :
          Begins(r, [op |-> "create_group", group |-> g, members |-> S])
    BY <1>9 DEF CreateGroup
  <2>2. [op |-> "create_group", group |-> g, members |-> S] \in Request
    BY DEF Request
  <2>3. QED
    BY <1>0, <2>1, <2>2, BeginsType
<1>10. CASE UpdateGroup(r)
  <2>1. PICK g \in groups, S \in SUBSET Devices :
          Begins(r, [op |-> "update_group", group |-> g, members |-> S, seen |-> members[g]])
    BY <1>10 DEF UpdateGroup
  <2>2. [op |-> "update_group", group |-> g, members |-> S, seen |-> members[g]] \in Request
    BY DEF Request
  <2>3. QED
    BY <1>0, <2>1, <2>2, BeginsType
<1>11. CASE DeleteGroup(r)
  <2>1. PICK g \in groups : Begins(r, [op |-> "delete_group", group |-> g])
    BY <1>11 DEF DeleteGroup
  <2>2. [op |-> "delete_group", group |-> g] \in Request
    BY DEF Request
  <2>3. QED
    BY <1>0, <2>1, <2>2, BeginsType
<1>12. QED
  BY <1>1, <1>2, <1>3, <1>4, <1>5, <1>6, <1>7, <1>8, <1>9, <1>10, <1>11 DEF Asks

-----------------------------------------------------------------------------
(* Requests: the commits.                                                  *)

LEMMA EndsType ==
    ASSUME RequestType, NEW r \in Requests, NEW op, Ends(r, op)
    PROVE  RequestType' /\ UNCHANGED listener
BY DEF RequestType, Ends, Request

LEMMA UpdateDeviceStep ==
    ASSUME Inv, NEW r \in Requests, CommitUpdateDevice(r)
    PROVE  TablesInv'
<1> DEFINE d == request[r].dev
           h == request[r].home
           row == [devices[d] EXCEPT !.home = h]
<1>1. d \in Rows /\ h \in homes \cup {NULL} /\ h \in Homes \cup {NULL}
  BY RequestFields DEF CommitUpdateDevice, Ends, Inv
<1>2. d \in Devices /\ devices[d] \in Device
  BY <1>1, RowIsDevice DEF Inv, TablesInv
<1>3. row \in Device /\ row.home = h /\ row.mac = devices[d].mac
  BY <1>1, <1>2 DEF Device
<1>4. devices' = [devices EXCEPT ![d] = row] /\ homes' = homes
      /\ UNCHANGED <<communities, links, groups, members>>
  BY DEF CommitUpdateDevice
<1>5. DeviceAccepted(d, row, homes')
  BY <1>1, <1>3, <1>4 DEF DeviceAccepted, Inv, TablesInv, MacsUnique
<1> HIDE DEF row
<1>6. QED
  BY <1>2, <1>3, <1>4, <1>5, RowWritten DEF Inv, TablesInv, TablesType

LEMMA DeleteDeviceStep ==
    ASSUME Inv, NEW r \in Requests, CommitDeleteDevice(r)
    PROVE  TablesInv'
<1> DEFINE d == request[r].dev
<1>1. /\ devices' = [devices EXCEPT ![d] = Absent]
      /\ members' = [g \in Groups |-> members[g] \ {d}]
      /\ UNCHANGED <<homes, communities, links, groups>>
  BY DEF CommitDeleteDevice
<1>2. /\ devices' \in [Devices -> Device \cup {Absent}]
      /\ Rows' = Rows \ {d}
      /\ \A e \in Rows' : devices'[e] = devices[e]
  BY <1>1 DEF Inv, TablesInv, TablesType, Rows
<1>3. TablesType'
  BY <1>1, <1>2 DEF Inv, TablesInv, TablesType
<1>4. HomesKnown' /\ MacsUnique' /\ LinksKnown'
  BY <1>1, <1>2 DEF Inv, TablesInv, HomesKnown, MacsUnique, LinksKnown
<1>5. MembersKnown'
  BY <1>1, <1>2 DEF Inv, TablesInv, MembersKnown
<1>6. QED
  BY <1>3, <1>4, <1>5 DEF TablesInv

LEMMA DeleteHomeStep ==
    ASSUME Inv, NEW r \in Requests, CommitDeleteHome(r)
    PROVE  TablesInv'
<1> DEFINE q == request[r]
<1>1. /\ q.unset \subseteq Rows
      /\ devices' = [d \in Devices |-> IF d \in q.unset
                        THEN [devices[d] EXCEPT !.home = NULL] ELSE devices[d]]
      /\ links' = links \ q.unlink
      /\ \A d \in Rows \ q.unset : devices[d].home # q.home
      /\ \A l \in links' : l[1] # q.home
      /\ homes' = homes \ {q.home}
      /\ UNCHANGED <<communities, groups, members>>
  BY DEF CommitDeleteHome, Unlinked
<1>2. ASSUME NEW d \in q.unset
      PROVE  /\ devices'[d] \in Device /\ d \in Rows
             /\ devices'[d].home = NULL /\ devices'[d].mac = devices[d].mac
  <2>1. d \in Rows /\ d \in Devices /\ devices[d] \in Device
    BY <1>1, <1>2, RowIsDevice DEF Inv, TablesInv
  <2>2. devices'[d] = [devices[d] EXCEPT !.home = NULL]
    BY <1>1, <1>2, <2>1
  <2>3. QED
    BY <2>1, <2>2 DEF Device
<1>3. \A d \in Devices \ q.unset : devices'[d] = devices[d]
  BY <1>1
<1>4. devices' \in [Devices -> Device \cup {Absent}] /\ Rows' = Rows
  <2>1. \A d \in Devices : devices'[d] \in Device \cup {Absent}
    BY <1>2, <1>3 DEF Inv, TablesInv, TablesType
  <2>2. devices' = [d \in Devices |-> devices'[d]]
    BY <1>1
  <2>3. Rows' = Rows
    BY <1>2, <1>3, NullAssumption DEF Rows
  <2>4. QED
    BY <2>1, <2>2, <2>3
<1>5. TablesType'
  BY <1>1, <1>4 DEF Inv, TablesInv, TablesType
<1>6. HomesKnown'
  BY <1>1, <1>2, <1>3, <1>4 DEF Inv, TablesInv, HomesKnown, Rows
<1>7. MacsUnique'
  <2>1. \A d \in Rows : devices'[d].mac = devices[d].mac
    BY <1>2, <1>3 DEF Rows
  <2>2. QED
    BY <1>4, <2>1 DEF Inv, TablesInv, MacsUnique
<1>8. LinksKnown'
  <2> SUFFICES ASSUME NEW l \in links' PROVE l \in homes' \X communities'
    BY DEF LinksKnown
  <2>1. l \in homes \X communities
    BY <1>1 DEF Inv, TablesInv, LinksKnown
  <2>2. QED
    BY <1>1, <2>1
<1>9. MembersKnown'
  BY <1>1, <1>4 DEF Inv, TablesInv, MembersKnown
<1>10. QED
  BY <1>5, <1>6, <1>7, <1>8, <1>9 DEF TablesInv

LEMMA CommunityStep ==
    ASSUME Inv, NEW r \in Requests,
           \/ CommitCreateHome(r) \/ CommitCreateCommunity(r)
           \/ CommitDeleteCommunity(r) \/ CommitAssignCommunity(r)
    PROVE  TablesInv'
<1>1. UNCHANGED <<devices, groups, members>> /\ Rows' = Rows
  BY SameRows DEF CommitCreateHome, CommitCreateCommunity, CommitDeleteCommunity,
     CommitAssignCommunity
<1>2. homes \subseteq homes' /\ homes' \subseteq Homes /\ communities' \subseteq Communities
  BY RequestFields DEF CommitCreateHome, CommitCreateCommunity, CommitDeleteCommunity,
     CommitAssignCommunity, Ends, Inv, TablesInv, TablesType
<1>3. LinksKnown'
  <2>1. CASE CommitCreateHome(r) \/ CommitCreateCommunity(r)
    BY <2>1 DEF CommitCreateHome, CommitCreateCommunity, Inv, TablesInv, LinksKnown
  <2>2. CASE CommitDeleteCommunity(r)
    <3> SUFFICES ASSUME NEW l \in links' PROVE l \in homes' \X communities'
      BY DEF LinksKnown
    <3>1. l \in homes \X communities /\ l[2] # request[r].community
      BY <2>2 DEF CommitDeleteCommunity, Unlinked, Inv, TablesInv, LinksKnown
    <3>2. QED
      BY <2>2, <3>1 DEF CommitDeleteCommunity
  <2>3. CASE CommitAssignCommunity(r)
    BY <2>3 DEF CommitAssignCommunity, Inv, TablesInv, LinksKnown
  <2>4. QED
    BY <2>1, <2>2, <2>3
<1>4. TablesType'
  BY <1>1, <1>2, <1>3 DEF Inv, TablesInv, TablesType, LinksKnown
<1>5. HomesKnown' /\ MacsUnique' /\ MembersKnown'
  BY <1>1, <1>2 DEF Inv, TablesInv, HomesKnown, MacsUnique, MembersKnown
<1>6. QED
  BY <1>3, <1>4, <1>5 DEF TablesInv

LEMMA GroupStep ==
    ASSUME Inv, NEW r \in Requests,
           CommitCreateGroup(r) \/ CommitUpdateGroup(r) \/ CommitDeleteGroup(r)
    PROVE  TablesInv'
<1> DEFINE g == request[r].group
<1>1. UNCHANGED <<devices, homes, communities, links>> /\ Rows' = Rows /\ g \in Groups
  BY SameRows, RequestFields DEF CommitCreateGroup, CommitUpdateGroup, CommitDeleteGroup,
     Ends, Inv
<1>2. /\ members' \in [Groups -> SUBSET Devices]
      /\ \A k \in Groups \ {g} : members'[k] = members[k] /\ (k \in groups' <=> k \in groups)
      /\ members'[g] \subseteq Rows /\ (g \notin groups' => members'[g] = {})
      /\ groups' \subseteq Groups
  <2> USE <1>1 DEF Inv, TablesInv, TablesType, MembersKnown, Ends, MembersAccepted
  <2>1. CASE CommitCreateGroup(r)
    BY <2>1, RequestFields DEF CommitCreateGroup
  <2>2. CASE CommitUpdateGroup(r)
    BY <2>2, RequestFields DEF CommitUpdateGroup
  <2>3. CASE CommitDeleteGroup(r)
    BY <2>3 DEF CommitDeleteGroup
  <2>4. QED
    BY <2>1, <2>2, <2>3
<1>3. TablesType'
  BY <1>1, <1>2 DEF Inv, TablesInv, TablesType
<1>4. HomesKnown' /\ MacsUnique' /\ LinksKnown'
  BY <1>1 DEF Inv, TablesInv, HomesKnown, MacsUnique, LinksKnown
<1>5. MembersKnown'
  BY <1>1, <1>2 DEF Inv, TablesInv, MembersKnown
<1>6. QED
  BY <1>3, <1>4, <1>5 DEF TablesInv

\* Tables that do not change stay as good as they were.
LEMMA SameTables ==
    ASSUME TablesInv, UNCHANGED tables
    PROVE  TablesInv'
BY SameRows DEF tables, TablesInv, TablesType, HomesKnown, MacsUnique, LinksKnown, MembersKnown

LEMMA CommitStep ==
    ASSUME Inv, NEW r \in Requests, Commits(r)
    PROVE  TablesInv' /\ RequestType' /\ UNCHANGED listener
<1>1. RequestType' /\ UNCHANGED listener
  BY EndsType DEF Inv, Commits, CommitCreateDevice, CommitUpdateDevice, CommitDeleteDevice,
     CommitCreateHome, CommitDeleteHome, CommitCreateCommunity, CommitDeleteCommunity,
     CommitAssignCommunity, CommitCreateGroup, CommitUpdateGroup, CommitDeleteGroup, RollBack
<1>2. CASE CommitCreateDevice(r)
  <2>1. request[r].dev \in Devices /\ request[r].row \in Device
    BY <1>2, RequestFields DEF CommitCreateDevice, Ends, Inv
  <2>2. QED
    BY <1>1, <1>2, <2>1, RowWritten DEF CommitCreateDevice, Inv, TablesInv, TablesType
<1>3. CASE RollBack(r)
  BY <1>1, <1>3, SameTables DEF RollBack, Inv
<1>4. QED
  BY <1>1, <1>2, <1>3, UpdateDeviceStep, DeleteDeviceStep, DeleteHomeStep, CommunityStep,
     GroupStep DEF Commits

LEMMA RemoveStep ==
    ASSUME Inv, NEW l \in links, RemoveCommunity(l)
    PROVE  TablesInv' /\ UNCHANGED <<request, listener>>
<1>1. Rows' = Rows
  BY SameRows DEF RemoveCommunity
<1>2. QED
  BY <1>1 DEF RemoveCommunity, Inv, TablesInv, TablesType, HomesKnown, MacsUnique,
     LinksKnown, MembersKnown

-----------------------------------------------------------------------------
(* The listener.                                                           *)

LEMMA ListenerFields ==
    ASSUME listener \in Listener
    PROVE  /\ listener.op = "insert" =>
                  listener.dev \in Devices /\ listener.placeholder \in BOOLEAN
           /\ listener.op = "update" =>
                  /\ listener.dev \in Devices /\ listener.placeholder \in BOOLEAN
                  /\ listener.writes_mac \in BOOLEAN /\ listener.writes_home \in BOOLEAN
BY DEF Listener, Idle

LEMMA HandleStep ==
    ASSUME Inv, NEW d \in Devices, HandleHeartbeat(d) \/ HandleRegistration(d)
    PROVE  ListenerInv' /\ UNCHANGED <<tables, request>>
<1>1. CASE HandleHeartbeat(d)
  BY <1>1 DEF HandleHeartbeat, ListenerInv, Listener, HomeNamed
<1>2. CASE HandleRegistration(d)
  <2> DEFINE placeholder == HomeOf[d] \notin homes \cup {NULL}
  <2>1. placeholder \in BOOLEAN /\ (placeholder => HomeOf[d] \in Homes)
    BY BoardsAssumption
  <2> HIDE DEF placeholder
  <2>2. CASE d \notin Rows
    <3>1. listener' = [op |-> "insert", dev |-> d, placeholder |-> placeholder]
      BY <1>2, <2>2 DEF HandleRegistration, placeholder
    <3>2. QED
      BY <1>2, <2>1, <3>1 DEF HandleRegistration, ListenerInv, Listener, HomeNamed
  <2>3. CASE d \in Rows
    <3>1. PICK wm \in BOOLEAN, wh \in BOOLEAN :
            /\ wh => HomeOf[d] # NULL
            /\ listener' = [op |-> "update", dev |-> d, placeholder |-> placeholder,
                            writes_mac |-> wm, writes_home |-> wh]
      BY <1>2, <2>3 DEF HandleRegistration, placeholder
    <3>2. wh => HomeOf[d] \in Homes
      BY <3>1, BoardsAssumption
    <3>3. QED
      BY <1>2, <2>1, <3>1, <3>2 DEF HandleRegistration, ListenerInv, Listener, HomeNamed
  <2>4. QED
    BY <2>2, <2>3
<1>3. QED
  BY <1>1, <1>2

\* What a registration writes is a row.
LEMMA RegistrationRow ==
    ASSUME Inv, NEW d \in Devices, listener.op \in {"insert", "update"},
           listener.op = "insert" <=> d \notin Rows
    PROVE  RegistrationWrites(d, listener) \in Device
<1>1. MacOf[d] \in Macs /\ HomeOf[d] \in Homes \cup {NULL}
  BY BoardsAssumption
<1>2. CASE listener.op = "insert"
  BY <1>1, <1>2 DEF RegistrationWrites, Device
<1>3. CASE listener.op # "insert"
  <2>1. devices[d] \in Device
    BY <1>3, RowIsDevice DEF Inv, TablesInv
  <2>2. QED
    BY <1>1, <1>3, <2>1 DEF RegistrationWrites, Device
<1>4. QED
  BY <1>2, <1>3

LEMMA ListenStep ==
    ASSUME Inv, NEW d \in Devices, Listens(d)
    PROVE  TablesInv' /\ ListenerInv' /\ UNCHANGED request
<1>1. listener' = Idle /\ UNCHANGED request
  BY DEF Listens, InsertMinimal, CommitRegistration, DropMessage
<1>2. ListenerInv'
  BY <1>1 DEF ListenerInv, Listener, HomeNamed, Idle
<1>3. CASE InsertMinimal(d)
  <2> DEFINE row == [mac |-> NULL, home |-> NULL]
  <2>1. row \in Device /\ row.mac = NULL /\ row.home = NULL
    BY DEF Device
  <2>2. devices' = [devices EXCEPT ![d] = row]
        /\ UNCHANGED <<homes, communities, links, groups, members>>
    BY <1>3 DEF InsertMinimal
  <2> HIDE DEF row
  <2>3. DeviceAccepted(d, row, homes')
    BY <2>1 DEF DeviceAccepted
  <2>4. QED
    BY <1>1, <1>2, <2>1, <2>2, <2>3, RowWritten DEF Inv, TablesInv, TablesType
<1>4. CASE CommitRegistration(d)
  <2> DEFINE row == RegistrationWrites(d, listener)
  <2>1. /\ listener.op \in {"insert", "update"} /\ listener.dev = d
        /\ RegistrationAccepted(d, listener)
        /\ homes' = WithPlaceholder(d, listener)
        /\ devices' = [devices EXCEPT ![d] = row]
        /\ UNCHANGED <<communities, links, groups, members>>
    BY <1>4 DEF CommitRegistration
  <2>2. row \in Device
    BY <2>1, RegistrationRow DEF RegistrationAccepted
  <2>3. homes \subseteq homes' /\ homes' \subseteq Homes
    BY <2>1 DEF WithPlaceholder, Inv, ListenerInv, HomeNamed, TablesInv, TablesType
  <2>4. DeviceAccepted(d, row, homes')
    BY <2>1 DEF RegistrationAccepted
  <2> HIDE DEF row
  <2>5. QED
    BY <1>1, <1>2, <2>1, <2>2, <2>3, <2>4, RowWritten DEF Inv
<1>5. CASE DropMessage(d)
  BY <1>1, <1>2, <1>5, SameTables DEF DropMessage, Inv
<1>6. QED
  BY <1>3, <1>4, <1>5 DEF Listens

-----------------------------------------------------------------------------

LEMMA InitInv == Init => Inv
BY DEF Init, Inv, TablesInv, TablesType, HomesKnown, MacsUnique, LinksKnown, MembersKnown,
   ListenerInv, Listener, HomeNamed, RequestType, Request, Idle, Rows

LEMMA NextInv == Inv /\ [Next]_vars => Inv'
<1> SUFFICES ASSUME Inv, [Next]_vars PROVE Inv'
  OBVIOUS
<1>1. UNCHANGED listener => ListenerInv'
  BY DEF Inv, ListenerInv, HomeNamed
<1>2. UNCHANGED request => RequestType'
  BY DEF Inv, RequestType
<1>3. UNCHANGED tables => TablesInv'
  BY SameTables DEF Inv
<1>4. ASSUME NEW r \in Requests, Asks(r) PROVE Inv'
  BY <1>1, <1>3, <1>4, AskStep DEF Inv
<1>5. ASSUME NEW r \in Requests, Commits(r) PROVE Inv'
  BY <1>1, <1>5, CommitStep DEF Inv
<1>6. ASSUME NEW l \in links, RemoveCommunity(l) PROVE Inv'
  BY <1>1, <1>2, <1>6, RemoveStep DEF Inv
<1>7. ASSUME NEW d \in Devices, HandleHeartbeat(d) \/ HandleRegistration(d) PROVE Inv'
  BY <1>2, <1>3, <1>7, HandleStep DEF Inv
<1>8. ASSUME NEW d \in Devices, Listens(d) PROVE Inv'
  BY <1>2, <1>8, ListenStep DEF Inv
<1>9. CASE UNCHANGED vars
  BY <1>1, <1>2, <1>3, <1>9 DEF vars, Inv
<1>10. QED
  BY <1>4, <1>5, <1>6, <1>7, <1>8, <1>9 DEF Next

\* Every variable keeps its type.
THEOREM TypeCorrect == Spec => []TypeOK
<1>1. QED
  BY InitInv, NextInv, InvMeans, PTL DEF Spec

\* No row names a row that is gone and no two boards hold one hardware address,
\* whatever requests and registrations overlap: the checks of the commits are
\* enough, although the ORM clears only the references it had loaded
\* (BaseRepository.delete).
THEOREM TablesStayConsistent == Spec => []TablesConsistent
<1>1. QED
  BY InitInv, NextInv, InvMeans, PTL DEF Spec

-----------------------------------------------------------------------------
(* Taking a board out of its home.                                         *)

Unset(d) ==
    devices'[d] # Absent /\ devices[d].home # NULL /\ devices'[d].home = NULL

Justified(d) ==
    \E r \in Requests :
        \/ request[r] = [op |-> "update_device", dev |-> d, home |-> NULL]
        \/ /\ request[r].op = "delete_home" /\ d \in request[r].unset
           /\ request[r].home \notin homes'

\* Steps that leave the board's row alone, or write a home into it.
LEMMA OthersKeepHome ==
    ASSUME Inv, NEW d \in Rows, NEW e \in Devices, NEW row,
           devices' = [devices EXCEPT ![e] = row],
           e = d => row = Absent \/ row.home # NULL \/ row.home = devices[d].home
    PROVE  ~Unset(d)
BY RowIsDevice DEF Unset, Inv, TablesInv, TablesType

LEMMA CommitUnsets ==
    ASSUME Inv, NEW r \in Requests, Commits(r), NEW d \in Rows, Unset(d)
    PROVE  Justified(d)
<1>1. CASE UNCHANGED devices
  BY <1>1 DEF Unset
<1>2. CASE CommitCreateDevice(r)
  <2>1. request[r].dev \in Devices /\ request[r].dev # d
    BY <1>2, RequestFields DEF CommitCreateDevice, Ends, Inv
  <2>2. QED
    BY <1>2, <2>1, OthersKeepHome DEF CommitCreateDevice
<1>3. CASE CommitUpdateDevice(r)
  <2>1. request[r] \in [op : {"update_device"}, dev : Devices, home : Homes \cup {NULL}]
    BY <1>3, RequestFields DEF CommitUpdateDevice, Ends, Inv
  <2>2. devices[request[r].dev] \in Device
    BY <1>3, RowIsDevice DEF CommitUpdateDevice, Inv, TablesInv
  <2> DEFINE row == [devices[request[r].dev] EXCEPT !.home = request[r].home]
  <2>3. row.home = request[r].home
    BY <2>2 DEF Device
  <2>4. devices' = [devices EXCEPT ![request[r].dev] = row]
    BY <1>3 DEF CommitUpdateDevice
  <2> HIDE DEF row
  <2>5. request[r].dev = d /\ request[r].home = NULL
    BY <2>1, <2>3, <2>4, OthersKeepHome
  <2>6. request[r] = [op |-> "update_device", dev |-> d, home |-> NULL]
    BY <2>1, <2>5
  <2>7. QED
    BY <2>6 DEF Justified
<1>4. CASE CommitDeleteDevice(r)
  <2>1. request[r].dev \in Devices
    BY <1>4, RequestFields DEF CommitDeleteDevice, Ends, Inv
  <2>2. QED
    BY <1>4, <2>1, OthersKeepHome DEF CommitDeleteDevice
<1>5. CASE CommitDeleteHome(r)
  <2>1. /\ request[r].op = "delete_home"
        /\ homes' = homes \ {request[r].home}
        /\ devices' = [e \in Devices |-> IF e \in request[r].unset
                          THEN [devices[e] EXCEPT !.home = NULL] ELSE devices[e]]
    BY <1>5 DEF CommitDeleteHome, Ends
  <2>2. d \in request[r].unset
    BY <2>1, RowIsDevice DEF Unset, Inv, TablesInv
  <2>3. QED
    BY <2>1, <2>2 DEF Justified
<1>6. QED
  BY <1>1, <1>2, <1>3, <1>4, <1>5 DEF Commits, CommitCreateHome, CommitCreateCommunity,
     CommitDeleteCommunity, CommitAssignCommunity, CommitCreateGroup, CommitUpdateGroup,
     CommitDeleteGroup, RollBack, tables

LEMMA ListenerKeepsHome ==
    ASSUME Inv, NEW d \in Rows, NEW e \in Devices, Listens(e)
    PROVE  ~Unset(d)
<1>1. CASE InsertMinimal(e)
  <2>1. e # d
    BY <1>1 DEF InsertMinimal
  <2>2. QED
    BY <1>1, <2>1, OthersKeepHome DEF InsertMinimal
<1>2. CASE CommitRegistration(e)
  <2> DEFINE row == RegistrationWrites(e, listener)
  <2>1. devices' = [devices EXCEPT ![e] = row]
    BY <1>2 DEF CommitRegistration
  <2>2. ASSUME e = d PROVE row.home # NULL \/ row.home = devices[d].home
    <3>1. listener.op = "update" /\ devices[e] \in Device
      BY <1>2, <2>2, RowIsDevice DEF CommitRegistration, RegistrationAccepted, Inv, TablesInv
    <3>2. row.home = IF listener.writes_home THEN HomeOf[e] ELSE devices[e].home
      BY <3>1 DEF RegistrationWrites, Device
    <3>3. listener.writes_home => HomeOf[e] # NULL
      BY <1>2, <3>1, NullAssumption DEF CommitRegistration, Inv, ListenerInv, HomeNamed
    <3>4. QED
      BY <2>2, <3>2, <3>3
  <2> HIDE DEF row
  <2>3. QED
    BY <2>1, <2>2, OthersKeepHome
<1>3. CASE DropMessage(e)
  BY <1>3 DEF DropMessage, tables, Unset
<1>4. QED
  BY <1>1, <1>2, <1>3 DEF Listens

\* A board leaves its home only by a PATCH that says so or by a deletion that
\* really removes a home it was loaded from.
THEOREM UnsetIsJustified == Spec => UnsetOnlyWithDeletion
<1>1. ASSUME Inv, [Next]_vars
      PROVE  [\A d \in Rows : Unset(d) => Justified(d)]_vars
  <2> SUFFICES ASSUME Next, NEW d \in Rows, Unset(d) PROVE Justified(d)
    BY <1>1
  <2>1. CASE \E r \in Requests : Commits(r)
    BY <1>1, <2>1, CommitUnsets
  <2>2. CASE \E e \in Devices : Listens(e)
    BY <1>1, <2>2, ListenerKeepsHome
  <2>3. CASE UNCHANGED devices
    BY <2>3 DEF Unset
  <2>4. QED
    BY <1>1, <2>1, <2>2, <2>3, AskStep, RemoveStep, HandleStep DEF Next, tables, RemoveCommunity
<1>2. QED
  BY <1>1, InitInv, NextInv, PTL DEF Spec, UnsetOnlyWithDeletion, Unset, Justified

=============================================================================
