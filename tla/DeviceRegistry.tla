--------------------------- MODULE DeviceRegistry ---------------------------
(***************************************************************************)
(* The tables that say which boards, homes, communities and groups there   *)
(* are, under the CRUD endpoints (api/devices.py, homes.py, communities.py,*)
(* device_groups.py over repositories/), and under the MQTT listener, which*)
(* writes the same tables when a board boots or beats.                     *)
(*                                                                         *)
(* An endpoint reads, decides, and commits later; it takes no locks when   *)
(* it reads.  What the commit does depends on the tables as they are then: *)
(* a primary key, unique or foreign key conflict rolls everything back     *)
(* (IntegrityError, a 409), and so does an UPDATE of a row that is gone    *)
(* (StaleDataError, a 500).  A commit that is rolled back ends the request *)
(* and changes nothing; for the listener it is only a line in the log.     *)
(*                                                                         *)
(* Names, labels, addresses and metrics are left out, and with them the    *)
(* PATCH of a home and of a community, which write nothing else.           *)
(***************************************************************************)
EXTENDS Naturals, FiniteSets

CONSTANTS
    Devices, Homes, Communities, Groups,   \* the keys that occur
    Macs,        \* the hardware addresses that occur
    MacOf,       \* of the board that calls itself d
    HomeOf,      \* what the installer typed into its portal, or NULL
    Requests,    \* API requests being served at one time
    NULL, Absent

ASSUME BoardsAssumption ==
    MacOf \in [Devices -> Macs] /\ HomeOf \in [Devices -> Homes \cup {NULL}]
Device == [mac : Macs \cup {NULL}, home : Homes \cup {NULL}]
ASSUME NullAssumption ==
    /\ NULL \notin Macs /\ NULL \notin Homes
    /\ Absent \notin Device

VARIABLES
    devices, homes, communities,
    links,       \* home_community
    groups,      \* device_groups
    members,     \* device_group_members
    request,     \* the requests being served
    listener     \* what the MQTT handlers are doing

tables == <<devices, homes, communities, links, groups, members>>
vars == <<tables, request, listener>>

Idle == [op |-> "idle"]

Request ==
         {Idle}
    \cup [op : {"create_device"}, dev : Devices, row : Device]
    \cup [op : {"update_device"}, dev : Devices, home : Homes \cup {NULL}]
    \cup [op : {"delete_device"}, dev : Devices]
    \cup [op : {"create_home"}, home : Homes]
    \cup [op : {"delete_home"}, home : Homes, unset : SUBSET Devices,
          unlink : SUBSET (Homes \X Communities)]
    \cup [op : {"create_community"}, community : Communities]
    \cup [op : {"delete_community"}, community : Communities,
          unlink : SUBSET (Homes \X Communities)]
    \cup [op : {"assign_community"}, link : Homes \X Communities]
    \cup [op : {"create_group"}, group : Groups, members : SUBSET Devices]
    \cup [op : {"update_group"}, group : Groups, members : SUBSET Devices,
          seen : SUBSET Devices]
    \cup [op : {"delete_group"}, group : Groups]

Listener ==
         {Idle}
    \cup [op : {"heartbeat"}, dev : Devices]
    \cup [op : {"insert"}, dev : Devices, placeholder : BOOLEAN]
    \cup [op : {"update"}, dev : Devices, placeholder : BOOLEAN,
          writes_mac : BOOLEAN, writes_home : BOOLEAN]

Rows == {d \in Devices : devices[d] # Absent}

-----------------------------------------------------------------------------
(* What Postgres accepts (the migrations under alembic/versions).          *)

\* fk_devices_home_id_homes and uq_devices_mac, for a new value of row d.
DeviceAccepted(d, row, in_homes) ==
    /\ row.home \in in_homes \cup {NULL}
    /\ row.mac = NULL \/ \A e \in Rows \ {d} : devices[e].mac # row.mac

\* The foreign keys of home_community when a row is deleted on either side.
Unlinked(S, key, value) == \A l \in S : l[key] # value

\* fk_device_group_members_device_id, for a new membership.
MembersAccepted(S) == S \subseteq Rows

-----------------------------------------------------------------------------
(* Endpoints, first part: the SELECTs a request makes before it commits.   *)

Begins(r, next) ==
    /\ request[r] = Idle
    /\ request' = [request EXCEPT ![r] = next]
    /\ UNCHANGED <<tables, listener>>

CreateDevice(r) ==
    \E d \in Devices \ Rows, mac \in Macs, h \in Homes \cup {NULL} :
        Begins(r, [op |-> "create_device", dev |-> d,
                   row |-> [mac |-> mac, home |-> h]])

\* A PATCH whose home_id is the one that was read writes nothing.
UpdateDevice(r) ==
    \E d \in Rows, h \in Homes \cup {NULL} :
        /\ devices[d].home # h
        /\ Begins(r, [op |-> "update_device", dev |-> d, home |-> h])

DeleteDevice(r) ==
    \E d \in Rows : Begins(r, [op |-> "delete_device", dev |-> d])

CreateHome(r) ==
    \E h \in Homes \ homes : Begins(r, [op |-> "create_home", home |-> h])

\* The ORM loads Home.devices and the links before it deletes the home.
DeleteHome(r) ==
    \E h \in homes :
        Begins(r, [op |-> "delete_home", home |-> h,
                   unset |-> {d \in Rows : devices[d].home = h},
                   unlink |-> {l \in links : l[1] = h}])

CreateCommunity(r) ==
    \E c \in Communities \ communities :
        Begins(r, [op |-> "create_community", community |-> c])

DeleteCommunity(r) ==
    \E c \in communities :
        Begins(r, [op |-> "delete_community", community |-> c,
                   unlink |-> {l \in links : l[2] = c}])

AssignCommunity(r) ==
    \E l \in homes \X communities :
        Begins(r, [op |-> "assign_community", link |-> l])

CreateGroup(r) ==
    \E g \in Groups \ groups, S \in SUBSET Devices :
        Begins(r, [op |-> "create_group", group |-> g, members |-> S])

\* DELETE FROM device_group_members removes the rows that are committed when
\* the statement starts: the ones in "seen".
UpdateGroup(r) ==
    \E g \in groups, S \in SUBSET Devices :
        Begins(r, [op |-> "update_group", group |-> g, members |-> S,
                   seen |-> members[g]])

DeleteGroup(r) ==
    \E g \in groups : Begins(r, [op |-> "delete_group", group |-> g])

-----------------------------------------------------------------------------
(* Endpoints, second part: the commit.                                     *)

Ends(r, op) ==
    /\ request[r].op = op
    /\ request' = [request EXCEPT ![r] = Idle]
    /\ UNCHANGED listener

\* The commit is rolled back: by a conflict, or because a row of a table that
\* is not modelled here (ota_events, broadcasts, broadcast_acks) refers to
\* the one deleted.
RollBack(r) ==
    /\ request[r] # Idle
    /\ Ends(r, request[r].op)
    /\ UNCHANGED tables

CommitCreateDevice(r) ==
    /\ Ends(r, "create_device")
    /\ request[r].dev \notin Rows
    /\ DeviceAccepted(request[r].dev, request[r].row, homes)
    /\ devices' = [devices EXCEPT ![request[r].dev] = request[r].row]
    /\ UNCHANGED <<homes, communities, links, groups, members>>

CommitUpdateDevice(r) ==
    /\ Ends(r, "update_device")
    /\ request[r].dev \in Rows
    /\ request[r].home \in homes \cup {NULL}
    /\ devices' = [devices EXCEPT ![request[r].dev].home = request[r].home]
    /\ UNCHANGED <<homes, communities, links, groups, members>>

\* ON DELETE CASCADE takes the device out of its groups.
CommitDeleteDevice(r) ==
    /\ Ends(r, "delete_device")
    /\ devices' = [devices EXCEPT ![request[r].dev] = Absent]
    /\ members' = [g \in Groups |-> members[g] \ {request[r].dev}]
    /\ UNCHANGED <<homes, communities, links, groups>>

CommitCreateHome(r) ==
    /\ Ends(r, "create_home")
    /\ request[r].home \notin homes
    /\ homes' = homes \cup {request[r].home}
    /\ UNCHANGED <<devices, communities, links, groups, members>>

\* Mutant of CommitDeleteHome: without the foreign key on devices.home_id.
CommitDeleteHomeUnchecked(r) ==
    /\ Ends(r, "delete_home")
    /\ homes' = homes \ {request[r].home}
    /\ links' = {l \in links : l[1] # request[r].home}
    /\ UNCHANGED <<devices, communities, groups, members>>

\* Mutant of CommitDeleteHome: the devices are taken out in a commit of their
\* own, and the DELETE is then refused.
CommitDeleteHomeInTwo(r) ==
    /\ Ends(r, "delete_home")
    /\ devices' = [d \in Devices |-> IF d \in Rows \cap request[r].unset
                      THEN [devices[d] EXCEPT !.home = NULL] ELSE devices[d]]
    /\ UNCHANGED <<homes, communities, links, groups, members>>

\* home_id becomes NULL in every row that had been loaded, wherever it is
\* now; the links that had been loaded go; then the home does, unless a row
\* that had not been loaded still refers to it.
CommitDeleteHome(r) ==
    LET q == request[r]
    IN  /\ Ends(r, "delete_home")
        /\ q.unset \subseteq Rows
        /\ devices' = [d \in Devices |-> IF d \in q.unset
                          THEN [devices[d] EXCEPT !.home = NULL] ELSE devices[d]]
        /\ links' = links \ q.unlink
        /\ \A d \in Rows \ q.unset : devices[d].home # q.home
        /\ Unlinked(links', 1, q.home)
        /\ homes' = homes \ {q.home}
        /\ UNCHANGED <<communities, groups, members>>

CommitCreateCommunity(r) ==
    /\ Ends(r, "create_community")
    /\ request[r].community \notin communities
    /\ communities' = communities \cup {request[r].community}
    /\ UNCHANGED <<devices, homes, links, groups, members>>

CommitDeleteCommunity(r) ==
    /\ Ends(r, "delete_community")
    /\ links' = links \ request[r].unlink
    /\ Unlinked(links', 2, request[r].community)
    /\ communities' = communities \ {request[r].community}
    /\ UNCHANGED <<devices, homes, groups, members>>

CommitAssignCommunity(r) ==
    /\ Ends(r, "assign_community")
    /\ request[r].link \in (homes \X communities) \ links
    /\ links' = links \cup {request[r].link}
    /\ UNCHANGED <<devices, homes, communities, groups, members>>

\* remove_community: one DELETE.
RemoveCommunity(l) ==
    /\ l \in links
    /\ links' = links \ {l}
    /\ UNCHANGED <<devices, homes, communities, groups, members, request, listener>>

CommitCreateGroup(r) ==
    /\ Ends(r, "create_group")
    /\ request[r].group \notin groups
    /\ MembersAccepted(request[r].members)
    /\ groups' = groups \cup {request[r].group}
    /\ members' = [members EXCEPT ![request[r].group] = request[r].members]
    /\ UNCHANGED <<devices, homes, communities, links>>

\* The supplied list is inserted next to what was not there to be deleted; a
\* device in both is a primary key conflict.
CommitUpdateGroup(r) ==
    LET q == request[r]
    IN  /\ Ends(r, "update_group")
        /\ q.members # {} => q.group \in groups
        /\ MembersAccepted(q.members)
        /\ q.members \cap (members[q.group] \ q.seen) = {}
        /\ members' = [members EXCEPT ![q.group] = (@ \ q.seen) \cup q.members]
        /\ UNCHANGED <<devices, homes, communities, links, groups>>

CommitDeleteGroup(r) ==
    /\ Ends(r, "delete_group")
    /\ groups' = groups \ {request[r].group}
    /\ members' = [members EXCEPT ![request[r].group] = {}]
    /\ UNCHANGED <<devices, homes, communities, links>>

-----------------------------------------------------------------------------
(* The MQTT listener, one message at a time.                               *)

\* handle_heartbeat: the UPDATE matched no row.
HandleHeartbeat(d) ==
    /\ listener = Idle
    /\ d \notin Rows
    /\ listener' = [op |-> "heartbeat", dev |-> d]
    /\ UNCHANGED <<tables, request>>

\* Mutant of InsertMinimal: a home that is not known is stored as "".
InsertMinimalBlank(d) ==
    /\ listener = [op |-> "heartbeat", dev |-> d]
    /\ d \notin Rows
    /\ devices' = [devices EXCEPT ![d] = [mac |-> NULL, home |-> ""]]
    /\ listener' = Idle
    /\ UNCHANGED <<homes, communities, links, groups, members, request>>

\* The minimal row: neither mac nor home.
InsertMinimal(d) ==
    /\ listener = [op |-> "heartbeat", dev |-> d]
    /\ d \notin Rows
    /\ devices' = [devices EXCEPT ![d] = [mac |-> NULL, home |-> NULL]]
    /\ listener' = Idle
    /\ UNCHANGED <<homes, communities, links, groups, members, request>>

\* handle_registration: the home and the device are looked up.  Of a row that
\* exists only what differs from it is going to be written.
HandleRegistration(d) ==
    LET placeholder == HomeOf[d] \notin homes \cup {NULL}
    IN  /\ listener = Idle
        /\ listener' = IF d \notin Rows
               THEN [op |-> "insert", dev |-> d, placeholder |-> placeholder]
               ELSE [op |-> "update", dev |-> d, placeholder |-> placeholder,
                     writes_mac |-> devices[d].mac # MacOf[d],
                     writes_home |-> HomeOf[d] \notin {NULL, devices[d].home}]
        /\ UNCHANGED <<tables, request>>

\* Mutant of RegistrationWrites: an existing row keeps its home.
RegistrationWritesNoHome(d, q) ==
    IF q.op = "insert" THEN [mac |-> MacOf[d], home |-> HomeOf[d]]
    ELSE [devices[d] EXCEPT !.mac = IF q.writes_mac THEN MacOf[d] ELSE @]

\* The row as the commit leaves it.
RegistrationWrites(d, q) ==
    IF q.op = "insert" THEN [mac |-> MacOf[d], home |-> HomeOf[d]]
    ELSE [devices[d] EXCEPT !.mac = IF q.writes_mac THEN MacOf[d] ELSE @,
                            !.home = IF q.writes_home THEN HomeOf[d] ELSE @]

\* The homes a commit of the registration leaves, with the placeholder.
WithPlaceholder(d, q) == IF q.placeholder THEN homes \cup {HomeOf[d]} ELSE homes

RegistrationAccepted(d, q) ==
    /\ q.op = "insert" <=> d \notin Rows
    /\ q.placeholder => HomeOf[d] \notin homes
    /\ DeviceAccepted(d, RegistrationWrites(d, q), WithPlaceholder(d, q))

\* A placeholder home and the device, in one commit.
CommitRegistration(d) ==
    /\ listener.op \in {"insert", "update"} /\ listener.dev = d
    /\ RegistrationAccepted(d, listener)
    /\ homes' = WithPlaceholder(d, listener)
    /\ devices' = [devices EXCEPT ![d] = RegistrationWrites(d, listener)]
    /\ listener' = Idle
    /\ UNCHANGED <<communities, links, groups, members, request>>

\* _listen logs the exception and goes on with the next message.
DropMessage(d) ==
    /\ \/ listener = [op |-> "heartbeat", dev |-> d] /\ d \in Rows
       \/ /\ listener.op \in {"insert", "update"} /\ listener.dev = d
          /\ ~RegistrationAccepted(d, listener)
    /\ listener' = Idle
    /\ UNCHANGED <<tables, request>>

-----------------------------------------------------------------------------

Init ==
    /\ devices = [d \in Devices |-> Absent]
    /\ homes = {} /\ communities = {} /\ links = {}
    /\ groups = {} /\ members = [g \in Groups |-> {}]
    /\ request = [r \in Requests |-> Idle]
    /\ listener = Idle

Asks(r) ==
    \/ CreateDevice(r) \/ UpdateDevice(r) \/ DeleteDevice(r)
    \/ CreateHome(r) \/ DeleteHome(r)
    \/ CreateCommunity(r) \/ DeleteCommunity(r) \/ AssignCommunity(r)
    \/ CreateGroup(r) \/ UpdateGroup(r) \/ DeleteGroup(r)

Commits(r) ==
    \/ CommitCreateDevice(r) \/ CommitUpdateDevice(r) \/ CommitDeleteDevice(r)
    \/ CommitCreateHome(r) \/ CommitDeleteHome(r)
    \/ CommitCreateCommunity(r) \/ CommitDeleteCommunity(r)
    \/ CommitAssignCommunity(r)
    \/ CommitCreateGroup(r) \/ CommitUpdateGroup(r) \/ CommitDeleteGroup(r)
    \/ RollBack(r)

Listens(d) == InsertMinimal(d) \/ CommitRegistration(d) \/ DropMessage(d)

Next ==
    \/ \E r \in Requests : Asks(r) \/ Commits(r)
    \/ \E l \in links : RemoveCommunity(l)
    \/ \E d \in Devices : HandleHeartbeat(d) \/ HandleRegistration(d) \/ Listens(d)

\* Requests and handlers run to their end, and every board boots again some
\* day ("the next on_boot register").
Fairness ==
    /\ \A r \in Requests : WF_vars(Commits(r))
    /\ \A d \in Devices : WF_vars(Listens(d)) /\ SF_vars(HandleRegistration(d))

Spec == Init /\ [][Next]_vars
FairSpec == Spec /\ Fairness

-----------------------------------------------------------------------------

TypeOK ==
    /\ devices \in [Devices -> Device \cup {Absent}]
    /\ homes \subseteq Homes /\ communities \subseteq Communities
    /\ links \subseteq Homes \X Communities
    /\ groups \subseteq Groups /\ members \in [Groups -> SUBSET Devices]
    /\ request \in [Requests -> Request]
    /\ listener \in Listener

\* Whatever requests and registrations overlap, no row is left that names a
\* row that is gone, and no two boards hold one hardware address.  The ORM
\* clears only the references it loaded before it deletes a home or a
\* community (BaseRepository.delete), so this rests on the last check of
\* every commit.
TablesConsistent ==
    /\ \A d \in Rows : devices[d].home \in homes \cup {NULL}
    /\ \A d, e \in Rows :
          d # e /\ devices[d].mac = devices[e].mac => devices[d].mac = NULL
    /\ links \subseteq homes \X communities
    /\ \A g \in Groups :
          members[g] \subseteq Rows /\ (g \notin groups => members[g] = {})

\* A board is taken out of its home only by a PATCH that says so or by the
\* deletion of a home it was in, and then that home is gone: a deletion that
\* is refused after the ORM has cleared devices.home_id leaves the boards
\* where they were (BaseRepository.delete).  A board that moved on after the
\* ORM had loaded it is taken out of its new home all the same.
UnsetOnlyWithDeletion ==
    [][\A d \in Rows :
          devices'[d] # Absent /\ devices[d].home # NULL /\ devices'[d].home = NULL
          => \E r \in Requests :
                \/ request[r] = [op |-> "update_device", dev |-> d, home |-> NULL]
                \/ /\ request[r].op = "delete_home" /\ d \in request[r].unset
                   /\ request[r].home \notin homes']_vars

Quiet == \A r \in Requests : request[r] = Idle

\* The row has all that the board's register message says.
Filled(d) ==
    /\ d \in Rows /\ devices[d].mac = MacOf[d]
    /\ HomeOf[d] # NULL => devices[d].home = HomeOf[d]

\* Claimed in handle_heartbeat (mqtt/handlers.py:51-55): a board "whose register
\* INSERT rolled back (e.g. mac-unique conflict with a retired row)" gets a
\* minimal row, and "the next on_boot register will fill in home_id +
\* display_name + custom_id".  It does not hold: the retired row has the
\* address still, and every further register message is rolled back like the
\* first.
NextRegisterFills ==
    <>[]Quiet => \A d \in Devices :
                    (d \in Rows /\ devices[d].mac = NULL) ~> Filled(d)

\* What is left of that claim: once no other row has its hardware address (an
\* operator has deleted the retired one) and no request is in the way, a board
\* that registers on every boot gets a full row in the home it was installed
\* in, and keeps it, however its first messages raced (handle_heartbeat,
\* handle_registration).
Undisturbed(d) == Quiet /\ \A e \in Rows \ {d} : devices[e].mac # MacOf[d]
RegistrationFills ==
    \A d \in Devices : <>[]Undisturbed(d) => <>[]Filled(d)

=============================================================================
