-------------------------- MODULE ProvisionPortal --------------------------
(***************************************************************************)
(* On-boarding of a board (provision_portal/provision_portal.h): while its *)
(* access point is up a form takes the Wi-Fi credentials and the settings  *)
(* the board registers with (home, label, device id).  The settings are    *)
(* stored in flash by the HTTP task, the credentials and the reboot are    *)
(* deferred to the main loop, which also serves DNS (DnsServer).           *)
(*                                                                         *)
(* Two tasks, a timer, and a plug somebody may pull at any moment.  The    *)
(* three settings are stored together and treated alike: one stands for    *)
(* them.                                                                   *)
(***************************************************************************)
EXTENDS DnsServer

CONSTANTS
    Names,         \* values of a setting, apart from their length
    Lengths,       \* lengths of a setting
    Limit,         \* sizeof(ProvisionSettings::home_id) - 1
    Networks,      \* Wi-Fi credentials somebody enters
    Reachable,     \* the networks that can be joined at this site
    Nothing,       \* an empty preference
    MaxDeferred,   \* bound: forms waiting for the main loop
    MaxCuts        \* bound: power cuts and factory resets

ASSUME PortalAssumption ==
    /\ Lengths \subseteq Nat /\ Limit \in Lengths /\ MaxCuts \in Nat /\ MaxDeferred \in Nat
    /\ Reachable \subseteq Networks /\ Nothing \notin Networks
    /\ Nothing \notin [name : Names, length : Lengths]

VARIABLES
    flash,       \* preferences: settings and credentials
    ram,         \* home_id_, device_label_, custom_id_
    wifi,        \* "off", "ap", "sta"
    redirector,  \* dns_server_: none, or its socket is bound, or it failed
    http,        \* handle_save_ in the HTTP task
    deferred,    \* lambdas waiting for the main loop: credentials to save
    armed,       \* the timeout "provision-reboot"
    promise,     \* history: the form of the last answer 200, until the reboot
    contested,   \* history: a form came while another one's reboot was due
    cuts

portal == <<flash, ram, wifi, redirector, http, deferred, armed,
            promise, contested, cuts>>
vars == <<portal, parse>>

Setting == [name : Names, length : Lengths]
Form == [setting : Setting, network : Networks]
Idle == [phase |-> "idle"]
HttpTask == {Idle} \cup [phase : {"got", "stored", "kept", "answered"}, form : Form]

\* Mutant of Stored: strncpy may fill the whole field, without a terminator.
StoredUnterminated(s) == [s EXCEPT !.length = IF @ > Limit THEN Limit + 1 ELSE @]

\* strncpy into a zeroed field of Limit + 1 bytes.
Stored(s) == [s EXCEPT !.length = IF @ > Limit THEN Limit ELSE @]

InHttp(phase) == http.phase = phase
MainLoopFree == parse = Waiting

-----------------------------------------------------------------------------
(* Starting up.  setup() loads the settings, the Wi-Fi component its       *)
(* credentials; whatever the tasks were doing is gone.                     *)

Boots(content) ==
    /\ flash' = content
    /\ ram' = content.setting
    /\ wifi' = "off"
    /\ redirector' = "none"
    /\ http' = Idle
    /\ deferred' = <<>>
    /\ armed' = FALSE
    /\ promise' = Nothing
    /\ contested' = FALSE
    /\ parse' = Waiting

\* App.safe_reboot() of the timeout.
Reboot ==
    /\ armed /\ MainLoopFree
    /\ Boots(flash)
    /\ UNCHANGED cuts

PowerCut ==
    /\ cuts < MaxCuts
    /\ Boots(flash)
    /\ cuts' = cuts + 1

\* Ten seconds on the BOOT button (base.yaml): the preferences are erased.
FactoryReset ==
    /\ cuts < MaxCuts /\ MainLoopFree
    /\ Boots([setting |-> Nothing, network |-> Nothing])
    /\ cuts' = cuts + 1

-----------------------------------------------------------------------------
(* The Wi-Fi component.                                                    *)

\* Joining a network takes the access point down.
JoinNetwork ==
    /\ MainLoopFree
    /\ wifi # "sta" /\ flash.network \in Reachable
    /\ wifi' = "sta"
    /\ UNCHANGED <<flash, ram, redirector, http, deferred, armed, promise, contested, cuts, parse>>

\* No credentials, or no success for ap_timeout; the network may go away.
OpenAccessPoint ==
    /\ MainLoopFree
    /\ wifi # "ap"
    /\ wifi' = "ap"
    /\ UNCHANGED <<flash, ram, redirector, http, deferred, armed, promise, contested, cuts, parse>>

-----------------------------------------------------------------------------
(* loop(): the redirector runs while the access point is up.               *)

\* DNSServer::start may fail to get its socket, or to bind it.
Started == {"bound", "failed"}

StartRedirector ==
    /\ MainLoopFree
    /\ wifi = "ap" /\ redirector = "none"
    /\ redirector' \in Started
    /\ UNCHANGED <<flash, ram, wifi, http, deferred, armed, promise, contested, cuts, parse>>

\* Mutant of StopRedirector: the server is stopped, and stays.
StopRedirectorKeeps ==
    /\ MainLoopFree
    /\ wifi # "ap" /\ redirector = "bound"
    /\ redirector' = "failed"
    /\ UNCHANGED <<flash, ram, wifi, http, deferred, armed, promise, contested, cuts, parse>>

StopRedirector ==
    /\ MainLoopFree
    /\ wifi # "ap" /\ redirector # "none"
    /\ redirector' = "none"
    /\ UNCHANGED <<flash, ram, wifi, http, deferred, armed, promise, contested, cuts, parse>>

ProcessNextRequest ==
    \/ /\ wifi = "ap" /\ redirector = "bound"
       /\ Receive
       /\ UNCHANGED portal
    \/ /\ Parses
       /\ UNCHANGED portal

-----------------------------------------------------------------------------
(* handle_save_ in the HTTP task.                                          *)

\* canHandle and handleRequest, one request at a time.
CanHandle == wifi = "ap" /\ http = Idle

HandleSave ==
    /\ CanHandle
    /\ Len(deferred) < MaxDeferred
    /\ \E f \in Form : http' = [phase |-> "got", form |-> f]
    /\ contested' = (contested \/ armed \/ deferred # <<>>)
    /\ promise' = Nothing
    /\ UNCHANGED <<flash, ram, wifi, redirector, deferred, armed, cuts, parse>>

\* pref_.save and sync: from here the settings survive a power cut.
StoreSettings ==
    /\ InHttp("got")
    /\ flash' = [flash EXCEPT !.setting = Stored(http.form.setting)]
    /\ http' = [http EXCEPT !.phase = "stored"]
    /\ UNCHANGED <<ram, wifi, redirector, deferred, armed, promise, contested, cuts, parse>>

\* The members get what was entered, not what was stored.
KeepSettings ==
    /\ InHttp("stored")
    /\ ram' = http.form.setting
    /\ http' = [http EXCEPT !.phase = "kept"]
    /\ UNCHANGED <<flash, wifi, redirector, deferred, armed, promise, contested, cuts, parse>>

\* "Saved. Rebooting and connecting to WiFi."
AnswerSave ==
    /\ InHttp("kept")
    /\ http' = [http EXCEPT !.phase = "answered"]
    /\ promise' = IF contested THEN Nothing ELSE http.form
    /\ UNCHANGED <<flash, ram, wifi, redirector, deferred, armed, contested, cuts, parse>>

DeferReboot ==
    /\ InHttp("answered")
    /\ deferred' = Append(deferred, http.form.network)
    /\ http' = Idle
    /\ UNCHANGED <<flash, ram, wifi, redirector, armed, promise, contested, cuts, parse>>

\* Mutant of SaveWifi: save_wifi_sta alone, as the comment warns.
SaveWifiOnly ==
    /\ MainLoopFree /\ deferred # <<>>
    /\ flash' = [flash EXCEPT !.network = Head(deferred)]
    /\ deferred' = Tail(deferred)
    /\ UNCHANGED <<ram, wifi, redirector, http, armed, promise, contested, cuts, parse>>

\* Mutant of SaveWifi: only the reboot is deferred, the credentials are not
\* in the lambda.
SaveWifiNothing ==
    /\ MainLoopFree /\ deferred # <<>>
    /\ deferred' = Tail(deferred)
    /\ armed' = TRUE
    /\ UNCHANGED <<flash, ram, wifi, redirector, http, promise, contested, cuts, parse>>

\* The deferred lambda: save_wifi_sta and set_timeout, which replaces a
\* timeout of the same name.
SaveWifi ==
    /\ MainLoopFree /\ deferred # <<>>
    /\ flash' = [flash EXCEPT !.network = Head(deferred)]
    /\ deferred' = Tail(deferred)
    /\ armed' = TRUE
    /\ UNCHANGED <<ram, wifi, redirector, http, promise, contested, cuts, parse>>

-----------------------------------------------------------------------------

Init ==
    /\ flash = [setting |-> Nothing, network |-> Nothing]
    /\ ram = Nothing
    /\ wifi = "off"
    /\ redirector = "none"
    /\ http = Idle
    /\ deferred = <<>>
    /\ armed = FALSE
    /\ promise = Nothing
    /\ contested = FALSE
    /\ cuts = 0
    /\ DnsInit

HttpStep == StoreSettings \/ KeepSettings \/ AnswerSave \/ DeferReboot

Next ==
    \/ Reboot \/ PowerCut \/ FactoryReset
    \/ JoinNetwork \/ OpenAccessPoint
    \/ StartRedirector \/ StopRedirector \/ ProcessNextRequest
    \/ HandleSave \/ HttpStep
    \/ SaveWifi

Spec == Init /\ [][Next]_vars

\* The HTTP task and the main loop run on: the loop finishes the packet it is
\* at, runs what is deferred and, in time, the timeout.
FairSpec ==
    /\ Spec
    /\ WF_vars(HttpStep)
    /\ WF_vars(Parses /\ UNCHANGED portal)
    /\ SF_vars(SaveWifi) /\ SF_vars(Reboot)
    /\ SF_vars(StopRedirector) /\ SF_vars(StartRedirector)

-----------------------------------------------------------------------------

\* Every variable keeps its type.
TypeOK ==
    /\ flash \in [setting : Setting \cup {Nothing}, network : Networks \cup {Nothing}]
    /\ ram \in Setting \cup {Nothing}
    /\ wifi \in {"off", "ap", "sta"}
    /\ redirector \in {"none", "bound", "failed"}
    /\ http \in HttpTask
    /\ deferred \in Seq(Networks)
    /\ armed \in BOOLEAN /\ contested \in BOOLEAN
    /\ promise \in Form \cup {Nothing}
    /\ cuts \in 0 .. MaxCuts
    /\ parse \in Parse

\* A board uses other settings than the ones in its flash (longer ones, the
\* form does not limit them) only until the reboot that is then due: nothing
\* that power cuts, networks or further forms do leaves it with settings it
\* would forget.
RunsOnFlash ==
    http = Idle /\ deferred = <<>> /\ ~armed => ram = flash.setting

\* What makes it inductive: where the HTTP task is tells what differs.
HttpProgress ==
    /\ InHttp("stored") \/ InHttp("kept") \/ InHttp("answered")
           => flash.setting = Stored(http.form.setting)
    /\ InHttp("got") /\ deferred = <<>> /\ ~armed => ram = flash.setting

\* "Saved. Rebooting and connecting to WiFi." (handle_save_): the reboot that
\* follows this page comes up with the settings and the network of that form.
\* Only a form sent while another one's reboot was due may lose its network
\* to that reboot.
RebootKeepsPromise ==
    [][Reboot /\ promise # Nothing =>
          /\ flash'.network = promise.network
          /\ ram' = Stored(promise.setting)]_vars

\* What makes it follow: an uncontested form is the only one on its way.
PromiseInOrder ==
    promise # Nothing =>
        /\ ~contested
        /\ flash.setting = Stored(promise.setting)
        /\ \/ http = [phase |-> "answered", form |-> promise]
              /\ deferred = <<>> /\ ~armed
           \/ http = Idle /\ deferred = <<promise.network>> /\ ~armed
           \/ http = Idle /\ deferred = <<>> /\ armed
              /\ flash.network = promise.network

\* The page says so: the board reboots, unless power is cut or another form
\* is sent first, however many packets the DNS server gets.
SavedReboots == promise # Nothing ~> promise = Nothing

\* The redirector follows the access point (loop()), whatever packets come:
\* it is tried when the access point opens and gone when it is closed, so
\* that the next opening tries again.
RedirectorFollows ==
    /\ wifi = "ap" ~> wifi # "ap" \/ redirector # "none"
    /\ wifi # "ap" ~> wifi = "ap" \/ redirector = "none"

=============================================================================
