------------------------------ MODULE Startup -------------------------------
(***************************************************************************)
(* How the firmware comes up, what its LED says, and how it restarts:      *)
(*   agent/src/main.rs        main, PUT /api/wifi, PUT /api/config, the    *)
(*                            agent thread                                 *)
(*   agent/src/net/           bring_up_primary, wifi.rs, eth.rs, wifi_ui.rs *)
(*   agent/src/led_status.rs  the state the LED shows                      *)
(*                                                                         *)
(* The main thread brings the network up or gives up for good; then it     *)
(* starts the web server, which takes requests at once, and the agent      *)
(* thread, which runs them.  Documents.tla has what a start restores.      *)
(***************************************************************************)
EXTENDS Integers, FiniteSets

CONSTANTS
  Ssids, Passwords,   \* of WiFi networks
  Home,               \* the network that is there: [ssid, password]
  MaxWaits,           \* how often the link is looked at (30 and 120 times)
  MaxRequests,        \* bound: chat requests in the channel
  MaxBoots            \* bound on the starts

ASSUME StartupAssumption ==
  /\ Home \in [ssid : Ssids, password : Passwords]
  /\ MaxWaits \in Nat /\ MaxRequests \in Nat /\ MaxBoots \in Nat \ {0}

VARIABLES
  nic,       \* "wifi" or "eth", by the board
  creds,     \* NVS: ssid and password
  joined,    \* the credentials the driver was given
  network,   \* what the device finds in this start: "good", "no_address", "absent"
  pc,        \* main: "nic", "wait", "up", "server", "led", "agent", "done", "halted"
  waits,     \* looks at the link so far
  led,       \* LED_STATE
  serving,   \* whether the web server runs
  agent,     \* "none", "idle", "turn"
  chatq,     \* chat requests that wait in the channel
  put,       \* the password that PUT /api/wifi is about to write, or "none"
  restart,   \* whether a thread is about to restart the device
  boots

networkVars == <<nic, joined, network>>
mainVars == <<pc, waits>>
startupVars == <<networkVars, creds, mainVars, led, serving, agent, chatq, put, restart, boots>>

\* Association needs the right credentials, Ethernet none.  An address comes
\* with a good network only.
Linked == network # "absent" /\ (nic = "wifi" => joined = Home)
Addressed == Linked /\ network = "good"

-----------------------------------------------------------------------------
(* The start.                                                              *)

\* bring_up_primary: a driver that cannot be set up is an error.
NicStart ==
  /\ pc = "nic"
  /\ \/ pc' = "wait" /\ led' = "connecting"
     \/ pc' = "halted" /\ led' = "failed"
  /\ joined' = creds /\ waits' = 0
  /\ UNCHANGED <<nic, network, creds, serving, agent, chatq, put, restart, boots>>

\* Mutant of NicWait: at the last look it is already too late.
NicWaitShort ==
  /\ pc = "wait"
  /\ \/ waits < MaxWaits /\ Addressed /\ pc' = "up" /\ led' = "idle" /\ UNCHANGED waits
     \/ waits < MaxWaits /\ waits' = waits + 1 /\ UNCHANGED <<pc, led>>
     \/ waits = MaxWaits /\ pc' = "halted" /\ led' = "failed" /\ UNCHANGED waits
  /\ UNCHANGED <<networkVars, creds, serving, agent, chatq, put, restart, boots>>

\* Both drivers wait for an address, which may take any number of looks, but
\* for so long only: then WiFi is up if it is connected, even without an
\* address, and Ethernet is not.
NicWait ==
  /\ pc = "wait"
  /\ LET up == Addressed \/ (waits = MaxWaits /\ nic = "wifi" /\ Linked) IN
     \/ up /\ pc' = "up" /\ led' = "idle" /\ UNCHANGED waits
     \/ waits < MaxWaits /\ waits' = waits + 1 /\ UNCHANGED <<pc, led>>
     \/ ~up /\ waits = MaxWaits /\ pc' = "halted" /\ led' = "failed" /\ UNCHANGED waits
  /\ UNCHANGED <<networkVars, creds, serving, agent, chatq, put, restart, boots>>

\* mDNS, the clock, the configuration, the file systems, the documents and
\* the gateway: none of them can hold the start up for good.
Prepare ==
  /\ pc = "up"
  /\ pc' = "server"
  /\ UNCHANGED <<networkVars, creds, waits, led, serving, agent, chatq, put, restart, boots>>

StartHttpServer ==
  /\ pc = "server"
  /\ serving' = TRUE /\ pc' = "led"
  /\ UNCHANGED <<networkVars, creds, waits, led, agent, chatq, put, restart, boots>>

SetIdle ==
  /\ pc = "led"
  /\ led' = "idle" /\ pc' = "agent"
  /\ UNCHANGED <<networkVars, creds, waits, serving, agent, chatq, put, restart, boots>>

\* Everything but NVS is gone.  The network may be another one by then.
PowerUp ==
  /\ boots < MaxBoots /\ boots' = boots + 1
  /\ network' \in {"good", "no_address", "absent"}
  /\ pc' = "nic" /\ waits' = 0 /\ led' = "boot"
  /\ serving' = FALSE /\ agent' = "none" /\ chatq' = 0 /\ put' = "none" /\ restart' = FALSE

\* The stack of the agent thread needs a large block of memory: without one
\* main panics, which restarts the device.
SpawnAgent ==
  /\ pc = "agent"
  /\ \/ /\ agent' = "idle" /\ pc' = "done"
        /\ UNCHANGED <<networkVars, creds, waits, led, serving, chatq, put, restart, boots>>
     \/ PowerUp /\ UNCHANGED <<nic, joined, creds>>

-----------------------------------------------------------------------------
(* The agent thread and the handlers of the web server.                    *)

BeginTurn ==
  /\ agent = "idle" /\ chatq > 0
  /\ agent' = "turn" /\ chatq' = chatq - 1
  /\ led' = "thinking"
  /\ UNCHANGED <<networkVars, creds, mainVars, serving, put, restart, boots>>

\* The agent thread also finds messages when it polls Telegram; then it
\* delivers the reply, with the LED idle again.
TelegramTurn ==
  /\ agent = "idle" /\ Addressed
  /\ agent' = "turn" /\ led' = "thinking"
  /\ UNCHANGED <<networkVars, creds, mainVars, serving, chatq, put, restart, boots>>

EndTurn ==
  /\ agent = "turn" /\ agent' = "idle"
  /\ led' = "idle"
  /\ UNCHANGED <<networkVars, creds, mainVars, serving, chatq, put, restart, boots>>

\* A request reaches the server over an address.
Served == serving /\ Addressed

Ask ==
  /\ Served /\ chatq < MaxRequests
  /\ chatq' = chatq + 1
  /\ UNCHANGED <<networkVars, creds, mainVars, led, serving, agent, put, restart, boots>>

\* PUT /api/wifi writes the ssid, then the password if the request has one,
\* then restarts the device a second later, if the answer could be sent.
PutSsid ==
  /\ Served /\ put = "none"
  /\ \E ssid \in Ssids, password \in Passwords \cup {"keep"} :
       /\ creds' = [creds EXCEPT !.ssid = ssid]
       /\ put' = password
  /\ UNCHANGED <<networkVars, mainVars, led, serving, agent, chatq, restart, boots>>

PutPassword ==
  /\ put # "none"
  /\ creds' = IF put = "keep" THEN creds ELSE [creds EXCEPT !.password = put]
  /\ put' = "none" /\ restart' \in {restart, TRUE}
  /\ UNCHANGED <<networkVars, mainVars, led, serving, agent, chatq, boots>>

\* Mutant of PutConfig: the LED is set before the configuration is saved,
\* which may fail.
PutConfigEarly ==
  /\ Served /\ put = "none"
  /\ led' = "updating" /\ restart' \in {restart, TRUE}
  /\ UNCHANGED <<networkVars, creds, mainVars, serving, agent, chatq, put, boots>>

\* PUT /api/config, when the configuration is saved and the answer sent.
PutConfig ==
  /\ Served /\ put = "none"
  /\ led' = "updating" /\ restart' = TRUE
  /\ UNCHANGED <<networkVars, creds, mainVars, serving, agent, chatq, put, boots>>

RestartDevice == restart /\ PowerUp /\ UNCHANGED <<nic, joined, creds>>

PowerLoss == PowerUp /\ UNCHANGED <<nic, joined, creds>>

StartupInit ==
  /\ nic \in {"wifi", "eth"}
  /\ creds \in [ssid : Ssids, password : Passwords] /\ joined = creds
  /\ network \in {"good", "no_address", "absent"}
  /\ pc = "nic" /\ waits = 0 /\ led = "boot"
  /\ serving = FALSE /\ agent = "none" /\ chatq = 0 /\ put = "none" /\ restart = FALSE
  /\ boots = 1

Main == NicStart \/ NicWait \/ Prepare \/ StartHttpServer \/ SetIdle \/ SpawnAgent
Agent == BeginTurn \/ TelegramTurn \/ EndTurn
Handler == Ask \/ PutSsid \/ PutPassword \/ PutConfig

StartupNext == Main \/ Agent \/ Handler \/ RestartDevice \/ PowerLoss

StartupSpec == StartupInit /\ [][StartupNext]_startupVars

\* The main thread is scheduled, and what it calls returns: the wait for the
\* link has a deadline, the bucket's calls have timeouts.
FairStartup == StartupSpec /\ WF_startupVars(Main)

-----------------------------------------------------------------------------
(* Properties.                                                             *)

\* The LED is what a device without a network has to tell its user.  It says
\* "failed" when the device has given up, and only then, and "thinking" while
\* a turn runs, and only then; a restart under way may show instead, until a
\* turn begins or ends.
LedTruthful ==
  /\ led = "failed" <=> pc = "halted"
  /\ led = "thinking" => agent = "turn"
  /\ agent = "turn" => led = "thinking" \/ (restart /\ led = "updating")
  /\ led = "updating" => restart
  /\ pc = "done" /\ agent = "idle" /\ ~restart => led = "idle"

\* A start ends: the device gives up or the agent thread runs; and once the
\* driver is set up it runs, if there is a network that the device has the
\* credentials of and that gives it an address by the last look.
StartEnds ==
  \A b \in 1..MaxBoots :
    /\ (boots = b /\ pc = "nic") ~> (boots > b \/ pc \in {"done", "halted"})
    /\ (boots = b /\ pc = "wait" /\ Addressed) ~> (boots > b \/ pc = "done")
=============================================================================
