----------------------------- MODULE BleClient ------------------------------
(***************************************************************************)
(* The BLE client (bleCentral.c): callbacks in the NimBLE host task that   *)
(* scan, connect and discover, and the API task that streams a file to the *)
(* peripheral in packets. The two tasks run on different cores and share   *)
(* the volatile variables below.                                           *)
(*                                                                         *)
(* Environment: the NimBLE host, whose calls may be refused, peripherals,  *)
(* links that break, and the application, which asks for playback when     *)
(* isConnectedToTargetDevice is set.                                       *)
(***************************************************************************)
EXTENDS PeerDiscovery

CONSTANTS
  Handles,         \* connection handles; they are used again
  MaxPackets,      \* longest file, in packets of 510 bytes
  MaxConnections,  \* bound on the connections of a run
  MaxRequests      \* bound on the playback requests of a run

ASSUME HandlesAssumption == Handles \subseteq Nat \ {0}
ASSUME BoundsAssumption == {MaxPackets, MaxConnections, MaxRequests} \subseteq Nat \ {0}

VARIABLES
  gap,          \* what the host does for us, "refused" when a call failed
  link,         \* handle of the connection, 0 without one
  breaking,     \* the connection is gone, DISCONNECT not yet reported
  finding,      \* discoveryProcessComplete is at this characteristic, or 0
  characteristic,       \* characteristic_0, characteristic_1: a block, or NULL = 0
  connectionHandle,
  isConnected,  \* isConnectedToTargetDevice
  announced,    \* history: this connection's discovery has been announced
  connections,  \* counts connections
  state,        \* of the API task
  Var,          \* the last packet was answered
  file,         \* packets of the file being streamed
  sent,         \* numBytesSent, in packets
  queue,        \* g_HostToBleQueueHandle
  writes,       \* writes the host has accepted and not answered
  overlap,      \* history: unanswered writes when the stream started
  refused,      \* history: a write of this stream was refused
  requested,    \* counts requests
  crashed       \* a NULL pointer was followed

gapVars    == <<gap, link, breaking, connections>>
targetVars == <<finding, characteristic, connectionHandle, isConnected, announced>>
apiVars    == <<state, Var, file, sent, queue, overlap, refused, requested, crashed>>
clientVars == <<peerVars, gapVars, targetVars, apiVars, writes>>

ClientInit ==
  /\ PeerInit
  /\ gap = "off" /\ link = 0 /\ breaking = FALSE /\ connections = 0
  /\ finding = 0 /\ characteristic = <<0, 0>> /\ connectionHandle = 0
  /\ isConnected = FALSE /\ announced = FALSE
  /\ state = 0 /\ Var = FALSE /\ file = 0 /\ sent = 0 /\ queue = <<>>
  /\ writes = <<>> /\ overlap = 0 /\ refused = FALSE /\ requested = 0
  /\ crashed = FALSE

(* The host task runs one callback at a time.                              *)
HostReady == completion = "no"

-----------------------------------------------------------------------------
(* blecent_scan, blecent_on_sync.                                          *)
Scan == gap' \in {"scanning", "refused"}

OnSync ==
  /\ gap = "off" /\ Scan
  /\ UNCHANGED <<peerVars, link, breaking, connections, targetVars, apiVars, writes>>

(* connectIfTargetFound: the scan is cancelled, then the connection asked  *)
(* for. If that is refused, nothing starts the scan again.                 *)
TargetFound ==
  /\ gap = "scanning" /\ HostReady
  /\ connections < MaxConnections
  /\ gap' \in {"connecting", "refused"}
  /\ UNCHANGED <<peerVars, link, breaking, connections, targetVars, apiVars, writes>>

(* BLE_GAP_EVENT_CONNECT.                                                  *)
Connected(database, handle) ==
  /\ gap = "connecting"
  /\ gap' = "connected" /\ link' = handle
  /\ connections' = connections + 1
  /\ AddPeer(database)
  /\ UNCHANGED <<breaking, targetVars, apiVars, writes>>

ConnectFailed ==
  /\ gap = "connecting" /\ Scan
  /\ UNCHANGED <<peerVars, link, breaking, connections, targetVars, apiVars, writes>>

LinkBreaks ==
  /\ gap = "connected" /\ ~breaking
  /\ breaking' = TRUE
  /\ UNCHANGED <<peerVars, gap, link, connections, targetVars, apiVars, writes>>

(* Mutant: the scan is left to the next connection.                        *)
DisconnectedNoScan ==
  /\ breaking /\ HostReady /\ proc = NoProc /\ writes = <<>>
  /\ DeletePeer
  /\ gap' = "idle" /\ link' = 0 /\ breaking' = FALSE
  /\ announced' = FALSE
  /\ UNCHANGED <<connections, finding, characteristic, connectionHandle, isConnected,
                 apiVars, writes>>

(* BLE_GAP_EVENT_DISCONNECT, after the host has failed what was running on *)
(* the connection. Neither the flag nor the pointers are reset.            *)
Disconnected ==
  /\ breaking /\ HostReady /\ proc = NoProc /\ writes = <<>>
  /\ DeletePeer
  /\ Scan /\ link' = 0 /\ breaking' = FALSE
  /\ announced' = FALSE
  /\ UNCHANGED <<connections, finding, characteristic, connectionHandle, isConnected,
                 apiVars, writes>>

-----------------------------------------------------------------------------
Discover ==
  /\ HostReady
  /\ IF breaking THEN ProcedureFails ELSE Found \/ AllFound
  /\ UNCHANGED <<gapVars, targetVars, apiVars, writes>>

DiscoverFails ==
  /\ HostReady /\ ~breaking /\ ProcedureFails
  /\ UNCHANGED <<gapVars, targetVars, apiVars, writes>>

(* Mutant: a service's first characteristic is taken, whatever its uuid.   *)
TakeFirstCharacteristic(uuid) ==
  LET i == SelectInSeq(peer.svcs, LAMBDA s : s.uuid = "target")
  IN IF i = 0 \/ peer.svcs[i].chrs = <<>> THEN 0 ELSE Head(peer.svcs[i].chrs)

(* peer_chr_find_uuid: in the first service of the uuid, the first         *)
(* characteristic of the uuid.                                             *)
FindCharacteristic(uuid) ==
  LET i == SelectInSeq(peer.svcs, LAMBDA s : s.uuid = "target")
      j == SelectInSeq(peer.svcs[i].chrs, LAMBDA b : chrMem[b].uuid = uuid)
  IN IF i = 0 \/ j = 0 THEN 0 ELSE peer.svcs[i].chrs[j]

(* ble_gap_terminate, whose answer nobody looks at: the host may refuse it, *)
(* and the connection then stays as it is.                                 *)
Terminate == breaking' \in {breaking, TRUE}

(* discoveryProcessComplete. The pointers are global and are set one by    *)
(* one, while the API task runs.                                           *)
DiscoveryFailed ==
  /\ completion = "failed"
  /\ completion' = "no" /\ Terminate
  /\ UNCHANGED <<server, peer, chrMem, freeChrs, freeSvcs, freeDscs, proc,
                 gap, link, connections, targetVars, apiVars, writes>>

FindNext ==
  LET b == FindCharacteristic(<<"c0", "c1">>[finding + 1])
  IN /\ completion = "ok" /\ finding < 2
     /\ characteristic' = [characteristic EXCEPT ![finding + 1] = b]
     /\ IF b = 0
          THEN finding' = 0 /\ completion' = "no" /\ Terminate
          ELSE finding' = finding + 1 /\ UNCHANGED <<completion, breaking>>
     /\ UNCHANGED <<server, peer, chrMem, freeChrs, freeSvcs, freeDscs, proc,
                    gap, link, connections, connectionHandle, isConnected,
                    announced, apiVars, writes>>

Announce ==
  /\ completion = "ok" /\ finding = 2
  /\ connectionHandle' = link /\ isConnected' = TRUE /\ announced' = TRUE
  /\ finding' = 0 /\ completion' = "no"
  /\ UNCHANGED <<server, peer, chrMem, freeChrs, freeSvcs, freeDscs, proc,
                 gapVars, characteristic, apiVars, writes>>

-----------------------------------------------------------------------------
(* The application asks for a file of n packets.                           *)
Request(n) ==
  /\ isConnected /\ requested < MaxRequests /\ ~crashed
  /\ queue' = Append(queue, n) /\ requested' = requested + 1
  /\ UNCHANGED <<peerVars, gapVars, targetVars, state, Var, file, sent,
                 overlap, refused, crashed, writes>>

(* ble_gattc_write_flat: refused without a connection of that handle, or   *)
(* for want of memory. The return value is not looked at.                  *)
Write(wasRefused) ==
  LET b == characteristic[1]
      w == [val |-> chrMem[b].val, announced |-> announced]
  IN IF b = 0 THEN crashed' = TRUE /\ UNCHANGED <<writes, refused>>
     ELSE /\ \/ /\ link # 0 /\ link = connectionHandle /\ ~breaking
                /\ writes' = Append(writes, w) /\ refused' = wasRefused
             \/ refused' = TRUE /\ UNCHANGED writes
          /\ UNCHANGED crashed

(* One turn of the API task. A request is taken whatever is being          *)
(* streamed. The first two packets are always sent.                        *)
Begin ==
  /\ queue # <<>> /\ ~crashed
  /\ file' = Head(queue) /\ queue' = Tail(queue)
  /\ Write(FALSE) /\ overlap' = Len(writes)
  /\ Var' = FALSE /\ sent' = 1 /\ state' = 2
  /\ UNCHANGED <<peerVars, gapVars, targetVars, requested>>

Continue ==
  /\ queue = <<>> /\ ~crashed
  /\ state = 2 /\ Var
  /\ Write(refused)
  /\ Var' = FALSE
  /\ sent' = sent + 1 /\ state' = IF sent + 1 >= file THEN 3 ELSE 2
  /\ UNCHANGED <<peerVars, gapVars, targetVars, file, queue, overlap, requested>>

Finish ==
  /\ queue = <<>> /\ ~crashed
  /\ state = 3 /\ state' = 0
  /\ UNCHANGED <<peerVars, gapVars, targetVars, Var, file, sent, queue, overlap,
                 refused, requested, crashed, writes>>

(* Mutant: an error is not taken for an answer.                            *)
WriteAnsweredUnlessFailed ==
  /\ writes # <<>> /\ HostReady
  /\ writes' = Tail(writes) /\ Var' = (Var \/ ~breaking)
  /\ UNCHANGED <<peerVars, gapVars, targetVars, state, file, sent, queue, overlap,
                 refused, requested, crashed>>

(* bleDoneISR: an answer or an error, for whichever write it is.           *)
WriteAnswered ==
  /\ writes # <<>> /\ HostReady
  /\ writes' = Tail(writes) /\ Var' = TRUE
  /\ UNCHANGED <<peerVars, gapVars, targetVars, state, file, sent, queue, overlap,
                 refused, requested, crashed>>

-----------------------------------------------------------------------------
ConnectOutcome ==
  ConnectFailed \/ \E d \in Databases, h \in Handles : Connected(d, h)

DiscoveryProcessComplete == DiscoveryFailed \/ FindNext \/ Announce

ApiTask == Begin \/ Continue \/ Finish

ClientNext ==
  \/ OnSync \/ TargetFound \/ ConnectOutcome \/ LinkBreaks \/ Disconnected
  \/ Discover \/ DiscoverFails \/ DiscoveryProcessComplete
  \/ \E n \in 1 .. MaxPackets : Request(n)
  \/ ApiTask \/ WriteAnswered

(* The host task serves its events in turn, so none waits for ever; a      *)
(* connection attempt ends after 30 seconds at the latest. Both tasks run. *)
(* Peripherals need not appear, nor links break, nor is a procedure        *)
(* refused or failed for us to get on.                                     *)
DiscoverUnrefused ==
  Discover /\ (completion' = "failed" => breaking \/ Unreported # {})

Fairness ==
  /\ WF_clientVars(OnSync) /\ WF_clientVars(ConnectOutcome)
  /\ WF_clientVars(DiscoverUnrefused) /\ WF_clientVars(DiscoveryProcessComplete)
  /\ SF_clientVars(WriteAnswered) /\ SF_clientVars(Disconnected)
  /\ WF_clientVars(ApiTask)

ClientSpec == ClientInit /\ [][ClientNext]_clientVars /\ Fairness

-----------------------------------------------------------------------------
ClientTypeOK ==
  /\ gap \in {"off", "refused", "scanning", "connecting", "connected"}
  /\ link \in Handles \cup {0} /\ (link # 0 <=> gap = "connected")
  /\ proc # NoProc => peer.known
  /\ characteristic \in [1 .. 2 -> 0 .. MaxChrs]
  /\ state \in {0, 2, 3} /\ sent \in 0 .. MaxPackets + 1
  /\ completion \in {"no", "ok", "failed"} /\ finding \in 0 .. 2

(* Packets are paced by answers: a stream has one unanswered write, beyond *)
(* those of streams it was started over.                                   *)
PacketsPaced == Len(writes) <= 1 + overlap

(* A packet sent once the discovery of the connection has been announced   *)
(* goes to the target characteristic of the connected peripheral, whatever *)
(* the blocks were used for on connections before. (Before that the flag   *)
(* is still set from an earlier connection, and the pointers are stale.)   *)
IsTarget(c) == c.uuid = "c0"

PlaybackReachesTarget ==
  \A i \in DOMAIN writes :
    writes[i].announced =>
      \E c \in Range(ServerChrs) : IsTarget(c) /\ c.val = writes[i].val

(* A failed attempt or a lost connection is followed by another scan,      *)
(* unless the host refuses to (bleCentral.c:449, "Connection attempt       *)
(* failed; resume scanning").                                              *)
LooksAgain ==
  (breaking \/ gap = "connecting")
    ~> (gap \in {"scanning", "refused"} \/ (gap = "connected" /\ ~breaking))

(* A discovery ends if every service that has room for characteristics has *)
(* one; another service is asked for its characteristics for ever.         *)
Discoverable == \A s \in Range(server) : s.end > s.start => s.chrs # <<>>

DiscoveryEnds == (proc # NoProc /\ Discoverable) ~> proc = NoProc

(* A stream ends unless one of its writes was refused: then no answer      *)
(* comes, and the API task waits for it until the next request.            *)
StreamEnds == state = 2 ~> (state = 0 \/ refused \/ crashed)

(* Packets go out one by one, and to the right place.                      *)
StreamSound == ClientTypeOK /\ PacketsPaced /\ PlaybackReachesTarget
=============================================================================
