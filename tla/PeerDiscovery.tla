--------------------------- MODULE PeerDiscovery ----------------------------
(***************************************************************************)
(* What the client remembers of a connected peripheral, and how it         *)
(* discovers it (peer.c): all services, then the characteristics of each,  *)
(* then the descriptors of each, one GATT procedure of the NimBLE host     *)
(* after the other. The steps are callbacks in the NimBLE host task.       *)
(*                                                                         *)
(* A peripheral's database is a sequence of services, a service a record   *)
(* with a sequence of characteristics, a characteristic a record with a    *)
(* sequence of descriptor handles, all in handle order: NimBLE refuses     *)
(* answers that are out of order. Characteristics are blocks of a pool,    *)
(* because pointers to them outlive them.                                  *)
(***************************************************************************)
EXTENDS Integers, FiniteSets, SequencesExt

CONSTANTS
  Uuids,       \* of services and characteristics, and that of a cleared block
  Databases,   \* what peripherals may offer
  MaxSvcs, MaxChrs, MaxDscs   \* pool sizes, the arguments of peer_init

ASSUME UuidsAssumption == "none" \in Uuids
ASSUME PoolAssumption == MaxSvcs \in Nat /\ MaxChrs \in Nat /\ MaxDscs \in Nat

Characteristics == [def : Nat, val : Nat, uuid : Uuids, dscs : Seq(Nat)]
Services == [start : Nat, end : Nat, uuid : Uuids, chrs : Seq(Characteristics)]

(* Handles grow: services follow each other, the characteristics of a      *)
(* service lie between its handles, descriptors behind their value.        *)
InHandleOrder(c) ==
  /\ c.def < c.val
  /\ \A d \in DOMAIN c.dscs : c.val < c.dscs[d] /\ \A e \in 1 .. d - 1 : c.dscs[e] < c.dscs[d]

WithinService(c, s) ==
  s.start < c.def /\ c.val <= s.end /\ \A d \in DOMAIN c.dscs : c.dscs[d] <= s.end

ChrPrecedes(c, d) == c.val < d.def /\ \A i \in DOMAIN c.dscs : c.dscs[i] < d.def

OrderedService(s) ==
  /\ 0 < s.start /\ s.start <= s.end
  /\ \A j \in DOMAIN s.chrs :
       /\ InHandleOrder(s.chrs[j]) /\ WithinService(s.chrs[j], s)
       /\ \A i \in 1 .. j - 1 : ChrPrecedes(s.chrs[i], s.chrs[j])

OrderedDatabase(db) ==
  /\ db \in Seq(Services)
  /\ \A j \in DOMAIN db : OrderedService(db[j]) /\ \A i \in 1 .. j - 1 : db[i].end < db[j].start

ASSUME DatabasesAssumption == \A db \in Databases : OrderedDatabase(db)

VARIABLES
  server,      \* environment: the database of the connected peripheral
  peer,        \* struct peer, or NoPeer
  chrMem,      \* the blocks of peer_chr_pool
  freeChrs,    \* its free list, the block put back last in front
  freeSvcs, freeDscs,   \* blocks left in peer_svc_pool and peer_dsc_pool
  proc,        \* the running discovery procedure of the NimBLE host
  completion   \* disc_cb is being called: "no", "ok" or "failed"

peerVars == <<server, peer, chrMem, freeChrs, freeSvcs, freeDscs, proc, completion>>

NoPeer == [known |-> FALSE, svcs |-> <<>>, prevVal |-> 0, cur |-> 0]
NoChr  == [def |-> 0, val |-> 0, uuid |-> "none", dscs |-> <<>>]
NoProc == [kind |-> "none", lo |-> 0, hi |-> 0, after |-> 0]

PeerInit ==
  /\ server = <<>>
  /\ peer = NoPeer
  /\ chrMem = [b \in 1 .. MaxChrs |-> NoChr]
  /\ freeChrs = [b \in 1 .. MaxChrs |-> b]
  /\ freeSvcs = MaxSvcs /\ freeDscs = MaxDscs
  /\ proc = NoProc
  /\ completion = "no"

-----------------------------------------------------------------------------
(* External: the procedures of the NimBLE host. A procedure reports what   *)
(* lies between its two handles, one callback each, in handle order, then  *)
(* EDONE; or an error, after which it is over. Descriptors are whatever    *)
(* attributes lie between the handles.                                     *)

ServerChrs == FlattenSeq([i \in DOMAIN server |-> server[i].chrs])

Attributes ==
  {server[i].start : i \in DOMAIN server}
  \cup UNION {{c.def, c.val} \cup Range(c.dscs) : c \in Range(ServerChrs)}

Reportable ==
  CASE proc.kind = "svcs" -> {server[i].start : i \in DOMAIN server}
    [] proc.kind = "chrs" -> {ServerChrs[i].def : i \in DOMAIN ServerChrs} \cap proc.lo .. proc.hi
    [] proc.kind = "dscs" -> Attributes \cap proc.lo + 1 .. proc.hi
    [] OTHER -> {}

Unreported == {h \in Reportable : h > proc.after}

Procedure(kind, lo, hi) == [kind |-> kind, lo |-> lo, hi |-> hi, after |-> 0]

-----------------------------------------------------------------------------
(* The lists. They are kept in handle order; an insertion finds the last   *)
(* entry before the new one.                                               *)

Before(seq, key(_), h) ==
  Cardinality({i \in DOMAIN seq : \A j \in 1 .. i : key(seq[j]) < h})

(* SLIST_INSERT_AFTER keeps what follows; SLIST_NEXT(prev) = x drops it.   *)
InsertKeeping(seq, k, x) == SubSeq(seq, 1, k) \o <<x>> \o SubSeq(seq, k + 1, Len(seq))
InsertDropping(seq, k, x) ==
  IF k = 0 THEN <<x>> \o seq ELSE SubSeq(seq, 1, k) \o <<x>>

Blocks(p) == FlattenSeq([i \in DOMAIN p.svcs |-> p.svcs[i].chrs])

(* Mutant: the next characteristic's definition is taken for a descriptor. *)
ChrEndIncludesNext(s, j) ==
  IF j < Len(s.chrs) THEN chrMem[s.chrs[j + 1]].def ELSE s.end

(* chr_end_handle: a characteristic ends before the next one of its        *)
(* service, the last one with the service.                                 *)
ChrEnd(s, j) == IF j < Len(s.chrs) THEN chrMem[s.chrs[j + 1]].def - 1 ELSE s.end

(* The descriptors held for the characteristics of the peer.               *)
Descriptors(p, mem) ==
  FlattenSeq([i \in DOMAIN Blocks(p) |-> mem[Blocks(p)[i]].dscs])

(* peer_svc_delete of every service: the blocks go back to the pools, and  *)
(* a freed characteristic keeps its handles until its block is reused.     *)
ForgetServices ==
  /\ freeChrs' = Reverse(Blocks(peer)) \o freeChrs
  /\ chrMem' = [b \in DOMAIN chrMem |->
                  IF b \in Range(Blocks(peer)) THEN [chrMem[b] EXCEPT !.dscs = <<>>]
                  ELSE chrMem[b]]
  /\ freeSvcs' = freeSvcs + Len(peer.svcs)
  /\ freeDscs' = freeDscs + Len(Descriptors(peer, chrMem))

-----------------------------------------------------------------------------
(* peer_disc_complete.                                                     *)
Complete(status) ==
  /\ completion' = status
  /\ peer' = [peer EXCEPT !.prevVal = 0]
  /\ proc' = NoProc

(* The characteristics by their places in the lists, and the first of some *)
(* in the order SLIST_FOREACH meets them.                                  *)
Places == UNION {{i} \X DOMAIN peer.svcs[i].chrs : i \in DOMAIN peer.svcs}

ChrAt(x) == chrMem[peer.svcs[x[1]].chrs[x[2]]]
EndAt(x) == ChrEnd(peer.svcs[x[1]], x[2])

MetNoLater(x, y) == x[1] < y[1] \/ (x[1] = y[1] /\ x[2] <= y[2])
FirstMet(S) == CHOOSE x \in S : \A y \in S : MetNoLater(x, y)

(* It is asked for its descriptors, unless the host refuses.               *)
AskFor(x) ==
  /\ peer' = [peer EXCEPT !.prevVal = ChrAt(x).val]
  /\ \/ /\ proc' = Procedure("dscs", ChrAt(x).val, EndAt(x))
        /\ UNCHANGED completion
     \/ proc' = NoProc /\ completion' = "failed"

(* Mutant: characteristics without descriptors are asked again.            *)
AskDescriptorsAgain ==
  LET bare == {x \in Places : EndAt(x) > ChrAt(x).val /\ ChrAt(x).dscs = <<>>}
  IN IF bare = {} THEN Complete("ok") ELSE AskFor(FirstMet(bare))

(* peer_disc_dscs: the first characteristic, from the one after            *)
(* disc_prev_chr_val on, that has room for descriptors and none yet.       *)
AskDescriptors ==
  LET bare == {x \in Places : /\ EndAt(x) > ChrAt(x).val /\ ChrAt(x).dscs = <<>>
                              /\ peer.prevVal <= ChrAt(x).def}
  IN IF bare = {} THEN Complete("ok") ELSE AskFor(FirstMet(bare))

(* peer_disc_chrs: the first service that spans more than its own handle   *)
(* and has no characteristics yet.                                         *)
AskCharacteristics ==
  LET k == SelectInSeq(peer.svcs, LAMBDA s : s.end > s.start /\ s.chrs = <<>>)
  IN IF k = 0 THEN AskDescriptors
     ELSE \/ /\ proc' = Procedure("chrs", peer.svcs[k].start, peer.svcs[k].end)
             /\ peer' = [peer EXCEPT !.cur = k]
             /\ UNCHANGED completion
          \/ /\ proc' = NoProc /\ completion' = "failed"
             /\ peer' = [[peer EXCEPT !.cur = k] EXCEPT !.prevVal = 0]

-----------------------------------------------------------------------------
(* The callbacks. An error from any of them, such as an exhausted pool,    *)
(* ends the procedure and completes the discovery.                         *)

(* peer_svc_disced, peer_svc_add.                                          *)
SvcFound(h) ==
  LET s == CHOOSE x \in Range(server) : x.start = h
      k == Before(peer.svcs, LAMBDA x : x.start, h)
      new == [start |-> s.start, end |-> s.end, uuid |-> s.uuid, chrs |-> <<>>]
  IN IF freeSvcs = 0 THEN Complete("failed") /\ UNCHANGED <<chrMem, freeChrs, freeSvcs, freeDscs>>
     ELSE /\ peer' = [peer EXCEPT !.svcs = InsertKeeping(@, k, new)]
          /\ freeSvcs' = freeSvcs - 1
          /\ proc' = [proc EXCEPT !.after = h]
          /\ UNCHANGED <<chrMem, freeChrs, freeDscs, completion>>

(* peer_chr_disced, peer_chr_add: a block is cleared when it is taken.     *)
ChrFound(h) ==
  LET c == CHOOSE x \in Range(ServerChrs) : x.def = h
      s == peer.svcs[peer.cur]
      k == Before(s.chrs, LAMBDA b : chrMem[b].val, h)
      b == Head(freeChrs)
  IN IF freeChrs = <<>> THEN Complete("failed") /\ UNCHANGED <<chrMem, freeChrs, freeSvcs, freeDscs>>
     ELSE /\ chrMem' = [chrMem EXCEPT ![b] = [c EXCEPT !.dscs = <<>>]]
          /\ freeChrs' = Tail(freeChrs)
          /\ peer' = [peer EXCEPT !.svcs[peer.cur].chrs = InsertDropping(@, k, b)]
          /\ proc' = [proc EXCEPT !.after = h]
          /\ UNCHANGED <<freeSvcs, freeDscs, completion>>

(* peer_dsc_disced, peer_dsc_add: the descriptor goes to the               *)
(* characteristic whose value handle the procedure was started with.       *)
DscFound(h) ==
  LET b == CHOOSE x \in Range(Blocks(peer)) : chrMem[x].val = proc.lo
      k == Before(chrMem[b].dscs, LAMBDA d : d, h)
  IN IF freeDscs = 0 THEN Complete("failed") /\ UNCHANGED <<chrMem, freeChrs, freeSvcs, freeDscs>>
     ELSE /\ chrMem' = [chrMem EXCEPT ![b].dscs = InsertDropping(@, k, h)]
          /\ freeDscs' = freeDscs - 1
          /\ proc' = [proc EXCEPT !.after = h]
          /\ UNCHANGED <<peer, freeChrs, freeSvcs, completion>>

Found ==
  /\ Unreported # {}
  /\ LET h == CHOOSE x \in Unreported : \A y \in Unreported : x <= y
     IN \/ proc.kind = "svcs" /\ SvcFound(h)
        \/ proc.kind = "chrs" /\ ChrFound(h)
        \/ proc.kind = "dscs" /\ DscFound(h)
  /\ UNCHANGED server

(* BLE_HS_EDONE: on to the next procedure.                                 *)
AllFound ==
  /\ proc # NoProc /\ Unreported = {}
  /\ IF proc.kind = "dscs" THEN AskDescriptors ELSE AskCharacteristics
  /\ UNCHANGED <<server, chrMem, freeChrs, freeSvcs, freeDscs>>

ProcedureFails ==
  /\ proc # NoProc
  /\ Complete("failed")
  /\ UNCHANGED <<server, chrMem, freeChrs, freeSvcs, freeDscs>>

(* peer_add and peer_disc_all for a new connection. The host may refuse    *)
(* the first procedure; then nobody is told. A peer can always be added:   *)
(* the one before it was deleted.                                          *)
AddPeer(database) ==
  /\ server' = database
  /\ peer' = [known |-> TRUE, svcs |-> <<>>, prevVal |-> 1, cur |-> 0]
  /\ proc' \in {Procedure("svcs", 1, 65535), NoProc}
  /\ UNCHANGED <<chrMem, freeChrs, freeSvcs, freeDscs, completion>>

(* peer_delete.                                                            *)
DeletePeer ==
  /\ ForgetServices
  /\ peer' = NoPeer
  /\ UNCHANGED <<server, proc, completion>>

-----------------------------------------------------------------------------
(* Every block of a pool is in its free list or in one list of the peer,   *)
(* however discoveries end and connections break.                          *)
PoolsAccounted ==
  /\ freeSvcs + Len(peer.svcs) = MaxSvcs
  /\ LET blocks == Blocks(peer) \o freeChrs
     IN Len(blocks) = MaxChrs /\ Range(blocks) = 1 .. MaxChrs
  /\ freeDscs + Len(Descriptors(peer, chrMem)) = MaxDscs

(* A discovery reported as successful has found every service,             *)
(* characteristic and descriptor of the peripheral, each in its place      *)
(* (bleCentral.c:233-235: "we now have a complete list of services,        *)
(* characteristics and descriptors that the peer supports").               *)
DiscoveryExact ==
  completion = "ok" =>
    server = [i \in DOMAIN peer.svcs |->
      [peer.svcs[i] EXCEPT !.chrs =
         [j \in DOMAIN peer.svcs[i].chrs |-> chrMem[peer.svcs[i].chrs[j]]]]]

(* A discovery finds everything, and what it took from the pools comes back.*)
DiscoverySound == DiscoveryExact /\ PoolsAccounted
=============================================================================
