------------------------ MODULE TerminalSessionsProofs ------------------------
(* Theorems about TerminalSessions, for any number of processes, users,     *)
(* connections, ports and sessions and any limits, and that it implements   *)
(* PortLock.                                                                *)
EXTENDS TerminalSessions, TLAPS, FiniteSetTheorems

-----------------------------------------------------------------------------
(* Type correctness.  TypeOK needs to know that a handler in the middle of  *)
(* a request has a session, and that an empty row of port_leases is empty.  *)

\* Points of request_session between the INSERT of the row and its end.
Making == {"recover", "expire", "claim", "drop", "open", "attach", "fail"}

SidKnown == \A c \in Conn : handler[c].pc \in Making \cup {"resume", "rejoin"}
                               => handler[c].sid \in Sid

LeaseShape == \A p \in Port : /\ lease[p].sid = 0 => lease[p] = NoLease
                              /\ lease[p].sid # 0 => lease[p].id # 0

AdminKnown == \A p \in Proc : admin[p].pc # "idle" => admin[p].sid \in Sid

TypeInv == TypeOK /\ SidKnown /\ LeaseShape /\ AdminKnown

Later_Range(limit) == \A n \in 0 .. limit + 1 : Later(n, limit) \in 0 .. limit + 1

LEMMA LaterRange == /\ Later_Range(IdleTimeout)
                    /\ Later_Range(MaxRuntime)
                    /\ Later_Range(GraceTicks)
  BY LimitAssumption DEF Later_Range, Later

LEMMA Zeros == /\ 0 \in 0 .. IdleTimeout + 1 /\ 0 \in 0 .. MaxRuntime + 1
               /\ 0 \in 0 .. GraceTicks + 1 /\ 0 \in 0 .. MaxSessionId
               /\ 0 \in 0 .. LeaseTicks /\ LeaseTicks \in 0 .. LeaseTicks
               /\ 0 \in 0 .. MaxFaults /\ 0 \notin Sid
  BY LimitAssumption DEF Sid

LEMMA NoBridgeType == NoBridge \in BridgeState
  BY Zeros DEF NoBridge, BridgeState, Phase, Reason

\* What the steps write in place of a bridge, as far as types go.
LEMMA WrittenBridges ==
    ASSUME NEW b \in BridgeState
    PROVE  /\ Retired(b) \in BridgeState
           /\ \A r \in Reason : Popped(b, r) \in BridgeState
           /\ Aged(b) \in BridgeState
           /\ [b EXCEPT !.conn = None] \in BridgeState
           /\ [b EXCEPT !.idle = 0] \in BridgeState
           /\ [b EXCEPT !.phase = "suspended", !.conn = None, !.running = TRUE,
                        !.idle = 0, !.away = 0] \in BridgeState
           /\ \A c \in Conn : [b EXCEPT !.phase = "active", !.conn = c,
                                         !.running = TRUE, !.reader = "look"]
                               \in BridgeState
           /\ [b EXCEPT !.running = FALSE, !.open = FALSE] \in BridgeState
<1>1. Retired(b) \in BridgeState
  BY NoBridgeType DEF Retired, BridgeState
<1>2. \A r \in Reason : Popped(b, r) \in BridgeState
  BY Zeros DEF Popped, BridgeState, Phase
<1>3. Aged(b) \in BridgeState
  BY LaterRange DEF Aged, BridgeState, Later_Range
<1>4. [b EXCEPT !.conn = None] \in BridgeState
  BY DEF BridgeState
<1>5. [b EXCEPT !.idle = 0] \in BridgeState
  BY Zeros DEF BridgeState
<1>6. [b EXCEPT !.phase = "suspended", !.conn = None, !.running = TRUE,
                !.idle = 0, !.away = 0] \in BridgeState
  BY Zeros DEF BridgeState, Phase
<1>7. ASSUME NEW c \in Conn
      PROVE  [b EXCEPT !.phase = "active", !.conn = c, !.running = TRUE, !.reader = "look"]
               \in BridgeState
  <2>1. [b EXCEPT !.phase = "active", !.conn = c] \in BridgeState
    BY DEF BridgeState, Phase
  <2>2. [[b EXCEPT !.phase = "active", !.conn = c] EXCEPT !.running = TRUE, !.reader = "look"]
          \in BridgeState
    BY <2>1 DEF BridgeState
  <2> QED
    BY <2>2
<1>8. [b EXCEPT !.running = FALSE, !.open = FALSE] \in BridgeState
  BY DEF BridgeState
<1> QED
  BY <1>1, <1>2, <1>3, <1>4, <1>5, <1>6, <1>7, <1>8

LEMMA DisconnectedType ==
    ASSUME NEW row \in SessionRow, NEW r \in Reason
    PROVE  [row EXCEPT !.status = "disconnected", !.reason = r] \in SessionRow
  BY DEF SessionRow

LEMMA NoSessionType == NoSession \in SessionRow /\ NoSession.status = "absent"
  BY DEF NoSession, SessionRow, Reason

LEMMA NoLeaseType == NoLease \in LeaseRow /\ NoLease.sid = 0
  BY Zeros DEF NoLease, LeaseRow

LEMMA DownType == Down \in HandlerState /\ Down.pc = "ready"
  BY DEF Down, HandlerState, HandlerPc

LEMMA NoRequestType == NoRequest \in AdminState
  BY DEF NoRequest, AdminState

\* end_session keeps the tables well-formed.
LEMMA EndSessionType ==
    ASSUME TypeInv, NEW s \in Sid, NEW r \in Reason, EndSession(s, r)
    PROVE  /\ session' \in [Sid -> SessionRow]
           /\ lease' \in [Port -> LeaseRow]
           /\ LeaseShape'
<1>1. session' \in [Sid -> SessionRow]
  <2> DEFINE r2 == [session[s] EXCEPT !.status = "disconnected", !.reason = r]
  <2>1. session[s] \in SessionRow /\ session \in [Sid -> SessionRow]
    BY DEF TypeInv, TypeOK
  <2>2. r2 \in SessionRow
    BY <2>1 DEF SessionRow
  <2>3. session' = session \/ session' = [session EXCEPT ![s] = r2]
    BY <2>1 DEF EndSession
  <2> QED
    BY <2>1, <2>2, <2>3
<1>2. lease' = [p \in Port |-> IF lease[p].sid = s THEN NoLease ELSE lease[p]]
  BY DEF EndSession
<1>3. lease' \in [Port -> LeaseRow] /\ LeaseShape'
  BY <1>2, NoLeaseType DEF TypeInv, TypeOK, LeaseShape
<1> QED
  BY <1>1, <1>3

LEMMA StopAtType ==
    ASSUME TypeInv, NEW c, NEW r \in Reason, StopAt(c, r)
    PROVE  bridge' \in [Sid -> BridgeState]
  BY WrittenBridges DEF TypeInv, TypeOK, StopAt

LEMMA FiledType ==
    ASSUME TypeInv, NEW s \in Sid, NEW b \in BridgeState, bridge' = Filed(s, b)
    PROVE  bridge' \in [Sid -> BridgeState]
  BY WrittenBridges DEF TypeInv, TypeOK, Filed

\* One handler moves on.
LEMMA HandlerType ==
    ASSUME TypeInv, NEW c \in Conn, NEW h \in HandlerState,
           handler' = [handler EXCEPT ![c] = h],
           h.pc \in Making \cup {"resume", "rejoin"} => h.sid \in Sid
    PROVE  handler' \in [Conn -> HandlerState] /\ SidKnown'
  BY DEF TypeInv, TypeOK, SidKnown

LEMMA HandledType ==
    ASSUME TypeInv, NEW c \in Conn, Handled(c)
    PROVE  handler' \in [Conn -> HandlerState] /\ SidKnown'
<1>1. [Down EXCEPT !.up = handler[c].up] \in HandlerState
  BY DownType DEF TypeInv, TypeOK, HandlerState
<1>2. [Down EXCEPT !.up = handler[c].up].pc = "ready"
  BY DEF Down
<1> QED
  BY <1>1, <1>2, HandlerType DEF Handled, Making

LEMMA GoOnType ==
    ASSUME TypeInv, NEW c \in Conn, NEW pc \in HandlerPc, GoOn(c, pc),
           pc \in Making \cup {"resume", "rejoin"} => handler[c].sid \in Sid
    PROVE  handler' \in [Conn -> HandlerState] /\ SidKnown'
<1> DEFINE h == [handler[c] EXCEPT !.pc = pc]
<1>1. h \in HandlerState /\ h.pc = pc /\ h.sid = handler[c].sid
  BY DEF TypeInv, TypeOK, HandlerState
<1>2. handler' = [handler EXCEPT ![c] = h]
  BY DEF GoOn, TypeInv, TypeOK
<1> HIDE DEF h
<1> QED
  BY <1>1, <1>2, HandlerType

LEMMA TypeInit == Init => TypeInv
  BY NoSessionType, NoLeaseType, NoBridgeType, DownType, NoRequestType, Zeros,
     LimitAssumption
     DEF Init, TypeInv, TypeOK, SidKnown, LeaseShape, AdminKnown, NoRequest, Making

\* What a user and a network do.
LEMMA ClientType ==
    ASSUME TypeInv, NEW c \in Conn, Client(c)
    PROVE  TypeInv'
<1> USE DEF TypeInv
<1>0. /\ session \in [Sid -> SessionRow] /\ lease \in [Port -> LeaseRow]
      /\ bridge \in [Sid -> BridgeState] /\ handler \in [Conn -> HandlerState]
  BY DEF TypeOK
<1>1. CASE Connect(c)
  <2>1. /\ handler' = [handler EXCEPT ![c].up = TRUE]
        /\ bridge' = [s \in Sid |-> IF s \in AtConn(c)
                                    THEN [bridge[s] EXCEPT !.conn = None]
                                    ELSE bridge[s]]
        /\ UNCHANGED <<session, lease, threads, lapsed, faults>>
    BY <1>1 DEF Connect
  <2>2. bridge' \in [Sid -> BridgeState]
    BY <1>0, <2>1, WrittenBridges
  <2>3. handler' \in [Conn -> HandlerState] /\ SidKnown'
    BY <1>0, <2>1 DEF HandlerState, SidKnown
  <2> QED
    BY <2>1, <2>2, <2>3 DEF TypeOK, threads, LeaseShape, AdminKnown
<1>2. CASE Disconnect(c)
  <2>1. /\ handler' = [handler EXCEPT ![c].up = FALSE]
        /\ bridge' = [s \in Sid |->
                    IF s \in AtConn(c)
                    THEN [bridge[s] EXCEPT !.phase = "suspended", !.conn = None,
                                           !.running = TRUE, !.idle = 0,
                                           !.away = 0]
                    ELSE bridge[s]]
        /\ UNCHANGED <<session, lease, threads, lapsed, faults>>
    BY <1>2 DEF Disconnect
  <2>2. bridge' \in [Sid -> BridgeState]
    BY <1>0, <2>1, WrittenBridges
  <2>3. handler' \in [Conn -> HandlerState] /\ SidKnown'
    BY <1>0, <2>1 DEF HandlerState, SidKnown
  <2> QED
    BY <2>1, <2>2, <2>3 DEF TypeOK, threads, LeaseShape, AdminKnown
<1>3. CASE ClientDisconnect(c)
  <2>1. bridge' \in [Sid -> BridgeState]
    BY <1>3, StopAtType DEF ClientDisconnect, Reason
  <2> QED
    BY <1>3, <2>1 DEF ClientDisconnect, TypeOK, threads, LeaseShape, AdminKnown, SidKnown
<1>4. CASE Request(c)
  <2>1. handler' \in [Conn -> HandlerState] /\ SidKnown'
    <3>1. CASE GoOn(c, "quota")
      BY <3>1, GoOnType DEF HandlerPc, Making
    <3>2. CASE \E s \in ActiveOf(UserOf[c]) :
                 handler' = [handler EXCEPT ![c].pc = "resume", ![c].sid = s]
      <4>1. PICK s \in ActiveOf(UserOf[c]) :
                   handler' = [handler EXCEPT ![c].pc = "resume", ![c].sid = s]
        BY <3>2
      <4>2. s \in Sid
        BY DEF ActiveOf
      <4> DEFINE h == [handler[c] EXCEPT !.pc = "resume", !.sid = s]
      <4>3. h \in HandlerState /\ h.sid = s
        BY <1>0, <4>2 DEF HandlerState, HandlerPc
      <4>4. handler' = [handler EXCEPT ![c] = h]
        BY <1>0, <4>1
      <4> HIDE DEF h
      <4> QED
        BY <4>2, <4>3, <4>4, HandlerType
    <3> QED
      BY <1>4, <3>1, <3>2 DEF Request
  <2> QED
    BY <1>4, <2>1 DEF Request, TypeOK, threads, LeaseShape, AdminKnown
<1>5. CASE Input(c)
  <2>1. bridge' \in [Sid -> BridgeState]
    <3>1. PICK s \in AtConn(c) : bridge' = [bridge EXCEPT ![s].idle = 0]
      BY <1>5 DEF Input
    <3>2. bridge' = [bridge EXCEPT ![s] = [bridge[s] EXCEPT !.idle = 0]] /\ s \in Sid
      BY <1>0, <3>1 DEF AtConn
    <3> QED
      BY <1>0, <3>2, WrittenBridges
  <2> QED
    BY <1>5, <2>1 DEF Input, TypeOK, threads, LeaseShape, AdminKnown, SidKnown
<1>6. CASE Heartbeat(c)
  <2>1. PICK s \in AtConn(c) :
          /\ bridge' = [bridge EXCEPT ![s].idle = 0]
          /\ lease' = [p \in Port |->
                         IF lease[p].sid = s
                         THEN [lease[p] EXCEPT !.left = LeaseTicks]
                         ELSE lease[p]]
    BY <1>6 DEF Heartbeat
  <2>0. bridge' = [bridge EXCEPT ![s] = [bridge[s] EXCEPT !.idle = 0]] /\ s \in Sid
    BY <1>0, <2>1 DEF AtConn
  <2>2. bridge' \in [Sid -> BridgeState]
    BY <1>0, <2>1, <2>0, WrittenBridges
  <2>3. lease' \in [Port -> LeaseRow]
    BY <1>0, <2>1, Zeros DEF LeaseRow
  <2>4. LeaseShape'
    <3>1. s # 0
      BY Zeros DEF AtConn
    <3> QED
      BY <1>0, <2>1, <3>1 DEF LeaseShape, LeaseRow
  <2> QED
    BY <1>6, <2>2, <2>3, <2>4 DEF Heartbeat, TypeOK, threads, SidKnown, AdminKnown
<1> QED
  BY <1>1, <1>2, <1>3, <1>4, <1>5, <1>6 DEF Client
\* The rest of a request.
LEMMA ServeType ==
    ASSUME TypeInv, NEW c \in Conn, Serve(c)
    PROVE  TypeInv'
<1> USE DEF TypeInv
<1>0. /\ session \in [Sid -> SessionRow] /\ lease \in [Port -> LeaseRow]
      /\ bridge \in [Sid -> BridgeState] /\ handler \in [Conn -> HandlerState]
      /\ handler[c] \in HandlerState /\ lapsed \subseteq Sid
      /\ handler[c].pc \in Making \cup {"resume", "rejoin"} => handler[c].sid \in Sid
  BY DEF TypeOK, SidKnown
<1>1. CASE Resume(c)
  <2> DEFINE s == handler[c].sid
  <2>1. handler[c].pc = "resume" /\ s \in Sid
    BY <1>0, <1>1 DEF Resume
  <2>2. bridge' \in [Sid -> BridgeState]
    <3>1. [bridge[s] EXCEPT !.phase = "held"] \in BridgeState
      BY <1>0, <2>1 DEF BridgeState, Phase
    <3>2. bridge' = bridge \/ bridge' = [bridge EXCEPT ![s] = [bridge[s] EXCEPT !.phase = "held"]]
      BY <1>0, <1>1, <2>1 DEF Resume
    <3> QED
      BY <1>0, <3>1, <3>2
  <2>3. handler' \in [Conn -> HandlerState] /\ SidKnown'
    <3>1. GoOn(c, "rejoin") \/ GoOn(c, "quota") \/ Handled(c)
      BY <1>1 DEF Resume
    <3>2. ASSUME GoOn(c, "rejoin") PROVE handler' \in [Conn -> HandlerState] /\ SidKnown'
      BY <2>1, <3>2, GoOnType DEF HandlerPc
    <3>3. ASSUME GoOn(c, "quota") PROVE handler' \in [Conn -> HandlerState] /\ SidKnown'
      BY <3>3, GoOnType DEF HandlerPc, Making
    <3> QED
      BY <3>1, <3>2, <3>3, HandledType
  <2> QED
    BY <1>1, <2>2, <2>3 DEF Resume, TypeOK, threads, LeaseShape, AdminKnown
<1>2. CASE Rejoin(c)
  <2> DEFINE s == handler[c].sid
             b == bridge[s]
  <2>1. s \in Sid /\ b \in BridgeState
    BY <1>0, <1>2 DEF Rejoin
  <2>2. CASE GraceOver(b)
    <3>1. /\ bridge' = [bridge EXCEPT ![s] = [Retired(b) EXCEPT !.open = FALSE]]
          /\ EndSession(s, "user_disconnect")
          /\ GoOn(c, "quota")
          /\ UNCHANGED <<threads, lapsed, faults>>
      BY <1>2, <2>2 DEF Rejoin
    <3>2. [Retired(b) EXCEPT !.open = FALSE] \in BridgeState
      <4>1. Retired(b) \in BridgeState
        BY <2>1, WrittenBridges
      <4> QED
        BY <4>1 DEF BridgeState
    <3>3. bridge' \in [Sid -> BridgeState]
      BY <1>0, <3>1, <3>2
    <3>4. handler' \in [Conn -> HandlerState] /\ SidKnown'
      BY <3>1, GoOnType DEF HandlerPc, Making
    <3>5. /\ session' \in [Sid -> SessionRow]
          /\ lease' \in [Port -> LeaseRow]
          /\ LeaseShape'
      BY <2>1, <3>1, EndSessionType DEF Reason
    <3> QED
      BY <3>1, <3>3, <3>4, <3>5 DEF TypeOK, threads, AdminKnown
  <2>3. CASE ~GraceOver(b)
    <3> DEFINE b2 == [b EXCEPT !.phase = "active", !.conn = c, !.idle = 0, !.away = 0]
    <3>1. /\ bridge' = Filed(s, b2)
          /\ Handled(c)
          /\ UNCHANGED <<database, threads, lapsed, faults>>
      BY <1>2, <2>3 DEF Rejoin
    <3>2. b2 \in BridgeState
      BY <2>1, Zeros DEF BridgeState, Phase
    <3>3. bridge' \in [Sid -> BridgeState]
      BY <2>1, <3>1, <3>2, FiledType
    <3>4. handler' \in [Conn -> HandlerState] /\ SidKnown'
      BY <3>1, HandledType
    <3> QED
      BY <3>1, <3>3, <3>4 DEF TypeOK, threads, database, LeaseShape, AdminKnown
  <2> QED
    BY <2>2, <2>3
<1>3. CASE Quota(c)
  <2>1. handler' \in [Conn -> HandlerState] /\ SidKnown'
    <3>1. CASE handler' = [handler EXCEPT ![c].pc = "create", ![c].ports = Port]
      <4> DEFINE h == [handler[c] EXCEPT !.pc = "create", !.ports = Port]
      <4>1. h \in HandlerState /\ h.pc = "create"
        BY <1>0 DEF HandlerState, HandlerPc
      <4>2. handler' = [handler EXCEPT ![c] = h]
        BY <1>0, <3>1
      <4> HIDE DEF h
      <4> QED
        BY <4>1, <4>2, HandlerType DEF Making
    <3> QED
      BY <1>3, <3>1, HandledType DEF Quota
  <2> QED
    BY <1>3, <2>1 DEF Quota, TypeOK, threads, LeaseShape, AdminKnown
<1>4. ASSUME NEW s \in Sid, NEW p \in Port, CreateSession(c, s, p) PROVE TypeInv'
  <2> DEFINE h == [handler[c] EXCEPT !.pc = "recover", !.sid = s, !.ports = @ \ {p}]
             r == [status |-> "active", user |-> UserOf[c], port |-> p, reason |-> "none"]
  <2>1. h \in HandlerState /\ h.sid = s
    BY <1>0 DEF HandlerState, HandlerPc
  <2>2. r \in SessionRow
    BY TopologyAssumption DEF SessionRow, Reason
  <2>3. /\ handler' = [handler EXCEPT ![c] = h]
        /\ session' = [session EXCEPT ![s] = r]
        /\ UNCHANGED <<lease, bridge, threads, lapsed, faults>>
    BY <1>0, <1>4 DEF CreateSession
  <2> HIDE DEF h, r
  <2>4. session' \in [Sid -> SessionRow]
    BY <1>0, <2>2, <2>3
  <2>5. handler' \in [Conn -> HandlerState] /\ SidKnown'
    BY <2>1, <2>3, HandlerType
  <2> QED
    BY <2>3, <2>4, <2>5 DEF TypeOK, threads, LeaseShape, AdminKnown
<1>5. CASE RecoverRead(c)
  <2> DEFINE stale == {p \in Port : Taken(p) /\ lease[p].left = 0}
             h == [handler[c] EXCEPT
                     !.pc = IF stale = {} THEN "claim" ELSE "expire",
                     !.dead = {lease[p].id : p \in stale},
                     !.ends = {s \in {lease[p].sid : p \in stale} :
                                 Active(s) /\ ~HasLocalBridge(ProcOf[c], s)}]
  <2>1. handler[c].sid \in Sid /\ handler' = [handler EXCEPT ![c] = h]
    BY <1>0, <1>5 DEF RecoverRead, Making
  <2>2. \A p \in stale : lease[p].id \in 1 .. MaxSessionId /\ lease[p].sid \in Sid
    <3> SUFFICES ASSUME NEW p \in stale
                 PROVE  lease[p].id \in 1 .. MaxSessionId /\ lease[p].sid \in Sid
      OBVIOUS
    <3>1. /\ lease[p].id \in 0 .. MaxSessionId /\ lease[p].sid \in {0} \cup Sid
          /\ lease[p].sid # 0
      BY <1>0 DEF LeaseRow, Taken
    <3>2. lease[p].id # 0
      BY <3>1 DEF LeaseShape
    <3> QED
      BY <3>1, <3>2, LimitAssumption
  <2>3. {lease[p].id : p \in stale} \subseteq 1 .. MaxSessionId
        /\ {lease[p].sid : p \in stale} \subseteq Sid
    BY <2>2
  <2>4. h \in HandlerState /\ h.sid = handler[c].sid
    <3> HIDE DEF stale
    <3> QED
      BY <1>0, <2>3 DEF HandlerState, HandlerPc
  <2> HIDE DEF h
  <2>5. handler' \in [Conn -> HandlerState] /\ SidKnown'
    BY <2>1, <2>4, HandlerType
  <2> QED
    BY <1>5, <2>5 DEF RecoverRead, TypeOK, threads, LeaseShape, AdminKnown
<1>6. CASE RecoverCommit(c)
  <2> DEFINE dying == {p \in Port : lease[p].id \in handler[c].dead}
             h == [handler[c] EXCEPT !.pc = "claim", !.dead = {}, !.ends = {}]
  <2>1. /\ handler[c].sid \in Sid /\ handler' = [handler EXCEPT ![c] = h]
        /\ lease' = [p \in Port |-> IF p \in dying THEN NoLease ELSE lease[p]]
        /\ session' = [s \in Sid |->
                     IF s \in handler[c].ends
                     THEN [session[s] EXCEPT !.status = "disconnected",
                                             !.reason = "lease_expired"]
                     ELSE session[s]]
        /\ lapsed' = lapsed \cup {lease[p].sid : p \in dying}
        /\ UNCHANGED <<bridge, threads, faults>>
    BY <1>0, <1>6 DEF RecoverCommit, Making
  <2>2. h \in HandlerState /\ h.sid = handler[c].sid
    BY <1>0 DEF HandlerState, HandlerPc
  <2>3. handler' \in [Conn -> HandlerState] /\ SidKnown'
    <3> HIDE DEF h
    <3> QED
      BY <2>1, <2>2, HandlerType
  <2>4. lease' \in [Port -> LeaseRow] /\ LeaseShape'
    <3> HIDE DEF dying
    <3> QED
      BY <1>0, <2>1, NoLeaseType DEF LeaseShape
  <2>5. \A s \in Sid : [session[s] EXCEPT !.status = "disconnected",
                                          !.reason = "lease_expired"] \in SessionRow
    BY <1>0 DEF SessionRow, Reason
  <2>6. session' \in [Sid -> SessionRow]
    BY <1>0, <2>1, <2>5
  <2>7. \A p \in dying : lease[p].sid \in Sid
    <3> SUFFICES ASSUME NEW p \in dying PROVE lease[p].sid \in Sid
      OBVIOUS
    <3>1. lease[p].id \in 1 .. MaxSessionId
      BY <1>0 DEF HandlerState
    <3>2. lease[p].id # 0 /\ lease[p].sid \in {0} \cup Sid
      BY <1>0, <3>1 DEF LeaseRow
    <3>3. lease[p].sid # 0
      BY <3>2 DEF LeaseShape, NoLease
    <3> QED
      BY <3>2, <3>3
  <2>8. lapsed' \subseteq Sid
    <3> HIDE DEF dying
    <3> QED
      BY <1>0, <2>1, <2>7
  <2> QED
    BY <2>1, <2>3, <2>4, <2>6, <2>8 DEF TypeOK, threads, AdminKnown
<1>7. CASE ClaimLease(c)
  <2> DEFINE s == handler[c].sid
             q == session[s].port
  <2>1. s \in Sid /\ handler[c].pc = "claim"
        /\ UNCHANGED <<session, bridge, threads, lapsed, faults>>
    BY <1>0, <1>7 DEF ClaimLease, Making
  <2>2. handler' \in [Conn -> HandlerState] /\ SidKnown'
    <3>1. CASE GoOn(c, "drop")
      BY <2>1, <3>1, GoOnType DEF HandlerPc
    <3>2. CASE GoOn(c, "open")
      BY <2>1, <3>2, GoOnType DEF HandlerPc
    <3> QED
      BY <1>7, <3>1, <3>2 DEF ClaimLease
  <2>3. lease' \in [Port -> LeaseRow] /\ LeaseShape'
    <3>1. CASE lease' = lease
      BY <1>0, <3>1 DEF LeaseShape
    <3>2. ASSUME NEW i \in 1 .. MaxSessionId,
                 lease' = [lease EXCEPT ![q] = [id |-> i, sid |-> s, left |-> LeaseTicks]]
          PROVE  lease' \in [Port -> LeaseRow] /\ LeaseShape'
      <4> DEFINE l == [id |-> i, sid |-> s, left |-> LeaseTicks]
      <4>1. l \in LeaseRow /\ l.sid # 0 /\ l.id # 0
        BY <2>1, Zeros, LimitAssumption DEF LeaseRow
      <4> HIDE DEF l, q
      <4>2. lease' = [lease EXCEPT ![q] = l]
        BY <3>2 DEF l
      <4> QED
        BY <1>0, <4>1, <4>2 DEF LeaseShape
    <3> QED
      BY <1>7, <3>1, <3>2 DEF ClaimLease
  <2> QED
    BY <2>1, <2>2, <2>3 DEF TypeOK, threads, AdminKnown
<1>8. CASE Drop(c)
  <2>1. session' \in [Sid -> SessionRow]
    BY <1>0, <1>8, NoSessionType DEF Drop
  <2>2. handler' \in [Conn -> HandlerState] /\ SidKnown'
    <3>1. CASE handler' = [handler EXCEPT ![c].pc = "create", ![c].sid = 0]
      <4> DEFINE h == [handler[c] EXCEPT !.pc = "create", !.sid = 0]
      <4>1. h \in HandlerState /\ h.pc = "create"
        BY <1>0 DEF HandlerState, HandlerPc
      <4>2. handler' = [handler EXCEPT ![c] = h]
        BY <1>0, <3>1
      <4> HIDE DEF h
      <4> QED
        BY <4>1, <4>2, HandlerType DEF Making
    <3> QED
      BY <1>8, <3>1, HandledType DEF Drop
  <2> QED
    BY <1>8, <2>1, <2>2 DEF Drop, TypeOK, threads, LeaseShape, AdminKnown
<1>9. CASE Open(c)
  <2> DEFINE s == handler[c].sid
             b == [NoBridge EXCEPT !.phase = "opened", !.proc = ProcOf[c], !.open = TRUE]
  <2>1. s \in Sid
    BY <1>0, <1>9 DEF Open, Making
  <2>2. b \in BridgeState
    BY NoBridgeType, TopologyAssumption DEF BridgeState, Phase
  <2>3. bridge' \in [Sid -> BridgeState]
    <3> HIDE DEF b
    <3>1. bridge' = bridge \/ bridge' = [bridge EXCEPT ![s] = b]
      BY <1>9 DEF Open, b
    <3> QED
      BY <1>0, <2>2, <3>1
  <2>4. handler' \in [Conn -> HandlerState] /\ SidKnown'
    <3>1. CASE GoOn(c, "attach")
      BY <2>1, <3>1, GoOnType DEF HandlerPc
    <3>2. CASE GoOn(c, "fail")
      BY <2>1, <3>2, GoOnType DEF HandlerPc
    <3> QED
      BY <1>9, <3>1, <3>2 DEF Open
  <2> QED
    BY <1>9, <2>3, <2>4 DEF Open, TypeOK, threads, LeaseShape, AdminKnown
<1>10. CASE Attach(c)
  <2> DEFINE s == handler[c].sid
             b == [bridge[s] EXCEPT !.phase = "active", !.conn = c,
                                    !.running = TRUE, !.reader = "look"]
  <2>1. s \in Sid
    BY <1>0, <1>10 DEF Attach, Making
  <2>2. b \in BridgeState
    BY <1>0, <2>1, WrittenBridges
  <2>3. bridge' \in [Sid -> BridgeState]
    BY <1>10, <2>1, <2>2, FiledType DEF Attach
  <2>4. handler' \in [Conn -> HandlerState] /\ SidKnown'
    BY <1>10, HandledType DEF Attach
  <2> QED
    BY <1>10, <2>3, <2>4 DEF Attach, TypeOK, threads, LeaseShape, AdminKnown
<1>11. CASE Fail(c)
  <2>1. handler[c].sid \in Sid
    BY <1>0, <1>11 DEF Fail, Making
  <2>2. /\ session' \in [Sid -> SessionRow]
        /\ lease' \in [Port -> LeaseRow]
        /\ LeaseShape'
    BY <1>11, <2>1, EndSessionType DEF Fail, Reason
  <2>3. handler' \in [Conn -> HandlerState] /\ SidKnown'
    BY <1>11, HandledType DEF Fail
  <2> QED
    BY <1>11, <2>2, <2>3 DEF Fail, TypeOK, threads, AdminKnown
<1> QED
  BY <1>1, <1>2, <1>3, <1>4, <1>5, <1>6, <1>7, <1>8, <1>9, <1>10, <1>11 DEF Serve

\* The threads that close and end a bridge, and its reader.
LEMMA BridgeThreadType ==
    ASSUME TypeInv, NEW s \in Sid, Teardown(s) \/ Reader(s)
    PROVE  TypeInv'
<1> USE DEF TypeInv
<1>0. bridge \in [Sid -> BridgeState] /\ bridge[s] \in BridgeState
  BY DEF TypeOK
<1>1. CASE CloseStopped(s)
  <2> DEFINE b == [bridge[s] EXCEPT !.phase = "ending", !.open = FALSE]
  <2>1. b \in BridgeState
    BY <1>0 DEF BridgeState, Phase
  <2>2. bridge' = [bridge EXCEPT ![s] = b]
    BY <1>0, <1>1 DEF CloseStopped, Closed
  <2>3. bridge' \in [Sid -> BridgeState]
    BY <1>0, <2>1, <2>2
  <2> QED
    BY <1>1, <2>3 DEF CloseStopped, TypeOK, threads, SidKnown, LeaseShape, AdminKnown
<1>2. CASE EndStopped(s)
  <2>1. bridge' \in [Sid -> BridgeState]
    BY <1>0, <1>2, WrittenBridges DEF EndStopped
  <2>2. /\ session' \in [Sid -> SessionRow]
        /\ lease' \in [Port -> LeaseRow]
        /\ LeaseShape'
    <3>1. bridge[s].reason \in Reason
      BY <1>0 DEF BridgeState
    <3> QED
      BY <1>2, <3>1, EndSessionType DEF EndStopped
  <2> QED
    BY <1>2, <2>1, <2>2 DEF EndStopped, TypeOK, threads, SidKnown, AdminKnown
<1>3. CASE ReaderLook(s)
  <2>1. \A r \in {"read", "off"} : [bridge[s] EXCEPT !.reader = r] \in BridgeState
    BY <1>0 DEF BridgeState
  <2>2. \E r \in {"read", "off"} :
           bridge' = [bridge EXCEPT ![s] = [bridge[s] EXCEPT !.reader = r]]
    BY <1>0, <1>3 DEF ReaderLook
  <2>3. bridge' \in [Sid -> BridgeState]
    BY <1>0, <2>1, <2>2
  <2> QED
    BY <1>3, <2>3 DEF ReaderLook, TypeOK, threads, SidKnown, LeaseShape, AdminKnown
<1>4. CASE ReaderReads(s)
  <2>1. \A i \in {0, bridge[s].idle} :
           [bridge[s] EXCEPT !.reader = "look", !.idle = i] \in BridgeState
    BY <1>0, Zeros DEF BridgeState
  <2>2. \E i \in {0, bridge[s].idle} :
           bridge' = [bridge EXCEPT ![s] = [bridge[s] EXCEPT !.reader = "look", !.idle = i]]
    BY <1>0, <1>4 DEF ReaderReads
  <2>3. bridge' \in [Sid -> BridgeState]
    BY <1>0, <2>1, <2>2
  <2> QED
    BY <1>4, <2>3 DEF ReaderReads, TypeOK, threads, SidKnown, LeaseShape, AdminKnown
<1>5. GivesUp(s) => bridge' \in [Sid -> BridgeState]
  <2> DEFINE b == [bridge[s] EXCEPT !.reader = "remove", !.running = FALSE, !.open = FALSE]
  <2>1. b \in BridgeState
    <3>1. [bridge[s] EXCEPT !.reader = "remove"] \in BridgeState
      BY <1>0 DEF BridgeState
    <3>2. [[bridge[s] EXCEPT !.reader = "remove"] EXCEPT !.running = FALSE, !.open = FALSE]
            \in BridgeState
      BY <3>1 DEF BridgeState
    <3> QED
      BY <1>0, <3>2
  <2>2. GivesUp(s) => bridge' = [bridge EXCEPT ![s] = b]
    BY <1>0 DEF GivesUp, Closed
  <2> QED
    BY <1>0, <2>1, <2>2
<1>6. CASE ReaderEndedElsewhere(s)
  BY <1>5, <1>6 DEF ReaderEndedElsewhere, TypeOK, threads, SidKnown, LeaseShape, AdminKnown
<1>7. CASE ReaderError(s)
  <2>1. faults' \in 0 .. MaxFaults
    BY <1>0, <1>7, LimitAssumption DEF ReaderError, TypeOK, BridgeState
  <2> QED
    BY <1>5, <1>7, <2>1 DEF ReaderError, TypeOK, threads, SidKnown, LeaseShape, AdminKnown
<1>8. CASE ReaderRemove(s)
  <2> DEFINE b == [bridge[s] EXCEPT !.reader = "off"]
  <2>1. b \in BridgeState
    BY <1>0 DEF BridgeState
  <2>2. bridge' = [bridge EXCEPT ![s] = IF b.phase \in Registered THEN Retired(b) ELSE b]
    BY <1>8 DEF ReaderRemove
  <2> HIDE DEF b
  <2>3. bridge' \in [Sid -> BridgeState]
    BY <1>0, <2>1, <2>2, WrittenBridges
  <2> QED
    BY <1>8, <2>3 DEF ReaderRemove, TypeOK, threads, SidKnown, LeaseShape, AdminKnown
<1>9. CASE EndFails(s)
  <2>1. bridge' = [bridge EXCEPT ![s] = Retired(bridge[s])] /\ Retired(bridge[s]) \in BridgeState
    BY <1>0, <1>9, WrittenBridges DEF EndFails
  <2>2. bridge' \in [Sid -> BridgeState]
    BY <1>0, <2>1
  <2>3. faults' \in 0 .. MaxFaults
    BY <1>9, LimitAssumption DEF EndFails, TypeOK
  <2>4. /\ doomed' \in [Proc -> SUBSET (Conn \X {"timeout", "idle_timeout"})]
        /\ abandoned' \in [Proc -> SUBSET Sid]
    BY <1>9 DEF EndFails, TypeOK
  <2> QED
    BY <1>9, <2>2, <2>3, <2>4 DEF EndFails, TypeOK, SidKnown, LeaseShape, AdminKnown
<1> QED
  BY <1>1, <1>2, <1>3, <1>4, <1>6, <1>7, <1>8, <1>9 DEF Teardown, Reader

\* The monitor, the cleaner, an administrator's request and a new process.
LEMMA ProcessType ==
    ASSUME TypeInv, NEW p \in Proc,
           \/ Monitor(p) \/ Cleaner(p) \/ ForceContinue(p) \/ Restart(p) \/ Startup(p)
           \/ \E s \in Sid : ForceFind(p, s)
    PROVE  TypeInv'
<1> USE DEF TypeInv
<1>0. /\ session \in [Sid -> SessionRow] /\ lease \in [Port -> LeaseRow]
      /\ bridge \in [Sid -> BridgeState] /\ handler \in [Conn -> HandlerState]
      /\ doomed \in [Proc -> SUBSET (Conn \X {"timeout", "idle_timeout"})]
      /\ abandoned \in [Proc -> SUBSET Sid] /\ admin \in [Proc -> AdminState]
      /\ boot \in [Proc -> {"up", "leases", "rows"}] /\ lapsed \subseteq Sid
      /\ admin[p].pc # "idle" => admin[p].sid \in Sid
  BY DEF TypeOK, AdminKnown
<1>1. CASE MonitorScan(p)
  <2>1. doomed' \in [Proc -> SUBSET (Conn \X {"timeout", "idle_timeout"})]
    <3>1. TimedOut(p) \in SUBSET (Conn \X {"timeout", "idle_timeout"})
      BY DEF TimedOut
    <3> HIDE DEF TypeInv
    <3> QED
      BY <1>0, <1>1, <3>1 DEF MonitorScan
  <2> QED
    BY <1>1, <2>1 DEF MonitorScan, TypeOK, SidKnown, LeaseShape, AdminKnown
<1>2. CASE MonitorStop(p)
  <2>1. PICK d \in doomed[p] : StopAt(d[1], d[2]) /\ doomed' = [doomed EXCEPT ![p] = @ \ {d}]
    BY <1>2 DEF MonitorStop
  <2>2. d[2] \in Reason
    BY <1>0 DEF Reason
  <2>3. bridge' \in [Sid -> BridgeState]
    BY <2>1, <2>2, StopAtType
  <2>4. doomed' \in [Proc -> SUBSET (Conn \X {"timeout", "idle_timeout"})]
    BY <1>0, <2>1
  <2> QED
    BY <1>2, <2>3, <2>4 DEF MonitorStop, TypeOK, SidKnown, LeaseShape, AdminKnown
<1>3. CASE CleanerScan(p)
  <2>1. abandoned' \in [Proc -> SUBSET Sid]
    BY <1>0, <1>3 DEF CleanerScan, SuspendedIn
  <2> QED
    BY <1>3, <2>1 DEF CleanerScan, TypeOK, SidKnown, LeaseShape, AdminKnown
<1>4. CASE CleanerStop(p)
  <2>1. PICK s \in abandoned[p] :
          /\ abandoned' = [abandoned EXCEPT ![p] = @ \ {s}]
          /\ bridge' = IF s \in SuspendedIn(p)
                       THEN [bridge EXCEPT ![s] = Popped(bridge[s], "user_disconnect")]
                       ELSE bridge
    BY <1>4 DEF CleanerStop
  <2>2. abandoned' \in [Proc -> SUBSET Sid]
    BY <1>0, <2>1
  <2>3. bridge' \in [Sid -> BridgeState]
    <3>1. s \in Sid /\ Popped(bridge[s], "user_disconnect") \in BridgeState
      BY <1>0, WrittenBridges DEF Reason
    <3> QED
      BY <1>0, <2>1, <3>1
  <2> QED
    BY <1>4, <2>2, <2>3 DEF CleanerStop, TypeOK, SidKnown, LeaseShape, AdminKnown
<1>5. ASSUME NEW s \in Sid, ForceFind(p, s) PROVE TypeInv'
  <2>1. bridge[s].conn \in Conn \cup {None}
    BY <1>0 DEF BridgeState
  <2> DEFINE a == IF HasLocalBridge(p, s) /\ bridge[s].phase = "active"
                  THEN [pc |-> "stop", sid |-> s, conn |-> bridge[s].conn]
                  ELSE [pc |-> "suspended", sid |-> s, conn |-> None]
  <2>2. a \in AdminState /\ a.sid \in Sid
    BY <2>1 DEF AdminState
  <2>3. admin' = [admin EXCEPT ![p] = a]
    BY <1>5 DEF ForceFind
  <2> HIDE DEF a
  <2>4. admin' \in [Proc -> AdminState] /\ AdminKnown'
    BY <1>0, <2>2, <2>3 DEF AdminKnown
  <2> QED
    BY <1>5, <2>4 DEF ForceFind, TypeOK, SidKnown, LeaseShape
<1>6. admin' = [admin EXCEPT ![p] = NoRequest]
      => admin' \in [Proc -> AdminState] /\ AdminKnown'
  BY <1>0, NoRequestType DEF AdminKnown, NoRequest
<1>7. ASSUME NEW pc \in {"close", "end"}, admin[p].pc # "idle",
             admin' = [admin EXCEPT ![p].pc = pc]
      PROVE  admin' \in [Proc -> AdminState] /\ AdminKnown'
  <2> DEFINE a == [admin[p] EXCEPT !.pc = pc]
  <2>1. a \in AdminState /\ a.sid \in Sid
    BY <1>0, <1>7 DEF AdminState
  <2>2. admin' = [admin EXCEPT ![p] = a]
    BY <1>0, <1>7
  <2> HIDE DEF a
  <2> QED
    BY <1>0, <2>1, <2>2 DEF AdminKnown
<1>8. CASE ForceStop(p)
  <2>1. bridge' \in [Sid -> BridgeState]
    BY <1>8, StopAtType DEF ForceStop, Reason
  <2> QED
    BY <1>6, <1>8, <2>1 DEF ForceStop, TypeOK, SidKnown, LeaseShape
<1>9. CASE ForceSuspended(p)
  <2>1. \E pc \in {"close", "end"} : admin' = [admin EXCEPT ![p].pc = pc]
    BY <1>9 DEF ForceSuspended
  <2>2. admin[p].pc # "idle"
    BY <1>9 DEF ForceSuspended
  <2> QED
    BY <1>7, <1>9, <2>1, <2>2 DEF ForceSuspended, TypeOK, SidKnown, LeaseShape
<1>10. CASE ForceClose(p)
  <2> DEFINE s == admin[p].sid
             b == [bridge[s] EXCEPT !.running = FALSE, !.open = FALSE]
  <2>1. s \in Sid /\ admin[p].pc # "idle" /\ admin' = [admin EXCEPT ![p].pc = "end"]
    BY <1>0, <1>10 DEF ForceClose
  <2>2. b \in BridgeState
    BY <1>0, <2>1, WrittenBridges
  <2>3. bridge' = [bridge EXCEPT ![s] = IF b.phase \in Registered THEN Retired(b) ELSE b]
    BY <1>10 DEF ForceClose
  <2> HIDE DEF b
  <2>4. bridge' \in [Sid -> BridgeState]
    BY <1>0, <2>1, <2>2, <2>3, WrittenBridges
  <2>5. admin' \in [Proc -> AdminState] /\ AdminKnown'
    BY <1>7, <2>1
  <2> QED
    BY <1>10, <2>4, <2>5 DEF ForceClose, TypeOK, SidKnown, LeaseShape
<1>11. CASE ForceEnd(p)
  <2>1. admin[p].sid \in Sid
    BY <1>0, <1>11 DEF ForceEnd
  <2>2. /\ session' \in [Sid -> SessionRow]
        /\ lease' \in [Port -> LeaseRow]
        /\ LeaseShape'
    BY <1>11, <2>1, EndSessionType DEF ForceEnd, Reason
  <2> QED
    BY <1>6, <1>11, <2>2 DEF ForceEnd, TypeOK, SidKnown
<1>12. CASE Restart(p)
  <2>1. bridge' \in [Sid -> BridgeState]
    BY <1>0, <1>12, NoBridgeType DEF Restart
  <2>2. handler' \in [Conn -> HandlerState] /\ SidKnown'
    BY <1>0, <1>12, DownType DEF Restart, SidKnown, Making
  <2>3. /\ boot' \in [Proc -> {"up", "leases", "rows"}]
        /\ doomed' \in [Proc -> SUBSET (Conn \X {"timeout", "idle_timeout"})]
        /\ abandoned' \in [Proc -> SUBSET Sid]
    BY <1>0, <1>12 DEF Restart
  <2>4. faults' \in 0 .. MaxFaults
    BY <1>12, LimitAssumption DEF Restart, TypeOK
  <2>5. admin' \in [Proc -> AdminState] /\ AdminKnown'
    BY <1>6, <1>12 DEF Restart
  <2> QED
    BY <1>12, <2>1, <2>2, <2>3, <2>4, <2>5 DEF Restart, TypeOK, LeaseShape
<1>13. CASE StartupLeases(p)
  <2>1. lease' \in [Port -> LeaseRow] /\ LeaseShape'
    BY <1>13, NoLeaseType DEF StartupLeases, LeaseShape
  <2>2. lapsed' \subseteq Sid
    <3>1. \A q \in Port : Taken(q) => lease[q].sid \in Sid
      BY <1>0 DEF Taken, LeaseRow
    <3> QED
      BY <1>0, <1>13, <3>1 DEF StartupLeases
  <2>3. boot' \in [Proc -> {"up", "leases", "rows"}]
    BY <1>0, <1>13 DEF StartupLeases
  <2> QED
    BY <1>13, <2>1, <2>2, <2>3 DEF StartupLeases, TypeOK, SidKnown, AdminKnown
<1>14. CASE StartupRows(p)
  <2>1. \A s \in Sid : [session[s] EXCEPT !.status = "disconnected",
                                          !.reason = "server_restart"] \in SessionRow
    BY <1>0, DisconnectedType DEF Reason
  <2>2. session' \in [Sid -> SessionRow]
    BY <1>0, <1>14, <2>1 DEF StartupRows
  <2>3. boot' \in [Proc -> {"up", "leases", "rows"}]
    BY <1>0, <1>14 DEF StartupRows
  <2> QED
    BY <1>14, <2>2, <2>3 DEF StartupRows, TypeOK, SidKnown, LeaseShape, AdminKnown
<1> QED
  BY <1>1, <1>2, <1>3, <1>4, <1>5, <1>8, <1>9, <1>10, <1>11, <1>12, <1>13, <1>14
     DEF Monitor, Cleaner, ForceContinue, Startup

LEMMA TickType == ASSUME TypeInv, Tick PROVE TypeInv'
<1> USE DEF TypeInv
<1>0. /\ lease \in [Port -> LeaseRow] /\ bridge \in [Sid -> BridgeState]
      /\ lapsed \subseteq Sid
  BY DEF TypeOK
<1>1. /\ lease' = [p \in Port |-> IF lease[p].left > 0
                                   THEN [lease[p] EXCEPT !.left = @ - 1]
                                   ELSE lease[p]]
      /\ bridge' = [s \in Sid |-> Aged(bridge[s])]
      /\ lapsed' = lapsed \cup {lease[p].sid : p \in {p \in Port : lease[p].left = 1}}
      /\ UNCHANGED <<session, handler, threads, faults>>
  BY DEF Tick
<1>2. bridge' \in [Sid -> BridgeState]
  BY <1>0, <1>1, WrittenBridges
<1>3. \A p \in Port : lease[p].left > 0 => lease[p].sid # 0 /\ lease[p].sid \in Sid
  BY <1>0 DEF LeaseShape, NoLease, LeaseRow
<1>4. lease' \in [Port -> LeaseRow]
  <2>1. \A p \in Port : lease[p].left > 0 => [lease[p] EXCEPT !.left = @ - 1] \in LeaseRow
    BY <1>0, LimitAssumption DEF LeaseRow
  <2> QED
    BY <1>0, <1>1, <2>1
<1>5. LeaseShape'
  <2>1. \A p \in Port : lease[p].left > 0
                         => /\ [lease[p] EXCEPT !.left = @ - 1].sid = lease[p].sid
                            /\ [lease[p] EXCEPT !.left = @ - 1].id = lease[p].id
    BY <1>0 DEF LeaseRow
  <2> QED
    BY <1>0, <1>1, <1>3, <2>1 DEF LeaseShape
<1>6. lapsed' \subseteq Sid
  BY <1>0, <1>1, <1>3
<1> QED
  BY <1>1, <1>2, <1>4, <1>5, <1>6 DEF TypeOK, threads, SidKnown, AdminKnown

LEMMA TypeNext == TypeInv /\ [Next]_vars => TypeInv'
<1> SUFFICES ASSUME TypeInv, [Next]_vars PROVE TypeInv'
  OBVIOUS
<1>1. CASE UNCHANGED vars
  BY <1>1 DEF vars, TypeInv, TypeOK, SidKnown, LeaseShape, AdminKnown
<1>2. ASSUME NEW c \in Conn, Client(c) \/ Serve(c) PROVE TypeInv'
  BY <1>2, ClientType, ServeType
<1>3. ASSUME NEW s \in Sid, Teardown(s) \/ Reader(s) PROVE TypeInv'
  BY <1>3, BridgeThreadType
<1>4. ASSUME NEW p \in Proc,
             \/ Monitor(p) \/ Cleaner(p) \/ ForceContinue(p) \/ Restart(p) \/ Startup(p)
             \/ \E s \in Sid : ForceFind(p, s)
      PROVE  TypeInv'
  BY <1>4, ProcessType
<1>5. CASE Tick
  BY <1>5, TickType
<1> QED
  BY <1>1, <1>2, <1>3, <1>4, <1>5 DEF Next

LEMMA TypesHold == Spec => []TypeInv
  BY TypeInit, TypeNext, PTL DEF Spec

\* The tables, the bridges and what every thread holds keep their types
\* (terminal/utils.py and the handlers of terminal/events.py).
THEOREM TypeCorrectness == Spec => []TypeOK
<1>1. TypeInv => TypeOK
  BY DEF TypeInv
<1> QED
  BY <1>1, TypesHold, PTL

-----------------------------------------------------------------------------
(* Who may touch a bridge.  A request that is making a session, or has      *)
(* taken a suspended bridge, is alone with it; every other thread only      *)
(* moves bridges on towards their end and opens none.                       *)

Owning == Making \cup {"rejoin"}

\* What holds of one bridge.
Sound(b) == /\ b.phase \in {"none", "ending"} => ~b.open
            /\ b.phase \in {"active", "suspended", "held"} /\ ~b.running => ~b.open
            /\ b.reader = "remove" => ~b.open

BridgesSound == \A s \in Sid : Sound(bridge[s])

\* What holds of one row.
RowFits(s) == /\ session[s].status = "absent" => bridge[s].phase = "none"
              /\ session[s].status # "absent" => session[s].port \in Port

RowsFit == \A s \in Sid : RowFits(s)

\* What a handler relies on at each point of its request.
Fits(c) ==
    LET s == handler[c].sid IN
    /\ handler[c].pc \in Making => session[s].status # "absent"
    /\ handler[c].pc \in Making \ {"attach"} => bridge[s].phase = "none"
    /\ handler[c].pc = "attach" => bridge[s].phase = "opened" /\ bridge[s].proc = ProcOf[c]
    /\ handler[c].pc = "rejoin" => bridge[s].phase = "held" /\ bridge[s].proc = ProcOf[c]

HandlersFit == \A c \in Conn : Fits(c)

\* While a request is under way nothing under its connection runs.
NoneRuns(c) == \A s \in Sid : bridge[s].phase = "active" /\ bridge[s].conn = c
                                => ~bridge[s].running

RequestsAlone == \A c \in Conn : handler[c].pc # "ready" => NoneRuns(c)

OwnerOf(c, s) == handler[c].pc \in Owning /\ handler[c].sid = s

SoleOwner == \A c, d \in Conn, s \in Sid : OwnerOf(c, s) /\ OwnerOf(d, s) => c = d

\* An undisturbed session whose port is open, or about to be, has its lease.
MayOpen(s) == \/ bridge[s].open
              \/ \E c \in Conn : handler[c].pc = "open" /\ handler[c].sid = s

LeaseKept == \A s \in Undisturbed : MayOpen(s) => lease[session[s].port].sid = s

\* A lease, or a handler that has read an expired one, names a session that
\* has its row and whose request is past the INSERT of the lease.
Unclaimed == {"recover", "expire", "claim", "drop"}

Leased(s) == \/ \E p \in Port : lease[p].sid = s
             \/ \E c \in Conn : s \in handler[c].ends

LeasedFit == \A s \in Sid : Leased(s) =>
                /\ session[s].status # "absent"
                /\ \A c \in Conn : handler[c].sid = s => handler[c].pc \notin Unclaimed

Shape == /\ BridgesSound /\ RowsFit /\ HandlersFit /\ RequestsAlone /\ SoleOwner
         /\ LeaseKept /\ LeasedFit

\* What a thread that does not own the bridge may make of it.
Moved(b, a) ==
    /\ \/ a.phase = b.phase /\ a.proc = b.proc
       \/ /\ b.phase \in {"active", "suspended", "closing", "ending"}
          /\ a.phase \in {"none", "suspended", "closing", "ending"}
    /\ a.phase = "active" => /\ b.phase = "active"
                             /\ a.conn = b.conn \/ a.conn = None
                             /\ a.running => b.running
    /\ a.open => b.open
    /\ Sound(a)

LEMMA StaysMoved == ASSUME NEW b, Sound(b) PROVE Moved(b, b)
  BY DEF Moved

-----------------------------------------------------------------------------
(* What such a step is for the abstract lock: sessions only lose their port. *)

LockStep == [Lock!Next]_(Lock!vars)

Loses(s) == /\ session'[s].port = session[s].port
            /\ \/ StageOf(s)' = StageOf(s)
               \/ StageOf(s) = "holding" /\ StageOf(s)' = "stray"
               \/ /\ StageOf(s) \in {"asking", "holding", "stray"}
                  /\ StageOf(s)' = "over"

\* The cases of the refinement mapping, one by one.
Staged(s) ==
    /\ session[s].status = "absent" => StageOf(s) = "absent"
    /\ session[s].status # "absent" /\ bridge[s].open =>
          StageOf(s) = IF s \in Undisturbed THEN "holding" ELSE "stray"
    /\ session[s].status # "absent" /\ ~bridge[s].open =>
          StageOf(s) = IF Asks(s) THEN "asking" ELSE "over"

LEMMA Stages == \A s : Staged(s)
  BY DEF Staged, StageOf

LEMMA StagesNext == \A s : Staged(s)'
  BY DEF Staged, StageOf

LEMMA AllLose ==
    ASSUME \A s \in Sid : Loses(s)
    PROVE  LockStep
<1>1. [s \in Sid |-> StageOf(s)'] \in [Sid -> Lock!Stage]
  BY DEF StageOf, Lock!Stage
<1>2. \A s \in Sid :
        LET was == [t \in Sid |-> StageOf(t)]
            is  == [t \in Sid |-> StageOf(t)']
        IN  \/ is[s] = was[s]
            \/ was[s] = "holding" /\ is[s] = "stray"
            \/ was[s] \in {"asking", "holding", "stray"} /\ is[s] = "over"
  BY DEF Loses
<1>3. [s \in Sid |-> session'[s].port] = [s \in Sid |-> session[s].port]
  BY DEF Loses
<1>4. Lock!Lose
  BY <1>1, <1>2, <1>3 DEF Lock!Lose
<1> QED
  BY <1>4 DEF LockStep, Lock!Next

\* While a session asks its port is closed.
LEMMA AskersClosed ==
    ASSUME TypeInv, Shape, NEW s \in Sid, Asks(s)
    PROVE  ~bridge[s].open /\ session[s].status # "absent"
<1>1. PICK c \in Conn : /\ handler[c].sid = s
                        /\ handler[c].pc \in {"recover", "expire", "claim", "drop", "open"}
  BY DEF Asks
<1>2. bridge[s].phase = "none" /\ session[s].status # "absent"
  BY <1>1 DEF Shape, HandlersFit, Fits, Making
<1> QED
  BY <1>2 DEF Shape, BridgesSound, Sound

LEMMA LosesPort ==
    ASSUME TypeInv, Shape, NEW s \in Sid,
           session'[s].status = "absent" <=> session[s].status = "absent",
           session'[s].port = session[s].port,
           bridge'[s].open => bridge[s].open,
           bridge'[s].open /\ s \in Undisturbed' => s \in Undisturbed,
           Asks(s)' => Asks(s)
    PROVE  Loses(s)
<1>0. Staged(s) /\ Staged(s)'
  BY Stages, StagesNext
<1>1. CASE session[s].status = "absent"
  BY <1>0, <1>1 DEF Staged, Loses
<1>2. CASE session[s].status # "absent" /\ bridge'[s].open
  BY <1>0, <1>2 DEF Staged, Loses
<1>3. CASE session[s].status # "absent" /\ ~bridge'[s].open
  <2>1. StageOf(s)' = IF Asks(s)' THEN "asking" ELSE "over"
    BY <1>0, <1>3 DEF Staged
  <2>2. CASE Asks(s)'
    BY <1>0, <1>3, <2>1, <2>2, AskersClosed DEF Staged, Loses
  <2>3. CASE ~Asks(s)'
    BY <1>0, <1>3, <2>1, <2>3 DEF Staged, Loses
  <2> QED
    BY <2>2, <2>3
<1> QED
  BY <1>1, <1>2, <1>3

\* What one request does to its session, and a step to its bridge, leaves the
\* other sessions where they are.
LEMMA OthersStay ==
    ASSUME NEW c \in Conn, NEW s \in Sid,
           \A d \in Conn \ {c} : handler'[d] = handler[d],
           handler[c].pc \in Owning => handler[c].sid = s,
           handler'[c].pc \in Owning => handler'[c].sid = s,
           \A t \in Sid \ {s} : bridge'[t] = bridge[t] /\ session'[t] = session[t],
           lapsed' = lapsed
    PROVE  \A t \in Sid \ {s} : StageOf(t)' = StageOf(t)
<1> SUFFICES ASSUME NEW t \in Sid \ {s} PROVE StageOf(t)' = StageOf(t)
  OBVIOUS
<1>1. Asks(t)' <=> Asks(t)
  BY DEF Asks, Owning, Making
<1>2. t \in Undisturbed' <=> t \in Undisturbed
  BY DEF Undisturbed
<1>3. Staged(t) /\ Staged(t)'
  BY Stages, StagesNext
<1> QED
  BY <1>1, <1>2, <1>3 DEF Staged

\* A step in which no request becomes or changes an owner, and threads move
\* bridges on and end sessions.
LEMMA ThreadsKeep ==
    ASSUME TypeInv, TypeInv', Shape,
           \A s \in Sid : Moved(bridge[s], bridge'[s]),
           \A s \in Sid : /\ session'[s].status = "absent" <=> session[s].status = "absent"
                          /\ session'[s].port = session[s].port,
           \A c \in Conn :
              /\ handler'[c].pc \in Owning =>
                    /\ handler'[c].sid = handler[c].sid
                    /\ \/ handler'[c].pc = handler[c].pc
                       \/ handler[c].pc \in Unclaimed /\ handler'[c].pc \in Unclaimed
                       \/ handler[c].pc \in Making \ {"attach"} /\ handler'[c].pc = "fail"
              /\ handler'[c].pc # "ready" => handler[c].pc # "ready" \/ NoneRuns(c),
           \A s \in Undisturbed' :
              bridge'[s].open \/ (bridge[s].phase = "none" /\ session[s].status # "absent") =>
              /\ s \in Undisturbed
              /\ \A p \in Port : lease[p].sid = s => lease'[p].sid = s,
           \A s \in Sid : Leased(s)' => Leased(s)
    PROVE  Shape' /\ LockStep
<1>0. /\ bridge \in [Sid -> BridgeState] /\ bridge' \in [Sid -> BridgeState]
      /\ handler \in [Conn -> HandlerState] /\ handler' \in [Conn -> HandlerState]
      /\ \A c \in Conn : handler[c].pc \in Owning => handler[c].sid \in Sid
      /\ None \notin Conn
  BY TopologyAssumption DEF TypeInv, TypeOK, SidKnown, Owning
<1>1. BridgesSound'
  BY DEF BridgesSound, Moved
<1>2. RowsFit'
  BY DEF Shape, RowsFit, RowFits, Moved
<1>3. HandlersFit'
  <2> SUFFICES ASSUME NEW c \in Conn PROVE Fits(c)'
    BY DEF HandlersFit
  <2> DEFINE s == handler[c].sid
  <2>1. Fits(c)
    BY DEF Shape, HandlersFit
  <2>2. CASE handler'[c].pc \notin Owning
    BY <2>2 DEF Fits, Owning, Making
  <2>3. CASE handler'[c].pc \in Owning
    <3>1. handler'[c].sid = s
      BY <2>3
    <3>2. \/ handler'[c].pc = handler[c].pc
          \/ handler[c].pc \in Unclaimed /\ handler'[c].pc \in Unclaimed
          \/ handler[c].pc \in Making \ {"attach"} /\ handler'[c].pc = "fail"
      BY <2>3
    <3>3. s \in Sid
      BY <1>0, <2>3, <3>2 DEF Owning, Unclaimed, Making
    <3>4. bridge[s].phase \in {"none", "opened", "held"}
      BY <2>1, <2>3, <3>2 DEF Fits, Owning, Making, Unclaimed
    <3>5. bridge'[s].phase = bridge[s].phase /\ bridge'[s].proc = bridge[s].proc
      BY <3>3, <3>4 DEF Moved
    <3>6. session'[s].status = "absent" <=> session[s].status = "absent"
      BY <3>3
    <3> QED
      BY <2>1, <3>1, <3>2, <3>5, <3>6 DEF Fits, Making, Unclaimed
  <2> QED
    BY <2>2, <2>3
<1>4. RequestsAlone'
  <2> SUFFICES ASSUME NEW c \in Conn, handler'[c].pc # "ready", NEW s \in Sid,
                      bridge'[s].phase = "active", bridge'[s].conn = c
               PROVE  ~bridge'[s].running
    BY DEF RequestsAlone, NoneRuns
  <2>1. NoneRuns(c)
    BY DEF Shape, RequestsAlone
  <2> QED
    BY <1>0, <2>1 DEF NoneRuns, Moved
<1>5. SoleOwner'
  <2>1. \A c \in Conn, s \in Sid : OwnerOf(c, s)' => OwnerOf(c, s)
    BY DEF OwnerOf, Owning, Making, Unclaimed
  <2> QED
    BY <2>1 DEF Shape, SoleOwner
<1>6. LeaseKept'
  <2> SUFFICES ASSUME NEW s \in Undisturbed', MayOpen(s)'
               PROVE  lease'[session'[s].port].sid = s
    BY DEF LeaseKept
  <2>1. s \in Sid
    BY DEF Undisturbed
  <2>2. /\ MayOpen(s)
        /\ bridge'[s].open \/ (bridge[s].phase = "none" /\ session[s].status # "absent")
    <3>1. CASE bridge'[s].open
      BY <2>1, <3>1 DEF MayOpen, Moved
    <3>2. CASE \E c \in Conn : handler'[c].pc = "open" /\ handler'[c].sid = s
      <4>1. PICK c \in Conn : handler'[c].pc = "open" /\ handler'[c].sid = s
        BY <3>2
      <4>2. handler[c].pc = "open" /\ handler[c].sid = s
        BY <4>1 DEF Owning, Making, Unclaimed
      <4> QED
        BY <4>2 DEF MayOpen, Shape, HandlersFit, Fits, Making
    <3> QED
      BY <3>1, <3>2 DEF MayOpen
  <2>3. s \in Undisturbed /\ \A p \in Port : lease[p].sid = s => lease'[p].sid = s
    BY <2>2
  <2>4. lease[session[s].port].sid = s
    BY <2>2, <2>3 DEF Shape, LeaseKept
  <2>5. session[s].port \in Port
    <3>1. bridge[s].open => bridge[s].phase # "none"
      BY <2>1 DEF Shape, BridgesSound, Sound
    <3>2. ~bridge[s].open => session[s].status # "absent"
      BY <2>2 DEF MayOpen, Shape, HandlersFit, Fits, Making
    <3> QED
      BY <2>1, <3>1, <3>2 DEF Shape, RowsFit, RowFits
  <2> QED
    BY <2>1, <2>3, <2>4, <2>5
<1>7. LeasedFit'
  <2> SUFFICES ASSUME NEW s \in Sid, Leased(s)'
               PROVE  /\ session'[s].status # "absent"
                      /\ \A c \in Conn : handler'[c].sid = s => handler'[c].pc \notin Unclaimed
    BY DEF LeasedFit
  <2>1. /\ session[s].status # "absent"
        /\ \A c \in Conn : handler[c].sid = s => handler[c].pc \notin Unclaimed
    BY DEF Shape, LeasedFit
  <2> QED
    BY <2>1 DEF Owning, Making, Unclaimed
<1>8. LockStep
  <2>1. ASSUME NEW s \in Sid PROVE Loses(s)
    <3>1. Asks(s)' => Asks(s)
      BY DEF Asks, Owning, Making, Unclaimed
    <3>2. bridge'[s].open => bridge[s].open
      BY DEF Moved
    <3>3. bridge'[s].open /\ s \in Undisturbed' => s \in Undisturbed
      OBVIOUS
    <3> QED
      BY <3>1, <3>2, <3>3, LosesPort
  <2> QED
    BY <2>1, AllLose
<1> QED
  BY <1>1, <1>2, <1>3, <1>4, <1>5, <1>6, <1>7, <1>8 DEF Shape

\* A step of request c on session s, of which it is or becomes the only owner.
LEMMA OwnerKeeps ==
    ASSUME TypeInv, TypeInv', Shape, NEW c \in Conn, NEW s \in Sid,
           \A d \in Conn \ {c} : handler'[d] = handler[d] /\ ~OwnerOf(d, s),
           handler'[c].pc \in Owning => handler'[c].sid = s,
           Fits(c)',
           Sound(bridge'[s]), RowFits(s)',
           bridge'[s].phase = "active" =>
              \/ bridge'[s].conn = c /\ handler'[c].pc = "ready"
              \/ bridge'[s].conn = None,
           handler[c].pc # "ready",
           \A t \in Sid \ {s} : /\ Moved(bridge[t], bridge'[t])
                                /\ session'[t] = session[t],
           \A t \in Undisturbed' \ {s} :
              t \in Undisturbed /\ \A p \in Port : lease[p].sid = t => lease'[p].sid = t,
           s \in Undisturbed' /\ MayOpen(s)' => lease'[session'[s].port].sid = s,
           \A t \in Sid \ {s} : Leased(t)' => Leased(t),
           Leased(s)' => session'[s].status # "absent" /\ handler'[c].pc \notin Unclaimed
    PROVE  Shape' /\ \A t \in Sid \ {s} : Loses(t)
<1>0. /\ bridge \in [Sid -> BridgeState] /\ bridge' \in [Sid -> BridgeState]
      /\ handler \in [Conn -> HandlerState] /\ handler' \in [Conn -> HandlerState]
      /\ \A d \in Conn : handler[d].pc \in Owning => handler[d].sid \in Sid
      /\ None \notin Conn
  BY TopologyAssumption DEF TypeInv, TypeOK, SidKnown, Owning
<1>1. BridgesSound'
  BY DEF BridgesSound, Moved
<1>2. RowsFit'
  BY DEF Shape, RowsFit, RowFits, Moved
<1>3. HandlersFit'
  <2> SUFFICES ASSUME NEW d \in Conn \ {c} PROVE Fits(d)'
    BY DEF HandlersFit
  <2> DEFINE t == handler[d].sid
  <2>1. Fits(d) /\ handler'[d] = handler[d]
    BY DEF Shape, HandlersFit
  <2>2. CASE handler[d].pc \notin Owning
    BY <2>1, <2>2 DEF Fits, Owning, Making
  <2>3. CASE handler[d].pc \in Owning
    <3>1. t \in Sid \ {s}
      BY <1>0, <2>3 DEF OwnerOf
    <3>2. bridge[t].phase \in {"none", "opened", "held"}
      BY <2>1, <2>3 DEF Fits, Owning, Making
    <3>3. bridge'[t].phase = bridge[t].phase /\ bridge'[t].proc = bridge[t].proc
      BY <3>1, <3>2 DEF Moved
    <3> QED
      BY <2>1, <3>1, <3>3 DEF Fits
  <2> QED
    BY <2>2, <2>3
<1>4. RequestsAlone'
  <2> SUFFICES ASSUME NEW d \in Conn, handler'[d].pc # "ready", NEW t \in Sid,
                      bridge'[t].phase = "active", bridge'[t].conn = d
               PROVE  ~bridge'[t].running
    BY DEF RequestsAlone, NoneRuns
  <2>1. NoneRuns(d)
    BY DEF Shape, RequestsAlone
  <2>2. t # s
    BY <1>0
  <2> QED
    BY <1>0, <2>1, <2>2 DEF NoneRuns, Moved
<1>5. SoleOwner'
  <2>1. \A d \in Conn \ {c}, t \in Sid : OwnerOf(d, t)' => OwnerOf(d, t) /\ t # s
    BY DEF OwnerOf
  <2>2. \A t \in Sid : OwnerOf(c, t)' => t = s
    BY DEF OwnerOf
  <2> QED
    BY <2>1, <2>2 DEF Shape, SoleOwner
<1>6. LeaseKept'
  <2> SUFFICES ASSUME NEW t \in Undisturbed' \ {s}, MayOpen(t)'
               PROVE  lease'[session'[t].port].sid = t
    BY DEF LeaseKept
  <2>1. t \in Sid \ {s}
    BY DEF Undisturbed
  <2>2. MayOpen(t)
    <3>1. CASE bridge'[t].open
      BY <2>1, <3>1 DEF MayOpen, Moved
    <3>2. CASE \E d \in Conn : handler'[d].pc = "open" /\ handler'[d].sid = t
      BY <2>1, <3>2 DEF MayOpen, Owning, Making
    <3> QED
      BY <3>1, <3>2 DEF MayOpen
  <2>3. t \in Undisturbed /\ \A p \in Port : lease[p].sid = t => lease'[p].sid = t
    OBVIOUS
  <2>4. lease[session[t].port].sid = t
    BY <2>2, <2>3 DEF Shape, LeaseKept
  <2>5. session[t].port \in Port
    <3>1. bridge[t].open => bridge[t].phase # "none"
      BY <2>1 DEF Shape, BridgesSound, Sound
    <3>2. ~bridge[t].open => session[t].status # "absent"
      BY <2>2 DEF MayOpen, Shape, HandlersFit, Fits, Making
    <3> QED
      BY <2>1, <3>1, <3>2 DEF Shape, RowsFit, RowFits
  <2> QED
    BY <2>1, <2>3, <2>4, <2>5
<1>7. LeasedFit'
  <2>1. ASSUME NEW t \in Sid \ {s}, Leased(t)'
        PROVE  /\ session'[t].status # "absent"
               /\ \A d \in Conn : handler'[d].sid = t => handler'[d].pc \notin Unclaimed
    <3>1. /\ session[t].status # "absent"
          /\ \A d \in Conn : handler[d].sid = t => handler[d].pc \notin Unclaimed
      BY <2>1 DEF Shape, LeasedFit
    <3>2. handler'[c].sid = t => handler'[c].pc \notin Unclaimed
      BY DEF Owning, Making, Unclaimed
    <3> QED
      BY <3>1, <3>2
  <2>2. ASSUME Leased(s)'
        PROVE  /\ session'[s].status # "absent"
               /\ \A d \in Conn : handler'[d].sid = s => handler'[d].pc \notin Unclaimed
    BY <2>2 DEF OwnerOf, Owning, Making, Unclaimed
  <2> QED
    BY <2>1, <2>2 DEF LeasedFit
<1>8. ASSUME NEW t \in Sid \ {s} PROVE Loses(t)
  <2>1. Asks(t)' => Asks(t)
    BY DEF Asks, Owning, Making
  <2>2. bridge'[t].open => bridge[t].open
    BY DEF Moved
  <2> QED
    BY <2>1, <2>2, LosesPort
<1> QED
  BY <1>1, <1>2, <1>3, <1>4, <1>5, <1>6, <1>7, <1>8 DEF Shape

\* Only bridges change.
LEMMA BridgesKeep ==
    ASSUME TypeInv, TypeInv', Shape, UNCHANGED <<session, lease, lapsed>>,
           \A s \in Sid : Moved(bridge[s], bridge'[s]),
           \A c \in Conn : /\ handler'[c].pc = handler[c].pc
                           /\ handler'[c].sid = handler[c].sid
                           /\ handler'[c].ends = handler[c].ends
    PROVE  Shape' /\ LockStep
<1>1. Undisturbed' = Undisturbed
  BY DEF Undisturbed
<1>2. \A s \in Sid : Leased(s)' => Leased(s)
  BY DEF Leased
<1> QED
  BY <1>1, <1>2, ThreadsKeep

\* Only a handler moves on, between points where it owns the same.
LEMMA HandlersKeep ==
    ASSUME TypeInv, TypeInv', Shape, UNCHANGED <<session, lease, lapsed, bridge>>,
           NEW c \in Conn,
           \A d \in Conn \ {c} : handler'[d] = handler[d],
           handler'[c].pc \in Owning =>
              /\ handler'[c].sid = handler[c].sid
              /\ \/ handler'[c].pc = handler[c].pc
                 \/ handler[c].pc \in Unclaimed /\ handler'[c].pc \in Unclaimed
                 \/ handler[c].pc \in Making \ {"attach"} /\ handler'[c].pc = "fail",
           handler'[c].pc # "ready" => handler[c].pc # "ready" \/ NoneRuns(c),
           \A s \in handler'[c].ends : Leased(s)
    PROVE  Shape' /\ LockStep
<1>1. Undisturbed' = Undisturbed
  BY DEF Undisturbed
<1>2. \A s \in Sid : Leased(s)' => Leased(s)
  BY DEF Leased
<1>3. \A s \in Sid : Moved(bridge[s], bridge'[s])
  BY StaysMoved DEF Shape, BridgesSound
<1> QED
  BY <1>1, <1>2, <1>3, ThreadsKeep

LEMMA StopMoves ==
    ASSUME TypeInv, Shape, NEW c, NEW r, StopAt(c, r)
    PROVE  \A s \in Sid : Moved(bridge[s], bridge'[s])
<1> SUFFICES ASSUME NEW s \in Sid PROVE Moved(bridge[s], bridge'[s])
  OBVIOUS
<1>0. bridge[s] \in BridgeState /\ Sound(bridge[s])
  BY DEF TypeInv, TypeOK, Shape, BridgesSound
<1>1. CASE s \in AtConn(c)
  <2>1. bridge'[s] = Popped(bridge[s], r) /\ bridge[s].phase = "active"
    BY <1>1 DEF StopAt, AtConn
  <2>2. /\ Popped(bridge[s], r).phase = "closing"
        /\ Popped(bridge[s], r).open = bridge[s].open
        /\ Popped(bridge[s], r).reader = bridge[s].reader
    BY <1>0 DEF Popped, BridgeState
  <2> QED
    BY <1>0, <2>1, <2>2 DEF Moved, Sound
<1>2. CASE s \notin AtConn(c)
  <2>1. bridge'[s] = bridge[s]
    BY <1>2 DEF StopAt
  <2> QED
    BY <1>0, <2>1, StaysMoved
<1> QED
  BY <1>1, <1>2

LEMMA RetiredFacts ==
    ASSUME NEW b \in BridgeState
    PROVE  /\ Retired(b).phase = "none" /\ Retired(b).open = b.open
           /\ Retired(b).reader = b.reader
  BY DEF Retired, NoBridge

\* What end_session does to every row and lease.
LEMMA EndSessionEffect ==
    ASSUME TypeInv, NEW s \in Sid, NEW r \in Reason, EndSession(s, r)
    PROVE  /\ \A t \in Sid \ {s} : session'[t] = session[t]
           /\ \A t \in Sid : /\ session'[t].status = "absent" <=> session[t].status = "absent"
                             /\ session'[t].port = session[t].port
           /\ session[s].status # "absent" => session'[s].reason = r
           /\ session[s].status = "absent" => session'[s] = session[s]
           /\ \A p \in Port : lease'[p].sid = IF lease[p].sid = s THEN 0 ELSE lease[p].sid
<1>0. session \in [Sid -> SessionRow] /\ session[s] \in SessionRow
  BY DEF TypeInv, TypeOK
<1>1. \A p \in Port : lease'[p].sid = IF lease[p].sid = s THEN 0 ELSE lease[p].sid
  BY NoLeaseType DEF EndSession
<1>2. CASE session[s].status = "absent"
  BY <1>1, <1>2 DEF EndSession
<1>3. CASE session[s].status # "absent"
  <2> DEFINE row == [session[s] EXCEPT !.status = "disconnected", !.reason = r]
  <2>1. row.status = "disconnected" /\ row.reason = r /\ row.port = session[s].port
    BY <1>0 DEF SessionRow
  <2>2. session' = [session EXCEPT ![s] = row]
    BY <1>0, <1>3 DEF EndSession
  <2> HIDE DEF row
  <2> QED
    BY <1>0, <1>1, <1>3, <2>1, <2>2
<1> QED
  BY <1>2, <1>3

LEMMA ShapeInit == Init => Shape
<1> SUFFICES ASSUME Init PROVE Shape
  OBVIOUS
<1>1. \A s \in Sid : /\ bridge[s].phase = "none" /\ ~bridge[s].open
                     /\ bridge[s].reader = "off" /\ session[s].status = "absent"
  BY NoSessionType DEF Init, NoBridge
<1>2. \A c \in Conn : handler[c].pc = "ready" /\ handler[c].ends = {}
  BY DEF Init, Down
<1>3. \A p \in Port : lease[p].sid = 0
  BY NoLeaseType DEF Init
<1>4. BridgesSound /\ RowsFit
  BY <1>1 DEF BridgesSound, Sound, RowsFit, RowFits
<1>5. HandlersFit /\ RequestsAlone /\ SoleOwner
  BY <1>2 DEF HandlersFit, Fits, RequestsAlone, SoleOwner, OwnerOf, Owning, Making
<1>6. LeaseKept
  BY <1>1, <1>2 DEF LeaseKept, MayOpen, Undisturbed
<1>7. LeasedFit
  BY <1>2, <1>3, Zeros DEF LeasedFit, Leased
<1> QED
  BY <1>4, <1>5, <1>6, <1>7 DEF Shape

LEMMA ClientShape ==
    ASSUME TypeInv, TypeInv', Shape, NEW c \in Conn, Client(c)
    PROVE  Shape' /\ LockStep
<1>0. /\ bridge \in [Sid -> BridgeState] /\ handler \in [Conn -> HandlerState]
      /\ \A s \in Sid : Sound(bridge[s]) /\ Moved(bridge[s], bridge[s])
  BY StaysMoved DEF TypeInv, TypeOK, Shape, BridgesSound
<1>1. CASE Connect(c)
  <2>1. \A s \in Sid : Moved(bridge[s], bridge'[s])
    <3> SUFFICES ASSUME NEW s \in Sid PROVE Moved(bridge[s], bridge'[s])
      OBVIOUS
    <3>1. bridge'[s] = bridge[s] \/ bridge'[s] = [bridge[s] EXCEPT !.conn = None]
      BY <1>1 DEF Connect
    <3>2. Moved(bridge[s], [bridge[s] EXCEPT !.conn = None])
      BY <1>0 DEF Moved, Sound, BridgeState
    <3> QED
      BY <1>0, <3>1, <3>2
  <2>2. \A d \in Conn : /\ handler'[d].pc = handler[d].pc
                        /\ handler'[d].sid = handler[d].sid
                        /\ handler'[d].ends = handler[d].ends
    BY <1>0, <1>1 DEF Connect, HandlerState
  <2> QED
    BY <1>1, <2>1, <2>2, BridgesKeep DEF Connect
<1>2. CASE Disconnect(c)
  <2>1. \A s \in Sid : Moved(bridge[s], bridge'[s])
    <3> SUFFICES ASSUME NEW s \in Sid PROVE Moved(bridge[s], bridge'[s])
      OBVIOUS
    <3> DEFINE b == [bridge[s] EXCEPT !.phase = "suspended", !.conn = None,
                                      !.running = TRUE, !.idle = 0, !.away = 0]
    <3>1. bridge'[s] = bridge[s] \/ (bridge[s].phase = "active" /\ bridge'[s] = b)
      BY <1>2 DEF Disconnect, AtConn
    <3>2. /\ b.phase = "suspended" /\ b.running = TRUE /\ b.open = bridge[s].open
          /\ b.reader = bridge[s].reader
      BY <1>0 DEF BridgeState
    <3> HIDE DEF b
    <3>3. bridge[s].phase = "active" => Moved(bridge[s], b)
      BY <1>0, <3>2 DEF Moved, Sound
    <3> QED
      BY <1>0, <3>1, <3>3
  <2>2. \A d \in Conn : /\ handler'[d].pc = handler[d].pc
                        /\ handler'[d].sid = handler[d].sid
                        /\ handler'[d].ends = handler[d].ends
    BY <1>0, <1>2 DEF Disconnect, HandlerState
  <2> QED
    BY <1>2, <2>1, <2>2, BridgesKeep DEF Disconnect
<1>3. CASE ClientDisconnect(c)
  BY <1>3, StopMoves, BridgesKeep DEF ClientDisconnect
<1>4. CASE Request(c)
  <2>1. handler'[c].pc \in {"resume", "quota"} /\ handler'[c].ends = handler[c].ends
    <3>1. CASE GoOn(c, "quota")
      BY <1>0, <3>1 DEF GoOn, HandlerState
    <3>2. CASE \E s \in ActiveOf(UserOf[c]) :
                 handler' = [handler EXCEPT ![c].pc = "resume", ![c].sid = s]
      BY <1>0, <3>2 DEF HandlerState
    <3> QED
      BY <1>4, <3>1, <3>2 DEF Request
  <2>2. \A d \in Conn \ {c} : handler'[d] = handler[d]
    BY <1>0, <1>4 DEF Request, GoOn
  <2>3. NoneRuns(c)
    BY <1>4 DEF Request, NoneRuns, AtConn
  <2>4. \A s \in handler'[c].ends : Leased(s)
    BY <2>1 DEF Leased
  <2> QED
    BY <1>4, <2>1, <2>2, <2>3, <2>4, HandlersKeep DEF Request, Owning, Making
<1>5. ASSUME NEW s \in Sid, bridge' = [bridge EXCEPT ![s].idle = 0]
      PROVE  \A t \in Sid : Moved(bridge[t], bridge'[t])
  <2>1. Moved(bridge[s], [bridge[s] EXCEPT !.idle = 0])
    BY <1>0 DEF Moved, Sound, BridgeState
  <2>2. \A t \in Sid : bridge'[t] = IF t = s THEN [bridge[s] EXCEPT !.idle = 0] ELSE bridge[t]
    BY <1>0, <1>5
  <2> QED
    BY <1>0, <2>1, <2>2
<1>6. CASE Input(c)
  <2>1. \E s \in Sid : bridge' = [bridge EXCEPT ![s].idle = 0]
    BY <1>6 DEF Input, AtConn
  <2> QED
    BY <1>5, <1>6, <2>1, BridgesKeep DEF Input
<1>7. CASE Heartbeat(c)
  <2>1. PICK s \in Sid :
          /\ bridge' = [bridge EXCEPT ![s].idle = 0]
          /\ lease' = [p \in Port |->
                         IF lease[p].sid = s
                         THEN [lease[p] EXCEPT !.left = LeaseTicks]
                         ELSE lease[p]]
    BY <1>7 DEF Heartbeat, AtConn
  <2>2. \A t \in Sid : Moved(bridge[t], bridge'[t])
    BY <1>5, <2>1
  <2>3. \A p \in Port : lease'[p].sid = lease[p].sid
    BY <2>1 DEF TypeInv, TypeOK, LeaseRow
  <2>4. UNCHANGED <<session, handler, lapsed>>
    BY <1>7 DEF Heartbeat
  <2>5. Undisturbed' = Undisturbed /\ \A t \in Sid : Leased(t)' => Leased(t)
    BY <2>3, <2>4 DEF Undisturbed, Leased
  <2> QED
    BY <2>2, <2>3, <2>4, <2>5, ThreadsKeep
<1> QED
  BY <1>1, <1>2, <1>3, <1>4, <1>6, <1>7 DEF Client

LEMMA BridgeThreadShape ==
    ASSUME TypeInv, TypeInv', Shape, NEW s \in Sid, Teardown(s) \/ Reader(s)
    PROVE  Shape' /\ LockStep
<1>0. /\ bridge \in [Sid -> BridgeState] /\ handler \in [Conn -> HandlerState]
      /\ bridge[s] \in BridgeState /\ Sound(bridge[s])
      /\ \A t \in Sid : Moved(bridge[t], bridge[t])
  BY StaysMoved DEF TypeInv, TypeOK, Shape, BridgesSound
<1>1. ASSUME NEW b, Moved(bridge[s], b), bridge' = [bridge EXCEPT ![s] = b]
      PROVE  \A t \in Sid : Moved(bridge[t], bridge'[t])
  BY <1>0, <1>1
<1>2. CASE CloseStopped(s)
  <2> DEFINE b == [bridge[s] EXCEPT !.phase = "ending", !.open = FALSE]
  <2>1. bridge[s].phase = "closing" /\ bridge' = [bridge EXCEPT ![s] = b]
    BY <1>0, <1>2 DEF CloseStopped, Closed
  <2>2. b.phase = "ending" /\ b.open = FALSE
    BY <1>0 DEF BridgeState
  <2> HIDE DEF b
  <2>3. Moved(bridge[s], b)
    BY <2>1, <2>2 DEF Moved, Sound
  <2> QED
    BY <1>1, <1>2, <2>1, <2>3, BridgesKeep DEF CloseStopped
<1>3. CASE EndStopped(s)
  <2>1. /\ bridge[s].phase = "ending" /\ bridge' = [bridge EXCEPT ![s] = Retired(bridge[s])]
        /\ EndSession(s, bridge[s].reason) /\ bridge[s].reason \in Reason
        /\ UNCHANGED <<handler, lapsed>>
    BY <1>0, <1>3 DEF EndStopped, BridgeState
  <2>2. ~bridge[s].open /\ Moved(bridge[s], Retired(bridge[s])) /\ ~Retired(bridge[s]).open
    BY <1>0, <2>1, RetiredFacts DEF Moved, Sound
  <2>3. \A t \in Sid : Moved(bridge[t], bridge'[t])
    BY <1>1, <2>1, <2>2
  <2>4. \A t \in Sid : Leased(t)' => Leased(t)
    BY <2>1, EndSessionEffect, Zeros DEF Leased
  <2>5. \A t \in Undisturbed' :
           bridge'[t].open \/ (bridge[t].phase = "none" /\ session[t].status # "absent") =>
              /\ t \in Undisturbed
              /\ \A p \in Port : lease[p].sid = t => lease'[p].sid = t
    <3> SUFFICES ASSUME NEW t \in Undisturbed',
                        bridge'[t].open \/ bridge[t].phase = "none"
                 PROVE  /\ t \in Undisturbed
                        /\ \A p \in Port : lease[p].sid = t => lease'[p].sid = t
      OBVIOUS
    <3>1. t \in Sid \ {s}
      BY <1>0, <2>1, <2>2 DEF Undisturbed
    <3>2. session'[t] = session[t] /\ \A p \in Port : lease[p].sid = t => lease'[p].sid = t
      BY <2>1, <3>1, EndSessionEffect
    <3> QED
      BY <2>1, <3>1, <3>2 DEF Undisturbed
  <2>6. \A t \in Sid : /\ session'[t].status = "absent" <=> session[t].status = "absent"
                       /\ session'[t].port = session[t].port
    BY <2>1, EndSessionEffect
  <2> QED
    BY <2>1, <2>3, <2>4, <2>5, <2>6, ThreadsKeep
<1>4. CASE ReaderLook(s)
  <2>1. PICK r \in {"read", "off"} :
           bridge' = [bridge EXCEPT ![s] = [bridge[s] EXCEPT !.reader = r]]
    BY <1>0, <1>4 DEF ReaderLook
  <2>2. Moved(bridge[s], [bridge[s] EXCEPT !.reader = r])
    BY <1>0 DEF Moved, Sound, BridgeState
  <2> QED
    BY <1>1, <1>4, <2>1, <2>2, BridgesKeep DEF ReaderLook
<1>5. CASE ReaderReads(s)
  <2>1. PICK i \in {0, bridge[s].idle} :
           bridge' = [bridge EXCEPT ![s] = [bridge[s] EXCEPT !.reader = "look", !.idle = i]]
    BY <1>0, <1>5 DEF ReaderReads
  <2>2. Moved(bridge[s], [bridge[s] EXCEPT !.reader = "look", !.idle = i])
    BY <1>0 DEF Moved, Sound, BridgeState
  <2> QED
    BY <1>1, <1>5, <2>1, <2>2, BridgesKeep DEF ReaderReads
<1>6. ASSUME GivesUp(s), UNCHANGED <<session, lease, lapsed, handler>> PROVE Shape' /\ LockStep
  <2> DEFINE b == [bridge[s] EXCEPT !.reader = "remove", !.running = FALSE, !.open = FALSE]
  <2>1. bridge' = [bridge EXCEPT ![s] = b]
    BY <1>0, <1>6 DEF GivesUp, Closed
  <2>2. /\ b.phase = bridge[s].phase /\ b.proc = bridge[s].proc /\ b.conn = bridge[s].conn
        /\ b.running = FALSE /\ b.open = FALSE
    BY <1>0 DEF BridgeState
  <2> HIDE DEF b
  <2>3. Moved(bridge[s], b)
    BY <2>2 DEF Moved, Sound
  <2> QED
    BY <1>1, <1>6, <2>1, <2>3, BridgesKeep
<1>7. CASE ReaderEndedElsewhere(s) \/ ReaderError(s)
  BY <1>6, <1>7 DEF ReaderEndedElsewhere, ReaderError
<1>8. CASE ReaderRemove(s)
  <2> DEFINE b == [bridge[s] EXCEPT !.reader = "off"]
  <2>1. /\ bridge[s].reader = "remove"
        /\ bridge' = [bridge EXCEPT ![s] = IF b.phase \in Registered THEN Retired(b) ELSE b]
    BY <1>8 DEF ReaderRemove
  <2>2. /\ b \in BridgeState /\ b.phase = bridge[s].phase /\ b.proc = bridge[s].proc
        /\ b.conn = bridge[s].conn /\ b.running = bridge[s].running
        /\ b.open = bridge[s].open /\ b.reader = "off"
    BY <1>0 DEF BridgeState
  <2> HIDE DEF b
  <2>3. ~b.open
    BY <1>0, <2>1, <2>2 DEF Sound
  <2>4. Moved(bridge[s], b)
    BY <2>2, <2>3 DEF Moved, Sound
  <2>5. b.phase \in Registered => Moved(bridge[s], Retired(b))
    BY <2>2, <2>3, RetiredFacts DEF Moved, Sound, Registered
  <2> QED
    BY <1>1, <1>8, <2>1, <2>4, <2>5, BridgesKeep DEF ReaderRemove
<1>9. CASE EndFails(s)
  <2>1. /\ bridge[s].phase = "ending" /\ bridge' = [bridge EXCEPT ![s] = Retired(bridge[s])]
        /\ UNCHANGED <<session, lease, handler, lapsed>>
    BY <1>9 DEF EndFails
  <2>2. Moved(bridge[s], Retired(bridge[s]))
    BY <1>0, <2>1, RetiredFacts DEF Moved, Sound
  <2> QED
    BY <1>1, <2>1, <2>2, BridgesKeep
<1> QED
  BY <1>2, <1>3, <1>4, <1>5, <1>7, <1>8, <1>9 DEF Teardown, Reader

LEMMA TickShape == ASSUME TypeInv, TypeInv', Shape, Tick PROVE Shape' /\ LockStep
<1>0. /\ bridge \in [Sid -> BridgeState] /\ lease \in [Port -> LeaseRow]
      /\ \A s \in Sid : Sound(bridge[s])
  BY DEF TypeInv, TypeOK, Shape, BridgesSound
<1>1. /\ lease' = [p \in Port |-> IF lease[p].left > 0
                                   THEN [lease[p] EXCEPT !.left = @ - 1]
                                   ELSE lease[p]]
      /\ bridge' = [s \in Sid |-> Aged(bridge[s])]
      /\ lapsed \subseteq lapsed' /\ UNCHANGED <<session, handler>>
  BY DEF Tick
<1>2. \A s \in Sid : Moved(bridge[s], bridge'[s])
  <2> SUFFICES ASSUME NEW s \in Sid PROVE Moved(bridge[s], Aged(bridge[s]))
    BY <1>1
  <2>1. bridge[s] \in BridgeState
    BY <1>0
  <2>2. /\ Aged(bridge[s]).phase = bridge[s].phase /\ Aged(bridge[s]).proc = bridge[s].proc
        /\ Aged(bridge[s]).conn = bridge[s].conn
        /\ Aged(bridge[s]).running = bridge[s].running
        /\ Aged(bridge[s]).open = bridge[s].open
        /\ Aged(bridge[s]).reader = bridge[s].reader
    BY <2>1 DEF Aged, BridgeState
  <2> QED
    BY <1>0, <2>2 DEF Moved, Sound
<1>3. \A p \in Port : lease'[p].sid = lease[p].sid
  BY <1>0, <1>1 DEF LeaseRow
<1>4. Undisturbed' \subseteq Undisturbed /\ \A s \in Sid : Leased(s)' => Leased(s)
  BY <1>1, <1>3 DEF Undisturbed, Leased
<1> QED
  BY <1>1, <1>2, <1>3, <1>4, ThreadsKeep

LEMMA ProcessShape ==
    ASSUME TypeInv, TypeInv', Shape, NEW p \in Proc,
           \/ Monitor(p) \/ Cleaner(p) \/ ForceContinue(p) \/ Restart(p) \/ Startup(p)
           \/ \E s \in Sid : ForceFind(p, s)
    PROVE  Shape' /\ LockStep
<1>0. /\ bridge \in [Sid -> BridgeState] /\ handler \in [Conn -> HandlerState]
      /\ session \in [Sid -> SessionRow] /\ lease \in [Port -> LeaseRow]
      /\ abandoned \in [Proc -> SUBSET Sid]
      /\ admin[p].pc # "idle" => admin[p].sid \in Sid
      /\ \A t \in Sid : Sound(bridge[t]) /\ Moved(bridge[t], bridge[t])
  BY StaysMoved DEF TypeInv, TypeOK, AdminKnown, Shape, BridgesSound
<1>1. ASSUME UNCHANGED <<session, lease, lapsed, handler, bridge>> PROVE Shape' /\ LockStep
  BY <1>0, <1>1, BridgesKeep
<1>2. CASE \/ MonitorScan(p) \/ CleanerScan(p) \/ ForceSuspended(p)
           \/ \E s \in Sid : ForceFind(p, s)
  BY <1>1, <1>2 DEF MonitorScan, CleanerScan, ForceSuspended, ForceFind
<1>3. CASE MonitorStop(p)
  BY <1>3, StopMoves, BridgesKeep DEF MonitorStop
<1>4. CASE CleanerStop(p)
  <2>1. PICK s \in Sid :
          bridge' = IF s \in SuspendedIn(p)
                    THEN [bridge EXCEPT ![s] = Popped(bridge[s], "user_disconnect")]
                    ELSE bridge
    BY <1>0, <1>4 DEF CleanerStop
  <2> DEFINE b == Popped(bridge[s], "user_disconnect")
  <2>2. b.phase = "closing" /\ b.open = bridge[s].open /\ b.reader = bridge[s].reader
    BY <1>0 DEF Popped, BridgeState
  <2>3. s \in SuspendedIn(p) => Moved(bridge[s], b)
    BY <1>0, <2>2 DEF Moved, Sound, SuspendedIn
  <2> HIDE DEF b
  <2>4. \A t \in Sid : Moved(bridge[t], bridge'[t])
    BY <1>0, <2>1, <2>3 DEF b
  <2> QED
    BY <1>4, <2>4, BridgesKeep DEF CleanerStop
<1>5. CASE ForceStop(p)
  BY <1>5, StopMoves, BridgesKeep DEF ForceStop
<1>6. CASE ForceClose(p)
  <2> DEFINE s == admin[p].sid
             b == [bridge[s] EXCEPT !.running = FALSE, !.open = FALSE]
  <2>1. /\ s \in Sid
        /\ bridge' = [bridge EXCEPT ![s] = IF b.phase \in Registered THEN Retired(b) ELSE b]
    BY <1>0, <1>6 DEF ForceClose
  <2>2. /\ b \in BridgeState /\ b.phase = bridge[s].phase /\ b.proc = bridge[s].proc
        /\ b.conn = bridge[s].conn /\ b.running = FALSE /\ b.open = FALSE
        /\ b.reader = bridge[s].reader
    <3>1. bridge[s] \in BridgeState
      BY <1>0, <2>1
    <3>2. b \in BridgeState
      BY <3>1, WrittenBridges
    <3>3. /\ b.phase = bridge[s].phase /\ b.proc = bridge[s].proc
          /\ b.conn = bridge[s].conn /\ b.running = FALSE /\ b.open = FALSE
          /\ b.reader = bridge[s].reader
      BY <3>1 DEF BridgeState
    <3> QED
      BY <3>2, <3>3
  <2> HIDE DEF b
  <2>3. Moved(bridge[s], b)
    BY <2>2 DEF Moved, Sound
  <2>4. b.phase \in Registered => Moved(bridge[s], Retired(b))
    BY <2>2, RetiredFacts DEF Moved, Sound, Registered
  <2>5. \A t \in Sid : Moved(bridge[t], bridge'[t])
    BY <1>0, <2>1, <2>3, <2>4
  <2> QED
    BY <1>6, <2>5, BridgesKeep DEF ForceClose
<1>7. CASE ForceEnd(p)
  <2> DEFINE s == admin[p].sid
  <2>1. s \in Sid /\ EndSession(s, "admin_force") /\ UNCHANGED <<bridge, handler, lapsed>>
    BY <1>0, <1>7 DEF ForceEnd
  <2>2. "admin_force" \in Reason
    BY DEF Reason
  <2> HIDE DEF s
  <2>3. \A t \in Sid : Leased(t)' => Leased(t)
    BY <2>1, <2>2, EndSessionEffect, Zeros DEF Leased
  <2>4. \A t \in Undisturbed' :
           bridge'[t].open \/ (bridge[t].phase = "none" /\ session[t].status # "absent") =>
              /\ t \in Undisturbed
              /\ \A q \in Port : lease[q].sid = t => lease'[q].sid = t
    <3> SUFFICES ASSUME NEW t \in Undisturbed',
                        bridge'[t].open \/ session[t].status # "absent"
                 PROVE  /\ t \in Undisturbed
                        /\ \A q \in Port : lease[q].sid = t => lease'[q].sid = t
      OBVIOUS
    <3>1. session[t].status # "absent" /\ t \in Sid
      BY <1>0, <2>1 DEF Undisturbed, Shape, RowsFit, RowFits, Sound
    <3>2. t # s
      BY <2>1, <2>2, <3>1, EndSessionEffect DEF Undisturbed
    <3> QED
      BY <2>1, <2>2, <3>1, <3>2, EndSessionEffect DEF Undisturbed
  <2>5. \A t \in Sid : /\ session'[t].status = "absent" <=> session[t].status = "absent"
                       /\ session'[t].port = session[t].port
    BY <2>1, <2>2, EndSessionEffect
  <2> QED
    BY <1>0, <2>1, <2>3, <2>4, <2>5, ThreadsKeep
<1>8. CASE Restart(p)
  <2>1. /\ \A t \in Sid : bridge'[t] = IF bridge[t].proc = p THEN NoBridge ELSE bridge[t]
        /\ \A c \in Conn : handler'[c] = IF ProcOf[c] = p THEN Down ELSE handler[c]
        /\ UNCHANGED <<session, lease, lapsed>>
    BY <1>8 DEF Restart
  <2>2. /\ NoBridge.phase = "none" /\ NoBridge.open = FALSE /\ NoBridge.reader = "off"
        /\ Down.pc = "ready" /\ Down.ends = {}
    BY DEF NoBridge, Down
  <2> HIDE DEF Shape
  <2>3. BridgesSound'
    BY <1>0, <2>1, <2>2 DEF BridgesSound, Sound
  <2>4. RowsFit'
    BY <2>1, <2>2 DEF Shape, RowsFit, RowFits
  <2>5. HandlersFit'
    <3> SUFFICES ASSUME NEW c \in Conn PROVE Fits(c)'
      BY DEF HandlersFit
    <3>1. CASE ProcOf[c] = p
      BY <2>1, <2>2, <3>1 DEF Fits, Making
    <3>2. CASE ProcOf[c] # p
      <4> DEFINE s == handler[c].sid
      <4>1. Fits(c) /\ handler'[c] = handler[c] /\ (handler[c].pc \in Owning => s \in Sid)
        BY <2>1, <3>2 DEF Shape, HandlersFit, TypeInv, SidKnown, Owning
      <4>2. CASE handler[c].pc \notin Owning
        BY <4>1, <4>2 DEF Fits, Owning, Making
      <4>3. CASE handler[c].pc \in Making \ {"attach"}
        <5>1. bridge'[s].phase = "none" /\ session'[s].status # "absent"
          BY <2>1, <2>2, <4>1, <4>3 DEF Fits, Owning
        <5> QED
          BY <4>1, <4>3, <5>1 DEF Fits, Making
      <4>4. CASE handler[c].pc \in {"attach", "rejoin"}
        <5>1. bridge'[s] = bridge[s]
          BY <2>1, <3>2, <4>1, <4>4 DEF Fits, Owning, Making
        <5> QED
          BY <2>1, <4>1, <4>4, <5>1 DEF Fits
      <4> QED
        BY <4>2, <4>3, <4>4 DEF Owning
    <3> QED
      BY <3>1, <3>2
  <2>6. RequestsAlone'
    BY <2>1, <2>2 DEF Shape, RequestsAlone, NoneRuns
  <2>7. SoleOwner'
    <3>1. \A c \in Conn, t \in Sid : OwnerOf(c, t)' => OwnerOf(c, t)
      BY <2>1, <2>2 DEF OwnerOf, Owning, Making
    <3> QED
      BY <3>1 DEF Shape, SoleOwner
  <2>8. LeaseKept'
    <3>1. Undisturbed' = Undisturbed
      BY <2>1 DEF Undisturbed
    <3>2. \A t \in Undisturbed : MayOpen(t)' => MayOpen(t)
      BY <2>1, <2>2 DEF MayOpen, Undisturbed
    <3> QED
      BY <2>1, <3>1, <3>2 DEF Shape, LeaseKept
  <2>9. LeasedFit'
    <3>1. \A t \in Sid : Leased(t)' => Leased(t)
      BY <2>1, <2>2 DEF Leased
    <3> QED
      BY <2>1, <2>2, <3>1 DEF Shape, LeasedFit, Unclaimed
  <2>10. LockStep
    <3>1. ASSUME NEW t \in Sid PROVE Loses(t)
      <4>1. Asks(t)' => Asks(t)
        BY <2>1, <2>2 DEF Asks
      <4>2. bridge'[t].open => bridge[t].open
        BY <2>1, <2>2
      <4>3. t \in Undisturbed' => t \in Undisturbed
        BY <2>1 DEF Undisturbed
      <4> QED
        BY <2>1, <4>1, <4>2, <4>3, LosesPort
    <3> QED
      BY <3>1, AllLose
  <2> QED
    BY <2>3, <2>4, <2>5, <2>6, <2>7, <2>8, <2>9, <2>10 DEF Shape
<1>9. CASE StartupLeases(p)
  <2>1. /\ \A q \in Port : lease'[q].sid = 0
        /\ lapsed' = lapsed \cup {lease[q].sid : q \in {q \in Port : Taken(q)}}
        /\ UNCHANGED <<session, bridge, handler>>
    BY <1>9, NoLeaseType DEF StartupLeases
  <2>2. \A t \in Sid : Leased(t)' => Leased(t)
    BY <2>1, Zeros DEF Leased
  <2>3. \A t \in Undisturbed' :
           t \in Undisturbed /\ \A q \in Port : lease[q].sid = t => lease'[q].sid = t
    BY <2>1, Zeros DEF Undisturbed, Taken
  <2> QED
    BY <1>0, <2>1, <2>2, <2>3, ThreadsKeep
<1>10. CASE StartupRows(p)
  <2>1. /\ \A t \in Sid : session'[t] = IF Active(t)
                                         THEN [session[t] EXCEPT !.status = "disconnected",
                                                                 !.reason = "server_restart"]
                                         ELSE session[t]
        /\ UNCHANGED <<lease, bridge, handler, lapsed>>
    BY <1>10 DEF StartupRows
  <2>2. \A t \in Sid : /\ session'[t].status = "absent" <=> session[t].status = "absent"
                       /\ session'[t].port = session[t].port
                       /\ session'[t].reason \in {session[t].reason, "server_restart"}
    BY <1>0, <2>1 DEF SessionRow, Active
  <2>3. Undisturbed' \subseteq Undisturbed
    BY <2>1, <2>2 DEF Undisturbed
  <2>4. \A t \in Sid : Leased(t)' => Leased(t)
    BY <2>1 DEF Leased
  <2> QED
    BY <1>0, <2>1, <2>2, <2>3, <2>4, ThreadsKeep
<1> QED
  BY <1>2, <1>3, <1>4, <1>5, <1>6, <1>7, <1>8, <1>9, <1>10
     DEF Monitor, Cleaner, ForceContinue, Startup

LEMMA GoOnFacts ==
    ASSUME TypeInv, NEW c \in Conn, NEW pc, GoOn(c, pc)
    PROVE  /\ \A d \in Conn \ {c} : handler'[d] = handler[d]
           /\ handler'[c].pc = pc /\ handler'[c].sid = handler[c].sid
           /\ handler'[c].ends = handler[c].ends
<1>1. handler \in [Conn -> HandlerState] /\ handler[c] \in HandlerState
  BY DEF TypeInv, TypeOK
<1>2. handler' = [handler EXCEPT ![c] = [handler[c] EXCEPT !.pc = pc]]
  BY <1>1 DEF GoOn
<1> QED
  BY <1>1, <1>2 DEF HandlerState

LEMMA HandledFacts ==
    ASSUME TypeInv, NEW c \in Conn, Handled(c)
    PROVE  /\ \A d \in Conn \ {c} : handler'[d] = handler[d]
           /\ handler'[c].pc = "ready" /\ handler'[c].ends = {}
  BY DEF Handled, Down, TypeInv, TypeOK

\* Filing a bridge under a connection with a request under way pushes out none
\* that is open.
LEMMA FiledMoves ==
    ASSUME TypeInv, Shape, NEW c \in Conn, handler[c].pc # "ready",
           NEW s \in Sid, NEW b \in BridgeState, b.conn = c, bridge' = Filed(s, b)
    PROVE  /\ bridge'[s] = b
           /\ \A t \in Sid \ {s} : Moved(bridge[t], bridge'[t])
<1>1. bridge'[s] = b
  BY DEF Filed
<1>2. ASSUME NEW t \in Sid \ {s} PROVE Moved(bridge[t], bridge'[t])
  <2>0. bridge[t] \in BridgeState /\ Sound(bridge[t])
    BY DEF TypeInv, TypeOK, Shape, BridgesSound
  <2>1. CASE t \notin AtConn(c)
    BY <2>0, <2>1, StaysMoved DEF Filed
  <2>2. CASE t \in AtConn(c)
    <3>1. bridge[t].phase = "active" /\ ~bridge[t].running
      BY <2>2 DEF AtConn, Shape, RequestsAlone, NoneRuns
    <3>2. bridge'[t] = Retired(bridge[t])
      BY <2>2 DEF Filed
    <3> QED
      BY <2>0, <3>1, <3>2, RetiredFacts DEF Moved, Sound
  <2> QED
    BY <2>1, <2>2
<1> QED
  BY <1>1, <1>2

LEMMA ServeShape ==
    ASSUME TypeInv, TypeInv', Shape, NEW c \in Conn, Serve(c)
    PROVE  Shape' /\ LockStep
<1>0. /\ session \in [Sid -> SessionRow] /\ lease \in [Port -> LeaseRow]
      /\ bridge \in [Sid -> BridgeState] /\ handler \in [Conn -> HandlerState]
      /\ handler[c] \in HandlerState
      /\ handler[c].pc \in Making \cup {"resume", "rejoin"} => handler[c].sid \in Sid
      /\ \A t \in Sid : Sound(bridge[t]) /\ Moved(bridge[t], bridge[t]) /\ RowFits(t)
      /\ Fits(c)
  BY StaysMoved DEF TypeInv, TypeOK, SidKnown, Shape, BridgesSound, RowsFit, HandlersFit
<1>s. PICK s : s = handler[c].sid
  OBVIOUS
<1> USE <1>s
\* A handler that owns a session is its only owner; nobody owns a bridge that
\* is suspended, nor a row that does not exist.
<1>a. OwnerOf(c, s) => \A d \in Conn \ {c} : ~OwnerOf(d, s)
  BY <1>0 DEF Shape, SoleOwner, OwnerOf, Owning
<1>b. \A d \in Conn, t \in Sid : OwnerOf(d, t) => bridge[t].phase \in {"none", "opened", "held"}
  BY DEF OwnerOf, Owning, Shape, HandlersFit, Fits, Making
<1>1. CASE Resume(c)
  <2>0. handler[c].pc = "resume" /\ s \in Sid /\ UNCHANGED <<session, lease, lapsed>>
    BY <1>0, <1>1 DEF Resume
  <2>1. CASE s \in SuspendedIn(ProcOf[c])
    <3> DEFINE b == [bridge[s] EXCEPT !.phase = "held"]
    <3>1. bridge' = [bridge EXCEPT ![s] = b] /\ GoOn(c, "rejoin")
      BY <1>0, <1>1, <2>0, <2>1 DEF Resume
    <3>2. bridge[s].phase = "suspended" /\ bridge[s].proc = ProcOf[c] /\ bridge[s] \in BridgeState
      BY <1>0, <2>1 DEF SuspendedIn
    <3>3. /\ b.phase = "held" /\ b.proc = ProcOf[c] /\ b.open = bridge[s].open
          /\ b.running = bridge[s].running /\ b.reader = bridge[s].reader
      BY <3>2 DEF BridgeState
    <3> HIDE DEF b
    <3>4. Sound(b)
      BY <1>0, <2>0, <3>2, <3>3 DEF Sound
    <3>5. bridge'[s] = b /\ \A t \in Sid \ {s} : bridge'[t] = bridge[t]
      BY <1>0, <2>0, <3>1
    <3>6. session[s].status # "absent"
      BY <1>0, <2>0, <3>2 DEF RowFits
    <3>7. \A d \in Conn \ {c} : handler'[d] = handler[d] /\ ~OwnerOf(d, s)
      BY <1>b, <2>0, <3>1, <3>2, GoOnFacts
    <3>8. /\ handler'[c].pc = "rejoin" /\ handler'[c].sid = s
          /\ handler'[c].ends = handler[c].ends
      BY <3>1, GoOnFacts
    <3>9. Fits(c)'
      BY <3>3, <3>5, <3>8 DEF Fits, Making
    <3>10. RowFits(s)'
      BY <1>0, <2>0, <3>6 DEF RowFits
    <3>11. Undisturbed' = Undisturbed /\ \A t \in Sid : Leased(t)' => Leased(t)
      BY <2>0, <3>7, <3>8 DEF Undisturbed, Leased
    <3>12. s \in Undisturbed' /\ MayOpen(s)' => lease'[session'[s].port].sid = s
      <4>1. MayOpen(s)' => bridge[s].open
        BY <3>3, <3>5, <3>7, <3>8 DEF MayOpen, OwnerOf, Owning, Making
      <4> QED
        BY <2>0, <3>11, <4>1 DEF Shape, LeaseKept, MayOpen
    <3>13. Leased(s)' => session'[s].status # "absent" /\ handler'[c].pc \notin Unclaimed
      BY <2>0, <3>6, <3>8 DEF Unclaimed
    <3>14. \A t \in Sid \ {s} : Moved(bridge[t], bridge'[t]) /\ session'[t] = session[t]
      BY <1>0, <2>0, <3>5
    <3>15. Shape' /\ \A t \in Sid \ {s} : Loses(t)
      BY <2>0, <3>3, <3>4, <3>5, <3>7, <3>8, <3>9, <3>10, <3>11, <3>12, <3>13, <3>14,
         OwnerKeeps
    <3>16. Loses(s)
      <4>1. ~Asks(s)'
        BY <3>7, <3>8 DEF Asks, OwnerOf, Owning, Making
      <4> QED
        BY <2>0, <3>3, <3>5, <3>11, <4>1, LosesPort
    <3> QED
      BY <3>15, <3>16, AllLose
  <2>2. CASE s \notin SuspendedIn(ProcOf[c])
    <3>1. bridge' = bridge /\ (GoOn(c, "quota") \/ Handled(c))
      BY <1>1, <2>2 DEF Resume
    <3>2. /\ \A d \in Conn \ {c} : handler'[d] = handler[d]
          /\ handler'[c].pc \in {"quota", "ready"} /\ handler'[c].ends \subseteq handler[c].ends
      BY <3>1, GoOnFacts, HandledFacts
    <3>3. \A t \in handler'[c].ends : Leased(t)
      BY <3>2 DEF Leased
    <3> QED
      BY <2>0, <3>1, <3>2, <3>3, HandlersKeep DEF Owning, Making
  <2> QED
    BY <2>1, <2>2
<1>2. CASE Rejoin(c)
  <2> DEFINE b == bridge[s]
  <2>0. /\ handler[c].pc = "rejoin" /\ s \in Sid /\ b.phase = "held" /\ UNCHANGED lapsed
        /\ b \in BridgeState /\ OwnerOf(c, s)
    BY <1>0, <1>2 DEF Rejoin, Fits, OwnerOf, Owning
  <2>1. session[s].status # "absent" /\ session[s].port \in Port
    BY <1>0, <2>0 DEF RowFits
  <2>2. CASE GraceOver(b)
    <3> DEFINE e == [Retired(b) EXCEPT !.open = FALSE]
    <3>1. /\ bridge' = [bridge EXCEPT ![s] = e] /\ EndSession(s, "user_disconnect")
          /\ GoOn(c, "quota")
      BY <1>2, <2>2 DEF Rejoin
    <3>2. e.phase = "none" /\ e.open = FALSE
      BY DEF Retired, NoBridge
    <3> HIDE DEF e
    <3>3. bridge'[s] = e /\ \A t \in Sid \ {s} : bridge'[t] = bridge[t]
      BY <1>0, <2>0, <3>1
    <3>4. \A d \in Conn \ {c} : handler'[d] = handler[d] /\ ~OwnerOf(d, s)
      BY <1>a, <2>0, <3>1, GoOnFacts
    <3>5. handler'[c].pc = "quota" /\ handler'[c].ends = handler[c].ends
      BY <3>1, GoOnFacts
    <3>6. "user_disconnect" \in Reason
      BY DEF Reason
    <3>7. /\ \A t \in Sid \ {s} : session'[t] = session[t]
          /\ session'[s].status # "absent" /\ session'[s].port = session[s].port
          /\ \A q \in Port : lease'[q].sid = IF lease[q].sid = s THEN 0 ELSE lease[q].sid
      BY <2>0, <2>1, <3>1, <3>6, EndSessionEffect
    <3>8. \A t \in Sid : Leased(t)' => Leased(t)
      BY <3>4, <3>5, <3>7, Zeros DEF Leased
    <3>9. Fits(c)' /\ Sound(bridge'[s]) /\ RowFits(s)'
      BY <2>1, <3>2, <3>3, <3>5, <3>7 DEF Fits, Making, Sound, RowFits
    <3>10. \A t \in Undisturbed' \ {s} :
             t \in Undisturbed /\ \A q \in Port : lease[q].sid = t => lease'[q].sid = t
      BY <2>0, <3>7 DEF Undisturbed
    <3>11. ~MayOpen(s)'
      BY <3>2, <3>3, <3>4, <3>5 DEF MayOpen, OwnerOf, Owning, Making
    <3>12. \A t \in Sid \ {s} : Moved(bridge[t], bridge'[t]) /\ session'[t] = session[t]
      BY <1>0, <3>3, <3>7
    <3>13. handler'[c].pc \notin Owning /\ handler'[c].pc \notin Unclaimed
      BY <3>5 DEF Owning, Making, Unclaimed
    <3>14. Shape' /\ \A t \in Sid \ {s} : Loses(t)
      BY <2>0, <3>2, <3>3, <3>4, <3>7, <3>8, <3>9, <3>10, <3>11, <3>12, <3>13, OwnerKeeps
    <3>15. Loses(s)
      <4>1. ~Asks(s)'
        BY <3>4, <3>5 DEF Asks, OwnerOf, Owning, Making
      <4> QED
        BY <2>0, <2>1, <3>2, <3>3, <3>7, <4>1, LosesPort
    <3> QED
      BY <3>14, <3>15, AllLose
  <2>3. CASE ~GraceOver(b)
    <3> DEFINE e == [b EXCEPT !.phase = "active", !.conn = c, !.idle = 0, !.away = 0]
    <3>1. bridge' = Filed(s, e) /\ Handled(c) /\ UNCHANGED <<session, lease>>
      BY <1>2, <2>3 DEF Rejoin, database
    <3>2. /\ e.phase = "active" /\ e.conn = c /\ e.open = b.open /\ e.running = b.running
          /\ e.reader = b.reader
      BY <2>0 DEF BridgeState
    <3>2a. e \in BridgeState
      BY <2>0, Zeros DEF BridgeState, Phase
    <3> HIDE DEF e
    <3>3. bridge'[s] = e /\ \A t \in Sid \ {s} : Moved(bridge[t], bridge'[t])
      BY <2>0, <3>1, <3>2, <3>2a, FiledMoves
    <3>4. \A d \in Conn \ {c} : handler'[d] = handler[d] /\ ~OwnerOf(d, s)
      BY <1>a, <2>0, <3>1, HandledFacts
    <3>5. handler'[c].pc = "ready" /\ handler'[c].ends = {}
      BY <3>1, HandledFacts
    <3>6. Fits(c)' /\ RowFits(s)'
      BY <2>1, <3>1, <3>5 DEF Fits, Making, RowFits
    <3>7. Sound(bridge'[s])
      BY <1>0, <2>0, <3>2, <3>3 DEF Sound
    <3>8. Undisturbed' = Undisturbed /\ \A t \in Sid : Leased(t)' => Leased(t)
      BY <2>0, <3>1, <3>4, <3>5 DEF Undisturbed, Leased
    <3>9. s \in Undisturbed' /\ MayOpen(s)' => lease'[session'[s].port].sid = s
      <4>1. MayOpen(s)' => bridge[s].open
        BY <3>2, <3>3, <3>4, <3>5 DEF MayOpen, OwnerOf, Owning, Making
      <4> QED
        BY <3>1, <3>8, <4>1 DEF Shape, LeaseKept, MayOpen
    <3>10. handler'[c].pc \notin Owning /\ handler'[c].pc \notin Unclaimed
      BY <3>5 DEF Owning, Making, Unclaimed
    <3>11. Shape' /\ \A t \in Sid \ {s} : Loses(t)
      BY <2>0, <2>1, <3>1, <3>2, <3>3, <3>4, <3>5, <3>6, <3>7, <3>8, <3>9, <3>10, OwnerKeeps
    <3>12. Loses(s)
      <4>1. ~Asks(s)'
        BY <3>4, <3>5 DEF Asks, OwnerOf, Owning, Making
      <4> QED
        BY <2>0, <3>1, <3>2, <3>3, <3>8, <4>1, LosesPort
    <3> QED
      BY <3>11, <3>12, AllLose
  <2> QED
    BY <2>2, <2>3
<1>3. CASE Quota(c)
  <2>1. /\ handler[c].pc = "quota" /\ UNCHANGED <<session, lease, bridge, lapsed>>
        /\ \A d \in Conn \ {c} : handler'[d] = handler[d]
        /\ handler'[c].pc \in {"create", "ready"} /\ handler'[c].ends \subseteq handler[c].ends
    <3>1. CASE handler' = [handler EXCEPT ![c].pc = "create", ![c].ports = Port]
      BY <1>0, <1>3, <3>1 DEF Quota, HandlerState
    <3> QED
      BY <1>3, <3>1, HandledFacts DEF Quota
  <2>2. \A t \in handler'[c].ends : Leased(t)
    BY <2>1 DEF Leased
  <2> QED
    BY <2>1, <2>2, HandlersKeep DEF Owning, Making
<1>4. ASSUME NEW t \in Sid, NEW q \in Port, CreateSession(c, t, q) PROVE Shape' /\ LockStep
  <2> DEFINE row == [status |-> "active", user |-> UserOf[c], port |-> q, reason |-> "none"]
  <2>1. /\ handler[c].pc = "create" /\ IsNextSid(t)
        /\ session' = [session EXCEPT ![t] = row]
        /\ UNCHANGED <<lease, bridge, lapsed>>
    BY <1>4 DEF CreateSession
  <2>2. /\ \A d \in Conn \ {c} : handler'[d] = handler[d]
        /\ handler'[c].pc = "recover" /\ handler'[c].sid = t
        /\ handler'[c].ends = handler[c].ends
    BY <1>0, <1>4 DEF CreateSession, HandlerState
  <2>3. session[t].status = "absent" /\ bridge[t].phase = "none" /\ ~bridge[t].open
    <3>1. session[t].status = "absent"
      BY <2>1 DEF IsNextSid, Sid
    <3> QED
      BY <1>0, <3>1 DEF RowFits, Sound
  <2>4. row.status = "active" /\ row.port = q
    OBVIOUS
  <2> HIDE DEF row
  <2>5. session'[t] = row /\ \A r \in Sid \ {t} : session'[r] = session[r]
    BY <1>0, <2>1
  <2>6. \A d \in Conn \ {c} : ~OwnerOf(d, t)
    BY <1>0, <2>3 DEF OwnerOf, Owning, Shape, HandlersFit, Fits
  <2>7. Fits(c)' /\ RowFits(t)' /\ Sound(bridge'[t])
    BY <1>0, <2>1, <2>2, <2>3, <2>4, <2>5 DEF Fits, Making, RowFits
  <2>8. \A r \in Sid : Leased(r)' => Leased(r)
    BY <2>1, <2>2 DEF Leased
  <2>9. ~Leased(t)'
    BY <2>3, <2>8 DEF Shape, LeasedFit
  <2>10. \A r \in Undisturbed' \ {t} :
           r \in Undisturbed /\ \A p \in Port : lease[p].sid = r => lease'[p].sid = r
    BY <2>1, <2>5 DEF Undisturbed
  <2>11. ~MayOpen(t)'
    BY <2>1, <2>2, <2>3, <2>6 DEF MayOpen, OwnerOf, Owning, Making
  <2>12. \A r \in Sid \ {t} : Moved(bridge[r], bridge'[r]) /\ session'[r] = session[r]
    BY <1>0, <2>1, <2>5
  <2>13. Shape'
    BY <2>1, <2>2, <2>3, <2>6, <2>7, <2>8, <2>9, <2>10, <2>11, <2>12, OwnerKeeps
  <2>14. \A r \in Sid \ {t} : StageOf(r)' = StageOf(r)
    BY <2>1, <2>2, <2>5, OthersStay DEF Owning, Making
  <2>15. StageOf(t) = "absent" /\ StageOf(t)' = "asking"
    <3>1. Asks(t)'
      BY <2>2 DEF Asks
    <3> QED
      BY <2>1, <2>3, <2>4, <2>5, <3>1, Stages, StagesNext DEF Staged
  <2>16. Lock!Ask(t, q)
    <3>1. [r \in Sid |-> StageOf(r)'] = [[r \in Sid |-> StageOf(r)] EXCEPT ![t] = "asking"]
      BY <2>14, <2>15
    <3>2. [r \in Sid |-> session'[r].port] = [[r \in Sid |-> session[r].port] EXCEPT ![t] = q]
      BY <2>4, <2>5
    <3> QED
      BY <2>15, <3>1, <3>2 DEF Lock!Ask, Lock!Becomes
  <2> QED
    BY <2>13, <2>16 DEF LockStep, Lock!Next
<1>5. CASE RecoverRead(c)
  <2>1. /\ handler[c].pc = "recover" /\ UNCHANGED <<session, lease, bridge, lapsed>>
        /\ \A d \in Conn \ {c} : handler'[d] = handler[d]
        /\ handler'[c].pc \in {"claim", "expire"} /\ handler'[c].sid = handler[c].sid
        /\ handler'[c].ends \subseteq {lease[p].sid : p \in {p \in Port : Taken(p)}}
    BY <1>0, <1>5 DEF RecoverRead, HandlerState
  <2>2. \A t \in handler'[c].ends : Leased(t)
    BY <2>1 DEF Leased
  <2> QED
    BY <2>1, <2>2, HandlersKeep DEF Owning, Making, Unclaimed
<1>6. CASE RecoverCommit(c)
  <2> DEFINE dying == {p \in Port : lease[p].id \in handler[c].dead}
  <2>1. /\ handler[c].pc = "expire" /\ UNCHANGED bridge
        /\ lease' = [p \in Port |-> IF p \in dying THEN NoLease ELSE lease[p]]
        /\ session' = [t \in Sid |->
                     IF t \in handler[c].ends
                     THEN [session[t] EXCEPT !.status = "disconnected",
                                             !.reason = "lease_expired"]
                     ELSE session[t]]
        /\ lapsed' = lapsed \cup {lease[p].sid : p \in dying}
    BY <1>6 DEF RecoverCommit
  <2>2. /\ \A d \in Conn \ {c} : handler'[d] = handler[d]
        /\ handler'[c].pc = "claim" /\ handler'[c].sid = handler[c].sid
        /\ handler'[c].ends = {}
    BY <1>0, <1>6 DEF RecoverCommit, HandlerState
  <2>3. \A p \in Port : lease'[p].sid = IF p \in dying THEN 0 ELSE lease[p].sid
    BY <2>1, NoLeaseType
  <2>4. \A t \in Sid : Leased(t)' => Leased(t)
    BY <2>2, <2>3, Zeros DEF Leased
  <2>5. \A t \in Sid : t \in handler[c].ends => session[t].status # "absent"
    BY DEF Shape, LeasedFit, Leased
  <2>6. \A t \in Sid : /\ session'[t].status = "absent" <=> session[t].status = "absent"
                       /\ session'[t].port = session[t].port
                       /\ session'[t].reason \in {session[t].reason, "lease_expired"}
    <3> HIDE DEF dying
    <3> QED
      BY <1>0, <2>1, <2>5 DEF SessionRow
  <2>7. \A t \in Undisturbed' :
           t \in Undisturbed /\ \A p \in Port : lease[p].sid = t => lease'[p].sid = t
    <3> SUFFICES ASSUME NEW t \in Undisturbed'
                 PROVE  t \in Undisturbed /\ \A p \in Port : lease[p].sid = t => lease'[p].sid = t
      OBVIOUS
    <3>1. t \in Sid /\ t \notin lapsed' /\ session'[t].reason # "lease_expired"
      BY DEF Undisturbed
    <3>2. t \in Undisturbed
      <4>1. session'[t].reason = session[t].reason
        BY <2>6, <3>1
      <4>2. t \notin lapsed
        BY <2>1, <3>1
      <4> QED
        BY <3>1, <4>1, <4>2 DEF Undisturbed
    <3>3. ASSUME NEW p \in dying PROVE lease[p].sid # t
      BY <2>1, <3>1
    <3> HIDE DEF dying
    <3> QED
      BY <2>3, <3>2, <3>3
  <2> HIDE DEF dying
  <2>8. \A d \in Conn :
           /\ handler'[d].pc \in Owning =>
                 /\ handler'[d].sid = handler[d].sid
                 /\ \/ handler'[d].pc = handler[d].pc
                    \/ handler[d].pc \in Unclaimed /\ handler'[d].pc \in Unclaimed
           /\ handler'[d].pc # "ready" => handler[d].pc # "ready"
    BY <2>1, <2>2 DEF Unclaimed
  <2>9. \A t \in Sid : Moved(bridge[t], bridge'[t])
    BY <1>0, <2>1
  <2> QED
    BY <2>4, <2>6, <2>7, <2>8, <2>9, ThreadsKeep
<1>7. CASE ClaimLease(c)
  <2> DEFINE q == session[s].port
  <2>0. /\ handler[c].pc = "claim" /\ s \in Sid /\ UNCHANGED <<session, bridge, lapsed>>
        /\ session[s].status # "absent" /\ q \in Port /\ OwnerOf(c, s)
        /\ bridge[s].phase = "none"
    BY <1>0, <1>7 DEF ClaimLease, Making, Fits, RowFits, OwnerOf, Owning
  <2>1. CASE Taken(q)
    <3>1. GoOn(c, "drop") /\ UNCHANGED lease
      BY <1>7, <2>1 DEF ClaimLease
    <3>2. /\ \A d \in Conn \ {c} : handler'[d] = handler[d]
          /\ handler'[c].pc = "drop" /\ handler'[c].sid = handler[c].sid
          /\ handler'[c].ends = handler[c].ends
      BY <3>1, GoOnFacts
    <3>3. \A t \in handler'[c].ends : Leased(t)
      BY <3>2 DEF Leased
    <3> QED
      BY <2>0, <3>1, <3>2, <3>3, HandlersKeep DEF Unclaimed
  <2>2. CASE ~Taken(q)
    <3>1. PICK i \in 1 .. MaxSessionId :
            lease' = [lease EXCEPT ![q] = [id |-> i, sid |-> s, left |-> LeaseTicks]]
      BY <1>7, <2>2 DEF ClaimLease
    <3>2. GoOn(c, "open")
      BY <1>7, <2>2 DEF ClaimLease
    <3>3. lease'[q].sid = s /\ \A p \in Port \ {q} : lease'[p] = lease[p]
      BY <1>0, <2>0, <3>1
    <3>4. \A d \in Conn \ {c} : handler'[d] = handler[d] /\ ~OwnerOf(d, s)
      BY <1>a, <2>0, <3>2, GoOnFacts
    <3>5. /\ handler'[c].pc = "open" /\ handler'[c].sid = s
          /\ handler'[c].ends = handler[c].ends
      BY <3>2, GoOnFacts
    <3>6. Fits(c)' /\ RowFits(s)' /\ Sound(bridge'[s])
      BY <1>0, <2>0, <3>5 DEF Fits, Making, RowFits
    <3>7. \A t \in Sid \ {s} : Leased(t)' => Leased(t)
      BY <3>3, <3>4, <3>5 DEF Leased
    <3>8. \A t \in Undisturbed' \ {s} :
            t \in Undisturbed /\ \A p \in Port : lease[p].sid = t => lease'[p].sid = t
      BY <2>0, <2>2, <3>3, Zeros DEF Undisturbed, Taken
    <3>9. handler'[c].pc \in Owning /\ handler'[c].pc \notin Unclaimed
      BY <3>5 DEF Owning, Making, Unclaimed
    <3>10. \A t \in Sid \ {s} : Moved(bridge[t], bridge'[t]) /\ session'[t] = session[t]
      BY <1>0, <2>0
    <3>11. lease'[session'[s].port].sid = s /\ bridge'[s].phase # "active"
           /\ session'[s].status # "absent" /\ handler[c].pc # "ready"
      BY <2>0, <3>3
    <3> HIDE DEF q
    <3>12. Shape' /\ \A t \in Sid \ {s} : Loses(t)
      BY <2>0, <3>4, <3>5, <3>6, <3>7, <3>8, <3>9, <3>10, <3>11, OwnerKeeps
    <3>13. Loses(s)
      <4>1. Asks(s)
        BY <2>0 DEF Asks
      <4>2. s \in Undisturbed' => s \in Undisturbed
        BY <2>0 DEF Undisturbed
      <4> QED
        BY <2>0, <4>1, <4>2, LosesPort
    <3> QED
      BY <3>12, <3>13, AllLose
  <2> QED
    BY <2>1, <2>2
<1>8. CASE Drop(c)
  <2>1. /\ handler[c].pc = "drop" /\ s \in Sid /\ OwnerOf(c, s)
        /\ session' = [session EXCEPT ![s] = NoSession]
        /\ UNCHANGED <<lease, bridge, lapsed>>
        /\ bridge[s].phase = "none" /\ ~bridge[s].open
    BY <1>0, <1>8 DEF Drop, Making, Fits, OwnerOf, Owning, Sound
  <2>2. /\ \A d \in Conn \ {c} : handler'[d] = handler[d]
        /\ handler'[c].pc \in {"ready", "create"} /\ handler'[c].ends \subseteq handler[c].ends
    <3>1. CASE handler' = [handler EXCEPT ![c].pc = "create", ![c].sid = 0]
      BY <1>0, <3>1 DEF HandlerState
    <3> QED
      BY <1>8, <3>1, HandledFacts DEF Drop
  <2>3. \A d \in Conn \ {c} : ~OwnerOf(d, s)
    BY <1>a, <2>1
  <2>4. \A t \in Sid : Leased(t)' => Leased(t)
    BY <2>1, <2>2 DEF Leased
  <2>5. ~Leased(s)'
    BY <2>1, <2>4 DEF Shape, LeasedFit, Unclaimed
  <2>6. session'[s].status = "absent" /\ \A t \in Sid \ {s} : session'[t] = session[t]
    BY <1>0, <2>1, NoSessionType
  <2>7. Fits(c)' /\ RowFits(s)' /\ Sound(bridge'[s])
    BY <1>0, <2>1, <2>2, <2>6 DEF Fits, Making, RowFits
  <2>8. \A t \in Undisturbed' \ {s} :
          t \in Undisturbed /\ \A p \in Port : lease[p].sid = t => lease'[p].sid = t
    BY <2>1, <2>6 DEF Undisturbed
  <2>9. ~MayOpen(s)'
    BY <2>1, <2>2, <2>3 DEF MayOpen, OwnerOf, Owning, Making
  <2>10. handler'[c].pc \notin Owning /\ handler[c].pc # "ready" /\ bridge'[s].phase # "active"
    BY <2>1, <2>2 DEF Owning, Making
  <2>11. \A t \in Sid \ {s} : Moved(bridge[t], bridge'[t]) /\ session'[t] = session[t]
    BY <1>0, <2>1, <2>6
  <2>12. Shape'
    BY <2>1, <2>2, <2>3, <2>4, <2>5, <2>7, <2>8, <2>9, <2>10, <2>11, OwnerKeeps
  <2>13. \A t \in Sid \ {s} : StageOf(t)' = StageOf(t)
    BY <2>1, <2>2, <2>6, <2>10, OthersStay
  <2>14. StageOf(s) = "asking" /\ StageOf(s)' = "absent"
    <3>1. Asks(s)
      BY <2>1 DEF Asks
    <3> QED
      BY <2>1, <2>6, <3>1, AskersClosed, Stages, StagesNext DEF Staged
  <2>15. Lock!Refuse(s)
    <3>1. [t \in Sid |-> StageOf(t)'] = [[t \in Sid |-> StageOf(t)] EXCEPT ![s] = "absent"]
      BY <2>13, <2>14
    <3>2. session'[s].port = None
      BY <1>0, <2>1 DEF NoSession
    <3>3. [t \in Sid |-> session'[t].port] = [[t \in Sid |-> session[t].port] EXCEPT ![s] = None]
      BY <2>6, <3>2
    <3> QED
      BY <2>1, <2>14, <3>1, <3>3 DEF Lock!Refuse, Lock!Becomes
  <2> QED
    BY <2>1, <2>12, <2>15 DEF LockStep, Lock!Next
<1>9. CASE Open(c)
  <2> DEFINE b == [NoBridge EXCEPT !.phase = "opened", !.proc = ProcOf[c], !.open = TRUE]
  <2>0. /\ handler[c].pc = "open" /\ s \in Sid /\ OwnerOf(c, s)
        /\ session[s].status # "absent" /\ session[s].port \in Port
        /\ UNCHANGED <<session, lease, lapsed>>
    BY <1>0, <1>9 DEF Open, Making, Fits, RowFits, OwnerOf, Owning
  <2>1. CASE GoOn(c, "fail") /\ UNCHANGED bridge
    <3>1. /\ \A d \in Conn \ {c} : handler'[d] = handler[d]
          /\ handler'[c].pc = "fail" /\ handler'[c].sid = handler[c].sid
          /\ handler'[c].ends = handler[c].ends
      BY <2>1, GoOnFacts
    <3>2. \A t \in handler'[c].ends : Leased(t)
      BY <3>1 DEF Leased
    <3> QED
      BY <2>0, <2>1, <3>1, <3>2, HandlersKeep DEF Making
  <2>2. CASE bridge' = [bridge EXCEPT ![s] = b] /\ GoOn(c, "attach")
    <3>1. b.phase = "opened" /\ b.proc = ProcOf[c] /\ b.reader = "off" /\ b.open
      BY DEF NoBridge
    <3> HIDE DEF b
    <3>2. bridge'[s] = b /\ \A t \in Sid \ {s} : bridge'[t] = bridge[t]
      BY <1>0, <2>0, <2>2
    <3>3. \A d \in Conn \ {c} : handler'[d] = handler[d] /\ ~OwnerOf(d, s)
      BY <1>a, <2>0, <2>2, GoOnFacts
    <3>4. /\ handler'[c].pc = "attach" /\ handler'[c].sid = s
          /\ handler'[c].ends = handler[c].ends
      BY <2>2, GoOnFacts
    <3>5. Fits(c)' /\ RowFits(s)' /\ Sound(bridge'[s])
      BY <2>0, <3>1, <3>2, <3>4 DEF Fits, Making, RowFits, Sound
    <3>6. Undisturbed' = Undisturbed /\ \A t \in Sid : Leased(t)' => Leased(t)
      BY <2>0, <3>3, <3>4 DEF Undisturbed, Leased
    <3>7. s \in Undisturbed' => lease'[session'[s].port].sid = s
      BY <2>0, <3>6 DEF Shape, LeaseKept, MayOpen
    <3>8. /\ handler'[c].pc \notin Unclaimed /\ bridge'[s].phase # "active"
          /\ session'[s].status # "absent" /\ handler[c].pc # "ready"
      BY <2>0, <3>1, <3>2, <3>4 DEF Unclaimed
    <3>9. \A t \in Sid \ {s} : Moved(bridge[t], bridge'[t]) /\ session'[t] = session[t]
      BY <1>0, <2>0, <3>2
    <3>10. Shape'
      BY <2>0, <3>3, <3>4, <3>5, <3>6, <3>7, <3>8, <3>9, OwnerKeeps
    <3>11. \A t \in Sid \ {s} : StageOf(t)' = StageOf(t)
      BY <2>0, <3>2, <3>3, <3>4, OthersStay
    <3>12. StageOf(s) = "asking" /\ Asks(s)
      <4>1. Asks(s)
        BY <2>0 DEF Asks
      <4> QED
        BY <2>0, <4>1, AskersClosed, Stages DEF Staged
    <3>13. StageOf(s)' = IF s \in Undisturbed THEN "holding" ELSE "stray"
      BY <2>0, <3>1, <3>2, <3>6, StagesNext DEF Staged
    <3>14. [t \in Sid |-> session'[t].port] = [t \in Sid |-> session[t].port]
      BY <2>0
    <3>15. CASE s \in Undisturbed
      <4>1. lease[session[s].port].sid = s
        BY <2>0, <3>15 DEF Shape, LeaseKept, MayOpen
      <4>2. ASSUME NEW t \in Sid, StageOf(t) = "holding"
            PROVE  session[t].port # session[s].port
        <5>1. t # s
          BY <3>12, <4>2
        <5>2. bridge[t].open /\ t \in Undisturbed
          BY <4>2, Stages DEF Staged
        <5>3. lease[session[t].port].sid = t
          BY <5>2 DEF Shape, LeaseKept, MayOpen
        <5> QED
          BY <4>1, <5>1, <5>3
      <4>3. Lock!HoldersOf([t \in Sid |-> session[t].port][s]) = {}
        BY <2>0, <4>2 DEF Lock!HoldersOf
      <4>4. [t \in Sid |-> StageOf(t)'] = [[t \in Sid |-> StageOf(t)] EXCEPT ![s] = "holding"]
        BY <3>11, <3>13, <3>15
      <4>5. Lock!Grant(s)
        BY <2>0, <3>12, <3>14, <4>3, <4>4 DEF Lock!Grant, Lock!Becomes
      <4> QED
        BY <2>0, <3>10, <4>5 DEF LockStep, Lock!Next
    <3>16. CASE s \notin Undisturbed
      <4>1. [t \in Sid |-> StageOf(t)'] = [[t \in Sid |-> StageOf(t)] EXCEPT ![s] = "stray"]
        BY <3>11, <3>13, <3>16
      <4>2. Lock!OpenLate(s)
        BY <2>0, <3>12, <3>14, <4>1 DEF Lock!OpenLate, Lock!Becomes
      <4> QED
        BY <2>0, <3>10, <4>2 DEF LockStep, Lock!Next
    <3> QED
      BY <3>15, <3>16
  <2> QED
    BY <1>9, <2>1, <2>2 DEF Open
<1>10. CASE Attach(c)
  <2> DEFINE b == [bridge[s] EXCEPT !.phase = "active", !.conn = c,
                                    !.running = TRUE, !.reader = "look"]
  <2>0. /\ handler[c].pc = "attach" /\ s \in Sid /\ OwnerOf(c, s)
        /\ session[s].status # "absent" /\ session[s].port \in Port
        /\ UNCHANGED <<session, lease, lapsed>> /\ bridge' = Filed(s, b) /\ Handled(c)
    BY <1>0, <1>10 DEF Attach, Making, Fits, RowFits, OwnerOf, Owning
  <2>1. b \in BridgeState
    BY <1>0, <2>0, WrittenBridges
  <2>2. /\ b.phase = "active" /\ b.conn = c /\ b.running = TRUE /\ b.reader = "look"
        /\ b.open = bridge[s].open
    <3>1. bridge[s] \in BridgeState
      BY <1>0, <2>0
    <3> QED
      BY <3>1 DEF BridgeState
  <2> HIDE DEF b
  <2>3. bridge'[s] = b /\ \A t \in Sid \ {s} : Moved(bridge[t], bridge'[t])
    BY <2>0, <2>1, <2>2, FiledMoves
  <2>4. \A d \in Conn \ {c} : handler'[d] = handler[d] /\ ~OwnerOf(d, s)
    BY <1>a, <2>0, HandledFacts
  <2>5. handler'[c].pc = "ready" /\ handler'[c].ends = {}
    BY <2>0, HandledFacts
  <2>6. Fits(c)' /\ RowFits(s)' /\ Sound(bridge'[s])
    BY <2>0, <2>2, <2>3, <2>5 DEF Fits, Making, RowFits, Sound
  <2>7. Undisturbed' = Undisturbed /\ \A t \in Sid : Leased(t)' => Leased(t)
    BY <2>0, <2>4, <2>5 DEF Undisturbed, Leased
  <2>8. s \in Undisturbed' /\ MayOpen(s)' => lease'[session'[s].port].sid = s
    <3>1. MayOpen(s)' => bridge[s].open
      BY <2>2, <2>3, <2>4, <2>5 DEF MayOpen, OwnerOf, Owning, Making
    <3> QED
      BY <2>0, <2>7, <3>1 DEF Shape, LeaseKept, MayOpen
  <2>9. /\ handler'[c].pc \notin Owning /\ handler'[c].pc \notin Unclaimed
        /\ session'[s].status # "absent" /\ handler[c].pc # "ready"
    BY <2>0, <2>5 DEF Owning, Making, Unclaimed
  <2>10. \A t \in Sid : session'[t] = session[t]
    BY <2>0
  <2>11. Shape' /\ \A t \in Sid \ {s} : Loses(t)
    BY <2>0, <2>2, <2>3, <2>4, <2>5, <2>6, <2>7, <2>8, <2>9, <2>10, OwnerKeeps
  <2>12. Loses(s)
    <3>1. ~Asks(s)'
      BY <2>4, <2>5 DEF Asks, OwnerOf, Owning, Making
    <3> QED
      BY <2>0, <2>2, <2>3, <2>7, <3>1, LosesPort
  <2> QED
    BY <2>11, <2>12, AllLose
<1>11. CASE Fail(c)
  <2>1. /\ handler[c].pc = "fail" /\ s \in Sid /\ OwnerOf(c, s)
        /\ session[s].status # "absent" /\ session[s].port \in Port
        /\ bridge[s].phase = "none" /\ ~bridge[s].open
        /\ EndSession(s, "error") /\ Handled(c) /\ UNCHANGED <<bridge, lapsed>>
    BY <1>0, <1>11 DEF Fail, Making, Fits, RowFits, OwnerOf, Owning, Sound
  <2>2. "error" \in Reason
    BY DEF Reason
  <2>3. /\ \A t \in Sid \ {s} : session'[t] = session[t]
        /\ session'[s].status # "absent" /\ session'[s].port = session[s].port
        /\ \A q \in Port : lease'[q].sid = IF lease[q].sid = s THEN 0 ELSE lease[q].sid
    BY <2>1, <2>2, EndSessionEffect
  <2>4. \A d \in Conn \ {c} : handler'[d] = handler[d] /\ ~OwnerOf(d, s)
    BY <1>a, <2>1, HandledFacts
  <2>5. handler'[c].pc = "ready" /\ handler'[c].ends = {}
    BY <2>1, HandledFacts
  <2>6. Fits(c)' /\ RowFits(s)' /\ Sound(bridge'[s])
    BY <1>0, <2>1, <2>3, <2>5 DEF Fits, Making, RowFits
  <2>7. \A t \in Sid : Leased(t)' => Leased(t)
    BY <2>3, <2>4, <2>5, Zeros DEF Leased
  <2>8. \A t \in Undisturbed' \ {s} :
          t \in Undisturbed /\ \A p \in Port : lease[p].sid = t => lease'[p].sid = t
    BY <2>1, <2>3 DEF Undisturbed
  <2>9. ~MayOpen(s)'
    BY <2>1, <2>4, <2>5 DEF MayOpen, OwnerOf, Owning, Making
  <2>10. /\ handler'[c].pc \notin Owning /\ handler'[c].pc \notin Unclaimed
         /\ bridge'[s].phase # "active" /\ handler[c].pc # "ready"
    BY <2>1, <2>5 DEF Owning, Making, Unclaimed
  <2>11. \A t \in Sid \ {s} : Moved(bridge[t], bridge'[t]) /\ session'[t] = session[t]
    BY <1>0, <2>1, <2>3
  <2>12. Shape' /\ \A t \in Sid \ {s} : Loses(t)
    BY <2>1, <2>3, <2>4, <2>6, <2>7, <2>8, <2>9, <2>10, <2>11, OwnerKeeps
  <2>13. Loses(s)
    <3>1. ~Asks(s)'
      BY <2>4, <2>5 DEF Asks, OwnerOf, Owning, Making
    <3> QED
      BY <2>1, <2>3, <3>1, LosesPort
  <2> QED
    BY <2>12, <2>13, AllLose
<1> QED
  BY <1>1, <1>2, <1>3, <1>4, <1>5, <1>6, <1>7, <1>8, <1>9, <1>10, <1>11 DEF Serve

LEMMA ShapeNext == TypeInv /\ TypeInv' /\ Shape /\ [Next]_vars => Shape' /\ LockStep
<1> SUFFICES ASSUME TypeInv, TypeInv', Shape, [Next]_vars PROVE Shape' /\ LockStep
  OBVIOUS
<1>1. CASE UNCHANGED vars
  <2>1. /\ UNCHANGED <<session, lease, bridge, handler, lapsed>>
        /\ \A t \in Sid : Moved(bridge[t], bridge[t])
    BY <1>1, StaysMoved DEF vars, Shape, BridgesSound
  <2> QED
    BY <2>1, ThreadsKeep DEF Undisturbed, Leased
<1>2. ASSUME NEW c \in Conn, Client(c) \/ Serve(c) PROVE Shape' /\ LockStep
  BY <1>2, ClientShape, ServeShape
<1>3. ASSUME NEW s \in Sid, Teardown(s) \/ Reader(s) PROVE Shape' /\ LockStep
  BY <1>3, BridgeThreadShape
<1>4. ASSUME NEW p \in Proc,
             \/ Monitor(p) \/ Cleaner(p) \/ ForceContinue(p) \/ Restart(p) \/ Startup(p)
             \/ \E s \in Sid : ForceFind(p, s)
      PROVE  Shape' /\ LockStep
  BY <1>4, ProcessShape
<1>5. CASE Tick
  BY <1>5, TickShape
<1> QED
  BY <1>1, <1>2, <1>3, <1>4, <1>5 DEF Next

LEMMA ShapeHolds == Spec => [](TypeInv /\ Shape)
<1>1. TypeInv /\ Shape /\ [Next]_vars => (TypeInv /\ Shape)'
  BY TypeNext, ShapeNext
<1> QED
  BY TypeInit, ShapeInit, <1>1, PTL DEF Spec

-----------------------------------------------------------------------------
(* What the shape of a state says about ports.                             *)

\* A bridge that no dictionary and no thread holds has its port closed,
\* whatever the page, the reader, the monitor, the cleaner, an administrator
\* and restarts do in between (terminal/utils.py).
THEOREM NoPortLostHolds == Spec => []NoPortLost
<1>1. Shape => NoPortLost
  BY DEF Shape, BridgesSound, Sound, NoPortLost
<1> QED
  BY <1>1, ShapeHolds, PTL

LEMMA SubsingletonCardinality ==
    ASSUME NEW S, \A x, y \in S : x = y
    PROVE  Cardinality(S) <= 1
<1>1. CASE S = {}
  BY <1>1, FS_EmptySet
<1>2. CASE S # {}
  <2>1. PICK x : S = {x}
    BY <1>2
  <2> QED
    BY <2>1, FS_Singleton
<1> QED
  BY <1>1, <1>2

\* Two undisturbed sessions never have one port open at the same time: start_bridge
\* opens it under a lease, and every path that gives a lease up closes the
\* port first, unless the lease lapsed or was taken away (terminal/utils.py
\* and terminal/events.py).
THEOREM LeaseExcludesHolds == Spec => []LeaseExcludes
<1>1. ASSUME TypeInv, Shape, NEW p \in Port
      PROVE  Cardinality(OpenOn(p) \cap Undisturbed) <= 1
  <2>1. \A s \in OpenOn(p) \cap Undisturbed : lease[p].sid = s
    BY <1>1 DEF OpenOn, Shape, LeaseKept, MayOpen
  <2> QED
    BY <2>1, SubsingletonCardinality
<1>2. TypeInv /\ Shape => LeaseExcludes
  BY <1>1 DEF LeaseExcludes
<1> QED
  BY <1>2, ShapeHolds, PTL

\* Everything the handlers, the readers, the monitor, the cleaner, administrators,
\* restarts and the clock do to sessions and ports is what the abstract lock allows:
\* a session gets the port it asked for once, alone, and never gets back one that it
\* lost (terminal/utils.py, terminal/events.py).
THEOREM SessionsImplementLock == Spec => ImplementsLock
<1>1. Init => Lock!Init
  <2> SUFFICES ASSUME Init PROVE Lock!Init
    OBVIOUS
  <2>1. \A s \in Sid : session[s].status = "absent" /\ session[s].port = None
    BY DEF Init, NoSession
  <2>2. \A s \in Sid : StageOf(s) = "absent"
    BY <2>1, Stages DEF Staged
  <2> QED
    BY <2>1, <2>2 DEF Lock!Init
<1>2. TypeInv /\ TypeInv' /\ Shape /\ [Next]_vars => [Lock!Next]_(Lock!vars)
  BY ShapeNext DEF LockStep
<1> QED
  BY <1>1, <1>2, ShapeHolds, PTL DEF Spec, ImplementsLock, Lock!Spec

-----------------------------------------------------------------------------
(* The grace period.  Between the cleaner's list and its work on a session  *)
(* the session may be resumed and suspended again; that one on the list     *)
(* never becomes active is what saves it: resume_bridge looks at the grace  *)
(* period itself, and the handlers that open a bridge own a younger row.    *)

Overstayed(s) ==
    /\ session[s].status # "absent"
    /\ bridge[s].phase \notin {"opened", "active"}
    /\ bridge[s].phase \in {"suspended", "held"} => bridge[s].away > GraceTicks
    /\ \A c \in Conn : handler[c].pc \in Making => handler[c].sid # s

ListsOverstayed == \A p \in Proc : \A s \in abandoned[p] : Overstayed(s)

\* What a step may make of the bridge of a session that has overstayed.
Waits(b, a) ==
    \/ a.phase \notin {"opened", "active", "suspended", "held"}
    \/ /\ a.away >= b.away
       /\ a.phase = b.phase \/ (b.phase = "suspended" /\ a.phase = "held")

LEMMA SameWaits ==
    ASSUME NEW b \in BridgeState, NEW a, a.phase = b.phase, a.away = b.away
    PROVE  Waits(b, a)
  BY DEF Waits, BridgeState

LEMMA OverstayedKeeps ==
    ASSUME TypeInv, TypeInv', NEW s \in Sid, Overstayed(s), Waits(bridge[s], bridge'[s]),
           session'[s].status # "absent",
           \A c \in Conn : handler'[c].pc \in Making => handler'[c].sid # s
    PROVE  Overstayed(s)'
<1>1. bridge[s].away \in Int /\ bridge'[s].away \in Int /\ GraceTicks \in Int
  BY LimitAssumption DEF TypeInv, TypeOK, BridgeState
<1> QED
  BY <1>1 DEF Overstayed, Waits

LEMMA ClientOverstayed ==
    ASSUME TypeInv, TypeInv', Shape, NEW s \in Sid, Overstayed(s), NEW c \in Conn, Client(c)
    PROVE  Overstayed(s)'
<1>0. /\ bridge \in [Sid -> BridgeState] /\ handler \in [Conn -> HandlerState]
      /\ bridge[s] \in BridgeState /\ Waits(bridge[s], bridge[s])
  BY SameWaits DEF TypeInv, TypeOK
<1>1. UNCHANGED session
  BY DEF Client, Connect, Disconnect, ClientDisconnect, Request, Input, Heartbeat
<1>2. \A d \in Conn : handler'[d].pc \in Making => handler'[d].sid # s
  <2>1. CASE Connect(c) \/ Disconnect(c)
    <3>1. PICK u : handler' = [handler EXCEPT ![c].up = u]
      BY <2>1 DEF Connect, Disconnect
    <3>2. \A d \in Conn : /\ handler'[d].pc = handler[d].pc
                          /\ handler'[d].sid = handler[d].sid
      BY <1>0, <3>1 DEF HandlerState
    <3> QED
      BY <3>2 DEF Overstayed
  <2>2. CASE ClientDisconnect(c) \/ Input(c) \/ Heartbeat(c)
    BY <2>2 DEF ClientDisconnect, Input, Heartbeat, Overstayed
  <2>3. CASE Request(c)
    <3>1. /\ \A d \in Conn \ {c} : handler'[d] = handler[d]
          /\ handler'[c].pc \in {"resume", "quota"}
      BY <1>0, <2>3 DEF Request, GoOn, HandlerState
    <3> QED
      BY <3>1 DEF Overstayed, Making
  <2> QED
    BY <2>1, <2>2, <2>3 DEF Client
<1>3. Waits(bridge[s], bridge'[s])
  <2>1. CASE Connect(c)
    <3>1. bridge'[s] = bridge[s] \/ bridge'[s] = [bridge[s] EXCEPT !.conn = None]
      BY <2>1 DEF Connect
    <3>2. Waits(bridge[s], [bridge[s] EXCEPT !.conn = None])
      BY <1>0, SameWaits DEF BridgeState
    <3> QED
      BY <1>0, <3>1, <3>2
  <2>2. CASE Disconnect(c)
    BY <1>0, <2>2 DEF Disconnect, AtConn, Overstayed
  <2>3. CASE ClientDisconnect(c)
    BY <1>0, <2>3 DEF ClientDisconnect, StopAt, AtConn, Overstayed
  <2>4. CASE Request(c)
    BY <1>0, <2>4 DEF Request
  <2>5. CASE Input(c) \/ Heartbeat(c)
    <3>1. bridge'[s] = bridge[s] \/ bridge'[s] = [bridge[s] EXCEPT !.idle = 0]
      BY <1>0, <2>5 DEF Input, Heartbeat, AtConn
    <3>2. Waits(bridge[s], [bridge[s] EXCEPT !.idle = 0])
      BY <1>0, SameWaits DEF BridgeState
    <3> QED
      BY <1>0, <3>1, <3>2
  <2> QED
    BY <2>1, <2>2, <2>3, <2>4, <2>5 DEF Client
<1> QED
  BY <1>1, <1>2, <1>3, OverstayedKeeps DEF Overstayed

LEMMA BridgeThreadOverstayed ==
    ASSUME TypeInv, TypeInv', NEW s \in Sid, Overstayed(s), NEW t \in Sid,
           Teardown(t) \/ Reader(t)
    PROVE  Overstayed(s)'
<1>0. /\ bridge \in [Sid -> BridgeState] /\ bridge[s] \in BridgeState
      /\ bridge[t] \in BridgeState /\ Waits(bridge[s], bridge[s])
  BY SameWaits DEF TypeInv, TypeOK
<1>1. UNCHANGED handler
  BY DEF Teardown, CloseStopped, EndStopped, EndFails, Reader, ReaderLook, ReaderReads,
         ReaderEndedElsewhere, ReaderError, ReaderRemove
<1>2. session'[s].status # "absent"
  <2>1. CASE EndStopped(t)
    <3>1. EndSession(t, bridge[t].reason) /\ bridge[t].reason \in Reason
      BY <1>0, <2>1 DEF EndStopped, BridgeState
    <3> QED
      BY <3>1, EndSessionEffect DEF Overstayed
  <2>2. CASE ~EndStopped(t)
    <3>1. UNCHANGED session
      BY <2>2 DEF Teardown, CloseStopped, EndFails, Reader, ReaderLook, ReaderReads,
                  ReaderEndedElsewhere, ReaderError, ReaderRemove
    <3> QED
      BY <3>1 DEF Overstayed
  <2> QED
    BY <2>1, <2>2
<1>3. ASSUME NEW b, Waits(bridge[t], b), bridge' = [bridge EXCEPT ![t] = b]
      PROVE  Waits(bridge[s], bridge'[s])
  BY <1>0, <1>3
<1>4. Waits(bridge[s], bridge'[s])
  <2>1. CASE CloseStopped(t)
    <3> DEFINE b == [bridge[t] EXCEPT !.phase = "ending", !.open = Closed(bridge[t])]
    <3>1. Waits(bridge[t], b)
      BY <1>0 DEF Waits, BridgeState
    <3>2. bridge' = [bridge EXCEPT ![t] = b]
      BY <1>0, <2>1 DEF CloseStopped
    <3> QED
      BY <1>3, <3>1, <3>2
  <2>2. CASE EndStopped(t) \/ EndFails(t)
    <3>1. Waits(bridge[t], Retired(bridge[t]))
      BY <1>0, RetiredFacts DEF Waits
    <3> QED
      BY <1>3, <2>2, <3>1 DEF EndStopped, EndFails
  <2>3. ASSUME NEW b, b.phase = bridge[t].phase, b.away = bridge[t].away,
               bridge' = [bridge EXCEPT ![t] = b]
        PROVE  Waits(bridge[s], bridge'[s])
    BY <1>0, <1>3, <2>3, SameWaits
  <2>4. CASE ReaderLook(t)
    <3>1. PICK r : bridge' = [bridge EXCEPT ![t] = [bridge[t] EXCEPT !.reader = r]]
      BY <1>0, <2>4 DEF ReaderLook
    <3> DEFINE b == [bridge[t] EXCEPT !.reader = r]
    <3>2. b.phase = bridge[t].phase /\ b.away = bridge[t].away
      BY <1>0 DEF BridgeState
    <3> HIDE DEF b
    <3> QED
      BY <2>3, <3>1, <3>2 DEF b
  <2>5. CASE ReaderReads(t)
    <3>1. PICK i : bridge' = [bridge EXCEPT ![t] = [bridge[t] EXCEPT !.reader = "look",
                                                                     !.idle = i]]
      BY <1>0, <2>5 DEF ReaderReads
    <3> DEFINE b == [bridge[t] EXCEPT !.reader = "look", !.idle = i]
    <3>2. b.phase = bridge[t].phase /\ b.away = bridge[t].away
      BY <1>0 DEF BridgeState
    <3>3. bridge' = [bridge EXCEPT ![t] = b]
      BY <3>1
    <3> HIDE DEF b
    <3> QED
      BY <2>3, <3>2, <3>3
  <2>6. CASE ReaderEndedElsewhere(t) \/ ReaderError(t)
    <3> DEFINE b == [bridge[t] EXCEPT !.reader = "remove", !.running = FALSE, !.open = FALSE]
    <3>1. bridge' = [bridge EXCEPT ![t] = b]
      BY <1>0, <2>6 DEF ReaderEndedElsewhere, ReaderError, GivesUp, Closed
    <3>2. b.phase = bridge[t].phase /\ b.away = bridge[t].away
      BY <1>0 DEF BridgeState
    <3> HIDE DEF b
    <3> QED
      BY <2>3, <3>1, <3>2
  <2>7. CASE ReaderRemove(t)
    <3> DEFINE b == [bridge[t] EXCEPT !.reader = "off"]
    <3>1. bridge' = [bridge EXCEPT ![t] = IF b.phase \in Registered THEN Retired(b) ELSE b]
      BY <2>7 DEF ReaderRemove
    <3>2. b \in BridgeState /\ Waits(bridge[t], b)
      BY <1>0, SameWaits DEF BridgeState
    <3>3. Waits(bridge[t], Retired(b))
      BY <3>2, RetiredFacts DEF Waits
    <3> HIDE DEF b
    <3> QED
      BY <1>3, <3>1, <3>2, <3>3
  <2> QED
    BY <2>1, <2>2, <2>4, <2>5, <2>6, <2>7 DEF Teardown, Reader
<1> QED
  BY <1>1, <1>2, <1>4, OverstayedKeeps DEF Overstayed

LEMMA StopWaits ==
    ASSUME TypeInv, NEW s \in Sid, NEW c, NEW r, StopAt(c, r)
    PROVE  Waits(bridge[s], bridge'[s])
<1>0. bridge[s] \in BridgeState /\ Waits(bridge[s], bridge[s])
  BY SameWaits DEF TypeInv, TypeOK
<1>1. Waits(bridge[s], Popped(bridge[s], r))
  BY <1>0 DEF Waits, Popped, BridgeState
<1> QED
  BY <1>0, <1>1 DEF StopAt

LEMMA ProcessOverstayed ==
    ASSUME TypeInv, TypeInv', NEW s \in Sid, Overstayed(s), NEW p \in Proc,
           \/ Monitor(p) \/ Cleaner(p) \/ ForceContinue(p) \/ Restart(p) \/ Startup(p)
           \/ \E t \in Sid : ForceFind(p, t)
    PROVE  Overstayed(s)'
<1>0. /\ bridge \in [Sid -> BridgeState] /\ bridge[s] \in BridgeState
      /\ session \in [Sid -> SessionRow] /\ session[s].status # "absent"
      /\ Waits(bridge[s], bridge[s])
      /\ admin[p].pc # "idle" => admin[p].sid \in Sid
      /\ \A c \in Conn : handler[c].pc \in Making => handler[c].sid # s
  BY SameWaits DEF TypeInv, TypeOK, AdminKnown, Overstayed
<1>1. ASSUME UNCHANGED <<session, handler>>, Waits(bridge[s], bridge'[s])
      PROVE  Overstayed(s)'
  BY <1>0, <1>1, OverstayedKeeps
<1>2. CASE \/ MonitorScan(p) \/ CleanerScan(p) \/ ForceSuspended(p)
           \/ \E t \in Sid : ForceFind(p, t)
  BY <1>0, <1>1, <1>2 DEF MonitorScan, CleanerScan, ForceSuspended, ForceFind
<1>3. CASE MonitorStop(p) \/ ForceStop(p)
  BY <1>1, <1>3, StopWaits DEF MonitorStop, ForceStop
<1>4. CASE CleanerStop(p)
  <2>1. bridge'[s] = bridge[s] \/ bridge'[s] = Popped(bridge[s], "user_disconnect")
    BY <1>0, <1>4 DEF CleanerStop
  <2>2. Waits(bridge[s], Popped(bridge[s], "user_disconnect"))
    BY <1>0 DEF Waits, Popped, BridgeState
  <2> QED
    BY <1>0, <1>1, <1>4, <2>1, <2>2 DEF CleanerStop
<1>5. CASE ForceClose(p)
  <2> DEFINE b == [bridge[s] EXCEPT !.running = FALSE, !.open = FALSE]
  <2>1. bridge'[s] \in {bridge[s], b, Retired(b)}
    <3>1. CASE s = admin[p].sid
      BY <1>0, <1>5, <3>1 DEF ForceClose
    <3>2. CASE s # admin[p].sid
      BY <1>0, <1>5, <3>2 DEF ForceClose
    <3> QED
      BY <3>1, <3>2
  <2>2. b \in BridgeState
    BY <1>0, WrittenBridges
  <2>3. b.phase = bridge[s].phase /\ b.away = bridge[s].away
    BY <1>0 DEF BridgeState
  <2> HIDE DEF b
  <2>4. Waits(bridge[s], b)
    BY <1>0, <2>3, SameWaits
  <2>5. Waits(bridge[s], Retired(b))
    BY <2>2, RetiredFacts DEF Waits
  <2> QED
    BY <1>0, <1>1, <1>5, <2>1, <2>4, <2>5 DEF ForceClose
<1>6. CASE ForceEnd(p)
  <2>1. PICK t \in Sid : EndSession(t, "admin_force")
    BY <1>0, <1>6 DEF ForceEnd
  <2>2. "admin_force" \in Reason
    BY DEF Reason
  <2>3. session'[s].status # "absent"
    BY <1>0, <2>1, <2>2, EndSessionEffect
  <2> QED
    BY <1>0, <1>6, <2>3, OverstayedKeeps DEF ForceEnd
<1>7. CASE Restart(p)
  <2>1. Waits(bridge[s], bridge'[s])
    BY <1>0, <1>7 DEF Restart, Waits, NoBridge
  <2>2. \A c \in Conn : handler'[c] = Down \/ handler'[c] = handler[c]
    BY <1>7 DEF Restart
  <2>3. \A c \in Conn : handler'[c].pc \in Making => handler'[c].sid # s
    BY <1>0, <2>2, DownType DEF Making
  <2> QED
    BY <1>0, <1>7, <2>1, <2>3, OverstayedKeeps DEF Restart
<1>8. CASE StartupLeases(p)
  BY <1>0, <1>1, <1>8 DEF StartupLeases
<1>9. CASE StartupRows(p)
  <2>1. session'[s].status # "absent"
    BY <1>0, <1>9 DEF StartupRows, SessionRow
  <2> QED
    BY <1>0, <1>9, <2>1, OverstayedKeeps DEF StartupRows
<1> QED
  BY <1>2, <1>3, <1>4, <1>5, <1>6, <1>7, <1>8, <1>9
     DEF Monitor, Cleaner, ForceContinue, Startup

LEMMA TickOverstayed ==
    ASSUME TypeInv, TypeInv', NEW s \in Sid, Overstayed(s), Tick
    PROVE  Overstayed(s)'
<1>0. bridge[s] \in BridgeState /\ bridge'[s] = Aged(bridge[s])
  BY DEF TypeInv, TypeOK, Tick
<1>1. Aged(bridge[s]).phase = bridge[s].phase /\ Aged(bridge[s]).away >= bridge[s].away
  <2>1. CASE bridge[s].phase \in {"suspended", "held"}
    BY <1>0, <2>1, LimitAssumption DEF Aged, Later, BridgeState
  <2>2. CASE bridge[s].phase \notin {"suspended", "held"}
    BY <1>0, <2>2 DEF Aged, BridgeState
  <2> QED
    BY <2>1, <2>2
<1>2. UNCHANGED <<session, handler>>
  BY DEF Tick
<1> QED
  BY <1>0, <1>1, <1>2, OverstayedKeeps DEF Waits, Overstayed

LEMMA ServeOverstayed ==
    ASSUME TypeInv, TypeInv', Shape, NEW s \in Sid, Overstayed(s), NEW c \in Conn, Serve(c)
    PROVE  Overstayed(s)'
<1>0. /\ bridge \in [Sid -> BridgeState] /\ handler \in [Conn -> HandlerState]
      /\ session \in [Sid -> SessionRow] /\ session[s].status # "absent"
      /\ bridge[s] \in BridgeState /\ Waits(bridge[s], bridge[s])
      /\ handler[c].pc \in Making \cup {"resume", "rejoin"} => handler[c].sid \in Sid
      /\ \A d \in Conn : handler[d].pc \in Making => handler[d].sid # s
      /\ handler[c] \in HandlerState
  BY SameWaits DEF TypeInv, TypeOK, SidKnown, Overstayed
\* What is left to show of a step whose handler owns another session.
<1>1. ASSUME \A d \in Conn \ {c} : handler'[d] = handler[d],
             handler'[c].pc \in Making => handler'[c].sid # s,
             session'[s].status # "absent", Waits(bridge[s], bridge'[s])
      PROVE  Overstayed(s)'
  <2>1. \A d \in Conn : handler'[d].pc \in Making => handler'[d].sid # s
    BY <1>0, <1>1
  <2> QED
    BY <1>1, <2>1, OverstayedKeeps
<1>2. ASSUME NEW pc, GoOn(c, pc), pc \in Making => handler[c].pc \in Making,
             session'[s].status # "absent", Waits(bridge[s], bridge'[s])
      PROVE  Overstayed(s)'
  BY <1>0, <1>1, <1>2, GoOnFacts
<1>3. ASSUME Handled(c), session'[s].status # "absent", Waits(bridge[s], bridge'[s])
      PROVE  Overstayed(s)'
  BY <1>1, <1>3, HandledFacts DEF Making
<1>4. ASSUME NEW t \in Sid, NEW b, t # s, bridge' = Filed(t, b)
      PROVE  Waits(bridge[s], bridge'[s])
  <2>1. bridge'[s] \in {bridge[s], Retired(bridge[s])}
    BY <1>4 DEF Filed
  <2> QED
    BY <1>0, <2>1, RetiredFacts DEF Waits
<1>5. CASE Resume(c)
  <2>1. /\ bridge'[s] = bridge[s]
           \/ (bridge[s].phase = "suspended"
               /\ bridge'[s] = [bridge[s] EXCEPT !.phase = "held"])
        /\ UNCHANGED session
    BY <1>0, <1>5 DEF Resume, SuspendedIn
  <2>2. bridge[s].phase = "suspended" => Waits(bridge[s], [bridge[s] EXCEPT !.phase = "held"])
    BY <1>0 DEF Waits, BridgeState
  <2>3. Waits(bridge[s], bridge'[s])
    BY <1>0, <2>1, <2>2
  <2>4. GoOn(c, "rejoin") \/ GoOn(c, "quota") \/ Handled(c)
    BY <1>5 DEF Resume
  <2> QED
    BY <1>0, <1>2, <1>3, <2>1, <2>3, <2>4 DEF Making
<1>6. CASE Rejoin(c)
  <2>1. PICK t \in Sid : t = handler[c].sid /\ bridge[t].phase = "held"
    BY <1>0, <1>6 DEF Rejoin, Shape, HandlersFit, Fits
  <2>2. CASE GraceOver(bridge[t])
    <3>1. /\ bridge' = [bridge EXCEPT ![t] = [Retired(bridge[t]) EXCEPT !.open = FALSE]]
          /\ EndSession(t, "user_disconnect") /\ GoOn(c, "quota")
      BY <1>6, <2>1, <2>2 DEF Rejoin
    <3>2. [Retired(bridge[t]) EXCEPT !.open = FALSE].phase = "none"
      BY DEF Retired, NoBridge
    <3>3. Waits(bridge[s], bridge'[s])
      BY <1>0, <3>1, <3>2 DEF Waits
    <3>4. session'[s].status # "absent"
      BY <1>0, <3>1, EndSessionEffect DEF Reason
    <3> QED
      BY <1>2, <3>1, <3>3, <3>4 DEF Making
  <2>3. CASE ~GraceOver(bridge[t])
    <3>1. /\ \E b : bridge' = Filed(t, b)
          /\ Handled(c) /\ UNCHANGED session
      BY <1>6, <2>1, <2>3 DEF Rejoin, database
    <3>2. t # s
      BY <2>1, <2>3 DEF Overstayed, GraceOver
    <3> QED
      BY <1>0, <1>3, <1>4, <3>1, <3>2
  <2> QED
    BY <2>2, <2>3
<1>7. CASE Quota(c)
  <2>1. /\ UNCHANGED <<session, bridge>>
        /\ \A d \in Conn \ {c} : handler'[d] = handler[d]
        /\ handler'[c].pc \in {"create", "ready"}
    BY <1>0, <1>7, HandledFacts DEF Quota, HandlerState
  <2> QED
    BY <1>0, <1>1, <2>1 DEF Making
<1>8. ASSUME NEW t \in Sid, NEW p \in Port, CreateSession(c, t, p) PROVE Overstayed(s)'
  <2>1. t # s
    BY <1>0, <1>8 DEF CreateSession, IsNextSid, Sid
  <2>2. /\ session'[s] = session[s] /\ UNCHANGED bridge
        /\ \A d \in Conn \ {c} : handler'[d] = handler[d]
        /\ handler'[c].sid = t
    BY <1>0, <1>8, <2>1 DEF CreateSession, HandlerState
  <2> QED
    BY <1>0, <1>1, <2>1, <2>2
<1>9. CASE RecoverRead(c)
  <2>1. /\ handler[c].pc \in Making /\ UNCHANGED <<session, bridge>>
        /\ \A d \in Conn \ {c} : handler'[d] = handler[d]
        /\ handler'[c].sid = handler[c].sid
    BY <1>0, <1>9 DEF RecoverRead, HandlerState, Making
  <2> QED
    BY <1>0, <1>1, <2>1
<1>10. CASE RecoverCommit(c)
  <2>1. /\ handler[c].pc \in Making /\ UNCHANGED bridge
        /\ \A d \in Conn \ {c} : handler'[d] = handler[d]
        /\ handler'[c].sid = handler[c].sid
    BY <1>0, <1>10 DEF RecoverCommit, HandlerState, Making
  <2>2. session'[s].status # "absent"
    BY <1>0, <1>10 DEF RecoverCommit, SessionRow
  <2> QED
    BY <1>0, <1>1, <2>1, <2>2
<1>11. CASE ClaimLease(c)
  <2>1. /\ handler[c].pc \in Making /\ UNCHANGED <<session, bridge>>
        /\ GoOn(c, "drop") \/ GoOn(c, "open")
    BY <1>11 DEF ClaimLease, Making
  <2> QED
    BY <1>0, <1>2, <2>1
<1>12. CASE Drop(c)
  <2>1. handler[c].pc \in Making /\ UNCHANGED bridge
    BY <1>12 DEF Drop, Making
  <2>2. session'[s] = session[s]
    BY <1>0, <1>12, <2>1 DEF Drop
  <2>3. /\ \A d \in Conn \ {c} : handler'[d] = handler[d]
        /\ handler'[c].pc \in {"create", "ready"}
    BY <1>0, <1>12, HandledFacts DEF Drop, HandlerState
  <2> QED
    BY <1>0, <1>1, <2>1, <2>2, <2>3 DEF Making
<1>13. CASE Open(c)
  <2>1. handler[c].pc \in Making /\ UNCHANGED session
    BY <1>13 DEF Open, Making
  <2>2. bridge'[s] = bridge[s]
    BY <1>0, <1>13, <2>1 DEF Open
  <2>3. GoOn(c, "attach") \/ GoOn(c, "fail")
    BY <1>13 DEF Open
  <2> QED
    BY <1>0, <1>2, <2>1, <2>2, <2>3
<1>14. CASE Attach(c)
  <2>1. /\ handler[c].pc \in Making /\ Handled(c) /\ UNCHANGED session
        /\ \E b : bridge' = Filed(handler[c].sid, b)
    BY <1>14 DEF Attach, Making
  <2> QED
    BY <1>0, <1>3, <1>4, <2>1
<1>15. CASE Fail(c)
  <2>1. /\ handler[c].pc \in Making /\ Handled(c) /\ UNCHANGED bridge
        /\ EndSession(handler[c].sid, "error") /\ "error" \in Reason
    BY <1>15 DEF Fail, Making, Reason
  <2>2. session'[s].status # "absent"
    BY <1>0, <2>1, EndSessionEffect
  <2> QED
    BY <1>0, <1>3, <2>1, <2>2
<1> QED
  BY <1>5, <1>6, <1>7, <1>8, <1>9, <1>10, <1>11, <1>12, <1>13, <1>14, <1>15 DEF Serve

LEMMA OverstayedNext ==
    ASSUME TypeInv, TypeInv', Shape, NEW s \in Sid, Overstayed(s), [Next]_vars
    PROVE  Overstayed(s)'
<1>1. CASE UNCHANGED vars
  BY <1>1 DEF vars, Overstayed
<1>2. ASSUME NEW c \in Conn, Client(c) \/ Serve(c) PROVE Overstayed(s)'
  BY <1>2, ClientOverstayed, ServeOverstayed
<1>3. ASSUME NEW t \in Sid, Teardown(t) \/ Reader(t) PROVE Overstayed(s)'
  BY <1>3, BridgeThreadOverstayed
<1>4. ASSUME NEW p \in Proc,
             \/ Monitor(p) \/ Cleaner(p) \/ ForceContinue(p) \/ Restart(p) \/ Startup(p)
             \/ \E t \in Sid : ForceFind(p, t)
      PROVE  Overstayed(s)'
  BY <1>4, ProcessOverstayed
<1>5. CASE Tick
  BY <1>5, TickOverstayed
<1> QED
  BY <1>1, <1>2, <1>3, <1>4, <1>5 DEF Next

\* Only CleanerScan puts sessions on a list.
LEMMA ListGrows ==
    ASSUME TypeInv, [Next]_vars, NEW p \in Proc, NEW s \in abandoned'[p]
    PROVE  s \in abandoned[p] \/ CleanerScan(p)
<1>0. abandoned \in [Proc -> SUBSET Sid]
  BY DEF TypeInv, TypeOK
<1>1. CASE UNCHANGED abandoned
  BY <1>1
<1>2. ASSUME NEW q \in Proc, CleanerScan(q) \/ CleanerStop(q) \/ Restart(q)
      PROVE  s \in abandoned[p] \/ CleanerScan(p)
  BY <1>0, <1>2 DEF CleanerScan, CleanerStop, Restart
<1>3. CASE UNCHANGED vars
  BY <1>1, <1>3 DEF vars
<1>4. ASSUME NEW c \in Conn, Client(c) PROVE UNCHANGED abandoned
  BY <1>4 DEF Client, Connect, Disconnect, ClientDisconnect, Request, Input, Heartbeat,
              threads
<1>5. ASSUME NEW c \in Conn, Serve(c) PROVE UNCHANGED abandoned
  BY <1>5 DEF Serve, Resume, Rejoin, Quota, CreateSession, RecoverRead, RecoverCommit,
              ClaimLease, Drop, Open, Attach, Fail, threads
<1>6. ASSUME NEW t \in Sid, Teardown(t) \/ Reader(t), ~EndFails(t)
      PROVE  UNCHANGED abandoned
  BY <1>6 DEF Teardown, CloseStopped, EndStopped, Reader, ReaderLook, ReaderReads,
              ReaderEndedElsewhere, ReaderError, ReaderRemove, threads
<1>7. ASSUME NEW q \in Proc,
             \/ Monitor(q) \/ ForceContinue(q) \/ Startup(q)
             \/ \E t \in Sid : ForceFind(q, t)
      PROVE  UNCHANGED abandoned
  BY <1>7 DEF Monitor, MonitorScan, MonitorStop, ForceContinue, ForceStop,
              ForceSuspended, ForceClose, ForceEnd, ForceFind, Startup, StartupLeases,
              StartupRows
<1>8. CASE Tick
  BY <1>1, <1>8 DEF Tick, threads
<1>9. ASSUME NEW t \in Sid, EndFails(t) PROVE s \in abandoned[p]
  BY <1>0, <1>9 DEF EndFails
<1> QED
  BY <1>1, <1>2, <1>3, <1>4, <1>5, <1>6, <1>7, <1>8, <1>9 DEF Next, Cleaner

\* Nobody but the cleaner pops a suspended bridge.
LEMMA OnlyCleanerCloses ==
    ASSUME TypeInv, [Next]_vars, NEW s \in Sid, bridge[s].phase = "suspended",
           bridge'[s].phase = "closing"
    PROVE  \E p \in Proc : CleanerStop(p) /\ s \in abandoned[p]
<1>0. bridge \in [Sid -> BridgeState] /\ bridge[s] \in BridgeState
      /\ handler \in [Conn -> HandlerState] /\ bridge'[s] # bridge[s]
  BY DEF TypeInv, TypeOK
<1>1. ASSUME NEW c \in Conn, Client(c) PROVE FALSE
  <2>1. CASE Connect(c)
    BY <1>0, <2>1 DEF Connect, AtConn
  <2>2. CASE Disconnect(c)
    BY <1>0, <2>2 DEF Disconnect, AtConn
  <2>3. CASE ClientDisconnect(c)
    BY <1>0, <2>3 DEF ClientDisconnect, StopAt, AtConn
  <2>4. CASE Request(c)
    BY <1>0, <2>4 DEF Request
  <2>5. CASE Input(c) \/ Heartbeat(c)
    BY <1>0, <2>5 DEF Input, Heartbeat, AtConn
  <2> QED
    BY <1>1, <2>1, <2>2, <2>3, <2>4, <2>5 DEF Client
<1>2. ASSUME NEW c \in Conn, Serve(c) PROVE FALSE
  <2>1. CASE UNCHANGED bridge
    BY <1>0, <2>1
  <2>2. CASE Resume(c)
    BY <1>0, <2>2 DEF Resume, BridgeState
  <2>3. ASSUME NEW b, NEW t, b.phase = "active", bridge' = Filed(t, b) PROVE FALSE
    BY <1>0, <2>3, RetiredFacts DEF Filed
  <2>4. CASE Rejoin(c)
    <3> DEFINE t == handler[c].sid
               b == bridge[t]
               a == [b EXCEPT !.phase = "active", !.conn = c, !.idle = 0, !.away = 0]
    <3>1. handler[c].pc = "rejoin" /\ t \in Sid /\ b \in BridgeState
      BY <1>0, <2>4 DEF Rejoin, TypeInv, SidKnown
    <3>2. \/ bridge' = [bridge EXCEPT ![t] = [Retired(b) EXCEPT !.open = FALSE]]
          \/ bridge' = Filed(t, a)
      BY <2>4 DEF Rejoin
    <3>3. a.phase = "active"
      BY <3>1 DEF BridgeState
    <3>4. [Retired(b) EXCEPT !.open = FALSE].phase = "none"
      BY DEF Retired, NoBridge
    <3> HIDE DEF a, b, t
    <3> QED
      BY <1>0, <2>3, <3>2, <3>3, <3>4
  <2>5. CASE Open(c)
    BY <1>0, <2>5 DEF Open, NoBridge
  <2>6. CASE Attach(c)
    <3> DEFINE t == handler[c].sid
               a == [bridge[t] EXCEPT !.phase = "active", !.conn = c,
                                      !.running = TRUE, !.reader = "look"]
    <3>1. t \in Sid /\ bridge[t] \in BridgeState /\ bridge' = Filed(t, a)
      BY <1>0, <2>6 DEF Attach, TypeInv, SidKnown, Making
    <3>2. a.phase = "active"
      BY <3>1 DEF BridgeState
    <3> HIDE DEF a, t
    <3> QED
      BY <2>3, <3>1, <3>2
  <2> QED
    BY <1>2, <2>1, <2>2, <2>4, <2>5, <2>6
       DEF Serve, Quota, CreateSession, RecoverRead, RecoverCommit, ClaimLease, Drop, Fail
<1>3. ASSUME NEW t \in Sid, Teardown(t) \/ Reader(t) PROVE FALSE
  <2>1. ASSUME NEW b, bridge' = [bridge EXCEPT ![t] = b], t = s => b.phase # "closing"
        PROVE  FALSE
    BY <1>0, <2>1
  <2>2. CASE CloseStopped(t)
    BY <1>0, <2>2 DEF CloseStopped
  <2>3. CASE EndStopped(t) \/ EndFails(t)
    BY <1>0, <2>3 DEF EndStopped, EndFails
  <2>4. CASE ReaderLook(t)
    BY <1>0, <2>4 DEF ReaderLook, BridgeState
  <2>5. CASE ReaderReads(t)
    BY <1>0, <2>5 DEF ReaderReads, BridgeState
  <2>6. CASE ReaderEndedElsewhere(t) \/ ReaderError(t)
    BY <1>0, <2>6 DEF ReaderEndedElsewhere, ReaderError, GivesUp, BridgeState
  <2>7. CASE ReaderRemove(t)
    <3> DEFINE b == [bridge[t] EXCEPT !.reader = "off"]
    <3>1. bridge' = [bridge EXCEPT ![t] = IF b.phase \in Registered THEN Retired(b) ELSE b]
      BY <2>7 DEF ReaderRemove
    <3>2. bridge[t] \in BridgeState /\ b.phase = bridge[t].phase /\ Retired(b).phase = "none"
      BY <1>0 DEF BridgeState, Retired, NoBridge
    <3> HIDE DEF b
    <3> QED
      BY <1>0, <2>1, <3>1, <3>2
  <2> QED
    BY <1>3, <2>2, <2>3, <2>4, <2>5, <2>6, <2>7 DEF Teardown, Reader
<1>4. ASSUME NEW p \in Proc, CleanerStop(p) PROVE s \in abandoned[p]
  BY <1>0, <1>4 DEF CleanerStop
<1>5. ASSUME NEW p \in Proc,
             \/ Monitor(p) \/ CleanerScan(p) \/ ForceContinue(p) \/ Restart(p) \/ Startup(p)
             \/ \E t \in Sid : ForceFind(p, t)
      PROVE  FALSE
  <2>1. CASE UNCHANGED bridge
    BY <1>0, <2>1
  <2>2. CASE MonitorStop(p) \/ ForceStop(p)
    BY <1>0, <2>2 DEF MonitorStop, ForceStop, StopAt, AtConn
  <2>3. CASE ForceClose(p)
    <3> DEFINE t == admin[p].sid
               b == [bridge[t] EXCEPT !.running = FALSE, !.open = FALSE]
    <3>1. /\ t \in Sid
          /\ bridge' = [bridge EXCEPT ![t] = IF b.phase \in Registered THEN Retired(b) ELSE b]
      BY <2>3 DEF ForceClose, TypeInv, AdminKnown
    <3>2. b.phase = bridge[t].phase /\ Retired(b).phase = "none"
      BY <1>0, <3>1 DEF BridgeState, Retired, NoBridge
    <3> HIDE DEF b, t
    <3> QED
      BY <1>0, <3>1, <3>2
  <2>4. CASE Restart(p)
    BY <1>0, <2>4 DEF Restart, NoBridge
  <2> QED
    BY <1>5, <2>1, <2>2, <2>3, <2>4
       DEF Monitor, MonitorScan, CleanerScan, ForceContinue, ForceSuspended, ForceEnd,
           ForceFind, Startup, StartupLeases, StartupRows
<1>6. CASE Tick
  BY <1>0, <1>6 DEF Tick, Aged, BridgeState
<1>7. CASE UNCHANGED vars
  BY <1>0, <1>7 DEF vars
<1> QED
  BY <1>1, <1>2, <1>3, <1>4, <1>5, <1>6, <1>7 DEF Next, Cleaner

LEMMA ListsOverstayedNext ==
    TypeInv /\ TypeInv' /\ Shape /\ ListsOverstayed /\ [Next]_vars => ListsOverstayed'
<1> SUFFICES ASSUME TypeInv, TypeInv', Shape, ListsOverstayed, [Next]_vars,
                    NEW p \in Proc, NEW s \in abandoned'[p]
             PROVE  Overstayed(s)'
  BY DEF ListsOverstayed
<1>0. s \in Sid /\ abandoned \in [Proc -> SUBSET Sid]
  BY DEF TypeInv, TypeOK
<1>1. CASE s \in abandoned[p]
  BY <1>0, <1>1, OverstayedNext DEF ListsOverstayed
<1>2. CASE CleanerScan(p)
  <2>1. /\ \/ s \in abandoned[p]
           \/ bridge[s].phase = "suspended" /\ bridge[s].away > GraceTicks
        /\ UNCHANGED <<session, bridge, handler>>
    BY <1>0, <1>2 DEF CleanerScan, SuspendedIn
  <2>2. CASE bridge[s].phase = "suspended" /\ bridge[s].away > GraceTicks
    <3>1. session[s].status # "absent"
      BY <1>0, <2>2 DEF Shape, RowsFit, RowFits
    <3>2. \A c \in Conn : handler[c].pc \in Making => handler[c].sid # s
      BY <2>2 DEF Shape, HandlersFit, Fits, Making
    <3> QED
      BY <2>1, <2>2, <3>1, <3>2 DEF Overstayed
  <2> QED
    BY <1>1, <2>1, <2>2
<1> QED
  BY <1>1, <1>2, ListGrows

\* cleanup_suspended works off a list it made earlier, without the lock, and
\* still ends no session that has not been suspended for the whole grace
\* period when it is popped (cleanup_suspended and resume_bridge in
\* terminal/utils.py).
THEOREM GraceRespectedHolds == Spec => GraceRespected
<1>1. Init => ListsOverstayed
  BY DEF Init, ListsOverstayed
<1>2. ASSUME TypeInv, Shape, ListsOverstayed, [Next]_vars
      PROVE  [\A s \in Sid :
                bridge[s].phase = "suspended" /\ bridge'[s].phase = "closing"
                => bridge[s].away > GraceTicks]_vars
  BY <1>2, OnlyCleanerCloses DEF ListsOverstayed, Overstayed
<1>3. Spec => []ListsOverstayed
  BY <1>1, ListsOverstayedNext, ShapeHolds, PTL DEF Spec
<1> QED
  BY <1>2, <1>3, ShapeHolds, PTL DEF Spec, GraceRespected
=============================================================================
