--------------------------- MODULE TerminalSessions ---------------------------
(***************************************************************************)
(* Interactive terminal sessions on one device: the rows of                *)
(* terminal_sessions and port_leases, the bridges each web process keeps   *)
(* in memory, and the threads that work on them: the Socket.IO handlers,   *)
(* a reader per bridge, the timeout monitor, the cleaner of suspended      *)
(* bridges, and the administrator's force-disconnect.                      *)
(*                                                                         *)
(* An action is one critical section under _lock, one database            *)
(* transaction, or what a thread does between two of them.  A transaction  *)
(* that reads first and writes later is two actions.                       *)
(***************************************************************************)
EXTENDS Integers, FiniteSets

CONSTANTS
    Proc,         \* processes that run create_app: web workers, flask commands
    AdminProc,    \* the ones that administrators' requests may reach
    Conn,         \* Socket.IO connections
    ProcOf,       \* the process that serves a connection, a function on Conn
    UserOf,       \* the account behind a connection, a function on Conn
    User,
    Port,         \* enabled ports of the device with purpose "interactive"
    MaxSessions,  \* User.max_terminal_sessions
    LeaseTicks,   \* TERMINAL_LEASE_SECONDS, in ticks
    GraceTicks,   \* GRACE_PERIOD, in ticks
    IdleTimeout,  \* DevicePort.idle_timeout_seconds, in ticks
    MaxRuntime,   \* DevicePort.max_runtime_seconds, in ticks
    MaxSessionId, \* bound: session ids in use
    MaxFaults,    \* bound: restarts, device errors and failed commits
    None

ASSUME TopologyAssumption ==
    /\ AdminProc \subseteq Proc
    /\ ProcOf \in [Conn -> Proc]
    /\ UserOf \in [Conn -> User]
    /\ None \notin Proc \cup Conn \cup User \cup Port

ASSUME LimitAssumption ==
    /\ LeaseTicks \in Nat \ {0}
    /\ {MaxSessions, GraceTicks, IdleTimeout, MaxRuntime} \subseteq Nat
    /\ {MaxSessionId, MaxFaults} \subseteq Nat

VARIABLES
    session,   \* the terminal_sessions table
    lease,     \* the port_leases table: at most one row per port (unique)
    bridge,    \* the bridge of each session, wherever it is
    handler,   \* each connection and what its request_session handler holds
    doomed,    \* check_timeouts: connections found expired, not yet stopped
    abandoned, \* cleanup_suspended: sessions found expired, not yet ended
    admin,     \* a force-disconnect in progress in each process
    boot,      \* how far each process is with _cleanup_orphaned_sessions
    lapsed,    \* history: sessions whose lease ran out or was taken away
    faults     \* restarts, device errors and failed commits so far

database == <<session, lease>>
threads  == <<doomed, abandoned, admin, boot>>
vars == <<session, lease, bridge, handler, doomed, abandoned, admin, boot,
          lapsed, faults>>

-----------------------------------------------------------------------------
(* The tables.                                                             *)

Sid == 1 .. MaxSessionId

Reason == {"none", "user_disconnect", "timeout", "idle_timeout", "admin_force",
           "error", "lease_expired", "server_restart"}

SessionRow == [status : {"absent", "active", "disconnected"},
               user   : User \cup {None},
               port   : Port \cup {None},
               reason : Reason]

NoSession == [status |-> "absent", user |-> None, port |-> None,
              reason |-> "none"]

\* left is lease_expires_at - now; at 0 the lease has expired.
LeaseRow == [id : 0 .. MaxSessionId, sid : {0} \cup Sid, left : 0 .. LeaseTicks]

NoLease == [id |-> 0, sid |-> 0, left |-> 0]

Active(s) == session[s].status = "active"

ActiveOf(u) == {s \in Sid : Active(s) /\ session[s].user = u}

Taken_Never(p) == FALSE
Taken(p) == lease[p].sid # 0

\* SQLite gives out one more than the largest id in the table.
IsNextSid(s) ==
    /\ \A t \in Sid : session[t].status # "absent" => t < s
    /\ s > 1 => session[s - 1].status # "absent"

IsNextLeaseId(i) ==
    /\ \A p \in Port : lease[p].id < i
    /\ i > 1 => \E p \in Port : lease[p].id = i - 1

\* end_session: whatever the row is, it becomes disconnected for this reason,
\* and the lease of the session goes.
EndSession(s, reason) ==
    /\ session' = IF session[s].status = "absent" THEN session
                  ELSE [session EXCEPT ![s].status = "disconnected",
                                       ![s].reason = reason]
    /\ lease' = [p \in Port |-> IF lease[p].sid = s THEN NoLease ELSE lease[p]]

-----------------------------------------------------------------------------
(* Bridges.  "active" and "suspended" are the two dictionaries of the      *)
(* process; in the other phases one thread holds the bridge: just opened   *)
(* by start_bridge, held by resume_bridge, popped by a thread that is to   *)
(* close it, closed and about to be ended.                                 *)

Phase == {"none", "opened", "active", "suspended", "held", "closing", "ending"}

Registered == {"active", "suspended"}

BridgeState == [phase   : Phase,
                proc    : Proc \cup {None},
                conn    : Conn \cup {None},   \* its key among the active ones
                running : BOOLEAN,
                open    : BOOLEAN,            \* the serial port
                reader  : {"off", "look", "read", "remove"},
                idle    : 0 .. IdleTimeout + 1, \* now - last_activity
                run     : 0 .. MaxRuntime + 1,  \* now - start_time
                away    : 0 .. GraceTicks + 1,  \* now - suspended_at
                reason  : Reason]

NoBridge == [phase |-> "none", proc |-> None, conn |-> None, running |-> FALSE,
             open |-> FALSE, reader |-> "off", idle |-> 0, run |-> 0,
             away |-> 0, reason |-> "none"]

\* Nothing but its reader thread knows the bridge any more.
Retired(b) == [NoBridge EXCEPT !.open = b.open, !.reader = b.reader]

AtConn(c) == {s \in Sid : bridge[s].phase = "active" /\ bridge[s].conn = c}

SuspendedIn(p) == {s \in Sid : bridge[s].phase = "suspended" /\ bridge[s].proc = p}

HasLocalBridge(p, s) ==
    bridge[s].proc = p /\ bridge[s].phase \in Registered /\ bridge[s].running

\* The bridge of s is filed under connection c, in the place of any other.
Filed(s, b) ==
    [t \in Sid |-> IF t = s THEN b
                   ELSE IF t \in AtConn(b.conn) THEN Retired(bridge[t])
                   ELSE bridge[t]]

\* stop_bridge pops the bridge and clears running.
Popped(b, reason) ==
    [b EXCEPT !.phase = "closing", !.conn = None, !.running = FALSE,
              !.idle = 0, !.run = 0, !.away = 0, !.reason = reason]

\* stop_bridge on connection c: nothing happens when nothing is filed there.
StopAt(c, reason) ==
    bridge' = [s \in Sid |-> IF s \in AtConn(c) THEN Popped(bridge[s], reason)
                                                ELSE bridge[s]]

-----------------------------------------------------------------------------
(* Connections.  handle_request_session takes one request at a time: the   *)
(* page disables its button while one is pending.                          *)

HandlerPc == {"ready", "resume", "rejoin", "quota", "create", "recover",
              "expire", "claim", "drop", "open", "attach", "fail"}

HandlerState == [up    : BOOLEAN,
                 pc    : HandlerPc,
                 sid   : {0} \cup Sid,
                 ports : SUBSET Port,              \* not yet tried
                 dead  : SUBSET (1 .. MaxSessionId), \* lease ids to delete
                 ends  : SUBSET Sid]               \* sessions to disconnect

Down == [up |-> FALSE, pc |-> "ready", sid |-> 0, ports |-> {}, dead |-> {},
         ends |-> {}]

Handled(c) ==
    handler' = [handler EXCEPT ![c] = [Down EXCEPT !.up = handler[c].up]]

GoOn(c, pc) == handler' = [handler EXCEPT ![c].pc = pc]

\* A connection gets a new id each time.  One that no thread uses any more
\* stands for the next; a dead bridge left behind under the old id stays
\* there, and no id leads to it.
Connect(c) ==
    /\ handler[c] = Down
    /\ boot[ProcOf[c]] = "up"
    /\ \A s \in AtConn(c) : ~bridge[s].running
    /\ \A d \in doomed[ProcOf[c]] : d[1] # c
    /\ admin[ProcOf[c]].conn # c
    /\ handler' = [handler EXCEPT ![c].up = TRUE]
    /\ bridge' = [s \in Sid |-> IF s \in AtConn(c)
                                THEN [bridge[s] EXCEPT !.conn = None]
                                ELSE bridge[s]]
    /\ UNCHANGED <<session, lease, threads, lapsed, faults>>

\* handle_disconnect: the bridge of the connection, if it has one by now, is
\* suspended.
Disconnect(c) ==
    /\ handler[c].up
    /\ handler' = [handler EXCEPT ![c].up = FALSE]
    /\ bridge' = [s \in Sid |->
                    IF s \in AtConn(c)
                    THEN [bridge[s] EXCEPT !.phase = "suspended", !.conn = None,
                                           !.running = TRUE, !.idle = 0,
                                           !.away = 0]
                    ELSE bridge[s]]
    /\ UNCHANGED <<session, lease, threads, lapsed, faults>>

ClientDisconnect(c) ==
    /\ handler[c].up
    /\ AtConn(c) # {}
    /\ StopAt(c, "user_disconnect")
    /\ UNCHANGED <<session, lease, handler, threads, lapsed, faults>>

\* handle_request_session, up to the query for an active session of the user.
Request(c) ==
    /\ handler[c].up
    /\ handler[c].pc = "ready"
    /\ \A s \in AtConn(c) : ~bridge[s].running
    /\ \/ \E s \in ActiveOf(UserOf[c]) :
             handler' = [handler EXCEPT ![c].pc = "resume", ![c].sid = s]
       \/ ActiveOf(UserOf[c]) = {} /\ GoOn(c, "quota")
    /\ UNCHANGED <<session, lease, bridge, threads, lapsed, faults>>

\* resume_bridge takes the bridge out of the suspended ones.  Without one the
\* request is denied, unless the session has ended since.
Resume(c) ==
    LET s == handler[c].sid IN
    /\ handler[c].pc = "resume"
    /\ IF s \in SuspendedIn(ProcOf[c])
       THEN /\ bridge' = [bridge EXCEPT ![s].phase = "held"]
            /\ GoOn(c, "rejoin")
       ELSE /\ IF session[s].status = "disconnected"
               THEN GoOn(c, "quota") ELSE Handled(c)
            /\ UNCHANGED bridge
    /\ UNCHANGED <<session, lease, threads, lapsed, faults>>

GraceOver_Never(b) == FALSE
GraceOver(b) == b.away > GraceTicks

\* It files the bridge under the new connection, or ends the session when the
\* grace period is over.
Rejoin(c) ==
    LET s == handler[c].sid  b == bridge[s] IN
    /\ handler[c].pc = "rejoin"
    /\ IF GraceOver(b)
       THEN /\ bridge' = [bridge EXCEPT ![s] = [Retired(b) EXCEPT !.open = FALSE]]
            /\ EndSession(s, "user_disconnect")
            /\ GoOn(c, "quota")
       ELSE /\ bridge' = Filed(s, [b EXCEPT !.phase = "active", !.conn = c,
                                            !.idle = 0, !.away = 0])
            /\ Handled(c)
            /\ UNCHANGED database
    /\ UNCHANGED <<threads, lapsed, faults>>

WithinLimit(u) == Cardinality(ActiveOf(u)) < MaxSessions

Quota(c) ==
    /\ handler[c].pc = "quota"
    /\ IF WithinLimit(UserOf[c]) /\ \E s \in Sid : IsNextSid(s) \* bound
       THEN handler' = [handler EXCEPT ![c].pc = "create", ![c].ports = Port]
       ELSE Handled(c)
    /\ UNCHANGED <<session, lease, bridge, threads, lapsed, faults>>

\* A row is inserted before it is known whether the port is free.
CreateSession(c, s, p) ==
    /\ handler[c].pc = "create"
    /\ p \in handler[c].ports
    /\ IsNextSid(s)
    /\ session' = [session EXCEPT
                     ![s] = [status |-> "active", user |-> UserOf[c],
                             port |-> p, reason |-> "none"]]
    /\ handler' = [handler EXCEPT ![c].pc = "recover", ![c].sid = s,
                                  ![c].ports = @ \ {p}]
    /\ UNCHANGED <<lease, bridge, threads, lapsed, faults>>

\* recover_stale_leases reads the expired leases and decides ...
RecoverRead(c) ==
    LET stale == {p \in Port : Taken(p) /\ lease[p].left = 0} IN
    /\ handler[c].pc = "recover"
    /\ handler' = [handler EXCEPT
         ![c].pc = IF stale = {} THEN "claim" ELSE "expire",
         ![c].dead = {lease[p].id : p \in stale},
         ![c].ends = {s \in {lease[p].sid : p \in stale} :
                        Active(s) /\ ~HasLocalBridge(ProcOf[c], s)}]
    /\ UNCHANGED <<session, lease, bridge, threads, lapsed, faults>>

\* ... and then deletes them by id and disconnects their sessions.
RecoverCommit(c) ==
    LET dying == {p \in Port : lease[p].id \in handler[c].dead} IN
    /\ handler[c].pc = "expire"
    /\ lease' = [p \in Port |-> IF p \in dying THEN NoLease ELSE lease[p]]
    /\ session' = [s \in Sid |->
                     IF s \in handler[c].ends
                     THEN [session[s] EXCEPT !.status = "disconnected",
                                             !.reason = "lease_expired"]
                     ELSE session[s]]
    /\ lapsed' = lapsed \cup {lease[p].sid : p \in dying}
    /\ handler' = [handler EXCEPT ![c].pc = "claim", ![c].dead = {},
                                  ![c].ends = {}]
    /\ UNCHANGED <<bridge, threads, faults>>

\* The INSERT into port_leases: the unique port decides.
ClaimLease(c) ==
    LET s == handler[c].sid  p == session[s].port IN
    /\ handler[c].pc = "claim"
    /\ IF Taken(p)
       THEN GoOn(c, "drop") /\ UNCHANGED lease
       ELSE /\ \E i \in 1 .. MaxSessionId :
                  /\ IsNextLeaseId(i)
                  /\ lease' = [lease EXCEPT ![p] = [id |-> i, sid |-> s,
                                                    left |-> LeaseTicks]]
            /\ GoOn(c, "open")
    /\ UNCHANGED <<session, bridge, threads, lapsed, faults>>

Drop(c) ==
    /\ handler[c].pc = "drop"
    /\ session' = [session EXCEPT ![handler[c].sid] = NoSession]
    /\ IF handler[c].ports = {}
       THEN Handled(c)
       ELSE handler' = [handler EXCEPT ![c].pc = "create", ![c].sid = 0]
    /\ UNCHANGED <<lease, bridge, threads, lapsed, faults>>

\* start_bridge opens the port; it may fail, and it is refused when a dead
\* bridge is still filed under the connection.
Open(c) ==
    LET s == handler[c].sid IN
    /\ handler[c].pc = "open"
    /\ \/ /\ AtConn(c) = {}
          /\ bridge' = [bridge EXCEPT
                          ![s] = [NoBridge EXCEPT !.phase = "opened",
                                                  !.proc = ProcOf[c],
                                                  !.open = TRUE]]
          /\ GoOn(c, "attach")
       \/ GoOn(c, "fail") /\ UNCHANGED bridge
    /\ UNCHANGED <<session, lease, threads, lapsed, faults>>

Attach(c) ==
    LET s == handler[c].sid IN
    /\ handler[c].pc = "attach"
    /\ bridge' = Filed(s, [bridge[s] EXCEPT !.phase = "active", !.conn = c,
                                            !.running = TRUE, !.reader = "look"])
    /\ Handled(c)
    /\ UNCHANGED <<session, lease, threads, lapsed, faults>>

Fail(c) ==
    /\ handler[c].pc = "fail"
    /\ EndSession(handler[c].sid, "error")
    /\ Handled(c)
    /\ UNCHANGED <<bridge, threads, lapsed, faults>>

\* write_to_serial.
Input(c) ==
    /\ handler[c].up
    /\ \E s \in AtConn(c) :
          /\ bridge[s].running /\ bridge[s].open
          /\ bridge' = [bridge EXCEPT ![s].idle = 0]
    /\ UNCHANGED <<session, lease, handler, threads, lapsed, faults>>

\* handle_heartbeat: the page sends one every ten seconds.  The lease is
\* extended if it is there; it is not inserted again.
Heartbeat(c) ==
    /\ handler[c].up
    /\ \E s \in AtConn(c) :
          /\ bridge[s].running
          /\ bridge' = [bridge EXCEPT ![s].idle = 0]
          /\ lease' = [p \in Port |->
                         IF lease[p].sid = s
                         THEN [lease[p] EXCEPT !.left = LeaseTicks]
                         ELSE lease[p]]
    /\ UNCHANGED <<session, handler, threads, lapsed, faults>>

-----------------------------------------------------------------------------
(* The rest of stop_bridge, by the thread that has popped the bridge.      *)

Closed_NotYet(b) == b.open
Closed(b) == FALSE

\* The reader is given two seconds to stop, then the port is closed.
CloseStopped(s) ==
    /\ bridge[s].phase = "closing"
    /\ bridge' = [bridge EXCEPT ![s].phase = "ending",
                                ![s].open = Closed(bridge[s])]
    /\ UNCHANGED <<session, lease, handler, threads, lapsed, faults>>

EndStopped_Unclosed(s) ==
    /\ bridge[s].phase \in {"closing", "ending"}
    /\ EndSession(s, bridge[s].reason)
    /\ bridge' = [bridge EXCEPT ![s] = Retired(bridge[s])]
    /\ UNCHANGED <<handler, threads, lapsed, faults>>
EndStopped(s) ==
    /\ bridge[s].phase = "ending"
    /\ EndSession(s, bridge[s].reason)
    /\ bridge' = [bridge EXCEPT ![s] = Retired(bridge[s])]
    /\ UNCHANGED <<handler, threads, lapsed, faults>>

\* end_session fails: the bridge is gone, the row and the lease stay, and the
\* exception takes the rest of the monitor's or the cleaner's list with it.
EndFails(s) ==
    LET b == bridge[s] IN
    /\ b.phase = "ending"
    /\ faults < MaxFaults
    /\ faults' = faults + 1
    /\ bridge' = [bridge EXCEPT ![s] = Retired(b)]
    /\ doomed' = IF b.reason \in {"timeout", "idle_timeout"}
                 THEN [doomed EXCEPT ![b.proc] = {}] ELSE doomed
    /\ \/ abandoned' = abandoned
       \/ /\ b.reason = "user_disconnect"
          /\ abandoned' = [abandoned EXCEPT ![b.proc] = {}]
    /\ UNCHANGED <<session, lease, handler, admin, boot, lapsed>>

-----------------------------------------------------------------------------
(* _serial_reader.  A turn here is one that checks the database; the turns *)
(* between two checks only read.                                           *)

\* _get_bridge_by_session: a bridge in neither dictionary ends the thread.
ReaderLook(s) ==
    /\ bridge[s].reader = "look"
    /\ bridge' = [bridge EXCEPT
                    ![s].reader = IF bridge[s].phase \in Registered
                                     /\ bridge[s].running
                                  THEN "read" ELSE "off"]
    /\ UNCHANGED <<session, lease, handler, threads, lapsed, faults>>

ReaderReads(s) ==
    /\ bridge[s].reader = "read"
    /\ Active(s)
    /\ bridge[s].open
    /\ \E idle \in {0, bridge[s].idle} :
          bridge' = [bridge EXCEPT ![s].reader = "look", ![s].idle = idle]
    /\ UNCHANGED <<session, lease, handler, threads, lapsed, faults>>

GivesUp(s) ==
    bridge' = [bridge EXCEPT ![s].reader = "remove", ![s].running = FALSE,
                             ![s].open = Closed(bridge[s])]

\* _session_still_active_in_db: the session was ended elsewhere.
ReaderEndedElsewhere(s) ==
    /\ bridge[s].reader = "read"
    /\ ~Active(s)
    /\ GivesUp(s)
    /\ UNCHANGED <<session, lease, handler, threads, lapsed, faults>>

\* A read error: the port was closed by another thread, or the device failed.
ReaderError(s) ==
    /\ bridge[s].reader = "read"
    /\ bridge[s].open => faults < MaxFaults
    /\ faults' = IF bridge[s].open THEN faults + 1 ELSE faults
    /\ GivesUp(s)
    /\ UNCHANGED <<session, lease, handler, threads, lapsed>>

\* _remove_bridge_by_session.  The row and the lease stay as they are.
ReaderRemove(s) ==
    LET b == [bridge[s] EXCEPT !.reader = "off"] IN
    /\ bridge[s].reader = "remove"
    /\ bridge' = [bridge EXCEPT
                    ![s] = IF b.phase \in Registered THEN Retired(b) ELSE b]
    /\ UNCHANGED <<session, lease, handler, threads, lapsed, faults>>

-----------------------------------------------------------------------------
(* check_timeouts and cleanup_suspended: each makes its list under _lock   *)
(* and works it off without.                                               *)

Overdue(c, reason) ==
    \E s \in AtConn(c) :
       /\ bridge[s].running
       /\ reason = "timeout" <=> bridge[s].run > MaxRuntime
       /\ reason = "idle_timeout" => bridge[s].idle > IdleTimeout

TimedOut_IdleOnly(p) ==
    {d \in Conn \X {"idle_timeout"} :
       /\ ProcOf[d[1]] = p
       /\ \E s \in AtConn(d[1]) :
             bridge[s].running /\ bridge[s].idle > IdleTimeout}
TimedOut(p) ==
    {d \in Conn \X {"timeout", "idle_timeout"} :
       ProcOf[d[1]] = p /\ Overdue(d[1], d[2])}

MonitorScan(p) ==
    /\ doomed[p] = {}
    /\ TimedOut(p) # {}
    /\ doomed' = [doomed EXCEPT ![p] = TimedOut(p)]
    /\ UNCHANGED <<session, lease, bridge, handler, abandoned, admin, boot,
                   lapsed, faults>>

MonitorStop(p) ==
    /\ \E d \in doomed[p] :
          /\ StopAt(d[1], d[2])
          /\ doomed' = [doomed EXCEPT ![p] = @ \ {d}]
    /\ UNCHANGED <<session, lease, handler, abandoned, admin, boot, lapsed,
                   faults>>

CleanerScan(p) ==
    LET over == {s \in SuspendedIn(p) : bridge[s].away > GraceTicks} IN
    /\ abandoned[p] = {}
    /\ over # {}
    /\ abandoned' = [abandoned EXCEPT ![p] = over]
    /\ UNCHANGED <<session, lease, bridge, handler, doomed, admin, boot, lapsed,
                   faults>>

CleanerStop(p) ==
    /\ \E s \in abandoned[p] :
          /\ abandoned' = [abandoned EXCEPT ![p] = @ \ {s}]
          /\ bridge' = IF s \in SuspendedIn(p)
                       THEN [bridge EXCEPT
                               ![s] = Popped(bridge[s], "user_disconnect")]
                       ELSE bridge
    /\ UNCHANGED <<session, lease, handler, doomed, admin, boot, lapsed, faults>>

-----------------------------------------------------------------------------
(* force_disconnect_session, for one request per process at a time.        *)

AdminState == [pc   : {"idle", "stop", "suspended", "close", "end"},
               sid  : {0} \cup Sid,
               conn : Conn \cup {None}]

NoRequest == [pc |-> "idle", sid |-> 0, conn |-> None]

\* The route lets only an active session through; find_bridge_sid follows.
ForceFind(p, s) ==
    /\ p \in AdminProc
    /\ boot[p] = "up"
    /\ admin[p] = NoRequest
    /\ Active(s)
    /\ admin' = [admin EXCEPT ![p] =
                   IF HasLocalBridge(p, s) /\ bridge[s].phase = "active"
                   THEN [pc |-> "stop", sid |-> s, conn |-> bridge[s].conn]
                   ELSE [pc |-> "suspended", sid |-> s, conn |-> None]]
    /\ UNCHANGED <<session, lease, bridge, handler, doomed, abandoned, boot,
                   lapsed, faults>>

ForceStop(p) ==
    /\ admin[p].pc = "stop"
    /\ StopAt(admin[p].conn, "admin_force")
    /\ admin' = [admin EXCEPT ![p] = NoRequest]
    /\ UNCHANGED <<session, lease, handler, doomed, abandoned, boot, lapsed,
                   faults>>

ForceSuspended(p) ==
    /\ admin[p].pc = "suspended"
    /\ admin' = [admin EXCEPT ![p].pc = IF admin[p].sid \in SuspendedIn(p)
                                        THEN "close" ELSE "end"]
    /\ UNCHANGED <<session, lease, bridge, handler, doomed, abandoned, boot,
                   lapsed, faults>>

\* The bridge found above is closed and removed from wherever it is by now.
ForceClose(p) ==
    LET s == admin[p].sid
        b == [bridge[s] EXCEPT !.running = FALSE, !.open = FALSE] IN
    /\ admin[p].pc = "close"
    /\ bridge' = [bridge EXCEPT
                    ![s] = IF b.phase \in Registered THEN Retired(b) ELSE b]
    /\ admin' = [admin EXCEPT ![p].pc = "end"]
    /\ UNCHANGED <<session, lease, handler, doomed, abandoned, boot, lapsed,
                   faults>>

ForceEnd(p) ==
    /\ admin[p].pc = "end"
    /\ EndSession(admin[p].sid, "admin_force")
    /\ admin' = [admin EXCEPT ![p] = NoRequest]
    /\ UNCHANGED <<bridge, handler, doomed, abandoned, boot, lapsed, faults>>

-----------------------------------------------------------------------------
(* A process ends and another runs create_app in its place: a restart, or, *)
(* for a process that serves no connection, one more flask command.        *)

Restart(p) ==
    /\ boot[p] = "up"
    /\ faults < MaxFaults
    /\ faults' = faults + 1
    /\ boot' = [boot EXCEPT ![p] = "leases"]
    /\ bridge' = [s \in Sid |-> IF bridge[s].proc = p THEN NoBridge ELSE bridge[s]]
    /\ handler' = [c \in Conn |-> IF ProcOf[c] = p THEN Down ELSE handler[c]]
    /\ doomed' = [doomed EXCEPT ![p] = {}]
    /\ abandoned' = [abandoned EXCEPT ![p] = {}]
    /\ admin' = [admin EXCEPT ![p] = NoRequest]
    /\ UNCHANGED <<session, lease, lapsed>>

\* _cleanup_orphaned_sessions: every lease of every process goes ...
StartupLeases(p) ==
    /\ boot[p] = "leases"
    /\ lease' = [q \in Port |-> NoLease]
    /\ lapsed' = lapsed \cup {lease[q].sid : q \in {q \in Port : Taken(q)}}
    /\ boot' = [boot EXCEPT ![p] = "rows"]
    /\ UNCHANGED <<session, bridge, handler, doomed, abandoned, admin, faults>>

\* ... and, in a transaction of its own, every active session is disconnected.
StartupRows(p) ==
    /\ boot[p] = "rows"
    /\ session' = [s \in Sid |->
                     IF Active(s)
                     THEN [session[s] EXCEPT !.status = "disconnected",
                                             !.reason = "server_restart"]
                     ELSE session[s]]
    /\ boot' = [boot EXCEPT ![p] = "up"]
    /\ UNCHANGED <<lease, bridge, handler, doomed, abandoned, admin, lapsed,
                   faults>>

-----------------------------------------------------------------------------
(* Time.  The clocks of a bridge stop one past what they are compared with.*)

Later_NoStop(n, limit) == n + 1
Later(n, limit) == IF n > limit THEN n ELSE n + 1

Aged(b) ==
    IF b.phase = "active"
    THEN [b EXCEPT !.idle = Later(@, IdleTimeout), !.run = Later(@, MaxRuntime)]
    ELSE IF b.phase \in {"suspended", "held"}
    THEN [b EXCEPT !.away = Later(@, GraceTicks)]
    ELSE b

Tick ==
    /\ \/ \E p \in Port : lease[p].left > 0
       \/ \E s \in Sid : Aged(bridge[s]) # bridge[s]
    /\ lease' = [p \in Port |-> IF lease[p].left > 0
                                THEN [lease[p] EXCEPT !.left = @ - 1]
                                ELSE lease[p]]
    /\ bridge' = [s \in Sid |-> Aged(bridge[s])]
    /\ lapsed' = lapsed \cup {lease[p].sid : p \in {p \in Port : lease[p].left = 1}}
    /\ UNCHANGED <<session, handler, threads, faults>>

-----------------------------------------------------------------------------
Init ==
    /\ session = [s \in Sid |-> NoSession]
    /\ lease = [p \in Port |-> NoLease]
    /\ bridge = [s \in Sid |-> NoBridge]
    /\ handler = [c \in Conn |-> Down]
    /\ doomed = [p \in Proc |-> {}]
    /\ abandoned = [p \in Proc |-> {}]
    /\ admin = [p \in Proc |-> NoRequest]
    /\ boot = [p \in Proc |-> "up"]
    /\ lapsed = {}
    /\ faults = 0

\* What a user and a network do.
Client(c) ==
    \/ Connect(c)
    \/ Disconnect(c)
    \/ ClientDisconnect(c)
    \/ Request(c)
    \/ Input(c)
    \/ Heartbeat(c)

\* The rest of a request, once it has begun.
Serve(c) ==
    \/ Resume(c)
    \/ Rejoin(c)
    \/ Quota(c)
    \/ \E s \in Sid, p \in Port : CreateSession(c, s, p)
    \/ RecoverRead(c)
    \/ RecoverCommit(c)
    \/ ClaimLease(c)
    \/ Drop(c)
    \/ Open(c)
    \/ Attach(c)
    \/ Fail(c)

Teardown(s) == CloseStopped(s) \/ EndStopped(s) \/ EndFails(s)

Reader(s) ==
    \/ ReaderLook(s)
    \/ ReaderReads(s)
    \/ ReaderEndedElsewhere(s)
    \/ ReaderError(s)
    \/ ReaderRemove(s)

Monitor(p) == MonitorScan(p) \/ MonitorStop(p)

Cleaner(p) == CleanerScan(p) \/ CleanerStop(p)

ForceContinue(p) ==
    ForceStop(p) \/ ForceSuspended(p) \/ ForceClose(p) \/ ForceEnd(p)

Startup(p) == StartupLeases(p) \/ StartupRows(p)

Next ==
    \/ \E c \in Conn : Client(c) \/ Serve(c)
    \/ \E s \in Sid : Teardown(s) \/ Reader(s)
    \/ \E p \in Proc : \/ Monitor(p) \/ Cleaner(p)
                       \/ \E s \in Sid : ForceFind(p, s)
                       \/ ForceContinue(p)
                       \/ Restart(p) \/ Startup(p)
    \/ Tick

Spec == Init /\ [][Next]_vars

\* Every thread of a process that runs keeps running, a request that has begun
\* goes on, and time passes.  Users need do nothing.
FairSpec ==
    /\ Spec
    /\ \A c \in Conn : WF_vars(Serve(c))
    /\ \A s \in Sid : WF_vars(Teardown(s)) /\ WF_vars(Reader(s))
    /\ \A p \in Proc : /\ WF_vars(Monitor(p)) /\ WF_vars(Cleaner(p))
                       /\ WF_vars(ForceContinue(p)) /\ WF_vars(Startup(p))
    /\ WF_vars(Tick)

-----------------------------------------------------------------------------
(* The abstract lock that the sessions implement.                          *)

\* Sessions that still have the lease they took, or that their own process
\* ended: by their user, by a timeout or because the port did not open.
Undisturbed ==
    {s \in Sid \ lapsed :
       session[s].reason \in {"none", "user_disconnect", "timeout",
                              "idle_timeout", "error"}}

\* From the INSERT of the row to start_bridge.
Asks(s) ==
    \E c \in Conn : /\ handler[c].sid = s
                    /\ handler[c].pc \in {"recover", "expire", "claim", "drop",
                                         "open"}

StageOf(s) ==
    IF session[s].status = "absent" THEN "absent"
    ELSE IF bridge[s].open THEN IF s \in Undisturbed THEN "holding" ELSE "stray"
    ELSE IF Asks(s) THEN "asking" ELSE "over"

Lock == INSTANCE PortLock WITH
    Session <- Sid,
    Nowhere <- None,
    stage   <- [s \in Sid |-> StageOf(s)],
    at      <- [s \in Sid |-> session[s].port]

-----------------------------------------------------------------------------
(* Properties.                                                             *)

\* Every variable ranges over the values the code can give it.
TypeOK ==
    /\ session \in [Sid -> SessionRow]
    /\ lease \in [Port -> LeaseRow]
    /\ bridge \in [Sid -> BridgeState]
    /\ handler \in [Conn -> HandlerState]
    /\ doomed \in [Proc -> SUBSET (Conn \X {"timeout", "idle_timeout"})]
    /\ abandoned \in [Proc -> SUBSET Sid]
    /\ admin \in [Proc -> AdminState]
    /\ boot \in [Proc -> {"up", "leases", "rows"}]
    /\ lapsed \subseteq Sid
    /\ faults \in 0 .. MaxFaults

OpenOn(p) == {s \in Sid : bridge[s].open /\ session[s].port = p}

\* A port is open for at most one of the sessions nobody else has ended and
\* whose lease has not lapsed: start_bridge opens it only under a lease, and
\* stop_bridge, resume_bridge and cleanup_suspended give the lease up only
\* after they have closed it.
LeaseExcludes == \A p \in Port : Cardinality(OpenOn(p) \cap Undisturbed) <= 1

\* Sessions and ports go by PortLock: a port is opened for a session once, after
\* it asked and while no undisturbed session has it, and neither a resume, a
\* handler or reader that comes late nor a restart opens a port again or makes a
\* session whole that was ended.
ImplementsLock == Lock!Spec

\* A bridge that is in neither dictionary and in no thread's hands has its
\* port closed: no interleaving of a disconnect, a resume, the monitor, the
\* cleaner, the reader and an administrator loses an open port.
NoPortLost == \A s \in Sid : bridge[s].phase = "none" => ~bridge[s].open

\* cleanup_suspended works from a list made earlier; it still ends no session
\* whose user has not been away for the whole grace period, whatever resumes
\* and disconnects came in between.
GraceRespected ==
    [][\A s \in Sid :
          bridge[s].phase = "suspended" /\ bridge'[s].phase = "closing"
          => bridge[s].away > GraceTicks]_vars

\* A session that has been ended, by whichever process, does not keep its port
\* open: some reader, monitor or cleaner notices and closes it.
EndedPortCloses ==
    \A s \in Sid : (bridge[s].open /\ ~Active(s)) ~> ~bridge[s].open

\* The port is open and nobody is at the other end.
Unattended(s) ==
    /\ bridge[s].open
    /\ \/ bridge[s].phase = "suspended"
       \/ /\ bridge[s].phase = "active"
          /\ bridge[s].conn = None \/ ~handler[bridge[s].conn].up

\* Nobody's session stays that way: its user comes back or it is ended, also
\* when the connection was lost while the session was being set up and no
\* disconnect event will suspend it.
UnattendedEnds == \A s \in Sid : Unattended(s) ~> ~Unattended(s)

\* SDD.md 9.8: each session exclusively locks its port for its duration.
PortIsolation == \A p \in Port : Cardinality(OpenOn(p)) <= 1

\* SDD.md 9.8: no user has more than max_terminal_sessions sessions at once,
\* enforced at request_session.
SessionLimit == \A u \in User : Cardinality(ActiveOf(u)) <= MaxSessions

\* SDD.md 7.3: when reading the port fails the session is ended.
ErrorEndsSession ==
    \A s \in Sid :
       (Active(s) /\ bridge[s].reader = "remove") ~> ~Active(s)
=============================================================================
