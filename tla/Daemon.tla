------------------------------- MODULE Daemon -------------------------------
(***************************************************************************)
(* The process caramelod: what Run does in order before it answers         *)
(* (internal/sshapi/daemon.go), the listeners and the sessions on them     *)
(* (server.go, tunnel.go), and the way down: the listeners close, the      *)
(* connections get ten seconds, the device and then the store are closed.  *)
(* A session's command runs in a goroutine of its own that ssh.Server does *)
(* not wait for: Shutdown waits for connections.  The import of the setup  *)
(* reports is modelled row by row, because a start can be cut inside it.   *)
(***************************************************************************)
EXTENDS Integers, FiniteSets

CONSTANTS
    ApiListen,    \* "public", "vpn" or "both": api_listen of the configuration
    Sessions,     \* connections at a time
    Reports,      \* setup reports are 1..Reports, in the order of their names
    BadReports,   \* the reports whose file does not parse
    ReportRows,   \* rows (steps) of one report
    MaxStarts,    \* bound: starts of the daemon
    MaxSessions,  \* bound: connections over a behaviour
    MaxDaemonFaults  \* bound: failures of a step, and kills

ASSUME DaemonAssumption == Reports \in Nat /\ ReportRows \in Nat

VARIABLES
    dpc,          \* where Run is
    storeOpen,    \* state.Open .. store.Close
    deviceUp,     \* the tunnel's device
    listening,    \* transports with a listener
    socket,       \* the unix socket's path: none, live, or stale after a kill
    session,      \* the connections: transport, name, whether open, whether a
                  \* command runs, and (history) whether the client left it
    deadline,     \* the ten seconds of the shutdown are over
    importAt,     \* the report and the row ImportSetupReports is at
    rowsOf,       \* how often each row of each report was recorded
    imported,     \* the reports marked setup_imported
    starts, sessionsMade, daemonFaults,
    importCut     \* history: an import failed or was killed on the way

daemonVars == << dpc, storeOpen, deviceUp, listening, socket, session, deadline, importAt,
                 rowsOf, imported, starts, sessionsMade, daemonFaults, importCut >>

Public == ApiListen \in {"public", "both"}    \* APIListensPublic
Vpn == ApiListen \in {"vpn", "both"}          \* APIListensVPN
NoSession == [transport |-> "none", open |-> FALSE, identity |-> "none", runs |-> FALSE, left |-> FALSE]

DaemonInit ==
    /\ dpc = "down" /\ storeOpen = FALSE /\ deviceUp = FALSE
    /\ listening = {} /\ socket = "none"
    /\ session = [s \in Sessions |-> NoSession]
    /\ deadline = FALSE
    /\ importAt = << 1, 1 >>
    /\ rowsOf = [r \in 1..Reports |-> [i \in 1..ReportRows |-> 0]]
    /\ imported = {}
    /\ starts = 0 /\ sessionsMade = 0 /\ daemonFaults = 0
    /\ importCut = FALSE

reportVars == << importAt, rowsOf, imported, importCut >>
bounds == << starts, sessionsMade, daemonFaults >>

Fault == daemonFaults < MaxDaemonFaults /\ daemonFaults' = daemonFaults + 1

------------------------------------------------------------------------------
(* The way up.                                                               *)

Start ==
    /\ dpc = "down" /\ starts < MaxStarts
    /\ dpc' = "store" /\ starts' = starts + 1
    /\ importAt' = << 1, 1 >>
    /\ UNCHANGED << storeOpen, deviceUp, listening, socket, session, deadline, rowsOf, imported,
                    sessionsMade, daemonFaults, importCut >>

OpenStore ==
    /\ dpc = "store"
    /\ \/ dpc' = "attach" /\ storeOpen' = TRUE /\ UNCHANGED daemonFaults
       \/ Fault /\ dpc' = "down" /\ UNCHANGED storeOpen
    /\ UNCHANGED << deviceUp, listening, socket, session, deadline, starts, sessionsMade >>
    /\ UNCHANGED reportVars

\* EnsureHostKey ends the start when the key cannot be read; the vault, the feed,
\* the edge's client, the machine's record and the fleet are attached or only
\* logged as missing.
Attach ==
    /\ dpc = "attach"
    /\ \/ dpc' = "import" /\ UNCHANGED daemonFaults
       \/ Fault /\ dpc' = "unwind"
    /\ UNCHANGED << storeOpen, deviceUp, listening, socket, session, deadline, starts, sessionsMade >>
    /\ UNCHANGED reportVars

MutAlreadyImported(r) == FALSE

\* The setting setup_imported:<file> says a report is in.
AlreadyImported(r) == r \in imported

MutAfterFailure(r) == << r, ReportRows + 1 >>

\* A report that fails is left for the next start.
AfterFailure(r) == << r + 1, 1 >>

\* ImportSetupReports: past a report that is in or does not parse; one row; the
\* mark once every row is recorded.
ImportStep ==
    LET r == importAt[1]  i == importAt[2] IN
    /\ dpc = "import" /\ r <= Reports
    /\ \/ /\ i = 1 /\ (AlreadyImported(r) \/ r \in BadReports)
          /\ importAt' = << r + 1, 1 >>
          /\ UNCHANGED << rowsOf, imported, daemonFaults, importCut >>
       \/ /\ i > 1 \/ ~(AlreadyImported(r) \/ r \in BadReports)
          /\ i <= ReportRows
          /\ \/ /\ rowsOf' = [rowsOf EXCEPT ![r][i] = @ + 1]
                /\ importAt' = << r, i + 1 >>
                /\ UNCHANGED << daemonFaults, importCut >>
             \/ /\ Fault
                /\ importAt' = AfterFailure(r)
                /\ importCut' = TRUE
                /\ UNCHANGED rowsOf
          /\ UNCHANGED imported
       \/ /\ i > ReportRows
          /\ \/ /\ imported' = imported \cup {r}
                /\ importAt' = << r + 1, 1 >>
                /\ UNCHANGED << daemonFaults, importCut >>
             \/ /\ Fault
                /\ importAt' = << Reports + 1, 1 >>
                /\ importCut' = TRUE
                /\ UNCHANGED imported
          /\ UNCHANGED rowsOf
    /\ UNCHANGED << dpc, storeOpen, deviceUp, listening, socket, session, deadline, starts, sessionsMade >>

\* fixUpRepositories, the first push of the routes, ResumeDeploys and the start
\* of the health loop: what fails is logged (Deploy, EdgeControl and HealthLoop
\* model what they do).
Resume ==
    /\ dpc = "import" /\ importAt[1] > Reports
    /\ dpc' = IF Vpn THEN "tunnel" ELSE "listen"
    /\ UNCHANGED << storeOpen, deviceUp, listening, socket, session, deadline >>
    /\ UNCHANGED reportVars /\ UNCHANGED bounds

\* startTunnel: without it a machine that also listens publicly goes on.
StartTunnel ==
    /\ dpc = "tunnel"
    /\ \/ dpc' = "listen" /\ deviceUp' = TRUE /\ UNCHANGED daemonFaults
       \/ Fault /\ dpc' = (IF Public THEN "listen" ELSE "unwind") /\ UNCHANGED deviceUp
    /\ UNCHANGED << storeOpen, listening, socket, session, deadline, starts, sessionsMade >>
    /\ UNCHANGED reportVars

\* Server.Listen: the socket first (a stale one is removed), then the public
\* port, then the listener inside the tunnel; a port that is taken closes what
\* was opened, and closing the socket's listener removes its path.
Listen ==
    /\ dpc = "listen"
    /\ \/ /\ dpc' = "serving"
          /\ listening' = {"socket"} \cup (IF Public THEN {"ssh"} ELSE {})
                          \cup (IF deviceUp THEN {"tunnel"} ELSE {})
          /\ socket' = "live"
          /\ UNCHANGED daemonFaults
       \/ /\ Public /\ Fault
          /\ dpc' = "unwind" /\ socket' = "none"
          /\ UNCHANGED listening
    /\ UNCHANGED << storeOpen, deviceUp, session, deadline, starts, sessionsMade >>
    /\ UNCHANGED reportVars

------------------------------------------------------------------------------
(* Sessions.                                                                 *)

\* The name a connection gets: none on the socket, the entry of authorized_keys
\* (Authorize) on the public port, the peer that owns the address (PeerAt) inside
\* the tunnel; a connection with no name is refused on the last two.
IdentityOn(t) == CASE t = "socket" -> "none" [] t = "ssh" -> "key" [] t = "tunnel" -> "peer"

Connect(s, t) ==
    /\ t \in listening /\ dpc = "serving"
    /\ session[s] = NoSession /\ sessionsMade < MaxSessions
    /\ session' = [session EXCEPT ![s] =
         [transport |-> t, open |-> TRUE, identity |-> IdentityOn(t), runs |-> FALSE, left |-> FALSE]]
    /\ sessionsMade' = sessionsMade + 1
    /\ UNCHANGED << dpc, storeOpen, deviceUp, listening, socket, deadline, starts, daemonFaults >>
    /\ UNCHANGED reportVars

\* handler, serveGit: a command or a git request runs; a session without one, or
\* with one refused over the API, is answered at once and nothing runs.
Command(s) ==
    /\ session[s].open /\ ~session[s].runs
    /\ dpc \in {"serving", "drain"}
    /\ session' = [session EXCEPT ![s].runs = TRUE]
    /\ UNCHANGED << dpc, storeOpen, deviceUp, listening, socket, deadline >>
    /\ UNCHANGED reportVars /\ UNCHANGED bounds

\* Exec or ServeGit returns; the exit status goes to a client that is still there.
CommandEnds(s) ==
    /\ session[s].runs /\ dpc # "down"
    /\ session' = [session EXCEPT ![s] = IF @.open THEN [@ EXCEPT !.runs = FALSE] ELSE NoSession]
    /\ UNCHANGED << dpc, storeOpen, deviceUp, listening, socket, deadline >>
    /\ UNCHANGED reportVars /\ UNCHANGED bounds

\* The client leaves, goes idle for ten minutes, or is lost: the connection ends
\* and the command only learns of it through its context.
HangUp(s) ==
    /\ session[s].open
    /\ session' = [session EXCEPT ![s] = IF @.runs THEN [@ EXCEPT !.open = FALSE, !.left = TRUE]
                                         ELSE NoSession]
    /\ UNCHANGED << dpc, storeOpen, deviceUp, listening, socket, deadline >>
    /\ UNCHANGED reportVars /\ UNCHANGED bounds

------------------------------------------------------------------------------
(* The way down.                                                             *)

\* SIGTERM, or a listener that fails: Serve closes every listener.
Stop ==
    /\ dpc = "serving"
    /\ dpc' = "drain" /\ listening' = {}
    /\ UNCHANGED << storeOpen, deviceUp, socket, session, deadline >>
    /\ UNCHANGED reportVars /\ UNCHANGED bounds

MutTimeLeft == TRUE

\* The context of the shutdown: shutdownTimeout after it was made.
TimeLeft == ~deadline

DeadlinePasses ==
    /\ dpc = "drain" /\ ~deadline
    /\ deadline' = TRUE
    /\ UNCHANGED << dpc, storeOpen, deviceUp, listening, socket, session >>
    /\ UNCHANGED reportVars /\ UNCHANGED bounds

MutDrained == TRUE

\* ssh.Server.Shutdown returns when no connection of it is left (external).
Drained == \A s \in Sessions : ~session[s].open

\* Shutdown on every server; when time is up, Close, which cuts what is left.  The
\* socket's path goes last.
ShutDown ==
    /\ dpc = "drain"
    /\ Drained \/ ~TimeLeft
    /\ session' = [s \in Sessions |-> IF session[s].runs THEN [session[s] EXCEPT !.open = FALSE]
                                      ELSE NoSession]
    /\ dpc' = "unwind" /\ socket' = "none"
    /\ UNCHANGED << storeOpen, deviceUp, listening, deadline >>
    /\ UNCHANGED reportVars /\ UNCHANGED bounds

\* The deferred calls of Run: the device goes down, then the store is closed, and
\* the process ends with whatever still runs in it.
StopDevice ==
    /\ dpc = "unwind" /\ deviceUp
    /\ deviceUp' = FALSE
    /\ UNCHANGED << dpc, storeOpen, listening, socket, session, deadline >>
    /\ UNCHANGED reportVars /\ UNCHANGED bounds

CloseStore ==
    /\ dpc = "unwind" /\ ~deviceUp /\ storeOpen
    /\ storeOpen' = FALSE
    /\ UNCHANGED << dpc, deviceUp, listening, socket, session, deadline >>
    /\ UNCHANGED reportVars /\ UNCHANGED bounds

Exit ==
    /\ dpc = "unwind" /\ ~deviceUp /\ ~storeOpen
    /\ dpc' = "down" /\ deadline' = FALSE
    /\ session' = [s \in Sessions |-> NoSession]
    /\ UNCHANGED << storeOpen, deviceUp, listening, socket >>
    /\ UNCHANGED reportVars /\ UNCHANGED bounds

\* kill -9, or the machine goes: nothing is closed, the socket's path stays.
Kill ==
    /\ dpc # "down" /\ Fault
    /\ dpc' = "down" /\ storeOpen' = FALSE /\ deviceUp' = FALSE /\ listening' = {}
    /\ socket' = IF socket = "live" THEN "stale" ELSE socket
    /\ session' = [s \in Sessions |-> NoSession]
    /\ deadline' = FALSE
    /\ importCut' = (importCut \/ dpc = "import")
    /\ UNCHANGED << importAt, rowsOf, imported, starts, sessionsMade >>

DaemonStep ==
    \/ OpenStore \/ Attach \/ ImportStep \/ Resume \/ StartTunnel \/ Listen
    \/ DeadlinePasses \/ ShutDown \/ StopDevice \/ CloseStore \/ Exit

DaemonNext ==
    \/ Start \/ DaemonStep \/ Stop \/ Kill
    \/ \E s \in Sessions : Command(s) \/ CommandEnds(s) \/ HangUp(s)
    \/ \E s \in Sessions, t \in {"socket", "ssh", "tunnel"} : Connect(s, t)

\* Run's own goroutine goes on, and the timer of the shutdown fires.  Nothing is
\* assumed of the commands or of the clients.
DaemonFairness == WF_daemonVars(DaemonStep)

DaemonSpec == DaemonInit /\ [][DaemonNext]_daemonVars
DaemonLiveSpec == DaemonSpec /\ DaemonFairness

------------------------------------------------------------------------------

DaemonTypeOK ==
    /\ dpc \in {"down", "store", "attach", "import", "tunnel", "listen", "serving", "drain", "unwind"}
    /\ {storeOpen, deviceUp, deadline, importCut} \subseteq BOOLEAN
    /\ listening \subseteq {"socket", "ssh", "tunnel"}
    /\ socket \in {"none", "live", "stale"}
    /\ importAt \in (1..(Reports + 1)) \X (1..(ReportRows + 1))
    /\ imported \subseteq 1..Reports

\* A command whose client did not leave has ended before the store is closed
\* under it, unless the ten seconds of the shutdown ran out (Server.Serve, Run).
CommandsEndFirst ==
    (dpc = "unwind" /\ ~storeOpen /\ ~deadline) =>
        \A s \in Sessions : session[s].runs => session[s].left

\* A report marked as imported has every one of its rows: a start cut in the
\* import, or a row that failed, leaves it to be imported again
\* (ImportSetupReports).
MarkedIsWhole ==
    \A r \in imported, i \in 1..ReportRows : rowsOf[r][i] >= 1

\* However often the daemon starts, a row is recorded once, unless an import was
\* cut on the way (ImportSetupReports, AlreadyImported).
RecordedOnce ==
    ~importCut => \A r \in 1..Reports, i \in 1..ReportRows : rowsOf[r][i] <= 1

\* Commands end before the store is closed under them, a report marked as
\* imported has all its rows, and a row of a report is recorded once (Run).
DaemonOrderly == DaemonTypeOK /\ CommandsEndFirst /\ MarkedIsWhole /\ RecordedOnce

\* A daemon told to stop ends, whatever its clients and its commands do
\* (Server.Serve's shutdownTimeout).
StopEnds == (dpc = "drain") ~> (dpc = "down")
=============================================================================
