----------------------------- MODULE SyslogSocket -----------------------------
(***************************************************************************)
(* The connection of the syslog logger, TcpTransport and UnixTransport in  *)
(* loggers/syslog/src/syslog-logger.ts.  A connection that is destroyed    *)
(* reports an error and then its close, or its close only, and the         *)
(* transport answers each of the two with a reconnection timer of its own. *)
(* Messages wait in a buffer while `this.socket` is null or destroyed.     *)
(***************************************************************************)
EXTENDS Naturals, FiniteSets

CONSTANTS Conn,       \* connections, the bound on how many are made
          WaitingMax  \* messages the buffer holds (1000)

VARIABLES
  life,        \* what became of each connection
  socket,      \* this.socket, or NoConn
  connecting,
  transportClosed,
  waiting,     \* messages in the buffer
  reconnects   \* setTimeout(() => this.connect(), 1000) pending

syslogVars == <<life, socket, connecting, transportClosed, waiting, reconnects>>

NoConn == "null"

ASSUME SyslogAssumption == WaitingMax \in Nat /\ NoConn \notin Conn

\* "broken" has its error to report, "closing" only its close.
Lives == {"unused", "opening", "open", "broken", "closing", "gone"}

SyslogTypeOK ==
  /\ life \in [Conn -> Lives]
  /\ socket \in Conn \cup {NoConn}
  /\ connecting \in BOOLEAN
  /\ transportClosed \in BOOLEAN
  /\ waiting \in 0..WaitingMax
  /\ reconnects \in Nat

\* The constructor connects.
SyslogInit ==
  /\ \E c \in Conn : life = [x \in Conn |-> IF x = c THEN "opening" ELSE "unused"]
  /\ socket = NoConn
  /\ connecting = TRUE
  /\ transportClosed = FALSE
  /\ waiting = 0
  /\ reconnects = 0

-----------------------------------------------------------------------------
Reconnect ==
  /\ reconnects > 0
  /\ reconnects' = reconnects - 1
  /\ IF transportClosed \/ connecting
     THEN UNCHANGED <<life, connecting>>
     ELSE /\ connecting' = TRUE
          /\ \E c \in Conn : life[c] = "unused" /\ life' = [life EXCEPT ![c] = "opening"]
  /\ UNCHANGED <<socket, transportClosed, waiting>>

Connected(c) ==
  /\ life[c] = "opening"
  /\ life' = [life EXCEPT ![c] = "open"]
  /\ connecting' = FALSE
  /\ socket' = c
  /\ waiting' = 0
  /\ UNCHANGED <<transportClosed, reconnects>>

\* The network destroys the connection: refused, reset, or ended by the peer.
Destroyed(c) ==
  /\ \/ life[c] \in {"opening", "open"} /\ life' = [life EXCEPT ![c] = "broken"]
     \/ life[c] = "open" /\ life' = [life EXCEPT ![c] = "closing"]
  /\ UNCHANGED <<socket, connecting, transportClosed, waiting, reconnects>>

\* What the handlers of 'error' and of 'close' do: the socket they forget is
\* the transport's, whichever connection reported.
TryAgain ==
  /\ socket' = NoConn
  /\ connecting' = FALSE
  /\ reconnects' = IF transportClosed THEN reconnects ELSE reconnects + 1
  /\ UNCHANGED <<transportClosed, waiting>>

OnError(c) ==
  /\ life[c] = "broken"
  /\ life' = [life EXCEPT ![c] = "closing"]
  /\ TryAgain

\* Fault: the close of a connection only forgets it.
CloseForgets(c) ==
  /\ life[c] = "closing"
  /\ life' = [life EXCEPT ![c] = "gone"]
  /\ socket' = NoConn
  /\ connecting' = FALSE
  /\ UNCHANGED <<transportClosed, waiting, reconnects>>
OnClose(c) ==
  /\ life[c] = "closing"
  /\ life' = [life EXCEPT ![c] = "gone"]
  /\ TryAgain

\* A message goes to the socket, or waits, or is dropped when too many do.
SendMessage ==
  /\ socket \in Conn => life[socket] # "open"
  /\ waiting < WaitingMax
  /\ waiting' = waiting + 1
  /\ UNCHANGED <<life, socket, connecting, transportClosed, reconnects>>

\* close() ends the socket it knows.
CloseTransport ==
  /\ ~transportClosed
  /\ transportClosed' = TRUE
  /\ waiting' = 0
  /\ life' = IF \E c \in Conn : c = socket /\ life[c] = "open"
             THEN [life EXCEPT ![socket] = "closing"] ELSE life
  /\ UNCHANGED <<socket, connecting, reconnects>>

SyslogNext ==
  \/ Reconnect \/ SendMessage \/ CloseTransport
  \/ \E c \in Conn : Connected(c) \/ Destroyed(c) \/ OnError(c) \/ OnClose(c)

SyslogSpec == SyslogInit /\ [][SyslogNext]_syslogVars

-----------------------------------------------------------------------------
(***************************************************************************)
(* The handlers of every connection share three fields and may run in any  *)
(* order, yet the transport is never stranded: while it is not closed and  *)
(* has no open socket, or has messages waiting, an attempt is under way, a *)
(* timer is set, or a connection has still to report its end.              *)
(***************************************************************************)
Stirring == reconnects > 0 \/ \E c \in Conn : life[c] \in {"opening", "broken", "closing"}

NeverStranded ==
  ~transportClosed /\ (socket = NoConn \/ waiting > 0) => Stirring
=============================================================================
