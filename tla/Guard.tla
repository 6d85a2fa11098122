------------------------------- MODULE Guard --------------------------------
(***************************************************************************)
(* The HTTP client of internal/safehttp/safehttp.go: a request and the     *)
(* redirects that follow it, each over a new connection, whose address the *)
(* dialer's Control has seen, or over one that was left idle.  What a host *)
(* name resolves to may be another address each time.                      *)
(* Operators called Faulty... are mistaken variants, as in module Worker.  *)
(***************************************************************************)
EXTENDS Naturals, FiniteSets

CONSTANTS
  Hosts,         \* host names
  Addrs,         \* IP addresses
  Public,        \* those that IsPublicIP accepts
  Ports,         \* ports in URLs
  AllowedPorts,
  AllowPrivate,  \* ALLOW_PRIVATE_ADDRESSES
  MaxRedirects,
  MaxIdle        \* bound: idle connections

ASSUME GuardAssumption ==
  /\ Public \subseteq Addrs /\ AllowedPorts \subseteq Ports
  /\ AllowPrivate \in BOOLEAN
  /\ MaxRedirects \in Nat \ {0} /\ MaxIdle \in Nat

URLs == [http : BOOLEAN, host : Hosts, port : Ports]
Conns == [host : Hosts, port : Ports, addr : Addrs]
NoConn == [none |-> TRUE]

VARIABLES
  pc,    \* "idle", "connect", "wait": where Do stands
  url,   \* the URL of the current hop
  via,   \* number of requests sent before it
  conn,  \* the connection it is sent over
  idle   \* connections of the Transport that can be used again

vars == <<pc, url, via, conn, idle>>

TypeOK ==
  /\ pc \in {"idle", "connect", "wait"}
  /\ url \in URLs
  /\ via \in 0..(MaxRedirects - 1)
  /\ conn \in Conns \cup {NoConn}
  /\ idle \subseteq Conns
  /\ pc = "wait" => conn.host = url.host /\ conn.port = url.port

Init ==
  /\ pc = "idle"
  /\ url \in URLs
  /\ via = 0
  /\ conn = NoConn
  /\ idle = {}

\* Do: of the schemes, the Transport knows only http and https.
Do(u) ==
  /\ pc = "idle"
  /\ u.http
  /\ pc' = "connect"
  /\ url' = u
  /\ via' = 0
  /\ UNCHANGED <<conn, idle>>

\* The Transport finds an idle connection for scheme, host and port.
Reuse(c) ==
  /\ pc = "connect"
  /\ c \in idle
  /\ c.host = url.host /\ c.port = url.port
  /\ conn' = c
  /\ idle' = idle \ {c}
  /\ pc' = "wait"
  /\ UNCHANGED <<url, via>>

FaultyControl(a, port) == via > 0 \/ (port \in AllowedPorts /\ (AllowPrivate \/ a \in Public))
Control(a, port) == port \in AllowedPorts /\ (AllowPrivate \/ a \in Public)

\* The host is looked up and one of its addresses passes Control.
Dial(a) ==
  /\ pc = "connect"
  /\ Control(a, url.port)
  /\ conn' = [host |-> url.host, port |-> url.port, addr |-> a]
  /\ pc' = "wait"
  /\ UNCHANGED <<url, via, idle>>

\* The connection is given up or left idle.
LetGo ==
  /\ conn' = NoConn
  /\ idle' \in {idle} \cup (IF Cardinality(idle) < MaxIdle THEN {idle \cup {conn}} ELSE {})

CheckRedirect(u) == via + 1 < MaxRedirects /\ u.http

\* The answer is a redirect that is followed.
Redirected(u) ==
  /\ pc = "wait"
  /\ CheckRedirect(u)
  /\ LetGo
  /\ url' = u
  /\ via' = via + 1
  /\ pc' = "connect"

\* Any other answer, and a redirect that is refused.
Answered ==
  /\ pc = "wait"
  /\ LetGo
  /\ pc' = "idle"
  /\ UNCHANGED <<url, via>>

\* No address passes, none answers, or the timeout of the client is over.
Fails ==
  /\ pc # "idle"
  /\ pc' = "idle"
  /\ conn' = NoConn
  /\ UNCHANGED <<url, via, idle>>

\* IdleConnTimeout, or the server closes it.
Close(c) ==
  /\ c \in idle
  /\ idle' = idle \ {c}
  /\ UNCHANGED <<pc, url, via, conn>>

Next ==
  \/ \E u \in URLs : Do(u) \/ Redirected(u)
  \/ \E c \in Conns : Reuse(c) \/ Close(c)
  \/ \E a \in Addrs : Dial(a)
  \/ Answered \/ Fails

Spec == Init /\ [][Next]_vars

-----------------------------------------------------------------------------
(* Whichever hop it is, whatever its name resolved to before, and whether or
   not the connection is new: a request goes to an address and a port that
   are allowed (makeControl, CheckRedirect "intentionally relies on the
   dialer's Control hook", safehttp_test.go:99). *)
EveryHopChecked ==
  pc = "wait" => /\ url.http
                 /\ conn.port \in AllowedPorts
                 /\ AllowPrivate \/ conn.addr \in Public

=============================================================================
