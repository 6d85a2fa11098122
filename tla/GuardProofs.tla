---------------------------- MODULE GuardProofs -----------------------------
(***************************************************************************)
(* Proofs about Guard, for any hosts, addresses, ports and number of       *)
(* redirects.                                                              *)
(***************************************************************************)
EXTENDS Guard, TLAPS

Allowed(c) == c.port \in AllowedPorts /\ (AllowPrivate \/ c.addr \in Public)

(* A connection passed Control when it was made, and it stays what it is: for
   how long it is left idle, and for whom it is used again, does not matter. *)
ConnInv ==
  /\ \A c \in idle : Allowed(c)
  /\ pc = "wait" => conn \in Conns /\ Allowed(conn)
  /\ pc # "idle" => url.http

GuardInv == TypeOK /\ ConnInv

LEMMA GuardInit == Init => GuardInv
BY GuardAssumption DEF Init, GuardInv, TypeOK, ConnInv, URLs

\* Whether the connection is given up or left idle, only allowed ones are.
LEMMA LetGoKeepsAllowed ==
  ASSUME GuardInv, pc = "wait", LetGo
  PROVE  /\ conn' = NoConn /\ idle' \subseteq Conns
         /\ \A c \in idle' : Allowed(c)
<1>1. conn \in Conns
  BY DEF GuardInv, ConnInv
<1>2. idle' = idle \/ idle' = idle \cup {conn}
  BY DEF LetGo
<1> QED
  BY <1>1, <1>2 DEF LetGo, GuardInv, TypeOK, ConnInv

LEMMA GuardStep ==
  ASSUME GuardInv, Next
  PROVE  GuardInv'
<1>a. TypeOK /\ ConnInv
  BY DEF GuardInv
<1>1. ASSUME NEW u \in URLs, Do(u) PROVE GuardInv'
  BY <1>a, <1>1, GuardAssumption DEF Do, GuardInv, TypeOK, ConnInv
<1>2. ASSUME NEW u \in URLs, Redirected(u) PROVE GuardInv'
  <2>1. /\ conn' = NoConn /\ idle' \subseteq Conns
        /\ \A c \in idle' : Allowed(c)
    BY <1>2, LetGoKeepsAllowed DEF Redirected
  <2> QED
    BY <2>1, <1>a, <1>2, GuardAssumption
    DEF Redirected, CheckRedirect, GuardInv, TypeOK, ConnInv
<1>3. ASSUME NEW c \in Conns, Reuse(c) PROVE GuardInv'
  BY <1>a, <1>3 DEF Reuse, GuardInv, TypeOK, ConnInv, Allowed
<1>4. ASSUME NEW c \in Conns, Close(c) PROVE GuardInv'
  BY <1>a, <1>4 DEF Close, GuardInv, TypeOK, ConnInv, Allowed
<1>5. ASSUME NEW a \in Addrs, Dial(a) PROVE GuardInv'
  <2>1. conn' \in Conns /\ conn'.host = url.host /\ conn'.port = url.port /\ conn'.addr = a
    BY <1>a, <1>5 DEF Dial, TypeOK, Conns, URLs
  <2>2. Allowed(conn')
    BY <1>5, <2>1 DEF Dial, Control, Allowed
  <2> QED
    BY <2>1, <2>2, <1>a, <1>5 DEF Dial, GuardInv, TypeOK, ConnInv
<1>6. CASE Answered
  <2>1. /\ conn' = NoConn /\ idle' \subseteq Conns
        /\ \A c \in idle' : Allowed(c)
    BY <1>6, LetGoKeepsAllowed DEF Answered
  <2> QED
    BY <2>1, <1>a, <1>6 DEF Answered, GuardInv, TypeOK, ConnInv
<1>7. CASE Fails
  BY <1>a, <1>7 DEF Fails, GuardInv, TypeOK, ConnInv
<1> QED
  BY <1>1, <1>2, <1>3, <1>4, <1>5, <1>6, <1>7 DEF Next

(* Every request of every hop, over a new connection or a reused one, goes to
   an allowed port of an allowed address (makeControl and CheckRedirect). *)
THEOREM HopsAreChecked == Spec => []EveryHopChecked
<1>1. GuardInv /\ UNCHANGED vars => GuardInv'
  BY DEF GuardInv, TypeOK, ConnInv, Allowed, vars
<1>2. GuardInv /\ [Next]_vars => GuardInv'
  BY <1>1, GuardStep
<1>3. GuardInv => EveryHopChecked
  BY DEF GuardInv, TypeOK, ConnInv, Allowed, EveryHopChecked
<1> QED
  BY GuardInit, <1>2, <1>3, PTL DEF Spec

=============================================================================
