------------------------------- MODULE Service ------------------------------
(***************************************************************************)
(* The whole of runServer in main.go as its clients see it: the process of *)
(* module System over several lives, and the HTTP server of module Server  *)
(* on the same directory and Tracker.                                      *)
(***************************************************************************)
EXTENDS System, Server

servicevars == <<systemvars, svars>>

ServiceInit == SystemInit /\ ServerInit

\* Nobody but the process takes a step within a life.
Internal ==
  /\ LifeStep
  /\ UNCHANGED svars

\* Connections break with the process; clients keep what they know.
ServiceRestart ==
  /\ Restart
  /\ asked' = [r \in Readers |-> NoRequest]
  /\ opened' = [r \in Readers |-> NoFile]
  /\ UNCHANGED known

\* It listens once main's Apply has returned, until after Shutdown.
Request ==
  /\ phase # "boot"
  /\ \E r \in Readers : Serve(r)
  /\ UNCHANGED systemvars

ServiceNext == Internal \/ ServiceRestart \/ Request

ServiceSpec == ServiceInit /\ [][ServiceNext]_servicevars

=============================================================================
