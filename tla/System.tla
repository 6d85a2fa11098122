------------------------------- MODULE System -------------------------------
(***************************************************************************)
(* The process of main.go over several lives.  What a life leaves behind   *)
(* is the output directory; workers, Manager, Tracker and metrics begin    *)
(* afresh.  A life may end by a signal and Shutdown, as in module Manager, *)
(* or by a crash between any two steps of any goroutine: there is no code  *)
(* that looks at the directory at startup.                                 *)
(* Operators called Faulty... are mistaken variants, as in module Worker.  *)
(***************************************************************************)
EXTENDS Manager

CONSTANT MaxLives   \* bound: times the process is started

ASSUME SystemAssumption == MaxLives \in Nat

VARIABLES
  life,    \* number of this life
  leaked,  \* dotfiles of earlier lives: pairs of a worker and a format
  lost     \* ghost: names with files that the running Manager knows nothing of

syvars == <<life, leaked, lost>>
systemvars == <<vars, syvars>>

SystemTypeOK ==
  /\ ManagerTypeOK
  /\ life \in Nat
  /\ leaked \subseteq Handle \X Ext
  /\ lost \subseteq Names

SystemInit ==
  /\ ManagerInit
  /\ life = 1
  /\ leaked = {} /\ lost = {}

(* The end of one life, orderly or not, and the start of the next: the clock
   and the directory go on, all else is as newly made. *)
Restart ==
  /\ life < MaxLives
  /\ life' = life + 1
  /\ leaked' = leaked \cup {d \in Handle \X Ext : d[2] \in tmp[d[1]]}
  /\ lost' = {n \in Names : \E e \in Ext : out[n][e] # NoFile}
  /\ pc' = [h \in Handle |-> IF pc[h] = "unborn" THEN "unborn" ELSE "exited"]
  /\ tmp' = [h \in Handle |-> {}]
  /\ tracked' = {}
  /\ status' = [n \in Names |-> FreshStatus]
  /\ metrics' = [n \in Names |-> [ok |-> 0, fail |-> 0, items |-> 0, lastOK |-> 0]]
  /\ workers' = [n \in Names |-> NoHandle]
  /\ want' = <<>>
  /\ mpc' = "free" /\ todo' = {} /\ next' = 1 /\ newCount' = 0
  /\ started' = FALSE /\ phase' = "boot" /\ ctxDone' = FALSE
  /\ watching' \in BOOLEAN
  /\ UNCHANGED <<out, feed, cancelled, start, items, pos, stale, clock, cur>>

\* A step within one life; a feed that is running again is accounted for.
LifeStep ==
  /\ ManagerNext
  /\ lost' = lost \ {n \in Names : workers'[n] # NoHandle}
  /\ UNCHANGED <<life, leaked>>

SystemNext == LifeStep \/ Restart

SystemSpec == SystemInit /\ [][SystemNext]_systemvars

-----------------------------------------------------------------------------
(* What survives a crash.  StatusMatchesDisk and PublishOrder of module Worker
   say the rest: formats of two refreshes may be mixed, but never with a .xml
   that is older, and a success is claimed only after "the next refresh
   restores consistency" (writeOutputs). *)

(* As in Manager, but for the feeds that were removed from the list while the
   process was down: Apply removes the files only of what it was running. *)
ReconciledButLost ==
  (mpc = "free" /\ phase = "serve") =>
    /\ Running = FeedNames(want)
    /\ tracked = FeedNames(want)
    /\ \A i \in DOMAIN want : feed[workers[want[i].name]] = want[i]
    /\ \A n \in Names \ (FeedNames(want) \cup RemoveFails \cup lost), e \in Ext :
         out[n][e] = NoFile

(* The dotfiles that nobody will ever remove are those of the writes that a
   crash cut off, one set of formats for each feed at most, and an orderly
   end leaves none. *)
CrashLeaksLittle ==
  [][leaked' # leaked =>
       /\ phase # "down"
       /\ Cardinality(leaked' \ leaked) <= Len(outputFormats) * Cardinality(tracked)]_systemvars

=============================================================================
