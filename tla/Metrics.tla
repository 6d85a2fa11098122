------------------------------ MODULE Metrics -------------------------------
(***************************************************************************)
(* The registry of internal/metrics/metrics.go: workers update one family  *)
(* of series after the other, each under the lock of the family, while     *)
(* /metrics writes the families to its client one after the other - with   *)
(* that same lock held until the client has taken every row.               *)
(* Operators called Faulty... are mistaken variants, as in module Worker.  *)
(***************************************************************************)
EXTENDS Naturals, Sequences, FiniteSets

CONSTANTS
  Writers,    \* workers, each the only one that refreshes its feed
  Scrapers,   \* requests for /metrics, one at a time each
  Shared,     \* the series of extract_total
  Nobody,
  MaxRounds   \* bound: refreshes of a worker

ASSUME MetricsAssumption ==
  /\ Writers \cap Scrapers = {} /\ Nobody \notin Writers \cup Scrapers
  /\ Shared \notin Writers
  /\ MaxRounds \in Nat

(* In the order of their names, which is that of WriteText.  The gauges of
   items and duration go the way of the third one, and the outcomes of a
   counter are added up. *)
FaultyFamilies == <<"extract_total", "refresh_total", "refresh_last_success">>
Families == <<"extract_total", "refresh_last_success", "refresh_total">>
Family == {"extract_total", "refresh_last_success", "refresh_total"}
Counters == {"extract_total", "refresh_total"}
Series(f) == IF f = "extract_total" THEN {Shared} ELSE Writers

\* What a refresh of one article records: RecordExtract, RecordRefreshSuccess
\* unless it fails, and the deferred RecordRefresh.
Success == <<"extract_total", "refresh_last_success", "refresh_total">>
Failure == <<"extract_total", "refresh_total">>

VARIABLES
  value,   \* value[f][l]: a counter, or the refresh a gauge tells of
  lock,    \* lock[f]: who holds m.mu of family f
  rounds,  \* rounds[w]: refreshes begun
  todo,    \* todo[w]: the families still to be updated in this refresh
  read,    \* read[w]: the value w read under the lock
  at,      \* at[s]: the family s is at, 0 if there is no scrape
  left,    \* left[s]: its rows that s has still to write
  shown    \* shown[s]: what s has written in this scrape

vars == <<value, lock, rounds, todo, read, at, left, shown>>
wpart == <<rounds, todo, read>>
spart == <<at, left, shown>>

Label == Writers \cup {Shared}
Table == [Family -> [Label -> Nat]]
Zero == [f \in Family |-> [l \in Label |-> 0]]

TypeOK ==
  /\ value \in Table
  /\ lock \in [Family -> Writers \cup Scrapers \cup {Nobody}]
  /\ rounds \in [Writers -> Nat]
  /\ todo \in [Writers -> Seq(Family)]
  /\ read \in [Writers -> Nat]
  /\ at \in [Scrapers -> 0..Len(Families)]
  /\ left \in [Scrapers -> SUBSET Label]
  /\ shown \in [Scrapers -> Table]
  /\ \A s \in Scrapers : left[s] # {} => at[s] > 0 /\ lock[Families[at[s]]] = s

Init ==
  /\ value = Zero
  /\ lock = [f \in Family |-> Nobody]
  /\ rounds = [w \in Writers |-> 0]
  /\ todo = [w \in Writers |-> <<>>]
  /\ read = [w \in Writers |-> 0]
  /\ at = [s \in Scrapers |-> 0]
  /\ left = [s \in Scrapers |-> {}]
  /\ shown = [s \in Scrapers |-> Zero]

Free(f) == lock[f] = Nobody

-----------------------------------------------------------------------------
(* RecordExtract, RecordRefreshSuccess, RecordRefresh: Add and Set. *)

Refresh(w) ==
  /\ todo[w] = <<>>
  /\ rounds[w] < MaxRounds
  /\ rounds' = [rounds EXCEPT ![w] = @ + 1]
  /\ \E calls \in {Success, Failure} : todo' = [todo EXCEPT ![w] = calls]
  /\ UNCHANGED <<value, lock, read, spart>>

LabelOf(f, w) == IF f = "extract_total" THEN Shared ELSE w

Lock(w) ==
  /\ todo[w] # <<>>
  /\ LET f == Head(todo[w])
     IN /\ Free(f) /\ lock[f] # w
        /\ lock' = [lock EXCEPT ![f] = w]
        /\ read' = [read EXCEPT ![w] = value[f][LabelOf(f, w)]]
  /\ UNCHANGED <<value, rounds, todo, spart>>

Unlock(w) ==
  /\ todo[w] # <<>>
  /\ LET f == Head(todo[w])
     IN /\ lock[f] = w
        /\ lock' = [lock EXCEPT ![f] = Nobody]
        /\ value' = [value EXCEPT ![f][LabelOf(f, w)] =
                       IF f \in Counters THEN read[w] + 1 ELSE rounds[w]]
        /\ read' = [read EXCEPT ![w] = 0]
  /\ todo' = [todo EXCEPT ![w] = Tail(@)]
  /\ UNCHANGED <<rounds, spart>>

-----------------------------------------------------------------------------
(* WriteText. *)

Scrape(s) ==
  /\ at[s] = 0
  /\ at' = [at EXCEPT ![s] = 1]
  /\ UNCHANGED <<value, lock, wpart, left, shown>>

\* The rows of a family are listed once it is locked, after its header.
LockFamily(s) ==
  /\ at[s] > 0
  /\ LET f == Families[at[s]]
     IN /\ Free(f) /\ lock[f] # s
        /\ lock' = [lock EXCEPT ![f] = s]
        /\ left' = [left EXCEPT ![s] = Series(f)]
  /\ UNCHANGED <<value, wpart, at, shown>>

\* The client takes a row; if it does not, the scraper stands here.
WriteRow(s, l) ==
  /\ l \in left[s]
  /\ shown' = [shown EXCEPT ![s][Families[at[s]]][l] = value[Families[at[s]]][l]]
  /\ left' = [left EXCEPT ![s] = @ \ {l}]
  /\ UNCHANGED <<value, lock, wpart, at>>

FamilyDone(s) ==
  /\ at[s] > 0 /\ left[s] = {}
  /\ lock[Families[at[s]]] = s
  /\ lock' = [lock EXCEPT ![Families[at[s]]] = Nobody]
  /\ IF at[s] = Len(Families)
     THEN /\ at' = [at EXCEPT ![s] = 0]
          /\ shown' = [shown EXCEPT ![s] = Zero]
     ELSE /\ at' = [at EXCEPT ![s] = @ + 1]
          /\ UNCHANGED shown
  /\ UNCHANGED <<value, wpart, left>>

FaultyReleased(s) == lock
Released(s) == [f \in Family |-> IF lock[f] = s THEN Nobody ELSE lock[f]]

\* A write fails: the client is gone, or WRITE_TIMEOUT is over.
WriteFails(s) ==
  /\ at[s] > 0
  /\ lock' = Released(s)
  /\ at' = [at EXCEPT ![s] = 0]
  /\ left' = [left EXCEPT ![s] = {}]
  /\ shown' = [shown EXCEPT ![s] = Zero]
  /\ UNCHANGED <<value, wpart>>

-----------------------------------------------------------------------------
Next ==
  \/ \E w \in Writers : Refresh(w) \/ Lock(w) \/ Unlock(w)
  \/ \E s \in Scrapers :
       \/ Scrape(s) \/ LockFamily(s) \/ FamilyDone(s) \/ WriteFails(s)
       \/ \E l \in Label : WriteRow(s, l)

Spec == Init /\ [][Next]_vars

(* A sync.Mutex is not taken for ever by others, and a response ends one way
   or the other because WRITE_TIMEOUT, by default, is not zero.  Nothing
   makes a client read. *)
Fairness ==
  /\ \A w \in Writers : SF_vars(Lock(w)) /\ WF_vars(Unlock(w))
  /\ \A s \in Scrapers : WF_vars(WriteFails(s))

-----------------------------------------------------------------------------
\* s is about to give up the last family, with all its rows written.
Written(s) ==
  /\ at[s] = Len(Families) /\ left[s] = {}
  /\ lock[Families[at[s]]] = s

(* What a scrape shows fits together although its families are read at
   different times: a refresh whose success it shows is counted in it, or
   is the one that was just being recorded. *)
ReportFits ==
  \A s \in Scrapers, w \in Writers :
    Written(s) =>
      shown[s]["refresh_total"][w] + 1 >= shown[s]["refresh_last_success"][w]

(* A worker that records gets on, however slowly the clients of /metrics
   read: the lock they hold while they read is given up in the end. *)
RecordReturns == \A w \in Writers : todo[w] # <<>> ~> todo[w] = <<>>

=============================================================================
