------------------------------- MODULE Server -------------------------------
(***************************************************************************)
(* The HTTP server of internal/server/server.go and those who poll it,     *)
(* while the workers of module Worker publish.  The handlers hold no state *)
(* and take no lock but the Tracker's: what a reader can put together from *)
(* several answers depends only on the order in which the workers write.   *)
(* Operators called Faulty... are mistaken variants, as in module Worker.  *)
(***************************************************************************)
EXTENDS Worker

CONSTANTS
  Readers,  \* clients, each with one request at a time
  ListName  \* the feed name whose JSON path is that of the list: "feeds"

VARIABLES
  asked,    \* asked[r]: what r has requested
  opened,   \* opened[r]: the file opened for r
  known     \* known[r][n][e]: refresh that <n>.<e> has to be of, at least

svars == <<asked, opened, known>>
allvars == <<wvars, svars>>

NoRequest == [kind |-> "none"]
ForList == [kind |-> "list"]
ForFile(n, e) == [kind |-> "file", name |-> n, ext |-> e]
Requests == {NoRequest, ForList} \cup {ForFile(n, e) : n \in Names, e \in Ext}

ServerTypeOK ==
  /\ TypeOK
  /\ asked \in [Readers -> Requests]
  /\ opened \in [Readers -> File]
  /\ known \in [Readers -> [Names -> [Ext -> Time]]]

ServerInit ==
  /\ WorkerInit
  /\ asked = [r \in Readers |-> NoRequest]
  /\ opened = [r \in Readers |-> NoFile]
  /\ known = [r \in Readers |-> [n \in Names |-> [e \in Ext |-> 0]]]

\* Routes: the exact pattern of the list wins over that of the files.
Route(n, e) == IF n = ListName /\ e = "json" THEN ForList ELSE ForFile(n, e)

\* handleListFeeds: Snapshot copies the whole Tracker under its lock.
\* A success in it tells the reader what each format has to be.
Listed(n) == IF n \in tracked THEN status[n].lastSuccessAt ELSE 0

Larger(a, b) == IF a > b THEN a ELSE b

List(r) ==
  /\ asked[r] = NoRequest
  /\ known' = [known EXCEPT ![r] =
                 [n \in Names |-> [e \in Ext |-> Larger(@[n][e], Listed(n))]]]
  /\ UNCHANGED <<asked, opened>>

\* handleStatic, as far as restrictedDir.Open: 404, or the file of that name.
Open(r, n, e) ==
  /\ asked[r] = NoRequest
  /\ Route(n, e) # ForList
  /\ out[n][e] # NoFile
  /\ asked' = [asked EXCEPT ![r] = Route(n, e)]
  /\ opened' = [opened EXCEPT ![r] = out[n][e]]
  /\ UNCHANGED known

(* The formats that are renamed before e: with a refresh's e, those of the
   same refresh are there as well. *)
UpTo(e) == {outputFormats[i] : i \in {j \in DOMAIN outputFormats :
                \E k \in DOMAIN outputFormats : j <= k /\ outputFormats[k] = e}}

(* http.FileServer sends the file that was opened, whatever has its name by
   now; the reader learns of what refresh it is. *)
Send(r) ==
  /\ asked[r].kind = "file"
  /\ known' = [known EXCEPT ![r][asked[r].name] =
                 [e \in Ext |-> IF e \in UpTo(asked[r].ext)
                                THEN Larger(@[e], opened[r].start) ELSE @[e]]]
  /\ asked' = [asked EXCEPT ![r] = NoRequest]
  /\ opened' = [opened EXCEPT ![r] = NoFile]

Serve(r) == List(r) \/ Send(r) \/ \E n \in Names, e \in Ext : Open(r, n, e)

ServerNext ==
  \/ WorkerNext /\ UNCHANGED svars
  \/ (\E r \in Readers : Serve(r)) /\ UNCHANGED wvars

ServerSpec == ServerInit /\ [][ServerNext]_allvars

-----------------------------------------------------------------------------
(* A reader never goes back in time: once it has seen a success in the list,
   or a file, no later answer under that feed brings an older file - in the
   same format, in one that is published before it, or, after the list, in
   any; a 404 while a feed is removed is all it can get instead. *)
NeverBack ==
  \A r \in Readers, n \in Names, e \in Ext :
    out[n][e] # NoFile => out[n][e].start >= known[r][n][e]

=============================================================================
