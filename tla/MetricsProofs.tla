---------------------------- MODULE MetricsProofs ----------------------------
(***************************************************************************)
(* Proofs about Metrics: what a scrape puts together, for any number of    *)
(* workers, scrapers and refreshes.                                        *)
(***************************************************************************)
EXTENDS Metrics, TLAPS

\* What is left of Success and Failure at any time.
Lists == {Success, Failure,
          <<"refresh_last_success", "refresh_total">>, <<"refresh_total">>, <<>>}

Holding(w, f) == todo[w] # <<>> /\ Head(todo[w]) = f /\ read[w] = value[f][LabelOf(f, w)]

(* A refresh is counted last: the counter is behind rounds by the refresh that
   is being recorded, and a success is never of a later one. *)
CountInv(w) ==
  /\ todo[w] \in Lists
  /\ value["refresh_total"][w] + (IF todo[w] = <<>> THEN 0 ELSE 1) = rounds[w]
  /\ value["refresh_last_success"][w] <= rounds[w]
  /\ \A f \in Family : lock[f] = w => Holding(w, f)

\* The lock of a family is that of its scraper while rows are being written.
ScrapeInv(s) ==
  /\ \A f \in Family : lock[f] = s => at[s] > 0 /\ f = Families[at[s]]
  /\ left[s] # {} => at[s] > 0 /\ lock[Families[at[s]]] = s
  /\ \A w \in Writers :
       /\ shown[s]["refresh_last_success"][w] <= value["refresh_total"][w] + 1
       /\ (at[s] = 3 /\ lock["refresh_total"] = s /\ w \notin left[s]) =>
            shown[s]["refresh_total"][w] + 1 >= shown[s]["refresh_last_success"][w]

MetricsInv ==
  /\ TypeOK
  /\ \A w \in Writers : CountInv(w)
  /\ \A s \in Scrapers : ScrapeInv(s)

LEMMA FamilyTable ==
  /\ Len(Families) = 3
  /\ Families[1] = "extract_total"
  /\ Families[2] = "refresh_last_success"
  /\ Families[3] = "refresh_total"
  /\ \A i \in 1..3 : Families[i] \in Family
BY DEF Families, Family

\* The lists, taken apart.
LEMMA ListTable ==
  /\ Lists \subseteq Seq(Family)
  /\ \A t \in Lists \ {<<>>} :
       /\ Head(t) \in Family /\ Tail(t) \in Lists
       /\ Tail(t) = <<>> <=> Head(t) = "refresh_total"
  /\ Success \in Lists /\ Failure \in Lists /\ Success # <<>> /\ Failure # <<>>
<1>1. \A t \in Lists : t \in Seq(Family)
  <2>1. /\ "extract_total" \in Family /\ "refresh_last_success" \in Family
        /\ "refresh_total" \in Family
    BY DEF Family
  <2>2. Success \in Seq(Family)
    BY <2>1 DEF Success
  <2>3. Failure \in Seq(Family)
    BY <2>1 DEF Failure
  <2>4. <<"refresh_last_success", "refresh_total">> \in Seq(Family)
    BY <2>1
  <2>5. <<"refresh_total">> \in Seq(Family) /\ <<>> \in Seq(Family)
    BY <2>1
  <2> QED
    BY <2>2, <2>3, <2>4, <2>5 DEF Lists
<1>2. /\ Head(Success) = "extract_total" /\ Success # <<>>
      /\ Tail(Success) = <<"refresh_last_success", "refresh_total">>
  BY DEF Success
<1>3. /\ Head(Failure) = "extract_total" /\ Failure # <<>>
      /\ Tail(Failure) = <<"refresh_total">>
  BY DEF Failure
<1>4. /\ Head(<<"refresh_last_success", "refresh_total">>) = "refresh_last_success"
      /\ Tail(<<"refresh_last_success", "refresh_total">>) = <<"refresh_total">>
      /\ Head(<<"refresh_total">>) = "refresh_total" /\ Tail(<<"refresh_total">>) = <<>>
  OBVIOUS
<1>5. <<"refresh_last_success", "refresh_total">> # <<>> /\ <<"refresh_total">> # <<>>
  OBVIOUS
<1> QED
  BY <1>1, <1>2, <1>3, <1>4, <1>5 DEF Lists, Family

\* A step that leaves the scrapers alone, but for locks that are not theirs.
LEMMA TypeFrame ==
  ASSUME TypeOK, UNCHANGED spart,
         value' \in [Family -> [Label -> Nat]],
         lock' \in [Family -> Writers \cup Scrapers \cup {Nobody}],
         \A s \in Scrapers, f \in Family : lock'[f] = s <=> lock[f] = s,
         rounds' \in [Writers -> Nat],
         todo' \in [Writers -> Seq(Family)],
         read' \in [Writers -> Nat]
  PROVE  TypeOK'
<1>1. /\ at' \in [Scrapers -> 0..Len(Families)]
      /\ left' \in [Scrapers -> SUBSET Label]
      /\ shown' \in [Scrapers -> Table]
      /\ value' \in Table
  BY DEF TypeOK, spart, Table
<1>2. ASSUME NEW s \in Scrapers, left'[s] # {}
      PROVE  at'[s] > 0 /\ lock'[Families[at'[s]]] = s
  <2>1. at[s] > 0 /\ lock[Families[at[s]]] = s /\ at'[s] = at[s]
    BY <1>2 DEF TypeOK, spart
  <2>2. at[s] \in 1..3
    BY <2>1, FamilyTable DEF TypeOK
  <2> QED
    BY <2>1, <2>2, FamilyTable
<1> QED
  BY <1>1, <1>2 DEF TypeOK

LEMMA MetricsInvInit == Init => MetricsInv
<1> SUFFICES ASSUME Init PROVE MetricsInv
  OBVIOUS
<1>1. Zero \in Table /\ \A f \in Family, l \in Label : Zero[f][l] = 0
  BY DEF Zero, Table
<1>2. TypeOK
  BY <1>1, FamilyTable DEF Init, TypeOK
<1>3. ASSUME NEW w \in Writers PROVE CountInv(w)
  BY <1>1, MetricsAssumption DEF Init, CountInv, Family, Label, Lists
<1>4. ASSUME NEW s \in Scrapers PROVE ScrapeInv(s)
  BY <1>1, MetricsAssumption DEF Init, ScrapeInv, Family, Label
<1> QED
  BY <1>2, <1>3, <1>4 DEF MetricsInv

-----------------------------------------------------------------------------
\* A worker's steps: they change its own series and the shared one.
LEMMA WorkerSteps ==
  ASSUME MetricsInv, NEW w \in Writers, Refresh(w) \/ Lock(w) \/ Unlock(w)
  PROVE  MetricsInv'
<1>a. /\ TypeOK /\ CountInv(w) /\ todo[w] \in Lists
      /\ \A f \in Family : LabelOf(f, w) \in Label
      /\ LabelOf("refresh_total", w) = w /\ LabelOf("refresh_last_success", w) = w
      /\ w \in Label /\ w # Nobody /\ w \notin Scrapers
  BY MetricsAssumption DEF MetricsInv, CountInv, LabelOf, Label
<1>b. /\ value \in [Family -> [Label -> Nat]]
      /\ lock \in [Family -> Writers \cup Scrapers \cup {Nobody}]
      /\ rounds \in [Writers -> Nat] /\ read \in [Writers -> Nat]
      /\ todo \in [Writers -> Seq(Family)]
  BY <1>a DEF TypeOK, Table
<1>c. UNCHANGED spart
  BY DEF Refresh, Lock, Unlock
<1>1. CASE Refresh(w)
  <2>1. PICK calls \in {Success, Failure} :
          /\ todo[w] = <<>> /\ todo' = [todo EXCEPT ![w] = calls]
          /\ rounds' = [rounds EXCEPT ![w] = @ + 1]
          /\ UNCHANGED <<value, lock, read, spart>>
    BY <1>1 DEF Refresh
  <2>2. calls \in Lists /\ calls # <<>> /\ calls \in Seq(Family)
    BY <2>1, ListTable
  <2>3. TypeOK'
    <3>1. rounds' \in [Writers -> Nat] /\ todo' \in [Writers -> Seq(Family)]
      BY <2>1, <2>2, <1>b
    <3> QED
      BY <2>1, <3>1, <1>a, <1>b, <1>c, TypeFrame
  <2>4. CountInv(w)'
    BY <2>1, <2>2, <1>a, <1>b DEF CountInv, Holding, Family
  <2>5. ASSUME NEW v \in Writers \ {w} PROVE CountInv(v)'
    BY <2>1, <1>b DEF MetricsInv, CountInv, Holding
  <2>6. ASSUME NEW s \in Scrapers PROVE ScrapeInv(s)'
    BY <2>1 DEF MetricsInv, ScrapeInv, spart
  <2> QED
    BY <2>3, <2>4, <2>5, <2>6 DEF MetricsInv
<1>2. CASE Lock(w)
  <2>1. PICK f \in Family :
          /\ f = Head(todo[w]) /\ todo[w] # <<>> /\ lock[f] = Nobody
          /\ lock' = [lock EXCEPT ![f] = w]
          /\ read' = [read EXCEPT ![w] = value[f][LabelOf(f, w)]]
          /\ UNCHANGED <<value, rounds, todo, spart>>
    BY <1>2, <1>a, ListTable DEF Lock, Free
  <2>2. TypeOK'
    <3>1. value[f][LabelOf(f, w)] \in Nat
      BY <1>a, <1>b
    <3>2. /\ read' \in [Writers -> Nat]
          /\ lock' \in [Family -> Writers \cup Scrapers \cup {Nobody}]
      BY <2>1, <3>1, <1>b
    <3>3. \A s \in Scrapers, g \in Family : lock'[g] = s <=> lock[g] = s
      BY <2>1, <1>a, <1>b, MetricsAssumption
    <3> QED
      BY <2>1, <3>2, <3>3, <1>a, <1>b, <1>c, TypeFrame
  <2>3. CountInv(w)'
    <3>1. ASSUME NEW g \in Family, lock'[g] = w PROVE Holding(w, g)'
      BY <3>1, <2>1, <1>a, <1>b DEF CountInv, Holding
    <3> QED
      BY <3>1, <2>1, <1>a DEF CountInv
  <2>4. ASSUME NEW v \in Writers \ {w} PROVE CountInv(v)'
    BY <2>1, <1>b DEF MetricsInv, CountInv, Holding
  <2>5. ASSUME NEW s \in Scrapers PROVE ScrapeInv(s)'
    <3>1. \A g \in Family : lock'[g] = s <=> lock[g] = s
      BY <2>1, <1>a, <1>b, MetricsAssumption
    <3>2. left'[s] # {} => at'[s] > 0 /\ lock'[Families[at'[s]]] = s
      BY <2>2 DEF TypeOK
    <3> QED
      BY <3>1, <3>2, <2>1 DEF MetricsInv, ScrapeInv, spart, Family
  <2> QED
    BY <2>2, <2>3, <2>4, <2>5 DEF MetricsInv
<1>3. CASE Unlock(w)
  <2>1. PICK f \in Family :
          /\ f = Head(todo[w]) /\ todo[w] # <<>> /\ lock[f] = w
          /\ lock' = [lock EXCEPT ![f] = Nobody]
          /\ value' = [value EXCEPT ![f][LabelOf(f, w)] =
                         IF f \in Counters THEN read[w] + 1 ELSE rounds[w]]
          /\ read' = [read EXCEPT ![w] = 0]
          /\ todo' = [todo EXCEPT ![w] = Tail(@)]
          /\ UNCHANGED <<rounds, spart>>
    BY <1>3, <1>a, ListTable DEF Unlock
  <2>2. Holding(w, f) /\ Tail(todo[w]) \in Lists /\ Tail(todo[w]) \in Seq(Family)
        /\ (Tail(todo[w]) = <<>> <=> f = "refresh_total")
    BY <2>1, <1>a, ListTable DEF CountInv
  <2>3. /\ f \in Counters => value'[f][LabelOf(f, w)] = value[f][LabelOf(f, w)] + 1
        /\ f \notin Counters => value'[f][LabelOf(f, w)] = rounds[w]
        /\ \A g \in Family, l \in Label :
              ~(g = f /\ l = LabelOf(f, w)) => value'[g][l] = value[g][l]
        /\ value' \in [Family -> [Label -> Nat]]
    <3>1. read[w] = value[f][LabelOf(f, w)]
      BY <2>2 DEF Holding
    <3>2. LabelOf(f, w) \in Label /\ read[w] \in Nat /\ rounds[w] \in Nat
      BY <1>a, <1>b
    <3>3. PICK n \in Nat : n = IF f \in Counters THEN read[w] + 1 ELSE rounds[w]
      BY <3>2
    <3>4. value' = [value EXCEPT ![f][LabelOf(f, w)] = n]
      BY <2>1, <3>3
    <3> QED
      BY <3>1, <3>2, <3>3, <3>4, <1>b
  <2>4. TypeOK'
    <3>1. /\ read' \in [Writers -> Nat] /\ todo' \in [Writers -> Seq(Family)]
          /\ lock' \in [Family -> Writers \cup Scrapers \cup {Nobody}]
          /\ rounds' \in [Writers -> Nat]
      BY <2>1, <2>2, <1>b
    <3>2. \A s \in Scrapers, g \in Family : lock'[g] = s <=> lock[g] = s
      BY <2>1, <1>a, <1>b, MetricsAssumption
    <3> QED
      BY <2>3, <3>1, <3>2, <1>a, <1>c, TypeFrame
  <2>5. CountInv(w)'
    <3>1. ASSUME NEW g \in Family, lock'[g] = w PROVE FALSE
      BY <3>1, <2>1, <1>a, <1>b DEF CountInv, Holding
    <3>2. /\ f = "refresh_total" => f \in Counters
          /\ f = "refresh_last_success" => f \notin Counters
          /\ "refresh_total" \in Family /\ "refresh_last_success" \in Family
      BY DEF Counters, Family
    <3>3. todo'[w] = Tail(todo[w]) /\ rounds'[w] = rounds[w]
      BY <2>1, <1>b
    <3>4. value'["refresh_last_success"][w] <= rounds[w]
      BY <3>2, <2>3, <1>a, <1>b DEF CountInv
    <3>5. value'["refresh_total"][w] + (IF Tail(todo[w]) = <<>> THEN 0 ELSE 1) = rounds[w]
      <4>1. value["refresh_total"][w] + 1 = rounds[w] /\ value["refresh_total"][w] \in Nat
        BY <3>2, <2>1, <1>a, <1>b DEF CountInv
      <4>2. CASE f = "refresh_total"
        BY <4>1, <4>2, <3>2, <2>2, <2>3, <1>a
      <4>3. CASE f # "refresh_total"
        BY <4>1, <4>3, <3>2, <2>2, <2>3, <1>a
      <4> QED
        BY <4>2, <4>3
    <3> QED
      BY <3>1, <3>3, <3>4, <3>5, <2>2 DEF CountInv
  <2>6. ASSUME NEW v \in Writers \ {w} PROVE CountInv(v)'
    <3>1. CountInv(v) /\ v # Nobody /\ v \in Label /\ v # Shared
      BY MetricsAssumption DEF MetricsInv, Label
    <3>2. /\ value'["refresh_total"][v] = value["refresh_total"][v]
          /\ value'["refresh_last_success"][v] = value["refresh_last_success"][v]
      BY <3>1, <2>3, <1>a DEF Family, LabelOf
    <3>3. todo'[v] = todo[v] /\ rounds'[v] = rounds[v] /\ read'[v] = read[v]
      BY <2>1, <1>b
    <3>4. ASSUME NEW g \in Family, lock'[g] = v PROVE Holding(v, g)'
      <4>1. g # f /\ lock[g] = v /\ LabelOf(g, v) \in Label
        BY <3>1, <3>4, <2>1, <1>b DEF LabelOf, Label
      <4>2. value'[g][LabelOf(g, v)] = value[g][LabelOf(g, v)]
        BY <4>1, <2>3
      <4> QED
        BY <4>1, <4>2, <3>1, <3>3 DEF CountInv, Holding
    <3> QED
      BY <3>1, <3>2, <3>3, <3>4 DEF CountInv
  <2>7. ASSUME NEW s \in Scrapers PROVE ScrapeInv(s)'
    <3>1. ScrapeInv(s) /\ TypeOK /\ s # w /\ s # Nobody
      BY <1>a, MetricsAssumption DEF MetricsInv
    <3>2. \A v \in Writers : value["refresh_total"][v] <= value'["refresh_total"][v]
      <4>1. ASSUME NEW v \in Writers
            PROVE  value["refresh_total"][v] <= value'["refresh_total"][v]
        <5>1. "refresh_total" \in Counters /\ "refresh_total" \in Family /\ v \in Label
          BY DEF Counters, Family, Label
        <5>2. value["refresh_total"][v] \in Nat
          BY <5>1, <1>b
        <5>3. CASE f = "refresh_total" /\ LabelOf(f, w) = v
          BY <5>1, <5>2, <5>3, <2>3
        <5>4. CASE ~(f = "refresh_total" /\ LabelOf(f, w) = v)
          BY <5>1, <5>2, <5>4, <2>3
        <5> QED
          BY <5>3, <5>4
      <4> QED
        BY <4>1
    <3>3. \A g \in Family : lock'[g] = s <=> lock[g] = s
      BY <3>1, <2>1, <1>b
    <3>4. \A v \in Writers : /\ value["refresh_total"][v] \in Nat
                            /\ value'["refresh_total"][v] \in Nat
                            /\ shown[s]["refresh_last_success"][v] \in Nat
      <4>1. shown[s] \in [Family -> [Label -> Nat]]
        BY <3>1 DEF TypeOK, Table
      <4> QED
        BY <4>1, <2>3, <1>b DEF Family, Label
    <3>5. at[s] \in 0..3 /\ (at[s] > 0 => Families[at[s]] \in Family)
      BY <3>1, FamilyTable DEF TypeOK
    <3> QED
      BY <3>1, <3>2, <3>3, <3>4, <3>5, <2>1 DEF ScrapeInv, spart, Family
  <2> QED
    BY <2>4, <2>5, <2>6, <2>7 DEF MetricsInv
<1> QED
  BY <1>1, <1>2, <1>3

-----------------------------------------------------------------------------
\* A scraper's steps: they take and give up locks, and copy values.
LEMMA ScraperSteps ==
  ASSUME MetricsInv, NEW s \in Scrapers,
         \/ Scrape(s) \/ LockFamily(s) \/ FamilyDone(s) \/ WriteFails(s)
         \/ \E l \in Label : WriteRow(s, l)
  PROVE  MetricsInv'
<1>a. /\ TypeOK /\ ScrapeInv(s) /\ s \notin Writers /\ s # Nobody
      /\ value \in [Family -> [Label -> Nat]]
      /\ lock \in [Family -> Writers \cup Scrapers \cup {Nobody}]
      /\ at \in [Scrapers -> 0..3] /\ left \in [Scrapers -> SUBSET Label]
      /\ shown \in [Scrapers -> [Family -> [Label -> Nat]]]
      /\ \A f \in Family : Series(f) \subseteq Label
      /\ UNCHANGED <<value, wpart>>
  BY MetricsAssumption, FamilyTable
  DEF MetricsInv, TypeOK, Table, Series, Label, Scrape, LockFamily, FamilyDone, WriteFails, WriteRow
\* It is enough to look at s, if no lock of another changes.
<1>b. ASSUME at' \in [Scrapers -> 0..3], left' \in [Scrapers -> SUBSET Label],
             shown' \in [Scrapers -> [Family -> [Label -> Nat]]],
             lock' \in [Family -> Writers \cup Scrapers \cup {Nobody}],
             \A f \in Family, x \in (Writers \cup Scrapers) \ {s} : lock'[f] = x <=> lock[f] = x,
             \A x \in Scrapers \ {s} : at'[x] = at[x] /\ left'[x] = left[x] /\ shown'[x] = shown[x],
             ScrapeInv(s)'
      PROVE  MetricsInv'
  <2>1. ASSUME NEW x \in Scrapers PROVE ScrapeInv(x)'
    <3>1. CASE x = s
      BY <3>1, <1>b
    <3>2. CASE x # s
      <4>1. ScrapeInv(x) /\ at'[x] = at[x] /\ left'[x] = left[x] /\ shown'[x] = shown[x]
        BY <3>2, <1>b DEF MetricsInv
      <4>2. \A f \in Family : lock'[f] = x <=> lock[f] = x
        BY <3>2, <1>b
      <4>3. at[x] > 0 => Families[at[x]] \in Family
        BY <1>a, FamilyTable
      <4> QED
        BY <4>1, <4>2, <4>3, <1>a DEF ScrapeInv, Family, wpart
    <3> QED
      BY <3>1, <3>2
  <2>2. TypeOK'
    BY <1>a, <1>b, <2>1, FamilyTable DEF TypeOK, Table, wpart, ScrapeInv
  <2>3. ASSUME NEW w \in Writers PROVE CountInv(w)'
    <3>1. \A f \in Family : lock'[f] = w <=> lock[f] = w
      BY <1>a, <1>b
    <3> QED
      BY <3>1, <1>a DEF MetricsInv, CountInv, Holding, wpart
  <2> QED
    BY <2>1, <2>2, <2>3 DEF MetricsInv
\* What is written is what the workers have recorded.
<1>c. \A w \in Writers :
        /\ w \in Label
        /\ value["refresh_total"][w] \in Nat /\ value["refresh_last_success"][w] \in Nat
        /\ value["refresh_last_success"][w] <= value["refresh_total"][w] + 1
  <2>1. "refresh_total" \in Family /\ "refresh_last_success" \in Family
    BY DEF Family
  <2>2. ASSUME NEW w \in Writers
        PROVE  value["refresh_last_success"][w] <= value["refresh_total"][w] + 1
    <3>1. CountInv(w) /\ w \in Label /\ rounds[w] \in Nat
      BY DEF MetricsInv, Label, TypeOK
    <3> QED
      BY <3>1, <2>1, <1>a DEF CountInv
  <2> QED
    BY <2>1, <2>2, <1>a DEF Label
<1>1. CASE Scrape(s)
  <2>1. /\ at[s] = 0 /\ at' = [at EXCEPT ![s] = 1] /\ UNCHANGED <<lock, left, shown>>
    BY <1>1 DEF Scrape
  <2>2. ScrapeInv(s)'
    BY <2>1, <1>a DEF ScrapeInv
  <2> QED
    BY <2>1, <2>2, <1>a, <1>b
<1>2. CASE LockFamily(s)
  <2>1. PICK f \in Family :
          /\ at[s] > 0 /\ f = Families[at[s]] /\ lock[f] = Nobody
          /\ lock' = [lock EXCEPT ![f] = s]
          /\ left' = [left EXCEPT ![s] = Series(f)]
          /\ UNCHANGED <<at, shown>>
    <3>1. Families[at[s]] \in Family
      BY <1>2, <1>a, FamilyTable DEF LockFamily
    <3> QED
      BY <3>1, <1>2 DEF LockFamily, Free
  <2>2. ScrapeInv(s)'
    <3>1. at[s] = 3 => f = "refresh_total"
      BY <2>1, FamilyTable
    <3>2. f = "refresh_total" => left'[s] = Writers
      BY <2>1, <1>a DEF Series
    <3>3. \A g \in Family : lock'[g] = s => at'[s] > 0 /\ g = Families[at'[s]]
      BY <2>1, <1>a DEF ScrapeInv
    <3> QED
      BY <2>1, <3>1, <3>2, <3>3, <1>a DEF ScrapeInv
  <2>3. /\ left' \in [Scrapers -> SUBSET Label]
        /\ lock' \in [Family -> Writers \cup Scrapers \cup {Nobody}]
    BY <2>1, <1>a
  <2>4. \A g \in Family, x \in (Writers \cup Scrapers) \ {s} : lock'[g] = x <=> lock[g] = x
    BY <2>1, <1>a, MetricsAssumption
  <2> QED
    BY <2>1, <2>2, <2>3, <2>4, <1>a, <1>b
<1>3. CASE FamilyDone(s)
  <2>1. PICK f \in Family :
          /\ at[s] > 0 /\ f = Families[at[s]] /\ left[s] = {} /\ lock[f] = s
          /\ lock' = [lock EXCEPT ![f] = Nobody] /\ left' = left
          /\ \/ /\ at[s] = 3 /\ at' = [at EXCEPT ![s] = 0]
                /\ shown' = [shown EXCEPT ![s] = Zero]
             \/ /\ at[s] # 3 /\ at' = [at EXCEPT ![s] = @ + 1] /\ shown' = shown
    <3>1. Families[at[s]] \in Family
      BY <1>3, <1>a, FamilyTable DEF FamilyDone
    <3> QED
      BY <3>1, <1>3, FamilyTable DEF FamilyDone
  <2>2. Zero \in [Family -> [Label -> Nat]] /\ \A w \in Writers : Zero["refresh_last_success"][w] = 0
    BY DEF Zero, Family, Label
  <2>3. ScrapeInv(s)'
    <3>1. left'[s] = {} /\ \A g \in Family : lock'[g] # s
      BY <2>1, <1>a DEF ScrapeInv
    <3>2. CASE at[s] = 3
      BY <2>1, <2>2, <3>1, <3>2, <1>a, <1>c DEF ScrapeInv, Family
    <3>3. CASE at[s] # 3
      <4>1. at'[s] = at[s] + 1 /\ shown' = shown
        BY <2>1, <3>3, <1>a
      <4> QED
        BY <2>1, <4>1, <3>1, <1>a DEF ScrapeInv, Family
    <3> QED
      BY <3>2, <3>3
  <2>4. /\ at' \in [Scrapers -> 0..3]
        /\ shown' \in [Scrapers -> [Family -> [Label -> Nat]]]
        /\ lock' \in [Family -> Writers \cup Scrapers \cup {Nobody}]
    <3>1. lock' \in [Family -> Writers \cup Scrapers \cup {Nobody}]
      BY <2>1, <1>a
    <3>2. PICK i \in 0..3 : at' = [at EXCEPT ![s] = i]
      <4>1. at[s] \in 0..3 /\ (at[s] # 3 => at[s] + 1 \in 0..3)
        BY <1>a
      <4>2. at' = [at EXCEPT ![s] = 0] \/ (at[s] # 3 /\ at' = [at EXCEPT ![s] = at[s] + 1])
        BY <2>1
      <4> QED
        BY <4>1, <4>2
    <3>4. at' \in [Scrapers -> 0..3]
      BY <3>2, <1>a
    <3>5. shown' = [shown EXCEPT ![s] = Zero] \/ shown' = shown
      BY <2>1
    <3>6. shown' \in [Scrapers -> [Family -> [Label -> Nat]]]
      BY <2>2, <3>5, <1>a
    <3> QED
      BY <3>1, <3>4, <3>6
  <2>5. \A g \in Family, x \in (Writers \cup Scrapers) \ {s} : lock'[g] = x <=> lock[g] = x
    BY <2>1, <1>a, MetricsAssumption
  <2> QED
    BY <2>1, <2>3, <2>4, <2>5, <1>a, <1>b
<1>4. CASE WriteFails(s)
  <2>1. /\ at' = [at EXCEPT ![s] = 0] /\ left' = [left EXCEPT ![s] = {}]
        /\ shown' = [shown EXCEPT ![s] = Zero]
        /\ lock' = [f \in Family |-> IF lock[f] = s THEN Nobody ELSE lock[f]]
    BY <1>4 DEF WriteFails, Released
  <2>2. Zero \in [Family -> [Label -> Nat]] /\ \A w \in Writers : Zero["refresh_last_success"][w] = 0
    BY DEF Zero, Family, Label
  <2>3. ScrapeInv(s)'
    <3>1. \A g \in Family : lock'[g] # s
      BY <2>1, <1>a
    <3> QED
      BY <3>1, <2>1, <2>2, <1>a, <1>c DEF ScrapeInv, Family
  <2>4. /\ at' \in [Scrapers -> 0..3] /\ left' \in [Scrapers -> SUBSET Label]
        /\ shown' \in [Scrapers -> [Family -> [Label -> Nat]]]
        /\ lock' \in [Family -> Writers \cup Scrapers \cup {Nobody}]
    <3>1. ASSUME NEW f \in Family
          PROVE  (IF lock[f] = s THEN Nobody ELSE lock[f]) \in Writers \cup Scrapers \cup {Nobody}
      BY <1>a
    <3> QED
      BY <3>1, <2>1, <2>2, <1>a
  <2>5. \A g \in Family, x \in (Writers \cup Scrapers) \ {s} : lock'[g] = x <=> lock[g] = x
    BY <2>1, <1>a, MetricsAssumption
  <2> QED
    BY <2>1, <2>3, <2>4, <2>5, <1>a, <1>b
<1>5. ASSUME NEW l \in Label, WriteRow(s, l) PROVE MetricsInv'
  <2>1. PICK f \in Family :
          /\ at[s] > 0 /\ f = Families[at[s]] /\ l \in left[s] /\ lock[f] = s
          /\ shown' = [shown EXCEPT ![s][f][l] = value[f][l]]
          /\ left' = [left EXCEPT ![s] = @ \ {l}]
          /\ UNCHANGED <<lock, at>>
    <3>1. /\ at[s] > 0 /\ lock[Families[at[s]]] = s
      BY <1>5, <1>a DEF WriteRow, ScrapeInv
    <3>2. Families[at[s]] \in Family
      BY <3>1, <1>a, FamilyTable
    <3> QED
      BY <3>1, <3>2, <1>5 DEF WriteRow
  <2>2. /\ shown' \in [Scrapers -> [Family -> [Label -> Nat]]]
        /\ left' \in [Scrapers -> SUBSET Label]
        /\ \A g \in Family, k \in Label :
              shown'[s][g][k] = IF g = f /\ k = l THEN value[g][k] ELSE shown[s][g][k]
    BY <2>1, <1>a
  <2>3. ScrapeInv(s)'
    <3>1. /\ left'[s] # {} => at'[s] > 0 /\ lock'[Families[at'[s]]] = s
          /\ \A g \in Family : lock'[g] = s => at'[s] > 0 /\ g = Families[at'[s]]
      BY <2>1, <1>a DEF ScrapeInv
    <3>2. ASSUME NEW w \in Writers
          PROVE  shown'[s]["refresh_last_success"][w] <= value["refresh_total"][w] + 1
      BY <2>2, <1>a, <1>c DEF ScrapeInv, Family
    <3>3. ASSUME NEW w \in Writers, at'[s] = 3, lock'["refresh_total"] = s, w \notin left'[s]
          PROVE  shown'[s]["refresh_total"][w] + 1 >= shown'[s]["refresh_last_success"][w]
      <4>1. f = "refresh_total" /\ w \in Label
        BY <3>3, <2>1, <1>c, FamilyTable
      <4>2. shown'[s]["refresh_last_success"][w] = shown[s]["refresh_last_success"][w]
        BY <4>1, <2>2 DEF Family
      <4>3. CASE w = l
        BY <4>1, <4>2, <4>3, <2>2, <1>a DEF ScrapeInv, Family
      <4>4. CASE w # l
        <5>1. w \notin left[s]
          BY <4>4, <3>3, <2>1, <1>a
        <5> QED
          BY <5>1, <4>1, <4>2, <4>4, <3>3, <2>1, <2>2, <1>a DEF ScrapeInv, Family
      <4> QED
        BY <4>3, <4>4
    <3> QED
      BY <3>1, <3>2, <3>3, <1>a DEF ScrapeInv
  <2> QED
    BY <2>1, <2>2, <2>3, <1>a, <1>b
<1> QED
  BY <1>1, <1>2, <1>3, <1>4, <1>5

LEMMA MetricsInvariant == Spec => []MetricsInv
<1>1. ASSUME MetricsInv, UNCHANGED vars PROVE MetricsInv'
  BY <1>1 DEF MetricsInv, TypeOK, CountInv, Holding, ScrapeInv, vars
<1>2. MetricsInv /\ [Next]_vars => MetricsInv'
  BY <1>1, WorkerSteps, ScraperSteps DEF Next
<1> QED
  BY <1>2, MetricsInvInit, PTL DEF Spec

-----------------------------------------------------------------------------
(* A scrape that shows the success of a refresh counts it, unless it is the one
   that is just being recorded: WriteText comes to refresh_total after
   refresh_last_success, and RecordRefresh is deferred (Refresh). *)
THEOREM ScrapesFit == Spec => []ReportFits
<1>1. MetricsInv => ReportFits
  <2> SUFFICES ASSUME MetricsInv, NEW s \in Scrapers, NEW w \in Writers, Written(s)
               PROVE  shown[s]["refresh_total"][w] + 1 >= shown[s]["refresh_last_success"][w]
    BY DEF ReportFits
  <2>1. at[s] = 3 /\ left[s] = {} /\ lock["refresh_total"] = s
    BY FamilyTable DEF Written
  <2> QED
    BY <2>1 DEF MetricsInv, ScrapeInv
<1> QED
  BY <1>1, MetricsInvariant, PTL

(* No update is lost, also of the series that all workers share: what Add
   writes is one more than what the counter holds at that time. *)
THEOREM NoUpdateLost ==
  Spec => [][\A w \in Writers, f \in Counters :
               (Unlock(w) /\ f = Head(todo[w])) =>
                 value'[f][LabelOf(f, w)] = value[f][LabelOf(f, w)] + 1]_vars
<1>1. ASSUME MetricsInv, NEW w \in Writers, NEW f \in Counters, Unlock(w), f = Head(todo[w])
      PROVE  value'[f][LabelOf(f, w)] = value[f][LabelOf(f, w)] + 1
  <2>1. f \in Family /\ LabelOf(f, w) \in Label /\ lock[f] = w
    BY <1>1 DEF Counters, Family, LabelOf, Label, Unlock
  <2>2. Holding(w, f)
    BY <2>1, <1>1 DEF MetricsInv, CountInv
  <2> QED
    BY <2>1, <2>2, <1>1 DEF Holding, Unlock, MetricsInv, TypeOK, Table
<1>2. MetricsInv /\ [Next]_vars =>
        [\A w \in Writers, f \in Counters :
           (Unlock(w) /\ f = Head(todo[w])) =>
             value'[f][LabelOf(f, w)] = value[f][LabelOf(f, w)] + 1]_vars
  BY <1>1
<1> QED
  BY <1>2, MetricsInvariant, PTL DEF Spec

=============================================================================
