------------------------ MODULE MessageDeliveryProofs ------------------------
(***************************************************************************)
(* Proofs about MessageDelivery, for any number of messages, of            *)
(* overlapping cycles and of retries: messages are heard in order, and a   *)
(* message is dropped early only after its agent had no session.           *)
(***************************************************************************)
EXTENDS MessageDelivery, TLAPS

-----------------------------------------------------------------------------
(* The invariant.  A cycle works on a snapshot: the predicates on it are   *)
(* stated for any table of rows, and hold of the snapshot in every later   *)
(* table.                                                                  *)

Table == [Id -> Row \cup {NoRow}]

\* Ids are given in order.
PrefixStored(rows) == \A n \in Id : rows[n] # NoRow => \A m \in 1..n-1 : rows[m] # NoRow

\* An earlier message to the same agent is in the list or settled.
NoGap(S, rows) ==
    \A n \in S :
        /\ rows[n] # NoRow
        /\ \A m \in Id : m < n /\ rows[m].to = rows[n].to => m \in S \/ rows[m].processed

\* A message of the list whose agent had no session at the snapshot waited
\* through an outage.
AbsentHadOutage(k, rows, out) ==
    \A m \in k.list : rows[m].to \notin k.live \cup k.deferred => m \in out

CycleOK(k, rows, out) ==
    /\ k \in Awaiting
    /\ NoGap(k.list, rows) /\ AbsentHadOutage(k, rows, out)
    /\ \A n \in k.ids : rows[n] # NoRow
    /\ k.pc = "batch" => NoGap(k.ids, rows)

DropsOK(rows, out) ==
    \A m \in Id : rows[m] # NoRow /\ rows[m].dead_letter /\ ~rows[m].old => m \in out

\* A message that waits for an agent without a session is on record.
OutageKept(rows, out) ==
    \A m \in Id : rows[m] # NoRow /\ ~rows[m].processed /\ session[rows[m].to] = "dead" => m \in out

StateOK ==
    /\ messages \in Table /\ PrefixStored(messages)
    /\ session \in [Agent -> {"dead", "waiting", "active"}] /\ session["comms"] # "active"
    /\ heard \in [Id -> 0..2] /\ outage \in SUBSET Id
    /\ \A m \in Id : messages[m] = NoRow => heard[m] = 0
    /\ DOMAIN cycle = Cycle

DeliveryInv ==
    /\ StateOK /\ HeardInOrder /\ DropsOK(messages, outage) /\ OutageKept(messages, outage)
    /\ \A c \in Cycle : cycle[c] = IdleCycle \/ CycleOK(cycle[c], messages, outage)

-----------------------------------------------------------------------------
(* Later tables                                                            *)

\* The second table is a later one: rows stay, keep their agent and stay
\* settled.
Later(rows, new) ==
    \A m \in Id : rows[m] # NoRow =>
        /\ new[m] # NoRow /\ new[m].to = rows[m].to
        /\ rows[m].processed => new[m].processed

\* What one step may do to the table, two steps may do as well.
LEMMA LaterTrans ==
    ASSUME NEW r1, NEW r2, NEW r3, Later(r1, r2), Later(r2, r3)
    PROVE  Later(r1, r3)
BY DEF Later

\* A list without gaps stays one.
LEMMA NoGapLater ==
    ASSUME NEW S \in SUBSET Id, NEW rows, NEW new, PrefixStored(rows), Later(rows, new),
           NoGap(S, rows)
    PROVE  NoGap(S, new)
<1> SUFFICES ASSUME NEW n \in S
             PROVE  /\ new[n] # NoRow
                    /\ \A m \in Id : m < n /\ new[m].to = new[n].to => m \in S \/ new[m].processed
  BY DEF NoGap
<1>1. rows[n] # NoRow /\ new[n] # NoRow /\ new[n].to = rows[n].to
  BY DEF NoGap, Later
<1>2. ASSUME NEW m \in Id, m < n, new[m].to = new[n].to
      PROVE  m \in S \/ new[m].processed
  <2>1. m \in 1..n-1 /\ n \in Id
    BY <1>2 DEF Id
  <2>2. rows[m] # NoRow
    BY <1>1, <2>1 DEF PrefixStored
  <2>3. rows[m].to = rows[n].to
    BY <1>1, <1>2, <2>2 DEF Later
  <2>4. m \in S \/ rows[m].processed
    BY <1>2, <2>3 DEF NoGap
  <2> QED
    BY <2>2, <2>4 DEF Later
<1> QED
  BY <1>1, <1>2

\* So does everything that is said of a waiting cycle.
LEMMA CycleLater ==
    ASSUME NEW k, NEW rows, NEW new, NEW out, NEW out2, PrefixStored(rows), Later(rows, new),
           out \subseteq out2, CycleOK(k, rows, out)
    PROVE  CycleOK(k, new, out2)
<1>1. k \in Awaiting /\ k.list \in SUBSET Id /\ k.ids \in SUBSET Id
  BY DEF CycleOK, Awaiting
<1>2. NoGap(k.list, new) /\ (k.pc = "batch" => NoGap(k.ids, new))
  BY <1>1, NoGapLater DEF CycleOK
<1>3. \A n \in k.ids : new[n] # NoRow
  BY <1>1 DEF CycleOK, Later
<1>4. AbsentHadOutage(k, new, out2)
  BY <1>1 DEF CycleOK, AbsentHadOutage, NoGap, Later
<1> QED
  BY <1>1, <1>2, <1>3, <1>4 DEF CycleOK

\* The markers: a row that exists is a full row.
LEMMA RowFields ==
    ASSUME NEW rows \in Table, NEW m \in Id, rows[m] # NoRow
    PROVE  rows[m] \in Row
BY DEF Table

\* A message that was not sent counts as settled and is addressed to
\* nobody.
LEMMA NoRowFields == NoRow.processed /\ NoRow.to \notin Agent /\ NoRow \notin Row
BY DEF NoRow, Row, Agent

-----------------------------------------------------------------------------
(* The UPDATEs of a cycle                                                  *)

\* An UPDATE stores no message, keeps agent and age, and settles only.
Updated(rows, new) ==
    \A m \in Id : IF rows[m] = NoRow THEN new[m] = NoRow
                  ELSE /\ new[m] \in Row /\ new[m].to = rows[m].to /\ new[m].old = rows[m].old
                       /\ rows[m].processed => new[m].processed

\* An UPDATE of some rows gives a later table, with the same ids in use,
\* and forgets no outage.
LEMMA UpdatedFacts ==
    ASSUME NEW rows \in Table, NEW new, DOMAIN new = Id, new = [m \in Id |-> new[m]],
           Updated(rows, new), PrefixStored(rows)
    PROVE  /\ new \in Table /\ Later(rows, new) /\ PrefixStored(new)
           /\ \A out : OutageKept(rows, out) => OutageKept(new, out)
<1>1. \A m \in Id : new[m] \in Row \cup {NoRow} /\ (new[m] = NoRow <=> rows[m] = NoRow)
  BY NoRowFields DEF Updated
<1>2. new \in Table
  BY <1>1 DEF Table
<1>3. Later(rows, new)
  BY <1>1 DEF Updated, Later
<1>4. PrefixStored(new)
  <2>1. ASSUME NEW n \in Id, NEW m \in 1..n-1
        PROVE  m \in Id
    BY BoundsAssumption DEF Id
  <2> QED
    BY <1>1, <2>1 DEF PrefixStored
<1>5. \A out : OutageKept(rows, out) => OutageKept(new, out)
  BY <1>1 DEF OutageKept, Updated
<1> QED
  BY <1>2, <1>3, <1>4, <1>5

\* expireMessage
LEMMA ExpireFacts ==
    ASSUME NEW rows \in Table, NEW S \in SUBSET Id, \A m \in S : rows[m] # NoRow, NEW pinged,
           PrefixStored(rows)
    PROVE  LET new == Expire(rows, S, pinged)
           IN  /\ new \in Table /\ Later(rows, new) /\ PrefixStored(new)
               /\ \A m \in Id : new[m] = NoRow <=> rows[m] = NoRow
               /\ \A m \in Id \ S : new[m] = rows[m]
               /\ \A m \in S : new[m].processed /\ new[m].old = rows[m].old
               /\ \A out : OutageKept(rows, out) => OutageKept(new, out)
               /\ \A out : DropsOK(rows, out) /\ (\A m \in S : rows[m].old \/ m \in out)
                              => DropsOK(new, out)
<1> DEFINE new == Expire(rows, S, pinged)
<1>1. new = [m \in Id |-> new[m]] /\ DOMAIN new = Id
  BY DEF Expire
<1>2. \A m \in Id \ S : new[m] = rows[m]
  BY DEF Expire
<1>3. ASSUME NEW m \in S
      PROVE  /\ new[m] \in Row /\ new[m].to = rows[m].to /\ new[m].old = rows[m].old
             /\ new[m].processed
  <2>1. rows[m] \in Row
    BY RowFields
  <2>2. \/ new[m] = [rows[m] EXCEPT !.processed = TRUE, !.dead_letter = TRUE,
                                    !.busy_pinged = TRUE]
        \/ new[m] = [rows[m] EXCEPT !.processed = TRUE, !.dead_letter = TRUE,
                                    !.busy_pinged = FALSE]
    <3>1. (m \in pinged) = TRUE \/ (m \in pinged) = FALSE
      OBVIOUS
    <3>2. new[m] = [rows[m] EXCEPT !.processed = TRUE, !.dead_letter = TRUE,
                                   !.busy_pinged = (m \in pinged)]
      BY DEF Expire
    <3> QED
      BY <3>1, <3>2
  <2> QED
    BY <2>1, <2>2 DEF Row
<1> HIDE DEF new
<1>4. Updated(rows, new)
  BY <1>2, <1>3, RowFields DEF Updated
<1>5. /\ new \in Table /\ Later(rows, new) /\ PrefixStored(new)
      /\ \A out : OutageKept(rows, out) => OutageKept(new, out)
  BY <1>1, <1>4, UpdatedFacts
<1>6. \A m \in Id : new[m] = NoRow <=> rows[m] = NoRow
  BY <1>4, NoRowFields DEF Updated
<1>7. ASSUME NEW out, DropsOK(rows, out), \A m \in S : rows[m].old \/ m \in out
      PROVE  DropsOK(new, out)
  BY <1>2, <1>3, <1>6, <1>7 DEF DropsOK
<1> QED
  BY <1>2, <1>3, <1>5, <1>6, <1>7 DEF new

\* The UPDATEs after an injection leave no dead letter behind.
LEMMA MarkFacts ==
    ASSUME NEW rows \in Table, NEW S \in SUBSET Id, \A m \in S : rows[m] # NoRow, NEW pinged,
           PrefixStored(rows), NEW new,
           new = MarkDelivered(rows, S, pinged) \/ new = MarkPinged(rows, S)
    PROVE  /\ new \in Table /\ Later(rows, new) /\ PrefixStored(new)
           /\ \A m \in Id : new[m] = NoRow <=> rows[m] = NoRow
           /\ \A out : OutageKept(rows, out) => OutageKept(new, out)
           /\ \A out : DropsOK(rows, out) => DropsOK(new, out)
<1>1. new = [m \in Id |-> new[m]] /\ DOMAIN new = Id
  BY DEF MarkDelivered, MarkPinged
<1>2. \A m \in Id \ S : new[m] = rows[m]
  BY DEF MarkDelivered, MarkPinged
<1>3. ASSUME NEW m \in S
      PROVE  /\ new[m] \in Row /\ new[m].to = rows[m].to /\ new[m].old = rows[m].old
             /\ rows[m].processed => new[m].processed
             /\ new[m].dead_letter = FALSE
  <2>1. rows[m] \in Row
    BY RowFields
  <2>2. CASE new = MarkDelivered(rows, S, pinged)
    <3>1. \/ new[m] = [rows[m] EXCEPT !.processed = TRUE, !.dead_letter = FALSE,
                                      !.busy_pinged = TRUE]
          \/ new[m] = [rows[m] EXCEPT !.processed = TRUE, !.dead_letter = FALSE,
                                      !.busy_pinged = FALSE]
      <4>1. (m \in pinged) = TRUE \/ (m \in pinged) = FALSE
        OBVIOUS
      <4>2. new[m] = [rows[m] EXCEPT !.processed = TRUE, !.dead_letter = FALSE,
                                     !.busy_pinged = (m \in pinged)]
        BY <2>2 DEF MarkDelivered
      <4> QED
        BY <4>1, <4>2
    <3> QED
      BY <2>1, <3>1 DEF Row
  <2>3. CASE new = MarkPinged(rows, S)
    <3>1. new[m] = [rows[m] EXCEPT !.dead_letter = FALSE, !.busy_pinged = TRUE]
      BY <2>3 DEF MarkPinged
    <3> QED
      BY <2>1, <3>1 DEF Row
  <2> QED
    BY <2>2, <2>3
<1>4. Updated(rows, new)
  BY <1>2, <1>3, RowFields DEF Updated
<1>5. /\ new \in Table /\ Later(rows, new) /\ PrefixStored(new)
      /\ \A out : OutageKept(rows, out) => OutageKept(new, out)
  BY <1>1, <1>4, UpdatedFacts
<1>6. \A m \in Id : new[m] = NoRow <=> rows[m] = NoRow
  BY <1>4, NoRowFields DEF Updated
<1>7. ASSUME NEW out, DropsOK(rows, out)
      PROVE  DropsOK(new, out)
  BY <1>2, <1>3, <1>6, <1>7 DEF DropsOK
<1> QED
  BY <1>5, <1>6, <1>7

-----------------------------------------------------------------------------
(* A cycle runs to its next await or its end                               *)

\* What a cycle may assume when it starts or comes back from an injection.
Ready(k, rows, out) ==
    /\ rows \in Table /\ PrefixStored(rows) /\ DropsOK(rows, out) /\ OutageKept(rows, out)
    /\ k.list \in SUBSET Id /\ k.pinged \in SUBSET Id
    /\ k.live \in SUBSET Agent /\ k.deferred \in SUBSET Agent
    /\ NoGap(k.list, rows) /\ AbsentHadOutage(k, rows, out)

\* What a cycle leaves behind in the table.
TableAfter(rows, new, out) ==
    /\ new \in Table /\ PrefixStored(new) /\ Later(rows, new)
    /\ DropsOK(new, out) /\ OutageKept(new, out)
    /\ \A m \in Id : new[m] = NoRow <=> rows[m] = NoRow

\* Only messages that waited through an outage are expired for want of a session.
LEMMA ExpireAbsent ==
    ASSUME NEW k, NEW rows, NEW out, Ready(k, rows, out), NEW S \in SUBSET k.list,
           \A m \in S : rows[m].to \notin k.live \cup k.deferred
    PROVE  TableAfter(rows, Expire(rows, S, k.pinged), out)
<1>1. S \in SUBSET Id /\ rows \in Table /\ PrefixStored(rows)
  BY DEF Ready
<1>2. \A m \in S : rows[m] # NoRow
  BY DEF Ready, NoGap
<1>3. \A m \in S : m \in out
  BY DEF Ready, AbsentHadOutage
<1> DEFINE new == Expire(rows, S, k.pinged)
<1>4. /\ new \in Table /\ Later(rows, new) /\ PrefixStored(new)
      /\ \A m \in Id : new[m] = NoRow <=> rows[m] = NoRow
      /\ OutageKept(rows, out) => OutageKept(new, out)
      /\ DropsOK(rows, out) /\ (\A m \in S : rows[m].old \/ m \in out) => DropsOK(new, out)
  BY <1>1, <1>2, ExpireFacts
<1> HIDE DEF new
<1>5. DropsOK(new, out) /\ OutageKept(new, out)
  BY <1>3, <1>4 DEF Ready
<1>6. TableAfter(rows, new, out)
  BY <1>4, <1>5 DEF TableAfter
<1> QED
  BY <1>6 DEF new

\* buildDeliverableBatch takes a list without gaps from one.
LEMMA BatchNoGap ==
    ASSUME NEW list \in SUBSET Id, NEW rows, NoGap(list, rows), NEW a,
           NEW S \in Batches(Of(list, rows, a))
    PROVE  NoGap(S, rows)
<1>1. PICK last \in Of(list, rows, a) : S = {m \in Of(list, rows, a) : m <= last}
  BY DEF Batches
<1>2. last \in Id /\ Id \subseteq Nat
  BY <1>1 DEF Of, Id
<1>3. ASSUME NEW n \in S
      PROVE  n \in list /\ n \in Id /\ rows[n].to = a /\ n <= last
  BY <1>1 DEF Of
<1>4. ASSUME NEW n \in S, NEW m \in Id, m < n, rows[m].to = rows[n].to
      PROVE  m \in S \/ rows[m].processed
  <2>1. m \in list \/ rows[m].processed
    BY <1>3, <1>4 DEF NoGap
  <2>2. m <= last
    <3>1. m \in Nat /\ n \in Nat /\ last \in Nat /\ n <= last
      BY <1>2, <1>3
    <3> QED
      BY <1>4, <3>1
  <2>3. m \in list => m \in Of(list, rows, a)
    BY <1>3, <1>4 DEF Of
  <2> QED
    BY <1>1, <2>1, <2>2, <2>3
<1> QED
  BY <1>3, <1>4 DEF NoGap

\* The agents of the rows are agents.
LEMMA RowAgent ==
    ASSUME NEW rows \in Table, NEW m \in Id, rows[m] # NoRow
    PROVE  rows[m].to \in Agent
BY RowFields DEF Row

\* ... to its end
LEMMA FinishFacts ==
    ASSUME NEW c \in Cycle, NEW k, NEW rows, NEW out, NEW lanes, Ready(k, rows, out),
           DOMAIN cycle = Cycle, Finish(c, k, rows, lanes)
    PROVE  /\ TableAfter(rows, messages', out)
           /\ DOMAIN cycle' = Cycle /\ \A d \in Cycle \ {c} : cycle'[d] = cycle[d]
           /\ cycle'[c] = IdleCycle
<1> DEFINE absent == {m \in k.list : rows[m].to \notin k.live \cup k.deferred}
           gone == {m \in absent : retryCounts'[m] >= MAX_RETRIES}
<1>1. messages' = Expire(rows, gone, k.pinged) /\ cycle' = [cycle EXCEPT ![c] = IdleCycle]
  BY DEF Finish
<1>2. gone \in SUBSET k.list /\ \A m \in gone : rows[m].to \notin k.live \cup k.deferred
  OBVIOUS
<1> HIDE DEF gone
<1>3. TableAfter(rows, Expire(rows, gone, k.pinged), out)
  BY <1>2, ExpireAbsent
<1> QED
  BY <1>1, <1>3

\* ... or to the next injection.
LEMMA AwaitFacts ==
    ASSUME NEW c \in Cycle, NEW k, NEW rows, NEW out, NEW lanes, Ready(k, rows, out),
           DOMAIN cycle = Cycle, Await(c, k, rows, lanes)
    PROVE  /\ TableAfter(rows, messages', out)
           /\ DOMAIN cycle' = Cycle /\ \A d \in Cycle \ {c} : cycle'[d] = cycle[d]
           /\ CycleOK(cycle'[c], messages', out)
<1> DEFINE passed == Passed(k, rows, Due(k, rows))
           absent == {m \in passed : rows[m].to \notin k.live \cup k.deferred}
           gone   == {m \in absent : retryCounts'[m] >= MAX_RETRIES}
           Rest(a)  == k.list \ (passed \cup Of(k.list, rows, a))
           LaterA(a) == {rows[m].to : m \in Rest(a)}
           Waits(a, S) ==
               [pc |-> IF a \in k.live THEN "batch" ELSE "ping",
                at |-> a, ids |-> S, list |-> Rest(a), pinged |-> k.pinged \cap (S \cup Rest(a)),
                live |-> k.live \cap LaterA(a), deferred |-> k.deferred \cap LaterA(a)]
<1>1. PICK a \in Due(k, rows) :
        /\ messages' = Expire(rows, gone, k.pinged)
        /\ \E S \in IF a \in k.live THEN Batches(Payload(k, rows, a)) ELSE {Payload(k, rows, a)} :
              cycle' = [cycle EXCEPT ![c] = Waits(a, S)]
  BY DEF Await
<1>2. PICK S \in IF a \in k.live THEN Batches(Payload(k, rows, a)) ELSE {Payload(k, rows, a)} :
        cycle' = [cycle EXCEPT ![c] = Waits(a, S)]
  BY <1>1
<1> DEFINE rest == Rest(a)
           wait == Waits(a, S)
<1>3. passed \subseteq k.list
  BY DEF Passed
<1>4. gone \in SUBSET k.list /\ \A m \in gone : rows[m].to \notin k.live \cup k.deferred
  BY <1>3
<1>5. TableAfter(rows, messages', out)
  <2> HIDE DEF gone
  <2> QED
    BY <1>1, <1>4, ExpireAbsent
<1>6. DOMAIN cycle' = Cycle /\ (\A d \in Cycle \ {c} : cycle'[d] = cycle[d]) /\ cycle'[c] = wait
  BY <1>2
\* The passed and the served agents are left out with all their messages.
<1>7. ASSUME NEW n \in rest, NEW m \in k.list, rows[m].to = rows[n].to
      PROVE  m \in rest
  BY <1>7 DEF Passed, Of
<1>8. rest \in SUBSET Id /\ rest \subseteq k.list
  BY DEF Ready
<1>9. NoGap(rest, rows)
  <2> HIDE DEF rest
  <2> QED
    BY <1>7, <1>8 DEF Ready, NoGap
<1>10. S \subseteq Of(k.list, rows, a) /\ S \in SUBSET Id
  <2>1. Payload(k, rows, a) \subseteq Of(k.list, rows, a)
    BY DEF Payload
  <2>2. Of(k.list, rows, a) \subseteq Id
    BY DEF Of, Ready
  <2>3. S \subseteq Payload(k, rows, a)
    BY <1>2 DEF Batches
  <2> QED
    BY <2>1, <2>2, <2>3
<1>11. \A n \in S : rows[n] # NoRow
  BY <1>10 DEF Of, Ready, NoGap
<1>12. a \in k.live => NoGap(S, rows)
  <2> SUFFICES ASSUME a \in k.live PROVE NoGap(S, rows)
    OBVIOUS
  <2>1. S \in Batches(Of(k.list, rows, a))
    BY <1>2 DEF Payload
  <2> QED
    BY <2>1, BatchNoGap DEF Ready
<1>13. a \in Agent
  BY DEF Due
<1>14. /\ wait.pc = IF a \in k.live THEN "batch" ELSE "ping"
       /\ wait.ids = S /\ wait.list = rest
       /\ wait.live = k.live \cap {rows[m].to : m \in rest}
       /\ wait.deferred = k.deferred \cap {rows[m].to : m \in rest}
  OBVIOUS
<1>15. wait \in Awaiting
  <2>1. k.pinged \cap (S \cup rest) \in SUBSET Id
    BY <1>8, <1>10
  <2>2. /\ k.live \cap {rows[m].to : m \in rest} \in SUBSET Agent
        /\ k.deferred \cap {rows[m].to : m \in rest} \in SUBSET Agent
    BY DEF Ready
  <2>3. (IF a \in k.live THEN "batch" ELSE "ping") \in {"ping", "batch"}
    OBVIOUS
  <2> HIDE DEF rest
  <2> QED
    BY <1>8, <1>10, <1>13, <2>1, <2>2, <2>3 DEF Awaiting, rest
<1> HIDE DEF wait, rest
<1>16. AbsentHadOutage(wait, rows, out)
  BY <1>8, <1>14 DEF Ready, AbsentHadOutage
<1>17. CycleOK(wait, rows, out)
  BY <1>9, <1>11, <1>12, <1>14, <1>15, <1>16 DEF CycleOK
<1>18. CycleOK(wait, messages', out)
  BY <1>5, <1>17, CycleLater DEF TableAfter, Ready
<1> QED
  BY <1>5, <1>6, <1>18

\* A cycle that runs to its next await, whatever it settles on the way,
\* leaves a later table, the other cycles alone, and a snapshot that is
\* still sound.
LEMMA RunFacts ==
    ASSUME NEW c \in Cycle, NEW k, NEW rows, NEW out, NEW lanes, Ready(k, rows, out),
           DOMAIN cycle = Cycle, Run(c, k, rows, lanes)
    PROVE  /\ TableAfter(rows, messages', out)
           /\ DOMAIN cycle' = Cycle /\ \A d \in Cycle \ {c} : cycle'[d] = cycle[d]
           /\ cycle'[c] = IdleCycle \/ CycleOK(cycle'[c], messages', out)
<1>1. CASE Finish(c, k, rows, lanes)
  BY <1>1, FinishFacts
<1>2. CASE Await(c, k, rows, lanes)
  BY <1>2, AwaitFacts
<1> QED
  BY <1>1, <1>2 DEF Run

\* A cycle that starts on an older table ends after that one too.
LEMMA AfterTrans ==
    ASSUME NEW r1, NEW r2, NEW r3, NEW out, Later(r1, r2),
           \A m \in Id : r2[m] = NoRow <=> r1[m] = NoRow, TableAfter(r2, r3, out)
    PROVE  TableAfter(r1, r3, out)
<1>1. Later(r1, r3)
  BY LaterTrans DEF TableAfter
<1> QED
  BY <1>1 DEF TableAfter

\* deliverMessages takes its snapshot: what is absent at the snapshot waits
\* through an outage now.
LEMMA StartFacts ==
    ASSUME NEW c \in Cycle, NEW stored \in Table, NEW out, PrefixStored(stored),
           DropsOK(stored, out), OutageKept(stored, out), DOMAIN cycle = Cycle,
           session \in [Agent -> {"dead", "waiting", "active"}], session["comms"] # "active",
           StartCycle(c, stored)
    PROVE  /\ TableAfter(stored, messages', out)
           /\ DOMAIN cycle' = Cycle /\ \A d \in Cycle \ {c} : cycle'[d] = cycle[d]
           /\ cycle'[c] = IdleCycle \/ CycleOK(cycle'[c], messages', out)
<1> DEFINE pinged == {m \in Undelivered(stored) : stored[m].busy_pinged}
           old    == TtlExpired(stored)
<1>1. PICK rows \in {Expire(stored, old, pinged)} :
        \E k \in {[list |-> Undelivered(rows),
                   pinged |-> {m \in Undelivered(rows) : rows[m].busy_pinged},
                   live |-> Live, deferred |-> Deferred]} : Run(c, k, rows, lane)
  BY DEF StartCycle
<1>2. PICK k \in {[list |-> Undelivered(rows),
                   pinged |-> {m \in Undelivered(rows) : rows[m].busy_pinged},
                   live |-> Live, deferred |-> Deferred]} : Run(c, k, rows, lane)
  BY <1>1
<1>3. old \in SUBSET Id /\ \A m \in old : stored[m] # NoRow /\ stored[m].old
  BY NoRowFields DEF TtlExpired
<1>4. /\ rows \in Table /\ Later(stored, rows) /\ PrefixStored(rows)
      /\ \A m \in Id : rows[m] = NoRow <=> stored[m] = NoRow
      /\ OutageKept(rows, out) /\ DropsOK(rows, out)
  <2> HIDE DEF old, pinged
  <2>1. (\A m \in old : stored[m] # NoRow) /\ \A m \in old : stored[m].old \/ m \in out
    BY <1>3
  <2> DEFINE new == Expire(stored, old, pinged)
  <2>2. /\ new \in Table /\ Later(stored, new) /\ PrefixStored(new)
        /\ \A m \in Id : new[m] = NoRow <=> stored[m] = NoRow
        /\ OutageKept(stored, out) => OutageKept(new, out)
        /\ DropsOK(stored, out) /\ (\A m \in old : stored[m].old \/ m \in out)
              => DropsOK(new, out)
    BY <1>3, <2>1, ExpireFacts
  <2>3. rows = new
    BY <1>1
  <2> HIDE DEF new
  <2> QED
    BY <2>1, <2>2, <2>3
<1>5. /\ k.list = Undelivered(rows) /\ k.live = Live /\ k.deferred = Deferred
      /\ k.pinged = {m \in Undelivered(rows) : rows[m].busy_pinged}
  BY <1>2
<1>6. /\ k.list \in SUBSET Id /\ k.pinged \in SUBSET Id
      /\ k.live \in SUBSET Agent /\ k.deferred \in SUBSET Agent
  BY <1>5 DEF Undelivered, Live, Deferred, Agent
<1>7. \A m \in k.list : m \in Id /\ ~rows[m].processed /\ rows[m] # NoRow
  BY <1>5, NoRowFields DEF Undelivered
<1>8. NoGap(k.list, rows)
  BY <1>5, <1>7 DEF NoGap, Undelivered
<1>9. AbsentHadOutage(k, rows, out)
  <2> SUFFICES ASSUME NEW m \in k.list, rows[m].to \notin k.live \cup k.deferred
               PROVE  m \in out
    BY DEF AbsentHadOutage
  <2>1. rows[m].to \in Agent
    BY <1>4, <1>7, RowAgent
  <2>2. session[rows[m].to] = "dead"
    BY <1>5, <2>1 DEF Live, Deferred, Agent
  <2> QED
    BY <1>4, <1>7, <2>2 DEF OutageKept
<1>10. Ready(k, rows, out)
  BY <1>4, <1>6, <1>8, <1>9 DEF Ready
<1>11. /\ TableAfter(rows, messages', out)
       /\ DOMAIN cycle' = Cycle /\ \A d \in Cycle \ {c} : cycle'[d] = cycle[d]
       /\ cycle'[c] = IdleCycle \/ CycleOK(cycle'[c], messages', out)
  BY <1>2, <1>10, RunFacts
<1>12. TableAfter(stored, messages', out)
  BY <1>4, <1>11, AfterTrans
<1> QED
  BY <1>11, <1>12

-----------------------------------------------------------------------------
(* The actions                                                             *)

\* The other cycles do not notice what one did.
LEMMA OtherCycles ==
    ASSUME NEW c \in Cycle, NEW out, outage \subseteq out, NEW rows, PrefixStored(messages),
           Later(messages, rows), TableAfter(rows, messages', out),
           \A d \in Cycle : cycle[d] = IdleCycle \/ CycleOK(cycle[d], messages, outage),
           \A d \in Cycle \ {c} : cycle'[d] = cycle[d],
           cycle'[c] = IdleCycle \/ CycleOK(cycle'[c], messages', out)
    PROVE  \A d \in Cycle : cycle'[d] = IdleCycle \/ CycleOK(cycle'[d], messages', out)
<1>1. Later(messages, messages')
  BY LaterTrans DEF TableAfter
<1>2. ASSUME NEW d \in Cycle, d # c
      PROVE  cycle'[d] = IdleCycle \/ CycleOK(cycle'[d], messages', out)
  BY <1>1, <1>2, CycleLater
<1> QED
  BY <1>2

\* Nothing new is heard: order is kept, as no settled message is unsettled.
LEMMA OrderLater ==
    ASSUME StateOK, HeardInOrder, Later(messages, messages'), heard' = heard
    PROVE  HeardInOrder'
<1> SUFFICES ASSUME NEW m \in Id, NEW n \in Id, m < n, messages'[n] # NoRow,
                    messages'[m].to = messages'[n].to, heard[n] > 0
             PROVE  heard[m] > 0 \/ messages'[m].processed
  BY DEF HeardInOrder, Stored
<1>1. messages[n] # NoRow
  BY DEF StateOK
<1>2. m \in 1..n-1
  BY DEF Id
<1>3. messages[m] # NoRow
  BY <1>1, <1>2 DEF StateOK, PrefixStored
<1>4. messages[m].to = messages[n].to
  BY <1>1, <1>3 DEF Later
<1>5. heard[m] > 0 \/ messages[m].processed
  BY <1>1, <1>4 DEF HeardInOrder, Stored
<1> QED
  BY <1>3, <1>5 DEF Later

\* A scheduled cycle: a snapshot, the expiry of what has lived too long,
\* and the run to the first await.
LEMMA TickStep ==
    ASSUME DeliveryInv, NEW c \in Cycle, Tick(c)
    PROVE  DeliveryInv'
<1>1. StartCycle(c, messages) /\ session' = session /\ heard' = heard /\ outage' = outage
  BY DEF Tick
<1>2. /\ TableAfter(messages, messages', outage)
      /\ DOMAIN cycle' = Cycle /\ \A d \in Cycle \ {c} : cycle'[d] = cycle[d]
      /\ cycle'[c] = IdleCycle \/ CycleOK(cycle'[c], messages', outage)
  <2>1. /\ messages \in Table /\ PrefixStored(messages) /\ DropsOK(messages, outage)
        /\ OutageKept(messages, outage) /\ DOMAIN cycle = Cycle
        /\ session \in [Agent -> {"dead", "waiting", "active"}] /\ session["comms"] # "active"
    BY DEF DeliveryInv, StateOK
  <2> QED
    BY <1>1, <2>1, StartFacts
<1>3. Later(messages, messages') /\ PrefixStored(messages)
  BY <1>2 DEF TableAfter, DeliveryInv, StateOK
<1>4. StateOK'
  BY <1>1, <1>2 DEF DeliveryInv, StateOK, TableAfter, Table
<1>5. HeardInOrder'
  BY <1>1, <1>3, OrderLater DEF DeliveryInv
<1>6. DropsOK(messages', outage') /\ OutageKept(messages, outage)'
  BY <1>1, <1>2 DEF TableAfter, OutageKept
<1>7. \A d \in Cycle : cycle'[d] = IdleCycle \/ CycleOK(cycle'[d], messages', outage)
  <2>1. Later(messages, messages)
    BY DEF Later
  <2> QED
    BY <1>2, <1>3, <2>1, OtherCycles DEF DeliveryInv
<1> QED
  BY <1>1, <1>4, <1>5, <1>6, <1>7 DEF DeliveryInv

\* A new message has the next id, so it is younger than whatever a snapshot
\* holds, and triggers a cycle.
LEMMA SendStep ==
    ASSUME DeliveryInv, NEW m \in Id, NEW a \in Agent, NEW c \in Cycle, SendMessage(m, a, c)
    PROVE  DeliveryInv'
<1> DEFINE row == [to |-> a, processed |-> FALSE, dead_letter |-> FALSE, busy_pinged |-> FALSE,
                   old |-> FALSE]
           stored == [messages EXCEPT ![m] = row]
<1>1. /\ messages[m] = NoRow /\ \A n \in 1..m-1 : messages[n] # NoRow
      /\ StartCycle(c, stored)
      /\ outage' = IF session[a] = "dead" THEN outage \cup {m} ELSE outage
      /\ session' = session /\ heard' = heard
  BY DEF SendMessage, Stored
<1>2. row \in Row /\ row.to = a /\ ~row.dead_letter
  BY DEF Row
<1>3. row # NoRow
  BY <1>2, NoRowFields
<1>4. stored[m] = row /\ \A n \in Id \ {m} : stored[n] = messages[n]
  BY DEF DeliveryInv, StateOK, Table
<1>5. stored \in Table
  BY <1>2, <1>4 DEF DeliveryInv, StateOK, Table
<1> HIDE DEF row
<1> HIDE DEF stored
<1>6. PrefixStored(stored)
  <2>1. ASSUME NEW n \in Id, stored[n] # NoRow, NEW j \in 1..n-1
        PROVE  stored[j] # NoRow
    <3>1. j \in Id /\ j < n
      BY BoundsAssumption DEF Id
    <3>2. CASE n = m
      BY <1>1, <1>4, <2>1, <3>1, <3>2
    <3>3. CASE n # m
      BY <1>3, <1>4, <2>1, <3>1, <3>3 DEF DeliveryInv, StateOK, PrefixStored
    <3> QED
      BY <3>2, <3>3
  <2> QED
    BY <2>1 DEF PrefixStored
<1>7. Later(messages, stored)
  BY <1>1, <1>4 DEF Later
<1>8. outage \subseteq outage' /\ outage' \in SUBSET Id
  BY <1>1 DEF DeliveryInv, StateOK
<1>9. DropsOK(stored, outage')
  BY <1>2, <1>4, <1>8 DEF DeliveryInv, DropsOK
<1>10. OutageKept(stored, outage')
  <2>1. ASSUME NEW n \in Id, stored[n] # NoRow, ~stored[n].processed,
               session[stored[n].to] = "dead"
        PROVE  n \in outage'
    BY <1>1, <1>2, <1>4, <1>8, <2>1 DEF DeliveryInv, OutageKept
  <2> QED
    BY <2>1 DEF OutageKept
<1>11. PICK out : out = outage'
  OBVIOUS
<1>12. /\ TableAfter(stored, messages', out)
       /\ DOMAIN cycle' = Cycle /\ \A d \in Cycle \ {c} : cycle'[d] = cycle[d]
       /\ cycle'[c] = IdleCycle \/ CycleOK(cycle'[c], messages', out)
  <2>1. /\ DOMAIN cycle = Cycle
        /\ session \in [Agent -> {"dead", "waiting", "active"}] /\ session["comms"] # "active"
    BY DEF DeliveryInv, StateOK
  <2>2. DropsOK(stored, out) /\ OutageKept(stored, out)
    BY <1>9, <1>10, <1>11
  <2> QED
    BY <1>1, <1>5, <1>6, <2>1, <2>2, StartFacts
<1>13. Later(messages, messages') /\ PrefixStored(messages)
  BY <1>7, <1>12, LaterTrans DEF TableAfter, DeliveryInv, StateOK
<1>14. StateOK'
  <2>1. \A n \in Id : messages'[n] = NoRow => heard'[n] = 0
    BY <1>1, <1>13 DEF DeliveryInv, StateOK, Later
  <2> QED
    BY <1>1, <1>8, <1>12, <2>1 DEF DeliveryInv, StateOK, TableAfter, Table
<1>15. HeardInOrder'
  BY <1>1, <1>13, OrderLater DEF DeliveryInv
<1>16. DropsOK(messages', outage') /\ OutageKept(messages, outage)'
  BY <1>1, <1>11, <1>12 DEF TableAfter, OutageKept
<1>17. \A d \in Cycle : cycle'[d] = IdleCycle \/ CycleOK(cycle'[d], messages', out)
  BY <1>7, <1>8, <1>11, <1>12, <1>13, OtherCycles DEF DeliveryInv
<1> QED
  BY <1>11, <1>14, <1>15, <1>16, <1>17 DEF DeliveryInv

\* An injection is heard whole or not at all, and its batch had no gap.
LEMMA InjectedStep ==
    ASSUME DeliveryInv, NEW c \in Cycle, NEW ok \in BOOLEAN, Injected(c, ok)
    PROVE  DeliveryInv'
<1>1. PICK k : k = cycle[c]
  OBVIOUS
<1>2. PICK lanes : lanes = NextInLane(k.at, ok)
  OBVIOUS
<1>3. /\ k # IdleCycle
      /\ heard' = [m \in Id |-> IF ok /\ k.pc = "batch" /\ m \in k.ids /\ heard[m] < 2
                                THEN heard[m] + 1 ELSE heard[m]]
      /\ session' = session /\ outage' = outage
      /\ \E rows \in {IF ~ok THEN messages
                      ELSE IF k.pc = "ping" THEN MarkPinged(messages, k.ids)
                      ELSE MarkDelivered(messages, k.ids, k.pinged)} : Run(c, k, rows, lanes)
  BY <1>1, <1>2 DEF Injected
<1>4. PICK rows \in {IF ~ok THEN messages
                     ELSE IF k.pc = "ping" THEN MarkPinged(messages, k.ids)
                     ELSE MarkDelivered(messages, k.ids, k.pinged)} : Run(c, k, rows, lanes)
  BY <1>3
<1>5. CycleOK(k, messages, outage)
  BY <1>1, <1>3 DEF DeliveryInv
<1>6. k.ids \in SUBSET Id /\ \A n \in k.ids : messages[n] # NoRow
  BY <1>5 DEF CycleOK, Awaiting
<1>7. messages \in Table /\ PrefixStored(messages)
  BY DEF DeliveryInv, StateOK
<1>8. /\ rows \in Table /\ Later(messages, rows) /\ PrefixStored(rows)
      /\ \A m \in Id : rows[m] = NoRow <=> messages[m] = NoRow
      /\ OutageKept(rows, outage) /\ DropsOK(rows, outage)
  <2>1. CASE rows = messages
    BY <1>7, <2>1 DEF DeliveryInv, Later
  <2>2. CASE rows = MarkPinged(messages, k.ids) \/ rows = MarkDelivered(messages, k.ids, k.pinged)
    BY <1>6, <1>7, <2>2, MarkFacts DEF DeliveryInv
  <2> QED
    BY <1>4, <2>1, <2>2
<1>9. Ready(k, rows, outage)
  <2>1. CycleOK(k, rows, outage)
    BY <1>5, <1>7, <1>8, CycleLater
  <2> QED
    BY <1>8, <2>1 DEF Ready, CycleOK, Awaiting
<1>10. /\ TableAfter(rows, messages', outage)
       /\ DOMAIN cycle' = Cycle /\ \A d \in Cycle \ {c} : cycle'[d] = cycle[d]
       /\ cycle'[c] = IdleCycle \/ CycleOK(cycle'[c], messages', outage)
  <2>1. DOMAIN cycle = Cycle
    BY DEF DeliveryInv, StateOK
  <2> QED
    BY <1>4, <1>9, <2>1, RunFacts
<1>11. Later(messages, messages')
  BY <1>8, <1>10, LaterTrans DEF TableAfter
<1>12. \A m \in Id : heard[m] \in 0..2
  BY DEF DeliveryInv, StateOK
<1>13. \A m \in Id : heard'[m] \in 0..2 /\ heard'[m] >= heard[m]
  BY <1>3, <1>12
<1>14. \A n \in Id : messages[n] = NoRow => heard'[n] = 0
  BY <1>3, <1>6 DEF DeliveryInv, StateOK
<1>15. StateOK'
  <2>1. \A n \in Id : messages'[n] = NoRow => heard'[n] = 0
    BY <1>14, <1>11 DEF Later
  <2>2. heard' \in [Id -> 0..2]
    BY <1>3, <1>13
  <2> QED
    BY <1>3, <1>10, <2>1, <2>2 DEF DeliveryInv, StateOK, TableAfter, Table
<1>16. HeardInOrder'
  <2> SUFFICES ASSUME NEW m \in Id, NEW n \in Id, m < n, messages'[n] # NoRow,
                      messages'[m].to = messages'[n].to, heard'[n] > 0
               PROVE  heard'[m] > 0 \/ messages'[m].processed
    BY DEF HeardInOrder, Stored
  <2>1. messages[n] # NoRow
    BY <1>14
  <2>2. m \in 1..n-1
    BY DEF Id
  <2>3. messages[m] # NoRow
    BY <1>7, <2>1, <2>2 DEF PrefixStored
  <2>4. messages[m].to = messages[n].to
    BY <1>11, <2>1, <2>3 DEF Later
  <2>5. CASE heard[n] > 0
    <3>1. heard[m] > 0 \/ messages[m].processed
      BY <2>1, <2>4, <2>5 DEF DeliveryInv, HeardInOrder, Stored
    <3> QED
      BY <1>11, <1>12, <1>13, <2>3, <3>1 DEF Later
  <2>6. CASE ~(heard[n] > 0)
    <3>1. ok /\ k.pc = "batch" /\ n \in k.ids
      BY <1>3, <2>6
    <3>2. m \in k.ids \/ messages[m].processed
      BY <1>5, <2>4, <3>1 DEF CycleOK, NoGap
    <3>3. m \in k.ids => heard'[m] > 0
      BY <1>3, <1>12, <3>1
    <3> QED
      BY <1>11, <2>3, <3>2, <3>3 DEF Later
  <2> QED
    BY <2>5, <2>6
<1>17. DropsOK(messages', outage') /\ OutageKept(messages, outage)'
  BY <1>3, <1>10 DEF TableAfter, OutageKept
<1>18. \A d \in Cycle : cycle'[d] = IdleCycle \/ CycleOK(cycle'[d], messages', outage)
  BY <1>7, <1>8, <1>10, OtherCycles DEF DeliveryInv
<1> QED
  BY <1>3, <1>15, <1>16, <1>17, <1>18 DEF DeliveryInv

\* A session that goes is the outage the later drops are excused by.
LEMMA SessionStep ==
    ASSUME DeliveryInv, NEW a \in Agent, NEW s \in {"dead", "waiting", "active"},
           a = "comms" => s # "active", SessionBecomes(a, s)
    PROVE  DeliveryInv'
<1>1. /\ session' = [session EXCEPT ![a] = s]
      /\ outage' = IF s = "dead" THEN outage \cup Of(Undelivered(messages), messages, a)
                   ELSE outage
      /\ messages' = messages /\ cycle' = cycle /\ heard' = heard
  BY DEF SessionBecomes
<1>2. outage \subseteq outage' /\ outage' \in SUBSET Id
  BY <1>1 DEF DeliveryInv, StateOK, Of, Undelivered
<1>3. session' \in [Agent -> {"dead", "waiting", "active"}] /\ session'["comms"] # "active"
  BY <1>1 DEF DeliveryInv, StateOK, Agent
<1>4. StateOK'
  BY <1>1, <1>2, <1>3 DEF DeliveryInv, StateOK, Table, PrefixStored
<1>5. HeardInOrder'
  BY <1>1 DEF DeliveryInv, HeardInOrder, Stored
<1>6. DropsOK(messages', outage')
  BY <1>1, <1>2 DEF DeliveryInv, DropsOK
<1>7. OutageKept(messages, outage)'
  <2> SUFFICES ASSUME NEW m \in Id, messages[m] # NoRow, ~messages[m].processed,
                      session'[messages[m].to] = "dead"
               PROVE  m \in outage'
    BY <1>1 DEF OutageKept
  <2>1. messages[m].to \in Agent
    BY RowAgent DEF DeliveryInv, StateOK
  <2>2. CASE messages[m].to = a
    <3>1. s = "dead"
      BY <1>1, <2>2 DEF DeliveryInv, StateOK
    <3> QED
      BY <1>1, <2>2, <3>1 DEF Of, Undelivered
  <2>3. CASE messages[m].to # a
    <3>1. session[messages[m].to] = "dead"
      BY <1>1, <2>1, <2>3 DEF DeliveryInv, StateOK
    <3> QED
      BY <1>2, <3>1 DEF DeliveryInv, OutageKept
  <2> QED
    BY <2>2, <2>3
<1>8. \A d \in Cycle : cycle[d] = IdleCycle \/ CycleOK(cycle[d], messages, outage')
  <2>1. Later(messages, messages) /\ PrefixStored(messages)
    BY DEF Later, DeliveryInv, StateOK
  <2> QED
    BY <1>2, <2>1, CycleLater DEF DeliveryInv
<1> QED
  BY <1>1, <1>4, <1>5, <1>6, <1>7, <1>8 DEF DeliveryInv

\* A message whose time is over stays in its place.
LEMMA AgesStep ==
    ASSUME DeliveryInv, NEW m \in Id, MessageAges(m)
    PROVE  DeliveryInv'
<1>1. /\ ~messages[m].processed /\ messages' = [messages EXCEPT ![m].old = TRUE]
      /\ session' = session /\ cycle' = cycle /\ heard' = heard /\ outage' = outage
  BY DEF MessageAges
<1>2. messages[m] # NoRow
  BY <1>1, NoRowFields
<1>3. messages \in Table /\ PrefixStored(messages) /\ messages[m] \in Row
  BY <1>2, RowFields DEF DeliveryInv, StateOK
<1>4. \A n \in Id \ {m} : messages'[n] = messages[n]
  BY <1>1, <1>3 DEF Table
<1>5. /\ messages'[m] \in Row /\ messages'[m].to = messages[m].to /\ messages'[m].old
      /\ messages'[m].processed = messages[m].processed
  <2>1. messages'[m] = [messages[m] EXCEPT !.old = TRUE]
    BY <1>1, <1>3 DEF Table
  <2> QED
    BY <1>3, <2>1 DEF Row
<1>6. messages'[m] # NoRow
  BY <1>5, NoRowFields
<1>7. messages' \in Table
  BY <1>1, <1>3, <1>4, <1>5 DEF Table
<1>8. Later(messages, messages')
  BY <1>4, <1>5, <1>6 DEF Later
<1>9. PrefixStored(messages')
  <2>1. ASSUME NEW n \in Id, NEW j \in 1..n-1
        PROVE  j \in Id
    BY BoundsAssumption DEF Id
  <2>2. \A n \in Id : messages'[n] = NoRow <=> messages[n] = NoRow
    BY <1>2, <1>4, <1>6
  <2> QED
    BY <1>3, <2>1, <2>2 DEF PrefixStored
<1>10. StateOK'
  BY <1>1, <1>4, <1>6, <1>7, <1>9 DEF DeliveryInv, StateOK
<1>11. HeardInOrder'
  BY <1>1, <1>8, OrderLater DEF DeliveryInv
<1>12. DropsOK(messages', outage')
  BY <1>1, <1>4, <1>5 DEF DeliveryInv, DropsOK
<1>13. OutageKept(messages, outage)'
  BY <1>1, <1>2, <1>4, <1>5 DEF DeliveryInv, OutageKept
<1>14. \A d \in Cycle : cycle[d] = IdleCycle \/ CycleOK(cycle[d], messages', outage)
  BY <1>3, <1>8, CycleLater DEF DeliveryInv
<1> QED
  BY <1>1, <1>10, <1>11, <1>12, <1>13, <1>14 DEF DeliveryInv

\* A restart forgets the cycles and the retry counts and leaves the rows.
LEMMA RestartStep ==
    ASSUME DeliveryInv, Restart
    PROVE  DeliveryInv'
<1>1. /\ cycle' = [c \in Cycle |-> IdleCycle]
      /\ messages' = messages /\ session' = session /\ heard' = heard /\ outage' = outage
  BY DEF Restart
<1>2. StateOK'
  BY <1>1 DEF DeliveryInv, StateOK, Table, PrefixStored
<1>3. HeardInOrder'
  BY <1>1 DEF DeliveryInv, HeardInOrder, Stored
<1>4. DropsOK(messages', outage') /\ OutageKept(messages, outage)'
  BY <1>1 DEF DeliveryInv, DropsOK, OutageKept
<1> QED
  BY <1>1, <1>2, <1>3, <1>4 DEF DeliveryInv

\* Steps of other components change nothing here.
LEMMA StutterStep ==
    ASSUME DeliveryInv, UNCHANGED vars
    PROVE  DeliveryInv'
<1>1. /\ cycle' = cycle
      /\ messages' = messages /\ session' = session /\ heard' = heard /\ outage' = outage
  BY DEF vars
<1>2. StateOK'
  BY <1>1 DEF DeliveryInv, StateOK, Table, PrefixStored
<1>3. HeardInOrder'
  BY <1>1 DEF DeliveryInv, HeardInOrder, Stored
<1>4. DropsOK(messages', outage') /\ OutageKept(messages, outage)'
  BY <1>1 DEF DeliveryInv, DropsOK, OutageKept
<1> QED
  BY <1>1, <1>2, <1>3, <1>4 DEF DeliveryInv

\* There is no message and no cycle at the start.
LEMMA InitInv ==
    ASSUME Init
    PROVE  DeliveryInv
<1>1. \A m \in Id : messages[m] = NoRow /\ heard[m] = 0
  BY DEF Init
<1>2. messages \in Table /\ PrefixStored(messages)
  <2>1. messages \in Table
    BY DEF Init, Table
  <2> QED
    BY <1>1, <2>1 DEF PrefixStored
<1>3. session \in [Agent -> {"dead", "waiting", "active"}] /\ session["comms"] # "active"
  BY DEF Init, Agent
<1>4. StateOK
  BY <1>1, <1>2, <1>3 DEF Init, StateOK
<1>5. HeardInOrder /\ DropsOK(messages, outage) /\ OutageKept(messages, outage)
  BY <1>1 DEF HeardInOrder, DropsOK, OutageKept
<1>6. \A c \in Cycle : cycle[c] = IdleCycle
  BY DEF Init
<1> QED
  BY <1>4, <1>5, <1>6 DEF DeliveryInv

-----------------------------------------------------------------------------
(* The theorems                                                            *)

\* The invariant holds throughout.
LEMMA DeliveryInvariant == Spec => []DeliveryInv
<1>1. ASSUME DeliveryInv, Next
      PROVE  DeliveryInv'
  <2>1. CASE \E m \in Id, a \in Agent, c \in Cycle : SendMessage(m, a, c)
    BY <1>1, <2>1, SendStep
  <2>2. CASE \E c \in Cycle : Tick(c)
    BY <1>1, <2>2, TickStep
  <2>3. CASE \E c \in Cycle : InjectionReturns(c)
    BY <1>1, <2>3, InjectedStep DEF InjectionReturns
  <2>4. CASE \E s \in {"dead", "waiting"} : SessionBecomes("comms", s)
    BY <1>1, <2>4, SessionStep DEF Agent
  <2>5. CASE \E s \in {"dead", "waiting", "active"} : SessionBecomes("orchestrator", s)
    BY <1>1, <2>5, SessionStep DEF Agent
  <2>6. CASE \E m \in Id : MessageAges(m)
    BY <1>1, <2>6, AgesStep
  <2>7. CASE Restart
    BY <1>1, <2>7, RestartStep
  <2> QED
    BY <1>1, <2>1, <2>2, <2>3, <2>4, <2>5, <2>6, <2>7 DEF Next
<1>2. DeliveryInv /\ [Next]_vars => DeliveryInv'
  BY <1>1, StutterStep
<1> QED
  BY <1>2, InitInv, PTL DEF Spec

\* An agent hears its messages in the order they were sent, however many
\* delivery cycles overlap (triggerTask starts one for every message), however
\* the batches are split, and whichever injections fail.
THEOREM MessagesHeardInOrder == Spec => []HeardInOrder
<1>1. DeliveryInv => HeardInOrder
  BY DEF DeliveryInv
<1> QED
  BY <1>1, DeliveryInvariant, PTL

\* deliverMessages drops a message before its time is up only if the agent had
\* no session while the message waited, for any MAX_RETRIES: the snapshot a
\* cycle retries from may be stale, but not wrong about that.
THEOREM EarlyDropsHadOutage == Spec => []YoungDropNeedsOutage
<1>1. DeliveryInv => YoungDropNeedsOutage
  BY DEF DeliveryInv, DropsOK, YoungDropNeedsOutage, Stored
<1> QED
  BY <1>1, DeliveryInvariant, PTL

=============================================================================
