---------------------------- MODULE ClientProofs ----------------------------
(***************************************************************************)
(* Theorems about the clients of the programs, which decide on what they   *)
(* read a while ago: the executor's jobs, whose ticks overlap, give up and *)
(* are cut short, and the travelers' pages, whose copies grow stale.       *)
(*                                                                         *)
(* The executor.  ReportsInv carries what was read to where it is used: a  *)
(* transaction, in flight or given up, rests on what the service has said  *)
(* and cannot take back (Founded), and the flights of a tick have come at  *)
(* least as far as when they were read (AtLeast).  Both survive every step *)
(* of everybody else, because the chain only moves on (Onward) and the     *)
(* service only learns (AnswersKept).                                      *)
(*                                                                         *)
(* The pages.  They implement the programs (PagesImplementPrograms), so    *)
(* that the invariants of SentinelBooksProofs hold of them; CopiesInv says *)
(* what a page's copy of a policy is still worth.                          *)
(***************************************************************************)
EXTENDS Executor, TravelerPages, SentinelBooksProofs

-----------------------------------------------------------------------------
(* What the jobs read of the list. *)

\* The flights with a wanted status among the first n of a list.
KeptUpTo(list, statuses, kept, m) ==
    kept = [n \in 0 .. m |->
               IF n = 0 THEN << >>
               ELSE IF oracle[list[n]].status \in statuses THEN Append(kept[n - 1], list[n])
               ELSE kept[n - 1]]

\* They exist, for every length.
LEMMA KeptExists ==
    ASSUME NEW list, NEW statuses
    PROVE  \A m \in Nat : \E kept : KeptUpTo(list, statuses, kept, m)
<1> DEFINE T == {m \in Nat : \E kept : KeptUpTo(list, statuses, kept, m)}
<1>1. 0 \in T
  <2> DEFINE kept == [n \in 0 .. 0 |-> << >>]
  <2>1. KeptUpTo(list, statuses, kept, 0)
    BY DEF KeptUpTo
  <2> QED
    BY <2>1
<1>2. ASSUME NEW m \in Nat, m \in T
      PROVE  m + 1 \in T
  <2>1. PICK before : KeptUpTo(list, statuses, before, m)
    BY <1>2
  <2> DEFINE f == list[m + 1]
             next == IF oracle[f].status \in statuses THEN Append(before[m], f)
                                                      ELSE before[m]
             kept == [n \in 0 .. m + 1 |-> IF n = m + 1 THEN next ELSE before[n]]
  <2>2. \A n \in 0 .. m : kept[n] = before[n]
    OBVIOUS
  <2>3. kept[m + 1] = next
    OBVIOUS
  <2>4. ASSUME NEW n \in 0 .. m + 1
        PROVE  kept[n] = IF n = 0 THEN << >>
                         ELSE IF oracle[list[n]].status \in statuses
                         THEN Append(kept[n - 1], list[n]) ELSE kept[n - 1]
    <3>1. CASE n = m + 1
      <4>1. kept[n - 1] = before[m] /\ n # 0
        BY <2>2, <3>1
      <4> QED
        BY <2>3, <3>1, <4>1
    <3>2. CASE n # m + 1
      <4>1. n \in 0 .. m /\ (n # 0 => n - 1 \in 0 .. m)
        BY <3>2
      <4>2. kept[n] = before[n] /\ (n # 0 => kept[n - 1] = before[n - 1])
        BY <2>2, <4>1
      <4>3. before[n] = IF n = 0 THEN << >>
                        ELSE IF oracle[list[n]].status \in statuses
                        THEN Append(before[n - 1], list[n]) ELSE before[n - 1]
        BY <2>1, <4>1 DEF KeptUpTo
      <4> HIDE DEF kept
      <4> QED
        BY <4>2, <4>3
    <3> QED
      BY <3>1, <3>2
  <2>5. DOMAIN kept = 0 .. m + 1 /\ kept = [n \in 0 .. m + 1 |-> kept[n]]
    OBVIOUS
  <2> HIDE DEF kept
  <2>6. KeptUpTo(list, statuses, kept, m + 1)
    BY <2>4, <2>5 DEF KeptUpTo
  <2>7. m + 1 \in Nat
    OBVIOUS
  <2> QED
    BY <2>6, <2>7
<1> HIDE DEF T
<1>3. Nat \subseteq T
  BY <1>1, <1>2, NatSetInduction
<1> QED
  BY <1>3 DEF T

\* WithStatus returns flights of the list, all of them with a wanted status.
LEMMA WithStatusReturns ==
    ASSUME NEW list \in Seq(Flights), NEW statuses
    PROVE  WithStatus(list, statuses) \in Seq({f \in Flights : oracle[f].status \in statuses})
<1> DEFINE wanted == {f \in Flights : oracle[f].status \in statuses}
           kept == CHOOSE kept : KeptUpTo(list, statuses, kept, Len(list))
<1>0. Len(list) \in Nat /\ \A n \in 1 .. Len(list) : list[n] \in Flights
  BY LenProperties, ElementOfSeq
<1>1. WithStatus(list, statuses) = kept[Len(list)]
  BY DEF WithStatus, KeptUpTo
<1>2. KeptUpTo(list, statuses, kept, Len(list))
  BY <1>0, KeptExists
<1> HIDE DEF kept
<1> DEFINE T == {n \in Nat : n <= Len(list) => kept[n] \in Seq(wanted)}
<1>3. 0 \in T
  BY <1>0, <1>2 DEF KeptUpTo
<1>4. ASSUME NEW n \in Nat, n \in T
      PROVE  n + 1 \in T
  <2> SUFFICES ASSUME n + 1 <= Len(list)
               PROVE  kept[n + 1] \in Seq(wanted)
    OBVIOUS
  <2>1. kept[n] \in Seq(wanted) /\ list[n + 1] \in Flights
    BY <1>0, <1>4
  <2>2. kept[n + 1] = IF oracle[list[n + 1]].status \in statuses
                      THEN Append(kept[n], list[n + 1]) ELSE kept[n]
    <3>1. n + 1 \in 0 .. Len(list) /\ n + 1 # 0 /\ (n + 1) - 1 = n
      BY <1>0
    <3>2. \A i \in 0 .. Len(list) : i # 0 =>
             kept[i] = IF oracle[list[i]].status \in statuses
                       THEN Append(kept[i - 1], list[i]) ELSE kept[i - 1]
      BY <1>2 DEF KeptUpTo
    <3> QED
      BY <3>1, <3>2
  <2>3. CASE oracle[list[n + 1]].status \in statuses
    <3>1. list[n + 1] \in wanted
      BY <2>1, <2>3
    <3> HIDE DEF wanted
    <3> QED
      BY <2>1, <2>2, <2>3, <3>1, AppendProperties
  <2> QED
    BY <2>1, <2>2, <2>3
<1> HIDE DEF T
<1>5. Nat \subseteq T
  BY <1>3, <1>4, NatSetInduction
<1> QED
  BY <1>0, <1>1, <1>5 DEF T

\* Chunked cuts a sequence into slices of it.
LEMMA ChunkedReturns ==
    ASSUME NEW S, NEW flights \in Seq(S)
    PROVE  Chunked(flights) \in Seq(Seq(S))
<1> DEFINE n == (Len(flights) + 1) \div 2
           last(i) == IF 2 * i > Len(flights) THEN Len(flights) ELSE 2 * i
           slice(i) == SubSeq(flights, 2 * (i - 1) + 1, last(i))
<1>0. Len(flights) \in Nat /\ n \in Nat
  BY LenProperties
<1>1. Chunked(flights) = [i \in 1 .. n |-> slice(i)]
  BY <1>0 DEF Chunked, MAX_FLIGHTS_PER_TX
<1>2. ASSUME NEW i \in 1 .. n
      PROVE  slice(i) \in Seq(S)
  <2>1. /\ 2 * (i - 1) + 1 \in 1 .. Len(flights) + 1
        /\ last(i) \in (2 * (i - 1) + 1) - 1 .. Len(flights)
    BY <1>0
  <2> QED
    BY <2>1, SliceProperties
<1> HIDE DEF slice, n
<1> QED
  BY <1>0, <1>1, <1>2

-----------------------------------------------------------------------------
(* The chain, as far as the jobs look at it. *)

\* A flight's FlightData holds what the service says of it, from the estimate
\* on; nothing is recorded as flown before it has.
Seen(fd, answer) ==
    /\ fd.status \in {NoAccount, "NotInitiated", "Active"} => fd.actual_arrival_time = 0
    /\ fd.status \notin {NoAccount, "NotInitiated"} =>
          answer.scheduled_in # None /\ fd.estimated_arrival_time = answer.scheduled_in
    /\ fd.status \notin {NoAccount, "NotInitiated", "Active"} =>
          /\ IsOver(answer)
          /\ fd.actual_arrival_time = IF answer.cancelled THEN 0 ELSE answer.actual_in

\* Only flights with a FlightData are listed.
ListedExist(list, o) ==
    /\ list \in Seq(Flights)
    /\ \A i \in 1 .. Len(list) : o[list[i]].status # NoAccount

\* The chain says what the service says, of flights it knows.
Reported(o, c, answers) ==
    /\ o \in [Flights -> FlightData]
    /\ answers \in [Flights -> AeroFlight]
    /\ \A f \in Flights : Seen(o[f], answers[f])
    /\ ListedExist(c.active_flights, o)
    /\ c = [ active_flights            |-> c.active_flights,
             total_policies_sold       |-> c.total_policies_sold,
             total_premiums_collected  |-> c.total_premiums_collected,
             total_payouts_distributed |-> c.total_payouts_distributed ]

\* No flight goes back.
Onward(o, o2) == \A f \in Flights : Rank(o2[f].status) >= Rank(o[f].status)

\* The status of a flight orders what it went through.
LEMMA RankOfStatus ==
    ASSUME NEW fd \in FlightData
    PROVE  /\ Rank(fd.status) \in 0 .. 5
           /\ Rank(fd.status) = 0 <=> fd.status = NoAccount
           /\ Rank(fd.status) >= 2 <=> fd.status \notin {NoAccount, "NotInitiated"}
           /\ Rank(fd.status) >= 3 <=> fd.status \notin {NoAccount, "NotInitiated", "Active"}
           /\ Rank(fd.status) >= 4 <=> fd.status \in ToBeSettled \cup {"Settled"}
BY Ranks DEF FlightData, FlightStatus, ToBeSettled, NoAccount

\* What classifying and settling do to a FlightData: its status goes on, its
\* times stay.
Closing(fd, fd2) ==
    \/ fd2 = fd
    \/ /\ fd.status \notin {NoAccount, "NotInitiated", "Active"}
       /\ fd2 = [fd EXCEPT !.status = fd2.status]
       /\ fd2.status \in ToBeSettled \cup {"Settled"}
       /\ Rank(fd2.status) >= Rank(fd.status)

AllClosing(o, o2) ==
    /\ o2 \in [Flights -> FlightData]
    /\ \A f \in Flights : Closing(o[f], o2[f])

\* Two such steps in a row are one.
LEMMA ClosingTwice ==
    ASSUME NEW o \in [Flights -> FlightData], NEW o2, NEW o3,
           AllClosing(o, o2), AllClosing(o2, o3)
    PROVE  AllClosing(o, o3)
<1> SUFFICES ASSUME NEW f \in Flights
             PROVE  Closing(o[f], o3[f])
  BY DEF AllClosing
<1> DEFINE fd == o[f]
           fd2 == o2[f]
           fd3 == o3[f]
<1>1. /\ fd \in FlightData /\ fd2 \in FlightData /\ fd3 \in FlightData
      /\ Closing(fd, fd2) /\ Closing(fd2, fd3)
  BY DEF AllClosing
<1> HIDE DEF fd, fd2, fd3
<1>2. ASSUME fd2 = fd \/ fd3 = fd2
      PROVE  Closing(fd, fd3)
  BY <1>1, <1>2
<1>3. ASSUME fd2 # fd, fd3 # fd2
      PROVE  Closing(fd, fd3)
  <2>1. /\ fd.status \notin {NoAccount, "NotInitiated", "Active"}
        /\ fd2 = [fd EXCEPT !.status = fd2.status]
        /\ Rank(fd2.status) >= Rank(fd.status)
        /\ fd3 = [fd2 EXCEPT !.status = fd3.status]
        /\ fd3.status \in ToBeSettled \cup {"Settled"}
        /\ Rank(fd3.status) >= Rank(fd2.status)
    BY <1>1, <1>3 DEF Closing
  <2>2. fd3 = [fd EXCEPT !.status = fd3.status]
    BY <1>1, <2>1 DEF FlightData
  <2>3. Rank(fd.status) \in Int /\ Rank(fd2.status) \in Int /\ Rank(fd3.status) \in Int
    BY <1>1, RankOfStatus
  <2> QED
    BY <2>1, <2>2, <2>3 DEF Closing
<1> QED
  BY <1>2, <1>3 DEF fd, fd3

\* One flight is closed, the others stay.
LEMMA OneClosing ==
    ASSUME NEW o \in [Flights -> FlightData], NEW f \in Flights, NEW status,
           status \in ToBeSettled \cup {"Settled"},
           o[f].status \notin {NoAccount, "NotInitiated", "Active"},
           Rank(status) >= Rank(o[f].status)
    PROVE  AllClosing(o, [o EXCEPT ![f].status = status])
<1> DEFINE fd2 == [o[f] EXCEPT !.status = status]
           o2 == [o EXCEPT ![f] = fd2]
<1>1. fd2 \in FlightData /\ fd2.status = status
  BY DEF FlightData, FlightStatus
<1>2. Closing(o[f], fd2)
  BY <1>1 DEF Closing
<1> HIDE DEF fd2
<1>3. o2 \in [Flights -> FlightData] /\ o2[f] = fd2 /\ \A g \in Flights \ {f} : o2[g] = o[g]
  BY <1>1
<1>4. \A g \in Flights : Closing(o[g], o2[g])
  BY <1>2, <1>3 DEF Closing
<1> QED
  BY <1>3, <1>4 DEF AllClosing, fd2

\* What is reported stays reported when flights are closed.
LEMMA ClosingKeeps ==
    ASSUME NEW o, NEW c, NEW answers, Reported(o, c, answers),
           NEW o2, AllClosing(o, o2)
    PROVE  /\ Onward(o, o2)
           /\ \A f \in Flights : Seen(o2[f], answers[f])
           /\ \A f \in Flights : o[f].status # NoAccount => o2[f].status # NoAccount
<1> SUFFICES ASSUME NEW f \in Flights
             PROVE  /\ Rank(o2[f].status) >= Rank(o[f].status)
                    /\ Seen(o2[f], answers[f])
                    /\ o[f].status # NoAccount => o2[f].status # NoAccount
  BY DEF Onward
<1>1. /\ o[f] \in FlightData /\ o2[f] \in FlightData /\ Seen(o[f], answers[f])
      /\ Closing(o[f], o2[f])
  BY DEF Reported, AllClosing
<1>2. CASE o2[f] = o[f]
  <2>1. Rank(o[f].status) \in Int
    BY <1>1, RankOfStatus
  <2> QED
    BY <1>1, <1>2, <2>1
<1>3. CASE o2[f] # o[f]
  <2>1. /\ o[f].status \notin {NoAccount, "NotInitiated", "Active"}
        /\ o2[f] = [o[f] EXCEPT !.status = o2[f].status]
        /\ o2[f].status \in ToBeSettled \cup {"Settled"}
        /\ Rank(o2[f].status) >= Rank(o[f].status)
    BY <1>1, <1>3 DEF Closing
  <2>2. o2[f].status \notin {NoAccount, "NotInitiated", "Active"}
    BY <2>1 DEF ToBeSettled, NoAccount
  <2>3. /\ o2[f].estimated_arrival_time = o[f].estimated_arrival_time
        /\ o2[f].actual_arrival_time = o[f].actual_arrival_time
    BY <1>1, <2>1 DEF FlightData
  <2> QED
    BY <1>1, <2>1, <2>2, <2>3 DEF Seen
<1> QED
  BY <1>2, <1>3

\* classify_flight closes at most its flight.
LEMMA ClassifyCloses ==
    ASSUME NEW o \in [Flights -> FlightData], NEW f \in Flights, NEW o2 \in classify_flight(o, f)
    PROVE  AllClosing(o, o2)
<1>1. CASE o2 = o
  BY <1>1 DEF AllClosing, Closing
<1>2. CASE o2 # o
  <2>1. PICK status \in ToBeSettled :
          /\ o[f].status \in {"Landed", "Cancelled"}
          /\ o2 = [o EXCEPT ![f].status = status]
    BY <1>2 DEF classify_flight, set_to_be_settled, When, ToBeSettled
  <2>2. Rank(status) = 4 /\ Rank(o[f].status) = 3
    BY <2>1, Ranks
  <2>3. o[f].status \notin {NoAccount, "NotInitiated", "Active"}
    BY <2>1 DEF NoAccount
  <2>4. status \in ToBeSettled \cup {"Settled"} /\ Rank(status) >= Rank(o[f].status)
    BY <2>2
  <2> QED
    BY <2>1, <2>3, <2>4, OneClosing
<1> QED
  BY <1>1, <1>2

\* classify_flights, whatever it is passed.
LEMMA ClassifyingCloses ==
    ASSUME oracle \in [Flights -> FlightData], NEW batch \in Seq(Flights),
           classify_flights(batch)
    PROVE  AllClosing(oracle, oracle') /\ controller' = controller
<1> DEFINE first == IF batch = << >> THEN {oracle} ELSE classify_flight(oracle, batch[1])
<1>0. /\ Len(batch) \in Nat /\ (batch # << >> => Len(batch) >= 1)
      /\ \A i \in 1 .. Len(batch) : batch[i] \in Flights
  BY LenProperties, ElementOfSeq, EmptySeq
<1>1. ASSUME NEW o \in first
      PROVE  AllClosing(oracle, o)
  <2>1. CASE batch = << >>
    BY <1>1, <2>1 DEF AllClosing, Closing
  <2>2. CASE batch # << >>
    BY <1>0, <1>1, <2>2, ClassifyCloses
  <2> QED
    BY <2>1, <2>2
<1>2. CASE Len(batch) < 2
  BY <1>1, <1>2 DEF classify_flights
<1>3. CASE Len(batch) >= 2
  <2>1. PICK o \in first : oracle' \in classify_flight(o, batch[2])
    BY <1>0, <1>3 DEF classify_flights
  <2>2. AllClosing(oracle, o)
    BY <1>1
  <2>3. AllClosing(o, oracle')
    BY <1>0, <1>3, <2>1, <2>2, ClassifyCloses DEF AllClosing
  <2> QED
    BY <2>2, <2>3, ClosingTwice DEF classify_flights
<1> QED
  BY <1>0, <1>2, <1>3 DEF classify_flights

\* A set of numbers has a least one.
LEMMA LeastElement ==
    ASSUME NEW I \in SUBSET Nat, I # {}
    PROVE  Min(I) \in I
<1>1. IsWellFoundedOn(OpToRel(<, Nat), Nat)
  BY NatLessThanWellFounded
<1>2. PICK n \in I : \A m \in I : ~(<<m, n>> \in OpToRel(<, Nat))
  BY <1>1, WFMin, Zenon
<1>3. \A m \in Nat : m < n => m \notin I
  BY <1>2 DEF OpToRel
<1>4. \A m \in I : n <= m
  <2>1. I \subseteq Nat /\ n \in Nat
    OBVIOUS
  <2> QED
    BY <1>3, <2>1
<1> QED
  BY <1>4 DEF Min

\* Removing an entry, listed or not, adds none.
LEMMA RemovedAddsNone ==
    ASSUME NEW S, NEW s \in Seq(S), NEW e
    PROVE  /\ RemoveFirst(s, e) \in Seq(S)
           /\ \A j \in 1 .. Len(RemoveFirst(s, e)) :
                 \E i \in 1 .. Len(s) : s[i] = RemoveFirst(s, e)[j]
<1>0. Len(s) \in Nat
  BY LenProperties
<1>1. CASE \E i \in 1 .. Len(s) : s[i] = e
  <2> DEFINE I == {i \in 1 .. Len(s) : s[i] = e}
             k == Min(I)
             rest == RemoveAt(s, k)
  <2>1. I \in SUBSET Nat /\ I # {} /\ I \subseteq 1 .. Len(s)
    BY <1>0, <1>1
  <2>2. SelectInSeq(s, LAMBDA v : v = e) = k
    BY <2>1 DEF SelectInSeq
  <2> HIDE DEF I
  <2>3. k \in 1 .. Len(s)
    BY <2>1, LeastElement
  <2>4. RemoveFirst(s, e) = rest
    BY <1>1, <2>2 DEF RemoveFirst
  <2> HIDE DEF k
  <2>5. /\ rest \in Seq(S) /\ Len(rest) = Len(s) - 1
        /\ \A j \in 1 .. Len(s) - 1 : rest[j] = s[IF j < k THEN j ELSE j + 1]
    BY <2>3, RemoveAtProperties
  <2> HIDE DEF rest
  <2>6. ASSUME NEW j \in 1 .. Len(rest)
        PROVE  \E i \in 1 .. Len(s) : s[i] = rest[j]
    <3>1. (IF j < k THEN j ELSE j + 1) \in 1 .. Len(s)
      BY <1>0, <2>5
    <3>2. rest[j] = s[IF j < k THEN j ELSE j + 1]
      BY <2>5
    <3> QED
      BY <3>1, <3>2
  <2> QED
    BY <2>4, <2>5, <2>6
<1>2. CASE ~ \E i \in 1 .. Len(s) : s[i] = e
  <2>1. RemoveFirst(s, e) = s
    BY <1>2 DEF RemoveFirst
  <2> QED
    BY <2>1
<1> QED
  BY <1>1, <1>2

\* The list after a settlement names no flight it did not name before.
LEMMA RemovalsAddNone ==
    ASSUME NEW list, NEW o, ListedExist(list, o), NEW batch
    PROVE  ListedExist(RemoveFlights(list, batch), o)
<1> DEFINE first == IF batch = << >> THEN list ELSE RemoveFirst(list, batch[1])
<1>1. ListedExist(first, o)
  BY RemovedAddsNone DEF ListedExist
<1> HIDE DEF first
<1>2. ListedExist(RemoveFirst(first, batch[2]), o)
  BY <1>1, RemovedAddsNone DEF ListedExist
<1>3. RemoveFlights(list, batch) = IF Len(batch) < 2 THEN first ELSE RemoveFirst(first, batch[2])
  BY DEF RemoveFlights, first
<1> QED
  BY <1>1, <1>2, <1>3

\* settle_flight, as far as the oracle's accounts.
IsThread(w) ==
    /\ w = [ vault |-> w.vault, flight_pool |-> w.flight_pool,
             oracle |-> w.oracle, paid |-> w.paid ]
    /\ w.oracle \in [Flights -> FlightData]

\* One flight of a settlement that goes on closes it and leaves a thread.
LEMMA SettlingCloses ==
    ASSUME NEW w, IsThread(w), NEW f \in Flights, NEW x \in settle_flight(w, f)
    PROVE  IsThread(x) /\ AllClosing(w.oracle, x.oracle)
<1> DEFINE fd == w.oracle[f]
           branch == CASE fd.status = "ToBeSettledOnTime" -> settle_on_time_branch(w, f)
                       [] fd.status = "ToBeSettledDelayed" ->
                             settle_payout_branch(w, f, "Delayed")
                       [] fd.status = "ToBeSettledCancelled" ->
                             settle_payout_branch(w, f, "Cancelled")
                       [] OTHER -> {}
<1>1. PICK y \in branch, o2 \in set_settled(w.oracle, f) : x = [y EXCEPT !.oracle = o2]
  BY DEF settle_flight
<1>2. y \in settle_on_time_branch(w, f) \/ \E variant : y \in settle_payout_branch(w, f, variant)
  BY <1>1
<1>3. \/ \E q, v : y = [w EXCEPT !.flight_pool = q, !.vault = v]
      \/ \E q, v, paid : y = [w EXCEPT !.flight_pool = q, !.vault = v, !.paid = paid]
  <2>1. CASE y \in settle_on_time_branch(w, f)
    BY <2>1 DEF settle_on_time_branch
  <2>2. ASSUME NEW variant, y \in settle_payout_branch(w, f, variant)
        PROVE  \E q, v, paid : y = [w EXCEPT !.flight_pool = q, !.vault = v, !.paid = paid]
    <3> DEFINE p == w.flight_pool
               claim_expiry == now + CLAIM_EXPIRY_WINDOW
               settle(q) == IF variant = "Delayed" THEN settle_delayed(q, f, claim_expiry)
                                                   ELSE settle_cancelled(q, f, claim_expiry)
    <3>1. PICK q2 \in UNION {settle(q) : q \in PayoutReceived(p, f)},
               v \in settle_payout_from_vault(w.vault, PayoutDiff(p, f), TotalPayoff(p, f)) :
             y = [w EXCEPT !.flight_pool = q2, !.vault = v, !.paid = @ + PayoutDiff(p, f)]
      BY <2>2 DEF settle_payout_branch
    <3> QED
      BY <3>1
  <2> QED
    BY <1>2, <2>1, <2>2
<1>4. y = [ vault |-> y.vault, flight_pool |-> y.flight_pool, oracle |-> w.oracle, paid |-> y.paid ]
  <2>1. ASSUME NEW q, NEW v, y = [w EXCEPT !.flight_pool = q, !.vault = v]
        PROVE  y = [ vault |-> v, flight_pool |-> q, oracle |-> w.oracle, paid |-> w.paid ]
    BY <2>1 DEF IsThread
  <2>2. ASSUME NEW q, NEW v, NEW paid,
               y = [w EXCEPT !.flight_pool = q, !.vault = v, !.paid = paid]
        PROVE  y = [ vault |-> v, flight_pool |-> q, oracle |-> w.oracle, paid |-> paid ]
    BY <2>2 DEF IsThread
  <2> QED
    BY <1>3, <2>1, <2>2
<1>5. x = [ vault |-> y.vault, flight_pool |-> y.flight_pool, oracle |-> o2, paid |-> y.paid ]
  BY <1>1, <1>4
<1>6. fd.status \in ToBeSettled /\ o2 = [w.oracle EXCEPT ![f].status = "Settled"]
  BY <1>1 DEF set_settled, When
<1>7. /\ fd.status \notin {NoAccount, "NotInitiated", "Active"}
      /\ Rank("Settled") >= Rank(fd.status)
  <2>1. Rank("Settled") = 5 /\ Rank(fd.status) = 4
    BY <1>6, Ranks
  <2> QED
    BY <1>6, <2>1 DEF ToBeSettled, NoAccount
<1>8. AllClosing(w.oracle, o2)
  BY <1>6, <1>7, OneClosing DEF IsThread
<1> QED
  BY <1>5, <1>8 DEF IsThread, AllClosing

\* execute_settlements, whatever it is passed.
LEMMA SettlementCloses ==
    ASSUME oracle \in [Flights -> FlightData], ControllerFields, NEW batch \in Seq(Flights),
           NEW claimables, NEW day, execute_settlements(batch, claimables, day)
    PROVE  /\ AllClosing(oracle, oracle')
           /\ controller'.active_flights = RemoveFlights(controller.active_flights, batch)
           /\ ControllerFields'
<1>1. PICK w \in settle_batch(Settling, batch) :
          /\ oracle' = w.oracle
          /\ controller' \in
                CountPayouts([controller EXCEPT
                                 !.active_flights = RemoveFlights(controller.active_flights, batch)],
                             w.paid)
  BY DEF execute_settlements
<1>2. /\ Len(batch) \in Nat /\ (batch # << >> => Len(batch) >= 1)
      /\ \A i \in 1 .. Len(batch) : batch[i] \in Flights
  BY LenProperties, ElementOfSeq, EmptySeq
<1>3. IsThread(Settling) /\ Settling.oracle = oracle
  BY DEF IsThread, Settling
<1> DEFINE first == IF batch = << >> THEN {Settling} ELSE settle_flight(Settling, batch[1])
<1>4. ASSUME NEW x \in first
      PROVE  IsThread(x) /\ AllClosing(oracle, x.oracle)
  <2>1. CASE batch = << >>
    BY <1>3, <1>4, <2>1 DEF AllClosing, Closing
  <2>2. CASE batch # << >>
    BY <1>2, <1>3, <1>4, <2>2, SettlingCloses
  <2> QED
    BY <2>1, <2>2
<1>5. AllClosing(oracle, w.oracle)
  <2>1. CASE Len(batch) < 2
    BY <1>1, <1>4, <2>1 DEF settle_batch
  <2>2. CASE Len(batch) >= 2
    <3>1. PICK x \in first : w \in settle_flight(x, batch[2])
      BY <1>1, <1>2, <2>2 DEF settle_batch
    <3>2. IsThread(x) /\ AllClosing(oracle, x.oracle)
      BY <1>4
    <3>3. AllClosing(x.oracle, w.oracle)
      BY <1>2, <2>2, <3>1, <3>2, SettlingCloses
    <3> QED
      BY <3>2, <3>3, ClosingTwice
  <2> QED
    BY <1>2, <2>1, <2>2
<1>6. /\ controller'.active_flights = RemoveFlights(controller.active_flights, batch)
      /\ ControllerFields'
  BY <1>1, CountedList
<1> QED
  BY <1>1, <1>5, <1>6

\* One FlightData is written; it fits what the service says.
LEMMA OneReported ==
    ASSUME NEW o, NEW c, NEW answers, Reported(o, c, answers),
           NEW f \in Flights, NEW fd2 \in FlightData, Seen(fd2, answers[f]),
           fd2.status # NoAccount, Rank(fd2.status) >= Rank(o[f].status),
           NEW o2, o2 = [o EXCEPT ![f] = fd2]
    PROVE  Reported(o2, c, answers) /\ Onward(o, o2)
<1>1. o2 \in [Flights -> FlightData] /\ o2[f] = fd2 /\ \A g \in Flights \ {f} : o2[g] = o[g]
  BY DEF Reported
<1>2. \A g \in Flights : Seen(o2[g], answers[g])
  BY <1>1 DEF Reported
<1>3. ListedExist(c.active_flights, o2)
  <2>1. \A i \in 1 .. Len(c.active_flights) : c.active_flights[i] \in Flights
    BY ElementOfSeq DEF Reported, ListedExist
  <2> QED
    BY <1>1, <2>1 DEF Reported, ListedExist
<1>4. \A g \in Flights : Rank(o2[g].status) >= Rank(o[g].status)
  <2> TAKE g \in Flights
  <2>1. Rank(o[g].status) \in Int
    BY RankOfStatus DEF Reported
  <2> QED
    BY <1>1, <2>1
<1> QED
  BY <1>1, <1>2, <1>3, <1>4 DEF Reported, Onward

\* What moves on twice has moved on.
LEMMA OnwardTwice ==
    ASSUME NEW o \in [Flights -> FlightData], NEW o2 \in [Flights -> FlightData],
           NEW o3 \in [Flights -> FlightData], Onward(o, o2), Onward(o2, o3)
    PROVE  Onward(o, o3)
<1> SUFFICES ASSUME NEW f \in Flights
             PROVE  Rank(o3[f].status) >= Rank(o[f].status)
  BY DEF Onward
<1>1. Rank(o[f].status) \in Int /\ Rank(o2[f].status) \in Int /\ Rank(o3[f].status) \in Int
  BY RankOfStatus
<1> QED
  BY <1>1 DEF Onward

\* The flights of a batch have come as far as n.
AtLeast(o, batch, n) == \A j \in 1 .. Len(batch) : Rank(o[batch[j]].status) >= n

\* A transaction, sent or given up, rests on what the service has said, and a
\* settlement on flights that are classified.
Founded(tx, o, answers) ==
    \/ tx = NoTx
    \/ /\ tx.kind = "report" /\ tx.flight \in Flights
       /\ tx.eta \in {None, answers[tx.flight].scheduled_in}
       /\ tx.outcome = "landed" =>
             /\ ~answers[tx.flight].cancelled /\ answers[tx.flight].actual_in # None
             /\ tx.arrival = answers[tx.flight].actual_in
       /\ tx.outcome = "cancelled" => answers[tx.flight].cancelled
    \/ tx.kind = "classify" /\ tx.batch \in Seq(Flights)
    \/ tx.kind = "settle" /\ tx.batch \in Seq(Flights) /\ AtLeast(o, tx.batch, 4)

\* The estimate of a report, if it has one.
LEMMA EstimateKeeps ==
    ASSUME NEW o, NEW c, NEW answers, Reported(o, c, answers), NEW f \in Flights,
           NEW eta, eta = answers[f].scheduled_in, eta # None,
           NEW o2 \in set_estimated_arrival(o, f, eta)
    PROVE  Reported(o2, c, answers) /\ Onward(o, o2)
<1> DEFINE fd == o[f]
           fd2 == [fd EXCEPT !.status = "Active", !.estimated_arrival_time = eta]
           once == [o EXCEPT ![f].status = "Active"]
<1>0. /\ o \in [Flights -> FlightData] /\ fd \in FlightData /\ Seen(fd, answers[f])
      /\ eta \in Int
  BY DEF Reported, AeroFlight
<1>1. fd.status = "NotInitiated" /\ o2 = [once EXCEPT ![f].estimated_arrival_time = eta]
  BY DEF set_estimated_arrival, When
<1>2. o2 = [o EXCEPT ![f] = fd2]
  BY <1>0, <1>1
<1>3. /\ fd2 \in FlightData /\ fd2.status = "Active" /\ fd2.estimated_arrival_time = eta
      /\ fd2.actual_arrival_time = fd.actual_arrival_time
  BY <1>0 DEF FlightData, FlightStatus
<1> HIDE DEF fd2, fd
<1>4. Seen(fd2, answers[f])
  BY <1>0, <1>1, <1>3 DEF Seen, NoAccount
<1>5. Rank(fd2.status) >= Rank(fd.status) /\ fd2.status # NoAccount
  BY <1>1, <1>3, Ranks DEF NoAccount
<1> QED
  BY <1>2, <1>3, <1>4, <1>5, OneReported DEF fd

\* Its outcome.
LEMMA LandingKeeps ==
    ASSUME NEW o, NEW c, NEW answers, Reported(o, c, answers), NEW f \in Flights,
           ~answers[f].cancelled, answers[f].actual_in # None,
           NEW arrival, arrival = answers[f].actual_in,
           NEW o2 \in set_landed(o, f, arrival)
    PROVE  Reported(o2, c, answers) /\ Onward(o, o2)
<1> DEFINE fd == o[f]
           fd2 == [fd EXCEPT !.status = "Landed", !.actual_arrival_time = arrival]
           once == [o EXCEPT ![f].status = "Landed"]
<1>0. /\ o \in [Flights -> FlightData] /\ fd \in FlightData /\ Seen(fd, answers[f])
      /\ arrival \in Int
  BY DEF Reported, AeroFlight
<1>1. fd.status = "Active" /\ o2 = [once EXCEPT ![f].actual_arrival_time = arrival]
  BY DEF set_landed, When
<1>2. o2 = [o EXCEPT ![f] = fd2]
  BY <1>0, <1>1
<1>3. /\ fd2 \in FlightData /\ fd2.status = "Landed" /\ fd2.actual_arrival_time = arrival
      /\ fd2.estimated_arrival_time = fd.estimated_arrival_time
  BY <1>0 DEF FlightData, FlightStatus
<1> HIDE DEF fd2, fd
<1>4. Seen(fd2, answers[f])
  BY <1>0, <1>1, <1>3 DEF Seen, NoAccount, IsOver
<1>5. Rank(fd2.status) >= Rank(fd.status) /\ fd2.status # NoAccount
  BY <1>1, <1>3, Ranks DEF NoAccount
<1> QED
  BY <1>2, <1>3, <1>4, <1>5, OneReported DEF fd

\* set_cancelled, of a flight the service says is cancelled: the chain still says
\* what the service says.
LEMMA CancellationKeeps ==
    ASSUME NEW o, NEW c, NEW answers, Reported(o, c, answers), NEW f \in Flights,
           answers[f].cancelled, NEW o2 \in set_cancelled(o, f)
    PROVE  Reported(o2, c, answers) /\ Onward(o, o2)
<1> DEFINE fd == o[f]
           fd2 == [fd EXCEPT !.status = "Cancelled"]
<1>0. o \in [Flights -> FlightData] /\ fd \in FlightData /\ Seen(fd, answers[f])
  BY DEF Reported
<1>1. fd.status = "Active" /\ o2 = [o EXCEPT ![f] = fd2]
  BY <1>0 DEF set_cancelled, When
<1>3. /\ fd2 \in FlightData /\ fd2.status = "Cancelled"
      /\ fd2.actual_arrival_time = fd.actual_arrival_time
      /\ fd2.estimated_arrival_time = fd.estimated_arrival_time
  BY <1>0 DEF FlightData, FlightStatus
<1> HIDE DEF fd2, fd
<1>4. Seen(fd2, answers[f])
  BY <1>0, <1>1, <1>3 DEF Seen, NoAccount, IsOver
<1>5. Rank(fd2.status) >= Rank(fd.status) /\ fd2.status # NoAccount
  BY <1>1, <1>3, Ranks DEF NoAccount
<1> QED
  BY <1>1, <1>3, <1>4, <1>5, OneReported DEF fd

\* Reports, classifications and settlements, whenever they land.
LEMMA LandsKeeps ==
    ASSUME Reported(oracle, controller, aeroapi), NEW tx, Founded(tx, oracle, aeroapi), Lands(tx)
    PROVE  Reported(oracle', controller', aeroapi) /\ Onward(oracle, oracle')
<1>0. oracle \in [Flights -> FlightData]
  BY DEF Reported
<1>1. CASE tx.kind = "report" /\ ReportLands(tx)
  <2> DEFINE f == tx.flight
             seeded == IF tx.eta = None THEN {oracle}
                       ELSE set_estimated_arrival(oracle, f, tx.eta)
             outcome(o) == CASE tx.outcome = "landed" -> set_landed(o, f, tx.arrival)
                             [] tx.outcome = "cancelled" -> set_cancelled(o, f)
                             [] OTHER -> {o}
  <2>1. oracle' \in UNION {outcome(o) : o \in seeded} /\ controller' = controller
    BY <1>1 DEF ReportLands
  <2>2. PICK o \in seeded : oracle' \in outcome(o)
    BY <2>1
  <2>3. /\ f \in Flights /\ tx.eta \in {None, aeroapi[f].scheduled_in}
        /\ tx.outcome = "landed" => /\ ~aeroapi[f].cancelled /\ aeroapi[f].actual_in # None
                                    /\ tx.arrival = aeroapi[f].actual_in
        /\ tx.outcome = "cancelled" => aeroapi[f].cancelled
    BY <1>1 DEF Founded, NoTx
  <2>4. Reported(o, controller, aeroapi) /\ Onward(oracle, o)
    <3>1. CASE tx.eta = None
      <4>1. \A g \in Flights : Rank(oracle[g].status) \in Int
        BY <1>0, RankOfStatus
      <4> QED
        BY <3>1, <4>1 DEF Onward
    <3>2. CASE tx.eta # None
      <4>1. o \in set_estimated_arrival(oracle, f, tx.eta) /\ tx.eta = aeroapi[f].scheduled_in
        BY <2>3, <3>2
      <4> QED
        BY <2>3, <3>2, <4>1, EstimateKeeps
    <3> QED
      BY <3>1, <3>2
  <2>5. Reported(oracle', controller, aeroapi) /\ Onward(o, oracle')
    <3>1. CASE tx.outcome = "landed"
      <4>1. oracle' \in set_landed(o, f, tx.arrival)
        BY <2>2, <3>1
      <4> QED
        BY <2>3, <2>4, <3>1, <4>1, LandingKeeps
    <3>2. CASE tx.outcome = "cancelled"
      <4>1. oracle' \in set_cancelled(o, f)
        BY <2>2, <3>2
      <4> QED
        BY <2>3, <2>4, <3>2, <4>1, CancellationKeeps
    <3>3. CASE tx.outcome \notin {"landed", "cancelled"}
      <4>1. oracle' = o
        BY <2>2, <3>3
      <4>2. \A g \in Flights : Rank(o[g].status) \in Int
        BY <2>4, RankOfStatus DEF Reported
      <4> QED
        BY <2>4, <4>1, <4>2 DEF Onward
    <3> QED
      BY <3>1, <3>2, <3>3
  <2>6. Onward(oracle, oracle')
    BY <2>4, <2>5, OnwardTwice DEF Reported
  <2> QED
    BY <2>1, <2>5, <2>6
<1>2. ASSUME AllClosing(oracle, oracle'),
             \/ controller' = controller
             \/ \E batch :
                   /\ controller'.active_flights = RemoveFlights(controller.active_flights, batch)
                   /\ ControllerFields'
      PROVE  Reported(oracle', controller', aeroapi) /\ Onward(oracle, oracle')
  <2>1. /\ Onward(oracle, oracle')
        /\ \A f \in Flights : Seen(oracle'[f], aeroapi[f])
        /\ \A f \in Flights : oracle[f].status # NoAccount => oracle'[f].status # NoAccount
    BY <1>2, ClosingKeeps
  <2>2. /\ ListedExist(controller'.active_flights, oracle)
        /\ controller' = [ active_flights |-> controller'.active_flights,
                           total_policies_sold |-> controller'.total_policies_sold,
                           total_premiums_collected |-> controller'.total_premiums_collected,
                           total_payouts_distributed |-> controller'.total_payouts_distributed ]
    <3>1. CASE controller' = controller
      BY <3>1 DEF Reported
    <3>2. ASSUME NEW batch, ControllerFields',
                 controller'.active_flights = RemoveFlights(controller.active_flights, batch)
          PROVE  <2>2!1 /\ <2>2!2
      <4>1. ListedExist(RemoveFlights(controller.active_flights, batch), oracle)
        BY RemovalsAddNone DEF Reported
      <4> QED
        BY <3>2, <4>1 DEF ControllerFields
    <3> QED
      BY <1>2, <3>1, <3>2
  <2>3. ListedExist(controller'.active_flights, oracle')
    <3>1. \A i \in 1 .. Len(controller'.active_flights) : controller'.active_flights[i] \in Flights
      BY <2>2, ElementOfSeq DEF ListedExist
    <3> QED
      BY <2>1, <2>2, <3>1 DEF ListedExist
  <2> QED
    BY <1>2, <2>1, <2>2, <2>3 DEF Reported, AllClosing
<1>3. CASE tx.kind = "classify" /\ classify_flights(tx.batch)
  <2>1. tx.batch \in Seq(Flights)
    BY <1>3 DEF Founded, NoTx
  <2> QED
    BY <1>0, <1>2, <1>3, <2>1, ClassifyingCloses
<1>4. CASE tx.kind = "settle" /\ execute_settlements(tx.batch, tx.claimables, tx.day)
  <2>1. tx.batch \in Seq(Flights)
    BY <1>4 DEF Founded, NoTx
  <2> QED
    BY <1>0, <1>2, <1>4, <2>1, SettlementCloses DEF Reported, ControllerFields
<1> QED
  BY <1>1, <1>3, <1>4 DEF Lands

\* A sale creates the first buyer's FlightData and lists the flight.
LEMMA SaleKeeps ==
    ASSUME Reported(oracle, controller, aeroapi), NEW t, NEW f \in Flights, NEW route,
           buy_insurance(t, f, route)
    PROVE  Reported(oracle', controller', aeroapi) /\ Onward(oracle, oracle')
<1> DEFINE first == flight_pool.pools[f].status = NoAccount
           list == controller.active_flights
<1>1. PICK premium :
        /\ oracle' \in IF first THEN init_flight_data(oracle, f) ELSE {oracle}
        /\ controller' \in
              CountSale([controller EXCEPT
                            !.active_flights = IF first THEN Append(list, f) ELSE list],
                        premium)
  BY DEF buy_insurance
<1>2. /\ controller'.active_flights = IF first THEN Append(list, f) ELSE list
      /\ controller' = [ active_flights            |-> controller'.active_flights,
                         total_policies_sold       |-> controller'.total_policies_sold,
                         total_premiums_collected  |-> controller'.total_premiums_collected,
                         total_payouts_distributed |-> controller'.total_payouts_distributed ]
  <2>1. ControllerFields
    BY DEF Reported, ControllerFields
  <2> DEFINE sold == IF first THEN Append(list, f) ELSE list
  <2>2. controller' \in CountSale([controller EXCEPT !.active_flights = sold], premium)
    BY <1>1
  <2> HIDE DEF sold
  <2>3. controller'.active_flights = sold /\ ControllerFields'
    BY <2>1, <2>2, CountedList
  <2> QED
    BY <2>3 DEF ControllerFields, sold
<1>3. CASE first
  <2> DEFINE fd2 == [NoFlightData EXCEPT !.status = "NotInitiated"]
  <2>1. oracle[f].status = NoAccount /\ oracle' = [oracle EXCEPT ![f] = fd2]
    BY <1>1, <1>3 DEF init_flight_data, When
  <2>2. fd2 \in FlightData /\ fd2.status = "NotInitiated" /\ fd2.actual_arrival_time = 0
    BY DEF FlightData, FlightStatus, NoFlightData
  <2> HIDE DEF fd2
  <2>3. Seen(fd2, aeroapi[f]) /\ fd2.status # NoAccount
    BY <2>2 DEF Seen, NoAccount
  <2>4. Rank(fd2.status) >= Rank(oracle[f].status)
    BY <2>1, <2>2, Ranks
  <2>5. Reported(oracle', controller, aeroapi) /\ Onward(oracle, oracle')
    BY <2>1, <2>2, <2>3, <2>4, OneReported
  <2>6. ListedExist(Append(list, f), oracle')
    <3>1. oracle'[f].status # NoAccount
      BY <2>1, <2>3 DEF Reported
    <3>2. /\ Append(list, f) \in Seq(Flights) /\ Len(Append(list, f)) = Len(list) + 1
          /\ Len(list) \in Nat
          /\ \A i \in 1 .. Len(list) : Append(list, f)[i] = list[i]
          /\ Append(list, f)[Len(list) + 1] = f
      BY <2>5, AppendProperties, LenProperties DEF Reported, ListedExist
    <3>3. ASSUME NEW i \in 1 .. Len(list) + 1
          PROVE  oracle'[Append(list, f)[i]].status # NoAccount
      <4>1. i \in 1 .. Len(list) \/ i = Len(list) + 1
        BY <3>2
      <4> QED
        BY <2>5, <3>1, <3>2, <4>1 DEF Reported, ListedExist
    <3> QED
      BY <3>2, <3>3 DEF ListedExist
  <2> QED
    BY <1>2, <1>3, <2>5, <2>6 DEF Reported
<1>4. CASE ~first
  <2>1. oracle' = oracle
    BY <1>1, <1>4
  <2>2. \A g \in Flights : Rank(oracle[g].status) \in Int
    BY RankOfStatus DEF Reported
  <2> QED
    BY <1>2, <1>4, <2>1, <2>2 DEF Reported, Onward
<1> QED
  BY <1>3, <1>4

-----------------------------------------------------------------------------
(* What the ticks know. *)

\* What the service may come to say: a schedule stays, and so does what is over.
AnswersKept(answers, later) ==
    /\ later \in [Flights -> AeroFlight]
    /\ \A f \in Flights :
          \/ later[f] = answers[f]
          \/ /\ ~IsOver(answers[f])
             /\ answers[f].scheduled_in \in {None, later[f].scheduled_in}

\* The status from which a job has something to do.
Wanted(job) == CASE job = "fetcher" -> 1 [] job = "classifier" -> 3 [] job = "settler" -> 4

\* A tick under way: its flights had the status its job wants when it read them,
\* and what it sends is founded.
Working(job, tick, o, answers) ==
    /\ tick \in [todo : Seq(Seq(Flights)), tx : {tick.tx},
                 claimables : {tick.claimables}, day : {tick.day}]
    /\ Founded(tick.tx, o, answers)
    /\ \A i \in 1 .. Len(tick.todo) : AtLeast(o, tick.todo[i], Wanted(job))
    /\ job = "fetcher" => \A i \in 1 .. Len(tick.todo) : Len(tick.todo[i]) = 1
    /\ tick = Idle \/ (tick.todo # << >> /\ (job = "fetcher" \/ tick.tx # NoTx))

\* The invariant of the executor: chain, ticks under way, transactions given up.
ReportsInv ==
    /\ Reported(oracle, controller, aeroapi)
    /\ ticks \in [Ticks -> {ticks[k] : k \in Ticks}]
    /\ \A k \in Ticks : Working(JobOf[k], ticks[k], oracle, aeroapi)
    /\ \A tx \in late : Founded(tx, oracle, aeroapi)

\* What a job wants of a flight is one of the ranks of Rank.
LEMMA WantedNumbers ==
    ASSUME NEW job \in Jobs
    PROVE  Wanted(job) \in 1 .. 4
BY DEF Wanted, Jobs

\* What is at least so far stays at least so far.
LEMMA AtLeastLater ==
    ASSUME NEW o \in [Flights -> FlightData], NEW o2 \in [Flights -> FlightData],
           Onward(o, o2), NEW n \in Int, NEW batch \in Seq(Flights), AtLeast(o, batch, n)
    PROVE  AtLeast(o2, batch, n)
<1> SUFFICES ASSUME NEW j \in 1 .. Len(batch)
             PROVE  Rank(o2[batch[j]].status) >= n
  BY DEF AtLeast
<1>1. batch[j] \in Flights
  BY ElementOfSeq
<1>2. Rank(o[batch[j]].status) \in Int /\ Rank(o2[batch[j]].status) \in Int
  BY <1>1, RankOfStatus
<1> QED
  BY <1>1, <1>2 DEF Onward, AtLeast

\* What is founded stays founded while the chain and the service move on.
LEMMA FoundedLater ==
    ASSUME NEW o \in [Flights -> FlightData], NEW o2 \in [Flights -> FlightData],
           Onward(o, o2), NEW answers \in [Flights -> AeroFlight], NEW later,
           AnswersKept(answers, later), NEW tx, Founded(tx, o, answers)
    PROVE  Founded(tx, o2, later)
<1>1. CASE tx = NoTx \/ (tx.kind = "classify" /\ tx.batch \in Seq(Flights))
  BY <1>1 DEF Founded
<1>2. CASE tx.kind = "settle" /\ tx.batch \in Seq(Flights) /\ AtLeast(o, tx.batch, 4)
  BY <1>2, AtLeastLater DEF Founded
<1>3. CASE /\ tx.kind = "report" /\ tx.flight \in Flights
           /\ tx.eta \in {None, answers[tx.flight].scheduled_in}
           /\ tx.outcome = "landed" =>
                 /\ ~answers[tx.flight].cancelled /\ answers[tx.flight].actual_in # None
                 /\ tx.arrival = answers[tx.flight].actual_in
           /\ tx.outcome = "cancelled" => answers[tx.flight].cancelled
  <2> DEFINE f == tx.flight
  <2>1. CASE later[f] = answers[f]
    BY <1>3, <2>1 DEF Founded
  <2>2. CASE /\ ~IsOver(answers[f])
             /\ answers[f].scheduled_in \in {None, later[f].scheduled_in}
    BY <1>3, <2>2 DEF Founded, IsOver
  <2> QED
    BY <1>3, <2>1, <2>2 DEF AnswersKept
<1> QED
  BY <1>1, <1>2, <1>3 DEF Founded

\* A tick that waits stays well founded while the chain moves on and the service
\* learns.
LEMMA WorkingLater ==
    ASSUME NEW o \in [Flights -> FlightData], NEW o2 \in [Flights -> FlightData],
           Onward(o, o2), NEW answers \in [Flights -> AeroFlight], NEW later,
           AnswersKept(answers, later), NEW job \in Jobs, NEW tick,
           Working(job, tick, o, answers)
    PROVE  Working(job, tick, o2, later)
<1>1. Founded(tick.tx, o2, later)
  BY FoundedLater DEF Working
<1>2. ASSUME NEW i \in 1 .. Len(tick.todo)
      PROVE  AtLeast(o2, tick.todo[i], Wanted(job))
  <2>1. tick.todo \in Seq(Seq(Flights))
    BY DEF Working
  <2>2. tick.todo[i] \in Seq(Flights) /\ Wanted(job) \in Int
    BY <2>1, ElementOfSeq, WantedNumbers
  <2> QED
    BY <2>2, AtLeastLater DEF Working
<1> QED
  BY <1>1, <1>2 DEF Working

\* An idle tick knows nothing, and nothing is always founded.
LEMMA IdleWorks ==
    ASSUME NEW job, NEW o, NEW answers
    PROVE  Working(job, Idle, o, answers) /\ Idle.tx = NoTx /\ Idle.todo = << >>
<1>1. << >> \in Seq(Seq(Flights)) /\ Len(<< >>) = 0
  BY EmptySeq
<1>2. Idle \in [todo : Seq(Seq(Flights)), tx : {Idle.tx},
                claimables : {Idle.claimables}, day : {Idle.day}]
  BY <1>1 DEF Idle
<1>3. Idle.tx = NoTx /\ Idle.todo = << >>
  BY DEF Idle
<1> QED
  BY <1>1, <1>2, <1>3 DEF Working, Founded

\* Resume: from any tick, with flights that have the wanted status.
LEMMA ResumeWorks ==
    ASSUME NEW job \in Jobs, NEW o, NEW answers, NEW tick, NEW todo \in Seq(Seq(Flights)),
           tick \in [todo : {tick.todo}, tx : {tick.tx},
                     claimables : {tick.claimables}, day : {tick.day}],
           \A i \in 1 .. Len(todo) : AtLeast(o, todo[i], Wanted(job)),
           job = "fetcher" => \A i \in 1 .. Len(todo) : Len(todo[i]) = 1
    PROVE  Working(job, Resume(tick, todo, job), o, answers)
<1>1. CASE todo = << >>
  BY <1>1, IdleWorks DEF Resume
<1>2. CASE todo # << >>
  <2> DEFINE tx == CASE job = "fetcher" -> NoTx
                     [] job = "classifier" -> Classify(todo[1])
                     [] job = "settler" -> Settle(todo[1], tick.claimables, tick.day)
             next == Resume(tick, todo, job)
  <2>1. next = [ todo |-> todo, tx |-> tx, claimables |-> tick.claimables, day |-> tick.day ]
    BY <1>2 DEF Resume
  <2>2. Len(todo) \in Nat /\ Len(todo) >= 1
    BY <1>2, LenProperties, EmptySeq
  <2>3. todo[1] \in Seq(Flights) /\ AtLeast(o, todo[1], Wanted(job))
    BY <2>2, ElementOfSeq
  <2>4. Founded(tx, o, answers) /\ (job # "fetcher" => tx # NoTx)
    <3>1. CASE job = "fetcher"
      BY <3>1 DEF Founded
    <3>2. CASE job = "classifier"
      BY <2>3, <3>2 DEF Founded, Classify, NoTx
    <3>3. CASE job = "settler"
      <4>1. Wanted(job) = 4
        BY <3>3 DEF Wanted
      <4> QED
        BY <2>3, <3>3, <4>1 DEF Founded, Settle, NoTx
    <3> QED
      BY <3>1, <3>2, <3>3 DEF Jobs
  <2> HIDE DEF tx, next
  <2>5. /\ next.todo = todo /\ next.tx = tx
        /\ next \in [todo : Seq(Seq(Flights)), tx : {next.tx},
                     claimables : {next.claimables}, day : {next.day}]
    BY <2>1
  <2>6. Working(job, next, o, answers)
    BY <1>2, <2>4, <2>5 DEF Working
  <2> QED
    BY <2>6 DEF next
<1> QED
  BY <1>1, <1>2

\* GoOn: the rest of what a tick has to do.
LEMMA GoingOnWorks ==
    ASSUME NEW job \in Jobs, NEW o, NEW answers, NEW tick, Working(job, tick, o, answers),
           tick # Idle
    PROVE  Working(job, Resume(tick, Tail(tick.todo), job), o, answers)
<1> DEFINE todo == tick.todo
           rest == Tail(todo)
<1>1. todo \in Seq(Seq(Flights)) /\ todo # << >>
  BY DEF Working
<1>2. Len(todo) \in Nat /\ Len(todo) >= 1
  BY <1>1, LenProperties, EmptySeq
<1>3. /\ rest \in Seq(Seq(Flights)) /\ Len(rest) = Len(todo) - 1
      /\ \A i \in 1 .. Len(rest) : i + 1 \in 1 .. Len(todo) /\ rest[i] = todo[i + 1]
  BY <1>1, <1>2, HeadTailProperties
<1>4. /\ \A i \in 1 .. Len(todo) : AtLeast(o, todo[i], Wanted(job))
      /\ job = "fetcher" => \A i \in 1 .. Len(todo) : Len(todo[i]) = 1
      /\ tick \in [todo : {todo}, tx : {tick.tx}, claimables : {tick.claimables}, day : {tick.day}]
  BY DEF Working
<1> HIDE DEF rest, todo
<1>5. /\ \A i \in 1 .. Len(rest) : AtLeast(o, rest[i], Wanted(job))
      /\ job = "fetcher" => \A i \in 1 .. Len(rest) : Len(rest[i]) = 1
  BY <1>3, <1>4
<1>6. Working(job, Resume(tick, rest, job), o, answers)
  BY <1>3, <1>4, <1>5, ResumeWorks DEF todo
<1> QED
  BY <1>6 DEF rest, todo

\* What a fetcher decides to send is what the service says.
LEMMA DecisionFounded ==
    ASSUME Reported(oracle, controller, aeroapi), NEW f \in Flights
    PROVE  Founded(decideFetcherActions(aeroapi[f], oracle[f].status, f), oracle, aeroapi)
<1> DEFINE answer == aeroapi[f]
           status == oracle[f].status
           first == status = "NotInitiated"
           outcome == CASE answer.cancelled -> "cancelled"
                        [] ~answer.cancelled /\ answer.actual_in # None -> "landed"
                        [] OTHER -> "none"
           tx == Report(f, IF first THEN answer.scheduled_in ELSE None, outcome,
                        IF outcome = "landed" THEN answer.actual_in ELSE None)
<1>1. decideFetcherActions(answer, status, f) \in {NoTx, tx}
  BY DEF decideFetcherActions
<1>2. /\ outcome = "landed" => ~answer.cancelled /\ answer.actual_in # None
      /\ outcome = "cancelled" => answer.cancelled
  <2>1. answer.cancelled \in BOOLEAN
    BY DEF Reported, AeroFlight
  <2>2. CASE answer.cancelled
    BY <2>2
  <2>3. CASE ~answer.cancelled /\ answer.actual_in # None
    BY <2>3
  <2>4. CASE ~answer.cancelled /\ answer.actual_in = None
    BY <2>4
  <2> QED
    BY <2>1, <2>2, <2>3, <2>4
<1> HIDE DEF outcome
<1>3. /\ tx.kind = "report" /\ tx.flight = f /\ tx.outcome = outcome
      /\ tx.eta \in {None, answer.scheduled_in}
      /\ outcome = "landed" => tx.arrival = answer.actual_in
  BY DEF Report
<1> HIDE DEF tx
<1>4. Founded(tx, oracle, aeroapi)
  BY <1>2, <1>3 DEF Founded
<1> QED
  BY <1>1, <1>4 DEF Founded

\* Batches of listed flights with a wanted status.
LEMMA BatchesFounded ==
    ASSUME Reported(oracle, controller, aeroapi), NEW statuses, NEW n \in Int,
           \A f \in Flights : oracle[f].status \in statuses => Rank(oracle[f].status) >= n
    PROVE  /\ BatchesOf(statuses) \in Seq(Seq(Flights))
           /\ \A i \in 1 .. Len(BatchesOf(statuses)) : AtLeast(oracle, BatchesOf(statuses)[i], n)
<1> DEFINE wanted == {f \in Flights : oracle[f].status \in statuses}
           batches == BatchesOf(statuses)
<1>1. WithStatus(controller.active_flights, statuses) \in Seq(wanted)
  BY WithStatusReturns DEF Reported, ListedExist
<1> HIDE DEF wanted
<1>2. batches \in Seq(Seq(wanted))
  BY <1>1, ChunkedReturns DEF BatchesOf
<1> HIDE DEF batches
<1>3. ASSUME NEW i \in 1 .. Len(batches)
      PROVE  batches[i] \in Seq(Flights) /\ AtLeast(oracle, batches[i], n)
  <2>1. batches[i] \in Seq(wanted)
    BY <1>2, ElementOfSeq
  <2>2. \A j \in 1 .. Len(batches[i]) : batches[i][j] \in wanted
    BY <2>1, ElementOfSeq
  <2>3. batches[i] \in Seq(Flights)
    BY <2>1 DEF wanted
  <2> QED
    BY <2>2, <2>3 DEF AtLeast, wanted
<1>4. batches \in Seq(Seq(Flights))
  BY <1>2, <1>3
<1> QED
  BY <1>3, <1>4 DEF batches

\* A tick starts with what it reads.
LEMMA StartWorks ==
    ASSUME ReportsInv, NEW k \in Ticks, StartTick(k)
    PROVE  \E tick : /\ ticks' = [ticks EXCEPT ![k] = tick]
                     /\ Working(JobOf[k], tick, oracle, aeroapi)
<1> DEFINE job == JobOf[k]
           list == controller.active_flights
           singles == [i \in DOMAIN list |-> <<list[i]>>]
<1>0. /\ Reported(oracle, controller, aeroapi) /\ oracle \in [Flights -> FlightData]
      /\ list \in Seq(Flights) /\ Len(list) \in Nat /\ DOMAIN list = 1 .. Len(list)
      /\ \A i \in 1 .. Len(list) : list[i] \in Flights /\ oracle[list[i]].status # NoAccount
      /\ job \in Jobs
  BY LenProperties, ElementOfSeq, ExecutorAssumption DEF ReportsInv, Reported, ListedExist
<1> HIDE DEF job, list
<1>1. CASE job = "fetcher"
  <2> DEFINE read == [Idle EXCEPT !.todo = singles]
  <2>1. ticks' = [ticks EXCEPT ![k] = Resume(read, read.todo, job)]
    BY <1>1 DEF StartTick, job, list
  <2>2. singles \in Seq(Seq(Flights)) /\ Len(singles) = Len(list)
    <3>1. singles \in [1 .. Len(list) -> Seq(Flights)]
      BY <1>0
    <3> QED
      BY <1>0, <3>1
  <2>3. ASSUME NEW i \in 1 .. Len(singles)
        PROVE  Len(singles[i]) = 1 /\ AtLeast(oracle, singles[i], Wanted(job))
    <3>1. singles[i] = <<list[i]>> /\ list[i] \in Flights /\ oracle[list[i]].status # NoAccount
      BY <1>0, <2>2, <2>3
    <3>2. Rank(oracle[list[i]].status) >= 1
      BY <1>0, <3>1, RankOfStatus
    <3>3. Wanted(job) = 1
      BY <1>1 DEF Wanted
    <3> QED
      BY <3>1, <3>2, <3>3 DEF AtLeast
  <2> HIDE DEF singles
  <2>4. /\ read.todo = singles
        /\ read \in [todo : {read.todo}, tx : {read.tx},
                     claimables : {read.claimables}, day : {read.day}]
    BY DEF Idle
  <2> HIDE DEF read
  <2>5. Working(job, Resume(read, read.todo, job), oracle, aeroapi)
    BY <1>0, <2>2, <2>3, <2>4, ResumeWorks
  <2> QED
    BY <2>1, <2>5 DEF job
<1>2. CASE job = "classifier"
  <2> DEFINE read == [Idle EXCEPT !.todo = decideClassifierBatches]
  <2>1. ticks' = [ticks EXCEPT ![k] = Resume(read, read.todo, job)]
    BY <1>2 DEF StartTick, job
  <2>2. /\ read.todo = decideClassifierBatches
        /\ read \in [todo : {read.todo}, tx : {read.tx},
                     claimables : {read.claimables}, day : {read.day}]
    BY DEF Idle
  <2>3. Wanted(job) = 3
    BY <1>2 DEF Wanted
  <2>4. /\ decideClassifierBatches \in Seq(Seq(Flights))
        /\ \A i \in 1 .. Len(decideClassifierBatches) :
              AtLeast(oracle, decideClassifierBatches[i], 3)
    <3>1. \A f \in Flights : oracle[f].status \in {"Landed", "Cancelled"}
                               => Rank(oracle[f].status) >= 3
      BY Ranks
    <3> QED
      BY <1>0, <3>1, BatchesFounded DEF decideClassifierBatches
  <2> HIDE DEF read
  <2>5. Working(job, Resume(read, read.todo, job), oracle, aeroapi)
    BY <1>0, <1>2, <2>2, <2>3, <2>4, ResumeWorks
  <2> QED
    BY <2>1, <2>5 DEF job
<1>3. CASE job = "settler"
  <2> DEFINE read == [Idle EXCEPT !.todo = decideSettlementBatches,
                                  !.claimables = readWithdrawalQueueClaimables,
                                  !.day = Day(now)]
  <2>1. ticks' = [ticks EXCEPT ![k] = Resume(read, read.todo, job)]
    BY <1>3 DEF StartTick, job
  <2>2. /\ read.todo = decideSettlementBatches
        /\ read \in [todo : {read.todo}, tx : {read.tx},
                     claimables : {read.claimables}, day : {read.day}]
    BY DEF Idle
  <2>3. Wanted(job) = 4
    BY <1>3 DEF Wanted
  <2>4. /\ decideSettlementBatches \in Seq(Seq(Flights))
        /\ \A i \in 1 .. Len(decideSettlementBatches) :
              AtLeast(oracle, decideSettlementBatches[i], 4)
    <3>1. \A f \in Flights : oracle[f].status \in ToBeSettled => Rank(oracle[f].status) >= 4
      BY Ranks
    <3> QED
      BY <1>0, <3>1, BatchesFounded DEF decideSettlementBatches
  <2> HIDE DEF read
  <2>5. Working(job, Resume(read, read.todo, job), oracle, aeroapi)
    BY <1>0, <1>3, <2>2, <2>3, <2>4, ResumeWorks
  <2> QED
    BY <2>1, <2>5 DEF job
<1> QED
  BY <1>0, <1>1, <1>2, <1>3 DEF Jobs

\* A fetcher looks a flight up.
LEMMA LookUpWorks ==
    ASSUME ReportsInv, NEW k \in Ticks, LookUp(k)
    PROVE  \E tick : /\ ticks' = [ticks EXCEPT ![k] = tick]
                     /\ Working(JobOf[k], tick, oracle, aeroapi)
<1> DEFINE job == JobOf[k]
           tick == ticks[k]
           f == tick.todo[1][1]
           tx == decideFetcherActions(aeroapi[f], oracle[f].status, f)
<1>0. /\ Working(job, tick, oracle, aeroapi) /\ job \in Jobs
      /\ tick # Idle /\ tick.tx = NoTx
  BY ExecutorAssumption DEF ReportsInv, LookUp, IsIdle, Sending
<1>1. \/ ticks' = [ticks EXCEPT ![k] = Idle]
      \/ GoOn(k)
      \/ ticks' = [ticks EXCEPT ![k].tx = tx]
  BY DEF LookUp
<1>2. f \in Flights
  <2>1. /\ tick.todo \in Seq(Seq(Flights)) /\ tick.todo # << >> /\ job = "fetcher"
        /\ \A i \in 1 .. Len(tick.todo) : Len(tick.todo[i]) = 1
    BY <1>0 DEF Working
  <2>2. Len(tick.todo) \in Nat /\ Len(tick.todo) >= 1
    BY <2>1, LenProperties, EmptySeq
  <2>3. tick.todo[1] \in Seq(Flights) /\ Len(tick.todo[1]) = 1
    BY <2>1, <2>2, ElementOfSeq
  <2> QED
    BY <2>3, ElementOfSeq
<1>3. CASE ticks' = [ticks EXCEPT ![k] = Idle]
  BY <1>3, IdleWorks
<1>4. CASE GoOn(k)
  BY <1>0, <1>4, GoingOnWorks DEF GoOn
<1>5. CASE ticks' = [ticks EXCEPT ![k].tx = tx]
  <2> DEFINE next == [tick EXCEPT !.tx = tx]
  <2>1. Founded(tx, oracle, aeroapi)
    BY <1>2, DecisionFounded DEF ReportsInv
  <2>2. ticks' = [ticks EXCEPT ![k] = next]
    BY <1>5
  <2> HIDE DEF tx
  <2>3. /\ next.tx = tx /\ next.todo = tick.todo
        /\ next.claimables = tick.claimables /\ next.day = tick.day
        /\ next \in [todo : Seq(Seq(Flights)), tx : {tx},
                     claimables : {tick.claimables}, day : {tick.day}]
    BY <1>0 DEF Working
  <2> HIDE DEF next
  <2>4. Working(job, next, oracle, aeroapi)
    BY <1>0, <2>1, <2>3 DEF Working
  <2> QED
    BY <2>2, <2>4
<1> QED
  BY <1>1, <1>3, <1>4, <1>5

\* One tick goes on, the others wait.
LEMMA OneTickWorks ==
    ASSUME ReportsInv, NEW k \in Ticks, NEW tick,
           ticks' = [ticks EXCEPT ![k] = tick], Working(JobOf[k], tick, oracle, aeroapi)
    PROVE  /\ ticks' \in [Ticks -> {ticks'[j] : j \in Ticks}]
           /\ \A j \in Ticks : Working(JobOf[j], ticks'[j], oracle, aeroapi)
<1>1. ticks \in [Ticks -> {ticks[j] : j \in Ticks}]
  BY DEF ReportsInv
<1>2. ticks'[k] = tick /\ \A j \in Ticks \ {k} : ticks'[j] = ticks[j]
  BY <1>1
<1>3. DOMAIN ticks' = Ticks /\ ticks' = [j \in Ticks |-> ticks'[j]]
  BY <1>1
<1> QED
  BY <1>2, <1>3 DEF ReportsInv

-----------------------------------------------------------------------------
(* The steps of the executor and of those around it. *)

\* The service does not take back what the chain already holds.
LEMMA SeenLater ==
    ASSUME NEW o, NEW c, NEW answers, Reported(o, c, answers), NEW later,
           AnswersKept(answers, later)
    PROVE  Reported(o, c, later)
<1> SUFFICES ASSUME NEW f \in Flights
             PROVE  Seen(o[f], later[f])
  BY DEF Reported, AnswersKept
<1>1. Seen(o[f], answers[f])
  BY DEF Reported
<1>2. CASE later[f] = answers[f]
  BY <1>1, <1>2
<1>3. CASE /\ ~IsOver(answers[f])
           /\ answers[f].scheduled_in \in {None, later[f].scheduled_in}
  BY <1>1, <1>3 DEF Seen, IsOver
<1> QED
  BY <1>2, <1>3 DEF AnswersKept

\* A step of somebody else: the chain and the service stay as they are.
LEMMA NothingChanges ==
    ASSUME NEW o \in [Flights -> FlightData], NEW answers \in [Flights -> AeroFlight]
    PROVE  Onward(o, o) /\ AnswersKept(answers, answers)
<1>1. \A f \in Flights : Rank(o[f].status) \in Int
  BY RankOfStatus
<1> QED
  BY <1>1 DEF Onward, AnswersKept

\* What the service answers next.
LEMMA LearningKeeps ==
    ASSUME Reported(oracle, controller, aeroapi), NEW f \in Flights, AeroLearns(f)
    PROVE  AnswersKept(aeroapi, aeroapi')
<1>1. PICK answer \in Answers[f] :
        /\ ~IsOver(aeroapi[f])
        /\ aeroapi[f].scheduled_in \in {None, answer.scheduled_in}
        /\ aeroapi' = [aeroapi EXCEPT ![f] = answer]
  BY DEF AeroLearns
<1>2. answer \in AeroFlight /\ aeroapi \in [Flights -> AeroFlight]
  BY ExecutorAssumption DEF Reported
<1>3. /\ aeroapi' \in [Flights -> AeroFlight] /\ aeroapi'[f] = answer
      /\ \A g \in Flights \ {f} : aeroapi'[g] = aeroapi[g]
  BY <1>1, <1>2
<1> QED
  BY <1>1, <1>3 DEF AnswersKept

\* The environment's steps: only a sale concerns the oracle or the list.
LEMMA EnvironmentKeeps ==
    ASSUME Reported(oracle, controller, aeroapi), EnvironmentNext
    PROVE  /\ Reported(oracle', controller', aeroapi) /\ Onward(oracle, oracle')
           /\ UNCHANGED executorVars
<1>0. UNCHANGED executorVars
  BY DEF EnvironmentNext
<1>1. ASSUME UNCHANGED <<oracle, controller>>
      PROVE  Reported(oracle', controller', aeroapi) /\ Onward(oracle, oracle')
  BY <1>1, NothingChanges DEF Reported
<1>2. ASSUME LpNext
      PROVE  UNCHANGED <<oracle, controller>>
  BY <1>2 DEF LpNext, Deposit, Redeem, RequestWithdrawal, CancelWithdrawal, Collect
<1>3. ASSUME NEW t \in Travelers, NEW f \in Flights, NEW route \in Routes,
             buy_insurance(t, f, route)
      PROVE  Reported(oracle', controller', aeroapi) /\ Onward(oracle, oracle')
  BY <1>3, SaleKeeps
<1>4. ASSUME (\E route \in Routes : WhitelistRoute(Owner, route)) \/ ClockNext
      PROVE  UNCHANGED <<oracle, controller>>
  BY <1>4 DEF WhitelistRoute, ClockNext
<1>5. CASE LpNext \/ (\E route \in Routes : WhitelistRoute(Owner, route)) \/ ClockNext
  <2>1. UNCHANGED <<oracle, controller>>
    BY <1>2, <1>4, <1>5
  <2> QED
    BY <1>0, <1>1, <2>1
<1>6. CASE \E t \in Travelers, f \in Flights, route \in Routes : buy_insurance(t, f, route)
  BY <1>0, <1>3, <1>6
<1> QED
  BY <1>5, <1>6 DEF EnvironmentNext

\* What the chain and the service become, whoever takes the step.
LEMMA WorldMoves ==
    ASSUME ReportsInv, [ExecutorNext]_allVars
    PROVE  /\ Reported(oracle', controller', aeroapi')
           /\ Onward(oracle, oracle')
           /\ AnswersKept(aeroapi, aeroapi')
<1>0. /\ Reported(oracle, controller, aeroapi)
      /\ oracle \in [Flights -> FlightData] /\ aeroapi \in [Flights -> AeroFlight]
      /\ Onward(oracle, oracle) /\ AnswersKept(aeroapi, aeroapi)
  BY NothingChanges DEF ReportsInv, Reported
<1>1. ASSUME UNCHANGED <<vars, aeroapi>>
      PROVE  /\ Reported(oracle', controller', aeroapi')
             /\ Onward(oracle, oracle') /\ AnswersKept(aeroapi, aeroapi')
  BY <1>0, <1>1 DEF vars
<1>2. ASSUME NEW tx, Founded(tx, oracle, aeroapi), Lands(tx), UNCHANGED aeroapi
      PROVE  /\ Reported(oracle', controller', aeroapi')
             /\ Onward(oracle, oracle') /\ AnswersKept(aeroapi, aeroapi')
  BY <1>0, <1>2, LandsKeeps
<1>3. CASE EnvironmentNext
  BY <1>0, <1>3, EnvironmentKeeps DEF executorVars
<1>4. ASSUME NEW f \in Flights, AeroLearns(f)
      PROVE  /\ Reported(oracle', controller', aeroapi')
             /\ Onward(oracle, oracle') /\ AnswersKept(aeroapi, aeroapi')
  <2>1. AnswersKept(aeroapi, aeroapi') /\ UNCHANGED <<oracle, controller>>
    BY <1>0, <1>4, LearningKeeps DEF AeroLearns, vars
  <2> QED
    BY <1>0, <2>1, SeenLater
<1>5. ASSUME NEW k \in Ticks, TickNext(k)
      PROVE  /\ Reported(oracle', controller', aeroapi')
             /\ Onward(oracle, oracle') /\ AnswersKept(aeroapi, aeroapi')
  <2>1. CASE Confirmed(k)
    <3>1. Founded(ticks[k].tx, oracle, aeroapi)
      BY DEF ReportsInv, Working
    <3> QED
      BY <1>2, <2>1, <3>1 DEF Confirmed
  <2>2. CASE StartTick(k) \/ LookUp(k)
    BY <1>1, <2>2 DEF StartTick, LookUp
  <2>3. CASE Refused(k)
    BY <1>1, <2>3 DEF Refused
  <2> QED
    BY <1>5, <2>1, <2>2, <2>3 DEF TickNext
<1>6. CASE FaultNext
  <2>1. ASSUME NEW k \in Ticks, Missed(k) \/ TimesOut(k) \/ CutShort(k)
        PROVE  UNCHANGED <<vars, aeroapi>>
    BY <2>1 DEF Missed, TimesOut, CutShort
  <2>2. ASSUME NEW tx \in late, LandsLate(tx)
        PROVE  /\ Reported(oracle', controller', aeroapi')
               /\ Onward(oracle, oracle') /\ AnswersKept(aeroapi, aeroapi')
    BY <1>2, <2>2 DEF LandsLate, ReportsInv
  <2>3. ASSUME NEW tx \in late, Expires(tx)
        PROVE  UNCHANGED <<vars, aeroapi>>
    BY <2>3 DEF Expires
  <2> QED
    BY <1>1, <1>6, <2>1, <2>2, <2>3 DEF FaultNext
<1>7. CASE UNCHANGED allVars
  BY <1>1, <1>7 DEF allVars, executorVars
<1> QED
  BY <1>3, <1>4, <1>5, <1>6, <1>7 DEF ExecutorNext

\* What the ticks and the transactions given up become, seen from before.
LEMMA TicksMove ==
    ASSUME ReportsInv, [ExecutorNext]_allVars
    PROVE  /\ ticks' \in [Ticks -> {ticks'[j] : j \in Ticks}]
           /\ \A j \in Ticks : Working(JobOf[j], ticks'[j], oracle, aeroapi)
           /\ \A tx \in late' : Founded(tx, oracle, aeroapi)
<1> DEFINE TicksWork == /\ ticks' \in [Ticks -> {ticks'[j] : j \in Ticks}]
                        /\ \A j \in Ticks : Working(JobOf[j], ticks'[j], oracle, aeroapi)
           LateFounded == \A tx \in late' : Founded(tx, oracle, aeroapi)
<1>0. /\ \A k \in Ticks : JobOf[k] \in Jobs /\ Working(JobOf[k], ticks[k], oracle, aeroapi)
      /\ \A k \in Ticks : Founded(ticks[k].tx, oracle, aeroapi)
      /\ \A tx \in late : Founded(tx, oracle, aeroapi)
  BY ExecutorAssumption DEF ReportsInv, Working
<1>1. ASSUME UNCHANGED ticks
      PROVE  TicksWork
  BY <1>1 DEF ReportsInv
<1>2. ASSUME late' \subseteq late
      PROVE  LateFounded
  BY <1>0, <1>2
<1>3. ASSUME NEW k \in Ticks, ticks[k] # Idle, GoOn(k)
      PROVE  TicksWork
  <2> DEFINE tick == Resume(ticks[k], Tail(ticks[k].todo), JobOf[k])
  <2>1. ticks' = [ticks EXCEPT ![k] = tick]
    BY <1>3 DEF GoOn
  <2>2. Working(JobOf[k], tick, oracle, aeroapi)
    BY <1>0, <1>3, GoingOnWorks
  <2> HIDE DEF tick
  <2> QED
    BY <2>1, <2>2, OneTickWorks
<1>4. ASSUME NEW k \in Ticks, Sending(ticks[k])
      PROVE  ticks[k] # Idle
  BY <1>4, IdleWorks DEF Sending
<1> HIDE DEF TicksWork, LateFounded
<1>5. ASSUME EnvironmentNext \/ (\E f \in Flights : AeroLearns(f)) \/ UNCHANGED allVars
      PROVE  TicksWork /\ LateFounded
  <2>1. UNCHANGED <<ticks, late>>
    BY <1>5 DEF EnvironmentNext, AeroLearns, allVars, executorVars
  <2> QED
    BY <1>1, <1>2, <2>1
<1>6. ASSUME NEW k \in Ticks, TickNext(k)
      PROVE  TicksWork /\ LateFounded
  <2>1. UNCHANGED late
    BY <1>6 DEF TickNext, StartTick, LookUp, Confirmed, Refused
  <2>2. TicksWork
    <3>1. CASE StartTick(k)
      BY <3>1, StartWorks, OneTickWorks DEF TicksWork
    <3>2. CASE LookUp(k)
      BY <3>2, LookUpWorks, OneTickWorks DEF TicksWork
    <3>3. CASE Confirmed(k)
      BY <1>3, <1>4, <3>3 DEF Confirmed
    <3>4. CASE Refused(k)
      BY <1>3, <1>4, <3>4 DEF Refused
    <3> QED
      BY <1>6, <3>1, <3>2, <3>3, <3>4 DEF TickNext
  <2> QED
    BY <1>2, <2>1, <2>2
<1>7. ASSUME FaultNext
      PROVE  TicksWork /\ LateFounded
  <2>1. ASSUME NEW k \in Ticks, Missed(k)
        PROVE  TicksWork /\ LateFounded
    BY <1>2, <1>3, <2>1 DEF Missed, IsIdle
  <2>2. ASSUME NEW k \in Ticks, TimesOut(k)
        PROVE  TicksWork /\ LateFounded
    <3>1. TicksWork
      BY <1>3, <1>4, <2>2 DEF TimesOut
    <3>2. late' = late \cup {ticks[k].tx}
      BY <2>2 DEF TimesOut
    <3> QED
      BY <1>0, <3>1, <3>2 DEF LateFounded
  <2>3. ASSUME NEW k \in Ticks, CutShort(k)
        PROVE  TicksWork /\ LateFounded
    <3>1. ticks' = [ticks EXCEPT ![k] = Idle]
      BY <2>3 DEF CutShort
    <3>2. TicksWork
      BY <3>1, IdleWorks, OneTickWorks DEF TicksWork
    <3>3. late' \subseteq late \cup {ticks[k].tx}
      BY <2>3 DEF CutShort
    <3> QED
      BY <1>0, <3>2, <3>3 DEF LateFounded
  <2>4. ASSUME NEW tx \in late, LandsLate(tx) \/ Expires(tx)
        PROVE  TicksWork /\ LateFounded
    <3>1. UNCHANGED ticks /\ late' \subseteq late
      BY <2>4 DEF LandsLate, Expires
    <3> QED
      BY <1>1, <1>2, <3>1
  <2> QED
    BY <1>7, <2>1, <2>2, <2>3, <2>4 DEF FaultNext
<1>8. TicksWork /\ LateFounded
  BY <1>5, <1>6, <1>7 DEF ExecutorNext
<1> QED
  BY <1>8 DEF TicksWork, LateFounded

\* ReportsInv holds at first: nothing is listed, and no tick has begun.
LEMMA ReportsInit == ExecutorInit => ReportsInv
<1> SUFFICES ASSUME ExecutorInit
             PROVE  ReportsInv
  OBVIOUS
<1>1. /\ oracle = [f \in Flights |-> NoFlightData]
      /\ controller.active_flights = << >>
      /\ controller = [ active_flights            |-> controller.active_flights,
                        total_policies_sold       |-> controller.total_policies_sold,
                        total_premiums_collected  |-> controller.total_premiums_collected,
                        total_payouts_distributed |-> controller.total_payouts_distributed ]
  BY DEF ExecutorInit, SentinelInit, initialize_oracle, initialize_controller
<1>2. NoFlightData \in FlightData /\ NoFlightData.status = NoAccount
        /\ NoFlightData.actual_arrival_time = 0
  BY DEF NoFlightData, FlightData, FlightStatus
<1>3. NotFound \in AeroFlight
  BY DEF NotFound, AeroFlight, None
<1>4. Seen(NoFlightData, NotFound)
  BY <1>2 DEF Seen
<1>5. Reported(oracle, controller, aeroapi)
  <2>1. << >> \in Seq(Flights) /\ Len(<< >>) = 0
    BY EmptySeq
  <2> QED
    BY <1>1, <1>2, <1>3, <1>4, <2>1 DEF ExecutorInit, Reported, ListedExist
<1>6. /\ ticks \in [Ticks -> {ticks[k] : k \in Ticks}]
      /\ \A k \in Ticks : Working(JobOf[k], ticks[k], oracle, aeroapi)
  BY IdleWorks DEF ExecutorInit
<1> QED
  BY <1>5, <1>6 DEF ReportsInv, ExecutorInit

\* ReportsInv is inductive: a case for each job's step, the late transactions, the
\* service and the others.
LEMMA ReportsStep == ReportsInv /\ [ExecutorNext]_allVars => ReportsInv'
<1> SUFFICES ASSUME ReportsInv, [ExecutorNext]_allVars
             PROVE  ReportsInv'
  OBVIOUS
<1>1. /\ Reported(oracle', controller', aeroapi')
      /\ Onward(oracle, oracle') /\ AnswersKept(aeroapi, aeroapi')
  BY WorldMoves
<1>2. /\ ticks' \in [Ticks -> {ticks'[j] : j \in Ticks}]
      /\ \A j \in Ticks : Working(JobOf[j], ticks'[j], oracle, aeroapi)
      /\ \A tx \in late' : Founded(tx, oracle, aeroapi)
  BY TicksMove
<1>3. /\ oracle \in [Flights -> FlightData] /\ oracle' \in [Flights -> FlightData]
      /\ aeroapi \in [Flights -> AeroFlight]
  BY <1>1 DEF ReportsInv, Reported
<1>4. \A j \in Ticks : Working(JobOf[j], ticks'[j], oracle', aeroapi')
  BY <1>1, <1>2, <1>3, WorkingLater, ExecutorAssumption
<1>5. \A tx \in late' : Founded(tx, oracle', aeroapi')
  BY <1>1, <1>2, <1>3, FoundedLater
<1> QED
  BY <1>1, <1>2, <1>4, <1>5 DEF ReportsInv

\* ReportsInv is an invariant of the executor.
LEMMA ReportsInvariant == ExecutorSpec => []ReportsInv
BY ReportsInit, ReportsStep, PTL DEF ExecutorSpec

\* What the chain holds of a flight is what the service says of it, whatever
\* ticks overlap, give up, or land late (flight_data_fetcher.ts).
THEOREM ReportsMatchService == ExecutorSpec => []ChainMatchesService
<1>1. ReportsInv => ChainMatchesService
  <2> SUFFICES ASSUME ReportsInv, NEW f \in Flights
               PROVE  /\ Rank(oracle[f].status) >= 2
                           => oracle[f].estimated_arrival_time = aeroapi[f].scheduled_in
                      /\ Rank(oracle[f].status) >= 3
                           => IF aeroapi[f].cancelled
                              THEN oracle[f].actual_arrival_time = 0
                              ELSE oracle[f].actual_arrival_time = aeroapi[f].actual_in
    BY DEF ChainMatchesService
  <2>1. oracle[f] \in FlightData /\ Seen(oracle[f], aeroapi[f])
    BY DEF ReportsInv, Reported
  <2>2. /\ Rank(oracle[f].status) >= 2 => oracle[f].status \notin {NoAccount, "NotInitiated"}
        /\ Rank(oracle[f].status) >= 3
             => oracle[f].status \notin {NoAccount, "NotInitiated", "Active"}
    BY <2>1, RankOfStatus
  <2> QED
    BY <2>1, <2>2 DEF Seen
<1> QED
  BY <1>1, ReportsInvariant, PTL

\* A batch that is under way never names a flight that is not ready
\* (flight_classifier.ts, settlement_executor.ts).
THEOREM BatchesStayBehind == ExecutorSpec => []BatchesNeverAhead
<1>1. ReportsInv => BatchesNeverAhead
  <2> SUFFICES ASSUME ReportsInv
               PROVE  BatchesNeverAhead
    OBVIOUS
  <2>1. ASSUME NEW k \in Ticks, NEW i \in DOMAIN ticks[k].todo,
               NEW j \in DOMAIN ticks[k].todo[i]
        PROVE  Rank(oracle[ticks[k].todo[i][j]].status) >= Wanted(JobOf[k])
    <3>1. /\ ticks[k].todo \in Seq(Seq(Flights))
          /\ \A n \in 1 .. Len(ticks[k].todo) : AtLeast(oracle, ticks[k].todo[n], Wanted(JobOf[k]))
      BY DEF ReportsInv, Working
    <3>2. i \in 1 .. Len(ticks[k].todo)
      BY <2>1, <3>1, LenProperties
    <3>3. ticks[k].todo[i] \in Seq(Flights)
      BY <3>1, <3>2, ElementOfSeq
    <3>4. j \in 1 .. Len(ticks[k].todo[i])
      BY <2>1, <3>3, LenProperties
    <3> QED
      BY <3>1, <3>2, <3>4 DEF AtLeast
  <2>2. ASSUME NEW tx \in late, tx.kind = "settle", NEW j \in DOMAIN tx.batch
        PROVE  Rank(oracle[tx.batch[j]].status) >= 4
    <3>1. tx.batch \in Seq(Flights) /\ AtLeast(oracle, tx.batch, 4)
      BY <2>2 DEF ReportsInv, Founded, NoTx
    <3>2. j \in 1 .. Len(tx.batch)
      BY <2>2, <3>1, LenProperties
    <3> QED
      BY <3>1, <3>2 DEF AtLeast
  <2> QED
    BY <2>1, <2>2 DEF BatchesNeverAhead, Wanted
<1> QED
  BY <1>1, ReportsInvariant, PTL

-----------------------------------------------------------------------------
(* The pages add nothing to what the programs do. *)

\* The terms a page shows for what it read.
ShownFor(read) ==
    [ premium     |-> unwrap_or(read[1].premium, read[2].premium),
      payoff      |-> unwrap_or(read[1].payoff, read[2].payoff),
      delay_hours |-> unwrap_or(read[1].delay_hours, read[2].delay_hours) ]

\* A transaction a page has built.
Built(tx) ==
    /\ tx.traveler \in Travelers /\ tx.flight \in Flights
    /\ tx.op = "buy_insurance" => tx.route \in Routes /\ tx.shown = ShownFor(tx.read)

\* So are all that wait for a wallet.
PendingInv == \A tx \in pending : Built(tx)

\* The treasury's address the page derives is not the one in the program's
\* config: a claim it sends is always refused.
LEMMA PageClaimsRefused ==
    ASSUME NEW p, NEW f, NEW t
    PROVE  claim_with_treasury(p, f, t, poolTreasuryAta) = {}
<1>1. poolTreasuryAta # config_pool_treasury
  BY DEF poolTreasuryAta, config_pool_treasury, AtaOf
<1> QED
  BY <1>1 DEF claim_with_treasury

\* What the steps of the pages do to the chain.
LEMMA PagesMove ==
    ASSUME PendingInv, PagesNext
    PROVE  \/ UNCHANGED vars
           \/ \E tx \in pending : tx.op = "buy_insurance" /\ CoverLands(tx)
<1>1. ASSUME NEW t \in PageUsers,
             \/ LoadBuyState(t) \/ LoadPolicies(t)
             \/ \E f \in Flights : (\E r \in Routes : ClickCover(t, f, r)) \/ ClickClaim(t, f)
      PROVE  UNCHANGED vars
  BY <1>1 DEF LoadBuyState, LoadPolicies, ClickCover, ClickClaim, Sends
<1>2. ASSUME NEW tx \in pending, ClaimSent(tx)
      PROVE  UNCHANGED vars
  BY <1>2, PageClaimsRefused DEF ClaimSent, vars
<1>3. ASSUME NEW tx \in pending, CoverRejected(tx)
      PROVE  UNCHANGED vars
  BY <1>3 DEF CoverRejected
<1>4. ASSUME NEW tx \in pending, CoverLands(tx)
      PROVE  tx.op = "buy_insurance"
  BY <1>4 DEF CoverLands
<1> QED
  BY <1>1, <1>2, <1>3, <1>4 DEF PagesNext

\* No click has built a transaction yet.
LEMMA PendingInit == TravelerInit => PendingInv
BY DEF TravelerInit, PendingInv

\* What waits for a wallet stays a purchase or a claim of known accounts.
LEMMA PendingStep == PendingInv /\ [TravelerNext]_travelerVars => PendingInv'
<1> SUFFICES ASSUME PendingInv, [TravelerNext]_travelerVars
             PROVE  PendingInv'
  OBVIOUS
<1>1. ASSUME pending' \subseteq pending
      PROVE  PendingInv'
  BY <1>1 DEF PendingInv, Built
<1>2. ASSUME NEW t \in PageUsers, NEW f \in Flights, NEW r \in Routes, ClickCover(t, f, r)
      PROVE  PendingInv'
  <2> DEFINE read == << buy[t].routes[r], buy[t].defaults >>
             tx == [op |-> "buy_insurance", traveler |-> t, flight |-> f,
                    route |-> r, shown |-> resolvedTerms(buy[t], r), read |-> read]
  <2>1. pending' = pending \cup {tx}
    BY <1>2 DEF ClickCover, Sends
  <2>2. resolvedTerms(buy[t], r) = ShownFor(read)
    BY DEF resolvedTerms, ShownFor
  <2>3. Built(tx)
    <3>1. /\ tx.traveler = t /\ tx.flight = f /\ tx.route = r /\ tx.read = read
          /\ tx.shown = resolvedTerms(buy[t], r)
      OBVIOUS
    <3> HIDE DEF tx, read
    <3> QED
      BY <2>2, <3>1, TravelerPagesAssumption DEF Built
  <2> HIDE DEF tx
  <2> QED
    BY <2>1, <2>3 DEF PendingInv
<1>3. ASSUME NEW t \in PageUsers, NEW f \in Flights, ClickClaim(t, f)
      PROVE  PendingInv'
  <2> DEFINE tx == [op |-> "claim", traveler |-> t, flight |-> f]
  <2>1. pending' = pending \cup {tx}
    BY <1>3 DEF ClickClaim, Sends
  <2>2. Built(tx)
    BY TravelerPagesAssumption DEF Built
  <2> HIDE DEF tx
  <2> QED
    BY <2>1, <2>2 DEF PendingInv
<1>4. ASSUME NEW t \in PageUsers, LoadBuyState(t) \/ LoadPolicies(t)
      PROVE  PendingInv'
  BY <1>1, <1>4 DEF LoadBuyState, LoadPolicies
<1>5. ASSUME NEW tx \in pending, CoverLands(tx) \/ ClaimSent(tx) \/ CoverRejected(tx)
      PROVE  PendingInv'
  BY <1>1, <1>5 DEF CoverLands, ClaimSent, CoverRejected, Done
<1>6. CASE SentinelNext /\ UNCHANGED pageVars
  BY <1>1, <1>6 DEF pageVars
<1>7. CASE UNCHANGED travelerVars
  BY <1>1, <1>7 DEF travelerVars, pageVars
<1> QED
  BY <1>2, <1>3, <1>4, <1>5, <1>6, <1>7 DEF TravelerNext, PagesNext

\* A step of the pages is a step of the programs, or none.
LEMMA TravelerStep == PendingInv /\ [TravelerNext]_travelerVars => [SentinelNext]_vars
<1> SUFFICES ASSUME PendingInv, [TravelerNext]_travelerVars
             PROVE  [SentinelNext]_vars
  OBVIOUS
<1>1. CASE PagesNext
  <2>1. ASSUME NEW tx \in pending, tx.op = "buy_insurance", CoverLands(tx)
        PROVE  SentinelNext
    <3>1. tx.traveler \in Travelers /\ tx.flight \in Flights /\ tx.route \in Routes
      BY <2>1 DEF PendingInv, Built
    <3>2. buy_insurance(tx.traveler, tx.flight, tx.route)
      BY <2>1 DEF CoverLands
    <3> QED
      BY <3>1, <3>2 DEF SentinelNext, PoolNext
  <2> QED
    BY <1>1, <2>1, PagesMove
<1>2. CASE SentinelNext
  BY <1>2
<1>3. CASE UNCHANGED travelerVars
  BY <1>3 DEF travelerVars
<1> QED
  BY <1>1, <1>2, <1>3 DEF TravelerNext

\* Whatever the pages read, show and send, the programs go through nothing they
\* would not go through without them: every promise of the programs is one of
\* the system with its pages.
THEOREM PagesImplementPrograms == TravelerSpec => SentinelSpec
<1>1. TravelerInit => SentinelInit
  BY DEF TravelerInit
<1> QED
  BY <1>1, PendingInit, PendingStep, TravelerStep, PTL DEF TravelerSpec, SentinelSpec

-----------------------------------------------------------------------------
(* What a page's copy of a policy is worth. *)

\* A claim window is opened once, and stays.
WindowKept(pool, pool2) ==
    /\ pool.status \in Payable
          => pool2.status = pool.status /\ pool2.claim_expiry = pool.claim_expiry
    /\ pool.status \notin Payable /\ pool2.status \in Payable
          => pool2.claim_expiry = now + CLAIM_EXPIRY_WINDOW

\* Every step of the programs keeps the window of a pool that pays out, and opens
\* the others at the present.
LEMMA WindowsStay ==
    ASSUME FlightsInv, MoneyInv, [SentinelNext]_vars, NEW f \in Flights
    PROVE  WindowKept(flight_pool.pools[f], flight_pool'.pools[f])
<1>0. /\ flight_pool.pools[f] \in FlightPoolAccount
      /\ "Active" \notin Payable /\ NoAccount \notin Payable /\ "SettledOnTime" \notin Payable
  BY PoolFields DEF FlightsInv, FlightsTypeOK, Payable, NoAccount
<1>1. ASSUME flight_pool'.pools[f] = flight_pool.pools[f]
      PROVE  WindowKept(flight_pool.pools[f], flight_pool'.pools[f])
  BY <1>1 DEF WindowKept
<1>2. ASSUME NEW g \in Flights, NEW t \in Travelers, NEW pool \in FlightPoolAccount,
             PoolSold(g, t, pool)
      PROVE  WindowKept(flight_pool.pools[f], flight_pool'.pools[f])
  <2>1. CASE f = g
    BY <1>0, <1>2, <2>1 DEF PoolSold, WroteOnly, WindowKept
  <2>2. CASE f # g
    BY <1>1, <1>2, <2>2 DEF PoolSold, WroteOnly
  <2> QED
    BY <2>1, <2>2
<1>3. ASSUME NEW g \in Flights, NEW t \in Travelers, PoolClaimed(g, t)
      PROVE  WindowKept(flight_pool.pools[f], flight_pool'.pools[f])
  <2>1. CASE f = g
    <3>1. flight_pool'.pools[f] = [flight_pool.pools[f] EXCEPT !.claimed_count = @ + 1]
      BY <1>3, <2>1 DEF PoolClaimed, WroteOnly
    <3> QED
      BY <1>0, <3>1 DEF FlightPoolAccount, WindowKept
  <2>2. CASE f # g
    BY <1>1, <1>3, <2>2 DEF PoolClaimed, WroteOnly
  <2> QED
    BY <2>1, <2>2
<1>4. ASSUME NEW g \in Flights, PoolSwept(g)
      PROVE  WindowKept(flight_pool.pools[f], flight_pool'.pools[f])
  <2>1. CASE f = g
    <3>1. flight_pool'.pools[f] = [flight_pool.pools[f] EXCEPT
                                      !.claimed_count = flight_pool.pools[f].buyer_count]
      BY <1>4, <2>1 DEF PoolSwept, WroteOnly
    <3> QED
      BY <1>0, <3>1 DEF FlightPoolAccount, WindowKept
  <2>2. CASE f # g
    BY <1>1, <1>4, <2>2 DEF PoolSwept, WroteOnly
  <2> QED
    BY <2>1, <2>2
<1>5. ASSUME NEW amount, OwnerPaid(amount)
      PROVE  WindowKept(flight_pool.pools[f], flight_pool'.pools[f])
  BY <1>1, <1>5 DEF OwnerPaid
<1>6. ASSUME PoolsClosed
      PROVE  WindowKept(flight_pool.pools[f], flight_pool'.pools[f])
  <2>1. CASE Closed(flight_pool.pools[f], flight_pool'.pools[f])
    <3>1. flight_pool.pools[f].status \notin Payable
      BY <1>0, <2>1 DEF Closed
    <3>2. CASE flight_pool'.pools[f] = [flight_pool.pools[f] EXCEPT !.status = "SettledOnTime"]
      BY <1>0, <3>1, <3>2 DEF FlightPoolAccount, WindowKept
    <3>3. ASSUME NEW status \in Payable,
                 flight_pool'.pools[f] =
                    OpenPool(flight_pool.pools[f], status, now + CLAIM_EXPIRY_WINDOW)
          PROVE  WindowKept(flight_pool.pools[f], flight_pool'.pools[f])
      <4>1. flight_pool'.pools[f].claim_expiry = now + CLAIM_EXPIRY_WINDOW
        BY <1>0, <3>3 DEF FlightPoolAccount, OpenPool
      <4> QED
        BY <3>1, <4>1 DEF WindowKept
    <3> QED
      BY <2>1, <3>2, <3>3 DEF Closed
  <2>2. CASE flight_pool'.pools[f] = flight_pool.pools[f]
    BY <1>1, <2>2
  <2> QED
    BY <1>6, <2>1, <2>2 DEF PoolsClosed, Closes
<1>7. CASE flight_pool' = flight_pool
  BY <1>1, <1>7
<1> QED
  BY <1>2, <1>3, <1>4, <1>5, <1>6, <1>7, EveryStepPools

\* A copy may be older than the pool, never different from it where the pool
\* cannot change any more.
Ages(copy, pool) ==
    copy.status \in Payable
        => pool.status = copy.status /\ pool.claim_expiry = copy.claim_expiry

\* Every copy has aged so, and an open window has an end.
CopiesInv ==
    /\ policies \in [PageUsers -> [Flights -> {[record |-> record, pool |-> pool] :
                        record \in BuyerRecord, pool \in FlightPoolAccount}]]
    /\ \A t \in PageUsers, f \in Flights : Ages(policies[t][f].pool, flight_pool.pools[f])
    /\ \A f \in Flights :
          flight_pool.pools[f].status \in Payable => flight_pool.pools[f].claim_expiry > 0

\* No page holds a copy yet.
LEMMA CopiesInit == TravelerInit => CopiesInv
<1> SUFFICES ASSUME TravelerInit
             PROVE  CopiesInv
  OBVIOUS
<1>1. NoPool \in FlightPoolAccount /\ NoPool.status \notin Payable
  BY ChainAssumption DEF NoPool, FlightPoolAccount, Payable, NoAccount, U64, U32
<1>2. NoAccount \in BuyerRecord
  BY DEF BuyerRecord
<1>3. /\ flight_pool.pools = [f \in Flights |-> NoPool]
      /\ policies = [t \in PageUsers |-> [f \in Flights |-> NoPolicy]]
  BY DEF TravelerInit, SentinelInit, initialize_flight_pool
<1>4. NoPolicy.pool = NoPool
      /\ NoPolicy \in {[record |-> record, pool |-> pool] :
                          record \in BuyerRecord, pool \in FlightPoolAccount}
  <2> HIDE DEF NoPool
  <2> QED
    BY <1>1, <1>2 DEF NoPolicy
<1> HIDE DEF NoPool, NoPolicy
<1> QED
  BY <1>1, <1>3, <1>4 DEF CopiesInv, Ages

\* CopiesInv is inductive, where a window that opens ends after the epoch.
LEMMA CopiesStep ==
    ASSUME CLAIM_EXPIRY_WINDOW > 0
    PROVE  FlightsInv /\ MoneyInv /\ PendingInv /\ CopiesInv /\ [TravelerNext]_travelerVars
              => CopiesInv'
<1> SUFFICES ASSUME FlightsInv, MoneyInv, PendingInv, CopiesInv, [TravelerNext]_travelerVars
             PROVE  CopiesInv'
  OBVIOUS
<1> DEFINE Copy == {[record |-> record, pool |-> pool] :
                       record \in BuyerRecord, pool \in FlightPoolAccount}
<1>0. /\ flight_pool \in FlightPoolType /\ now \in Nat
      /\ [SentinelNext]_vars
  BY TravelerStep, ChainAssumption DEF FlightsInv, FlightsTypeOK, Time
<1>1. \A f \in Flights : WindowKept(flight_pool.pools[f], flight_pool'.pools[f])
  BY <1>0, WindowsStay
<1>2. ASSUME NEW f \in Flights, flight_pool'.pools[f].status \in Payable
      PROVE  flight_pool'.pools[f].claim_expiry > 0
  <2>1. now + CLAIM_EXPIRY_WINDOW > 0
    BY <1>0, ControllerAssumption
  <2> QED
    BY <1>1, <1>2, <2>1 DEF WindowKept, CopiesInv
<1>3. ASSUME NEW copy, NEW f \in Flights, Ages(copy, flight_pool.pools[f])
      PROVE  Ages(copy, flight_pool'.pools[f])
  BY <1>1, <1>3 DEF Ages, WindowKept
<1>4. CASE UNCHANGED policies
  <2>1. ASSUME NEW t \in PageUsers, NEW f \in Flights
        PROVE  Ages(policies'[t][f].pool, flight_pool'.pools[f])
    <3>1. Ages(policies[t][f].pool, flight_pool.pools[f])
      BY DEF CopiesInv
    <3> QED
      BY <1>3, <1>4, <3>1
  <2> QED
    BY <1>2, <1>4, <2>1 DEF CopiesInv
<1>5. ASSUME NEW t \in PageUsers, LoadPolicies(t)
      PROVE  CopiesInv'
  <2> DEFINE read == readMyPolicies(t)
  <2>1. ASSUME NEW f \in Flights
        PROVE  read[f] \in Copy /\ Ages(read[f].pool, flight_pool.pools[f])
    <3>1. /\ flight_pool.pools[f] \in FlightPoolAccount
          /\ flight_pool.buyers[f][t] \in BuyerRecord
      BY <1>0, PoolFields, TravelerPagesAssumption
    <3>2. CASE flight_pool.buyers[f][t] = NoAccount
      <4>1. read[f] = [record |-> NoAccount, pool |-> NoPool]
        BY <3>2 DEF readMyPolicies, NoPolicy
      <4>2. /\ NoPool \in FlightPoolAccount /\ NoPool.status \notin Payable
            /\ NoAccount \in BuyerRecord
        BY ChainAssumption
           DEF NoPool, FlightPoolAccount, Payable, NoAccount, U64, U32, BuyerRecord
      <4> HIDE DEF read
      <4> QED
        BY <4>1, <4>2 DEF Ages
    <3>3. CASE flight_pool.buyers[f][t] # NoAccount
      <4>1. read[f] = [record |-> flight_pool.buyers[f][t], pool |-> flight_pool.pools[f]]
        BY <3>3 DEF readMyPolicies
      <4> HIDE DEF read
      <4> QED
        BY <3>1, <4>1 DEF Ages
    <3> QED
      BY <3>2, <3>3
  <2>2. read \in [Flights -> Copy]
    <3>1. read = [f \in Flights |-> read[f]]
      BY DEF readMyPolicies
    <3> HIDE DEF read, Copy
    <3> QED
      BY <2>1, <3>1
  <2>3. policies' = [policies EXCEPT ![t] = read]
    BY <1>5 DEF LoadPolicies
  <2>4. /\ policies' \in [PageUsers -> [Flights -> Copy]] /\ policies'[t] = read
        /\ \A s \in PageUsers \ {t} : policies'[s] = policies[s]
    <3>1. policies \in [PageUsers -> [Flights -> Copy]]
      BY DEF CopiesInv
    <3> HIDE DEF read, Copy
    <3> QED
      BY <2>2, <2>3, <3>1
  <2>5. \A s \in PageUsers, f \in Flights : Ages(policies'[s][f].pool, flight_pool.pools[f])
    <3> HIDE DEF read
    <3> QED
      BY <2>1, <2>4 DEF CopiesInv
  <2>6. \A s \in PageUsers, f \in Flights : Ages(policies'[s][f].pool, flight_pool'.pools[f])
    BY <1>3, <2>5
  <2> HIDE DEF read
  <2> QED
    BY <1>2, <2>4, <2>6 DEF CopiesInv
<1>6. CASE PagesNext
  <2>1. ASSUME NEW t \in PageUsers,
               \/ LoadBuyState(t)
               \/ \E f \in Flights : (\E r \in Routes : ClickCover(t, f, r)) \/ ClickClaim(t, f)
        PROVE  UNCHANGED policies
    BY <2>1 DEF LoadBuyState, ClickCover, ClickClaim, Sends
  <2>2. ASSUME NEW tx \in pending, CoverLands(tx) \/ ClaimSent(tx) \/ CoverRejected(tx)
        PROVE  UNCHANGED policies
    BY <2>2 DEF CoverLands, ClaimSent, CoverRejected, Done
  <2> QED
    BY <1>4, <1>5, <1>6, <2>1, <2>2 DEF PagesNext
<1>7. CASE (SentinelNext /\ UNCHANGED pageVars) \/ UNCHANGED travelerVars
  <2>1. UNCHANGED policies
    BY <1>7 DEF pageVars, travelerVars
  <2> QED
    BY <1>4, <2>1
<1> QED
  BY <1>6, <1>7 DEF TravelerNext

\* flight_pool pays a policy that is not claimed yet while the window is open.
LEMMA ClaimPaid ==
    ASSUME FlightsInv, MoneyInv, CountedInv, NEW f \in Flights, NEW t \in Travelers,
           flight_pool.pools[f].status \in Payable,
           now <= flight_pool.pools[f].claim_expiry,
           flight_pool.buyers[f][t] = "HasPolicy"
    PROVE  claim(flight_pool, f, t) # {}
<1> DEFINE pool == flight_pool.pools[f]
           records == flight_pool.buyers[f]
           share == [g \in Flights |-> Share(flight_pool.pools[g])]
           unclaimed == pool.buyer_count - pool.claimed_count
<1>0. /\ flight_pool \in FlightPoolType /\ Excess(flight_pool) = 0
      /\ pool \in FlightPoolAccount /\ records \in [Travelers -> BuyerRecord]
      /\ \A g \in Flights : Counted(flight_pool.pools[g], flight_pool.buyers[g], now)
      /\ now \in Nat /\ pool.claim_expiry \in Nat
  BY PoolFields, ChainAssumption
     DEF FlightsInv, FlightsTypeOK, MoneyInv, CountedInv, Time, FlightPoolAccount
<1>1. pool.claimed_count = Cardinality(Paid(records))
  BY <1>0 DEF Counted
<1>2. t \in Held(records) \ Paid(records)
  BY DEF Held, Paid, NoAccount
<1>3. unclaimed \in Nat /\ unclaimed >= 1
  <2>1. Paid(records) \in SUBSET Held(records) /\ Held(records) \in SUBSET Travelers
    BY <1>0, CountedNumbers
  <2>2. /\ Cardinality(Paid(records)) <= Cardinality(Held(records))
        /\ Cardinality(Paid(records)) # Cardinality(Held(records))
    BY <1>2, <2>1, Travelling
  <2>3. Cardinality(Paid(records)) \in Nat /\ Cardinality(Held(records)) \in Nat
    BY <2>1, Travelling
  <2>4. pool.buyer_count = Cardinality(Held(records))
    BY <1>0 DEF Counted
  <2> QED
    BY <1>1, <2>2, <2>3, <2>4
<1>4. pool.payoff \in Nat /\ pool.payoff <= unclaimed * pool.payoff
  <2>1. pool.payoff \in Nat
    BY <1>0, PoolNumbers
  <2>2. pool.payoff * 1 <= pool.payoff * unclaimed
    <3>1. unclaimed \in Int /\ 1 \in Int /\ 1 <= unclaimed
      BY <1>3
    <3> HIDE DEF unclaimed, pool
    <3> QED
      BY <2>1, <3>1, ProductMonotonic
  <2>3. pool.payoff * 1 = pool.payoff /\ pool.payoff * unclaimed = unclaimed * pool.payoff
    BY <1>3, <2>1
  <2> QED
    BY <2>1, <2>2, <2>3
<1>5. ASSUME NEW g \in Flights PROVE Share(flight_pool.pools[g]) \in Nat
  <2> DEFINE q == flight_pool.pools[g]
  <2>1. /\ q \in FlightPoolAccount /\ flight_pool.buyers[g] \in [Travelers -> BuyerRecord]
        /\ Counted(q, flight_pool.buyers[g], now)
    BY <1>0, PoolFields
  <2> HIDE DEF q
  <2>2. /\ q.buyer_count - q.claimed_count \in Nat /\ q.payoff \in Nat
        /\ q.premium * q.buyer_count \in Nat
    BY <2>1, CountedNumbers, PoolNumbers
  <2>3. (q.buyer_count - q.claimed_count) * q.payoff \in Nat
    BY <2>2, Products
  <2> QED
    BY <2>2, <2>3 DEF Share, q
<1>6. share \in [Flights -> Nat] /\ share[f] = unclaimed * pool.payoff
         /\ Shares(flight_pool) = SumFunction(share)
  BY <1>5 DEF Share, Shares, Payable
<1> HIDE DEF share, unclaimed
<1>7. unclaimed * pool.payoff <= Shares(flight_pool) /\ Shares(flight_pool) \in Nat
  BY <1>6, SumOfNaturals, FlightsAssumption
<1>8. /\ flight_pool.pool_treasury - flight_pool.recovered_balance - Shares(flight_pool) = 0
      /\ flight_pool.pool_treasury \in Nat /\ flight_pool.recovered_balance \in Nat
  BY <1>0, Balances DEF Excess
<1>9. pool.payoff <= flight_pool.pool_treasury
  <2>1. unclaimed * pool.payoff \in Nat
    BY <1>3, <1>4, Products
  <2> QED
    BY <1>4, <1>7, <1>8, <2>1
<1>10. pool.claimed_count + 1 \in U32
  <2>1. pool.claimed_count \in Nat /\ pool.buyer_count \in U32
    BY <1>0, PoolNumbers DEF FlightPoolAccount
  <2>2. unclaimed = pool.buyer_count - pool.claimed_count
    BY DEF unclaimed
  <2> QED
    BY <1>3, <2>1, <2>2, ChainAssumption DEF U32
<1> QED
  BY <1>9, <1>10 DEF claim, When

\* A claim the /portfolio page offers is owed, however long ago the page was
\* loaded; and what is owed is offered by a page just loaded.  The window is not
\* empty: a claim_expiry of 0 means "none yet" to the page.
THEOREM OfferedClaimsAreOwed ==
    ASSUME CLAIM_EXPIRY_WINDOW > 0
    PROVE  TravelerSpec => []OfferedClaimIsOwed
<1>1. ASSUME FlightsInv, MoneyInv, CountedInv, CopiesInv
      PROVE  OfferedClaimIsOwed
  <2> SUFFICES ASSUME NEW t \in PageUsers, NEW f \in Flights
               PROVE  /\ eligible(policies[t][f]) /\ flight_pool.buyers[f][t] = "HasPolicy"
                            => claim(flight_pool, f, t) # {}
                      /\ claim(flight_pool, f, t) # {} => eligible(readMyPolicies(t)[f])
    BY DEF OfferedClaimIsOwed
  <2> DEFINE pool == flight_pool.pools[f]
  <2>0. /\ t \in Travelers /\ now \in Nat /\ pool \in FlightPoolAccount /\ pool.claim_expiry \in Nat
    BY <1>1, TravelerPagesAssumption, PoolFields, ChainAssumption
       DEF FlightsInv, FlightsTypeOK, Time, FlightPoolAccount
  <2>1. ASSUME eligible(policies[t][f]), flight_pool.buyers[f][t] = "HasPolicy"
        PROVE  claim(flight_pool, f, t) # {}
    <3>1. policies[t][f].pool.status \in Payable /\ ~expired(policies[t][f])
      BY <2>1 DEF eligible
    <3>2. /\ pool.status \in Payable /\ pool.claim_expiry > 0
          /\ pool.claim_expiry = policies[t][f].pool.claim_expiry
      BY <1>1, <3>1 DEF CopiesInv, Ages
    <3>3. now <= pool.claim_expiry
      BY <2>0, <3>1, <3>2 DEF expired
    <3> QED
      BY <1>1, <2>0, <2>1, <3>2, <3>3, ClaimPaid
  <2>2. ASSUME claim(flight_pool, f, t) # {}
        PROVE  eligible(readMyPolicies(t)[f])
    <3>1. /\ pool.status \in Payable /\ now <= pool.claim_expiry
          /\ flight_pool.buyers[f][t] = "HasPolicy"
      BY <2>2 DEF claim, When
    <3> DEFINE copy == readMyPolicies(t)[f]
    <3>2. copy = [record |-> "HasPolicy", pool |-> pool]
      BY <3>1 DEF readMyPolicies, NoAccount
    <3> HIDE DEF copy
    <3>3. copy.record = "HasPolicy" /\ copy.pool = pool
      BY <3>2
    <3>4. eligible(copy)
      BY <2>0, <3>1, <3>3 DEF eligible, expired
    <3> QED
      BY <3>4 DEF copy
  <2> QED
    BY <2>1, <2>2
<1>2. TravelerSpec => [](FlightsInv /\ ListInv /\ MoneyInv /\ CountedInv)
  BY PagesImplementPrograms, RecordsInvariant, PTL
<1> QED
  BY <1>1, <1>2, PendingInit, PendingStep, CopiesInit, CopiesStep, PTL DEF TravelerSpec

-----------------------------------------------------------------------------
(* What the first buyer of a flight is sold. *)

\* buy_insurance, for a flight without a pool.
LEMMA FirstSale ==
    ASSUME FlightsInv, NEW t \in Travelers, NEW f \in Flights, NEW r \in Routes,
           buy_insurance(t, f, r), flight_pool.pools[f].status = NoAccount
    PROVE  LET sold == flight_pool'.pools[f]
               shown == ShownFor(<< governance.routes[r], governance.default_terms >>)
           IN  /\ sold.premium = shown.premium /\ sold.payoff = shown.payoff
               /\ sold.delay_hours = shown.delay_hours
<1>1. PICK terms \in get_route_terms(governance, r) :
         \E mid \in PoolForBuyer(flight_pool, f, terms) : flight_pool' \in add_buyer(mid, f, t)
  BY DEF buy_insurance
<1>2. PICK mid \in register_pool(flight_pool, f, terms) : flight_pool' \in add_buyer(mid, f, t)
  BY <1>1 DEF PoolForBuyer
<1>3. terms = ShownFor(<< governance.routes[r], governance.default_terms >>)
  BY DEF get_route_terms, When, ShownFor
<1>4. terms \in ResolvedTerms /\ flight_pool \in FlightPoolType
  BY TermsResolved DEF FlightsInv, FlightsTypeOK
<1> DEFINE opened == [NoPool EXCEPT !.status = "Active", !.premium = terms.premium,
                                    !.payoff = terms.payoff,
                                    !.delay_hours = terms.delay_hours]
<1>5. mid \in FlightPoolType /\ mid.pools[f] = opened
  <2>1. /\ mid \in FlightPoolType
        /\ WroteOnly(flight_pool, mid, f, opened, flight_pool.buyers[f],
                     flight_pool.recovered_balance, flight_pool.pool_treasury)
    BY <1>4, RegisterPool DEF PoolStep
  <2> HIDE DEF opened
  <2> QED
    BY <2>1 DEF WroteOnly
<1>6. SameTerms(mid.pools[f], flight_pool'.pools[f])
  BY <1>2, <1>5, AddBuyerPool
<1>7. /\ opened.premium = terms.premium /\ opened.payoff = terms.payoff
      /\ opened.delay_hours = terms.delay_hours
  BY DEF NoPool
<1> HIDE DEF opened
<1> QED
  BY <1>3, <1>5, <1>6, <1>7 DEF SameTerms

\* The first buyer of a flight gets what the /buy page showed when it was
\* clicked, as long as the accounts it was read from have not changed.
THEOREM FirstBuyersGetShownTerms == TravelerSpec => FirstBuyerGetsShownTerms
<1>1. FlightsInv /\ PendingInv /\ [TravelerNext]_travelerVars
        => [\A tx \in pending \ pending' :
              Sold(tx) /\ Unchanged(tx) /\ Pool(tx.flight).status = NoAccount
                 => SoldAsShown(tx)]_travelerVars
  <2> SUFFICES ASSUME FlightsInv, PendingInv, TravelerNext,
                      NEW tx \in pending \ pending', Sold(tx), Unchanged(tx),
                      Pool(tx.flight).status = NoAccount
               PROVE  SoldAsShown(tx)
    OBVIOUS
  <2> DEFINE f == tx.flight
             r == tx.route
  <2>1. /\ tx.traveler \in Travelers /\ f \in Flights /\ r \in Routes
        /\ tx.shown = ShownFor(tx.read)
        /\ tx.read = << governance.routes[r], governance.default_terms >>
    BY DEF Sold, Unchanged, PendingInv, Built
  <2>2. CoverLands(tx)
    <3>1. PagesNext
      BY DEF TravelerNext, pageVars
    <3>2. ~ UNCHANGED flight_pool
      BY DEF Sold
    <3>3. PICK other \in pending : CoverLands(other)
      BY <3>1, <3>2, PagesMove DEF vars
    <3>4. pending' = pending \ {other}
      BY <3>3 DEF CoverLands, Done
    <3> QED
      BY <3>3, <3>4
  <2>3. buy_insurance(tx.traveler, f, r) /\ flight_pool.pools[f].status = NoAccount
    BY <2>2 DEF CoverLands, Pool
  <2>4. /\ flight_pool'.pools[f].premium = tx.shown.premium
        /\ flight_pool'.pools[f].payoff = tx.shown.payoff
        /\ flight_pool'.pools[f].delay_hours = tx.shown.delay_hours
    BY <2>1, <2>3, FirstSale
  <2> QED
    BY <2>4 DEF SoldAsShown, Pool
<1>2. TravelerSpec => []FlightsInv
  BY PagesImplementPrograms, FlightsInvariant, PTL
<1> QED
  BY <1>1, <1>2, PendingInit, PendingStep, PTL DEF TravelerSpec, FirstBuyerGetsShownTerms

\* With the pages too, a pool keeps the terms of its first sale.
THEOREM PageTermsStayFrozen == TravelerSpec => PolicyTermsFrozen
BY PagesImplementPrograms, TermsStayFrozen, PTL
=============================================================================
